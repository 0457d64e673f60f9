---------------------------- MODULE MCMessaging ----------------------------
(***************************************************************************)
(* Instances of the queue: two readers and two writers, or three processes *)
(* of which one opened the queue DSOS_RDWR.                                *)
(***************************************************************************)
EXTENDS Messaging

CONSTANTS init, clock, r1, r2, w1, w2, rw, none

FourUsers == {init, clock, r1, r2, w1, w2}
TwoReaders == <<r1, r2>>
TwoWriters == <<w1, w2>>

ThreeUsers == {init, clock, r1, w1, rw}
ReaderAndBoth == <<rw, r1>>
WriterAndBoth == <<w1, rw>>

TwoUsers == {init, clock, r1, w1}
OneReader == <<r1>>
OneWriter == <<w1>>

InitWaits == {init}

=============================================================================
