CONSTANTS
    List = {ready_list, waiting_list}
    Item = {a, b, c, d}
    Null = null
SPECIFICATION ListSpec
INVARIANTS ChainsAgree NeighboursTell
PROPERTY ImplementsItemLists
SYMMETRY ItemSymmetry
