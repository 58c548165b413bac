\* Two overlapping runs of any nodes, and one projection_stats call.
SPECIFICATION Spec
CONSTANTS
    Key <- MCKey
    Value = {"v"}
    Empty = Empty
    None = None
    ChainRun = {c1, c2}
    Node <- MCNode
    Labelled <- MCLabelled
    Payload <- MCPayload
    Opaque = Opaque
SYMMETRY RunSymmetry
INVARIANTS
    TypeOK
    PayloadsFollowTheContract
    StatsAgreeWithStarts
PROPERTIES
    ImplementsTable
