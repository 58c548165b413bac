\* Two overlapping calls under the fairness of the wrapper.
SPECIFICATION FairSpec
CONSTANTS
    Key <- MCKey
    Value = {"v", "w"}
    Empty = Empty
    None = None
    Run = {r1, r2}
    Contract <- MCPairContracts
    State <- MCPairStates
    Update <- MCPairUpdates
    Access <- MCPairAccess
    MaxLateReads = 1
INVARIANTS
    BlameIsLocal
PROPERTIES
    EveryLeftCallEnds
