\* One call, every mode, all contracts, states and updates of MCContractRun.
SPECIFICATION Spec
CONSTANTS
    Key <- MCKey
    Value = {"v", "w"}
    Empty = Empty
    None = None
    Run = {r1}
    Contract <- MCAllContracts
    State <- MCStates
    Update <- MCUpdates
    Access <- MCAccess
    MaxLateReads = 1
INVARIANT ObserveChangesNothing
