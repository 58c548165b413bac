\* Two subgraphs and two supersteps.
SPECIFICATION Spec
CONSTANTS
    Key <- MCKey
    Value = {"v", "w"}
    Empty = Empty
    None = None
    Sub <- MCSub
    ContractOf <- MCContractOf
    State <- MCState
    InnerUpdate <- MCInnerUpdate
    MaxInner = 2
    MaxSteps = 2
INVARIANT FullValueIsReturned
