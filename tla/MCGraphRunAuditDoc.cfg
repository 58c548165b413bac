\* The example langgraph_contracts under AUDIT.
SPECIFICATION Spec
CONSTANTS
    Key <- MCKey
    Value <- MCValue
    Empty = Empty
    None = None
    Default = "default"
    Node <- MCNode
    Root = "graph"
    ContractOf <- MCContractOf
    Flow <- MCFlow
    TestsDict <- MCTestsDict
    Channel <- MCChannel
    Caller <- MCCaller
    Nobody = "nobody"
    Setting <- MCAuditSetting
INVARIANT PassThroughReturnsPlainUpdate
