\* The example graphs and others, with failures everywhere.
SPECIFICATION FairSpec
CONSTANTS
    Key <- MCKey
    Value <- MCValue
    Empty = Empty
    None = None
    Default = "default"
    Node <- MCNode
    Root = "graph"
    ContractOf <- MCContractOf
    Flow <- MCFlow
    TestsDict <- MCTestsDict
    Channel <- MCChannel
    Caller <- MCCaller
    Nobody = "nobody"
    Setting <- MCSetting
INVARIANTS
    TypeOK
    SurfacesShowPublicState
    EvidenceMatchesFate
    TablesForgetEndedRuns
    ExportersTellTheRun
    InstallationIsTold
PROPERTIES
    ImplementsPlainGraph
    ChangesHaveAnAuthor
    CallbacksKeepTheirTables
    GraphEnds
