\* Two overlapping runs under every context, field configuration and metadata.
SPECIFICATION Spec
CONSTANTS
    ChainRun = {c1, c2}
    SlotOrder <- MCSlotOrder
    Name = {"session_id", "request_id"}
    Id = {"a", "b"}
    None = "none"
    Context <- MCContext
    Fields <- MCFields
    Given <- MCGiven
    MaxClock = 1
SYMMETRY RunSymmetry
INVARIANTS
    TypeOK
    RecordsCarryContext
    BuiltConfigNeverAborts
    LastRecordMatchesStart
PROPERTIES
    DurationIsOwn
    ImplementsTable
