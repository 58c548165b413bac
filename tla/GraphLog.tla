------------------------------- MODULE GraphLog -------------------------------
(***************************************************************************)
(* GraphLogCallback (logging/callback.py) with the payload assembly of     *)
(* logging/lifecycle.py, the correlation context of logging/context.py and *)
(* the invoke config of logging/invoke_config.py: the structured log that  *)
(* is written while LangChain runs start, end and fail.                    *)
(*                                                                         *)
(* raise_error is set: what a handler raises reaches the graph run.        *)
(***************************************************************************)
EXTENDS Integers, Sequences, SequencesExt, Functions

CONSTANTS ChainRun,   \* LangChain run ids
          SlotOrder,  \* the slots of a LogContext, in the order of its fields
          Name,       \* metadata names: correlation field names and others
          Id,         \* correlation identifiers and other metadata values
          None,       \* an identifier that is not given
          Context,    \* the log contexts: an identifier or None for each slot
          Fields,     \* the field configurations: a metadata name for each slot
          Given,      \* the metadata build_invoke_config is given
          MaxClock    \* bound on the clock

Slot == Range(SlotOrder)

\* Metadata: a dictionary from some names to values.
Metadata == UNION {[names -> Id] : names \in SUBSET Name}

ASSUME GraphLogAssumption ==
    /\ None \notin Id /\ MaxClock \in Nat
    /\ SlotOrder \in Seq(Slot)
    /\ Context \subseteq [Slot -> Id \cup {None}]
    /\ Fields \subseteq [Slot -> Name]
    /\ Given \subseteq Metadata

NoMetadata == [n \in {} |-> None]

VARIABLES context,    \* LogContext: an identifier or None for each slot
          fields,     \* CorrelationFields: a metadata name for each slot
          config,     \* the metadata of build_invoke_config, or its ValueError
          pc,         \* where each run stands
          metadata,   \* the metadata dictionary of each run
          startedAt,  \* _started_at_ns
          remembered, \* _metadata_by_run
          records,    \* the log records of each run
          clock,      \* perf_counter_ns
          begun       \* when each run really began

settings == <<context, fields, config>>
vars == <<settings, pc, metadata, startedAt, remembered, records, clock, begun>>

-------------------------------------------------------------------------------
(* Correlation.                                                            *)

\* as_mapping: a later slot of the same name replaces an earlier one, before
\* the slots that are not given are left out.
AsMapping ==
    LET value(n) == context[SlotOrder[SelectLastInSeq(SlotOrder, LAMBDA s : fields[s] = n)]]
    IN  [n \in {m \in Range(fields) : value(m) # None} |-> value(n)]

\* reject_correlation_conflict, for the names that both dictionaries have.
Conflict(left, right) == \E n \in DOMAIN left \cap DOMAIN right : left[n] # right[n]

Override(left, right) ==
    [n \in DOMAIN left \cup DOMAIN right |-> IF n \in DOMAIN right THEN right[n] ELSE left[n]]

CorrelationOf(data) == Restrict(data, DOMAIN data \cap Range(fields))

\* Mutant: metadata silently wins over the log context.
NoConflict(data) == FALSE

\* merge_correlation raises.
Conflicting(data) == Conflict(AsMapping, CorrelationOf(data))

\* merge_correlation.
MergeCorrelation(data) == Override(AsMapping, CorrelationOf(data))

\* Mutant: the caller's metadata is kept as it is.
KeepCallers(data) == [raised |-> FALSE, metadata |-> data]

\* merge_metadata of build_invoke_config, which raises on a conflict.
MergeMetadata(data) ==
    IF Conflict(data, AsMapping)
    THEN [raised |-> TRUE, metadata |-> data]
    ELSE [raised |-> FALSE, metadata |-> Override(data, AsMapping)]

\* base_payload and the fields added to it.  duration_ms is a set: empty for None.
Record(event, data, duration) ==
    [event |-> event, correlation |-> MergeCorrelation(data), keys |-> DOMAIN data,
     duration |-> duration]

DurationMissing ==
    [event |-> "duration_missing", correlation |-> NoMetadata, keys |-> {}, duration |-> {}]

With(table, r, value) ==
    [q \in DOMAIN table \cup {r} |-> IF q = r THEN value ELSE table[q]]

Without(table, r) == Restrict(table, DOMAIN table \ {r})

-------------------------------------------------------------------------------

Init ==
    /\ context \in Context
    /\ fields \in Fields
    /\ config \in {MergeMetadata(data) : data \in Given}
    /\ pc = [r \in ChainRun |-> "new"]
    /\ metadata = [r \in ChainRun |-> config.metadata]
    /\ startedAt = [r \in {} |-> 0]
    /\ remembered = [r \in {} |-> NoMetadata]
    /\ records = [r \in ChainRun |-> <<>>]
    /\ clock = 0
    /\ begun = [r \in ChainRun |-> 0]

Tick ==
    /\ clock < MaxClock
    /\ clock' = clock + 1
    /\ UNCHANGED <<settings, pc, metadata, startedAt, remembered, records, begun>>

\* A runnable of the graph adds metadata of its own to what it inherits.
AddMetadata(r) ==
    /\ ~config.raised
    /\ pc[r] = "new" /\ metadata[r] = config.metadata
    /\ \E n \in Name, v \in Id : metadata' = [metadata EXCEPT ![r] = Override(@, [m \in {n} |-> v])]
    /\ UNCHANGED <<settings, pc, startedAt, remembered, records, clock, begun>>

\* The owner of the metadata dictionary changes it while the run goes on.
ChangeMetadata(r) ==
    /\ pc[r] = "running"
    /\ \E n \in DOMAIN metadata[r] : metadata' = [metadata EXCEPT ![r] = Without(@, n)]
    /\ UNCHANGED <<settings, pc, startedAt, remembered, records, clock, begun>>

\* Mutant: the caller's dictionary itself is remembered.
Alias(r) == metadata[r]

\* The copy that _start made of the metadata, empty without a start.
Copied(r) == IF r \in DOMAIN remembered THEN remembered[r] ELSE NoMetadata

\* _start: the tables are filled before the payload is built and emitted.  When the
\* logger raises, or another callback after this one, the run never begins.
Start(r) ==
    /\ ~config.raised
    /\ pc[r] = "new"
    /\ startedAt' = With(startedAt, r, clock)
    /\ remembered' = With(remembered, r, metadata[r])
    /\ begun' = [begun EXCEPT ![r] = clock]
    /\ \/ /\ Conflicting(metadata[r])
          /\ pc' = [pc EXCEPT ![r] = "conflicted"]
          /\ UNCHANGED records
       \/ /\ ~Conflicting(metadata[r])
          /\ records' = [records EXCEPT ![r] = Append(@, Record("start", metadata[r], {}))]
          /\ \E next \in {"running", "refused"} : pc' = [pc EXCEPT ![r] = next]
       \/ /\ ~Conflicting(metadata[r])    \* the logger raises
          /\ pc' = [pc EXCEPT ![r] = "refused"]
          /\ UNCHANGED records
    /\ UNCHANGED <<settings, metadata, clock>>

\* The callback is attached when the run has already started.
UnseenStart(r) ==
    /\ ~config.raised
    /\ pc[r] = "new"
    /\ pc' = [pc EXCEPT ![r] = "running"]
    /\ begun' = [begun EXCEPT ![r] = clock]
    /\ UNCHANGED <<settings, metadata, startedAt, remembered, records, clock>>

\* Mutant: the operands are swapped.
SwappedDuration(r) == IF r \in DOMAIN startedAt THEN {startedAt[r] - clock} ELSE {}

\* Mutant: one start time for all runs.
AnyStart(r) ==
    IF DOMAIN startedAt = {} THEN {} ELSE {clock - startedAt[CHOOSE q \in DOMAIN startedAt : TRUE]}

\* _duration_ms.
DurationMs(r) == IF r \in DOMAIN startedAt THEN {clock - startedAt[r]} ELSE {}

\* What _finish and _error emit when nothing raises.
Complete(r, event) ==
    (IF r \in DOMAIN startedAt THEN <<>> ELSE <<DurationMissing>>)
        \o <<Record(event, Copied(r), DurationMs(r))>>

\* Emitting stops at the first record the logger raises on, and before the last
\* one if its payload cannot be built.
Emitted(r, event) ==
    LET complete == Complete(r, event)
    IN  {SubSeq(complete, 1, k) : k \in 0..Len(complete) - (IF Conflicting(Copied(r)) THEN 1 ELSE 0)}

\* _finish.  When it raises, or another callback after this one, the graph that
\* ended reports its failure next.
Finish(r) ==
    /\ pc[r] = "running"
    /\ startedAt' = Without(startedAt, r)
    /\ remembered' = Without(remembered, r)
    /\ \E log \in Emitted(r, "end") :
        /\ records' = [records EXCEPT ![r] = @ \o log]
        /\ \E next \in {"ended", "failing"} :
            /\ log # Complete(r, "end") => next = "failing"
            /\ pc' = [pc EXCEPT ![r] = next]
    /\ UNCHANGED <<settings, metadata, clock, begun>>

\* Mutant: a failed run's start time is read but not removed.
ErrorKeepsTime(r) ==
    /\ pc[r] \in {"running", "failing"}
    /\ remembered' = Without(remembered, r)
    /\ \E log \in Emitted(r, "error") :
        /\ records' = [records EXCEPT ![r] = @ \o log]
        /\ pc' = [pc EXCEPT ![r] = IF log = Complete(r, "error") THEN "ended" ELSE "broken"]
    /\ UNCHANGED <<settings, metadata, startedAt, clock, begun>>

\* _error.  When it raises, nothing of the run comes after it.
Error(r) ==
    /\ pc[r] \in {"running", "failing"}
    /\ startedAt' = Without(startedAt, r)
    /\ remembered' = Without(remembered, r)
    /\ \E log \in Emitted(r, "error") :
        /\ records' = [records EXCEPT ![r] = @ \o log]
        /\ pc' = [pc EXCEPT ![r] = IF log = Complete(r, "error") THEN "ended" ELSE "broken"]
    /\ UNCHANGED <<settings, metadata, clock, begun>>

-------------------------------------------------------------------------------

\* build_invoke_config raised, or no run has an event left.
Finished ==
    /\ config.raised \/ \A r \in ChainRun : pc[r] \in {"ended", "broken", "refused", "conflicted"}
    /\ UNCHANGED vars

Next ==
    \/ Tick
    \/ \E r \in ChainRun : \/ AddMetadata(r) \/ ChangeMetadata(r)
                           \/ Start(r) \/ UnseenStart(r) \/ Finish(r) \/ Error(r)
    \/ Finished

Spec == Init /\ [][Next]_vars

-------------------------------------------------------------------------------
(* What CallbackTable says of the log.                                     *)

Phase(r) == CASE pc[r] = "new" -> "new"
              [] pc[r] = "running" -> "going"
              [] pc[r] = "failing" -> "failing"
              [] pc[r] = "ended" -> "over"
              [] OTHER -> "broken"

Events(log) == [i \in DOMAIN log |-> log[i].event]

Table == INSTANCE CallbackTable WITH
    First <- TRUE, phase <- [r \in ChainRun |-> Phase(r)], kept <- ChainRun,
    open <- DOMAIN startedAt, told <- [r \in ChainRun |-> Events(records[r])]

-------------------------------------------------------------------------------
(* Properties.                                                             *)

RecordType ==
    [event : {"start", "end", "error", "duration_missing"}, correlation : Metadata,
     keys : SUBSET Name, duration : {{}} \cup {{d} : d \in 0..MaxClock}]

\* The tables are keyed by runs; a duration is never negative.
TypeOK ==
    /\ context \in Context /\ fields \in Fields
    /\ config \in [raised : BOOLEAN, metadata : Metadata]
    /\ pc \in [ChainRun -> {"new", "running", "failing", "ended", "broken", "refused", "conflicted"}]
    /\ metadata \in [ChainRun -> Metadata]
    /\ DOMAIN startedAt \subseteq ChainRun /\ Range(startedAt) \subseteq 0..MaxClock
    /\ DOMAIN remembered \subseteq ChainRun /\ Range(remembered) \subseteq Metadata
    /\ \A r \in ChainRun : \A i \in DOMAIN records[r] : records[r][i] \in RecordType
    /\ clock \in 0..MaxClock /\ begun \in [ChainRun -> 0..MaxClock]

\* Every start, end and error record carries each identifier of the log context
\* under its own field name, whatever metadata the run has and even when the
\* start of the run was never seen.
RecordsCarryContext ==
    \A r \in ChainRun : \A i \in DOMAIN records[r] : \A s \in Slot :
        LET found == records[r][i].correlation
        IN  /\ records[r][i].event # "duration_missing"
            /\ context[s] # None
            /\ \A other \in Slot \ {s} : fields[other] # fields[s]
            => fields[s] \in DOMAIN found /\ found[fields[s]] = context[s]

\* A config that build_invoke_config returned never makes the callback abort a
\* run: only metadata the run itself added to it can conflict with the context.
BuiltConfigNeverAborts ==
    \A r \in ChainRun :
        pc[r] = "conflicted" =>
            \E n \in Range(fields) :
                n \in DOMAIN metadata[r] /\
                (n \in DOMAIN config.metadata => metadata[r][n] # config.metadata[n])

\* The last record of a run has the identifiers and metadata keys of its start
\* record and the time since then, although the caller's dictionary may have
\* changed; without a time it is announced by a duration_missing warning.
LastRecordMatchesStart ==
    \A r \in ChainRun : pc[r] \in {"ended", "broken"} /\ records[r] # <<>> =>
        LET log == records[r]
            last == log[Len(log)]
        IN  IF last.event \notin {"end", "error"} THEN TRUE
            ELSE IF last.duration = {}
            THEN Len(log) > 1 /\ log[Len(log) - 1].event = "duration_missing"
            ELSE log[1].event = "start" /\ Len(log) = 2
                 /\ last.correlation = log[1].correlation /\ last.keys = log[1].keys

\* A duration is the time since the start of the same run.
DurationIsOwn ==
    [][\A r \in ChainRun :
        LET log == records'[r]
        IN  log # records[r] /\ log[Len(log)].duration # {}
            => log[Len(log)].duration = {clock - begun[r]}]_vars

\* The log tells the start of a run and then its end or its error, each once and in
\* this order, with a warning only of a run whose start time it has not; it keeps an
\* entry from the start to the first end, whatever raises.  A run whose last event
\* raised nowhere has its end or its error in the log.
ImplementsTable == Table!TableSpec
===============================================================================
