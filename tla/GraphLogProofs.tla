---------------------------- MODULE GraphLogProofs ----------------------------
(***************************************************************************)
(* Theorems about GraphLog, for any set of runs, slots, names, contexts    *)
(* and metadata.                                                           *)
(***************************************************************************)
EXTENDS GraphLog, FiniteSetsExt, SequenceTheorems, WellFoundedInduction, TLAPS

-------------------------------------------------------------------------------
(* The correlation of the log context.                                     *)

\* A set of positions has a last one.
LEMMA LastIsThere ==
    ASSUME NEW n \in Nat, NEW I \in SUBSET (1..n), I # {}
    PROVE  Max(I) \in I
  <1> DEFINE T == {n - i : i \in I}
             R == OpToRel(<, Nat)
  <1> HIDE DEF R
  <1>0. \A i \in I : i \in 1..n /\ n - i \in Nat
    OBVIOUS
  <1>1. T \in SUBSET Nat /\ T # {}
    BY <1>0
  <1>2. PICK x \in T : \A y \in T : <<y, x>> \notin R
    BY <1>1, NatLessThanWellFounded, WFMin DEF R
  <1>3. PICK i \in I : x = n - i
    BY <1>2
  <1>4. ASSUME NEW j \in I
        PROVE  i >= j
    <2>1. n - j \in T /\ n - j \in Nat /\ n - i \in Nat
      BY <1>0
    <2>2. <<n - j, n - i>> \notin R
      BY <1>2, <1>3, <2>1
    <2>3. ~(n - j < n - i)
      BY <2>1, <2>2 DEF OpToRel, R
    <2> QED
      BY <2>3
  <1> QED
    BY <1>4 DEF Max

\* Metadata is a dictionary of identifiers.
LEMMA IsMetadata ==
    ASSUME NEW data
    PROVE  data \in Metadata <=>
            /\ data = [n \in DOMAIN data |-> data[n]]
            /\ DOMAIN data \subseteq Name
            /\ \A n \in DOMAIN data : data[n] \in Id
  BY DEF Metadata

\* The slot whose identifier a name gets: the last one of that name.
LEMMA LastSlot ==
    ASSUME fields \in Fields, NEW n \in Range(fields)
    PROVE  LET i == SelectLastInSeq(SlotOrder, LAMBDA s : fields[s] = n)
           IN  SlotOrder[i] \in Slot /\ fields[SlotOrder[i]] = n
  <1> DEFINE I == {i \in 1..Len(SlotOrder) : fields[SlotOrder[i]] = n}
  <1>1. /\ SlotOrder \in Seq(Slot) /\ Len(SlotOrder) \in Nat
        /\ DOMAIN SlotOrder = 1..Len(SlotOrder)
    BY GraphLogAssumption
  <1>2. DOMAIN fields = Slot
    BY GraphLogAssumption
  <1>3. I # {}
    <2>1. PICK s \in Slot : fields[s] = n
      BY <1>2 DEF Range
    <2>2. PICK i \in 1..Len(SlotOrder) : SlotOrder[i] = s
      BY <1>1, <2>1 DEF Slot, Range
    <2> QED
      BY <2>1, <2>2
  <1>4. Max(I) \in I
    BY <1>1, <1>3, LastIsThere
  <1>5. SelectLastInSeq(SlotOrder, LAMBDA s : fields[s] = n) = Max(I)
    BY <1>3 DEF SelectLastInSeq
  <1> QED
    BY <1>1, <1>4, <1>5

\* The context as a dictionary: given identifiers only, under configured names;
\* every identifier whose name no other slot shares is there.
LEMMA AsMappingIs ==
    ASSUME context \in Context, fields \in Fields
    PROVE  /\ AsMapping \in Metadata
           /\ DOMAIN AsMapping \subseteq Range(fields)
           /\ \A s \in Slot :
                /\ context[s] # None
                /\ \A other \in Slot \ {s} : fields[other] # fields[s]
                => fields[s] \in DOMAIN AsMapping /\ AsMapping[fields[s]] = context[s]
  <1> DEFINE slot(n) == SlotOrder[SelectLastInSeq(SlotOrder, LAMBDA s : fields[s] = n)]
             names == {n \in Range(fields) : context[slot(n)] # None}
  <1>1. \A n \in Range(fields) : slot(n) \in Slot /\ fields[slot(n)] = n
    BY LastSlot
  <1>2. AsMapping = [n \in names |-> context[slot(n)]]
    BY DEF AsMapping
  <1>3. /\ context \in [Slot -> Id \cup {None}]
        /\ fields \in [Slot -> Name]
    BY GraphLogAssumption
  <1> HIDE DEF slot
  <1>4. Range(fields) \subseteq Name /\ \A s \in Slot : fields[s] \in Range(fields)
    BY <1>3 DEF Range
  <1>5. /\ AsMapping = [n \in DOMAIN AsMapping |-> AsMapping[n]]
        /\ DOMAIN AsMapping = names
        /\ \A n \in names : AsMapping[n] = context[slot(n)]
    BY <1>2
  <1>6. \A n \in names : AsMapping[n] \in Id
    BY <1>1, <1>3, <1>5
  <1>7. AsMapping \in Metadata
    BY <1>4, <1>5, <1>6, IsMetadata
  <1>8. ASSUME NEW s \in Slot, context[s] # None,
               \A other \in Slot \ {s} : fields[other] # fields[s]
        PROVE  fields[s] \in DOMAIN AsMapping /\ AsMapping[fields[s]] = context[s]
    <2>1. slot(fields[s]) = s
      BY <1>1, <1>4, <1>8
    <2> QED
      BY <1>4, <1>5, <1>8, <2>1
  <1> QED
    BY <1>5, <1>7, <1>8

-------------------------------------------------------------------------------
(* The inductive invariant.                                                *)

\* The metadata of a config that was built agrees with the log context.
ConfigInv ==
    ~config.raised =>
        \A n \in DOMAIN AsMapping :
            n \in DOMAIN config.metadata /\ config.metadata[n] = AsMapping[n]

\* The tables are functions, and a start time is the time the run began.
TablesInv ==
    /\ startedAt = [r \in DOMAIN startedAt |-> startedAt[r]]
    /\ remembered = [r \in DOMAIN remembered |-> remembered[r]]
    /\ \A r \in ChainRun : begun[r] <= clock
    /\ \A r \in DOMAIN startedAt : startedAt[r] = begun[r]

\* Both tables hold the same runs, those going on whose start was seen; only a
\* run that was not allowed to start leaves its entries behind.
TablesHoldLiveRuns ==
    /\ DOMAIN startedAt = DOMAIN remembered
    /\ \A r \in DOMAIN startedAt : pc[r] \in {"running", "refused", "conflicted"}

\* A record with a payload carries each identifier that has a name of its own.
CarriesContext(record) ==
    record.event # "duration_missing" =>
        \A s \in Slot :
            /\ context[s] # None
            /\ \A other \in Slot \ {s} : fields[other] # fields[s]
            => /\ fields[s] \in DOMAIN record.correlation
               /\ record.correlation[fields[s]] = context[s]

\* What was logged of a run before its end: the record of its start, if the start
\* was seen, with the metadata that is remembered.
StartLog(r) ==
    IF r \in DOMAIN startedAt THEN <<Record("start", remembered[r], {})>> ELSE <<>>

\* LastRecordMatchesStart, of one log.
EndedWell(log) ==
    log # <<>> =>
        LET last == log[Len(log)]
        IN  IF last.event \notin {"end", "error"} THEN TRUE
            ELSE IF last.duration = {}
            THEN Len(log) > 1 /\ log[Len(log) - 1].event = "duration_missing"
            ELSE log[1].event = "start" /\ Len(log) = 2
                 /\ last.correlation = log[1].correlation /\ last.keys = log[1].keys

LogInv(r) ==
    /\ \A i \in DOMAIN records[r] : CarriesContext(records[r][i])
    /\ pc[r] = "new" => records[r] = <<>>
    /\ pc[r] = "running" => records[r] = StartLog(r)
    /\ pc[r] = "failing" => EndedWell(records[r])

IInv ==
    /\ TypeOK /\ records \in [ChainRun -> Seq(RecordType)]
    /\ ConfigInv /\ TablesInv /\ TablesHoldLiveRuns
    /\ BuiltConfigNeverAborts /\ LastRecordMatchesStart
    /\ \A r \in ChainRun : LogInv(r)

-------------------------------------------------------------------------------
(* Records.                                                                *)

\* The settings never change, so neither does what is made of them.
LEMMA SettingsAreFixed ==
    ASSUME UNCHANGED settings
    PROVE  /\ AsMapping' = AsMapping
           /\ \A event, data, duration :
                Record(event, data, duration)' = Record(event, data, duration)
           /\ \A data : Conflicting(data)' = Conflicting(data)
           /\ \A record : CarriesContext(record)' = CarriesContext(record)
           /\ ConfigInv' = ConfigInv
  <1>1. context' = context /\ fields' = fields /\ config' = config
    BY DEF settings
  <1>2. AsMapping' = AsMapping
    BY <1>1 DEF AsMapping, SelectLastInSeq
  <1>3. \A data : CorrelationOf(data)' = CorrelationOf(data)
    BY <1>1 DEF CorrelationOf
  <1>4. \A data : MergeCorrelation(data)' = MergeCorrelation(data)
    BY <1>2, <1>3 DEF MergeCorrelation
  <1>5. \A event, data, duration : Record(event, data, duration)' = Record(event, data, duration)
    BY <1>4 DEF Record
  <1>6. \A data : Conflicting(data)' = Conflicting(data)
    BY <1>2, <1>3 DEF Conflicting
  <1>7. \A record : CarriesContext(record)' = CarriesContext(record)
    BY <1>1 DEF CarriesContext
  <1>8. ConfigInv' = ConfigInv
    BY <1>1, <1>2 DEF ConfigInv
  <1> QED
    BY <1>2, <1>5, <1>6, <1>7, <1>8

\* The correlation that is taken from metadata, and what overrides what.
LEMMA OverrideIs ==
    ASSUME NEW left \in Metadata, NEW right \in Metadata
    PROVE  /\ Override(left, right) \in Metadata
           /\ DOMAIN Override(left, right) = DOMAIN left \cup DOMAIN right
           /\ \A n \in DOMAIN Override(left, right) :
                Override(left, right)[n] = IF n \in DOMAIN right THEN right[n] ELSE left[n]
  <1> DEFINE both == Override(left, right)
  <1>1. both = [n \in DOMAIN left \cup DOMAIN right |-> IF n \in DOMAIN right THEN right[n] ELSE left[n]]
    BY DEF Override
  <1>2. /\ both = [n \in DOMAIN both |-> both[n]]
        /\ DOMAIN both = DOMAIN left \cup DOMAIN right
        /\ \A n \in DOMAIN both : both[n] = IF n \in DOMAIN right THEN right[n] ELSE left[n]
    BY <1>1
  <1> HIDE DEF both
  <1>3. /\ DOMAIN left \subseteq Name /\ DOMAIN right \subseteq Name
        /\ \A n \in DOMAIN left : left[n] \in Id
        /\ \A n \in DOMAIN right : right[n] \in Id
    BY IsMetadata
  <1>4. both \in Metadata
    BY <1>2, <1>3, IsMetadata
  <1> QED
    BY <1>2, <1>4 DEF both

\* The correlation of a run is the part of its metadata under the configured names.
LEMMA CorrelationIs ==
    ASSUME NEW data \in Metadata
    PROVE  /\ CorrelationOf(data) \in Metadata
           /\ DOMAIN CorrelationOf(data) = DOMAIN data \cap Range(fields)
           /\ \A n \in DOMAIN CorrelationOf(data) : CorrelationOf(data)[n] = data[n]
  <1> DEFINE part == CorrelationOf(data)
             names == DOMAIN data \cap Range(fields)
  <1>1. part = [n \in names |-> data[n]]
    BY DEF CorrelationOf, Restrict
  <1>2. /\ part = [n \in DOMAIN part |-> part[n]]
        /\ DOMAIN part = names /\ \A n \in names : part[n] = data[n]
    BY <1>1
  <1> HIDE DEF part
  <1>3. part \in Metadata
    BY <1>2, IsMetadata
  <1> QED
    BY <1>2, <1>3 DEF part

\* A record of metadata that does not conflict has the identifiers of the context.
LEMMA RecordIs ==
    ASSUME context \in Context, fields \in Fields, NEW data \in Metadata,
           NEW event \in {"start", "end", "error"},
           NEW duration \in {{}} \cup {{d} : d \in 0..MaxClock}
    PROVE  /\ Record(event, data, duration) \in RecordType
           /\ ~Conflicting(data) => CarriesContext(Record(event, data, duration))
  <1>1. AsMapping \in Metadata /\ CorrelationOf(data) \in Metadata
    BY AsMappingIs, CorrelationIs
  <1>2. /\ MergeCorrelation(data) \in Metadata
        /\ DOMAIN MergeCorrelation(data) = DOMAIN AsMapping \cup DOMAIN CorrelationOf(data)
        /\ \A n \in DOMAIN MergeCorrelation(data) :
            MergeCorrelation(data)[n] =
                IF n \in DOMAIN CorrelationOf(data) THEN CorrelationOf(data)[n] ELSE AsMapping[n]
    BY <1>1, OverrideIs DEF MergeCorrelation
  <1>3. Record(event, data, duration) \in RecordType
    BY <1>2, IsMetadata DEF Record, RecordType
  <1>4. ASSUME ~Conflicting(data), NEW n \in DOMAIN AsMapping
        PROVE  n \in DOMAIN MergeCorrelation(data) /\ MergeCorrelation(data)[n] = AsMapping[n]
    BY <1>2, <1>4 DEF Conflicting, Conflict
  <1>5. ASSUME ~Conflicting(data)
        PROVE  CarriesContext(Record(event, data, duration))
    BY <1>4, <1>5, AsMappingIs DEF CarriesContext, Record
  <1> QED
    BY <1>3, <1>5

\* Sequences of one or two elements, which the logs of a run are made of.
LEMMA ShortSequences ==
    ASSUME NEW a, NEW b
    PROVE  /\ <<>> \o <<a>> = <<a>> /\ <<a>> \o <<>> = <<a>> /\ <<a>> \o <<b>> = <<a, b>>
           /\ SubSeq(<<a>>, 1, 0) = <<>> /\ SubSeq(<<a>>, 1, 1) = <<a>>
           /\ SubSeq(<<a, b>>, 1, 0) = <<>> /\ SubSeq(<<a, b>>, 1, 1) = <<a>>
           /\ SubSeq(<<a, b>>, 1, 2) = <<a, b>>
  <1> DEFINE both == <<a>> \o <<b>>
             first == SubSeq(<<a, b>>, 1, 1)
  <1>1. /\ <<a>> \in Seq({a, b}) /\ Len(<<a>>) = 1 /\ <<a>>[1] = a
        /\ <<b>> \in Seq({a, b}) /\ Len(<<b>>) = 1 /\ <<b>>[1] = b
        /\ <<a, b>> \in Seq({a, b}) /\ Len(<<a, b>>) = 2 /\ <<a, b>>[1] = a /\ <<a, b>>[2] = b
    OBVIOUS
  <1>2. both = <<a, b>>
    <2>1. both \in Seq({a, b}) /\ Len(both) = 2
      BY <1>1, ConcatProperties
    <2>2. both[1] = a /\ both[2] = b
      BY <1>1, ConcatProperties
    <2>3. \A i \in 1..2 : both[i] = <<a, b>>[i]
      BY <1>1, <2>2
    <2> QED
      BY <1>1, <2>1, <2>3, SeqEqual
  <1>3. first = <<a>>
    <2>1. first \in Seq({a, b}) /\ Len(first) = 1
      BY <1>1, SubSeqProperties
    <2>2. first[1] = a
      BY <1>1, SubSeqProperties
    <2>3. \A i \in 1..1 : first[i] = <<a>>[i]
      BY <1>1, <2>2
    <2> QED
      BY <1>1, <2>1, <2>3, SeqEqual
  <1>4. <<>> \o <<a>> = <<a>> /\ <<a>> \o <<>> = <<a>>
    BY <1>1, ConcatEmptySeq
  <1>5. SubSeq(<<a>>, 1, 1) = <<a>> /\ SubSeq(<<a, b>>, 1, 2) = <<a, b>>
    BY <1>1, SubSeqFull
  <1>6. SubSeq(<<a>>, 1, 0) = <<>> /\ SubSeq(<<a, b>>, 1, 0) = <<>>
    OBVIOUS
  <1> QED
    BY <1>2, <1>3, <1>4, <1>5, <1>6

\* What the end or the error of a run may write: as much of the warning of a
\* missing time and the last record as the logger takes.
LEMMA EmittedIs ==
    ASSUME NEW r, NEW event, NEW log \in Emitted(r, event)
    PROVE  LET last == Record(event, Copied(r), DurationMs(r))
           IN  \/ log = <<>>
               \/ r \notin DOMAIN startedAt /\ log = <<DurationMissing>>
               \/ r \notin DOMAIN startedAt /\ ~Conflicting(Copied(r)) /\ log = <<DurationMissing, last>>
               \/ r \in DOMAIN startedAt /\ ~Conflicting(Copied(r)) /\ log = <<last>>
  <1> DEFINE last == Record(event, Copied(r), DurationMs(r))
             complete == Complete(r, event)
  <1>1. complete = IF r \in DOMAIN startedAt THEN <<last>> ELSE <<DurationMissing, last>>
    BY ShortSequences DEF Complete
  <1>2. PICK k \in 0..Len(complete) - (IF Conflicting(Copied(r)) THEN 1 ELSE 0) :
            log = SubSeq(complete, 1, k)
    BY DEF Emitted
  <1> HIDE DEF last, complete
  <1>3. CASE r \in DOMAIN startedAt
    <2>1. complete = <<last>> /\ Len(complete) = 1
      BY <1>1, <1>3
    <2>2. \/ k = 0
          \/ k = 1 /\ ~Conflicting(Copied(r))
      BY <1>2, <2>1
    <2>3. k = 0 => log = <<>>
      BY <1>2, <2>1, ShortSequences
    <2>4. k = 1 => log = <<last>>
      BY <1>2, <2>1, ShortSequences
    <2> QED
      BY <1>3, <2>2, <2>3, <2>4 DEF last
  <1>4. CASE r \notin DOMAIN startedAt
    <2>1. complete = <<DurationMissing, last>> /\ Len(complete) = 2
      BY <1>1, <1>4
    <2>2. \/ k \in {0, 1}
          \/ k = 2 /\ ~Conflicting(Copied(r))
      BY <1>2, <2>1
    <2>3. k = 0 => log = <<>>
      BY <1>2, <2>1, ShortSequences
    <2>4. k = 1 => log = <<DurationMissing>>
      BY <1>2, <2>1, ShortSequences
    <2>5. k = 2 => log = <<DurationMissing, last>>
      BY <1>2, <2>1, ShortSequences
    <2> QED
      BY <1>4, <2>2, <2>3, <2>4, <2>5 DEF last
  <1> QED
    BY <1>3, <1>4

-------------------------------------------------------------------------------
(* The end of a run's log.                                                 *)

\* What a run remembers of its start is metadata and a time that is not ahead.
LEMMA RememberedIs ==
    ASSUME IInv, NEW r \in ChainRun
    PROVE  /\ Copied(r) \in Metadata
           /\ r \in DOMAIN startedAt =>
                /\ Copied(r) = remembered[r]
                /\ DurationMs(r) = {clock - begun[r]}
           /\ r \notin DOMAIN startedAt => DurationMs(r) = {}
           /\ DurationMs(r) \in {{}} \cup {{d} : d \in 0..MaxClock}
  <1>1. NoMetadata \in Metadata
    <2>1. NoMetadata = [n \in DOMAIN NoMetadata |-> NoMetadata[n]] /\ DOMAIN NoMetadata = {}
      BY DEF NoMetadata
    <2> QED
      BY <2>1, IsMetadata
  <1>2. r \in DOMAIN remembered => remembered[r] \in Metadata
    BY DEF IInv, TypeOK, Range
  <1>3. Copied(r) \in Metadata
    BY <1>1, <1>2 DEF Copied
  <1>4. r \in DOMAIN startedAt => DurationMs(r) = {clock - begun[r]} /\ clock - begun[r] \in 0..MaxClock
    BY GraphLogAssumption DEF IInv, TypeOK, TablesInv, DurationMs
  <1> QED
    BY <1>3, <1>4 DEF IInv, TablesHoldLiveRuns, Copied, DurationMs

\* The record of the start and the last record, or what stands for them.
LEMMA LogGrows ==
    ASSUME IInv, NEW r \in ChainRun, pc[r] \in {"running", "failing"},
           NEW event \in {"end", "error"}, NEW log \in Emitted(r, event)
    PROVE  LET new == records[r] \o log
           IN  /\ new \in Seq(RecordType)
               /\ \A i \in DOMAIN new : CarriesContext(new[i])
               /\ EndedWell(new)
               /\ new # records[r] /\ new[Len(new)].duration # {} =>
                    new[Len(new)].duration = {clock - begun[r]}
  <1> DEFINE last == Record(event, Copied(r), DurationMs(r))
             start == Record("start", remembered[r], {})
             new == records[r] \o log
  <1>1. /\ last \in RecordType
        /\ ~Conflicting(Copied(r)) => CarriesContext(last)
    BY RememberedIs, RecordIs DEF IInv, TypeOK
  <1>2. DurationMissing \in RecordType /\ CarriesContext(DurationMissing)
    <2>1. NoMetadata = [n \in DOMAIN NoMetadata |-> NoMetadata[n]] /\ DOMAIN NoMetadata = {}
      BY DEF NoMetadata
    <2>2. NoMetadata \in Metadata
      BY <2>1, IsMetadata
    <2> QED
      BY <2>2 DEF DurationMissing, RecordType, CarriesContext
  <1>3. /\ records[r] \in Seq(RecordType)
        /\ \A i \in DOMAIN records[r] : CarriesContext(records[r][i])
    BY DEF IInv, LogInv
  <1>4. /\ last.event = event /\ last.duration = DurationMs(r)
        /\ last.correlation = MergeCorrelation(Copied(r)) /\ last.keys = DOMAIN Copied(r)
        /\ start.event = "start" /\ start.duration = {}
        /\ start.correlation = MergeCorrelation(remembered[r]) /\ start.keys = DOMAIN remembered[r]
        /\ DurationMissing.event = "duration_missing" /\ DurationMissing.duration = {}
    BY DEF Record, DurationMissing
  <1>5. \/ log = <<>>
        \/ r \notin DOMAIN startedAt /\ log = <<DurationMissing>>
        \/ r \notin DOMAIN startedAt /\ ~Conflicting(Copied(r)) /\ log = <<DurationMissing, last>>
        \/ r \in DOMAIN startedAt /\ ~Conflicting(Copied(r)) /\ log = <<last>>
    BY EmittedIs
  <1> HIDE DEF last, start
  <1>6. log \in Seq(RecordType) /\ \A i \in DOMAIN log : CarriesContext(log[i])
    <2>1. CASE log = <<>>
      BY <2>1
    <2>2. CASE log = <<DurationMissing>>
      BY <1>2, <2>2
    <2>3. CASE log = <<DurationMissing, last>> /\ ~Conflicting(Copied(r))
      BY <1>1, <1>2, <2>3
    <2>4. CASE log = <<last>> /\ ~Conflicting(Copied(r))
      BY <1>1, <2>4
    <2> QED
      BY <1>5, <2>1, <2>2, <2>3, <2>4
  <1>7. /\ new \in Seq(RecordType) /\ Len(new) = Len(records[r]) + Len(log)
        /\ \A i \in 1..Len(records[r]) : new[i] = records[r][i]
        /\ \A i \in 1..Len(log) : new[Len(records[r]) + i] = log[i]
    BY <1>3, <1>6, ConcatProperties
  <1>8. \A i \in DOMAIN new : CarriesContext(new[i])
    <2> SUFFICES ASSUME NEW i \in DOMAIN new
                 PROVE  CarriesContext(new[i])
      OBVIOUS
    <2>1. i \in 1..(Len(records[r]) + Len(log)) /\ Len(records[r]) \in Nat /\ Len(log) \in Nat
      BY <1>3, <1>6, <1>7
    <2>2. CASE i \in 1..Len(records[r])
      BY <1>3, <1>7, <2>2
    <2>3. CASE i - Len(records[r]) \in 1..Len(log)
      BY <1>6, <1>7, <2>1, <2>3
    <2> QED
      BY <2>1, <2>2, <2>3
  <1>9. CASE r \in DOMAIN startedAt
    <2>1. records[r] = <<start>> /\ pc[r] = "running"
      BY <1>9 DEF IInv, LogInv, StartLog, TablesHoldLiveRuns, start
    <2>2. new = <<start>> \/ (new = <<start, last>> /\ log = <<last>>)
      <3>1. log = <<>> \/ log = <<last>>
        BY <1>5, <1>9
      <3>2. log = <<>> => new = <<start>>
        BY <2>1, ShortSequences
      <3>3. log = <<last>> => new = <<start, last>>
        BY <2>1, ShortSequences
      <3> QED
        BY <3>1, <3>2, <3>3
    <2>3. last.correlation = start.correlation /\ last.keys = start.keys
          /\ last.duration = {clock - begun[r]}
      BY <1>4, <1>9, RememberedIs
    <2>4. EndedWell(new)
      <3> HIDE DEF new
      <3>1. new = <<start>> => new[Len(new)] = start
        OBVIOUS
      <3>2. new = <<start, last>> => Len(new) = 2 /\ new[Len(new)] = last /\ new[1] = start
        OBVIOUS
      <3>3. CASE new = <<start>>
        BY <1>4, <3>1, <3>3 DEF EndedWell
      <3>4. CASE new = <<start, last>>
        BY <1>4, <2>3, <3>2, <3>4 DEF EndedWell
      <3> QED
        BY <2>2, <3>3, <3>4
    <2>5. new # records[r] => new[Len(new)].duration = {clock - begun[r]}
      BY <2>1, <2>2, <2>3
    <2> QED
      BY <1>7, <1>8, <2>4, <2>5
  <1>10. CASE r \notin DOMAIN startedAt
    <2>1. last.duration = {}
      BY <1>4, <1>10, RememberedIs
    <2>2. EndedWell(records[r])
      BY <1>10 DEF IInv, LogInv, StartLog, EndedWell
    <2>3. CASE log = <<>>
      <3>1. new = records[r]
        BY <1>3, <2>3, ConcatEmptySeq
      <3> QED
        BY <1>7, <1>8, <2>2, <3>1
    <2>4. CASE log = <<DurationMissing>>
      <3>1. new[Len(new)] = DurationMissing
        BY <1>3, <1>7, <2>4
      <3> QED
        BY <1>4, <1>7, <1>8, <3>1 DEF EndedWell
    <2>5. CASE log = <<DurationMissing, last>>
      <3>1. /\ Len(new) > 1 /\ new[Len(new)] = last
            /\ new[Len(new) - 1] = DurationMissing
        BY <1>3, <1>7, <2>5
      <3> QED
        BY <1>4, <1>7, <1>8, <2>1, <3>1 DEF EndedWell
    <2> QED
      BY <1>5, <1>10, <2>3, <2>4, <2>5
  <1> QED
    BY <1>9, <1>10

-------------------------------------------------------------------------------
(* The steps.                                                              *)

\* A config that is built holds all of the context.
LEMMA MergeIs ==
    ASSUME context \in Context, fields \in Fields, NEW data \in Metadata,
           config = MergeMetadata(data)
    PROVE  config \in [raised : BOOLEAN, metadata : Metadata] /\ ConfigInv
  <1>1. AsMapping \in Metadata
    BY AsMappingIs
  <1>2. CASE Conflict(data, AsMapping)
    BY <1>2 DEF MergeMetadata, ConfigInv
  <1>3. CASE ~Conflict(data, AsMapping)
    <2>1. config = [raised |-> FALSE, metadata |-> Override(data, AsMapping)]
      BY <1>3 DEF MergeMetadata
    <2>2. /\ Override(data, AsMapping) \in Metadata
          /\ \A n \in DOMAIN AsMapping : /\ n \in DOMAIN Override(data, AsMapping)
                                         /\ Override(data, AsMapping)[n] = AsMapping[n]
      BY <1>1, OverrideIs
    <2> QED
      BY <2>1, <2>2 DEF ConfigInv
  <1> QED
    BY <1>2, <1>3

\* The invariant holds before any event.
LEMMA InitInv == Init => IInv
  <1> SUFFICES ASSUME Init
               PROVE  IInv
    OBVIOUS
  <1>1. PICK data \in Given : config = MergeMetadata(data)
    BY DEF Init
  <1>2. config \in [raised : BOOLEAN, metadata : Metadata] /\ ConfigInv
    BY <1>1, GraphLogAssumption, MergeIs DEF Init
  <1>3. /\ DOMAIN startedAt = {} /\ startedAt = [r \in DOMAIN startedAt |-> startedAt[r]]
        /\ DOMAIN remembered = {} /\ remembered = [r \in DOMAIN remembered |-> remembered[r]]
    BY DEF Init
  <1>4. TypeOK
    BY <1>2, <1>3, GraphLogAssumption DEF Init, TypeOK, Range
  <1>5. TablesInv /\ TablesHoldLiveRuns /\ BuiltConfigNeverAborts /\ LastRecordMatchesStart
    BY <1>3 DEF Init, TablesInv, TablesHoldLiveRuns, BuiltConfigNeverAborts, LastRecordMatchesStart
  <1>6. records \in [ChainRun -> Seq(RecordType)] /\ \A r \in ChainRun : LogInv(r)
    BY DEF Init, LogInv
  <1> QED
    BY <1>2, <1>4, <1>5, <1>6 DEF IInv

\* Time passes: no run began later than now.
LEMMA TickInv == IInv /\ Tick => IInv'
  <1> SUFFICES ASSUME IInv, Tick
               PROVE  IInv'
    OBVIOUS
  <1>1. UNCHANGED settings
    BY DEF Tick
  <1>2. \A r \in ChainRun : StartLog(r)' = StartLog(r)
    BY <1>1, SettingsAreFixed DEF StartLog, Tick
  <1>3. \A r \in ChainRun : LogInv(r)'
    BY <1>1, <1>2, SettingsAreFixed DEF IInv, LogInv, Tick
  <1>4. TypeOK'
    BY <1>1, GraphLogAssumption DEF IInv, TypeOK, TablesInv, Tick, settings
  <1>5. TablesInv'
    BY DEF IInv, TypeOK, TablesInv, Tick
  <1> QED
    BY <1>1, <1>3, <1>4, <1>5, SettingsAreFixed
    DEF IInv, TablesHoldLiveRuns, BuiltConfigNeverAborts, LastRecordMatchesStart, Tick, settings

\* Metadata may change before and while a run goes on: what is remembered of its
\* start is a copy.
LEMMA MetadataInv ==
    ASSUME IInv, NEW r \in ChainRun, AddMetadata(r) \/ ChangeMetadata(r)
    PROVE  IInv'
  <1>1. UNCHANGED <<settings, pc, startedAt, remembered, records, clock, begun>>
    BY DEF AddMetadata, ChangeMetadata
  <1>2. /\ metadata' \in [ChainRun -> Metadata]
        /\ \A q \in ChainRun : pc[q] = "conflicted" => metadata'[q] = metadata[q]
    <2>1. metadata \in [ChainRun -> Metadata]
      BY DEF IInv, TypeOK
    <2>2. CASE AddMetadata(r)
      <3>1. PICK n \in Name, v \in Id : metadata' = [metadata EXCEPT ![r] = Override(@, [m \in {n} |-> v])]
        BY <2>2 DEF AddMetadata
      <3> DEFINE one == [m \in {n} |-> v]
      <3>2. /\ one = [m \in DOMAIN one |-> one[m]]
            /\ DOMAIN one = {n} /\ one[n] = v
        OBVIOUS
      <3> HIDE DEF one
      <3>3. one \in Metadata
        BY <3>2, IsMetadata
      <3>4. Override(metadata[r], one) \in Metadata
        BY <2>1, <3>3, OverrideIs
      <3> QED
        BY <2>1, <2>2, <3>1, <3>4 DEF AddMetadata, one
    <2>3. CASE ChangeMetadata(r)
      <3>1. PICK n \in DOMAIN metadata[r] : metadata' = [metadata EXCEPT ![r] = Without(@, n)]
        BY <2>3 DEF ChangeMetadata
      <3> DEFINE left == Without(metadata[r], n)
      <3>2. left = [m \in DOMAIN metadata[r] \ {n} |-> metadata[r][m]]
        BY DEF Without, Restrict
      <3>3. /\ left = [m \in DOMAIN left |-> left[m]]
            /\ DOMAIN left \subseteq DOMAIN metadata[r]
            /\ \A m \in DOMAIN left : left[m] = metadata[r][m]
        BY <3>2
      <3> HIDE DEF left
      <3>4. left \in Metadata
        BY <2>1, <3>3, IsMetadata
      <3> QED
        BY <2>1, <2>3, <3>1, <3>4 DEF ChangeMetadata, left
    <2> QED
      BY <2>2, <2>3
  <1>3. \A q \in ChainRun : StartLog(q)' = StartLog(q)
    BY <1>1, SettingsAreFixed DEF StartLog
  <1>4. \A q \in ChainRun : LogInv(q)'
    BY <1>1, <1>3, SettingsAreFixed DEF IInv, LogInv
  <1>5. TypeOK'
    BY <1>1, <1>2 DEF IInv, TypeOK, settings
  <1>6. BuiltConfigNeverAborts'
    BY <1>1, <1>2 DEF IInv, BuiltConfigNeverAborts, settings
  <1> QED
    BY <1>1, <1>4, <1>5, <1>6, SettingsAreFixed
    DEF IInv, TablesInv, TablesHoldLiveRuns, LastRecordMatchesStart

\* A start fills both tables; when it raises, the metadata of the config or what
\* the run added to it conflicts with the context, and only the latter can.
LEMMA StartInv ==
    ASSUME IInv, NEW r \in ChainRun, Start(r)
    PROVE  IInv'
  <1> DEFINE record == Record("start", metadata[r], {})
  <1>1. /\ UNCHANGED <<settings, metadata, clock>>
        /\ begun' = [begun EXCEPT ![r] = clock]
        /\ pc[r] = "new" /\ records[r] = <<>>
        /\ metadata[r] \in Metadata
    BY DEF Start, IInv, TypeOK, LogInv
  <1>2. /\ startedAt' = [q \in DOMAIN startedAt' |-> startedAt'[q]]
        /\ DOMAIN startedAt' = DOMAIN startedAt \cup {r}
        /\ startedAt'[r] = clock
        /\ \A q \in DOMAIN startedAt : q # r => startedAt'[q] = startedAt[q]
    <2>1. startedAt' = [q \in DOMAIN startedAt \cup {r} |-> IF q = r THEN clock ELSE startedAt[q]]
      BY DEF Start, With
    <2> QED
      BY <2>1
  <1>3. /\ remembered' = [q \in DOMAIN remembered' |-> remembered'[q]]
        /\ DOMAIN remembered' = DOMAIN remembered \cup {r}
        /\ remembered'[r] = metadata[r]
        /\ \A q \in DOMAIN remembered : q # r => remembered'[q] = remembered[q]
    <2>1. remembered' = [q \in DOMAIN remembered \cup {r} |-> IF q = r THEN metadata[r] ELSE remembered[q]]
      BY DEF Start, With
    <2> QED
      BY <2>1
  <1>4. record \in RecordType /\ (~Conflicting(metadata[r]) => CarriesContext(record))
    BY <1>1, RecordIs DEF IInv, TypeOK
  <1>5. \/ /\ Conflicting(metadata[r]) /\ pc' = [pc EXCEPT ![r] = "conflicted"]
           /\ records' = records
        \/ /\ \E next \in {"running", "refused"} : pc' = [pc EXCEPT ![r] = next]
           /\ records' = [records EXCEPT ![r] = <<record>>] /\ CarriesContext(record)
        \/ /\ pc' = [pc EXCEPT ![r] = "refused"] /\ records' = records
    <2>1. Append(<<>>, record) = <<record>>
      OBVIOUS
    <2> QED
      BY <1>1, <1>4, <2>1 DEF Start, IInv
  <1> HIDE DEF record
  <1>6. records' \in [ChainRun -> Seq(RecordType)]
    <2>1. <<record>> \in Seq(RecordType)
      BY <1>4
    <2> QED
      BY <1>5, <2>1 DEF IInv
  <1>7. /\ DOMAIN startedAt' \subseteq ChainRun /\ Range(startedAt') \subseteq 0..MaxClock
        /\ DOMAIN remembered' \subseteq ChainRun /\ Range(remembered') \subseteq Metadata
    BY <1>1, <1>2, <1>3 DEF IInv, TypeOK, Range
  <1>8. TypeOK'
    <2>1. \A q \in ChainRun : \A i \in DOMAIN records'[q] : records'[q][i] \in RecordType
      BY <1>6
    <2>2. pc' \in [ChainRun -> {"new", "running", "failing", "ended", "broken", "refused", "conflicted"}]
      BY <1>5 DEF IInv, TypeOK
    <2> QED
      BY <1>1, <1>7, <2>1, <2>2 DEF IInv, TypeOK, settings
  <1>9. TablesInv'
    BY <1>1, <1>2, <1>3 DEF IInv, TypeOK, TablesInv
  <1>10. TablesHoldLiveRuns'
    BY <1>2, <1>3, <1>5 DEF IInv, TypeOK, TablesHoldLiveRuns
  <1>11. BuiltConfigNeverAborts'
    <2> SUFFICES ASSUME NEW q \in ChainRun, pc'[q] = "conflicted"
                 PROVE  \E n \in Range(fields) :
                            /\ n \in DOMAIN metadata[q]
                            /\ n \in DOMAIN config.metadata => metadata[q][n] # config.metadata[n]
      BY <1>1 DEF BuiltConfigNeverAborts, settings
    <2>1. CASE q # r
      BY <1>5, <2>1 DEF IInv, TypeOK, BuiltConfigNeverAborts
    <2>2. CASE q = r
      <3>1. Conflicting(metadata[r]) /\ ~config.raised
        BY <1>5, <2>2 DEF IInv, TypeOK, Start
      <3>2. PICK n \in DOMAIN AsMapping \cap DOMAIN CorrelationOf(metadata[r]) :
                AsMapping[n] # CorrelationOf(metadata[r])[n]
        BY <3>1 DEF Conflicting, Conflict
      <3>3. n \in Range(fields) /\ n \in DOMAIN metadata[r] /\ AsMapping[n] # metadata[r][n]
        BY <1>1, <3>2, CorrelationIs
      <3>4. config.metadata[n] = AsMapping[n]
        BY <3>1, <3>2 DEF IInv, ConfigInv
      <3> QED
        BY <2>2, <3>3, <3>4
    <2> QED
      BY <2>1, <2>2
  <1>12. LastRecordMatchesStart'
    <2>1. \A q \in ChainRun : pc'[q] \in {"ended", "broken"} =>
                pc[q] \in {"ended", "broken"} /\ records'[q] = records[q]
      BY <1>1, <1>5 DEF IInv, TypeOK
    <2> QED
      BY <2>1 DEF IInv, LastRecordMatchesStart
  <1>13. ASSUME NEW q \in ChainRun
         PROVE  LogInv(q)'
    <2>1. CASE q # r
      <3>1. records'[q] = records[q] /\ pc'[q] = pc[q]
        BY <1>5, <2>1 DEF IInv, TypeOK
      <3>2. StartLog(q)' = StartLog(q)
        BY <1>1, <1>2, <1>3, <2>1, SettingsAreFixed DEF StartLog, IInv, TablesHoldLiveRuns
      <3> QED
        BY <1>1, <3>1, <3>2, SettingsAreFixed DEF IInv, LogInv
    <2>2. CASE q = r
      <3>1. StartLog(r)' = <<record>>
        BY <1>1, <1>2, <1>3, SettingsAreFixed DEF StartLog, record
      <3>2. \/ records'[r] = <<>> /\ pc'[r] \in {"conflicted", "refused"}
            \/ /\ records'[r] = <<record>> /\ CarriesContext(record)
               /\ pc'[r] \in {"running", "refused"}
        BY <1>1, <1>5 DEF IInv, TypeOK
      <3>3. \A i \in DOMAIN records'[r] : CarriesContext(records'[r][i])
        BY <3>2
      <3> QED
        BY <1>1, <2>2, <3>1, <3>2, <3>3, SettingsAreFixed DEF LogInv
    <2> QED
      BY <2>1, <2>2
  <1> QED
    BY <1>1, <1>6, <1>8, <1>9, <1>10, <1>11, <1>12, <1>13, SettingsAreFixed DEF IInv

\* A run whose start is not seen leaves no entry.
LEMMA UnseenStartInv ==
    ASSUME IInv, NEW r \in ChainRun, UnseenStart(r)
    PROVE  IInv'
  <1>1. /\ UNCHANGED <<settings, metadata, startedAt, remembered, records, clock>>
        /\ begun' = [begun EXCEPT ![r] = clock]
        /\ pc' = [pc EXCEPT ![r] = "running"]
        /\ pc[r] = "new" /\ records[r] = <<>>
        /\ r \notin DOMAIN startedAt
    BY DEF UnseenStart, IInv, LogInv, TablesHoldLiveRuns
  <1>2. \A q \in ChainRun : StartLog(q)' = StartLog(q)
    BY <1>1, SettingsAreFixed DEF StartLog
  <1>3. \A q \in ChainRun : LogInv(q)'
    BY <1>1, <1>2, SettingsAreFixed DEF IInv, TypeOK, LogInv, StartLog
  <1>4. TypeOK'
    BY <1>1 DEF IInv, TypeOK, settings
  <1>5. TablesInv' /\ TablesHoldLiveRuns'
    BY <1>1 DEF IInv, TypeOK, TablesInv, TablesHoldLiveRuns
  <1>6. BuiltConfigNeverAborts' /\ LastRecordMatchesStart'
    BY <1>1 DEF IInv, TypeOK, BuiltConfigNeverAborts, LastRecordMatchesStart, settings
  <1> QED
    BY <1>1, <1>3, <1>4, <1>5, <1>6, SettingsAreFixed DEF IInv

\* An end and an error empty the tables and complete the log as far as they can.
LEMMA EndInv ==
    ASSUME IInv, NEW r \in ChainRun, Finish(r) \/ Error(r)
    PROVE  IInv'
  <1>0. PICK event \in {"end", "error"} : \E log \in Emitted(r, event) :
            /\ records' = [records EXCEPT ![r] = @ \o log]
            /\ \E next \in {"ended", "failing", "broken"} : pc' = [pc EXCEPT ![r] = next]
    BY DEF Finish, Error
  <1>1. PICK log \in Emitted(r, event) :
            /\ records' = [records EXCEPT ![r] = @ \o log]
            /\ \E next \in {"ended", "failing", "broken"} : pc' = [pc EXCEPT ![r] = next]
    BY <1>0
  <1> DEFINE new == records[r] \o log
  <1>2. /\ UNCHANGED <<settings, metadata, clock, begun>>
        /\ startedAt' = Without(startedAt, r) /\ remembered' = Without(remembered, r)
        /\ pc[r] \in {"running", "failing"}
    BY DEF Finish, Error
  <1>3. /\ new \in Seq(RecordType)
        /\ \A i \in DOMAIN new : CarriesContext(new[i])
        /\ EndedWell(new)
    BY <1>2, LogGrows
  <1>4. /\ startedAt' = [q \in DOMAIN startedAt' |-> startedAt'[q]]
        /\ DOMAIN startedAt' = DOMAIN startedAt \ {r}
        /\ \A q \in DOMAIN startedAt' : startedAt'[q] = startedAt[q]
    <2>1. startedAt' = [q \in DOMAIN startedAt \ {r} |-> startedAt[q]]
      BY <1>2 DEF Without, Restrict
    <2> QED
      BY <2>1
  <1>5. /\ remembered' = [q \in DOMAIN remembered' |-> remembered'[q]]
        /\ DOMAIN remembered' = DOMAIN remembered \ {r}
        /\ \A q \in DOMAIN remembered' : remembered'[q] = remembered[q]
    <2>1. remembered' = [q \in DOMAIN remembered \ {r} |-> remembered[q]]
      BY <1>2 DEF Without, Restrict
    <2> QED
      BY <2>1
  <1>6. /\ records'[r] = new /\ \A q \in ChainRun \ {r} : records'[q] = records[q]
        /\ DOMAIN records' = ChainRun
    BY <1>1 DEF IInv
  <1> HIDE DEF new
  <1>7. records' \in [ChainRun -> Seq(RecordType)]
    BY <1>1, <1>3, <1>6 DEF IInv, new
  <1>8. TypeOK'
    <2>1. \A q \in ChainRun : \A i \in DOMAIN records'[q] : records'[q][i] \in RecordType
      BY <1>7
    <2>2. /\ DOMAIN startedAt' \subseteq ChainRun /\ Range(startedAt') \subseteq 0..MaxClock
          /\ DOMAIN remembered' \subseteq ChainRun /\ Range(remembered') \subseteq Metadata
      BY <1>4, <1>5 DEF IInv, TypeOK, Range
    <2>3. pc' \in [ChainRun -> {"new", "running", "failing", "ended", "broken", "refused", "conflicted"}]
      BY <1>1 DEF IInv, TypeOK
    <2> QED
      BY <1>2, <2>1, <2>2, <2>3 DEF IInv, TypeOK, settings
  <1>9. TablesInv'
    BY <1>2, <1>4, <1>5 DEF IInv, TablesInv
  <1>10. TablesHoldLiveRuns'
    BY <1>1, <1>4, <1>5 DEF IInv, TypeOK, TablesHoldLiveRuns
  <1>11. BuiltConfigNeverAborts'
    <2>1. pc \in [ChainRun -> {"new", "running", "failing", "ended", "broken", "refused", "conflicted"}]
      BY DEF IInv, TypeOK
    <2>2. \A q \in ChainRun : pc'[q] = "conflicted" => pc[q] = "conflicted"
      BY <1>1, <2>1
    <2>3. BuiltConfigNeverAborts /\ UNCHANGED <<fields, config, metadata>>
      BY <1>2 DEF IInv, settings
    <2> QED
      BY <2>2, <2>3 DEF BuiltConfigNeverAborts
  <1>12. LastRecordMatchesStart'
    <2>1. \A q \in ChainRun \ {r} : pc'[q] = pc[q] /\ records'[q] = records[q]
      BY <1>1, <1>6 DEF IInv, TypeOK
    <2>2. EndedWell(records'[r])
      BY <1>3, <1>6
    <2> QED
      BY <2>1, <2>2 DEF IInv, LastRecordMatchesStart, EndedWell
  <1>13. ASSUME NEW q \in ChainRun
         PROVE  LogInv(q)'
    <2>1. CASE q # r
      <3>1. records'[q] = records[q] /\ pc'[q] = pc[q]
        BY <1>1, <1>6, <2>1 DEF IInv, TypeOK
      <3>2. StartLog(q)' = StartLog(q)
        BY <1>2, <1>4, <1>5, <2>1, SettingsAreFixed DEF StartLog, IInv, TablesHoldLiveRuns
      <3> QED
        BY <1>2, <3>1, <3>2, SettingsAreFixed DEF IInv, LogInv
    <2>2. CASE q = r
      <3>1. pc'[r] \in {"ended", "failing", "broken"}
        BY <1>1 DEF IInv, TypeOK
      <3> QED
        BY <1>2, <1>3, <1>6, <2>2, <3>1, SettingsAreFixed DEF LogInv
    <2> QED
      BY <2>1, <2>2
  <1> QED
    BY <1>2, <1>7, <1>8, <1>9, <1>10, <1>11, <1>12, <1>13, SettingsAreFixed DEF IInv

\* A step that changes nothing keeps the invariant.
LEMMA StutterInv ==
    ASSUME IInv, UNCHANGED vars
    PROVE  IInv'
  <1>1. /\ UNCHANGED settings
        /\ UNCHANGED <<pc, metadata, startedAt, remembered, records, clock, begun>>
    BY DEF vars
  <1>2. \A r \in ChainRun : StartLog(r)' = StartLog(r)
    BY <1>1, SettingsAreFixed DEF StartLog
  <1>3. \A r \in ChainRun : LogInv(r)'
    BY <1>1, <1>2, SettingsAreFixed DEF IInv, LogInv
  <1> QED
    BY <1>1, <1>3, SettingsAreFixed
    DEF IInv, TypeOK, TablesInv, TablesHoldLiveRuns, BuiltConfigNeverAborts,
        LastRecordMatchesStart, settings

\* Every step keeps the invariant.
LEMMA NextInv == IInv /\ [Next]_vars => IInv'
  <1> SUFFICES ASSUME IInv, [Next]_vars
               PROVE  IInv'
    OBVIOUS
  <1>1. CASE Tick
    BY <1>1, TickInv
  <1>2. ASSUME NEW r \in ChainRun, AddMetadata(r) \/ ChangeMetadata(r)
        PROVE  IInv'
    BY <1>2, MetadataInv
  <1>3. ASSUME NEW r \in ChainRun, Start(r)
        PROVE  IInv'
    BY <1>3, StartInv
  <1>4. ASSUME NEW r \in ChainRun, UnseenStart(r)
        PROVE  IInv'
    BY <1>4, UnseenStartInv
  <1>5. ASSUME NEW r \in ChainRun, Finish(r) \/ Error(r)
        PROVE  IInv'
    BY <1>5, EndInv
  <1>6. CASE Finished \/ UNCHANGED vars
    BY <1>6, StutterInv DEF Finished
  <1> QED
    BY <1>1, <1>2, <1>3, <1>4, <1>5, <1>6 DEF Next

\* The invariant holds of every run of the program.
LEMMA Invariant == Spec => []IInv
  <1> QED
    BY InitInv, NextInv, PTL DEF Spec

-------------------------------------------------------------------------------
(* Theorems.                                                               *)

\* Every variable of the log callback has its type: a duration is never negative.
THEOREM TypeCorrect == Spec => []TypeOK
  <1>1. IInv => TypeOK
    BY DEF IInv
  <1> QED
    BY <1>1, Invariant, PTL

\* Every record with a payload carries the identifiers of the log context, also
\* those of runs whose start was never seen.
THEOREM ContextIsCarried == Spec => []RecordsCarryContext
  <1>1. IInv => RecordsCarryContext
    BY DEF IInv, LogInv, CarriesContext, RecordsCarryContext
  <1> QED
    BY <1>1, Invariant, PTL

\* The metadata of a built config alone never makes a start raise.
THEOREM ConfigNeverAborts == Spec => []BuiltConfigNeverAborts
  <1>1. IInv => BuiltConfigNeverAborts
    BY DEF IInv
  <1> QED
    BY <1>1, Invariant, PTL

\* The last record of a run is about its start, or announced as incomplete.
THEOREM LastMatchesStart == Spec => []LastRecordMatchesStart
  <1>1. IInv => LastRecordMatchesStart
    BY DEF IInv
  <1> QED
    BY <1>1, Invariant, PTL

\* Both tables forget a run at its end, however the logging of the end goes.
THEOREM TablesAreLive == Spec => []TablesHoldLiveRuns
  <1>1. IInv => TablesHoldLiveRuns
    BY DEF IInv
  <1> QED
    BY <1>1, Invariant, PTL

\* A logged duration is never one of another run.
THEOREM DurationsAreOwn == Spec => DurationIsOwn
  <1> DEFINE Own(r) == LET log == records'[r]
                       IN  log # records[r] /\ log[Len(log)].duration # {}
                           => log[Len(log)].duration = {clock - begun[r]}
  <1>1. IInv /\ [Next]_vars => [\A r \in ChainRun : Own(r)]_vars
    <2> SUFFICES ASSUME IInv, [Next]_vars, NEW r \in ChainRun, records'[r] # records[r]
                 PROVE  Own(r)
      OBVIOUS
    <2>1. ASSUME NEW q \in ChainRun, Start(q)
          PROVE  Own(r)
      <3>1. /\ records' = [records EXCEPT ![q] = Append(@, Record("start", metadata[q], {}))]
            /\ records[q] = <<>>
        BY <2>1 DEF Start, IInv, LogInv
      <3>2. r = q /\ records'[r] = <<Record("start", metadata[r], {})>>
        BY <3>1 DEF IInv
      <3> QED
        BY <3>2 DEF Record
    <2>2. ASSUME NEW q \in ChainRun, Finish(q) \/ Error(q)
          PROVE  Own(r)
      <3>0. PICK event \in {"end", "error"} : \E log \in Emitted(q, event) :
                records' = [records EXCEPT ![q] = @ \o log]
        BY <2>2 DEF Finish, Error
      <3>1. PICK log \in Emitted(q, event) : records' = [records EXCEPT ![q] = @ \o log]
        BY <3>0
      <3>2. r = q /\ records'[r] = records[r] \o log /\ pc[r] \in {"running", "failing"}
        BY <2>2, <3>1 DEF IInv, Finish, Error
      <3>3. LET new == records[r] \o log
            IN  new # records[r] /\ new[Len(new)].duration # {} =>
                    new[Len(new)].duration = {clock - begun[r]}
        BY <3>1, <3>2, LogGrows
      <3> QED
        BY <3>2, <3>3
    <2> QED
      BY <2>1, <2>2 DEF Next, Tick, AddMetadata, ChangeMetadata, UnseenStart, Finished, vars
  <1>2. Spec => [][\A r \in ChainRun : Own(r)]_vars
    BY <1>1, Invariant, PTL DEF Spec
  <1> QED
    BY <1>2 DEF DurationIsOwn

-------------------------------------------------------------------------------
(* The log as a callback table.                                            *)

TablePhase == [r \in ChainRun |-> Phase(r)]

TableTold == [r \in ChainRun |-> Events(records[r])]

\* The events of a log, and of one that grows.
LEMMA EventsGrow ==
    ASSUME NEW log \in Seq(RecordType), NEW more \in Seq(RecordType)
    PROVE  Events(log \o more) = Events(log) \o Events(more)
  <1> DEFINE Event == {"start", "end", "error", "duration_missing"}
             all == log \o more
  <1>1. ASSUME NEW s \in Seq(RecordType)
        PROVE  /\ Events(s) \in Seq(Event) /\ Len(Events(s)) = Len(s)
               /\ \A i \in 1..Len(s) : Events(s)[i] = s[i].event
    <2>1. Len(s) \in Nat /\ DOMAIN s = 1..Len(s) /\ \A i \in 1..Len(s) : s[i] \in RecordType
      OBVIOUS
    <2>2. \A i \in 1..Len(s) : s[i].event \in Event
      BY <2>1 DEF RecordType
    <2>3. Events(s) = [i \in 1..Len(s) |-> s[i].event]
      BY <2>1 DEF Events
    <2> QED
      BY <2>1, <2>2, <2>3
  <1>2. /\ all \in Seq(RecordType) /\ Len(all) = Len(log) + Len(more)
        /\ \A i \in 1..Len(log) : all[i] = log[i]
        /\ \A i \in 1..Len(more) : all[Len(log) + i] = more[i]
    BY ConcatProperties
  <1>3. /\ Events(log) \o Events(more) \in Seq(Event)
        /\ Len(Events(log) \o Events(more)) = Len(log) + Len(more)
        /\ \A i \in 1..Len(log) : (Events(log) \o Events(more))[i] = log[i].event
        /\ \A i \in 1..Len(more) : (Events(log) \o Events(more))[Len(log) + i] = more[i].event
    <2>1. /\ Events(log) \in Seq(Event) /\ Len(Events(log)) = Len(log)
          /\ Events(more) \in Seq(Event) /\ Len(Events(more)) = Len(more)
      BY <1>1
    <2>2. /\ \A i \in 1..Len(log) : (Events(log) \o Events(more))[i] = Events(log)[i]
          /\ \A i \in 1..Len(more) : (Events(log) \o Events(more))[Len(log) + i] = Events(more)[i]
          /\ Events(log) \o Events(more) \in Seq(Event)
          /\ Len(Events(log) \o Events(more)) = Len(log) + Len(more)
      <3> DEFINE first == Events(log)
                 second == Events(more)
      <3>1. first \in Seq(Event) /\ second \in Seq(Event)
        BY <2>1
      <3>2. Len(first) = Len(log) /\ Len(second) = Len(more)
        BY <2>1
      <3> HIDE DEF Event, first, second
      <3>3. /\ first \o second \in Seq(Event) /\ Len(first \o second) = Len(first) + Len(second)
            /\ \A i \in 1..Len(first) : (first \o second)[i] = first[i]
            /\ \A i \in 1..Len(second) : (first \o second)[Len(first) + i] = second[i]
        BY <3>1, ConcatProperties
      <3> QED
        BY <3>2, <3>3 DEF first, second
    <2> QED
      BY <1>1, <2>2
  <1>4. Events(all) \in Seq(Event) /\ Len(Events(all)) = Len(log) + Len(more)
    BY <1>1, <1>2
  <1>5. ASSUME NEW i \in 1..(Len(log) + Len(more))
        PROVE  Events(all)[i] = (Events(log) \o Events(more))[i]
    <2>1. Events(all)[i] = all[i].event
      BY <1>1, <1>2
    <2>2. CASE i \in 1..Len(log)
      BY <1>2, <1>3, <2>1, <2>2
    <2>3. CASE i \notin 1..Len(log)
      <3>1. PICK j \in 1..Len(more) : i = Len(log) + j
        <4>1. i - Len(log) \in 1..Len(more) /\ i = Len(log) + (i - Len(log))
          BY <2>3
        <4> QED
          BY <4>1
      <3> QED
        BY <1>2, <1>3, <2>1, <3>1
    <2> QED
      BY <2>2, <2>3
  <1> DEFINE whole == Events(all)
             parts == Events(log) \o Events(more)
  <1>6. /\ whole \in Seq(Event) /\ parts \in Seq(Event) /\ Len(whole) = Len(parts)
        /\ \A i \in 1..Len(whole) : whole[i] = parts[i]
    BY <1>3, <1>4, <1>5
  <1> HIDE DEF Event, whole, parts
  <1>7. whole = parts
    BY <1>6, SeqEqual
  <1> QED
    BY <1>7 DEF whole, parts

\* A step of one run moves its phase and adds to what is told of it.
LEMMA OneRunMoves ==
    ASSUME IInv, NEW r \in ChainRun, NEW place, pc' = [pc EXCEPT ![r] = place],
           NEW log \in Seq(RecordType), records' = [records EXCEPT ![r] = @ \o log]
    PROVE  /\ TablePhase' = [TablePhase EXCEPT ![r] = Phase(r)']
           /\ TableTold' = [TableTold EXCEPT ![r] = @ \o Events(log)]
           /\ pc'[r] = place
  <1>1. /\ \A q \in ChainRun : pc'[q] = IF q = r THEN place ELSE pc[q]
        /\ \A q \in ChainRun : records'[q] = IF q = r THEN records[r] \o log ELSE records[q]
        /\ records[r] \in Seq(RecordType)
    BY DEF IInv, TypeOK
  <1>2. \A q \in ChainRun \ {r} : Phase(q)' = Phase(q)
    BY <1>1 DEF Phase
  <1>3. Events(records'[r]) = Events(records[r]) \o Events(log)
    BY <1>1, EventsGrow
  <1>4. \A q \in ChainRun \ {r} : Events(records'[q]) = Events(records[q])
    BY <1>1
  <1> QED
    BY <1>1, <1>2, <1>3, <1>4 DEF TablePhase, TableTold

\* The events of the logs that one event can write.
LEMMA EventsAre ==
    /\ Events(<<>>) = <<>> /\ <<>> \in Seq(RecordType)
    /\ \A a : Events(<<a>>) = <<a.event>>
    /\ \A a, b : Events(<<a, b>>) = <<a.event, b.event>>
  <1>1. Events(<<>>) = <<>>
    BY DEF Events
  <1>2. ASSUME NEW a
        PROVE  Events(<<a>>) = <<a.event>>
    BY DEF Events
  <1>3. ASSUME NEW a, NEW b
        PROVE  Events(<<a, b>>) = <<a.event, b.event>>
    BY DEF Events
  <1> QED
    BY <1>1, <1>2, <1>3

\* What an end or an error writes are records.
LEMMA LogsAreRecords ==
    ASSUME IInv, NEW r \in ChainRun, pc[r] \in {"running", "failing"},
           NEW event \in {"end", "error"}, NEW log \in Emitted(r, event)
    PROVE  log \in Seq(RecordType)
  <1> DEFINE last == Record(event, Copied(r), DurationMs(r))
  <1>1. last \in RecordType
    BY RememberedIs, RecordIs DEF IInv, TypeOK
  <1>2. NoMetadata = [n \in DOMAIN NoMetadata |-> NoMetadata[n]] /\ DOMAIN NoMetadata = {}
    BY DEF NoMetadata
  <1>3. NoMetadata \in Metadata
    BY <1>2, IsMetadata
  <1>4. DurationMissing \in RecordType
    BY <1>3 DEF DurationMissing, RecordType
  <1>5. log \in {<<>>, <<DurationMissing>>, <<DurationMissing, last>>, <<last>>}
    BY EmittedIs
  <1> HIDE DEF last
  <1>6. \A a, b \in RecordType : <<>> \in Seq(RecordType) /\ <<a>> \in Seq(RecordType)
                               /\ <<a, b>> \in Seq(RecordType)
    <2> HIDE DEF RecordType
    <2> QED
      OBVIOUS
  <1>7. <<DurationMissing>> \in Seq(RecordType) /\ <<last>> \in Seq(RecordType)
        /\ <<DurationMissing, last>> \in Seq(RecordType)
    BY <1>1, <1>4, <1>6
  <1>8. <<>> \in Seq(RecordType)
    OBVIOUS
  <1> QED
    BY <1>5, <1>7, <1>8

\* Before any event the table is empty.
LEMMA TableStarts == Init => Table!TableInit
  <1> SUFFICES ASSUME Init
               PROVE  Table!TableInit
    OBVIOUS
  <1>1. \A r \in ChainRun : Phase(r) = "new" /\ Events(records[r]) = <<>>
    BY EventsAre DEF Init, Phase
  <1>2. DOMAIN startedAt = {}
    BY DEF Init
  <1> QED
    BY <1>1, <1>2 DEF Table!TableInit

\* A start is Begin: without a record the run is refused.
LEMMA StartBegins ==
    ASSUME IInv, NEW r \in ChainRun, Start(r)
    PROVE  Table!Begin(r)
  <1> DEFINE record == Record("start", metadata[r], {})
  <1>1. /\ pc[r] = "new" /\ metadata[r] \in Metadata /\ pc \in [ChainRun -> {"new", "running",
            "failing", "ended", "broken", "refused", "conflicted"}]
        /\ records \in [ChainRun -> Seq(RecordType)]
    BY DEF Start, IInv, TypeOK
  <1>2. record \in RecordType /\ record.event = "start"
    BY <1>1, RecordIs DEF IInv, TypeOK, Record
  <1>3. DOMAIN startedAt' = DOMAIN startedAt \cup {r}
    BY DEF Start, With
  <1>4. \/ /\ records' = records
           /\ \E place \in {"conflicted", "refused"} : pc' = [pc EXCEPT ![r] = place]
        \/ /\ records' = [records EXCEPT ![r] = Append(@, record)]
           /\ \E place \in {"running", "refused"} : pc' = [pc EXCEPT ![r] = place]
    BY DEF Start
  <1> HIDE DEF record
  <1>5. PICK log \in {<<>>, <<record>>}, place \in {"conflicted", "refused", "running"} :
            /\ pc' = [pc EXCEPT ![r] = place] /\ records' = [records EXCEPT ![r] = @ \o log]
            /\ log = <<>> => place # "running"
    <2>1. CASE /\ records' = records
               /\ \E place \in {"conflicted", "refused"} : pc' = [pc EXCEPT ![r] = place]
      <3>1. records[r] \o <<>> = records[r]
        BY <1>1, ConcatEmptySeq
      <3>2. records' = [records EXCEPT ![r] = @ \o <<>>]
        BY <1>1, <2>1, <3>1
      <3> QED
        BY <2>1, <3>2
    <2>2. CASE /\ records' = [records EXCEPT ![r] = Append(@, record)]
               /\ \E place \in {"running", "refused"} : pc' = [pc EXCEPT ![r] = place]
      <3>1. records[r] \o <<record>> = Append(records[r], record)
        BY <1>1, <1>2, AppendIsConcat
      <3>2. records' = [records EXCEPT ![r] = @ \o <<record>>] /\ <<record>> # <<>>
        BY <1>1, <2>2, <3>1
      <3> QED
        BY <2>2, <3>2
    <2> QED
      BY <1>4, <2>1, <2>2
  <1>6. log \in Seq(RecordType) /\ Events(log) \in {<<>>, <<"start">>}
        /\ (Events(log) = <<>> => log = <<>>)
    <2>1. CASE log = <<>>
      BY <2>1, EventsAre
    <2>2. CASE log = <<record>>
      <3>1. <<record>> \in Seq(RecordType)
        BY <1>2
      <3>2. Events(<<record>>) = <<"start">> /\ <<"start">> # <<>>
        BY <1>2, EventsAre
      <3> QED
        BY <2>2, <3>1, <3>2
    <2> QED
      BY <2>1, <2>2
  <1>7. /\ TablePhase' = [TablePhase EXCEPT ![r] = Phase(r)']
        /\ TableTold' = [TableTold EXCEPT ![r] = @ \o Events(log)]
        /\ pc'[r] = place
    BY <1>5, <1>6, OneRunMoves
  <1>8. /\ TablePhase[r] = "new" /\ Phase(r)' \in {"going", "broken"}
        /\ Events(log) = <<>> => Phase(r)' = "broken"
    BY <1>1, <1>5, <1>6, <1>7 DEF TablePhase, Phase
  <1> QED
    BY <1>3, <1>6, <1>7, <1>8 DEF Table!Begin, Table!Tell, TablePhase, TableTold

\* An end and an error close the entry.
LEMMA EndCloses ==
    ASSUME IInv, NEW r \in ChainRun, NEW event \in {"end", "error"}, NEW log \in Emitted(r, event),
           startedAt' = Without(startedAt, r), TableTold' = [TableTold EXCEPT ![r] = @ \o Events(log)],
           Phase(r)' = "over" => log = Complete(r, event)
    PROVE  Table!Close(r, event)
  <1> DEFINE last == Record(event, Copied(r), DurationMs(r))
  <1>1. last.event = event /\ DurationMissing.event = "duration_missing"
    BY DEF Record, DurationMissing
  <1>2. \/ log = <<>>
        \/ r \notin DOMAIN startedAt /\ log = <<DurationMissing>>
        \/ r \notin DOMAIN startedAt /\ log = <<DurationMissing, last>>
        \/ r \in DOMAIN startedAt /\ log = <<last>>
    BY EmittedIs
  <1>5. Complete(r, event) = IF r \in DOMAIN startedAt THEN <<last>> ELSE <<DurationMissing, last>>
    BY ShortSequences DEF Complete
  <1> HIDE DEF last
  <1>3. /\ Events(log) \in Table!Whole(r, event) \cup Table!Cut(r)
        /\ Events(Complete(r, event)) \in Table!Whole(r, event)
    BY <1>1, <1>2, <1>5, EventsAre DEF Table!Whole, Table!Cut
  <1>6. TablePhase'[r] = "over" => Events(log) \in Table!Whole(r, event)
    BY <1>3 DEF TablePhase
  <1>4. DOMAIN startedAt' = DOMAIN startedAt \ {r}
    BY DEF Without, Restrict
  <1> QED
    BY <1>3, <1>4, <1>6 DEF Table!Close, Table!Tell, TablePhase, TableTold

\* Every step is one of the table, or is not about it.
LEMMA TableStep ==
    ASSUME IInv, [Next]_vars
    PROVE  [Table!TableNext]_(Table!tableVars)
  <1>1. pc \in [ChainRun -> {"new", "running", "failing", "ended", "broken", "refused", "conflicted"}]
    BY DEF IInv, TypeOK
  <1>2. ASSUME UNCHANGED <<pc, startedAt, records>>
        PROVE  UNCHANGED Table!tableVars
    BY <1>2 DEF Table!tableVars, Phase, Events
  <1>3. ASSUME NEW r \in ChainRun, UnseenStart(r)
        PROVE  Table!Begin(r)
    <2>1. /\ pc[r] = "new" /\ pc' = [pc EXCEPT ![r] = "running"]
          /\ records' = records /\ startedAt' = startedAt
      BY <1>3 DEF UnseenStart
    <2>2. records[r] \o <<>> = records[r]
      BY ConcatEmptySeq DEF IInv
    <2>3. records' = [records EXCEPT ![r] = @ \o <<>>]
      BY <2>1, <2>2 DEF IInv
    <2>4. TablePhase' = [TablePhase EXCEPT ![r] = Phase(r)'] /\ pc'[r] = "running"
      BY <2>1, <2>3, EventsAre, OneRunMoves
    <2>5. TablePhase[r] = "new" /\ Phase(r)' = "going"
      BY <2>1, <2>4 DEF TablePhase, Phase
    <2> QED
      BY <2>1, <2>4, <2>5 DEF Table!Begin, Table!Missed, TablePhase, Events
  <1>4. ASSUME NEW r \in ChainRun, Finish(r)
        PROVE  Table!End(r)
    <2>1. PICK log \in Emitted(r, "end"), place \in {"ended", "failing"} :
            /\ records' = [records EXCEPT ![r] = @ \o log]
            /\ pc' = [pc EXCEPT ![r] = place]
            /\ place = "ended" => log = Complete(r, "end")
      BY <1>4 DEF Finish
    <2>2. pc[r] = "running" /\ startedAt' = Without(startedAt, r)
      BY <1>4 DEF Finish
    <2>3. log \in Seq(RecordType)
      BY <2>2, LogsAreRecords
    <2>4. /\ TablePhase' = [TablePhase EXCEPT ![r] = Phase(r)']
          /\ TableTold' = [TableTold EXCEPT ![r] = @ \o Events(log)]
          /\ pc'[r] = place
      BY <2>1, <2>3, OneRunMoves
    <2>5. TablePhase[r] = "going" /\ Phase(r)' \in {"over", "failing"}
      BY <2>1, <2>2, <2>4 DEF TablePhase, Phase
    <2>6. Table!Close(r, "end")
      <3>1. Phase(r)' = "over" => log = Complete(r, "end")
        BY <2>1, <2>4 DEF Phase
      <3> QED
        BY <2>2, <2>4, <3>1, EndCloses
    <2> QED
      BY <2>4, <2>5, <2>6 DEF Table!End, TablePhase
  <1>5. ASSUME NEW r \in ChainRun, Error(r)
        PROVE  Table!Fail(r)
    <2>1. PICK log \in Emitted(r, "error"), place \in {"ended", "broken"} :
            /\ records' = [records EXCEPT ![r] = @ \o log]
            /\ pc' = [pc EXCEPT ![r] = place]
            /\ place = "ended" => log = Complete(r, "error")
      BY <1>5 DEF Error
    <2>2. /\ pc[r] \in {"running", "failing"}
          /\ startedAt' = Without(startedAt, r)
      BY <1>5 DEF Error
    <2>3. log \in Seq(RecordType)
      BY <2>2, LogsAreRecords
    <2>4. /\ TablePhase' = [TablePhase EXCEPT ![r] = Phase(r)']
          /\ TableTold' = [TableTold EXCEPT ![r] = @ \o Events(log)]
          /\ pc'[r] = place
      BY <2>1, <2>3, OneRunMoves
    <2>5. TablePhase[r] \in {"going", "failing"} /\ Phase(r)' \in {"over", "broken"}
      BY <2>1, <2>2, <2>4 DEF TablePhase, Phase
    <2>6. Table!Close(r, "error")
      <3>1. Phase(r)' = "over" => log = Complete(r, "error")
        BY <2>1, <2>4 DEF Phase
      <3> QED
        BY <2>2, <2>4, <3>1, EndCloses
    <2> QED
      BY <2>4, <2>5, <2>6 DEF Table!Fail, TablePhase
  <1>6. CASE UNCHANGED vars
    BY <1>2, <1>6 DEF vars
  <1>7. ASSUME NEW r \in ChainRun, AddMetadata(r) \/ ChangeMetadata(r)
        PROVE  UNCHANGED Table!tableVars
    BY <1>2, <1>7 DEF AddMetadata, ChangeMetadata
  <1>8. Tick \/ Finished => UNCHANGED Table!tableVars
    BY <1>2 DEF Tick, Finished, vars
  <1> QED
    BY <1>3, <1>4, <1>5, <1>6, <1>7, <1>8, StartBegins DEF Next, Table!TableNext

\* The log callback is a callback table that misses only starts before it is attached.
THEOREM LogIsTable == Spec => ImplementsTable
  <1>1. IInv /\ [Next]_vars => [Table!TableNext]_(Table!tableVars)
    BY TableStep
  <1> QED
    BY <1>1, TableStarts, Invariant, PTL DEF Spec, ImplementsTable, Table!TableSpec

===============================================================================
