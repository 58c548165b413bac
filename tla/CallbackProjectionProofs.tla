----------------------- MODULE CallbackProjectionProofs -----------------------
(***************************************************************************)
(* Theorems about CallbackProjection, for any number of runs, any contract *)
(* source and any payloads.                                                *)
(***************************************************************************)
EXTENDS CallbackProjection, StatePathsProofs

-------------------------------------------------------------------------------
(* The inductive invariant.                                                *)

\* The payload of an event is projected as the node of its run asks.
Follows(r, event) ==
    IF node[r] \in Expected
    THEN IsPublic(Contracts[node[r]], event)
    ELSE event.view.form \in {"raw", "none"}

Counted == {"observed", "matched", "forward", "running", "failing", "ended", "refused"}

Forwarded == {"running", "failing", "ended", "refused"}

\* A run whose node has been looked up is in the tables, before any event of it
\* is forwarded.
CountInv(r) ==
    /\ pc[r] = "matched" \/ r \in DOMAIN byRun => node[r] \in Expected
    /\ node[r] # None =>
        /\ pc[r] \in Counted => node[r] \in observed
        /\ pc[r] \in Forwarded \cup {"matched", "forward"} =>
            IF node[r] \in Expected THEN node[r] \in matched ELSE node[r] \in unmatched
    /\ node[r] = None => pc[r] \notin {"observed", "matched", "forward"}
    /\ events[r] # <<>> => pc[r] \in Forwarded

\* A remembered contract belongs to a run that is going on, and a run that is
\* going on has its contract remembered.  Only the entry of a run that the
\* downstream callback refused to start stays behind.
RememberedRunsAreLive ==
    /\ \A r \in DOMAIN byRun : pc[r] \in {"forward", "running", "refused"}
    /\ \A r \in ChainRun :
        node[r] \in Expected /\ pc[r] \in {"forward", "running", "refused"}
            => r \in DOMAIN byRun /\ byRun[r] = Contracts[node[r]]

TableInv ==
    /\ matched \subseteq observed \cap Expected
    /\ unmatched \cap Expected = {}

\* Each set read by projection_stats was complete when it was read, and the
\* tables only grow.
ReaderInv ==
    /\ reader.at # "idle" =>
        /\ stats.matched \subseteq matched
        /\ earlier \cap Expected \subseteq stats.matched
        /\ earlier \subseteq observed
        /\ earlier \ Expected \subseteq unmatched
    /\ reader.at \in {"unmatched", "missing"} =>
        stats.matched \subseteq stats.observed /\ earlier \subseteq stats.observed
    /\ reader.at = "missing" =>
        stats.unmatched \cap Expected = {} /\ earlier \ Expected \subseteq stats.unmatched
    /\ stats.missing \cap (stats.matched \cup earlier) = {}
    /\ reader.at # "missing" => stats.missing = {}

IInv ==
    /\ TypeOK
    /\ RememberedRunsAreLive
    /\ PayloadsFollowTheContract
    /\ \A r \in ChainRun : CountInv(r)
    /\ TableInv
    /\ ReaderInv

-------------------------------------------------------------------------------
(* Payloads.                                                               *)

\* What an observation shows is typed, and covered by its policy.
LEMMA ObservationIsCovered ==
    ASSUME NEW policy, NEW payload \in Payload
    PROVE  /\ Observation(policy, payload) \in ViewType
           /\ Observation(policy, payload).form # "raw"
           /\ \A p \in Observation(policy, payload).paths : Covers(policy, p)
  <1>1. payload # Opaque => DOMAIN payload \subseteq Path
    BY CallbackProjectionAssumption DEF IsTree
  <1>2. DOMAIN Project(policy, payload) = {p \in DOMAIN payload : Covers(policy, p)}
    BY DEF Project, Restrict
  <1> QED
    BY <1>1, <1>2 DEF Observation, ViewType

\* A payload that is forwarded as it is has the type of a view.
LEMMA RawIsTyped ==
    ASSUME NEW payload \in Payload
    PROVE  Raw(payload) \in ViewType /\ Raw(payload).form = "raw"
  BY CallbackProjectionAssumption DEF Raw, ViewType, IsTree

\* An appended event is the only new one.
LEMMA AppendedEvent ==
    ASSUME NEW s \in Seq(EventType), NEW e \in EventType, NEW i \in DOMAIN Append(s, e)
    PROVE  (i \in DOMAIN s /\ Append(s, e)[i] = s[i]) \/ Append(s, e)[i] = e
  OBVIOUS

\* A call with a proper payload keeps all payloads proper.
LEMMA CallKeepsPayloads ==
    ASSUME TypeOK, PayloadsFollowTheContract, NEW r \in ChainRun, node' = node,
           NEW kind, NEW view, [kind |-> kind, view |-> view] \in EventType,
           Call(r, kind, view), Follows(r, [kind |-> kind, view |-> view])
    PROVE  PayloadsFollowTheContract' /\ events' \in [ChainRun -> Seq(EventType)]
  <1> DEFINE e == [kind |-> kind, view |-> view]
  <1>1. events' = [events EXCEPT ![r] = Append(events[r], e)] /\ events[r] \in Seq(EventType)
    BY DEF Call, TypeOK
  <1>2. \A i \in DOMAIN Append(events[r], e) : Follows(r, Append(events[r], e)[i])
    BY <1>1, AppendedEvent DEF PayloadsFollowTheContract, Follows
  <1>3. \A q \in ChainRun : \A i \in DOMAIN events'[q] : Follows(q, events'[q][i])
    BY <1>1, <1>2 DEF TypeOK, PayloadsFollowTheContract, Follows
  <1>4. events' \in [ChainRun -> Seq(EventType)]
    BY <1>1 DEF TypeOK
  <1> QED
    BY <1>3, <1>4 DEF PayloadsFollowTheContract, Follows

\* Steps that forward no event keep all payloads proper.
LEMMA QuietKeepsPayloads ==
    ASSUME PayloadsFollowTheContract, UNCHANGED <<node, events>>
    PROVE  PayloadsFollowTheContract'
  BY DEF PayloadsFollowTheContract

-------------------------------------------------------------------------------
(* Every step keeps the invariant.                                         *)

\* The invariant holds before any event.
LEMMA InitInv == Init => IInv
  <1> SUFFICES ASSUME Init PROVE IInv
    OBVIOUS
  <1>1. TypeOK
    BY DEF Init, TypeOK, PcValues, NoStats
  <1>2. RememberedRunsAreLive /\ PayloadsFollowTheContract /\ TableInv /\ ReaderInv
    BY DEF Init, RememberedRunsAreLive, PayloadsFollowTheContract, TableInv, ReaderInv, NoStats
  <1>3. \A r \in ChainRun : CountInv(r)
    BY DEF Init, CountInv, Counted, Forwarded
  <1> QED
    BY <1>1, <1>2, <1>3 DEF IInv

\* The tables only grow, which is all a projection_stats call relies on.
LEMMA GrowthKeepsReader ==
    ASSUME ReaderInv, TableInv, UNCHANGED stating, observed \subseteq observed',
           matched \subseteq matched', unmatched \subseteq unmatched'
    PROVE  ReaderInv'
  BY DEF ReaderInv, stating

\* None is the name of no node with a contract.
LEMMA NoneIsNoNode == None \notin Expected
  <1>1. Expected = {Labelled[i].label : i \in DOMAIN Labelled}
    BY DEF Expected, Contracts
  <1> DEFINE Entry == [label : Node, contract : ContractType]
  <1>2. \A i \in DOMAIN Labelled : Labelled[i] \in Entry
    <2>1. Labelled \in Seq(Entry)
      BY CallbackProjectionAssumption
    <2> HIDE DEF Entry
    <2> QED
      BY <2>1
  <1>3. \A i \in DOMAIN Labelled : Labelled[i].label \in Node
    BY <1>2
  <1> QED
    BY <1>1, <1>3, CallbackProjectionAssumption

\* A run that ends keeps the rest of the invariant.
LEMMA ForgettingKeepsInv ==
    ASSUME IInv, NEW r \in ChainRun, pc[r] \in {"running", "failing"},
           NEW next \in {"ended", "failing"}, pc' = [pc EXCEPT ![r] = next],
           byRun' = Forget(r), UNCHANGED <<node, observed, matched, unmatched, stating>>,
           PayloadsFollowTheContract', events' \in [ChainRun -> Seq(EventType)],
           \A q \in ChainRun : q # r => events'[q] = events[q]
    PROVE  IInv'
  <1>1. /\ DOMAIN byRun' = DOMAIN byRun \ {r}
        /\ \A q \in DOMAIN byRun' : byRun'[q] = byRun[q]
        /\ byRun' = [q \in DOMAIN byRun' |-> byRun'[q]]
    BY DEF Forget, Restrict
  <1>2. pc' \in [ChainRun -> PcValues]
    BY DEF IInv, TypeOK, PcValues
  <1>3. DOMAIN byRun' \subseteq ChainRun
    BY <1>1 DEF IInv, TypeOK
  <1>4. TypeOK'
    BY <1>1, <1>2, <1>3 DEF IInv, TypeOK, stating
  <1>5. RememberedRunsAreLive'
    BY <1>1 DEF IInv, TypeOK, RememberedRunsAreLive
  <1>6. \A q \in ChainRun : CountInv(q)'
    BY <1>1 DEF IInv, TypeOK, CountInv, Counted, Forwarded
  <1>7. TableInv' /\ ReaderInv'
    BY GrowthKeepsReader DEF IInv, TableInv, stating
  <1> QED
    BY <1>4, <1>5, <1>6, <1>7 DEF IInv

\* A node that starts is observed.
LEMMA ObserveKeepsInv ==
    ASSUME IInv, NEW r \in ChainRun, ObserveNode(r)
    PROVE  IInv'
  <1> USE DEF ObserveNode, stating
  <1>1. TypeOK'
    BY DEF IInv, TypeOK, PcValues
  <1>2. RememberedRunsAreLive'
    BY DEF IInv, TypeOK, RememberedRunsAreLive
  <1>3. \A q \in ChainRun : CountInv(q)'
    BY DEF IInv, TypeOK, CountInv, Counted, Forwarded
  <1>4. TableInv' /\ ReaderInv' /\ PayloadsFollowTheContract'
    BY GrowthKeepsReader, QuietKeepsPayloads DEF IInv, TableInv
  <1> QED
    BY <1>1, <1>2, <1>3, <1>4 DEF IInv

\* A node with a contract is matched.
LEMMA MatchKeepsInv ==
    ASSUME IInv, NEW r \in ChainRun, MatchNode(r)
    PROVE  IInv'
  <1> USE DEF MatchNode, stating
  <1>1. TypeOK'
    BY DEF IInv, TypeOK, PcValues
  <1>2. RememberedRunsAreLive'
    BY DEF IInv, TypeOK, RememberedRunsAreLive
  <1>3. \A q \in ChainRun : CountInv(q)'
    BY DEF IInv, TypeOK, CountInv, Counted, Forwarded
  <1>4. node[r] \in observed
    BY DEF IInv, TypeOK, CountInv, Counted
  <1>5. TableInv' /\ ReaderInv' /\ PayloadsFollowTheContract'
    BY <1>4, GrowthKeepsReader, QuietKeepsPayloads DEF IInv, TableInv
  <1> QED
    BY <1>1, <1>2, <1>3, <1>5 DEF IInv

\* The contract of a run is remembered.
LEMMA RememberKeepsInv ==
    ASSUME IInv, NEW r \in ChainRun, RememberContract(r)
    PROVE  IInv'
  <1> USE DEF RememberContract, RunKey, stating, tables
  <1>1. TypeOK'
    BY DEF IInv, TypeOK, PcValues, CountInv
  <1>2. RememberedRunsAreLive'
    BY DEF IInv, TypeOK, RememberedRunsAreLive
  <1>3. \A q \in ChainRun : CountInv(q)'
    BY DEF IInv, TypeOK, CountInv, Counted, Forwarded
  <1>4. TableInv' /\ ReaderInv' /\ PayloadsFollowTheContract'
    BY GrowthKeepsReader, QuietKeepsPayloads DEF IInv, TableInv
  <1> QED
    BY <1>1, <1>2, <1>3, <1>4 DEF IInv

\* A node without a contract is unmatched.
LEMMA MissKeepsInv ==
    ASSUME IInv, NEW r \in ChainRun, MissNode(r)
    PROVE  IInv'
  <1> USE DEF MissNode, stating
  <1>1. TypeOK'
    BY DEF IInv, TypeOK, PcValues, CountInv
  <1>2. RememberedRunsAreLive'
    BY DEF IInv, TypeOK, RememberedRunsAreLive
  <1>3. \A q \in ChainRun : CountInv(q)'
    BY DEF IInv, TypeOK, CountInv, Counted, Forwarded
  <1>4. TableInv' /\ ReaderInv' /\ PayloadsFollowTheContract'
    BY GrowthKeepsReader, QuietKeepsPayloads DEF IInv, TableInv
  <1> QED
    BY <1>1, <1>2, <1>3, <1>4 DEF IInv

\* The start of a run is forwarded, or refused by the downstream callback.
LEMMA ForwardKeepsInv ==
    ASSUME IInv, NEW r \in ChainRun, ForwardStart(r)
    PROVE  IInv'
  <1>1. PICK inputs \in Payload :
          Call(r, "start", IF node[r] \in Expected
                           THEN Observation(Contracts[node[r]].inputs, inputs)
                           ELSE Raw(inputs))
    BY DEF ForwardStart
  <1> DEFINE view == IF node[r] \in Expected
                     THEN Observation(Contracts[node[r]].inputs, inputs)
                     ELSE Raw(inputs)
  <1>2. [kind |-> "start", view |-> view] \in EventType
    BY ObservationIsCovered, RawIsTyped DEF EventType
  <1>3. Follows(r, [kind |-> "start", view |-> view])
    BY ObservationIsCovered, RawIsTyped DEF Follows, IsPublic
  <1>4. PayloadsFollowTheContract' /\ events' \in [ChainRun -> Seq(EventType)]
    BY <1>1, <1>2, <1>3, CallKeepsPayloads DEF IInv, ForwardStart
  <1>5. PICK next \in {"running", "refused"} : pc' = [pc EXCEPT ![r] = next]
    BY DEF ForwardStart
  <1>6. UNCHANGED <<node, byRun, observed, matched, unmatched, stating>>
    BY DEF ForwardStart, tables
  <1>7. TypeOK'
    BY <1>4, <1>5, <1>6 DEF IInv, TypeOK, PcValues, stating
  <1>8. pc[r] = "forward" \/ (pc[r] = "new" /\ node[r] = None)
    BY DEF ForwardStart
  <1>9. \A q \in ChainRun : q # r => events'[q] = events[q]
    BY <1>1 DEF Call, IInv, TypeOK
  <1>10. node[r] = None => node[r] \notin Expected
    BY NoneIsNoNode
  <1>11. RememberedRunsAreLive'
    BY <1>5, <1>6, <1>8, <1>10 DEF IInv, TypeOK, RememberedRunsAreLive
  <1>12. \A q \in ChainRun : CountInv(q)'
    BY <1>5, <1>6, <1>8, <1>9 DEF IInv, TypeOK, CountInv, Counted, Forwarded
  <1>13. TableInv' /\ ReaderInv'
    BY <1>6, GrowthKeepsReader DEF IInv, TableInv, stating
  <1> QED
    BY <1>4, <1>7, <1>11, <1>12, <1>13 DEF IInv

\* The end and the failure of a run, after which nothing of it is remembered.
LEMMA EndKeepsInv ==
    ASSUME IInv, NEW r \in ChainRun, ChainEnd(r)
    PROVE  IInv'
  <1>1. PICK outputs \in Payload :
          Call(r, "end", IF r \in DOMAIN byRun
                         THEN Observation(byRun[r].outputs, outputs)
                         ELSE Raw(outputs))
    BY DEF ChainEnd, RunKey
  <1> DEFINE view == IF r \in DOMAIN byRun
                     THEN Observation(byRun[r].outputs, outputs)
                     ELSE Raw(outputs)
  <1>2. [kind |-> "end", view |-> view] \in EventType
    BY ObservationIsCovered, RawIsTyped DEF EventType
  <1>3. /\ node[r] \in Expected <=> r \in DOMAIN byRun
        /\ r \in DOMAIN byRun => byRun[r] = Contracts[node[r]]
    BY DEF ChainEnd, IInv, RememberedRunsAreLive, CountInv
  <1>4. Follows(r, [kind |-> "end", view |-> view])
    BY <1>3, ObservationIsCovered, RawIsTyped DEF Follows, IsPublic
  <1>5. PayloadsFollowTheContract' /\ events' \in [ChainRun -> Seq(EventType)]
    BY <1>1, <1>2, <1>4, CallKeepsPayloads DEF IInv, ChainEnd
  <1>6. PICK next \in {"ended", "failing"} : pc' = [pc EXCEPT ![r] = next]
    BY DEF ChainEnd
  <1>7. /\ pc[r] = "running" /\ byRun' = Forget(r)
        /\ UNCHANGED <<node, observed, matched, unmatched, stating>>
    BY DEF ChainEnd, RunKey, tables
  <1>8. \A q \in ChainRun : q # r => events'[q] = events[q]
    BY <1>1 DEF Call, IInv, TypeOK
  <1> QED
    BY <1>5, <1>6, <1>7, <1>8, ForgettingKeepsInv

\* A run that fails has its contract taken out of the table.
LEMMA ErrorKeepsInv ==
    ASSUME IInv, NEW r \in ChainRun, ChainError(r)
    PROVE  IInv'
  <1>1. [kind |-> "error", view |-> NoPayload] \in EventType
    BY DEF EventType, ViewType, NoPayload
  <1>2. Follows(r, [kind |-> "error", view |-> NoPayload])
    BY DEF Follows, IsPublic, NoPayload
  <1>3. PayloadsFollowTheContract' /\ events' \in [ChainRun -> Seq(EventType)]
    BY <1>1, <1>2, CallKeepsPayloads DEF IInv, ChainError
  <1>4. /\ pc[r] \in {"running", "failing"} /\ pc' = [pc EXCEPT ![r] = "ended"]
        /\ byRun' = Forget(r) /\ UNCHANGED <<node, observed, matched, unmatched, stating>>
    BY DEF ChainError, RunKey, tables
  <1>5. \A q \in ChainRun : q # r => events'[q] = events[q]
    BY DEF ChainError, Call, IInv, TypeOK
  <1> QED
    BY <1>3, <1>4, <1>5, ForgettingKeepsInv

\* A projection_stats call changes none of the tables it reads.
LEMMA ReadingKeepsRuns ==
    ASSUME IInv, UNCHANGED <<pc, node, byRun, tables, events>>
    PROVE  /\ RememberedRunsAreLive' /\ PayloadsFollowTheContract' /\ TableInv'
           /\ \A q \in ChainRun : CountInv(q)'
  BY QuietKeepsPayloads DEF IInv, tables, RememberedRunsAreLive, TableInv, CountInv

\* Reading the statistics keeps the invariant.
LEMMA ReadingKeepsInv ==
    ASSUME IInv, Reading
    PROVE  IInv'
  <1> USE DEF tables
  <1>1. UNCHANGED <<pc, node, byRun, tables, events>>
    BY DEF Reading, ReadMatched, ReadObserved, ReadUnmatched, ReadMissing
  <1>2. CASE ReadMatched
    <2>1. TypeOK'
      <3>1. earlier' \subseteq Node
        BY <1>2 DEF ReadMatched, IInv, TypeOK
      <3>2. stats' \in [matched : SUBSET Expected, observed : SUBSET Node,
                        unmatched : SUBSET Node, missing : SUBSET Expected]
        BY <1>2 DEF ReadMatched, IInv, TypeOK
      <3>3. reader' \in [at : {"idle", "observed", "unmatched", "missing"}, left : SUBSET Expected]
        BY <1>2 DEF ReadMatched, IInv, TypeOK
      <3> QED
        BY <1>1, <3>1, <3>2, <3>3 DEF IInv, TypeOK
    <2>2. earlier' \cap Expected \subseteq matched /\ earlier' \subseteq observed
          /\ earlier' \ Expected \subseteq unmatched
      BY <1>2 DEF ReadMatched, IInv, CountInv, Counted, Forwarded
    <2>3. ReaderInv'
      BY <1>2, <2>2 DEF ReadMatched, IInv, TypeOK, ReaderInv
    <2> QED
      BY <1>1, <2>1, <2>3, ReadingKeepsRuns DEF IInv
  <1>3. CASE ReadObserved
    <2>1. TypeOK'
      BY <1>3 DEF ReadObserved, IInv, TypeOK
    <2>2. ReaderInv'
      BY <1>3 DEF ReadObserved, IInv, TypeOK, ReaderInv, TableInv
    <2> QED
      BY <1>1, <2>1, <2>2, ReadingKeepsRuns DEF IInv
  <1>4. CASE ReadUnmatched
    <2>1. TypeOK'
      BY <1>4 DEF ReadUnmatched, IInv, TypeOK
    <2>2. ReaderInv'
      BY <1>4 DEF ReadUnmatched, IInv, TypeOK, ReaderInv, TableInv
    <2> QED
      BY <1>1, <2>1, <2>2, ReadingKeepsRuns DEF IInv
  <1>5. ASSUME NEW n \in Expected, ReadMissing(n)
        PROVE  IInv'
    <2>1. TypeOK'
      BY <1>5 DEF ReadMissing, IInv, TypeOK
    <2>2. ReaderInv'
      BY <1>5 DEF ReadMissing, IInv, TypeOK, ReaderInv, TableInv
    <2> QED
      BY <1>1, <2>1, <2>2, ReadingKeepsRuns DEF IInv
  <1> QED
    BY <1>2, <1>3, <1>4, <1>5 DEF Reading

\* A step that changes nothing keeps the invariant.
LEMMA StutterKeepsInv ==
    ASSUME IInv, UNCHANGED vars
    PROVE  IInv'
  BY DEF vars, tables, stating, IInv, TypeOK, RememberedRunsAreLive, PayloadsFollowTheContract,
      CountInv, TableInv, ReaderInv

-------------------------------------------------------------------------------
(* Theorems.                                                               *)

\* The invariant holds in every reachable state.
THEOREM Invariance == Spec => []IInv
  <1>1. IInv /\ [Next]_vars => IInv'
    <2> SUFFICES ASSUME IInv, [Next]_vars PROVE IInv'
      OBVIOUS
    <2>1. ASSUME NEW r \in ChainRun, Event(r) PROVE IInv'
      BY <2>1, ObserveKeepsInv, MatchKeepsInv, RememberKeepsInv, MissKeepsInv,
         ForwardKeepsInv, EndKeepsInv, ErrorKeepsInv DEF Event
    <2>2. CASE UNCHANGED vars
      BY <2>2, StutterKeepsInv
    <2> QED
      BY <2>1, <2>2, ReadingKeepsInv DEF Next, Finished
  <1> QED
    BY <1>1, InitInv, PTL DEF Spec

\* The tables, the events and the statistics keep their types.
THEOREM TypeCorrect == Spec => []TypeOK
  <1>1. IInv => TypeOK
    BY DEF IInv
  <1> QED
    BY <1>1, Invariance, PTL

\* No payload as it is and no undeclared path of a node with a contract reaches the
\* downstream callback.
THEOREM PayloadsAreProjected == Spec => []PayloadsFollowTheContract
  <1>1. IInv => PayloadsFollowTheContract
    BY DEF IInv
  <1> QED
    BY <1>1, Invariance, PTL

\* Only runs that go on, or were refused their start, are remembered.
THEOREM NothingElseRemembered == Spec => []RememberedRunsAreLive
  <1>1. IInv => RememberedRunsAreLive
    BY DEF IInv
  <1> QED
    BY <1>1, Invariance, PTL

\* Statistics never contradict themselves, and cover every start that was forwarded
\* before they were asked for.
THEOREM StatsAgree == Spec => []StatsAgreeWithStarts
  <1>1. IInv => StatsAgreeWithStarts
    <2> SUFFICES ASSUME IInv, StatsReturned
                 PROVE  /\ stats.matched \subseteq stats.observed
                        /\ stats.matched \cap (stats.missing \cup stats.unmatched) = {}
                        /\ earlier \subseteq stats.observed
                        /\ earlier \cap Expected \subseteq stats.matched \ stats.missing
                        /\ earlier \ Expected \subseteq stats.unmatched
      BY DEF StatsAgreeWithStarts
    <2> QED
      BY DEF IInv, TypeOK, ReaderInv, StatsReturned
  <1> QED
    BY <1>1, Invariance, PTL

-------------------------------------------------------------------------------
(* The handler implements CallbackTable.                                   *)

TablePhase == [r \in ChainRun |-> Phase(r)]

TableOpen == {r \in DOMAIN byRun : pc[r] # "forward"}

TableTold == [r \in ChainRun |-> Kinds(events[r])]

TableKept == {r \in ChainRun : node[r] \in Expected}

\* The kinds of a row of calls, and of one that grows by a call.
LEMMA KindsGrow ==
    ASSUME NEW s \in Seq(EventType), NEW e \in EventType
    PROVE  Kinds(Append(s, e)) = Kinds(s) \o <<e.kind>>
  <1> DEFINE Kind == {"start", "end", "error"}
             more == Append(s, e)
  <1>1. /\ Len(s) \in Nat /\ DOMAIN s = 1..Len(s) /\ DOMAIN more = 1..(Len(s) + 1)
        /\ \A i \in 1..Len(s) : s[i] \in EventType /\ more[i] = s[i]
        /\ more[Len(s) + 1] = e
    OBVIOUS
  <1>2. /\ \A i \in 1..Len(s) : s[i].kind \in Kind
        /\ e.kind \in Kind
    BY <1>1 DEF EventType
  <1>3. Kinds(s) = [i \in 1..Len(s) |-> s[i].kind]
    BY <1>1 DEF Kinds
  <1>4. Kinds(s) \in Seq(Kind) /\ Len(Kinds(s)) = Len(s)
    BY <1>1, <1>2, <1>3
  <1>5. Kinds(more) = [i \in 1..(Len(s) + 1) |-> more[i].kind]
    BY <1>1 DEF Kinds
  <1> DEFINE first == Kinds(s)
  <1>6. \A i \in 1..Len(s) : first[i] = s[i].kind
    BY <1>3
  <1>7. first \in Seq(Kind) /\ Len(first) = Len(s) /\ e.kind \in Kind
    BY <1>2, <1>4
  <1> HIDE DEF Kind, first
  <1>8. first \o <<e.kind>> = Append(first, e.kind)
    BY <1>7
  <1>9. Append(first, e.kind)
            = [i \in 1..(Len(s) + 1) |-> IF i = Len(s) + 1 THEN e.kind ELSE first[i]]
    BY <1>1, <1>7
  <1>10. \A i \in 1..(Len(s) + 1) : more[i].kind = IF i = Len(s) + 1 THEN e.kind ELSE first[i]
    <2> HIDE DEF more
    <2> QED
      BY <1>1, <1>6
  <1> QED
    BY <1>5, <1>8, <1>9, <1>10 DEF first

\* A call moves the phase of its run and is told of it.
LEMMA OneCallMoves ==
    ASSUME IInv, NEW r \in ChainRun, NEW place, pc' = [pc EXCEPT ![r] = place],
           NEW e \in EventType, events' = [events EXCEPT ![r] = Append(@, e)]
    PROVE  /\ TablePhase' = [TablePhase EXCEPT ![r] = Phase(r)']
           /\ TableTold' = [TableTold EXCEPT ![r] = @ \o <<e.kind>>]
           /\ pc'[r] = place
  <1>1. /\ \A q \in ChainRun : pc'[q] = IF q = r THEN place ELSE pc[q]
        /\ \A q \in ChainRun : events'[q] = IF q = r THEN Append(events[r], e) ELSE events[q]
        /\ events[r] \in Seq(EventType)
    BY DEF IInv, TypeOK
  <1>2. \A q \in ChainRun \ {r} : Phase(q)' = Phase(q)
    BY <1>1 DEF Phase
  <1>3. Kinds(events'[r]) = Kinds(events[r]) \o <<e.kind>>
    BY <1>1, KindsGrow
  <1>4. \A q \in ChainRun \ {r} : Kinds(events'[q]) = Kinds(events[q])
    BY <1>1
  <1> QED
    BY <1>1, <1>2, <1>3, <1>4 DEF TablePhase, TableTold

\* Before any event the table is empty.
LEMMA TableStarts == Init => Table!TableInit
  <1> SUFFICES ASSUME Init
               PROVE  Table!TableInit
    OBVIOUS
  <1>1. \A r \in ChainRun : Phase(r) = "new" /\ Kinds(events[r]) = <<>>
    BY DEF Init, Phase, Kinds
  <1>2. DOMAIN byRun = {}
    BY DEF Init
  <1> QED
    BY <1>1, <1>2 DEF Table!TableInit

\* A start that is forwarded is Begin, and the remembered contract its entry.
LEMMA ForwardBegins ==
    ASSUME IInv, NEW r \in ChainRun, ForwardStart(r)
    PROVE  Table!Begin(r)
  <1>1. PICK view \in ViewType : Call(r, "start", view)
    BY ObservationIsCovered, RawIsTyped DEF ForwardStart
  <1>2. PICK place \in {"running", "refused"} : pc' = [pc EXCEPT ![r] = place]
    BY DEF ForwardStart
  <1>3. /\ [kind |-> "start", view |-> view] \in EventType
        /\ events' = [events EXCEPT ![r] = Append(@, [kind |-> "start", view |-> view])]
    BY <1>1 DEF Call, EventType
  <1>4. /\ TablePhase' = [TablePhase EXCEPT ![r] = Phase(r)']
        /\ TableTold' = [TableTold EXCEPT ![r] = @ \o <<"start">>]
        /\ pc'[r] = place
    BY <1>2, <1>3, OneCallMoves
  <1>5. TablePhase[r] = "new" /\ Phase(r)' \in {"going", "broken"}
    BY <1>4 DEF TablePhase, Phase, ForwardStart
  <1>6. r \in DOMAIN byRun <=> node[r] \in Expected
    BY NoneIsNoNode DEF ForwardStart, IInv, RememberedRunsAreLive, CountInv
  <1>7. byRun' = byRun /\ node' = node
    BY DEF ForwardStart
  <1>8. TableOpen' = TableOpen \cup ({r} \cap TableKept)
    BY <1>2, <1>6, <1>7 DEF TableOpen, TableKept, IInv, TypeOK
  <1> QED
    BY <1>4, <1>5, <1>7, <1>8 DEF Table!Begin, Table!Tell, TablePhase, TableTold, TableOpen, TableKept

\* An end or an error that is forwarded closes the entry.
LEMMA ForgettingCloses ==
    ASSUME IInv, NEW r \in ChainRun, NEW kind \in {"end", "error"}, byRun' = Forget(r),
           NEW place \in {"ended", "failing"}, pc' = [pc EXCEPT ![r] = place],
           TableTold' = [TableTold EXCEPT ![r] = @ \o <<kind>>]
    PROVE  Table!Close(r, kind)
  <1>1. DOMAIN byRun' = DOMAIN byRun \ {r}
    BY DEF Forget, Restrict
  <1>2. \A q \in ChainRun \ {r} : pc'[q] = pc[q]
    BY DEF IInv, TypeOK
  <1>3. TableOpen' = TableOpen \ {r}
    BY <1>1, <1>2 DEF TableOpen, IInv, TypeOK
  <1>4. <<kind>> \in Table!Whole(r, kind)
    BY DEF Table!Whole
  <1> QED
    BY <1>3, <1>4 DEF Table!Close, Table!Tell, TableOpen, TableTold

\* A step of a run before its start is forwarded is not about the table.
LEMMA LookupIsHidden ==
    ASSUME IInv, NEW r \in ChainRun,
           ObserveNode(r) \/ MatchNode(r) \/ RememberContract(r) \/ MissNode(r)
    PROVE  UNCHANGED Table!tableVars
  <1>1. PICK place \in {"observed", "matched", "forward"} : pc' = [pc EXCEPT ![r] = place]
    BY DEF ObserveNode, MatchNode, RememberContract, MissNode
  <1>2. pc[r] \in {"new", "observed", "matched"} /\ node' = node /\ events' = events
    BY DEF ObserveNode, MatchNode, RememberContract, MissNode
  <1>3. pc'[r] = place /\ \A q \in ChainRun \ {r} : pc'[q] = pc[q]
    BY <1>1 DEF IInv, TypeOK
  <1>4. \A q \in ChainRun : Phase(q)' = Phase(q)
    BY <1>2, <1>3 DEF Phase
  <1>5. r \notin DOMAIN byRun
    BY <1>2 DEF IInv, RememberedRunsAreLive
  <1>6. \/ byRun' = byRun
        \/ DOMAIN byRun' = DOMAIN byRun \cup {r} /\ place = "forward"
    <2>1. CASE RememberContract(r)
      <3>1. pc'[r] = "forward"
        BY <2>1 DEF RememberContract, IInv, TypeOK
      <3> QED
        BY <1>3, <2>1, <3>1 DEF RememberContract, RunKey
    <2> QED
      BY <2>1 DEF ObserveNode, MatchNode, MissNode
  <1>7. TableOpen' = TableOpen
    BY <1>3, <1>5, <1>6 DEF TableOpen, IInv, TypeOK
  <1> QED
    BY <1>2, <1>4, <1>7 DEF Table!tableVars, TableOpen

\* Every step is one of the table, or is not about it.
LEMMA TableStep ==
    ASSUME IInv, [Next]_vars
    PROVE  [Table!TableNext]_(Table!tableVars)
  <1>1. ASSUME NEW r \in ChainRun, ChainEnd(r)
        PROVE  Table!End(r)
    <2>1. PICK view \in ViewType : Call(r, "end", view)
      BY <1>1, ObservationIsCovered, RawIsTyped DEF ChainEnd
    <2>2. PICK place \in {"ended", "failing"} : pc' = [pc EXCEPT ![r] = place]
      BY <1>1 DEF ChainEnd
    <2>3. /\ [kind |-> "end", view |-> view] \in EventType
          /\ events' = [events EXCEPT ![r] = Append(@, [kind |-> "end", view |-> view])]
      BY <2>1 DEF Call, EventType
    <2>4. /\ TablePhase' = [TablePhase EXCEPT ![r] = Phase(r)']
          /\ TableTold' = [TableTold EXCEPT ![r] = @ \o <<"end">>]
          /\ pc'[r] = place
      BY <2>2, <2>3, OneCallMoves
    <2>5. TablePhase[r] = "going" /\ Phase(r)' \in {"over", "failing"}
      BY <1>1, <2>2, <2>4 DEF TablePhase, Phase, ChainEnd
    <2>6. Table!Close(r, "end") /\ node' = node
      BY <1>1, <2>2, <2>4, ForgettingCloses DEF ChainEnd, RunKey
    <2> QED
      BY <2>4, <2>5, <2>6 DEF Table!End, TablePhase
  <1>2. ASSUME NEW r \in ChainRun, ChainError(r)
        PROVE  Table!Fail(r)
    <2>1. /\ pc[r] \in {"running", "failing"} /\ pc' = [pc EXCEPT ![r] = "ended"]
          /\ byRun' = Forget(r) /\ node' = node
      BY <1>2 DEF ChainError, RunKey
    <2>2. /\ [kind |-> "error", view |-> NoPayload] \in EventType
          /\ events' = [events EXCEPT ![r] = Append(@, [kind |-> "error", view |-> NoPayload])]
      BY <1>2 DEF ChainError, Call, EventType, ViewType, NoPayload
    <2>3. /\ TablePhase' = [TablePhase EXCEPT ![r] = Phase(r)']
          /\ TableTold' = [TableTold EXCEPT ![r] = @ \o <<"error">>]
          /\ pc'[r] = "ended"
      BY <2>1, <2>2, OneCallMoves
    <2>4. TablePhase[r] \in {"going", "failing"} /\ Phase(r)' = "over"
      BY <2>1, <2>3 DEF TablePhase, Phase
    <2>5. Table!Close(r, "error")
      BY <2>1, <2>3, ForgettingCloses
    <2> QED
      BY <2>1, <2>3, <2>4, <2>5 DEF Table!Fail, TablePhase
  <1>3. ASSUME UNCHANGED <<pc, node, byRun, events>>
        PROVE  UNCHANGED Table!tableVars
    BY <1>3 DEF Table!tableVars, Phase, Kinds
  <1>4. Reading \/ Finished \/ UNCHANGED vars => UNCHANGED Table!tableVars
    BY <1>3 DEF Reading, ReadMatched, ReadObserved, ReadUnmatched, ReadMissing, Finished, vars
  <1> QED
    BY <1>1, <1>2, <1>4, ForwardBegins, LookupIsHidden DEF Next, Event, Table!TableNext

\* The handler tells the downstream callback the events of each run in order, and
\* remembers its contract from the start to the first end.
THEOREM HandlerIsTable == Spec => ImplementsTable
  <1>1. IInv /\ [Next]_vars => [Table!TableNext]_(Table!tableVars)
    BY TableStep
  <1> QED
    BY <1>1, TableStarts, Invariance, PTL DEF Spec, ImplementsTable, Table!TableSpec
===============================================================================
