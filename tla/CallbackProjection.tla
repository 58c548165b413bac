-------------------------- MODULE CallbackProjection --------------------------
(***************************************************************************)
(* ProjectedCallbackHandler (langgraph/callbacks.py): a LangChain callback *)
(* that projects the payloads of chain events by the contract of their     *)
(* LangGraph node before it hands them to a downstream callback.           *)
(*                                                                         *)
(* LangChain delivers the events of one run in order and those of different*)
(* runs concurrently, and projection_stats may be called from any thread   *)
(* meanwhile.  One step is one operation on a table of the handler.        *)
(***************************************************************************)
EXTENDS StatePaths

CONSTANTS ChainRun,   \* LangChain run ids
          Node,       \* LangGraph node names
          Labelled,   \* the contract source: a sequence of [label, contract]
          Payload,    \* what LangGraph passes as inputs and outputs
          Opaque      \* a payload that is not a mapping

ASSUME CallbackProjectionAssumption ==
    /\ Labelled \in Seq([label : Node, contract : ContractType])
    /\ None \notin Node
    /\ \A t \in Payload : t = Opaque \/ IsTree(t)

VARIABLES pc,        \* how far the events of each run have come
          node,      \* metadata["langgraph_node"] of each run, None for the root
          byRun,     \* _contracts_by_run_id
          observed,  \* _observed_nodes
          matched,   \* _matched_nodes
          unmatched, \* _unmatched_nodes
          events,    \* what the downstream callback was called with
          reader,    \* a projection_stats call: where it stands
          stats,     \* the ProjectionStats it builds
          earlier    \* the nodes whose start was forwarded before that call

tables == <<observed, matched, unmatched>>
stating == <<reader, stats, earlier>>
vars == <<pc, node, byRun, tables, events, stating>>

-------------------------------------------------------------------------------

\* _contract_mapping: of contracts with one label the last one stays.
Contracts ==
    [n \in {Labelled[i].label : i \in DOMAIN Labelled} |->
        Labelled[SelectLastInSeq(Labelled, LAMBDA entry : entry.label = n)].contract]

Expected == DOMAIN Contracts

\* Mutant: the remembered contract is keyed by node name.
NodeKey(r) == node[r]

\* _run_key.
RunKey(r) == r

\* observe_payload with COMPACT_OBSERVATION.  Values are compacted, to their shape
\* or to a truncated message; the model keeps their paths.  Nothing of a payload
\* that is not a mapping is in a declared path; copying it for an open policy
\* fails and leaves a summary.
Observation(policy, payload) ==
    IF payload # Opaque THEN [form |-> "compact", paths |-> DOMAIN Project(policy, payload)]
    ELSE IF policy = None THEN [form |-> "summary", paths |-> {}]
    ELSE [form |-> "compact", paths |-> {}]

Raw(payload) ==
    [form |-> "raw", paths |-> IF payload = Opaque THEN {} ELSE DOMAIN payload]

NoPayload == [form |-> "none", paths |-> {}]

\* The downstream callback is called.
Call(r, kind, view) ==
    events' = [events EXCEPT ![r] = Append(@, [kind |-> kind, view |-> view])]

Forget(key) == Restrict(byRun, DOMAIN byRun \ {key})

NoStats == [matched |-> {}, observed |-> {}, unmatched |-> {}, missing |-> {}]

Init ==
    /\ pc = [r \in ChainRun |-> "new"]
    /\ node \in [ChainRun -> Node \cup {None}]
    /\ byRun = [r \in {} |-> None]
    /\ observed = {} /\ matched = {} /\ unmatched = {}
    /\ events = [r \in ChainRun |-> <<>>]
    /\ reader = [at |-> "idle", left |-> Expected]
    /\ stats = NoStats
    /\ earlier = {}

(* on_chain_start.                                                         *)

\* Mutant: the node is only remembered when diagnostics are on.
ObserveQuietly(r) ==
    /\ pc[r] = "new" /\ node[r] # None
    /\ pc' = [pc EXCEPT ![r] = "observed"]
    /\ UNCHANGED <<node, byRun, tables, events, stating>>

ObserveNode(r) ==
    /\ pc[r] = "new" /\ node[r] # None
    /\ observed' = observed \cup {node[r]}
    /\ pc' = [pc EXCEPT ![r] = "observed"]
    /\ UNCHANGED <<node, byRun, matched, unmatched, events, stating>>

MatchNode(r) ==
    /\ pc[r] = "observed" /\ node[r] \in Expected
    /\ matched' = matched \cup {node[r]}
    /\ pc' = [pc EXCEPT ![r] = "matched"]
    /\ UNCHANGED <<node, byRun, observed, unmatched, events, stating>>

RememberContract(r) ==
    /\ pc[r] = "matched"
    /\ byRun' = [k \in DOMAIN byRun \cup {RunKey(r)} |->
                    IF k = RunKey(r) THEN Contracts[node[r]] ELSE byRun[k]]
    /\ pc' = [pc EXCEPT ![r] = "forward"]
    /\ UNCHANGED <<node, tables, events, stating>>

MissNode(r) ==
    /\ pc[r] = "observed" /\ node[r] \notin Expected
    /\ unmatched' = unmatched \cup {node[r]}
    /\ pc' = [pc EXCEPT ![r] = "forward"]
    /\ UNCHANGED <<node, byRun, observed, matched, events, stating>>

\* The call may raise.  Unless the callback has raise_error set, LangChain
\* swallows that and the run goes on as if it had not; with it the run never
\* begins, and no other event of it follows.
ForwardStart(r) ==
    /\ pc[r] = "forward" \/ (pc[r] = "new" /\ node[r] = None)
    /\ \E inputs \in Payload :
        Call(r, "start", IF node[r] \in Expected
                         THEN Observation(Contracts[node[r]].inputs, inputs)
                         ELSE Raw(inputs))
    /\ \E next \in {"running", "refused"} : pc' = [pc EXCEPT ![r] = next]
    /\ UNCHANGED <<node, byRun, tables, stating>>

(* on_chain_end, on_chain_error.                                           *)

\* When the call raises, the graph that ended reports its own failure next.
ChainEnd(r) ==
    /\ pc[r] = "running"
    /\ byRun' = Forget(RunKey(r))
    /\ \E outputs \in Payload :
        Call(r, "end", IF RunKey(r) \in DOMAIN byRun
                       THEN Observation(byRun[RunKey(r)].outputs, outputs)
                       ELSE Raw(outputs))
    /\ \E next \in {"ended", "failing"} : pc' = [pc EXCEPT ![r] = next]
    /\ UNCHANGED <<node, tables, stating>>

\* Mutant: only the errors of runs that are still remembered are forwarded.
ErrorOfRemembered(r) ==
    /\ pc[r] \in {"running", "failing"}
    /\ byRun' = Forget(RunKey(r))
    /\ IF RunKey(r) \in DOMAIN byRun THEN Call(r, "error", NoPayload) ELSE UNCHANGED events
    /\ pc' = [pc EXCEPT ![r] = "ended"]
    /\ UNCHANGED <<node, tables, stating>>

ChainError(r) ==
    /\ pc[r] \in {"running", "failing"}
    /\ byRun' = Forget(RunKey(r))
    /\ Call(r, "error", NoPayload)
    /\ pc' = [pc EXCEPT ![r] = "ended"]
    /\ UNCHANGED <<node, tables, stating>>

(* projection_stats, called once, at any time.                             *)

ReadMatched ==
    /\ reader.at = "idle"
    /\ stats' = [stats EXCEPT !.matched = matched]
    /\ reader' = [reader EXCEPT !.at = "observed"]
    /\ earlier' = {node[r] : r \in {q \in ChainRun : events[q] # <<>>}} \ {None}
    /\ UNCHANGED <<pc, node, byRun, tables, events>>

ReadObserved ==
    /\ reader.at = "observed"
    /\ stats' = [stats EXCEPT !.observed = observed]
    /\ reader' = [reader EXCEPT !.at = "unmatched"]
    /\ UNCHANGED <<pc, node, byRun, tables, events, earlier>>

ReadUnmatched ==
    /\ reader.at = "unmatched"
    /\ stats' = [stats EXCEPT !.unmatched = unmatched]
    /\ reader' = [reader EXCEPT !.at = "missing"]
    /\ UNCHANGED <<pc, node, byRun, tables, events, earlier>>

\* The generator looks every expected name up in the live table.
ReadMissing(n) ==
    /\ reader.at = "missing" /\ n \in reader.left
    /\ stats' = [stats EXCEPT !.missing = IF n \in matched THEN @ ELSE @ \cup {n}]
    /\ reader' = [reader EXCEPT !.left = @ \ {n}]
    /\ UNCHANGED <<pc, node, byRun, tables, events, earlier>>

-------------------------------------------------------------------------------

Event(r) ==
    \/ ObserveNode(r) \/ MatchNode(r) \/ RememberContract(r) \/ MissNode(r)
    \/ ForwardStart(r) \/ ChainEnd(r) \/ ChainError(r)

Reading == ReadMatched \/ ReadObserved \/ ReadUnmatched \/ \E n \in Expected : ReadMissing(n)

StatsReturned == reader.at = "missing" /\ reader.left = {}

\* No run has an event left, and the statistics have been returned.
Finished ==
    /\ \A r \in ChainRun : pc[r] \in {"ended", "refused"}
    /\ StatsReturned
    /\ UNCHANGED vars

Next == (\E r \in ChainRun : Event(r)) \/ Reading \/ Finished

Spec == Init /\ [][Next]_vars

-------------------------------------------------------------------------------
(* What CallbackTable says of the handler.                                 *)

\* A run begins when its start is forwarded; its entry counts from then on.
Phase(r) == CASE pc[r] = "running" -> "going"
              [] pc[r] = "failing" -> "failing"
              [] pc[r] = "ended" -> "over"
              [] pc[r] = "refused" -> "broken"
              [] OTHER -> "new"

Kinds(calls) == [i \in DOMAIN calls |-> calls[i].kind]

Table == INSTANCE CallbackTable WITH
    First <- TRUE, phase <- [r \in ChainRun |-> Phase(r)],
    kept <- {r \in ChainRun : node[r] \in Expected},
    open <- {r \in DOMAIN byRun : pc[r] # "forward"},
    told <- [r \in ChainRun |-> Kinds(events[r])]

-------------------------------------------------------------------------------
(* Properties.                                                             *)

PcValues == {"new", "observed", "matched", "forward", "running", "failing", "ended", "refused"}

ViewType == [form : {"raw", "compact", "summary", "none"}, paths : SUBSET Path]

EventType == [kind : {"start", "end", "error"}, view : ViewType]

\* Every table has its type; only runs of nodes with a contract are remembered.
TypeOK ==
    /\ pc \in [ChainRun -> PcValues]
    /\ node \in [ChainRun -> Node \cup {None}]
    /\ byRun = [r \in DOMAIN byRun |-> byRun[r]] 
    /\ DOMAIN byRun \subseteq {r \in ChainRun : node[r] \in Expected}
    /\ observed \subseteq Node /\ matched \subseteq Expected /\ unmatched \subseteq Node
    /\ events \in [ChainRun -> Seq(EventType)]
    /\ reader \in [at : {"idle", "observed", "unmatched", "missing"}, left : SUBSET Expected]
    /\ stats \in [matched : SUBSET Expected, observed : SUBSET Node,
                  unmatched : SUBSET Node, missing : SUBSET Expected]
    /\ earlier \subseteq Node

\* The payload of an event is compacted and has only paths its policy covers.
IsPublic(c, event) ==
    LET policy == IF event.kind = "start" THEN c.inputs ELSE c.outputs
    IN  event.view.form # "raw" /\ \A p \in event.view.paths : Covers(policy, p)

\* A run of a node with a contract never shows the downstream callback a payload
\* as it is or an undeclared path, at its start or at its end, whatever the runs
\* of other nodes, or of the same node, do meanwhile; all other payloads arrive
\* unchanged.
PayloadsFollowTheContract ==
    \A r \in ChainRun : \A i \in DOMAIN events[r] :
        IF node[r] \in Expected
        THEN IsPublic(Contracts[node[r]], events[r][i])
        ELSE events[r][i].view.form \in {"raw", "none"}

\* Statistics taken while runs start never contradict themselves: what is matched
\* was observed, and no contract is both matched and missing.  They miss no node
\* whose start reached the downstream callback before they were asked for, and tell
\* for each whether it had a contract.
StatsAgreeWithStarts ==
    StatsReturned =>
        /\ stats.matched \subseteq stats.observed
        /\ stats.matched \cap (stats.missing \cup stats.unmatched) = {}
        /\ earlier \subseteq stats.observed
        /\ earlier \cap Expected \subseteq stats.matched \ stats.missing
        /\ earlier \ Expected \subseteq stats.unmatched

\* The doc of ProjectionStats: a snapshot, whose missing contracts are those "not
\* matched by any observed node" of the snapshot.
MissingComplementsMatched ==
    StatsReturned => stats.missing = Expected \ stats.matched

\* The downstream callback is called with the start of a run and then with its end
\* or its error, each once and in this order, and the contract of a run is remembered
\* from the start to the first end, whatever the downstream callback raises.  No end
\* and no error of a run is kept from it.
ImplementsTable == Table!TableSpec
===============================================================================
