------------------------------- MODULE GraphRun -------------------------------
(***************************************************************************)
(* One run of a LangGraph graph whose nodes are wrapped with contracts     *)
(* (langgraph/nodes.py), observed by both callbacks of graphobs and by     *)
(* spans: GraphLogCallback first (logging/callback.py), then               *)
(* ProjectedCallbackHandler (langgraph/callbacks.py), while the demo       *)
(* helpers install a tracer provider (module TracerSetup).                 *)
(*                                                                         *)
(* The parts are modelled in full by ContractRun, CallbackProjection and   *)
(* GraphLog; here a step is one of their phases, so that it can be seen    *)
(* what they say together.  LangGraph and LangChain are external.  Both    *)
(* callbacks have raise_error set: what they raise reaches the graph.      *)
(* GraphRun implements PlainGraph, the graph without graphobs.             *)
(***************************************************************************)
EXTENDS StatePaths, FiniteSets

CONSTANTS Node,        \* nodes of the graphs
          Root,        \* the LangChain run of the graph itself
          ContractOf,  \* the contract each node is wrapped with
          Flow,        \* see PlainGraph
          TestsDict,   \* nodes that ask isinstance(x, dict) of what they read
          Channel,     \* see PlainGraph
          Default,     \* see PlainGraph
          Setting,     \* what may be run: the plan, the mode of each node, the
                       \* tracing helper of each caller
          Caller,      \* see TracerSetup
          Nobody       \* see TracerSetup

VARIABLES plan, run, stage, state,               \* see PlainGraph
          helper, at, provider, processor,       \* see TracerSetup
          answer, warned, begunWith, exported,   \* see TracerSetup
          mode,     \* NodeContractMode of each node; never changes
          pc,       \* where each node's run stands
          update,   \* what each node's wrapper returned, None before
          span,     \* the span of each node's wrapper
          log,      \* the event records GraphLogCallback wrote of each run
          logOpen,  \* the runs GraphLogCallback has entries of
          byRun,    \* the runs ProjectedCallbackHandler remembers a contract of
          seen      \* what its downstream callback was called with, of each run

graphVars == <<plan, run, stage, state>>
callbackVars == <<log, logOpen, byRun, seen>>
wrapperVars == <<mode, pc, update, span>>
tracerVars == <<helper, at, provider, processor, answer, warned, begunWith, exported>>
vars == <<graphVars, callbackVars, wrapperVars, tracerVars>>

\* What has become of the graph's run for whoever only asks what it computed.
Outcome == IF run = "failing" THEN "going"
           ELSE IF run \in {"refused", "unreported"} THEN "failed" ELSE run

Plain == INSTANCE PlainGraph WITH run <- Outcome

Tracing == INSTANCE TracerSetup WITH Span <- Node

Mode == {"observe", "audit", "enforce"}

\* The leaves of an update do not lie below one another.  A node runs in one
\* superstep: what runs again in a loop is a node of its own here.
ASSUME GraphRunAssumption ==
    /\ Root \notin Node /\ Nobody \notin Caller /\ None \notin Path
    /\ ContractOf \in [Node -> ContractType]
    /\ Channel \subseteq Key /\ Default \in Value
    /\ \A n \in Node :
        /\ DOMAIN Flow[n] \subseteq Path /\ Range(Flow[n]) \subseteq Path \cup {None}
        /\ \A p, q \in DOMAIN Flow[n] : IsPrefix(p, q) => p = q
    /\ \A s \in Setting :
        /\ IsTree(s.plan.initial) /\ s.plan.stages \in Seq(SUBSET Node)
        /\ \A i, j \in DOMAIN s.plan.stages : i # j => s.plan.stages[i] \cap s.plan.stages[j] = {}
        /\ s.mode \in [Node -> Mode] /\ s.helper \in [Caller -> Tracing!Helper]

-------------------------------------------------------------------------------
(* What a node is given and what it returns.                               *)

\* The nodes of the superstep that is running.
Current == IF stage \in DOMAIN plan.stages THEN plan.stages[stage] ELSE {}

\* add_contract_node registers a strict node with its input schema.
Received(n) ==
    Narrow(IF mode[n] = "enforce" THEN InputSchema(ContractOf[n]) ELSE None, state)

\* _node_execution_input, without the tracker.
RunInput(n) ==
    IF mode[n] = "enforce" THEN BuildExecutionInput(ContractOf[n], Received(n)) ELSE Received(n)

\* The nested mappings of a tracked state are views, which are no dict.
MeetsView(n) == mode[n] # "observe" /\ n \in TestsDict

\* The update of the wrapped node function.
WrappedUpdate(n) ==
    [leaf \in DOMAIN Flow[n] |->
        LET source == Flow[n][leaf]
        IN  IF MeetsView(n) /\ source # None /\ Len(source) > 1
            THEN Default ELSE Plain!ValueAt(RunInput(n), source)]

\* The paths a node looks up: down to each source, as far as there are mappings.
Reads(n) ==
    LET sources == Range(Flow[n]) \ {None}
        down == UNION {{SubSeq(p, 1, k) : k \in 1..Len(p)} : p \in sources}
    IN  {p \in down : IsMapping(RunInput(n), Front(p)) /\ (MeetsView(n) => Len(p) = 1)}

\* Mutant: writes are not checked.
ViolatesByReads(n) == mode[n] = "enforce" /\ UndeclaredReads(ContractOf[n], Reads(n)) # {}

\* What a strict node is rejected for.
Violates(n) ==
    /\ mode[n] = "enforce"
    /\ \/ UndeclaredReads(ContractOf[n], Reads(n)) # {}
       \/ UndeclaredWrites(ContractOf[n], WrappedUpdate(n)) # {}

\* Mutant: the execution input is recorded.
PrivateInput(n) == RunInput(n)

PublicInput(n) == Project(ContractOf[n].inputs, Received(n))

PublicOutput(n, u) == Project(ContractOf[n].outputs, u)

-------------------------------------------------------------------------------
(* LangChain hands an event to the callbacks in turn.  When the log raises,*)
(* a synchronous graph stops there; an asynchronous one has handed the     *)
(* event to both.                                                          *)

Delivery ==
    {d \in [logged : BOOLEAN, forwarded : BOOLEAN, raised : BOOLEAN] :
        /\ d.logged => d.forwarded
        /\ ~d.logged => d.raised}

\* A last event of a run without an entry is preceded by a record of that.
Announced(r, kind) == IF kind = "start" \/ r \in logOpen THEN <<>> ELSE <<"duration_missing">>

\* The records of an event; either may raise and not be written.
Write(r, kind, d) ==
    IF d.logged
    THEN log' = [log EXCEPT ![r] = @ \o Announced(r, kind) \o <<kind>>]
    ELSE \E part \in {<<>>, Announced(r, kind)} : log' = [log EXCEPT ![r] = @ \o part]

\* Mutant: the projection forgets a contract at the end of a run only.
DeliverKeeping(r, kind, view, d) ==
    /\ Write(r, kind, d)
    /\ logOpen' = IF kind = "start" THEN logOpen \cup {r} ELSE logOpen \ {r}
    /\ byRun' = IF ~d.forwarded \/ r = Root \/ kind = "error" THEN byRun
                ELSE IF kind = "start" THEN byRun \cup {r} ELSE byRun \ {r}
    /\ seen' = IF d.forwarded
               THEN [seen EXCEPT ![r] = Append(@, [kind |-> kind, view |-> view])]
               ELSE seen

\* Mutant: the log forgets a run when its last record is written.
DeliverLogged(r, kind, view, d) ==
    /\ Write(r, kind, d)
    /\ logOpen' = IF kind = "start" THEN logOpen \cup {r}
                  ELSE IF d.logged THEN logOpen \ {r} ELSE logOpen
    /\ byRun' = IF ~d.forwarded \/ r = Root THEN byRun
                ELSE IF kind = "start" THEN byRun \cup {r} ELSE byRun \ {r}
    /\ seen' = IF d.forwarded
               THEN [seen EXCEPT ![r] = Append(@, [kind |-> kind, view |-> view])]
               ELSE seen

\* Both handle their tables before they log or forward.
Deliver(r, kind, view, d) ==
    /\ Write(r, kind, d)
    /\ logOpen' = IF kind = "start" THEN logOpen \cup {r} ELSE logOpen \ {r}
    /\ byRun' = IF ~d.forwarded \/ r = Root THEN byRun
                ELSE IF kind = "start" THEN byRun \cup {r} ELSE byRun \ {r}
    /\ seen' = IF d.forwarded
               THEN [seen EXCEPT ![r] = Append(@, [kind |-> kind, view |-> view])]
               ELSE seen

-------------------------------------------------------------------------------

NewSpan == [open |-> FALSE, status |-> "unset", input |-> {}, output |-> {}]

Init ==
    /\ \E s \in Setting : plan = s.plan /\ mode = s.mode /\ helper = s.helper
    /\ run = "new" /\ stage = 1 /\ state = plan.initial
    /\ Tracing!TracerInit
    /\ pc = [n \in Node |-> "idle"]
    /\ update = [n \in Node |-> None]
    /\ span = [n \in Node |-> NewSpan]
    /\ log = [r \in Node \cup {Root} |-> <<>>]
    /\ logOpen = {} /\ byRun = {}
    /\ seen = [r \in Node \cup {Root} |-> <<>>]

StartGraph ==
    /\ run = "new"
    /\ \E d \in Delivery :
        /\ Deliver(Root, "start", state, d)
        /\ run' = IF d.raised THEN "refused" ELSE "going"
    /\ UNCHANGED <<plan, stage, state, wrapperVars, tracerVars>>

(* The run of a node.                                                      *)

StartRun(n) ==
    /\ run = "going" /\ n \in Current /\ pc[n] = "idle"
    /\ \E d \in Delivery :
        /\ Deliver(n, "start", PublicInput(n), d)
        /\ pc' = [pc EXCEPT ![n] = IF d.raised THEN "refused" ELSE "called"]
    /\ UNCHANGED <<graphVars, mode, update, span, tracerVars>>

\* The wrapper opens the span and records the input.
Enter(n) ==
    /\ pc[n] = "called"
    /\ Tracing!BeginSpan(n)
    /\ span' = [span EXCEPT ![n] = [@ EXCEPT !.open = TRUE, !.input = {PublicInput(n)}]]
    /\ pc' = [pc EXCEPT ![n] = "running"]
    /\ UNCHANGED <<graphVars, callbackVars, mode, update>>

\* An attribute or the input cannot be recorded.
EnterFails(n) ==
    /\ pc[n] = "called"
    /\ Tracing!BeginSpan(n)
    /\ span' = [span EXCEPT ![n] = [@ EXCEPT !.open = TRUE, !.status = "error"]]
    /\ pc' = [pc EXCEPT ![n] = "raised"]
    /\ UNCHANGED <<graphVars, callbackVars, mode, update>>

\* Mutant: a span that ends well gets a status.
AcceptMarked(n) ==
    /\ pc[n] = "running" /\ ~Violates(n)
    /\ update' = [update EXCEPT ![n] = WrappedUpdate(n)]
    /\ span' = [span EXCEPT ![n] = [@ EXCEPT !.status = "ok",
                                            !.output = {PublicOutput(n, WrappedUpdate(n))}]]
    /\ pc' = [pc EXCEPT ![n] = "returned"]
    /\ UNCHANGED <<graphVars, callbackVars, mode, tracerVars>>

\* The node function returns, within its contract if it is strict.
Accept(n) ==
    /\ pc[n] = "running" /\ ~Violates(n)
    /\ update' = [update EXCEPT ![n] = WrappedUpdate(n)]
    /\ span' = [span EXCEPT ![n].output = {PublicOutput(n, WrappedUpdate(n))}]
    /\ pc' = [pc EXCEPT ![n] = "returned"]
    /\ UNCHANGED <<graphVars, callbackVars, mode, tracerVars>>

\* The node function raises, it is rejected, or its output cannot be recorded.
Raise(n) ==
    /\ pc[n] = "running"
    /\ span' = [span EXCEPT ![n].status = "error"]
    /\ pc' = [pc EXCEPT ![n] = "raised"]
    /\ UNCHANGED <<graphVars, callbackVars, mode, update, tracerVars>>

Failure == {"refused", "failed", "unreported", "lost"}

\* LangGraph cancels the tasks of a superstep in which one has failed; the
\* wrapper's except clause does not catch that.
Cancel(n) ==
    /\ pc[n] \in {"called", "running"}
    /\ \E m \in Current : pc[m] \in Failure
    /\ pc' = [pc EXCEPT ![n] = "cancelled"]
    /\ UNCHANGED <<graphVars, callbackVars, mode, update, span, tracerVars>>

\* span_record of demo/span_records.py.
SpanRecord(n) ==
    [name |-> n, status |-> span[n].status, input |-> span[n].input, output |-> span[n].output]

\* Mutant: the span is not ended when an exception passes.
LeaveReturned(n) ==
    /\ pc[n] = "returned" /\ span[n].open
    /\ Tracing!EndSpan(n, SpanRecord(n))
    /\ span' = [span EXCEPT ![n].open = FALSE]
    /\ UNCHANGED <<graphVars, callbackVars, mode, pc, update>>

\* The wrapper's with block ends the span.
Leave(n) ==
    /\ pc[n] \in {"returned", "raised", "cancelled"} /\ span[n].open
    /\ Tracing!EndSpan(n, SpanRecord(n))
    /\ span' = [span EXCEPT ![n].open = FALSE]
    /\ UNCHANGED <<graphVars, callbackVars, mode, pc, update>>

\* Mutant: what a callback raises at the end is swallowed.
EndRunQuietly(n) ==
    /\ pc[n] = "returned" /\ ~span[n].open
    /\ \E d \in Delivery : Deliver(n, "end", PublicOutput(n, update[n]), d)
    /\ pc' = [pc EXCEPT ![n] = "landed"]
    /\ UNCHANGED <<graphVars, mode, update, span, tracerVars>>

\* The end event follows the return; when it raises, the update is lost, and
\* there is no error event of this run.
EndRun(n) ==
    /\ pc[n] = "returned" /\ ~span[n].open
    /\ \E d \in Delivery :
        /\ Deliver(n, "end", PublicOutput(n, update[n]), d)
        /\ pc' = [pc EXCEPT ![n] = IF d.raised THEN "lost" ELSE "landed"]
    /\ UNCHANGED <<graphVars, mode, update, span, tracerVars>>

\* Whether it raises or not, an error event ends the run.
FailRun(n) ==
    /\ pc[n] \in {"raised", "cancelled"} /\ ~span[n].open
    /\ \E d \in Delivery :
        /\ Deliver(n, "error", EmptyTree, d)
        /\ pc' = [pc EXCEPT ![n] = IF d.raised THEN "unreported" ELSE "failed"]
    /\ UNCHANGED <<graphVars, mode, update, span, tracerVars>>

(* The graph.                                                              *)

Clashing == Plain!Clash(Current, update)

\* The updates of a superstep are applied together.
Advance ==
    /\ run = "going" /\ stage \in DOMAIN plan.stages
    /\ \A n \in Current : pc[n] = "landed"
    /\ ~Clashing
    /\ state' = Plain!Applied(Current, update, state)
    /\ stage' = stage + 1
    /\ UNCHANGED <<plan, run, callbackVars, wrapperVars, tracerVars>>

\* The error event of the graph's run may itself raise.
ReportFailure ==
    /\ \E d \in Delivery :
        /\ Deliver(Root, "error", EmptyTree, d)
        /\ run' = IF d.raised THEN "unreported" ELSE "failed"
    /\ UNCHANGED <<plan, stage, state, wrapperVars, tracerVars>>

\* A node of the superstep failed, or two write one channel; the others have
\* ended or were never started.
FailGraph ==
    /\ run = "going"
    /\ \A n \in Current : pc[n] \in Failure \cup {"idle", "landed"}
    /\ \/ \E n \in Current : pc[n] \in Failure
       \/ (\A n \in Current : pc[n] = "landed") /\ Clashing
    /\ ReportFailure

FinishGraph ==
    /\ run = "going" /\ stage > Len(plan.stages)
    /\ \E d \in Delivery :
        /\ Deliver(Root, "end", state, d)
        /\ run' = IF d.raised THEN "failing" ELSE "done"
    /\ UNCHANGED <<plan, stage, state, wrapperVars, tracerVars>>

\* The end event of the graph's run raised.
FailAfterEnd == run = "failing" /\ ReportFailure

Configure(c) == Tracing!Configure(c) /\ UNCHANGED <<graphVars, callbackVars, wrapperVars>>

Finished ==
    /\ Outcome \in {"done", "failed"} /\ \A c \in Caller : at[c] = "done"
    /\ UNCHANGED vars

-------------------------------------------------------------------------------

\* Steps of the wrapper and of LangChain, which need no node function to go on.
Wrapper(n) == StartRun(n) \/ Enter(n) \/ EnterFails(n) \/ Leave(n) \/ EndRun(n) \/ FailRun(n)

NodeFunction(n) == Accept(n) \/ Raise(n) \/ Cancel(n)

Graph == Advance \/ FailGraph \/ FinishGraph \/ FailAfterEnd

Next ==
    \/ StartGraph \/ Graph
    \/ \E n \in Node : Wrapper(n) \/ NodeFunction(n)
    \/ \E c \in Caller : Configure(c)
    \/ Finished

Spec == Init /\ [][Next]_vars

\* Threads and tasks that can go on do; nothing is assumed of node functions and
\* of the callers of the tracing helpers.
FairSpec == Spec /\ WF_vars(Graph) /\ \A n \in Node : WF_vars(Wrapper(n))

-------------------------------------------------------------------------------
(* What CallbackTable says of the two callbacks.                           *)

Runs == Node \cup {Root}

EndedWell(r) == IF r = Root THEN run \in {"done", "failed"} ELSE pc[r] \in {"landed", "failed"}

\* The only or the last event of the run raised.
Broken(r) == IF r = Root THEN run \in {"refused", "unreported"}
             ELSE pc[r] \in {"refused", "unreported", "lost"}

Over(r) == EndedWell(r) \/ Broken(r)

Phase(r) == IF EndedWell(r) THEN "over"
            ELSE IF Broken(r) THEN "broken"
            ELSE IF r = Root THEN run
            ELSE IF pc[r] = "idle" THEN "new" ELSE "going"

Kinds(events) == [i \in DOMAIN events |-> events[i].kind]

LogTable == INSTANCE CallbackTable WITH
    ChainRun <- Runs, First <- TRUE, phase <- [r \in Runs |-> Phase(r)], kept <- Runs,
    open <- logOpen, told <- log

ProjectionTable == INSTANCE CallbackTable WITH
    ChainRun <- Runs, First <- FALSE, phase <- [r \in Runs |-> Phase(r)], kept <- Node,
    open <- byRun, told <- [r \in Runs |-> Kinds(seen[r])]

-------------------------------------------------------------------------------
(* Properties.                                                             *)

PcValues == {"idle", "called", "refused", "running", "returned", "raised", "cancelled",
             "landed", "lost", "failed", "unreported"}

\* Every variable has its type; a payload is a tree, recorded at most once.
TypeOK ==
    LET isTrees(payload) == Cardinality(payload) <= 1 /\ \A t \in payload : IsTree(t)
        isRecord(x) == x.name \in Node /\ x.status \in {"unset", "error"}
                       /\ isTrees(x.input) /\ isTrees(x.output)
    IN  /\ run \in {"new", "going", "failing", "done", "refused", "failed", "unreported"}
        /\ stage \in 1..Len(plan.stages) + 1
        /\ IsTree(state)
        /\ mode \in [Node -> Mode]
        /\ pc \in [Node -> PcValues]
        /\ \A n \in Node : /\ update[n] = None \/ IsTree(update[n])
                           /\ span[n].open \in BOOLEAN /\ isRecord(SpanRecord(n))
        /\ log \in [Runs -> Seq({"start", "end", "error", "duration_missing"})]
        /\ logOpen \subseteq Runs /\ byRun \subseteq Node
        /\ \A r \in Runs : \A i \in DOMAIN seen[r] :
            seen[r][i].kind \in {"start", "end", "error"} /\ IsTree(seen[r][i].view)
        /\ \A c \in Caller : \A i \in DOMAIN exported[c] : isRecord(exported[c][i])
        /\ Tracing!SetupTypeOK

\* Contracts, spans, logs and callbacks change nothing of what a graph computes:
\* a run is one of the plain graph, or fails.  In every mode a wrapped node gets
\* all that its contract declares, through its input schema and its projections.  Not
\* of settings in which a node that asks isinstance(x, dict) is tracked: see
\* PassThroughReturnsPlainUpdate.
ImplementsPlainGraph == Plain!PlainSpec

\* The span and the projected events of a node show the same: the declared public
\* part of the graph's state at that superstep, and of the node's update, whatever
\* the node itself was given.
SurfacesShowPublicState ==
    \A n \in Current :
        LET shown(kind) == {seen[n][i].view : i \in {j \in DOMAIN seen[n] : seen[n][j].kind = kind}}
        IN  /\ \A t \in span[n].input \cup shown("start") : t = Project(ContractOf[n].inputs, state)
            /\ \A t \in span[n].output \cup shown("end") :
                t = Project(ContractOf[n].outputs, update[n])

\* What is left of a node's run tells what became of it.  A landed update has a
\* complete span and complete events; a failed run has complete events, if the error
\* could be told, and a span without output that tells of an error, or of nothing
\* when it was cancelled for another's failure; a graph is done only when every
\* node's update has landed.
EvidenceMatchesFate ==
    /\ \A n \in Node :
        /\ pc[n] = "landed" =>
            /\ ~span[n].open /\ span[n].status = "unset"
            /\ span[n].input # {} /\ span[n].output # {}
            /\ log[n] = <<"start", "end">> /\ Kinds(seen[n]) = <<"start", "end">>
        /\ pc[n] \in {"failed", "unreported"} =>
            /\ ~span[n].open /\ span[n].output = {}
            /\ span[n].status = "error" \/ \E m \in Node \ {n} : pc[m] \in Failure
        /\ pc[n] = "failed" =>
            log[n] = <<"start", "error">> /\ Kinds(seen[n]) = <<"start", "error">>
        /\ pc[n] = "unreported" =>
            /\ log[n] \in {<<"start">>, <<"start", "error">>}
            /\ Kinds(seen[n]) \in {<<"start">>, <<"start", "error">>}
        /\ pc[n] = "lost" => run # "done" /\ span[n].status = "unset"
    /\ run = "done" => \A i \in DOMAIN plan.stages : \A n \in plan.stages[i] : pc[n] = "landed"

\* A start that a callback refused: the only event of its run, and no other follows.
Refused(r) == IF r = Root THEN run = "refused" ELSE pc[r] = "refused"

\* When a run is over both callbacks have forgotten it, unless its start was
\* refused; and the projection also keeps its entry when the log refused the last
\* event, which then never reached it.
TablesForgetEndedRuns ==
    /\ \A r \in logOpen : Over(r) => Refused(r)
    /\ \A n \in byRun : Over(n) => Refused(n) \/ log[n] = <<"start">>
    /\ \A n \in Node : ~Over(n) /\ pc[n] # "idle" => n \in logOpen \cap byRun

\* The exporter of a caller holds exactly the spans that were begun with its
\* provider and have ended, each once and as it ended: nothing begun before the
\* provider was installed, and nothing of another provider's.
ExportersTellTheRun ==
    \A c \in Caller :
        LET ended == {n \in DOMAIN begunWith : begunWith[n] = c /\ ~span[n].open}
        IN  /\ Range(exported[c]) = {SpanRecord(n) : n \in ended}
            /\ Len(exported[c]) = Cardinality(ended)

\* A call of a tracing helper that went through installed its provider or logged a
\* warning, never both and never neither; and False, with an endpoint, means that
\* another's provider is installed.  This is the code, and not the docstring of
\* configure_otlp_tracing (demo/tracing_setup.py:141-142): "``True`` if the provider
\* was installed successfully, ``False`` if the endpoint variable is unset".  A call
\* that looked before another's provider was set answers True, although OpenTelemetry
\* kept the other's and only warned; one that looked later answers False with the
\* endpoint set.
InstallationIsTold ==
    \A c \in Caller :
        /\ answer[c] \in {"exporter", "None", "True"} => (provider = c <=> c \notin warned)
        /\ answer[c] = "False" => c \in warned /\ provider # c
        /\ answer[c] = "False" /\ helper[c] = "otlp" => provider # Nobody

\* Over a whole graph run, each callback does what it promises by itself: the log
\* for every run, the projection as the second callback, which an event of a run
\* may not reach.
CallbacksKeepTheirTables == LogTable!TableSpec /\ ProjectionTable!TableSpec

\* What changes in the state of the graph was written by a node of the superstep that
\* is over: a changed leaf by a node that, if it is strict, declares it, and a leaf
\* that is gone by one that replaced its channel.
ChangesHaveAnAuthor ==
    [][ /\ \A p \in DOMAIN StateDiff(state, state') : \E n \in Current :
            /\ pc[n] = "landed" /\ p \in DOMAIN update[n] /\ state'[p] = update[n][p]
            /\ mode[n] = "enforce" => UndeclaredWrites(ContractOf[n], update[n]) = {}
        /\ \A p \in DOMAIN state \ DOMAIN state' : \E n \in Current :
            pc[n] = "landed" /\ \E q \in DOMAIN update[n] : q[1] = p[1]
      ]_vars

\* If no node function runs for ever, a graph run that was started comes to an end,
\* whatever nodes, telemetry and callbacks raise and in whatever order they end.
GraphEnds ==
    []<>(\A n \in Node : pc[n] # "running") => (run = "going" ~> Over(Root))

\* The migration guide: "Callback projection, observe, or audit mode preserves
\* existing graph behavior."
PassThroughReturnsPlainUpdate ==
    \A n \in Current :
        mode[n] # "enforce" /\ update[n] # None => update[n] = Plain!PlainUpdate(n, state)
===============================================================================
