---------------------------- MODULE GraphRunTables ----------------------------
(***************************************************************************)
(* Over a whole graph run, both callbacks keep what CallbackTable promises *)
(* of each of them.                                                        *)
(***************************************************************************)
EXTENDS GraphRunProofs

-------------------------------------------------------------------------------
(* The steps of a graph run that are events.                               *)

\* Where an event leads a LangChain run.
Leads(r, kind, d) ==
    \/ kind = "start" /\ Phase(r) = "new" /\ Phase(r)' = IF d.raised THEN "broken" ELSE "going"
    \/ /\ kind = "end" /\ Phase(r) = "going"
       /\ Phase(r)' \in {"over", "failing", "broken"} /\ (d.raised => Phase(r)' # "over")
    \/ /\ kind = "error" /\ Phase(r) \in {"going", "failing"}
       /\ Phase(r)' = IF d.raised THEN "broken" ELSE "over"

\* The phase of a node's run, by the point where it stands.
LEMMA PhaseIs ==
    ASSUME NEW n \in Node
    PROVE  /\ n \in Runs /\ n # Root
           /\ pc[n] = "idle" => Phase(n) = "new"
           /\ pc[n] \in Live => Phase(n) = "going"
           /\ pc'[n] \in {"landed", "failed"} => Phase(n)' = "over"
           /\ pc'[n] \in {"refused", "unreported", "lost"} => Phase(n)' = "broken"
           /\ pc'[n] \in Live => Phase(n)' = "going"
  BY GraphRunAssumption DEF Runs, Phase, EndedWell, Broken, Live

\* A step of one node's run is an event of it, or its run goes on.
LEMMA NodeEvent ==
    ASSUME TypeInv, NEW n \in Node, NodeStep(n)
    PROVE  /\ \A q \in Runs \ {n} : Phase(q)' = Phase(q)
           /\ \/ \E kind \in Kind, view \in Tree, d \in Delivery :
                    Deliver(n, kind, view, d) /\ Leads(n, kind, d)
              \/ UNCHANGED callbackVars /\ Phase(n)' = Phase(n)
  <1>1. /\ pc \in [Node -> PcValues] /\ IsTree(state)
        /\ \A m \in Node : pc[m] \in Returned => IsTree(update[m])
    BY TreeIs DEF TypeInv
  <1>2. PublicInput(n) \in Tree /\ \A u : IsTree(u) => PublicOutput(n, u) \in Tree
    BY <1>1, TreeIs, PublicInputIs, ProjectIsTree DEF PublicOutput
  <1>3. \A q \in Node \ {n} : pc'[q] = pc[q]
    BY NodeStepIs
  <1>4. ASSUME NEW q \in Runs \ {n}
        PROVE  Phase(q)' = Phase(q)
    <2>1. q = Root \/ q \in Node \ {n}
      BY DEF Runs
    <2> QED
      BY <1>3, <2>1, NodeStepKeepsGraph DEF Phase, EndedWell, Broken
  <1>5. CASE StartRun(n)
    <2>1. PICK d \in Delivery :
            /\ Deliver(n, "start", PublicInput(n), d)
            /\ pc' = [pc EXCEPT ![n] = IF d.raised THEN "refused" ELSE "called"]
      BY <1>5 DEF StartRun
    <2>2. Phase(n) = "new" /\ Phase(n)' = IF d.raised THEN "broken" ELSE "going"
      <3>1. pc[n] = "idle" /\ pc'[n] = IF d.raised THEN "refused" ELSE "called"
        BY <1>1, <1>5, <2>1 DEF StartRun
      <3> QED
        BY <3>1, PhaseIs DEF Live
    <2> QED
      BY <1>2, <1>4, <2>1, <2>2 DEF Leads, Kind
  <1>6. CASE EndRun(n)
    <2>1. PICK d \in Delivery :
            /\ Deliver(n, "end", PublicOutput(n, update[n]), d)
            /\ pc' = [pc EXCEPT ![n] = IF d.raised THEN "lost" ELSE "landed"]
      BY <1>6 DEF EndRun
    <2>2. pc[n] = "returned" /\ PublicOutput(n, update[n]) \in Tree
      BY <1>1, <1>2, <1>6 DEF EndRun, Returned
    <2>3. Phase(n) = "going" /\ Phase(n)' = IF d.raised THEN "broken" ELSE "over"
      <3>1. pc'[n] = IF d.raised THEN "lost" ELSE "landed"
        BY <1>1, <2>1
      <3> QED
        BY <2>2, <3>1, PhaseIs DEF Live
    <2> QED
      BY <1>4, <2>1, <2>2, <2>3 DEF Leads, Kind
  <1>7. CASE FailRun(n)
    <2>1. PICK d \in Delivery :
            /\ Deliver(n, "error", EmptyTree, d)
            /\ pc' = [pc EXCEPT ![n] = IF d.raised THEN "unreported" ELSE "failed"]
      BY <1>7 DEF FailRun
    <2>2. Phase(n) = "going" /\ Phase(n)' = IF d.raised THEN "broken" ELSE "over"
      <3>1. /\ pc[n] \in {"raised", "cancelled"}
            /\ pc'[n] = IF d.raised THEN "unreported" ELSE "failed"
        BY <1>1, <1>7, <2>1 DEF FailRun
      <3> QED
        BY <3>1, PhaseIs DEF Live
    <2> QED
      BY <1>4, <2>1, <2>2, EmptyIsTree DEF Leads, Kind
  <1>8. CASE Enter(n) \/ EnterFails(n) \/ Leave(n) \/ NodeFunction(n)
    <2>1. UNCHANGED callbackVars
      BY <1>8 DEF Enter, EnterFails, Leave, NodeFunction, Accept, Raise, Cancel
    <2>2. {pc[n], pc'[n]} \subseteq Live
      BY <1>1, <1>8 DEF Enter, EnterFails, Leave, NodeFunction, Accept, Raise, Cancel, Live
    <2>3. Phase(n) = "going" /\ Phase(n)' = "going"
      BY <2>2, PhaseIs
    <2> QED
      BY <1>4, <2>1, <2>3
  <1> QED
    BY <1>5, <1>6, <1>7, <1>8 DEF NodeStep, Wrapper

\* A step of the graph's run is an event of it, or its run goes on.
LEMMA GraphEvent ==
    ASSUME TypeInv, GraphStep
    PROVE  /\ \A n \in Node : Phase(n)' = Phase(n)
           /\ \/ \E kind \in Kind, view \in Tree, d \in Delivery :
                    Deliver(Root, kind, view, d) /\ Leads(Root, kind, d)
              \/ UNCHANGED callbackVars /\ Phase(Root)' = Phase(Root)
  <1>1. \A n \in Node : Phase(n)' = Phase(n)
    BY GraphStepIs, GraphRunAssumption DEF wrapperVars, Phase, EndedWell, Broken
  <1>2. state \in Tree /\ EmptyTree \in Tree
    BY EmptyIsTree DEF TypeInv
  <1>3. /\ Phase(Root) = IF run \in {"done", "failed"} THEN "over"
                        ELSE IF run \in {"refused", "unreported"} THEN "broken" ELSE run
        /\ Phase(Root)' = IF run' \in {"done", "failed"} THEN "over"
                         ELSE IF run' \in {"refused", "unreported"} THEN "broken" ELSE run'
    BY DEF Phase, EndedWell, Broken
  <1>4. CASE StartGraph
    BY <1>1, <1>2, <1>3, <1>4 DEF StartGraph, Leads, Kind
  <1>5. CASE Advance
    BY <1>1, <1>3, <1>5 DEF Advance
  <1>6. CASE FinishGraph
    BY <1>1, <1>2, <1>3, <1>6 DEF FinishGraph, Leads, Kind
  <1>7. CASE FailGraph \/ FailAfterEnd
    <2>1. /\ run \in {"going", "failing"}
          /\ \E d \in Delivery :
                /\ Deliver(Root, "error", EmptyTree, d)
                /\ run' = IF d.raised THEN "unreported" ELSE "failed"
      BY <1>7 DEF FailGraph, FailAfterEnd, ReportFailure
    <2> QED
      BY <1>1, <1>2, <1>3, <2>1 DEF Leads, Kind
  <1> QED
    BY <1>4, <1>5, <1>6, <1>7 DEF GraphStep, Graph

\* Every step is an event of one run, or no run moves.
LEMMA StepIsEvent ==
    ASSUME TypeInv, [Next]_vars
    PROVE  \/ \E r \in Runs, kind \in Kind, view \in Tree, d \in Delivery :
                /\ Deliver(r, kind, view, d) /\ Leads(r, kind, d)
                /\ \A q \in Runs \ {r} : Phase(q)' = Phase(q)
           \/ UNCHANGED callbackVars /\ \A q \in Runs : Phase(q)' = Phase(q)
  <1>1. CASE \E n \in Node : NodeStep(n)
    <2>1. PICK n \in Node : NodeStep(n)
      BY <1>1
    <2> QED
      BY <2>1, NodeEvent, PhaseIs
  <1>2. CASE GraphStep
    <2>1. Runs = Node \cup {Root} /\ Root \in Runs
      BY DEF Runs
    <2> QED
      BY <1>2, <2>1, GraphEvent
  <1>3. CASE (\E c \in Caller : Configure(c)) \/ UNCHANGED vars
    <2>1. UNCHANGED callbackVars /\ run' = run /\ pc' = pc
      BY <1>3 DEF Configure, vars, graphVars, wrapperVars
    <2> QED
      BY <2>1 DEF Phase, EndedWell, Broken
  <1> QED
    BY <1>1, <1>2, <1>3, NextIs

-------------------------------------------------------------------------------
(* What an event does to either table.                                     *)

Phases == [r \in Runs |-> Phase(r)]

Shown == [r \in Runs |-> Kinds(seen[r])]

\* An event moves one run and is logged and forwarded, or not.
LEMMA EventMoves ==
    ASSUME TypeInv, NEW r \in Runs, NEW kind \in Kind, NEW view \in Tree, NEW d \in Delivery,
           Deliver(r, kind, view, d), \A q \in Runs \ {r} : Phase(q)' = Phase(q)
    PROVE  /\ Phases' = [Phases EXCEPT ![r] = Phase(r)']
           /\ \E part \in LogTable!Whole(r, kind) \cup LogTable!Cut(r) \cup {<<kind>>} :
                /\ LogTable!Tell(r, part)
                /\ kind = "start" => part \in {<<>>, <<kind>>} /\ (part = <<>> => d.raised)
                /\ kind # "start" => part \in LogTable!Whole(r, kind) \cup LogTable!Cut(r)
                /\ kind # "start" /\ ~d.raised => part \in LogTable!Whole(r, kind)
           /\ d.forwarded => Shown' = [Shown EXCEPT ![r] = @ \o <<kind>>]
           /\ ~d.forwarded => Shown' = Shown /\ byRun' = byRun /\ d.raised
  <1> DEFINE event == [kind |-> kind, view |-> view]
  <1>1. seen \in [Runs -> Seq([kind : Kind, view : Tree])]
    BY DEF TypeInv
  <1>2. Phases' = [Phases EXCEPT ![r] = Phase(r)']
    BY DEF Phases
  <1>3. \E part \in {<<>>, <<kind>>, <<"duration_missing">>, <<"duration_missing", kind>>} :
            /\ LogTable!Tell(r, part)
            /\ kind = "start" \/ r \in logOpen => part \in {<<>>, <<kind>>}
            /\ d.logged <=> part \in {<<kind>>, <<"duration_missing", kind>>}
    <2>1. Write(r, kind, d)
      BY DEF Deliver
    <2> QED
      BY <2>1, Recorded DEF LogTable!Tell
  <1>6. ~d.logged => d.raised
    BY DEF Delivery
  <1>7. <<>> # <<kind>>
    OBVIOUS
  <1>8. \E part \in LogTable!Whole(r, kind) \cup LogTable!Cut(r) \cup {<<kind>>} :
            /\ LogTable!Tell(r, part)
            /\ kind = "start" => part \in {<<>>, <<kind>>} /\ (part = <<>> => d.raised)
            /\ kind # "start" => part \in LogTable!Whole(r, kind) \cup LogTable!Cut(r)
            /\ kind # "start" /\ ~d.raised => part \in LogTable!Whole(r, kind)
    <2>1. PICK part \in {<<>>, <<kind>>, <<"duration_missing">>, <<"duration_missing", kind>>} :
            /\ LogTable!Tell(r, part)
            /\ kind = "start" \/ r \in logOpen => part \in {<<>>, <<kind>>}
            /\ d.logged <=> part \in {<<kind>>, <<"duration_missing", kind>>}
      BY <1>3
    <2>2. <<>> # <<"duration_missing", kind>>
      OBVIOUS
    <2>3. part \in LogTable!Whole(r, kind) \cup LogTable!Cut(r)
      BY <2>1 DEF LogTable!Whole, LogTable!Cut
    <2>4. ~d.raised => part \in LogTable!Whole(r, kind)
      BY <1>6, <2>1 DEF LogTable!Whole
    <2>5. part = <<>> => d.raised
      BY <1>6, <1>7, <2>1, <2>2
    <2> QED
      BY <2>1, <2>3, <2>4, <2>5
  <1>4. ASSUME d.forwarded
        PROVE  Shown' = [Shown EXCEPT ![r] = @ \o <<kind>>]
    <2>1. event \in [kind : Kind, view : Tree] /\ event.kind = kind
      OBVIOUS
    <2>2. seen' = [seen EXCEPT ![r] = Append(@, event)]
      BY <1>4 DEF Deliver
    <2> HIDE DEF event
    <2>3. seen[r] \in Seq([kind : Kind, view : Tree])
      BY <1>1
    <2>4. Kinds(Append(seen[r], event)) = Append(Kinds(seen[r]), kind) /\ Kinds(seen[r]) \in Seq(Kind)
      <3>1. Kinds(Append(seen[r], event)) = Append(Kinds(seen[r]), kind)
        BY <2>1, <2>3, KindsGrow
      <3>2. /\ DOMAIN seen[r] = 1..Len(seen[r]) /\ Len(seen[r]) \in Nat
            /\ \A i \in 1..Len(seen[r]) : seen[r][i].kind \in Kind
        <4>1. \A i \in 1..Len(seen[r]) : seen[r][i] \in [kind : Kind, view : Tree]
          BY <2>3, ElementOfSeq
        <4> QED
          BY <2>3, <4>1, LenProperties
      <3> QED
        BY <3>1, <3>2 DEF Kinds
    <2>5. Append(Kinds(seen[r]), kind) = Kinds(seen[r]) \o <<kind>>
      BY <2>4, AppendIsConcat
    <2>6. \A q \in Runs : Kinds(seen'[q]) =
            IF q = r THEN Kinds(seen[r]) \o <<kind>> ELSE Kinds(seen[q])
      BY <1>1, <2>2, <2>4, <2>5
    <2> QED
      BY <2>6 DEF Shown
  <1>5. ~d.forwarded => Shown' = Shown /\ byRun' = byRun /\ d.raised
    BY DEF Deliver, Delivery, Shown
  <1> QED
    BY <1>2, <1>4, <1>5, <1>8

-------------------------------------------------------------------------------
(* The log.                                                                *)

\* Every step is one of the log's table, or is not about it.
LEMMA LogStep ==
    ASSUME TypeInv, [Next]_vars
    PROVE  [LogTable!TableNext]_(LogTable!tableVars)
  <1>1. ASSUME NEW r \in Runs, NEW kind \in Kind, NEW view \in Tree, NEW d \in Delivery,
               Deliver(r, kind, view, d), Leads(r, kind, d),
               \A q \in Runs \ {r} : Phase(q)' = Phase(q)
        PROVE  LogTable!Begin(r) \/ LogTable!End(r) \/ LogTable!Fail(r)
    <2>1. Phases' = [Phases EXCEPT ![r] = Phase(r)'] /\ Phases[r] = Phase(r)
      BY <1>1, EventMoves DEF Phases
    <2>2. PICK part \in LogTable!Whole(r, kind) \cup LogTable!Cut(r) \cup {<<kind>>} :
            /\ LogTable!Tell(r, part)
            /\ kind = "start" => part \in {<<>>, <<kind>>} /\ (part = <<>> => d.raised)
            /\ kind # "start" => part \in LogTable!Whole(r, kind) \cup LogTable!Cut(r)
            /\ kind # "start" /\ ~d.raised => part \in LogTable!Whole(r, kind)
      BY <1>1, EventMoves
    <2>3. logOpen' = IF kind = "start" THEN logOpen \cup ({r} \cap Runs) ELSE logOpen \ {r}
      BY <1>1 DEF Deliver
    <2>4. kind # "start" /\ d.raised => Phase(r)' # "over"
      BY <1>1 DEF Leads
    <2>5. kind # "start" => LogTable!Close(r, kind)
      BY <2>1, <2>2, <2>3, <2>4 DEF LogTable!Close, Phases
    <2>6. CASE kind = "start"
      BY <1>1, <2>1, <2>2, <2>3, <2>6 DEF Leads, LogTable!Begin, Phases
    <2>7. CASE kind = "end"
      BY <1>1, <2>1, <2>5, <2>7 DEF Leads, LogTable!End, Phases
    <2>8. CASE kind = "error"
      BY <1>1, <2>1, <2>5, <2>8 DEF Leads, LogTable!Fail, Phases
    <2> QED
      BY <2>6, <2>7, <2>8 DEF Kind
  <1>2. ASSUME UNCHANGED callbackVars, \A q \in Runs : Phase(q)' = Phase(q)
        PROVE  UNCHANGED LogTable!tableVars
    BY <1>2 DEF callbackVars, LogTable!tableVars
  <1> QED
    BY <1>1, <1>2, StepIsEvent DEF LogTable!TableNext

\* GraphLogCallback keeps its promises of every run of the graph, whatever else fails.
LEMMA LogKeepsItsTable == Spec => LogTable!TableSpec
  <1>1. Init => LogTable!TableInit
    <2> SUFFICES ASSUME Init
                 PROVE  LogTable!TableInit
      OBVIOUS
    <2>1. \A r \in Runs : Phase(r) = "new"
      BY DEF Init, Runs, Phase, EndedWell, Broken
    <2> QED
      BY <2>1 DEF Init, Runs, LogTable!TableInit
  <1>2. TypeInv /\ [Next]_vars => [LogTable!TableNext]_(LogTable!tableVars)
    BY LogStep
  <1> QED
    BY <1>1, <1>2, TypeInvariant, PTL DEF Spec, LogTable!TableSpec

-------------------------------------------------------------------------------
(* The projection.                                                         *)

\* Every step is one of the projection's table, or is not about it.
LEMMA ProjectionStep ==
    ASSUME TypeInv, [Next]_vars
    PROVE  [ProjectionTable!TableNext]_(ProjectionTable!tableVars)
  <1>1. ASSUME NEW r \in Runs, NEW kind \in Kind, NEW view \in Tree, NEW d \in Delivery,
               Deliver(r, kind, view, d), Leads(r, kind, d),
               \A q \in Runs \ {r} : Phase(q)' = Phase(q)
        PROVE  ProjectionTable!Begin(r) \/ ProjectionTable!End(r) \/ ProjectionTable!Fail(r)
    <2>1. Phases' = [Phases EXCEPT ![r] = Phase(r)'] /\ Phases[r] = Phase(r)
      BY <1>1, EventMoves DEF Phases
    <2>2. byRun \subseteq Node /\ Root \notin Node /\ (r = Root \/ r \in Node)
      BY GraphRunAssumption DEF TypeInv, Runs
    <2>3. d.forwarded =>
            /\ byRun' = IF kind = "start" THEN byRun \cup ({r} \cap Node) ELSE byRun \ {r}
            /\ ProjectionTable!Tell(r, <<kind>>)
      <3>1. d.forwarded =>
                byRun' = IF r = Root THEN byRun ELSE IF kind = "start" THEN byRun \cup {r} ELSE byRun \ {r}
        BY <1>1 DEF Deliver
      <3>2. r = Root => {r} \cap Node = {} /\ byRun \ {r} = byRun
        BY <2>2
      <3>3. r # Root => {r} \cap Node = {r}
        BY <2>2
      <3>4. d.forwarded => ProjectionTable!Tell(r, <<kind>>)
        BY <1>1, EventMoves DEF ProjectionTable!Tell, Shown
      <3> QED
        BY <3>1, <3>2, <3>3, <3>4
    <2>4. ~d.forwarded => ProjectionTable!Missed /\ d.raised
      BY <1>1, EventMoves DEF ProjectionTable!Missed, Shown
    <2>9. kind # "start" /\ d.raised => Phase(r)' # "over"
      BY <1>1 DEF Leads
    <2>5. kind # "start" => ProjectionTable!Close(r, kind)
      <3>1. <<kind>> \in ProjectionTable!Whole(r, kind)
        BY DEF ProjectionTable!Whole
      <3> QED
        BY <2>1, <2>3, <2>4, <2>9, <3>1 DEF ProjectionTable!Close, Phases
    <2>6. CASE kind = "start"
      <3>1. Phases[r] = "new" /\ Phase(r)' = IF d.raised THEN "broken" ELSE "going"
        BY <1>1, <2>1, <2>6 DEF Leads
      <3>2. <<"start">> # <<>>
        OBVIOUS
      <3>3. \/ /\ byRun' = byRun \cup ({r} \cap Node)
               /\ ProjectionTable!Tell(r, <<"start">>)
            \/ ProjectionTable!Missed /\ d.raised
        BY <2>3, <2>4, <2>6
      <3> QED
        BY <2>1, <3>1, <3>2, <3>3 DEF ProjectionTable!Begin, Phases
    <2>7. CASE kind = "end"
      BY <1>1, <2>1, <2>5, <2>7 DEF Leads, ProjectionTable!End, Phases
    <2>8. CASE kind = "error"
      BY <1>1, <2>1, <2>5, <2>8 DEF Leads, ProjectionTable!Fail, Phases
    <2> QED
      BY <2>6, <2>7, <2>8 DEF Kind
  <1>2. ASSUME UNCHANGED callbackVars, \A q \in Runs : Phase(q)' = Phase(q)
        PROVE  UNCHANGED ProjectionTable!tableVars
    BY <1>2 DEF callbackVars, ProjectionTable!tableVars
  <1> QED
    BY <1>1, <1>2, StepIsEvent DEF ProjectionTable!TableNext

\* ProjectedCallbackHandler keeps its promises of every run of the graph, as a callback
\* that an event may not reach.
LEMMA ProjectionKeepsItsTable == Spec => ProjectionTable!TableSpec
  <1>1. Init => ProjectionTable!TableInit
    <2> SUFFICES ASSUME Init
                 PROVE  ProjectionTable!TableInit
      OBVIOUS
    <2>1. \A r \in Runs : Phase(r) = "new" /\ Kinds(seen[r]) = <<>>
      BY DEF Init, Runs, Phase, EndedWell, Broken, Kinds
    <2> QED
      BY <2>1 DEF Init, Runs, ProjectionTable!TableInit
  <1>2. TypeInv /\ [Next]_vars => [ProjectionTable!TableNext]_(ProjectionTable!tableVars)
    BY ProjectionStep
  <1> QED
    BY <1>1, <1>2, TypeInvariant, PTL DEF Spec, ProjectionTable!TableSpec

\* Both callbacks, in a row around a whole graph, keep what each promises by itself.
THEOREM TablesAreKept == Spec => CallbacksKeepTheirTables
  BY LogKeepsItsTable, ProjectionKeepsItsTable DEF CallbacksKeepTheirTables
===============================================================================
