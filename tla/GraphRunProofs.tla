---------------------------- MODULE GraphRunProofs ----------------------------
(***************************************************************************)
(* Theorems about GraphRun, for any graphs, contracts, modes and tracing   *)
(* helpers that satisfy its assumptions.                                   *)
(***************************************************************************)
EXTENDS GraphRun, StatePathsProofs, SequenceTheorems, FiniteSetTheorems

-------------------------------------------------------------------------------
(* Types.                                                                  *)

Kind == {"start", "end", "error"}

Record == Kind \cup {"duration_missing"}

\* IsTree, as a set.
Tree == {t \in UNION {[leaves -> Value \cup {Empty}] : leaves \in SUBSET Path} : IsTree(t)}

\* A payload that is recorded at most once.
Payload == {{}} \cup {{t} : t \in Tree}

SpanType == [open : BOOLEAN, status : {"unset", "error"}, input : Payload, output : Payload]

RecordType == [name : Node, status : {"unset", "error"}, input : Payload, output : Payload]

\* What is run is one of the settings.
SettingInv == \E s \in Setting : plan = s.plan /\ mode = s.mode /\ helper = s.helper

\* The node function of these nodes has returned an update.
Returned == {"returned", "landed", "lost"}

TypeInv ==
    /\ SettingInv
    /\ run \in {"new", "going", "failing", "done", "refused", "failed", "unreported"}
    /\ stage \in 1..Len(plan.stages) + 1
    /\ state \in Tree
    /\ pc \in [Node -> PcValues]
    /\ update \in [Node -> Tree \cup {None}]
    /\ span \in [Node -> SpanType]
    /\ \A n \in Node : pc[n] \in Returned => update[n] \in Tree
    /\ log \in [Runs -> Seq(Record)]
    /\ seen \in [Runs -> Seq([kind : Kind, view : Tree])]
    /\ logOpen \subseteq Runs /\ byRun \subseteq Node
    /\ exported \in [Caller -> Seq(RecordType)]
    /\ Tracing!SetupTypeOK

\* IsTree and Tree say the same.
LEMMA TreeIs == \A t : t \in Tree <=> IsTree(t)
  BY DEF Tree, IsTree

\* A payload is nothing or one tree.
LEMMA PayloadIs ==
    /\ {} \in Payload
    /\ \A t \in Tree : {t} \in Payload
    /\ \A payload \in Payload : Cardinality(payload) <= 1 /\ \A t \in payload : IsTree(t)
  <1>1. ASSUME NEW payload \in Payload
        PROVE  Cardinality(payload) <= 1 /\ \A t \in payload : IsTree(t)
    <2>1. CASE payload = {}
      BY <2>1, FS_EmptySet
    <2>2. ASSUME NEW t \in Tree, payload = {t}
          PROVE  Cardinality(payload) <= 1 /\ \A u \in payload : IsTree(u)
      <3>1. Cardinality({t}) = 1
        BY FS_Singleton
      <3> QED
        BY <2>2, <3>1, TreeIs
    <2> QED
      BY <2>1, <2>2 DEF Payload
  <1> QED
    BY <1>1 DEF Payload

\* What the assumption says of a setting.
LEMMA SettingGives ==
    ASSUME SettingInv
    PROVE  /\ IsTree(plan.initial) /\ plan.stages \in Seq(SUBSET Node)
           /\ Len(plan.stages) \in Nat /\ DOMAIN plan.stages = 1..Len(plan.stages)
           /\ \A i, j \in DOMAIN plan.stages : i # j => plan.stages[i] \cap plan.stages[j] = {}
           /\ mode \in [Node -> Mode] /\ helper \in [Caller -> Tracing!Helper]
           /\ Current \subseteq Node
  <1>1. /\ IsTree(plan.initial) /\ plan.stages \in Seq(SUBSET Node)
        /\ \A i, j \in DOMAIN plan.stages : i # j => plan.stages[i] \cap plan.stages[j] = {}
        /\ mode \in [Node -> Mode] /\ helper \in [Caller -> Tracing!Helper]
    BY GraphRunAssumption DEF SettingInv
  <1>2. Current \subseteq Node
    BY <1>1 DEF Current
  <1> QED
    BY <1>1, <1>2

-------------------------------------------------------------------------------
(* What nodes are given and return.                                        *)

\* A node is given a state, narrowed to its contract if it is strict.
LEMMA GivenIsTree ==
    ASSUME IsTree(state), NEW n \in Node
    PROVE  IsTree(Received(n)) /\ IsTree(RunInput(n))
  <1>1. ContractOf[n] \in ContractType
    BY GraphRunAssumption
  <1>2. IsTree(Received(n))
    <2>1. CASE mode[n] = "enforce"
      BY <1>1, <2>1, NarrowingKeepsProjection DEF Received, ExecutionInputPolicies
    <2>2. CASE mode[n] # "enforce"
      BY <2>2 DEF Received, Narrow
    <2> QED
      BY <2>1, <2>2
  <1>3. IsTree(RunInput(n))
    BY <1>2, ExecutionInput DEF RunInput
  <1> QED
    BY <1>2, <1>3

\* The public input is that of the whole state: the input schema of a strict node
\* takes nothing away from it.
LEMMA PublicInputIs ==
    ASSUME IsTree(state), NEW n \in Node
    PROVE  /\ PublicInput(n) = Project(ContractOf[n].inputs, state)
           /\ IsTree(PublicInput(n))
  <1>1. ContractOf[n] \in ContractType
    BY GraphRunAssumption
  <1>2. PublicInput(n) = Project(ContractOf[n].inputs, state)
    <2>1. CASE mode[n] = "enforce"
      BY <1>1, <2>1, NarrowingKeepsProjection DEF PublicInput, Received, ExecutionInputPolicies
    <2>2. CASE mode[n] # "enforce"
      BY <2>2 DEF PublicInput, Received, Narrow
    <2> QED
      BY <2>1, <2>2
  <1> QED
    BY <1>2, ProjectIsTree

\* The update of a node is a state, whatever mappings the node meets.
LEMMA UpdateIsTree ==
    ASSUME IsTree(state), NEW n \in Node
    PROVE  IsTree(WrappedUpdate(n))
  <1> DEFINE new == WrappedUpdate(n)
             valueOf(leaf) ==
                LET source == Flow[n][leaf]
                IN  IF MeetsView(n) /\ source # None /\ Len(source) > 1
                    THEN Default ELSE Plain!ValueAt(RunInput(n), source)
  <1>1. IsTree(RunInput(n))
    BY GivenIsTree
  <1>2. \A p : Plain!ValueAt(RunInput(n), p) \in Value \cup {Empty}
    BY <1>1, GraphRunAssumption DEF Plain!ValueAt, IsTree
  <1>3. \A leaf \in DOMAIN Flow[n] : valueOf(leaf) \in Value \cup {Empty}
    BY <1>2, GraphRunAssumption
  <1>4. new = [leaf \in DOMAIN Flow[n] |-> valueOf(leaf)]
    BY DEF WrappedUpdate
  <1> HIDE DEF new, valueOf
  <1>5. /\ new = [leaf \in DOMAIN new |-> new[leaf]] /\ DOMAIN new = DOMAIN Flow[n]
        /\ \A leaf \in DOMAIN new : new[leaf] = valueOf(leaf)
    BY <1>4
  <1> QED
    BY <1>3, <1>5, GraphRunAssumption DEF IsTree, new

\* What is written to the channels of the graph.
LEMMA WrittenIs ==
    ASSUME NEW u, IsTree(u)
    PROVE  /\ IsTree(Plain!Written(u))
           /\ DOMAIN Plain!Written(u) \subseteq DOMAIN u
           /\ \A p \in DOMAIN Plain!Written(u) : Plain!Written(u)[p] = u[p]
  <1>1. Plain!Written(u) = Restrict(u, {p \in DOMAIN u : p[1] \in Channel})
    BY DEF Plain!Written, Plain!Restrict, Restrict
  <1> QED
    BY <1>1, PartIsTree

\* The updates of a superstep that do not clash make one state of the old one: each
\* leaf is one of an update, or one that was there; none goes but under the keys of
\* the updates.
LEMMA AppliedIs ==
    ASSUME NEW nodes, NEW u, \A n \in nodes : IsTree(u[n]),
           ~Plain!Clash(nodes, u), NEW t, IsTree(t)
    PROVE  LET result == Plain!Applied(nodes, u, t)
           IN  /\ IsTree(result)
               /\ \A p \in DOMAIN result :
                    \/ \E n \in nodes : p \in DOMAIN u[n] /\ result[p] = u[n][p]
                    \/ p \in DOMAIN t /\ result[p] = t[p]
               /\ \A p \in DOMAIN t \ DOMAIN result :
                    \E n \in nodes : \E q \in DOMAIN u[n] : q[1] = p[1]
  <1> DEFINE written == [n \in nodes |-> Plain!Written(u[n])]
             leaves == UNION {DOMAIN written[n] : n \in nodes}
             writer(p) == CHOOSE n \in nodes : p \in DOMAIN written[n]
             joint == [p \in leaves |-> written[writer(p)][p]]
  <1>1. \A n \in nodes : written[n] = Plain!Written(u[n]) /\ IsTree(written[n])
    BY WrittenIs
  <1>2. \A p \in leaves : writer(p) \in nodes /\ p \in DOMAIN written[writer(p)]
    OBVIOUS
  <1>3. ASSUME NEW p \in leaves, NEW q \in leaves, p[1] = q[1]
        PROVE  writer(p) = writer(q)
    BY <1>1, <1>2, <1>3 DEF Plain!Clash
  <1>4. Plain!Applied(nodes, u, t) = Overwrite(t, joint)
    BY DEF Plain!Applied, Plain!Overwrite, Overwrite
  <1> HIDE DEF writer, written
  <1>5. /\ joint = [p \in DOMAIN joint |-> joint[p]] /\ DOMAIN joint = leaves
        /\ \A p \in leaves : joint[p] = written[writer(p)][p]
    OBVIOUS
  <1>6. leaves \subseteq Path
    BY <1>1 DEF IsTree
  <1> HIDE DEF leaves, joint
  <1>7. \A p \in leaves : joint[p] \in Value \cup {Empty}
    BY <1>1, <1>2, <1>5 DEF IsTree
  <1>8. ASSUME NEW p \in leaves, NEW q \in leaves, IsPrefix(p, q)
        PROVE  p = q
    <2>1. p[1] = q[1]
      BY <1>6, <1>8, PrefixHead DEF Path
    <2>2. writer(p) = writer(q)
      BY <1>3, <2>1
    <2> QED
      BY <1>1, <1>2, <1>8, <2>2 DEF IsTree
  <1>9. IsTree(joint)
    BY <1>5, <1>6, <1>7, <1>8 DEF IsTree
  <1>10. /\ IsTree(Overwrite(t, joint))
         /\ \A p : p \in DOMAIN Overwrite(t, joint) <=>
                \/ p \in leaves
                \/ p \in DOMAIN t /\ \A q \in leaves : p[1] # q[1]
         /\ \A p \in DOMAIN Overwrite(t, joint) :
                Overwrite(t, joint)[p] = IF p \in leaves THEN joint[p] ELSE t[p]
    BY <1>5, <1>9, OverwriteIsTree
  <1>11. \A n \in nodes : \A p \in DOMAIN written[n] : p \in DOMAIN u[n] /\ written[n][p] = u[n][p]
    BY <1>1, WrittenIs
  <1>12. \A p \in leaves : p \in DOMAIN u[writer(p)] /\ joint[p] = u[writer(p)][p]
    BY <1>2, <1>5, <1>11
  <1>13. \A p \in DOMAIN Overwrite(t, joint) :
            \/ \E n \in nodes : p \in DOMAIN u[n] /\ Overwrite(t, joint)[p] = u[n][p]
            \/ p \in DOMAIN t /\ Overwrite(t, joint)[p] = t[p]
    BY <1>2, <1>10, <1>12
  <1>14. ASSUME NEW p \in DOMAIN t, p \notin DOMAIN Overwrite(t, joint)
         PROVE  \E n \in nodes : \E q \in DOMAIN u[n] : q[1] = p[1]
    <2>1. PICK q \in leaves : p[1] = q[1]
      BY <1>10, <1>14
    <2> QED
      BY <1>2, <1>12, <2>1
  <1> QED
    BY <1>4, <1>10, <1>13, <1>14

-------------------------------------------------------------------------------
(* Types are kept.                                                         *)

\* The sequences of one and of two events.
LEMMA ShortAppends ==
    ASSUME NEW a, NEW b
    PROVE  Append(<<>>, a) = <<a>> /\ Append(<<a>>, b) = <<a, b>>
  <1>1. /\ <<a>> \in Seq({a, b}) /\ Len(<<a>>) = 1 /\ <<a>>[1] = a
        /\ <<a, b>> \in Seq({a, b}) /\ Len(<<a, b>>) = 2 /\ <<a, b>>[1] = a /\ <<a, b>>[2] = b
    OBVIOUS
  <1>2. /\ Append(<<a>>, b) \in Seq({a, b}) /\ Len(Append(<<a>>, b)) = 2
        /\ Append(<<a>>, b)[1] = a /\ Append(<<a>>, b)[2] = b
    BY <1>1, AppendProperties
  <1>3. \A i \in 1..2 : Append(<<a>>, b)[i] = <<a, b>>[i]
    BY <1>1, <1>2
  <1>4. Append(<<a>>, b) = <<a, b>>
    BY <1>1, <1>2, <1>3, SeqEqual
  <1>5. Append(<<>>, a) = <<a>>
    OBVIOUS
  <1> QED
    BY <1>4, <1>5

\* What the log callback writes of an event: while it has an entry of the run, and of
\* its start, the event's own record or nothing.
LEMMA Recorded ==
    ASSUME TypeInv, NEW r \in Runs, NEW kind \in Kind, NEW d \in Delivery, Write(r, kind, d)
    PROVE  /\ log' \in [Runs -> Seq(Record)]
           /\ \A q \in Runs \ {r} : log'[q] = log[q]
           /\ \E part \in {<<>>, <<kind>>, <<"duration_missing">>, <<"duration_missing", kind>>} :
                /\ log' = [log EXCEPT ![r] = @ \o part]
                /\ kind = "start" \/ r \in logOpen => part \in {<<>>, <<kind>>}
                /\ d.logged <=> part \in {<<kind>>, <<"duration_missing", kind>>}
           /\ kind = "start" \/ r \in logOpen =>
                /\ d.logged => log'[r] = Append(log[r], kind)
                /\ ~d.logged => log' = log
  <1>1. log \in [Runs -> Seq(Record)] /\ log[r] \in Seq(Record) /\ {kind, "duration_missing"} \subseteq Record
    BY DEF TypeInv, Record
  <1>2. /\ <<kind>> \in Seq(Record) /\ <<"duration_missing">> \in Seq(Record) /\ <<>> \in Seq(Record)
        /\ <<"duration_missing", kind>> \in Seq(Record)
    BY <1>1
  <1>3. /\ log[r] \o <<>> = log[r]
        /\ log[r] \o <<kind>> = Append(log[r], kind)
        /\ <<"duration_missing">> \o <<kind>> = <<"duration_missing", kind>>
    BY <1>1, <1>2, ConcatEmptySeq, AppendIsConcat, ShortAppends
  <1>4. log[r] \o <<"duration_missing">> \o <<kind>> = log[r] \o <<"duration_missing", kind>>
    BY <1>1, <1>2, <1>3, ConcatAssociative
  <1> DEFINE known == kind = "start" \/ r \in logOpen
  <1>5. Announced(r, kind) = IF known THEN <<>> ELSE <<"duration_missing">>
    BY DEF Announced
  <1>6. PICK part \in {<<>>, <<kind>>, <<"duration_missing">>, <<"duration_missing", kind>>} :
          /\ log' = [log EXCEPT ![r] = @ \o part]
          /\ known => part \in {<<>>, <<kind>>}
          /\ d.logged <=> part \in {<<kind>>, <<"duration_missing", kind>>}
    <2>1. <<>> # <<kind>> /\ <<"duration_missing">> # <<kind>>
          /\ <<"duration_missing", kind>> \notin {<<>>, <<"duration_missing">>}
      BY DEF Kind
    <2>2. CASE d.logged
      <3>1. log' = [log EXCEPT ![r] = @ \o (IF known THEN <<kind>> ELSE <<"duration_missing", kind>>)]
        BY <1>3, <1>4, <1>5, <2>2 DEF Write
      <3> QED
        BY <2>1, <2>2, <3>1
    <2>3. CASE ~d.logged
      <3>1. \E part \in {<<>>, IF known THEN <<>> ELSE <<"duration_missing">>} :
                log' = [log EXCEPT ![r] = @ \o part]
        BY <1>5, <2>3 DEF Write
      <3> QED
        BY <2>1, <2>3, <3>1
    <2> QED
      BY <2>2, <2>3
  <1>7. log[r] \o part \in Seq(Record)
    BY <1>1, <1>2, <1>6, ConcatProperties
  <1>8. log' \in [Runs -> Seq(Record)] /\ \A q \in Runs \ {r} : log'[q] = log[q]
    BY <1>1, <1>6, <1>7
  <1>9. ASSUME known
        PROVE  (d.logged => log'[r] = Append(log[r], kind)) /\ (~d.logged => log' = log)
    <2>1. part = IF d.logged THEN <<kind>> ELSE <<>>
      BY <1>6, <1>9 DEF Kind
    <2> QED
      BY <1>1, <1>3, <1>6, <2>1
  <1> QED
    BY <1>6, <1>8, <1>9

\* What an event leaves behind.  The log callback may raise before the projection
\* is told; if nothing raises, both were told.
LEMMA Delivered ==
    ASSUME TypeInv, NEW r \in Runs, NEW kind \in Kind, NEW view \in Tree,
           NEW d \in Delivery, Deliver(r, kind, view, d)
    PROVE  LET event == [kind |-> kind, view |-> view]
           IN  /\ kind = "start" \/ r \in logOpen =>
                    /\ log'[r] = log[r] \/ log'[r] = Append(log[r], kind)
                    /\ ~d.raised => log'[r] = Append(log[r], kind)
               /\ seen'[r] = seen[r] \/ seen'[r] = Append(seen[r], event)
               /\ ~d.raised => seen'[r] = Append(seen[r], event)
               /\ logOpen' = IF kind = "start" THEN logOpen \cup {r} ELSE logOpen \ {r}
               /\ r # Root /\ r \in logOpen /\ kind # "start" =>
                    byRun' = byRun \ {r} \/ (byRun' = byRun /\ log' = log)
               /\ ~d.raised /\ r # Root =>
                    byRun' = IF kind = "start" THEN byRun \cup {r} ELSE byRun \ {r}
  <1> DEFINE event == [kind |-> kind, view |-> view]
  <1>1. /\ d.logged => d.forwarded
        /\ ~d.logged => d.raised
    BY DEF Delivery
  <1>2. /\ logOpen' = IF kind = "start" THEN logOpen \cup {r} ELSE logOpen \ {r}
        /\ byRun' = IF ~d.forwarded \/ r = Root THEN byRun
                    ELSE IF kind = "start" THEN byRun \cup {r} ELSE byRun \ {r}
        /\ seen' = IF d.forwarded THEN [seen EXCEPT ![r] = Append(@, event)] ELSE seen
    BY DEF Deliver
  <1>3. seen \in [Runs -> Seq([kind : Kind, view : Tree])]
    BY DEF TypeInv
  <1> HIDE DEF event
  <1>4. kind = "start" \/ r \in logOpen =>
            /\ d.logged => log'[r] = Append(log[r], kind)
            /\ ~d.logged => log' = log
    BY Recorded DEF Deliver
  <1>5. /\ d.forwarded => seen'[r] = Append(seen[r], event)
        /\ ~d.forwarded => seen' = seen
    BY <1>2, <1>3
  <1> QED
    BY <1>1, <1>2, <1>4, <1>5 DEF event

\* An event keeps the types of the callbacks' variables.
LEMMA DeliveredTypes ==
    ASSUME TypeInv, NEW r \in Runs, NEW kind \in Kind, NEW view \in Tree,
           NEW d \in Delivery, Deliver(r, kind, view, d)
    PROVE  /\ log' \in [Runs -> Seq(Record)] /\ seen' \in [Runs -> Seq([kind : Kind, view : Tree])]
           /\ logOpen' \subseteq Runs /\ byRun' \subseteq Node
  <1>1. /\ seen \in [Runs -> Seq([kind : Kind, view : Tree])]
        /\ logOpen \subseteq Runs /\ byRun \subseteq Node
    BY DEF TypeInv
  <1> DEFINE event == [kind |-> kind, view |-> view]
  <1>2. Append(seen[r], event) \in Seq([kind : Kind, view : Tree])
    <2>1. event \in [kind : Kind, view : Tree]
      OBVIOUS
    <2>2. seen[r] \in Seq([kind : Kind, view : Tree])
      BY <1>1
    <2> HIDE DEF event
    <2> QED
      BY <2>1, <2>2, AppendProperties
  <1>3. logOpen' \subseteq Runs /\ byRun' \subseteq Node
    BY <1>1 DEF Deliver, Runs
  <1>4. log' \in [Runs -> Seq(Record)]
    BY Recorded DEF Deliver
  <1>5. seen' \in [Runs -> Seq([kind : Kind, view : Tree])]
    BY <1>1, <1>2 DEF Deliver
  <1> QED
    BY <1>3, <1>4, <1>5

\* An event of one run leaves what the callbacks hold of the others.
LEMMA DeliveredIsLocal ==
    ASSUME TypeInv, NEW r \in Runs, NEW kind \in Kind, NEW view, NEW d \in Delivery,
           Deliver(r, kind, view, d), NEW q \in Runs \ {r}
    PROVE  /\ log'[q] = log[q] /\ seen'[q] = seen[q]
           /\ q \in logOpen' <=> q \in logOpen
           /\ q \in byRun' <=> q \in byRun
           /\ r = Root => byRun' = byRun
  <1>1. log'[q] = log[q]
    BY Recorded DEF Deliver
  <1>2. seen \in [Runs -> Seq([kind : Kind, view : Tree])]
    BY DEF TypeInv
  <1> QED
    BY <1>1, <1>2 DEF Deliver

\* Steps of other parts keep the types of the tracing helpers.
LEMMA TracingTypes ==
    ASSUME TypeInv
    PROVE  /\ UNCHANGED tracerVars => Tracing!SetupTypeOK' /\ UNCHANGED <<helper, exported>>
           /\ \A n \in Node : Tracing!BeginSpan(n) =>
                Tracing!SetupTypeOK' /\ UNCHANGED <<helper, exported>>
           /\ \A c \in Caller : Tracing!Configure(c) =>
                Tracing!SetupTypeOK' /\ UNCHANGED <<helper, exported>>
           /\ \A n \in Node : Tracing!EndSpan(n, SpanRecord(n)) =>
                /\ Tracing!SetupTypeOK' /\ UNCHANGED helper
                /\ exported' \in [Caller -> Seq(RecordType)]
  <1>1. Tracing!SetupTypeOK
    BY DEF TypeInv
  <1>2. ASSUME UNCHANGED tracerVars
        PROVE  Tracing!SetupTypeOK' /\ UNCHANGED <<helper, exported>>
    BY <1>1, <1>2 DEF tracerVars, Tracing!SetupTypeOK
  <1>3. ASSUME NEW n \in Node, Tracing!BeginSpan(n)
        PROVE  Tracing!SetupTypeOK' /\ UNCHANGED <<helper, exported>>
    BY <1>1, <1>3 DEF Tracing!SetupTypeOK, Tracing!BeginSpan, Tracing!setupVars
  <1>4. ASSUME NEW c \in Caller, Tracing!Configure(c)
        PROVE  Tracing!SetupTypeOK' /\ UNCHANGED <<helper, exported>>
    <2> USE <1>1 DEF Tracing!SetupTypeOK, Tracing!Return, Tracing!spanVars, Tracing!AtValues, Tracing!Answers
    <2>1. CASE Tracing!SkipOtlp(c)
      BY <2>1 DEF Tracing!SkipOtlp
    <2>2. CASE Tracing!CannotBuild(c)
      BY <2>2 DEF Tracing!CannotBuild
    <2>3. CASE Tracing!Build(c)
      BY <2>3 DEF Tracing!Build
    <2>4. CASE Tracing!CheckProvider(c)
      BY <2>4 DEF Tracing!CheckProvider
    <2>5. CASE Tracing!SetProvider(c)
      BY <2>5 DEF Tracing!SetProvider, Tracing!SetOnce, Tracing!AnswerOf
    <2>6. CASE Tracing!RegisterPhoenix(c)
      BY <2>6 DEF Tracing!RegisterPhoenix, Tracing!SetOnce, Tracing!AnswerOf
    <2> QED
      BY <1>4, <2>1, <2>2, <2>3, <2>4, <2>5, <2>6 DEF Tracing!Configure
  <1>5. ASSUME NEW n \in Node, Tracing!EndSpan(n, SpanRecord(n))
        PROVE  /\ Tracing!SetupTypeOK' /\ UNCHANGED helper
               /\ exported' \in [Caller -> Seq(RecordType)]
    <2>1. SpanRecord(n) \in RecordType
      BY DEF TypeInv, SpanType, RecordType, SpanRecord
    <2>2. exported' \in [Caller -> Seq(RecordType)]
      <3>1. exported \in [Caller -> Seq(RecordType)] /\ processor \subseteq Caller
        BY DEF TypeInv, Tracing!SetupTypeOK
      <3> QED
        BY <1>5, <2>1, <3>1 DEF Tracing!EndSpan
    <2> QED
      BY <1>1, <1>5, <2>2 DEF Tracing!SetupTypeOK, Tracing!EndSpan, Tracing!setupVars
  <1> QED
    BY <1>2, <1>3, <1>4, <1>5

\* The run of a node concerns variables of the wrapper, callbacks and tracing only.
NodeStep(n) == Wrapper(n) \/ NodeFunction(n)

\* A step of a node's run changes nothing of the graph.
LEMMA NodeStepKeepsGraph ==
    ASSUME NEW n \in Node, NodeStep(n)
    PROVE  UNCHANGED <<plan, run, stage, state, mode>>
  BY DEF NodeStep, Wrapper, NodeFunction, StartRun, Enter, EnterFails, Accept, Raise, Cancel, Leave,
         EndRun, FailRun, graphVars

\* The state without keys is a tree.
LEMMA EmptyIsTree == EmptyTree \in Tree
  <1>1. EmptyTree = [p \in DOMAIN EmptyTree |-> EmptyTree[p]] /\ DOMAIN EmptyTree = {}
    BY DEF EmptyTree
  <1> QED
    BY <1>1, TreeIs DEF IsTree

\* The types of the three groups of variables.
WrapperTypes ==
    /\ pc \in [Node -> PcValues]
    /\ update \in [Node -> Tree \cup {None}]
    /\ span \in [Node -> SpanType]
    /\ \A n \in Node : pc[n] \in Returned => update[n] \in Tree

CallbackTypes ==
    /\ log \in [Runs -> Seq(Record)]
    /\ seen \in [Runs -> Seq([kind : Kind, view : Tree])]
    /\ logOpen \subseteq Runs /\ byRun \subseteq Node

TracerTypes ==
    /\ exported \in [Caller -> Seq(RecordType)]
    /\ Tracing!SetupTypeOK

\* Variables that do not change keep their types.
LEMMA UnchangedTypes ==
    ASSUME TypeInv
    PROVE  /\ UNCHANGED callbackVars => CallbackTypes'
           /\ UNCHANGED wrapperVars => WrapperTypes'
           /\ UNCHANGED tracerVars => TracerTypes' /\ UNCHANGED helper
           /\ UNCHANGED <<plan, mode, helper>> => SettingInv'
  <1>1. UNCHANGED callbackVars => CallbackTypes'
    BY DEF TypeInv, CallbackTypes, callbackVars
  <1>2. UNCHANGED wrapperVars => WrapperTypes'
    BY DEF TypeInv, WrapperTypes, wrapperVars
  <1>3. UNCHANGED tracerVars => TracerTypes' /\ UNCHANGED helper
    BY TracingTypes DEF TypeInv, TracerTypes
  <1>4. UNCHANGED <<plan, mode, helper>> => SettingInv'
    BY DEF TypeInv, SettingInv
  <1> QED
    BY <1>1, <1>2, <1>3, <1>4

\* Steps of a node's run keep the types.
LEMMA NodeStepTypes ==
    ASSUME TypeInv, NEW n \in Node, NodeStep(n)
    PROVE  TypeInv'
  <1>1. UNCHANGED <<plan, run, stage, state, mode>>
    BY NodeStepKeepsGraph
  <1>2. WrapperTypes /\ IsTree(state) /\ n \in Runs
    BY TreeIs DEF TypeInv, WrapperTypes, Runs
  <1>3. /\ PublicInput(n) \in Tree /\ WrappedUpdate(n) \in Tree
        /\ \A u \in Tree : PublicOutput(n, u) \in Tree
    BY <1>2, TreeIs, PublicInputIs, UpdateIsTree, ProjectIsTree DEF PublicOutput
  <1>4. /\ {PublicInput(n)} \in Payload /\ {PublicOutput(n, WrappedUpdate(n))} \in Payload
    BY <1>3, PayloadIs
  <1>5. ASSUME UNCHANGED <<mode, update, span>>, UNCHANGED tracerVars,
               pc' \in [Node -> PcValues], \A m \in Node : pc'[m] \in Returned => pc[m] \in Returned,
               NEW kind \in Kind, NEW view \in Tree, NEW d \in Delivery, Deliver(n, kind, view, d)
        PROVE  TypeInv'
    <2>1. CallbackTypes'
      BY <1>2, <1>5, DeliveredTypes DEF CallbackTypes
    <2>2. WrapperTypes'
      BY <1>2, <1>5 DEF WrapperTypes
    <2> QED
      BY <1>1, <1>5, <2>1, <2>2, UnchangedTypes
      DEF TypeInv, CallbackTypes, WrapperTypes, TracerTypes
  <1>6. ASSUME WrapperTypes', TracerTypes', UNCHANGED helper, UNCHANGED callbackVars
        PROVE  TypeInv'
    BY <1>1, <1>6, UnchangedTypes DEF TypeInv, CallbackTypes, WrapperTypes, TracerTypes
  <1>7. CASE StartRun(n)
    <2>1. /\ pc' \in [Node -> PcValues] /\ \A m \in Node : pc'[m] \in Returned => pc[m] \in Returned
          /\ UNCHANGED <<mode, update, span>> /\ UNCHANGED tracerVars
          /\ \E d \in Delivery : Deliver(n, "start", PublicInput(n), d)
      BY <1>2, <1>7 DEF StartRun, WrapperTypes, PcValues, Returned
    <2> QED
      BY <1>3, <1>5, <2>1 DEF Kind
  <1>8. CASE Enter(n) \/ EnterFails(n)
    <2>1. TracerTypes' /\ UNCHANGED helper
      BY <1>8, TracingTypes DEF Enter, EnterFails, TypeInv, TracerTypes
    <2>2. WrapperTypes'
      <3>1. /\ pc' \in [Node -> PcValues] /\ UNCHANGED update
            /\ \A m \in Node : pc'[m] \in Returned => pc[m] \in Returned
        BY <1>2, <1>8 DEF Enter, EnterFails, WrapperTypes, PcValues, Returned
      <3>2. /\ [span[n] EXCEPT !.open = TRUE, !.input = {PublicInput(n)}] \in SpanType
            /\ [span[n] EXCEPT !.open = TRUE, !.status = "error"] \in SpanType
        BY <1>2, <1>4 DEF WrapperTypes, SpanType
      <3>3. span' \in [Node -> SpanType]
        BY <1>2, <1>8, <3>2 DEF Enter, EnterFails, WrapperTypes
      <3> QED
        BY <1>2, <3>1, <3>3 DEF WrapperTypes
    <2> QED
      BY <1>6, <1>8, <2>1, <2>2 DEF Enter, EnterFails
  <1>9. CASE NodeFunction(n)
    <2>1. UNCHANGED tracerVars /\ UNCHANGED callbackVars
      BY <1>9 DEF NodeFunction, Accept, Raise, Cancel
    <2>2. pc' \in [Node -> PcValues]
      BY <1>2, <1>9 DEF NodeFunction, Accept, Raise, Cancel, WrapperTypes, PcValues
    <2>3. update' \in [Node -> Tree \cup {None}]
      BY <1>2, <1>3, <1>9 DEF NodeFunction, Accept, Raise, Cancel, WrapperTypes, Returned
    <2>4. \A m \in Node : pc'[m] \in Returned => update'[m] \in Tree
      BY <1>2, <1>3, <1>9 DEF NodeFunction, Accept, Raise, Cancel, WrapperTypes, Returned
    <2>5. /\ [span[n] EXCEPT !.output = {PublicOutput(n, WrappedUpdate(n))}] \in SpanType
          /\ [span[n] EXCEPT !.status = "error"] \in SpanType
      BY <1>2, <1>4 DEF WrapperTypes, SpanType
    <2>6. span' \in [Node -> SpanType]
      BY <1>2, <1>9, <2>5 DEF NodeFunction, Accept, Raise, Cancel, WrapperTypes, Returned
    <2> QED
      BY <1>6, <2>1, <2>2, <2>3, <2>4, <2>6, UnchangedTypes DEF WrapperTypes
  <1>10. CASE Leave(n)
    <2>1. TracerTypes' /\ UNCHANGED helper
      BY <1>10, TracingTypes DEF Leave, TracerTypes
    <2>2. WrapperTypes'
      BY <1>2, <1>10 DEF Leave, WrapperTypes, SpanType
    <2> QED
      BY <1>6, <1>10, <2>1, <2>2 DEF Leave
  <1>11. CASE EndRun(n)
    <2>1. /\ pc' \in [Node -> PcValues] /\ \A m \in Node : pc'[m] \in Returned => pc[m] \in Returned
          /\ UNCHANGED <<mode, update, span>> /\ UNCHANGED tracerVars
          /\ \E d \in Delivery : Deliver(n, "end", PublicOutput(n, update[n]), d)
      BY <1>2, <1>11 DEF EndRun, WrapperTypes, PcValues, Returned
    <2>2. PublicOutput(n, update[n]) \in Tree
      BY <1>2, <1>3, <1>11 DEF EndRun, WrapperTypes, Returned
    <2> QED
      BY <1>5, <2>1, <2>2 DEF Kind
  <1>12. CASE FailRun(n)
    <2>1. /\ pc' \in [Node -> PcValues] /\ \A m \in Node : pc'[m] \in Returned => pc[m] \in Returned
          /\ UNCHANGED <<mode, update, span>> /\ UNCHANGED tracerVars
          /\ \E d \in Delivery : Deliver(n, "error", EmptyTree, d)
      BY <1>2, <1>12 DEF FailRun, WrapperTypes, PcValues, Returned
    <2> QED
      BY <1>5, <2>1, EmptyIsTree DEF Kind
  <1> QED
    BY <1>7, <1>8, <1>9, <1>10, <1>11, <1>12 DEF NodeStep, Wrapper

\* Steps of the graph's own run keep the wrappers and the tracing helpers.
GraphStep == StartGraph \/ Graph

\* A step of the graph's run advances, or hands an event of the graph to the callbacks.
LEMMA GraphStepIs ==
    ASSUME GraphStep
    PROVE  /\ UNCHANGED <<plan, wrapperVars, tracerVars>>
           /\ \/ Advance
              \/ /\ UNCHANGED <<stage, state>>
                 /\ \E kind \in Kind, view \in {state, EmptyTree}, d \in Delivery :
                        Deliver(Root, kind, view, d)
  <1>1. UNCHANGED <<plan, wrapperVars, tracerVars>>
    BY DEF GraphStep, StartGraph, Graph, Advance, FailGraph, ReportFailure, FinishGraph, FailAfterEnd
  <1>2. CASE StartGraph
    BY <1>1, <1>2 DEF StartGraph, Kind
  <1>3. CASE FinishGraph
    BY <1>1, <1>3 DEF FinishGraph, Kind
  <1>4. CASE ReportFailure
    BY <1>1, <1>4 DEF ReportFailure, Kind
  <1> QED
    BY <1>1, <1>2, <1>3, <1>4 DEF GraphStep, Graph, FailGraph, FailAfterEnd

\* Steps of the graph's run keep the types.
LEMMA GraphStepTypes ==
    ASSUME TypeInv, GraphStep
    PROVE  TypeInv'
  <1>1. UNCHANGED <<plan, mode, helper>> /\ UNCHANGED wrapperVars /\ UNCHANGED tracerVars
    BY GraphStepIs, UnchangedTypes DEF wrapperVars
  <1>2. WrapperTypes' /\ TracerTypes' /\ SettingInv'
    BY <1>1, UnchangedTypes
  <1>3. run' \in {"new", "going", "failing", "done", "refused", "failed", "unreported"}
    BY DEF TypeInv, GraphStep, StartGraph, Graph, Advance, FailGraph, ReportFailure, FinishGraph,
           FailAfterEnd
  <1>4. /\ IsTree(state) /\ SettingInv /\ stage \in 1..Len(plan.stages) + 1
        /\ \A n \in Node : pc[n] \in Returned => IsTree(update[n])
    BY TreeIs DEF TypeInv
  <1>5. CASE Advance
    <2>1. CallbackTypes'
      BY <1>5, UnchangedTypes DEF Advance
    <2>2. \A n \in Current : IsTree(update[n])
      BY <1>4, <1>5, SettingGives DEF Advance, Returned
    <2>3. state' \in Tree
      BY <1>4, <1>5, <2>2, AppliedIs, TreeIs DEF Advance, Clashing
    <2>4. stage' \in 1..Len(plan.stages) + 1
      BY <1>4, <1>5, SettingGives DEF Advance
    <2> QED
      BY <1>1, <1>2, <1>3, <2>1, <2>3, <2>4 DEF TypeInv, WrapperTypes, TracerTypes, CallbackTypes
  <1>6. ASSUME UNCHANGED <<stage, state>>, NEW kind \in Kind, NEW view \in {state, EmptyTree},
               NEW d \in Delivery, Deliver(Root, kind, view, d)
        PROVE  TypeInv'
    <2>1. view \in Tree /\ Root \in Runs
      BY <1>4, <1>6, EmptyIsTree, TreeIs DEF Runs
    <2>2. CallbackTypes'
      BY <1>6, <2>1, DeliveredTypes DEF CallbackTypes
    <2> QED
      BY <1>1, <1>2, <1>3, <1>6, <2>2 DEF TypeInv, WrapperTypes, TracerTypes, CallbackTypes
  <1> QED
    BY <1>5, <1>6, GraphStepIs

\* Steps of the tracing helpers keep the types.
LEMMA OtherStepTypes ==
    ASSUME TypeInv, (\E c \in Caller : Configure(c)) \/ UNCHANGED vars
    PROVE  TypeInv'
  <1>1. /\ UNCHANGED <<plan, run, stage, state, mode>>
        /\ UNCHANGED callbackVars /\ UNCHANGED wrapperVars
    BY DEF Configure, vars, graphVars, wrapperVars
  <1>2. TracerTypes' /\ UNCHANGED helper
    BY TracingTypes DEF Configure, vars, TypeInv, TracerTypes
  <1> QED
    BY <1>1, <1>2, UnchangedTypes DEF TypeInv, WrapperTypes, TracerTypes, CallbackTypes

\* The types hold before the run.
LEMMA InitTypes == Init => TypeInv
  <1> SUFFICES ASSUME Init
               PROVE  TypeInv
    OBVIOUS
  <1>1. SettingInv
    BY DEF Init, SettingInv
  <1>2. state \in Tree /\ stage \in 1..Len(plan.stages) + 1
    BY <1>1, SettingGives, TreeIs DEF Init
  <1>3. WrapperTypes
    BY PayloadIs DEF Init, WrapperTypes, NewSpan, SpanType, PcValues, Returned
  <1>4. CallbackTypes
    BY DEF Init, CallbackTypes, Runs
  <1>5. TracerTypes
    <2>1. helper \in [Caller -> Tracing!Helper]
      BY <1>1, SettingGives
    <2>2. DOMAIN begunWith = {}
      BY DEF Init, Tracing!TracerInit
    <2>4. exported \in [Caller -> Seq(RecordType)]
      <3>1. exported = [c \in Caller |-> <<>>]
        BY DEF Init, Tracing!TracerInit
      <3>2. <<>> \in Seq(RecordType)
        OBVIOUS
      <3> QED
        BY <3>1, <3>2
    <2>3. at \in [Caller -> Tracing!AtValues] /\ answer \in [Caller -> Tracing!Answers]
      BY DEF Init, Tracing!TracerInit, Tracing!AtValues, Tracing!Answers
    <2> QED
      BY <2>1, <2>2, <2>3, <2>4 DEF Init, TracerTypes, Tracing!TracerInit, Tracing!SetupTypeOK
  <1> QED
    BY <1>1, <1>2, <1>3, <1>4, <1>5 DEF Init, TypeInv, WrapperTypes, CallbackTypes, TracerTypes

\* Every step is one of a node's run, of the graph's, or of a tracing helper.
LEMMA NextIs ==
    ASSUME [Next]_vars
    PROVE  \/ \E n \in Node : NodeStep(n)
           \/ GraphStep
           \/ (\E c \in Caller : Configure(c)) \/ UNCHANGED vars
  BY DEF Next, NodeStep, GraphStep, Finished

\* The types hold in every run of the program.
LEMMA TypeInvariant == Spec => []TypeInv
  <1>1. TypeInv /\ [Next]_vars => TypeInv'
    BY NextIs, NodeStepTypes, GraphStepTypes, OtherStepTypes
  <1> QED
    BY <1>1, InitTypes, PTL DEF Spec

\* Every variable of a graph run has its type.
THEOREM TypeCorrect == Spec => []TypeOK
  <1>1. TypeInv => TypeOK
    <2> SUFFICES ASSUME TypeInv
                 PROVE  TypeOK
      OBVIOUS
    <2>1. \A x \in RecordType :
            /\ x.name \in Node /\ x.status \in {"unset", "error"}
            /\ Cardinality(x.input) <= 1 /\ \A t \in x.input : IsTree(t)
            /\ Cardinality(x.output) <= 1 /\ \A t \in x.output : IsTree(t)
      BY PayloadIs DEF RecordType
    <2>2. \A n \in Node : SpanRecord(n) \in RecordType /\ span[n].open \in BOOLEAN
      BY DEF TypeInv, SpanType, RecordType, SpanRecord
    <2>3. \A c \in Caller : \A i \in DOMAIN exported[c] : exported[c][i] \in RecordType
      BY DEF TypeInv
    <2>4. \A r \in Runs : \A i \in DOMAIN seen[r] :
            seen[r][i].kind \in Kind /\ IsTree(seen[r][i].view)
      <3>1. ASSUME NEW r \in Runs, NEW i \in DOMAIN seen[r]
            PROVE  seen[r][i] \in [kind : Kind, view : Tree]
        <4>1. seen[r] \in Seq([kind : Kind, view : Tree])
          BY <3>1 DEF TypeInv
        <4>2. i \in 1..Len(seen[r])
          BY <4>1, LenProperties
        <4> QED
          BY <4>1, <4>2, ElementOfSeq
      <3> QED
        BY <3>1, TreeIs
    <2>5. /\ IsTree(state) /\ mode \in [Node -> Mode]
          /\ \A n \in Node : update[n] = None \/ IsTree(update[n])
      BY TreeIs, SettingGives DEF TypeInv
    <2>6. log \in [Runs -> Seq({"start", "end", "error", "duration_missing"})]
      <3>1. Record = {"start", "end", "error", "duration_missing"}
        BY DEF Record, Kind
      <3> QED
        BY <3>1 DEF TypeInv
    <2> QED
      BY <2>1, <2>2, <2>3, <2>4, <2>5, <2>6 DEF TypeInv, TypeOK, Kind
  <1> QED
    BY <1>1, TypeInvariant, PTL

-------------------------------------------------------------------------------
(* The invariant, part by part.                                            *)

\* Only nodes of past supersteps and of the running one have run; those of past
\* supersteps have landed, and nothing goes on when the graph's run does not.
StageInv ==
    /\ \A n \in Node : pc[n] # "idle" =>
        /\ run # "new"
        /\ \E i \in DOMAIN plan.stages : i <= stage /\ n \in plan.stages[i]
    /\ \A i \in DOMAIN plan.stages : i < stage => \A n \in plan.stages[i] : pc[n] = "landed"
    /\ run \in {"failing", "done"} => stage = Len(plan.stages) + 1
    /\ run # "going" => \A n \in Node : pc[n] \in Failure \cup {"idle", "landed"}

\* Both callbacks were told these events of a node's run, and no others.
Told(n, events) == log[n] = events /\ Kinds(seen[n]) = events

Live == {"called", "running", "returned", "raised", "cancelled"}

\* What there is of a node's run at each point of it.
NodeInv(n) ==
    /\ pc[n] = "idle" => Told(n, <<>>)
    /\ pc[n] \in {"idle", "called", "refused"} => span[n] = NewSpan /\ n \notin DOMAIN begunWith
    /\ pc[n] \in Live => Told(n, <<"start">>) /\ n \in logOpen \cap byRun
    /\ pc[n] \in {"running", "returned", "landed"} => span[n].status = "unset" /\ span[n].input # {}
    /\ pc[n] = "running" => span[n].open
    /\ span[n].open => n \in DOMAIN begunWith
    /\ pc[n] \in {"running", "raised", "cancelled", "failed", "unreported"} => span[n].output = {}
    /\ pc[n] \in {"returned", "landed"} => span[n].output # {}
    /\ pc[n] \in {"landed", "failed", "unreported", "lost"} => ~span[n].open /\ n \notin logOpen
    /\ pc[n] \in {"returned", "lost"} => span[n].status = "unset"
    /\ pc[n] = "landed" => Told(n, <<"start", "end">>) /\ n \notin byRun
    /\ pc[n] = "failed" => Told(n, <<"start", "error">>) /\ n \notin byRun
    /\ pc[n] = "unreported" =>
        /\ log[n] \in {<<"start">>, <<"start", "error">>}
        /\ Kinds(seen[n]) \in {<<"start">>, <<"start", "error">>}
    /\ pc[n] \in {"unreported", "lost"} /\ n \in byRun => log[n] = <<"start">>
    /\ pc[n] \in {"raised", "cancelled", "failed", "unreported"} =>
        span[n].status = "error" \/ \E m \in Node \ {n} : pc[m] \in Failure

\* What was recorded and shown of a node in the running superstep.
PayloadInv(n) ==
    n \in Current =>
        /\ \A t \in span[n].input : t = Project(ContractOf[n].inputs, state)
        /\ \A t \in span[n].output : t = Project(ContractOf[n].outputs, update[n])
        /\ \A i \in DOMAIN seen[n] :
            /\ seen[n][i].kind = "start" => seen[n][i].view = Project(ContractOf[n].inputs, state)
            /\ seen[n][i].kind = "end" => seen[n][i].view = Project(ContractOf[n].outputs, update[n])
        /\ pc[n] \in {"returned", "landed", "lost"} => ~Violates(n) /\ update[n] = WrappedUpdate(n)

\* The log callback has an entry of the graph's run until that run is over.
RootInv == run \in {"done", "failed", "unreported"} => Root \notin logOpen

\* A caller whose call goes on has told and installed nothing, and what it goes on
\* to install has its processor.
SetupInv ==
    /\ \A c \in Caller :
        /\ at[c] # "done" => c \notin warned /\ provider # c /\ answer[c] = "none"
        /\ at[c] \in {"check", "set"} => c \in processor
    /\ provider \in processor \cup {Nobody}
    /\ \A n \in DOMAIN begunWith : begunWith[n] \in processor \cup {Nobody}

\* The spans of a provider that have ended.
Ended(c) == {n \in DOMAIN begunWith : begunWith[n] = c /\ ~span[n].open}

ExportInv ==
    /\ IsFiniteSet(DOMAIN begunWith)
    /\ ExportersTellTheRun

-------------------------------------------------------------------------------
(* The tracing helpers.                                                    *)

\* What a step does to the tracing helpers.
LEMMA TracerStepIs ==
    ASSUME [Next]_vars
    PROVE  \/ UNCHANGED tracerVars
           \/ \E n \in Node : (Enter(n) \/ EnterFails(n)) /\ Tracing!BeginSpan(n)
           \/ \E n \in Node : Leave(n) /\ Tracing!EndSpan(n, SpanRecord(n))
           \/ \E c \in Caller : Configure(c) /\ Tracing!Configure(c)
  <1>1. ASSUME NEW n \in Node, NodeStep(n)
        PROVE  \/ UNCHANGED tracerVars
               \/ (Enter(n) \/ EnterFails(n)) /\ Tracing!BeginSpan(n)
               \/ Leave(n) /\ Tracing!EndSpan(n, SpanRecord(n))
    BY <1>1 DEF NodeStep, Wrapper, NodeFunction, StartRun, Enter, EnterFails, Accept, Raise, Cancel,
                Leave, EndRun, FailRun
  <1>2. GraphStep => UNCHANGED tracerVars
    BY GraphStepIs
  <1>3. UNCHANGED vars => UNCHANGED tracerVars
    BY DEF vars
  <1> QED
    BY <1>1, <1>2, <1>3, NextIs DEF Configure

SetupTold == SetupInv /\ InstallationIsTold

\* A step of a tracing helper keeps what callers are told.
LEMMA ConfigureKeepsSetup ==
    ASSUME TypeInv, SetupTold, NEW c \in Caller, Tracing!Configure(c)
    PROVE  SetupTold'
  <1>1. /\ helper \in [Caller -> Tracing!Helper] /\ at \in [Caller -> Tracing!AtValues]
        /\ answer \in [Caller -> Tracing!Answers] /\ processor \subseteq Caller
        /\ warned \subseteq Caller /\ Nobody \notin Caller
    BY GraphRunAssumption DEF TypeInv, Tracing!SetupTypeOK
  <1> USE <1>1 DEF SetupTold, SetupInv, InstallationIsTold, Tracing!Return, Tracing!spanVars,
                   Tracing!AtValues, Tracing!Answers, Tracing!Helper
  <1>2. CASE Tracing!SkipOtlp(c)
    BY <1>2 DEF Tracing!SkipOtlp
  <1>3. CASE Tracing!CannotBuild(c)
    BY <1>3 DEF Tracing!CannotBuild
  <1>4. CASE Tracing!Build(c)
    BY <1>4 DEF Tracing!Build
  <1>5. CASE Tracing!CheckProvider(c)
    <2>1. /\ at[c] = "check" /\ UNCHANGED <<helper, provider, processor, begunWith>>
          /\ c \in processor /\ c \notin warned /\ provider # c
      BY <1>5 DEF Tracing!CheckProvider
    <2>2. CASE provider # Nobody
      <3>1. /\ at' = [at EXCEPT ![c] = "done"] /\ warned' = warned \cup {c}
            /\ answer' = [answer EXCEPT ![c] = IF helper[c] = "local" THEN "exporter" ELSE "False"]
        BY <1>5, <2>2 DEF Tracing!CheckProvider
      <3>2. SetupInv'
        BY <2>1, <3>1
      <3>3. InstallationIsTold'
        BY <2>1, <2>2, <3>1
      <3> QED
        BY <3>2, <3>3
    <2>3. CASE provider = Nobody
      <3>1. at' = [at EXCEPT ![c] = "set"] /\ UNCHANGED <<answer, warned>>
        BY <1>5, <2>3 DEF Tracing!CheckProvider
      <3>2. SetupInv'
        BY <2>1, <3>1
      <3>3. InstallationIsTold'
        BY <2>1, <3>1
      <3> QED
        BY <3>2, <3>3
    <2> QED
      BY <2>2, <2>3
  <1>6. CASE Tracing!SetProvider(c)
    <2>1. /\ at[c] = "set" /\ UNCHANGED <<helper, processor, begunWith>>
          /\ c \in processor /\ c \notin warned /\ provider # c
          /\ at' = [at EXCEPT ![c] = "done"]
          /\ answer' = [answer EXCEPT ![c] = Tracing!AnswerOf(c)]
          /\ \/ provider = Nobody /\ provider' = c /\ UNCHANGED warned
             \/ provider # Nobody /\ warned' = warned \cup {c} /\ UNCHANGED provider
      BY <1>6 DEF Tracing!SetProvider, Tracing!SetOnce
    <2>2. Tracing!AnswerOf(c) \in {"exporter", "None", "True"}
      BY DEF Tracing!AnswerOf
    <2>3. SetupInv'
      BY <2>1
    <2>4. answer'[c] = Tracing!AnswerOf(c) /\ (provider' = c <=> c \notin warned') /\ provider' # Nobody
      BY <2>1
    <2>5. \A q \in Caller \ {c} :
            /\ answer'[q] = answer[q]
            /\ provider' = q <=> provider = q
            /\ q \in warned' <=> q \in warned
      <3> TAKE q \in Caller \ {c}
      <3>1. answer'[q] = answer[q]
        BY <2>1
      <3>2. provider' = q <=> provider = q
        <4>1. CASE provider = Nobody /\ provider' = c
          BY <4>1
        <4>2. CASE UNCHANGED provider
          BY <4>2
        <4> QED
          BY <2>1, <4>1, <4>2
      <3>3. q \in warned' <=> q \in warned
        BY <2>1
      <3> QED
        BY <3>1, <3>2, <3>3
    <2>6. InstallationIsTold'
      <3> SUFFICES ASSUME NEW q \in Caller
                   PROVE  /\ answer'[q] \in {"exporter", "None", "True"} =>
                                (provider' = q <=> q \notin warned')
                          /\ answer'[q] = "False" => q \in warned' /\ provider' # q
                          /\ answer'[q] = "False" /\ helper'[q] = "otlp" => provider' # Nobody
        OBVIOUS
      <3>1. CASE q = c
        BY <2>2, <2>4, <3>1
      <3>2. CASE q # c
        BY <2>4, <2>5, <3>2
      <3> QED
        BY <3>1, <3>2
    <2> QED
      BY <2>3, <2>6
  <1>7. CASE Tracing!RegisterPhoenix(c)
    <2>1. /\ at[c] = "call" /\ helper[c] = "phoenix" /\ UNCHANGED <<helper, begunWith>>
          /\ processor' = processor \cup {c}
          /\ at' = [at EXCEPT ![c] = "done"]
          /\ answer' = [answer EXCEPT ![c] = Tracing!AnswerOf(c)]
          /\ \/ provider = Nobody /\ provider' = c /\ UNCHANGED warned
             \/ provider # Nobody /\ warned' = warned \cup {c} /\ UNCHANGED provider
      BY <1>7 DEF Tracing!RegisterPhoenix, Tracing!SetOnce
    <2>2. Tracing!AnswerOf(c) = "None"
      BY <2>1 DEF Tracing!AnswerOf
    <2>3. CASE provider = Nobody /\ provider' = c /\ UNCHANGED warned
      BY <2>1, <2>2, <2>3
    <2>4. CASE provider # Nobody /\ warned' = warned \cup {c} /\ UNCHANGED provider
      BY <2>1, <2>2, <2>4
    <2> QED
      BY <2>1, <2>3, <2>4
  <1> QED
    BY <1>2, <1>3, <1>4, <1>5, <1>6, <1>7 DEF Tracing!Configure

\* What a caller of the tracing helpers is told agrees with what is installed.
LEMMA SetupInvariant == Spec => []SetupTold
  <1>1. Init => SetupTold
    <2> SUFFICES ASSUME Init
                 PROVE  SetupTold
      OBVIOUS
    <2>1. /\ provider = Nobody /\ warned = {} /\ DOMAIN begunWith = {} /\ Nobody \notin Caller
          /\ \A c \in Caller : answer[c] = "none" /\ at[c] \in {"call", "done"}
      BY GraphRunAssumption DEF Init, Tracing!TracerInit
    <2> QED
      BY <2>1 DEF SetupTold, SetupInv, InstallationIsTold
  <1>2. TypeInv /\ SetupTold /\ [Next]_vars => SetupTold'
    <2> SUFFICES ASSUME TypeInv, SetupTold, [Next]_vars
                 PROVE  SetupTold'
      OBVIOUS
    <2>1. CASE UNCHANGED tracerVars
      BY <2>1 DEF tracerVars, SetupTold, SetupInv, InstallationIsTold
    <2>2. ASSUME NEW n \in Node, Tracing!BeginSpan(n)
          PROVE  SetupTold'
      BY <2>2 DEF Tracing!BeginSpan, Tracing!setupVars, SetupTold, SetupInv, InstallationIsTold
    <2>3. ASSUME NEW n \in Node, Tracing!EndSpan(n, SpanRecord(n))
          PROVE  SetupTold'
      BY <2>3 DEF Tracing!EndSpan, Tracing!setupVars, SetupTold, SetupInv, InstallationIsTold
    <2> QED
      BY <2>1, <2>2, <2>3, TracerStepIs, ConfigureKeepsSetup
  <1> QED
    BY <1>1, <1>2, TypeInvariant, PTL DEF Spec

\* Of any number of callers, in whatever order they look and set, each is told
\* whether its provider is the one that is installed.
THEOREM InstallationTold == Spec => []InstallationIsTold
  <1>1. SetupTold => InstallationIsTold
    BY DEF SetupTold
  <1> QED
    BY <1>1, SetupInvariant, PTL

-------------------------------------------------------------------------------
(* Supersteps.                                                             *)

\* A step of a node's run starts it in the running superstep, or goes on with it.
LEMMA NodeStepIs ==
    ASSUME TypeInv, NEW n \in Node, NodeStep(n)
    PROVE  /\ pc[n] \in Live \cup {"idle"} /\ pc'[n] \in PcValues \ {"idle"}
           /\ pc[n] = "idle" => run = "going" /\ n \in Current
           /\ \A q \in Node \ {n} : pc'[q] = pc[q]
  <1>1. pc \in [Node -> PcValues]
    BY DEF TypeInv
  <1>2. /\ pc[n] \in Live \cup {"idle"}
        /\ pc[n] = "idle" => run = "going" /\ n \in Current
    BY DEF NodeStep, Wrapper, NodeFunction, StartRun, Enter, EnterFails, Accept, Raise, Cancel, Leave,
           EndRun, FailRun, Live
  <1>3. \E x \in PcValues \ {"idle"} : pc' = [pc EXCEPT ![n] = x] \/ (pc' = pc /\ pc[n] # "idle")
    BY DEF NodeStep, Wrapper, NodeFunction, StartRun, Enter, EnterFails, Accept, Raise, Cancel, Leave,
           EndRun, FailRun, PcValues
  <1> QED
    BY <1>1, <1>2, <1>3

\* A node whose run goes on is one of the running superstep of a graph that runs.
LEMMA LiveIsCurrent ==
    ASSUME TypeInv, StageInv, NEW n \in Node, pc[n] \notin {"idle", "landed"}
    PROVE  /\ stage \in DOMAIN plan.stages /\ n \in Current /\ run \notin {"new", "failing", "done"}
           /\ pc[n] \notin Failure => run = "going"
  <1>1. /\ DOMAIN plan.stages = 1..Len(plan.stages) /\ Len(plan.stages) \in Nat
        /\ stage \in 1..Len(plan.stages) + 1
    BY SettingGives DEF TypeInv
  <1>2. PICK i \in DOMAIN plan.stages : i <= stage /\ n \in plan.stages[i]
    BY DEF StageInv
  <1>3. i = stage
    BY <1>1, <1>2 DEF StageInv
  <1> QED
    BY <1>1, <1>2, <1>3 DEF StageInv, Current

\* A step of a node's run is one of the running superstep.
LEMMA NodeStepStages ==
    ASSUME TypeInv, StageInv, NEW n \in Node, NodeStep(n)
    PROVE  StageInv'
  <1>1. UNCHANGED <<plan, run, stage>>
    BY NodeStepKeepsGraph
  <1>2. /\ pc[n] \in Live \cup {"idle"} /\ pc'[n] # "idle"
        /\ pc[n] = "idle" => run = "going" /\ n \in Current
        /\ \A q \in Node \ {n} : pc'[q] = pc[q]
    BY NodeStepIs
  <1>3. /\ DOMAIN plan.stages = 1..Len(plan.stages) /\ Len(plan.stages) \in Nat
        /\ stage \in 1..Len(plan.stages) + 1
        /\ \A i, j \in DOMAIN plan.stages : i # j => plan.stages[i] \cap plan.stages[j] = {}
        /\ \A i \in DOMAIN plan.stages : plan.stages[i] \subseteq Node
    BY SettingGives DEF TypeInv
  <1>4. run = "going" /\ n \in Current
    BY <1>2, LiveIsCurrent DEF Live, Failure
  <1>5. stage \in DOMAIN plan.stages /\ n \in plan.stages[stage]
    BY <1>4 DEF Current
  <1>6. \A i \in DOMAIN plan.stages : i < stage => n \notin plan.stages[i]
    BY <1>3, <1>5
  <1> QED
    BY <1>1, <1>2, <1>3, <1>4, <1>5, <1>6 DEF StageInv

\* A superstep that is over leaves landed nodes only.
LEMMA GraphStepStages ==
    ASSUME TypeInv, StageInv, GraphStep
    PROVE  StageInv'
  <1>1. UNCHANGED <<plan, pc>>
    BY GraphStepIs DEF wrapperVars
  <1>2. /\ DOMAIN plan.stages = 1..Len(plan.stages) /\ Len(plan.stages) \in Nat
        /\ stage \in 1..Len(plan.stages) + 1
        /\ \A i \in DOMAIN plan.stages : plan.stages[i] \subseteq Node
    BY SettingGives DEF TypeInv
  <1>3. CASE StartGraph
    <2>1. run = "new" /\ run' \in {"going", "refused"} /\ stage' = stage
      BY <1>3 DEF StartGraph
    <2> QED
      BY <1>1, <2>1 DEF StageInv
  <1>4. CASE Advance
    <2>1. /\ run = "going" /\ run' = run /\ stage' = stage + 1 /\ stage \in DOMAIN plan.stages
          /\ \A n \in plan.stages[stage] : pc[n] = "landed"
      BY <1>4 DEF Advance, Current
    <2> QED
      BY <1>1, <1>2, <2>1 DEF StageInv
  <1>5. CASE FailGraph
    <2>1. /\ run = "going" /\ run' \in {"failed", "unreported"} /\ stage' = stage
          /\ \A n \in Current : pc[n] \in Failure \cup {"idle", "landed"}
      BY <1>5 DEF FailGraph, ReportFailure
    <2>2. \A n \in Node : pc[n] \in Failure \cup {"idle", "landed"}
      BY <2>1, LiveIsCurrent
    <2> QED
      BY <1>1, <2>1, <2>2 DEF StageInv
  <1>6. CASE FinishGraph
    <2>1. /\ run = "going" /\ run' \in {"failing", "done"} /\ stage' = stage
          /\ stage > Len(plan.stages)
      BY <1>6 DEF FinishGraph
    <2>2. \A n \in Node : pc[n] \in {"idle", "landed"}
      BY <1>2, <2>1, LiveIsCurrent
    <2> QED
      BY <1>1, <1>2, <2>1, <2>2 DEF StageInv
  <1>7. CASE FailAfterEnd
    <2>1. run = "failing" /\ run' \in {"failed", "unreported"} /\ stage' = stage
      BY <1>7 DEF FailAfterEnd, ReportFailure
    <2> QED
      BY <1>1, <2>1 DEF StageInv
  <1> QED
    BY <1>3, <1>4, <1>5, <1>6, <1>7 DEF GraphStep, Graph

\* Supersteps follow one another in every run of the program.
LEMMA StageInvariant == Spec => []StageInv
  <1>1. Init => StageInv
    <2> SUFFICES ASSUME Init
                 PROVE  StageInv
      OBVIOUS
    <2>1. DOMAIN plan.stages = 1..Len(plan.stages)
      BY SettingGives DEF Init, SettingInv
    <2> QED
      BY <2>1 DEF Init, StageInv
  <1>2. TypeInv /\ StageInv /\ [Next]_vars => StageInv'
    <2>1. ASSUME StageInv, (\E c \in Caller : Configure(c)) \/ UNCHANGED vars
          PROVE  StageInv'
      BY <2>1 DEF Configure, vars, graphVars, wrapperVars, StageInv
    <2> QED
      BY <2>1, NextIs, NodeStepStages, GraphStepStages
  <1> QED
    BY <1>1, <1>2, TypeInvariant, PTL DEF Spec

-------------------------------------------------------------------------------
(* The run of a node.                                                      *)

\* The kinds of the events that were shown, one by one.
LEMMA KindsGrow ==
    ASSUME NEW s \in Seq([kind : Kind, view : Tree]), NEW e \in [kind : Kind, view : Tree]
    PROVE  Kinds(Append(s, e)) = Append(Kinds(s), e.kind)
  <1> DEFINE Event == [kind : Kind, view : Tree]
             new == Append(s, e)
             kinds == Append(Kinds(s), e.kind)
  <1>1. /\ Len(s) \in Nat /\ DOMAIN s = 1..Len(s)
        /\ \A i \in 1..Len(s) : s[i] \in Event
    BY LenProperties, ElementOfSeq
  <1>2. e.kind \in Kind /\ \A i \in 1..Len(s) : s[i].kind \in Kind
    BY <1>1
  <1>3. /\ new \in Seq(Event) /\ DOMAIN new = 1..Len(s) + 1
        /\ \A i \in 1..Len(s) : new[i] = s[i]
        /\ new[Len(s) + 1] = e
    BY <1>1, AppendProperties, LenProperties
  <1>4. /\ Kinds(s) \in Seq(Kind) /\ Len(Kinds(s)) = Len(s)
        /\ \A i \in 1..Len(s) : Kinds(s)[i] = s[i].kind
    BY <1>1, <1>2 DEF Kinds
  <1> HIDE DEF new
  <1>5. Kinds(new) = [i \in 1..Len(s) + 1 |-> new[i].kind]
    BY <1>3 DEF Kinds
  <1>6. \A i \in 1..Len(s) + 1 : new[i].kind \in Kind
    BY <1>1, <1>2, <1>3
  <1>7. Kinds(new) \in Seq(Kind) /\ Len(Kinds(new)) = Len(s) + 1
    BY <1>1, <1>5, <1>6
  <1>8. /\ kinds \in Seq(Kind) /\ Len(kinds) = Len(s) + 1
        /\ \A i \in 1..Len(s) : kinds[i] = s[i].kind
        /\ kinds[Len(s) + 1] = e.kind
    BY <1>1, <1>2, <1>4, AppendProperties
  <1>9. \A i \in 1..Len(s) + 1 : Kinds(new)[i] = kinds[i]
    BY <1>1, <1>3, <1>5, <1>8
  <1> QED
    BY <1>7, <1>8, <1>9, SeqEqual DEF new

\* What the events of a node's run leave behind.
LEMMA NodeIsTold ==
    ASSUME TypeInv, NEW n \in Node, NEW kind \in Kind, NEW view \in Tree, NEW d \in Delivery,
           Deliver(n, kind, view, d), kind = "start" \/ n \in logOpen,
           NEW told \in Seq(Kind), Told(n, told)
    PROVE  /\ log'[n] \in {told, Append(told, kind)}
           /\ Kinds(seen'[n]) \in {told, Append(told, kind)}
           /\ ~d.raised => Told(n, Append(told, kind))'
           /\ kind = "start" /\ ~d.raised => n \in logOpen' \cap byRun'
           /\ kind # "start" => n \notin logOpen' /\ (n \in byRun' => log'[n] = told)
           /\ kind # "start" /\ ~d.raised => n \notin byRun'
  <1> DEFINE event == [kind |-> kind, view |-> view]
  <1>1. n \in Runs /\ n # Root
    BY GraphRunAssumption DEF Runs
  <1>2. /\ log'[n] = log[n] \/ log'[n] = Append(log[n], kind)
        /\ seen'[n] = seen[n] \/ seen'[n] = Append(seen[n], event)
        /\ ~d.raised => log'[n] = Append(log[n], kind) /\ seen'[n] = Append(seen[n], event)
        /\ logOpen' = IF kind = "start" THEN logOpen \cup {n} ELSE logOpen \ {n}
        /\ kind # "start" => byRun' = byRun \ {n} \/ (byRun' = byRun /\ log' = log)
        /\ ~d.raised => byRun' = IF kind = "start" THEN byRun \cup {n} ELSE byRun \ {n}
    BY <1>1, Delivered
  <1>3. Kinds(Append(seen[n], event)) = Append(Kinds(seen[n]), kind)
    <2>1. event \in [kind : Kind, view : Tree] /\ event.kind = kind
      OBVIOUS
    <2>2. seen[n] \in Seq([kind : Kind, view : Tree])
      BY <1>1 DEF TypeInv
    <2> HIDE DEF event
    <2> QED
      BY <2>1, <2>2, KindsGrow
  <1> HIDE DEF event
  <1>4. log[n] = told /\ Kinds(seen[n]) = told
    BY DEF Told
  <1> QED
    BY <1>2, <1>3, <1>4 DEF Told

\* The evidence of a node's run stays while no part of it changes: a failure of
\* another node is never taken back.
LEMMA UntouchedNode ==
    ASSUME NEW q \in Node, NodeInv(q), pc'[q] = pc[q], span'[q] = span[q], log'[q] = log[q],
           seen'[q] = seen[q], q \in logOpen' <=> q \in logOpen, q \in byRun' <=> q \in byRun,
           q \in DOMAIN begunWith' <=> q \in DOMAIN begunWith,
           \A m \in Node : pc[m] \in Failure => pc'[m] \in Failure
    PROVE  NodeInv(q)'
  BY DEF NodeInv, Told

\* A step of one node's run leaves the evidence of every other alone.
LEMMA NodeStepIsLocal ==
    ASSUME TypeInv, NEW n \in Node, NodeStep(n), NEW q \in Node \ {n}
    PROVE  /\ pc'[q] = pc[q] /\ span'[q] = span[q] /\ update'[q] = update[q]
           /\ log'[q] = log[q] /\ seen'[q] = seen[q]
           /\ q \in logOpen' <=> q \in logOpen
           /\ q \in byRun' <=> q \in byRun
           /\ q \in DOMAIN begunWith' <=> q \in DOMAIN begunWith
  <1>1. pc'[q] = pc[q] /\ span'[q] = span[q] /\ update'[q] = update[q]
    BY DEF TypeInv, NodeStep, Wrapper, NodeFunction, StartRun, Enter, EnterFails, Accept, Raise,
           Cancel, Leave, EndRun, FailRun
  <1>2. \/ UNCHANGED callbackVars
        \/ \E view : \E kind \in Kind, d \in Delivery : Deliver(n, kind, view, d)
    BY DEF NodeStep, Wrapper, NodeFunction, StartRun, Enter, EnterFails, Accept, Raise, Cancel, Leave,
           EndRun, FailRun, Kind
  <1>3. /\ log'[q] = log[q] /\ seen'[q] = seen[q]
        /\ q \in logOpen' <=> q \in logOpen
        /\ q \in byRun' <=> q \in byRun
    BY <1>2, DeliveredIsLocal DEF callbackVars, Runs
  <1>4. \/ UNCHANGED tracerVars
        \/ Tracing!BeginSpan(n)
        \/ Tracing!EndSpan(n, SpanRecord(n))
    BY DEF NodeStep, Wrapper, NodeFunction, StartRun, Enter, EnterFails, Accept, Raise, Cancel, Leave,
           EndRun, FailRun
  <1>5. q \in DOMAIN begunWith' <=> q \in DOMAIN begunWith
    BY <1>4 DEF tracerVars, Tracing!BeginSpan, Tracing!EndSpan
  <1> QED
    BY <1>1, <1>3, <1>5

\* Each step of a node's run leaves the evidence that belongs to where it goes.
LEMMA NodeStepEvidence ==
    ASSUME TypeInv, StageInv, NEW n \in Node, NodeInv(n), NodeStep(n)
    PROVE  NodeInv(n)'
  <1>1. /\ pc \in [Node -> PcValues] /\ span \in [Node -> SpanType] /\ IsTree(state)
        /\ \A m \in Node : pc[m] \in Returned => update[m] \in Tree
    BY TreeIs DEF TypeInv
  <1>2. /\ Append(<<>>, "start") = <<"start">> /\ Append(<<"start">>, "end") = <<"start", "end">>
        /\ Append(<<"start">>, "error") = <<"start", "error">>
        /\ <<>> \in Seq(Kind) /\ <<"start">> \in Seq(Kind)
    BY ShortAppends DEF Kind
  <1>3. PublicInput(n) \in Tree /\ (pc[n] = "returned" => PublicOutput(n, update[n]) \in Tree)
        /\ EmptyTree \in Tree
    BY <1>1, TreeIs, PublicInputIs, ProjectIsTree, EmptyIsTree DEF PublicOutput, Returned
  <1>4. UNCHANGED tracerVars => DOMAIN begunWith' = DOMAIN begunWith
    BY DEF tracerVars
  <1>5. CASE StartRun(n)
    <2>1. PICK d \in Delivery :
            /\ Deliver(n, "start", PublicInput(n), d)
            /\ pc' = [pc EXCEPT ![n] = IF d.raised THEN "refused" ELSE "called"]
      BY <1>5 DEF StartRun
    <2>2. pc[n] = "idle" /\ span' = span /\ DOMAIN begunWith' = DOMAIN begunWith
      BY <1>4, <1>5 DEF StartRun
    <2>3. Told(n, <<>>) /\ span[n] = NewSpan /\ n \notin DOMAIN begunWith
      BY <2>2 DEF NodeInv
    <2>4. ~d.raised => Told(n, <<"start">>)' /\ n \in logOpen' \cap byRun'
      <3>1. "start" \in Kind
        BY DEF Kind
      <3>2. /\ ~d.raised => Told(n, Append(<<>>, "start"))'
            /\ ~d.raised => n \in logOpen' \cap byRun'
        BY <1>2, <1>3, <2>1, <2>3, <3>1, NodeIsTold
      <3> QED
        BY <1>2, <3>2
    <2>5. pc'[n] = IF d.raised THEN "refused" ELSE "called"
      BY <1>1, <2>1
    <2> QED
      BY <2>2, <2>3, <2>4, <2>5 DEF NodeInv, NewSpan, Live
  <1>6. CASE Enter(n)
    <2>1. /\ pc[n] = "called" /\ pc'[n] = "running" /\ UNCHANGED callbackVars
          /\ span'[n] = [span[n] EXCEPT !.open = TRUE, !.input = {PublicInput(n)}]
          /\ n \in DOMAIN begunWith'
      BY <1>1, <1>6 DEF Enter, Tracing!BeginSpan
    <2>2. Told(n, <<"start">>) /\ n \in logOpen \cap byRun /\ span[n] = NewSpan
      BY <2>1 DEF NodeInv, Live
    <2>3. /\ span'[n].open /\ span'[n].status = "unset" /\ span'[n].input # {}
          /\ span'[n].output = {}
      BY <2>1, <2>2 DEF NewSpan
    <2> QED
      BY <2>1, <2>2, <2>3 DEF NodeInv, Told, Live, callbackVars
  <1>7. CASE EnterFails(n)
    <2>1. /\ pc[n] = "called" /\ pc'[n] = "raised" /\ UNCHANGED callbackVars
          /\ span'[n] = [span[n] EXCEPT !.open = TRUE, !.status = "error"]
          /\ n \in DOMAIN begunWith'
      BY <1>1, <1>7 DEF EnterFails, Tracing!BeginSpan
    <2>2. Told(n, <<"start">>) /\ n \in logOpen \cap byRun /\ span[n] = NewSpan
      BY <2>1 DEF NodeInv, Live
    <2>3. span'[n].status = "error" /\ span'[n].output = {}
      BY <2>1, <2>2 DEF NewSpan
    <2> QED
      BY <2>1, <2>2, <2>3 DEF NodeInv, Told, Live, callbackVars
  <1>8. CASE Accept(n)
    <2>1. /\ pc[n] = "running" /\ pc'[n] = "returned" /\ UNCHANGED callbackVars
          /\ span'[n] = [span[n] EXCEPT !.output = {PublicOutput(n, WrappedUpdate(n))}]
          /\ DOMAIN begunWith' = DOMAIN begunWith
      BY <1>1, <1>4, <1>8 DEF Accept
    <2>2. /\ span'[n].open = span[n].open /\ span'[n].status = span[n].status
          /\ span'[n].input = span[n].input /\ span'[n].output # {}
      BY <1>1, <2>1 DEF SpanType
    <2> QED
      BY <2>1, <2>2 DEF NodeInv, Told, Live, callbackVars
  <1>9. CASE Raise(n)
    <2>1. /\ pc[n] = "running" /\ pc'[n] = "raised" /\ UNCHANGED callbackVars
          /\ span'[n] = [span[n] EXCEPT !.status = "error"]
          /\ DOMAIN begunWith' = DOMAIN begunWith
      BY <1>1, <1>4, <1>9 DEF Raise
    <2>2. /\ span'[n].open = span[n].open /\ span'[n].status = "error"
          /\ span'[n].input = span[n].input /\ span'[n].output = span[n].output
      BY <1>1, <2>1 DEF SpanType
    <2> QED
      BY <2>1, <2>2 DEF NodeInv, Told, Live, callbackVars
  <1>10. CASE Cancel(n)
    <2>1. /\ pc[n] \in {"called", "running"} /\ pc' = [pc EXCEPT ![n] = "cancelled"]
          /\ UNCHANGED callbackVars /\ span' = span /\ DOMAIN begunWith' = DOMAIN begunWith
          /\ \E m \in Current : pc[m] \in Failure
      BY <1>4, <1>10 DEF Cancel
    <2>2. Current \subseteq Node
      BY SettingGives DEF TypeInv
    <2>3. \E m \in Node \ {n} : pc'[m] \in Failure
      BY <1>1, <2>1, <2>2 DEF Failure
    <2>4. span[n].output = {}
      BY <2>1 DEF NodeInv, NewSpan
    <2>5. pc'[n] = "cancelled"
      BY <1>1, <2>1
    <2> QED
      BY <2>1, <2>3, <2>4, <2>5 DEF NodeInv, Told, Live, callbackVars
  <1>11. CASE Leave(n)
    <2>1. /\ pc[n] \in {"returned", "raised", "cancelled"} /\ UNCHANGED callbackVars /\ pc' = pc
          /\ span'[n] = [span[n] EXCEPT !.open = FALSE]
      BY <1>1, <1>11 DEF Leave
    <2>2. /\ ~span'[n].open /\ span'[n].status = span[n].status
          /\ span'[n].input = span[n].input /\ span'[n].output = span[n].output
      BY <1>1, <2>1 DEF SpanType
    <2> QED
      BY <2>1, <2>2 DEF NodeInv, Told, Live, callbackVars
  <1>12. CASE EndRun(n)
    <2>1. PICK d \in Delivery :
            /\ Deliver(n, "end", PublicOutput(n, update[n]), d)
            /\ pc' = [pc EXCEPT ![n] = IF d.raised THEN "lost" ELSE "landed"]
      BY <1>12 DEF EndRun
    <2>2. pc[n] = "returned" /\ ~span[n].open /\ span' = span
      BY <1>12 DEF EndRun
    <2>3. /\ Told(n, <<"start">>) /\ n \in logOpen
          /\ span[n].status = "unset" /\ span[n].input # {} /\ span[n].output # {}
      BY <2>2 DEF NodeInv, Live
    <2>4. /\ ~d.raised => Told(n, <<"start", "end">>)' /\ n \notin byRun'
          /\ n \notin logOpen' /\ (n \in byRun' => log'[n] = <<"start">>)
      <3>1. "end" \in Kind /\ PublicOutput(n, update[n]) \in Tree
        BY <1>3, <2>2 DEF Kind
      <3>2. /\ ~d.raised => Told(n, Append(<<"start">>, "end"))'
            /\ ~d.raised => n \notin byRun'
            /\ n \notin logOpen'
            /\ n \in byRun' => log'[n] = <<"start">>
        <4>1. Deliver(n, "end", PublicOutput(n, update[n]), d)
          BY <2>1
        <4>2. Told(n, <<"start">>) /\ <<"start">> \in Seq(Kind) /\ n \in logOpen
          BY <1>2, <2>3
        <4> QED
          BY <3>1, <4>1, <4>2, NodeIsTold
      <3> QED
        BY <1>2, <3>2
    <2>5. pc'[n] = IF d.raised THEN "lost" ELSE "landed"
      BY <1>1, <2>1
    <2> QED
      BY <2>2, <2>3, <2>4, <2>5 DEF NodeInv, Live
  <1>13. CASE FailRun(n)
    <2>1. PICK d \in Delivery :
            /\ Deliver(n, "error", EmptyTree, d)
            /\ pc' = [pc EXCEPT ![n] = IF d.raised THEN "unreported" ELSE "failed"]
      BY <1>13 DEF FailRun
    <2>2. pc[n] \in {"raised", "cancelled"} /\ ~span[n].open /\ span' = span
      BY <1>13 DEF FailRun
    <2>3. /\ Told(n, <<"start">>) /\ n \in logOpen /\ span[n].output = {}
          /\ span[n].status = "error" \/ \E m \in Node \ {n} : pc[m] \in Failure
      BY <2>2 DEF NodeInv, Live
    <2>4. /\ log'[n] \in {<<"start">>, <<"start", "error">>}
          /\ Kinds(seen'[n]) \in {<<"start">>, <<"start", "error">>}
          /\ n \notin logOpen' /\ (n \in byRun' => log'[n] = <<"start">>)
          /\ ~d.raised => Told(n, <<"start", "error">>)' /\ n \notin byRun'
      <3>1. "error" \in Kind /\ Deliver(n, "error", EmptyTree, d)
        BY <2>1 DEF Kind
      <3>2. /\ log'[n] \in {<<"start">>, Append(<<"start">>, "error")}
            /\ Kinds(seen'[n]) \in {<<"start">>, Append(<<"start">>, "error")}
            /\ ~d.raised => Told(n, Append(<<"start">>, "error"))'
            /\ n \notin logOpen' /\ (n \in byRun' => log'[n] = <<"start">>)
            /\ ~d.raised => n \notin byRun'
        <4>1. Told(n, <<"start">>) /\ <<"start">> \in Seq(Kind) /\ n \in logOpen /\ EmptyTree \in Tree
          BY <1>2, <1>3, <2>3
        <4>2. "error" # "start"
          OBVIOUS
        <4> QED
          BY <3>1, <4>1, <4>2, NodeIsTold
      <3> QED
        BY <1>2, <3>2
    <2>5. /\ pc'[n] = IF d.raised THEN "unreported" ELSE "failed"
          /\ \A m \in Node \ {n} : pc'[m] = pc[m]
      BY <1>1, <2>1
    <2> QED
      BY <2>2, <2>3, <2>4, <2>5 DEF NodeInv, Live
  <1> QED
    BY <1>5, <1>6, <1>7, <1>8, <1>9, <1>10, <1>11, <1>12, <1>13 DEF NodeStep, Wrapper, NodeFunction

\* A failure is never taken back.
LEMMA FailureStays ==
    ASSUME TypeInv, [Next]_vars
    PROVE  \A m \in Node : pc[m] \in Failure => pc'[m] \in Failure
  <1>1. ASSUME NEW n \in Node, NodeStep(n)
        PROVE  \A m \in Node : pc[m] \in Failure => pc'[m] \in Failure
    BY <1>1, NodeStepIs DEF Live, Failure
  <1>2. GraphStep => pc' = pc
    BY GraphStepIs DEF wrapperVars
  <1>3. (\E c \in Caller : Configure(c)) \/ UNCHANGED vars => pc' = pc
    BY DEF Configure, vars, wrapperVars
  <1> QED
    BY <1>1, <1>2, <1>3, NextIs

\* The evidence of a node's run fits the point where it stands.
LEMMA NodeInvariant == Spec => [](\A n \in Node : NodeInv(n))
  <1>1. Init => \A n \in Node : NodeInv(n)
    <2> SUFFICES ASSUME Init, NEW n \in Node
                 PROVE  NodeInv(n)
      OBVIOUS
    <2>1. Kinds(<<>>) = <<>>
      BY DEF Kinds
    <2>2. pc[n] = "idle" /\ span[n] = NewSpan /\ log[n] = <<>> /\ seen[n] = <<>>
      BY DEF Init
    <2>3. DOMAIN begunWith = {}
      BY DEF Init, Tracing!TracerInit
    <2> QED
      BY <2>1, <2>2, <2>3 DEF NodeInv, Told, NewSpan, Live
  <1>2. TypeInv /\ StageInv /\ (\A n \in Node : NodeInv(n)) /\ [Next]_vars
            => (\A n \in Node : NodeInv(n))'
    <2> SUFFICES ASSUME TypeInv, StageInv, \A n \in Node : NodeInv(n), [Next]_vars, NEW q \in Node
                 PROVE  NodeInv(q)'
      OBVIOUS
    <2>1. \A m \in Node : pc[m] \in Failure => pc'[m] \in Failure
      BY FailureStays
    <2>2. ASSUME NEW n \in Node, NodeStep(n)
          PROVE  NodeInv(q)'
      <3>1. CASE q = n
        BY <2>2, <3>1, NodeStepEvidence
      <3>2. CASE q # n
        BY <2>1, <2>2, <3>2, NodeStepIsLocal, UntouchedNode
      <3> QED
        BY <3>1, <3>2
    <2>3. CASE GraphStep
      <3>1. pc' = pc /\ span' = span /\ begunWith' = begunWith
        BY <2>3, GraphStepIs DEF wrapperVars, tracerVars
      <3>2. /\ log'[q] = log[q] /\ seen'[q] = seen[q] /\ byRun' = byRun
            /\ q \in logOpen' <=> q \in logOpen
        <4>1. Root # q /\ q \in Runs /\ Root \in Runs
          BY GraphRunAssumption DEF Runs
        <4>2. CASE Advance
          BY <4>2 DEF Advance, callbackVars
        <4>3. ASSUME NEW view, NEW kind \in Kind, NEW d \in Delivery, Deliver(Root, kind, view, d)
              PROVE  /\ log'[q] = log[q] /\ seen'[q] = seen[q] /\ byRun' = byRun
                     /\ q \in logOpen' <=> q \in logOpen
          BY <4>1, <4>3, DeliveredIsLocal
        <4> QED
          BY <2>3, <4>2, <4>3, GraphStepIs
      <3> QED
        BY <2>1, <3>1, <3>2, UntouchedNode
    <2>4. CASE (\E c \in Caller : Configure(c)) \/ UNCHANGED vars
      <3>1. pc' = pc /\ span' = span /\ UNCHANGED callbackVars
        BY <2>4 DEF Configure, vars, wrapperVars
      <3>2. begunWith' = begunWith
        BY <2>4 DEF Configure, vars, tracerVars, Tracing!Configure, Tracing!SkipOtlp,
                    Tracing!CannotBuild, Tracing!Build, Tracing!CheckProvider, Tracing!SetProvider,
                    Tracing!RegisterPhoenix, Tracing!spanVars
      <3> QED
        BY <2>1, <3>1, <3>2, UntouchedNode DEF callbackVars
    <2> QED
      BY <2>2, <2>3, <2>4, NextIs
  <1> QED
    BY <1>1, <1>2, TypeInvariant, StageInvariant, PTL DEF Spec

\* The span, the log and the projected events of a node tell what became of its run.
THEOREM EvidenceTells == Spec => []EvidenceMatchesFate
  <1>1. TypeInv /\ StageInv /\ (\A n \in Node : NodeInv(n)) => EvidenceMatchesFate
    <2> SUFFICES ASSUME TypeInv, StageInv, \A n \in Node : NodeInv(n)
                 PROVE  EvidenceMatchesFate
      OBVIOUS
    <2>1. ASSUME NEW n \in Node, pc[n] = "landed"
          PROVE  /\ ~span[n].open /\ span[n].status = "unset"
                 /\ span[n].input # {} /\ span[n].output # {}
                 /\ log[n] = <<"start", "end">> /\ Kinds(seen[n]) = <<"start", "end">>
      BY <2>1 DEF NodeInv, Told
    <2>2. ASSUME NEW n \in Node, pc[n] \in {"failed", "unreported"}
          PROVE  /\ ~span[n].open /\ span[n].output = {}
                 /\ span[n].status = "error" \/ \E m \in Node \ {n} : pc[m] \in Failure
                 /\ pc[n] = "failed" =>
                        log[n] = <<"start", "error">> /\ Kinds(seen[n]) = <<"start", "error">>
                 /\ pc[n] = "unreported" =>
                        /\ log[n] \in {<<"start">>, <<"start", "error">>}
                        /\ Kinds(seen[n]) \in {<<"start">>, <<"start", "error">>}
      BY <2>2 DEF NodeInv, Told
    <2>3. ASSUME NEW n \in Node, pc[n] = "lost"
          PROVE  run # "done" /\ span[n].status = "unset"
      BY <2>3, LiveIsCurrent DEF NodeInv
    <2>4. ASSUME run = "done", NEW i \in DOMAIN plan.stages, NEW n \in plan.stages[i]
          PROVE  pc[n] = "landed"
      <3>1. DOMAIN plan.stages = 1..Len(plan.stages) /\ Len(plan.stages) \in Nat
        BY SettingGives DEF TypeInv
      <3>2. stage = Len(plan.stages) + 1
        BY <2>4 DEF StageInv
      <3> QED
        BY <2>4, <3>1, <3>2 DEF StageInv
    <2> QED
      BY <2>1, <2>2, <2>3, <2>4 DEF EvidenceMatchesFate
  <1> QED
    BY <1>1, TypeInvariant, StageInvariant, NodeInvariant, PTL

-------------------------------------------------------------------------------
(* The tables of the callbacks.                                            *)

\* The last event of the graph's run takes its entry.
LEMMA RootInvariant == Spec => []RootInv
  <1>1. Init => RootInv
    BY DEF Init, RootInv
  <1>2. RootInv /\ [Next]_vars => RootInv'
    <2> SUFFICES ASSUME RootInv, [Next]_vars
                 PROVE  RootInv'
      OBVIOUS
    <2>1. ASSUME NEW n \in Node, NodeStep(n)
          PROVE  RootInv'
      <3>1. run' = run
        BY <2>1, NodeStepKeepsGraph
      <3>2. Root \in logOpen' => Root \in logOpen
        <4>1. UNCHANGED callbackVars \/ logOpen' \in {logOpen \cup {n}, logOpen \ {n}}
          BY <2>1 DEF NodeStep, Wrapper, NodeFunction, StartRun, Enter, EnterFails, Accept, Raise,
                      Cancel, Leave, EndRun, FailRun, Deliver
        <4> QED
          BY <2>1, <4>1, GraphRunAssumption DEF callbackVars
      <3> QED
        BY <3>1, <3>2 DEF RootInv
    <2>2. CASE StartGraph
      BY <2>2 DEF StartGraph, RootInv
    <2>3. CASE Advance
      BY <2>3 DEF Advance, RootInv
    <2>4. CASE FailGraph \/ FinishGraph \/ FailAfterEnd
      <3>1. Root \notin logOpen'
        BY <2>4 DEF FailGraph, FinishGraph, FailAfterEnd, ReportFailure, Deliver
      <3> QED
        BY <3>1 DEF RootInv
    <2>5. CASE (\E c \in Caller : Configure(c)) \/ UNCHANGED vars
      <3>1. UNCHANGED <<run, logOpen>>
        BY <2>5 DEF Configure, vars, graphVars, callbackVars, wrapperVars
      <3> QED
        BY <3>1 DEF RootInv
    <2> QED
      BY <2>1, <2>2, <2>3, <2>4, <2>5, NextIs DEF GraphStep, Graph
  <1> QED
    BY <1>1, <1>2, PTL DEF Spec

\* Neither callback remembers a run that is over, but for starts that were refused
\* and last events that never reached the projection.
THEOREM TablesForget == Spec => []TablesForgetEndedRuns
  <1>1. TypeInv /\ (\A n \in Node : NodeInv(n)) /\ RootInv => TablesForgetEndedRuns
    <2> SUFFICES ASSUME TypeInv, \A n \in Node : NodeInv(n), RootInv
                 PROVE  TablesForgetEndedRuns
      OBVIOUS
    <2>1. logOpen \subseteq Node \cup {Root} /\ byRun \subseteq Node /\ Root \notin Node
      BY GraphRunAssumption DEF TypeInv, Runs
    <2>2. /\ \A n \in Node : pc[n] \in PcValues
          /\ Over(Root) <=> run \in {"done", "refused", "failed", "unreported"}
          /\ \A n \in Node : Over(n) <=> pc[n] \in Failure \cup {"landed"}
      BY <2>1 DEF TypeInv, Over, EndedWell, Broken, Failure
    <2>3. ASSUME NEW r \in logOpen, Over(r)
          PROVE  Refused(r)
      <3>1. CASE r = Root
        BY <2>2, <2>3, <3>1 DEF RootInv, Refused
      <3>2. CASE r # Root
        BY <2>1, <2>2, <2>3, <3>2 DEF NodeInv, Refused, Failure
      <3> QED
        BY <3>1, <3>2
    <2>4. ASSUME NEW n \in byRun, Over(n)
          PROVE  Refused(n) \/ log[n] = <<"start">>
      <3>1. n \in Node /\ n # Root
        BY <2>1
      <3>2. pc[n] \in Failure \cup {"landed"}
        BY <2>2, <2>4, <3>1
      <3> QED
        BY <3>1, <3>2 DEF NodeInv, Refused, Failure
    <2>5. ASSUME NEW n \in Node, ~Over(n), pc[n] # "idle"
          PROVE  n \in logOpen \cap byRun
      <3>1. pc[n] \in Live
        BY <2>2, <2>5 DEF PcValues, Live, Failure
      <3> QED
        BY <3>1 DEF NodeInv
    <2> QED
      BY <2>3, <2>4, <2>5 DEF TablesForgetEndedRuns
  <1> QED
    BY <1>1, TypeInvariant, NodeInvariant, RootInvariant, PTL

-------------------------------------------------------------------------------
(* What is recorded and shown.                                             *)

\* What a node is given and returns changes with the state only.
LEMMA SameState ==
    ASSUME UNCHANGED <<state, mode>>, NEW n \in Node
    PROVE  /\ WrappedUpdate(n)' = WrappedUpdate(n)
           /\ Violates(n)' <=> Violates(n)
  <1>1. mode'[n] = mode[n] /\ state' = state
    OBVIOUS
  <1>2. Received(n)' = Received(n)
    BY <1>1 DEF Received
  <1>3. RunInput(n)' = RunInput(n)
    BY <1>1, <1>2 DEF RunInput
  <1>4. MeetsView(n)' <=> MeetsView(n)
    BY <1>1 DEF MeetsView
  <1>5. WrappedUpdate(n)' = WrappedUpdate(n)
    BY <1>3, <1>4 DEF WrappedUpdate
  <1>6. Reads(n)' = Reads(n)
    BY <1>3, <1>4 DEF Reads
  <1> QED
    BY <1>1, <1>5, <1>6 DEF Violates

\* An event that is shown is one that was, or the new one.
LEMMA ShownIs ==
    ASSUME TypeInv, NEW n \in Node, NEW kind \in Kind, NEW view \in Tree, NEW d \in Delivery,
           Deliver(n, kind, view, d), NEW i \in DOMAIN seen'[n]
    PROVE  \/ i \in DOMAIN seen[n] /\ seen'[n][i] = seen[n][i]
           \/ seen'[n][i].kind = kind /\ seen'[n][i].view = view
  <1> DEFINE event == [kind |-> kind, view |-> view]
  <1>1. event \in [kind : Kind, view : Tree] /\ event.kind = kind /\ event.view = view
    OBVIOUS
  <1>2. n \in Runs /\ seen[n] \in Seq([kind : Kind, view : Tree])
    BY DEF Runs, TypeInv
  <1>3. seen'[n] = seen[n] \/ seen'[n] = Append(seen[n], event)
    BY <1>2, Delivered
  <1> HIDE DEF event
  <1>4. DOMAIN seen[n] = 1..Len(seen[n]) /\ Len(seen[n]) \in Nat
    BY <1>2, LenProperties
  <1>5. CASE seen'[n] = Append(seen[n], event)
    <2>1. /\ Append(seen[n], event) \in Seq([kind : Kind, view : Tree])
          /\ Len(Append(seen[n], event)) = Len(seen[n]) + 1
          /\ \A j \in 1..Len(seen[n]) : Append(seen[n], event)[j] = seen[n][j]
          /\ Append(seen[n], event)[Len(seen[n]) + 1] = event
      BY <1>1, <1>2, AppendProperties
    <2>2. i \in 1..Len(seen[n]) + 1
      BY <1>5, <2>1, LenProperties
    <2> QED
      BY <1>1, <1>4, <1>5, <2>1, <2>2
  <1> QED
    BY <1>3, <1>5

\* Before a node returns, only its start was shown.
LEMMA OnlyStartShown ==
    ASSUME NEW n \in Node, NEW told \in {<<>>, <<"start">>}, Told(n, told)
    PROVE  \A i \in DOMAIN seen[n] : told = <<"start">> /\ seen[n][i].kind = "start"
  <1>1. Kinds(seen[n]) = told /\ DOMAIN told = DOMAIN seen[n]
    BY DEF Told, Kinds
  <1>2. \A i \in DOMAIN told : told = <<"start">> /\ told[i] = "start"
    OBVIOUS
  <1> QED
    BY <1>1, <1>2 DEF Kinds

\* Each step of a node's run records and shows the state's and the update's public
\* parts.
LEMMA NodeStepPayload ==
    ASSUME TypeInv, NEW n \in Node, n \in Current, NodeInv(n), PayloadInv(n), NodeStep(n)
    PROVE  PayloadInv(n)'
  <1> DEFINE in == Project(ContractOf[n].inputs, state)
             out(u) == Project(ContractOf[n].outputs, u)
             shows(i) == /\ seen'[n][i].kind = "start" => seen'[n][i].view = in
                         /\ seen'[n][i].kind = "end" => seen'[n][i].view = out(update'[n])
  <1>1. /\ pc \in [Node -> PcValues] /\ span \in [Node -> SpanType] /\ IsTree(state)
        /\ update \in [Node -> Tree \cup {None}]
        /\ \A m \in Node : pc[m] \in Returned => update[m] \in Tree
    BY TreeIs DEF TypeInv
  <1>2. UNCHANGED <<plan, run, stage, state, mode>>
    BY NodeStepKeepsGraph
  <1>3. WrappedUpdate(n)' = WrappedUpdate(n) /\ (Violates(n)' <=> Violates(n))
    BY <1>2, SameState
  <1>4. PublicInput(n) = in /\ PublicInput(n) \in Tree /\ EmptyTree \in Tree
    BY <1>1, TreeIs, PublicInputIs, EmptyIsTree
  <1>5. \A u : PublicOutput(n, u) = out(u)
    BY DEF PublicOutput
  <1> HIDE DEF in, out
  <1>6. /\ \A t \in span[n].input : t = in
        /\ \A t \in span[n].output : t = out(update[n])
        /\ \A i \in DOMAIN seen[n] :
            /\ seen[n][i].kind = "start" => seen[n][i].view = in
            /\ seen[n][i].kind = "end" => seen[n][i].view = out(update[n])
        /\ pc[n] \in Returned => ~Violates(n) /\ update[n] = WrappedUpdate(n)
    BY DEF PayloadInv, in, out, Returned
  <1>7. ASSUME \A t \in span'[n].input : t = in,
               \A t \in span'[n].output : t = out(update'[n]),
               \A i \in DOMAIN seen'[n] : shows(i),
               pc'[n] \in Returned => ~Violates(n) /\ update'[n] = WrappedUpdate(n)
        PROVE  PayloadInv(n)'
    BY <1>2, <1>3, <1>7 DEF PayloadInv, in, out, Returned
  <1> HIDE DEF shows
  <1>8. ASSUME UNCHANGED <<update, span>>, NEW kind \in Kind, NEW view \in Tree, NEW d \in Delivery,
               Deliver(n, kind, view, d), kind = "start" => view = in,
               kind = "end" => view = out(update[n]), pc'[n] \in Returned => pc[n] \in Returned
        PROVE  PayloadInv(n)'
    <2>1. ASSUME NEW i \in DOMAIN seen'[n]
          PROVE  shows(i)
      <3>1. CASE i \in DOMAIN seen[n] /\ seen'[n][i] = seen[n][i]
        BY <1>6, <1>8, <3>1 DEF shows
      <3>2. CASE seen'[n][i].kind = kind /\ seen'[n][i].view = view
        BY <1>8, <3>2 DEF shows
      <3> QED
        BY <1>8, <3>1, <3>2, ShownIs
    <2> QED
      BY <1>6, <1>7, <1>8, <2>1
  <1>9. ASSUME UNCHANGED callbackVars, UNCHANGED update, pc'[n] \in Returned => pc[n] \in Returned,
               span'[n].input \in {span[n].input, {in}}, span'[n].output = span[n].output
        PROVE  PayloadInv(n)'
    <2>1. \A i \in DOMAIN seen'[n] : shows(i)
      BY <1>6, <1>9 DEF callbackVars, shows
    <2> QED
      BY <1>6, <1>7, <1>9, <2>1
  <1>10. CASE StartRun(n)
    <2>1. PICK d \in Delivery :
            /\ Deliver(n, "start", PublicInput(n), d)
            /\ pc' = [pc EXCEPT ![n] = IF d.raised THEN "refused" ELSE "called"]
      BY <1>10 DEF StartRun
    <2>2. pc'[n] \notin Returned /\ UNCHANGED <<update, span>> /\ "start" \in Kind
      BY <1>1, <1>10, <2>1 DEF StartRun, Returned, Kind
    <2> QED
      BY <1>4, <1>8, <2>1, <2>2
  <1>11. CASE Enter(n) \/ EnterFails(n)
    <2>1. /\ pc'[n] \notin Returned /\ UNCHANGED callbackVars /\ UNCHANGED update
          /\ \/ span'[n] = [span[n] EXCEPT !.open = TRUE, !.input = {PublicInput(n)}]
             \/ span'[n] = [span[n] EXCEPT !.open = TRUE, !.status = "error"]
      BY <1>1, <1>11 DEF Enter, EnterFails, Returned
    <2>2. span'[n].input \in {span[n].input, {in}} /\ span'[n].output = span[n].output
      BY <1>1, <1>4, <2>1 DEF SpanType
    <2> QED
      BY <1>9, <2>1, <2>2
  <1>12. CASE Accept(n)
    <2>1. /\ pc[n] = "running" /\ ~Violates(n) /\ UNCHANGED callbackVars
          /\ update'[n] = WrappedUpdate(n)
          /\ span'[n] = [span[n] EXCEPT !.output = {PublicOutput(n, WrappedUpdate(n))}]
      BY <1>1, <1>12 DEF Accept
    <2>2. span'[n].input = span[n].input /\ span'[n].output = {out(update'[n])}
      BY <1>1, <1>5, <2>1 DEF SpanType
    <2>3. Told(n, <<"start">>)
      BY <2>1 DEF NodeInv, Live
    <2>4. \A i \in DOMAIN seen'[n] : shows(i)
      BY <1>6, <2>1, <2>3, OnlyStartShown DEF callbackVars, shows
    <2> QED
      BY <1>6, <1>7, <2>1, <2>2, <2>4
  <1>13. CASE Raise(n) \/ Cancel(n) \/ Leave(n)
    <2>1. /\ pc'[n] \in Returned => pc[n] \in Returned
          /\ UNCHANGED callbackVars /\ UNCHANGED update
          /\ \/ span'[n] = [span[n] EXCEPT !.status = "error"]
             \/ span'[n] = [span[n] EXCEPT !.open = FALSE]
             \/ span'[n] = span[n]
      BY <1>1, <1>13 DEF Raise, Cancel, Leave, Returned
    <2>2. span'[n].input = span[n].input /\ span'[n].output = span[n].output
      BY <1>1, <2>1 DEF SpanType
    <2> QED
      BY <1>9, <2>1, <2>2
  <1>14. CASE EndRun(n)
    <2>1. PICK d \in Delivery : Deliver(n, "end", PublicOutput(n, update[n]), d)
      BY <1>14 DEF EndRun
    <2>2. pc[n] \in Returned /\ UNCHANGED <<update, span>> /\ "end" \in Kind
      BY <1>14 DEF EndRun, Returned, Kind
    <2>3. PublicOutput(n, update[n]) \in Tree /\ PublicOutput(n, update[n]) = out(update[n])
      BY <1>1, <1>5, <2>2, TreeIs, ProjectIsTree DEF PublicOutput
    <2> QED
      BY <1>8, <2>1, <2>2, <2>3
  <1>15. CASE FailRun(n)
    <2>1. PICK d \in Delivery : Deliver(n, "error", EmptyTree, d)
      BY <1>15 DEF FailRun
    <2>2. pc'[n] \notin Returned /\ UNCHANGED <<update, span>> /\ "error" \in Kind
      BY <1>1, <1>15 DEF FailRun, Returned, Kind
    <2> QED
      BY <1>4, <1>8, <2>1, <2>2
  <1> QED
    BY <1>10, <1>11, <1>12, <1>13, <1>14, <1>15 DEF NodeStep, Wrapper, NodeFunction

\* What is recorded and shown of a node stays while its run, the state and the
\* superstep do.
LEMMA UntouchedPayload ==
    ASSUME TypeInv, NEW n \in Node, PayloadInv(n), UNCHANGED <<plan, stage, state, mode>>,
           pc'[n] = pc[n], span'[n] = span[n], update'[n] = update[n], seen'[n] = seen[n]
    PROVE  PayloadInv(n)'
  <1>1. WrappedUpdate(n)' = WrappedUpdate(n) /\ (Violates(n)' <=> Violates(n))
    BY SameState
  <1>2. n \in Current' <=> n \in Current
    BY DEF Current
  <1> QED
    BY <1>1, <1>2 DEF PayloadInv

\* Nothing was recorded or shown of the nodes of the next superstep.
LEMMA AdvancePayload ==
    ASSUME TypeInv, StageInv, NEW n \in Node, NodeInv(n), Advance
    PROVE  PayloadInv(n)'
  <1> SUFFICES ASSUME n \in Current'
               PROVE  PayloadInv(n)'
    BY DEF PayloadInv
  <1>1. /\ DOMAIN plan.stages = 1..Len(plan.stages) /\ Len(plan.stages) \in Nat
        /\ stage \in 1..Len(plan.stages) + 1
        /\ \A i, j \in DOMAIN plan.stages : i # j => plan.stages[i] \cap plan.stages[j] = {}
    BY SettingGives DEF TypeInv
  <1>2. /\ stage' = stage + 1 /\ UNCHANGED <<plan, seen>>
        /\ UNCHANGED <<pc, update, span>>
    BY DEF Advance, callbackVars, wrapperVars
  <1>3. stage + 1 \in DOMAIN plan.stages /\ n \in plan.stages[stage + 1]
    BY <1>2 DEF Current
  <1>4. \A i \in DOMAIN plan.stages : i <= stage => n \notin plan.stages[i]
    BY <1>1, <1>3
  <1>5. pc[n] = "idle"
    BY <1>4 DEF StageInv
  <1>6. span[n] = NewSpan /\ Told(n, <<>>)
    BY <1>5 DEF NodeInv
  <1>7. \A i \in DOMAIN seen[n] : FALSE
    BY <1>6, OnlyStartShown
  <1> QED
    BY <1>2, <1>5, <1>6, <1>7 DEF PayloadInv, NewSpan

\* What is recorded and shown in a superstep is of its state and its updates.
LEMMA PayloadInvariant == Spec => [](\A n \in Node : PayloadInv(n))
  <1>1. Init => \A n \in Node : PayloadInv(n)
    <2> SUFFICES ASSUME Init, NEW n \in Node
                 PROVE  PayloadInv(n)
      OBVIOUS
    <2>1. pc[n] = "idle" /\ span[n] = NewSpan /\ seen[n] = <<>>
      BY DEF Init
    <2> QED
      BY <2>1 DEF PayloadInv, NewSpan
  <1>2. TypeInv /\ StageInv /\ (\A n \in Node : NodeInv(n)) /\ (\A n \in Node : PayloadInv(n))
            /\ [Next]_vars => (\A n \in Node : PayloadInv(n))'
    <2> SUFFICES ASSUME TypeInv, StageInv, \A n \in Node : NodeInv(n),
                        \A n \in Node : PayloadInv(n), [Next]_vars, NEW q \in Node
                 PROVE  PayloadInv(q)'
      OBVIOUS
    <2>1. ASSUME NEW n \in Node, NodeStep(n)
          PROVE  PayloadInv(q)'
      <3>1. n \in Current
        BY <2>1, NodeStepIs, LiveIsCurrent DEF Live
      <3>2. CASE q = n
        BY <2>1, <3>1, <3>2, NodeStepPayload
      <3>3. CASE q # n
        BY <2>1, <3>3, NodeStepKeepsGraph, NodeStepIsLocal, UntouchedPayload
      <3> QED
        BY <3>2, <3>3
    <2>2. CASE Advance
      BY <2>2, AdvancePayload
    <2>3. CASE GraphStep /\ ~Advance
      <3>1. UNCHANGED <<plan, stage, state, mode, pc, span, update>>
        BY <2>3, GraphStepIs DEF wrapperVars
      <3>2. seen'[q] = seen[q]
        <4>1. Root # q /\ seen \in [Runs -> Seq([kind : Kind, view : Tree])]
          BY GraphRunAssumption DEF TypeInv
        <4>2. ASSUME NEW view, NEW kind \in Kind, NEW d \in Delivery, Deliver(Root, kind, view, d)
              PROVE  seen'[q] = seen[q]
          BY <4>1, <4>2, DeliveredIsLocal DEF Runs
        <4> QED
          BY <2>3, <4>2, GraphStepIs
      <3> QED
        BY <3>1, <3>2, UntouchedPayload
    <2>4. CASE (\E c \in Caller : Configure(c)) \/ UNCHANGED vars
      <3>1. UNCHANGED <<plan, stage, state, mode, pc, span, update, seen>>
        BY <2>4 DEF Configure, vars, graphVars, callbackVars, wrapperVars
      <3> QED
        BY <3>1, UntouchedPayload
    <2> QED
      BY <2>1, <2>2, <2>3, <2>4, NextIs
  <1> QED
    BY <1>1, <1>2, TypeInvariant, StageInvariant, NodeInvariant, PTL DEF Spec

\* The span and the projected events of a node show the declared public part of the
\* whole state and of the update, whatever the mode of the node let it see.
THEOREM SurfacesShow == Spec => []SurfacesShowPublicState
  <1>1. TypeInv /\ (\A n \in Node : PayloadInv(n)) => SurfacesShowPublicState
    <2> SUFFICES ASSUME TypeInv, \A n \in Node : PayloadInv(n), NEW n \in Current
                 PROVE  LET shown(kind) ==
                               {seen[n][i].view : i \in {j \in DOMAIN seen[n] : seen[n][j].kind = kind}}
                        IN  /\ \A t \in span[n].input \cup shown("start") :
                                t = Project(ContractOf[n].inputs, state)
                            /\ \A t \in span[n].output \cup shown("end") :
                                t = Project(ContractOf[n].outputs, update[n])
      BY DEF SurfacesShowPublicState
    <2>1. n \in Node
      BY SettingGives DEF TypeInv
    <2> QED
      BY <2>1 DEF PayloadInv
  <1> QED
    BY <1>1, TypeInvariant, PayloadInvariant, PTL

-------------------------------------------------------------------------------
(* The exporters.                                                          *)

\* An exporter's records and the spans that ended, while neither changes.
LEMMA UntouchedExports ==
    ASSUME ExportInv, exported' = exported, IsFiniteSet(DOMAIN begunWith'),
           \A c \in Caller : Ended(c)' = Ended(c),
           \A n \in DOMAIN begunWith : ~span[n].open => SpanRecord(n)' = SpanRecord(n)
    PROVE  ExportInv'
  <1>1. ASSUME NEW c \in Caller
        PROVE  /\ Range(exported'[c]) = {SpanRecord(n)' : n \in Ended(c)'}
               /\ Len(exported'[c]) = Cardinality(Ended(c)')
    <2>1. \A n \in Ended(c) : SpanRecord(n)' = SpanRecord(n)
      BY DEF Ended
    <2>2. {SpanRecord(n)' : n \in Ended(c)} = {SpanRecord(n) : n \in Ended(c)}
      BY <2>1
    <2> QED
      BY <2>2 DEF ExportInv, ExportersTellTheRun, Ended
  <1> QED
    BY <1>1 DEF ExportInv, ExportersTellTheRun, Ended

\* A span that has ended changes no more, and only leaving the wrapper ends one.
LEMMA SpanStays ==
    ASSUME TypeInv, \A n \in Node : NodeInv(n), [Next]_vars,
           NEW q \in DOMAIN begunWith, ~ Leave(q)
    PROVE  (span'[q].open <=> span[q].open) /\ (~span[q].open => span'[q] = span[q])
  <1>1. q \in Node /\ span \in [Node -> SpanType] /\ pc[q] \notin {"idle", "called", "refused"}
    BY DEF TypeInv, Tracing!SetupTypeOK, NodeInv
  <1>2. CASE span' = span
    BY <1>2
  <1>3. ASSUME NEW n \in Node, NodeStep(n)
        PROVE  (span'[q].open <=> span[q].open) /\ (~span[q].open => span'[q] = span[q])
    <2>1. CASE n # q
      BY <1>1, <1>3, <2>1, NodeStepIsLocal
    <2>2. CASE n = q /\ (Accept(n) \/ Raise(n))
      <3>1. /\ pc[q] = "running"
            /\ \/ span' = [span EXCEPT ![q].output = {PublicOutput(q, WrappedUpdate(q))}]
               \/ span' = [span EXCEPT ![q].status = "error"]
        BY <2>2 DEF Accept, Raise
      <3>2. span[q].open
        BY <1>1, <3>1 DEF NodeInv
      <3>3. span'[q].open = span[q].open
        BY <1>1, <3>1 DEF SpanType
      <3> QED
        BY <3>2, <3>3
    <2>3. CASE n = q /\ ~Accept(n) /\ ~Raise(n)
      <3>1. span' = span
        BY <1>1, <1>3, <2>3 DEF NodeStep, Wrapper, NodeFunction, StartRun, Enter, EnterFails, Cancel,
                                EndRun, FailRun
      <3> QED
        BY <3>1
    <2> QED
      BY <2>1, <2>2, <2>3
  <1>4. GraphStep \/ (\E c \in Caller : Configure(c)) \/ UNCHANGED vars => span' = span
    BY GraphStepIs DEF Configure, vars, wrapperVars
  <1> QED
    BY <1>2, <1>3, <1>4, NextIs

\* A record more is in the range of the records.
LEMMA RangeGrows ==
    ASSUME NEW S, NEW s \in Seq(S), NEW e \in S
    PROVE  Range(Append(s, e)) = Range(s) \cup {e}
  <1>1. /\ Append(s, e) \in Seq(S) /\ Len(Append(s, e)) = Len(s) + 1 /\ Len(s) \in Nat
        /\ \A i \in 1..Len(s) : Append(s, e)[i] = s[i]
        /\ Append(s, e)[Len(s) + 1] = e
    BY AppendProperties, LenProperties
  <1>2. DOMAIN s = 1..Len(s) /\ DOMAIN Append(s, e) = 1..Len(s) + 1
    BY <1>1, LenProperties
  <1>3. Range(s) = {s[i] : i \in 1..Len(s)}
    BY <1>2 DEF Range
  <1>4. Range(Append(s, e)) = {Append(s, e)[i] : i \in 1..Len(s) + 1}
    BY <1>2 DEF Range
  <1> QED
    BY <1>1, <1>3, <1>4

\* The span that ends now goes to the exporter of the provider it began with.
LEMMA LeaveExports ==
    ASSUME TypeInv, \A m \in Node : NodeInv(m), SetupInv, ExportInv, [Next]_vars,
           NEW n \in Node, Leave(n)
    PROVE  ExportInv'
  <1>1. /\ span \in [Node -> SpanType] /\ exported \in [Caller -> Seq(RecordType)]
        /\ processor \subseteq Caller /\ Nobody \notin Caller
        /\ DOMAIN begunWith \subseteq Node
    BY GraphRunAssumption DEF TypeInv, Tracing!SetupTypeOK
  <1>2. /\ span[n].open /\ span' = [span EXCEPT ![n].open = FALSE]
        /\ begunWith' = begunWith
        /\ exported' = IF begunWith[n] \in processor
                       THEN [exported EXCEPT ![begunWith[n]] = Append(@, SpanRecord(n))]
                       ELSE exported
    BY DEF Leave, Tracing!EndSpan
  <1>3. n \in DOMAIN begunWith /\ begunWith[n] \in processor \cup {Nobody}
    BY <1>2 DEF NodeInv, SetupInv
  <1>4. /\ ~span'[n].open
        /\ \A m \in Node \ {n} : span'[m] = span[m]
        /\ \A m \in Node : SpanRecord(m)' = SpanRecord(m)
    BY <1>1, <1>2 DEF SpanType, SpanRecord
  <1>5. SpanRecord(n) \in RecordType
    BY <1>1 DEF SpanType, RecordType, SpanRecord
  <1>6. IsFiniteSet(DOMAIN begunWith)
    BY DEF ExportInv
  <1>7. ASSUME NEW c \in Caller
        PROVE  /\ Range(exported'[c]) = {SpanRecord(m)' : m \in Ended(c)'}
               /\ Len(exported'[c]) = Cardinality(Ended(c)')
    <2>1. /\ Range(exported[c]) = {SpanRecord(m) : m \in Ended(c)}
          /\ Len(exported[c]) = Cardinality(Ended(c))
      BY DEF ExportInv, ExportersTellTheRun, Ended
    <2>2. Ended(c) \subseteq Node /\ n \notin Ended(c) /\ IsFiniteSet(Ended(c))
      BY <1>1, <1>2, <1>6, FS_Subset DEF Ended
    <2>3. CASE begunWith[n] = c
      <3>1. Ended(c)' = Ended(c) \cup {n}
        BY <1>1, <1>2, <1>3, <1>4, <2>3 DEF Ended
      <3>2. exported'[c] = Append(exported[c], SpanRecord(n))
        BY <1>1, <1>2, <1>3, <2>3
      <3>3. /\ Range(exported'[c]) = Range(exported[c]) \cup {SpanRecord(n)}
            /\ Len(exported'[c]) = Len(exported[c]) + 1
        <4>1. exported[c] \in Seq(RecordType)
          BY <1>1
        <4> QED
          BY <1>5, <3>2, <4>1, RangeGrows, AppendProperties
      <3>4. Cardinality(Ended(c) \cup {n}) = Cardinality(Ended(c)) + 1
        BY <2>2, FS_AddElement
      <3>5. \A m \in Ended(c) \cup {n} : SpanRecord(m)' = SpanRecord(m)
        BY <1>4, <2>2
      <3>6. {SpanRecord(m)' : m \in Ended(c) \cup {n}} = {SpanRecord(m) : m \in Ended(c)} \cup {SpanRecord(n)}
        BY <3>5
      <3> QED
        BY <2>1, <3>1, <3>3, <3>4, <3>6
    <2>4. CASE begunWith[n] # c
      <3>1. Ended(c)' = Ended(c)
        BY <1>1, <1>2, <1>4, <2>4 DEF Ended
      <3>2. exported'[c] = exported[c]
        BY <1>1, <1>2, <2>4
      <3>3. {SpanRecord(m)' : m \in Ended(c)} = {SpanRecord(m) : m \in Ended(c)}
        BY <1>4, <2>2
      <3> QED
        BY <2>1, <3>1, <3>2, <3>3
    <2> QED
      BY <2>3, <2>4
  <1> QED
    BY <1>2, <1>6, <1>7 DEF ExportInv, ExportersTellTheRun, Ended

\* Exporters hold the spans that ended, in every run of the program.
LEMMA ExportInvariant == Spec => []ExportInv
  <1>1. Init => ExportInv
    <2> SUFFICES ASSUME Init
                 PROVE  ExportInv
      OBVIOUS
    <2>1. DOMAIN begunWith = {} /\ exported = [c \in Caller |-> <<>>]
      BY DEF Init, Tracing!TracerInit
    <2>2. \A c \in Caller : exported[c] = <<>> /\ Range(exported[c]) = {} /\ Len(exported[c]) = 0
      BY <2>1 DEF Range
    <2>3. IsFiniteSet({}) /\ Cardinality({}) = 0
      BY FS_EmptySet
    <2> QED
      BY <2>1, <2>2, <2>3 DEF ExportInv, ExportersTellTheRun
  <1>2. TypeInv /\ (\A n \in Node : NodeInv(n)) /\ SetupTold /\ ExportInv /\ [Next]_vars
            => ExportInv'
    <2> SUFFICES ASSUME TypeInv, \A n \in Node : NodeInv(n), SetupInv, ExportInv, [Next]_vars
                 PROVE  ExportInv'
      BY DEF SetupTold
    <2>1. DOMAIN begunWith \subseteq Node /\ IsFiniteSet(DOMAIN begunWith)
      BY DEF TypeInv, Tracing!SetupTypeOK, ExportInv
    <2>2. CASE \E n \in Node : Leave(n)
      BY <2>2, LeaveExports
    <2>3. CASE \A n \in Node : ~Leave(n)
      <3>1. \A n \in DOMAIN begunWith :
              (span'[n].open <=> span[n].open) /\ (~span[n].open => span'[n] = span[n])
        BY <2>1, <2>3, SpanStays
      <3>2. \A n \in DOMAIN begunWith : ~span[n].open => SpanRecord(n)' = SpanRecord(n)
        BY <3>1 DEF SpanRecord
      <3>3. CASE exported' = exported /\ begunWith' = begunWith
        <4>1. \A c \in Caller : Ended(c)' = Ended(c)
          BY <3>1, <3>3 DEF Ended
        <4> QED
          BY <2>1, <3>2, <3>3, <4>1, UntouchedExports
      <3>4. ASSUME NEW n \in Node, Enter(n) \/ EnterFails(n), Tracing!BeginSpan(n)
            PROVE  ExportInv'
        <4>1. /\ n \notin DOMAIN begunWith /\ exported' = exported
              /\ DOMAIN begunWith' = DOMAIN begunWith \cup {n}
              /\ \A m \in DOMAIN begunWith : begunWith'[m] = begunWith[m]
          BY <3>4 DEF Tracing!BeginSpan
        <4>2. span'[n].open
          <5>1. span \in [Node -> SpanType]
            BY DEF TypeInv
          <5>2. \/ span'[n] = [span[n] EXCEPT !.open = TRUE, !.input = {PublicInput(n)}]
                \/ span'[n] = [span[n] EXCEPT !.open = TRUE, !.status = "error"]
            BY <3>4, <5>1 DEF Enter, EnterFails
          <5> QED
            BY <5>1, <5>2 DEF SpanType
        <4>3. \A c \in Caller : Ended(c)' = Ended(c)
          BY <3>1, <4>1, <4>2 DEF Ended
        <4>4. IsFiniteSet(DOMAIN begunWith')
          BY <2>1, <4>1, FS_AddElement
        <4> QED
          BY <3>2, <4>1, <4>3, <4>4, UntouchedExports
      <3>5. UNCHANGED tracerVars => exported' = exported /\ begunWith' = begunWith
        BY DEF tracerVars
      <3>6. \A c \in Caller : Tracing!Configure(c) => exported' = exported /\ begunWith' = begunWith
        BY DEF Tracing!Configure, Tracing!SkipOtlp, Tracing!CannotBuild, Tracing!Build,
               Tracing!CheckProvider, Tracing!SetProvider, Tracing!RegisterPhoenix, Tracing!spanVars
      <3> QED
        BY <2>3, <3>3, <3>4, <3>5, <3>6, TracerStepIs
    <2> QED
      BY <2>2, <2>3
  <1> QED
    BY <1>1, <1>2, TypeInvariant, NodeInvariant, SetupInvariant, PTL DEF Spec

\* The exporter of a provider holds the spans that began with it and have ended, each
\* once and as it ended, in whatever order providers are installed.
THEOREM ExportersTell == Spec => []ExportersTellTheRun
  <1>1. ExportInv => ExportersTellTheRun
    BY DEF ExportInv
  <1> QED
    BY <1>1, ExportInvariant, PTL

-------------------------------------------------------------------------------
(* What a step may never do.                                               *)

\* Only the landed updates of a superstep change the state, those of strict nodes
\* within their contracts.
LEMMA AuthorIsKnown ==
    ASSUME TypeInv, \A n \in Node : PayloadInv(n), [Next]_vars
    PROVE  /\ \A p \in DOMAIN StateDiff(state, state') : \E n \in Current :
                /\ pc[n] = "landed" /\ p \in DOMAIN update[n] /\ state'[p] = update[n][p]
                /\ mode[n] = "enforce" => UndeclaredWrites(ContractOf[n], update[n]) = {}
           /\ \A p \in DOMAIN state \ DOMAIN state' : \E n \in Current :
                pc[n] = "landed" /\ \E q \in DOMAIN update[n] : q[1] = p[1]
  <1>1. IsTree(state) /\ Current \subseteq Node
    BY SettingGives, TreeIs DEF TypeInv
  <1>2. CASE Advance
    <2>1. /\ \A n \in Current : pc[n] = "landed" /\ IsTree(update[n])
          /\ ~Plain!Clash(Current, update)
          /\ state' = Plain!Applied(Current, update, state)
      BY <1>1, <1>2, TreeIs DEF Advance, Clashing, TypeInv, Returned
    <2>2. /\ IsTree(state')
          /\ \A p \in DOMAIN state' :
                \/ \E n \in Current : p \in DOMAIN update[n] /\ state'[p] = update[n][p]
                \/ p \in DOMAIN state /\ state'[p] = state[p]
          /\ \A p \in DOMAIN state \ DOMAIN state' :
                \E n \in Current : \E q \in DOMAIN update[n] : q[1] = p[1]
      BY <1>1, <2>1, AppliedIs
    <2>3. \A p \in DOMAIN StateDiff(state, state') :
            p \in DOMAIN state' /\ ~(p \in DOMAIN state /\ state[p] = state'[p])
      BY <2>2, StateDiffIsTree
    <2>4. ASSUME NEW n \in Current, mode[n] = "enforce"
          PROVE  UndeclaredWrites(ContractOf[n], update[n]) = {}
      <3>1. ~Violates(n) /\ update[n] = WrappedUpdate(n)
        BY <1>1, <2>1 DEF PayloadInv
      <3> QED
        BY <2>4, <3>1 DEF Violates
    <2>5. ASSUME NEW p \in DOMAIN StateDiff(state, state')
          PROVE  \E n \in Current :
                    /\ pc[n] = "landed" /\ p \in DOMAIN update[n] /\ state'[p] = update[n][p]
                    /\ mode[n] = "enforce" => UndeclaredWrites(ContractOf[n], update[n]) = {}
      <3>1. PICK n \in Current : p \in DOMAIN update[n] /\ state'[p] = update[n][p]
        BY <2>2, <2>3
      <3> QED
        BY <2>1, <2>4, <3>1
    <2>6. ASSUME NEW p \in DOMAIN state \ DOMAIN state'
          PROVE  \E n \in Current : pc[n] = "landed" /\ \E q \in DOMAIN update[n] : q[1] = p[1]
      BY <2>1, <2>2
    <2> QED
      BY <2>5, <2>6
  <1>3. CASE state' = state
    BY <1>1, <1>3, StateDiffIsTree
  <1>4. ~Advance => state' = state
    BY NextIs, NodeStepKeepsGraph, GraphStepIs DEF Configure, vars, graphVars
  <1> QED
    BY <1>2, <1>3, <1>4

\* Every change of the graph's state has an author that was allowed to make it.
THEOREM AuthorsAnswer == Spec => ChangesHaveAnAuthor
  <1>1. TypeInv /\ (\A n \in Node : PayloadInv(n)) /\ [Next]_vars =>
            [ /\ \A p \in DOMAIN StateDiff(state, state') : \E n \in Current :
                    /\ pc[n] = "landed" /\ p \in DOMAIN update[n] /\ state'[p] = update[n][p]
                    /\ mode[n] = "enforce" => UndeclaredWrites(ContractOf[n], update[n]) = {}
              /\ \A p \in DOMAIN state \ DOMAIN state' : \E n \in Current :
                    pc[n] = "landed" /\ \E q \in DOMAIN update[n] : q[1] = p[1] ]_vars
    BY AuthorIsKnown
  <1> QED
    BY <1>1, TypeInvariant, PayloadInvariant, PTL DEF Spec, ChangesHaveAnAuthor
===============================================================================
