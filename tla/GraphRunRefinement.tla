-------------------------- MODULE GraphRunRefinement --------------------------
(***************************************************************************)
(* GraphRun implements PlainGraph: contracts, spans, logs and callbacks do *)
(* not change what a graph computes, as long as they hide nothing from its *)
(* nodes.                                                                  *)
(***************************************************************************)
EXTENDS GraphRunProofs

\* The sources that the node function computes its update from.
Sources(n) == Range(Flow[n]) \ {None}

\* What a strict node may read of the state it is given, or is rejected for reading;
\* and no node that asks for a dict meets a view where it looks further down.
HidesNothing ==
    \A n \in Current :
        /\ MeetsView(n) => \A p \in Sources(n) : Len(p) = 1
        /\ mode[n] = "enforce" /\ UndeclaredReads(ContractOf[n], Reads(n)) = {} =>
            Sources(n) \cap DOMAIN state \subseteq DOMAIN RunInput(n)

\* What the graph's author can see to: a source is declared, or nothing under its key
\* is; and nodes that ask for a dict are migrated without audit.
Declared(s, n) ==
    /\ s.mode[n] = "observe" \/ n \notin TestsDict
    /\ s.mode[n] = "enforce" =>
        \A p \in Sources(n) :
            \/ \E policy \in ExecutionInputPolicies(ContractOf[n]) : Covers(policy, p)
            \/ ~ReadAllowed(ContractOf[n], <<p[1]>>)

AuthorsDeclare ==
    \A s \in Setting : \A i \in DOMAIN s.plan.stages : \A n \in s.plan.stages[i] : Declared(s, n)

-------------------------------------------------------------------------------
(* What a node returns is what the plain node would.                       *)

\* A node that is not strict is given the state, a strict one the part of it that its
\* contract covers, with the values of the state.
LEMMA RunInputIs ==
    ASSUME IsTree(state), NEW n \in Node
    PROVE  /\ DOMAIN RunInput(n) =
                {p \in DOMAIN state :
                    mode[n] = "enforce" =>
                        \E policy \in ExecutionInputPolicies(ContractOf[n]) : Covers(policy, p)}
           /\ \A p \in DOMAIN RunInput(n) : RunInput(n)[p] = state[p]
  <1>1. ContractOf[n] \in ContractType
    BY GraphRunAssumption
  <1>2. CASE mode[n] = "enforce"
    <2>1. RunInput(n) = BuildExecutionInput(ContractOf[n], state)
      BY <1>1, <1>2, NarrowingKeepsExecutionInput DEF RunInput, Received
    <2>2. \A p : (\E policy \in ExecutionInputPolicies(ContractOf[n]) : Covers(policy, p))
            <=> Covers(ContractOf[n].inputs, p) \/ Covers(ContractOf[n].privateInputs, p)
      BY DEF ExecutionInputPolicies
    <2>3. /\ DOMAIN RunInput(n) =
                {p \in DOMAIN state : \/ Covers(ContractOf[n].inputs, p)
                                      \/ Covers(ContractOf[n].privateInputs, p)}
          /\ \A p \in DOMAIN RunInput(n) : RunInput(n)[p] = state[p]
      <3> DEFINE c == ContractOf[n]
                 input == BuildExecutionInput(c, state)
      <3>1. RunInput(n) = input
        BY <2>1
      <3> HIDE DEF c
      <3>2. /\ DOMAIN input =
                {p \in DOMAIN state : Covers(c.inputs, p) \/ Covers(c.privateInputs, p)}
            /\ \A p \in DOMAIN input : input[p] = state[p]
        BY ExecutionInput
      <3> QED
        BY <3>1, <3>2 DEF c
    <2> QED
      BY <1>2, <2>2, <2>3
  <1>3. CASE mode[n] # "enforce"
    <2>1. RunInput(n) = state
      BY <1>3 DEF RunInput, Received, Narrow
    <2> QED
      BY <1>3, <2>1
  <1> QED
    BY <1>2, <1>3

\* A node of the superstep that is not rejected computes what it would have computed
\* in the plain graph.
LEMMA WrappedIsPlain ==
    ASSUME TypeInv, HidesNothing, NEW n \in Current, ~Violates(n)
    PROVE  WrappedUpdate(n) = Plain!PlainUpdate(n, state)
  <1>1. n \in Node /\ IsTree(state)
    BY SettingGives, TreeIs DEF TypeInv
  <1>2. DOMAIN state \subseteq Path /\ None \notin Path
    BY <1>1, GraphRunAssumption DEF IsTree
  <1>3. /\ DOMAIN RunInput(n) \subseteq DOMAIN state
        /\ \A p \in DOMAIN RunInput(n) : RunInput(n)[p] = state[p]
        /\ mode[n] # "enforce" => DOMAIN RunInput(n) = DOMAIN state
    BY <1>1, RunInputIs
  <1>4. Sources(n) \cap DOMAIN state \subseteq DOMAIN RunInput(n)
    BY <1>3 DEF HidesNothing, Violates
  <1>5. ASSUME NEW leaf \in DOMAIN Flow[n]
        PROVE  /\ Flow[n][leaf] \in DOMAIN RunInput(n) <=> Flow[n][leaf] \in DOMAIN state
               /\ MeetsView(n) => Flow[n][leaf] = None \/ Len(Flow[n][leaf]) = 1
    <2>1. Flow[n][leaf] = None \/ Flow[n][leaf] \in Sources(n)
      BY DEF Sources, Range
    <2>2. Flow[n][leaf] \in DOMAIN RunInput(n) <=> Flow[n][leaf] \in DOMAIN state
      BY <1>2, <1>3, <1>4, <2>1
    <2>3. MeetsView(n) => Flow[n][leaf] = None \/ Len(Flow[n][leaf]) = 1
      BY <2>1 DEF HidesNothing
    <2> QED
      BY <2>2, <2>3
  <1>6. ASSUME NEW leaf \in DOMAIN Flow[n]
        PROVE  (LET source == Flow[n][leaf]
                IN  IF MeetsView(n) /\ source # None /\ Len(source) > 1
                    THEN Default ELSE Plain!ValueAt(RunInput(n), source))
               = Plain!ValueAt(state, Flow[n][leaf])
    <2> DEFINE source == Flow[n][leaf]
    <2>1. Plain!ValueAt(RunInput(n), source) = Plain!ValueAt(state, source)
      BY <1>3, <1>5 DEF Plain!ValueAt
    <2>2. ~(MeetsView(n) /\ source # None /\ Len(source) > 1)
      <3> SUFFICES ASSUME MeetsView(n), source # None
                   PROVE  ~(Len(source) > 1)
        OBVIOUS
      <3>1. Len(source) = 1
        BY <1>5
      <3> HIDE DEF source
      <3> QED
        BY <3>1
    <2> QED
      BY <2>1, <2>2
  <1> QED
    BY <1>6 DEF WrappedUpdate, Plain!PlainUpdate

\* What is applied depends on the updates of the superstep's nodes only.
LEMMA SameUpdates ==
    ASSUME NEW nodes, NEW u, NEW v, NEW t, \A n \in nodes : u[n] = v[n]
    PROVE  /\ Plain!Clash(nodes, u) <=> Plain!Clash(nodes, v)
           /\ Plain!Applied(nodes, u, t) = Plain!Applied(nodes, v, t)
  <1>1. \A n \in nodes : Plain!Written(u[n]) = Plain!Written(v[n])
    OBVIOUS
  <1>2. Plain!Clash(nodes, u) <=> Plain!Clash(nodes, v)
    BY <1>1 DEF Plain!Clash
  <1> DEFINE of(w) == [n \in nodes |-> Plain!Written(w[n])]
             leaves(written) == UNION {DOMAIN written[n] : n \in nodes}
             joint(written) == [p \in leaves(written) |->
                                   written[CHOOSE n \in nodes : p \in DOMAIN written[n]][p]]
  <1>3. of(u) = of(v)
    BY <1>1
  <1>4. /\ Plain!Applied(nodes, u, t) = Plain!Overwrite(t, joint(of(u)))
        /\ Plain!Applied(nodes, v, t) = Plain!Overwrite(t, joint(of(v)))
    BY DEF Plain!Applied
  <1> HIDE DEF of, joint
  <1> QED
    BY <1>2, <1>3, <1>4

\* The updates of a superstep are applied as the plain graph applies its nodes'.
LEMMA AdvanceIsPlain ==
    ASSUME TypeInv, HidesNothing, \A n \in Node : PayloadInv(n), Advance
    PROVE  Plain!PlainStep
  <1> DEFINE plain == [n \in Current |-> Plain!PlainUpdate(n, state)]
  <1>1. /\ run = "going" /\ stage \in DOMAIN plan.stages
        /\ \A n \in Current : pc[n] = "landed"
        /\ ~Plain!Clash(Current, update)
        /\ state' = Plain!Applied(Current, update, state)
        /\ stage' = stage + 1
        /\ UNCHANGED <<plan, run>>
    BY DEF Advance, Clashing
  <1>2. Current \subseteq Node /\ stage <= Len(plan.stages) /\ Current = plan.stages[stage]
    BY <1>1, SettingGives DEF TypeInv, Current
  <1>3. \A n \in Current : update[n] = plain[n]
    <2> TAKE n \in Current
    <2>1. ~Violates(n) /\ update[n] = WrappedUpdate(n)
      BY <1>1, <1>2 DEF PayloadInv
    <2> QED
      BY <2>1, WrappedIsPlain
  <1>4. /\ ~Plain!Clash(Current, plain)
        /\ state' = Plain!Applied(Current, plain, state)
    BY <1>1, <1>3, SameUpdates
  <1> QED
    BY <1>1, <1>2, <1>4 DEF Plain!PlainStep, Outcome

-------------------------------------------------------------------------------
(* Steps map to steps.                                                     *)

\* Every step is one of the plain graph, or changes nothing that it has.
LEMMA StepIsPlain ==
    ASSUME TypeInv, HidesNothing, \A n \in Node : PayloadInv(n), [Next]_vars
    PROVE  [Plain!PlainNext]_(Plain!plainVars)
  <1>1. ASSUME NEW n \in Node, NodeStep(n)
        PROVE  UNCHANGED Plain!plainVars
    BY <1>1, NodeStepKeepsGraph DEF Plain!plainVars, Outcome
  <1>2. CASE StartGraph
    <2>1. run = "new" /\ run' \in {"going", "refused"} /\ UNCHANGED <<plan, stage, state>>
      BY <1>2 DEF StartGraph
    <2>2. Outcome = "new" /\ Outcome' \in {"going", "failed"}
      BY <2>1 DEF Outcome
    <2> QED
      BY <2>1, <2>2 DEF Plain!PlainNext, Plain!PlainStart
  <1>3. CASE Advance
    BY <1>3, AdvanceIsPlain DEF Plain!PlainNext
  <1>4. CASE FailGraph \/ FailAfterEnd
    <2>1. /\ run \in {"going", "failing"} /\ run' \in {"failed", "unreported"}
          /\ UNCHANGED <<plan, stage, state>>
      BY <1>4 DEF FailGraph, FailAfterEnd, ReportFailure
    <2>2. Outcome = "going" /\ Outcome' = "failed"
      BY <2>1 DEF Outcome
    <2> QED
      BY <2>1, <2>2 DEF Plain!PlainNext, Plain!PlainFail
  <1>5. CASE FinishGraph
    <2>1. /\ run = "going" /\ stage > Len(plan.stages) /\ run' \in {"failing", "done"}
          /\ UNCHANGED <<plan, stage, state>>
      BY <1>5 DEF FinishGraph
    <2>2. CASE run' = "failing"
      BY <2>1, <2>2 DEF Plain!plainVars, Outcome
    <2>3. CASE run' = "done"
      BY <2>1, <2>3 DEF Plain!PlainNext, Plain!PlainFinish, Outcome
    <2> QED
      BY <2>1, <2>2, <2>3
  <1>6. CASE (\E c \in Caller : Configure(c)) \/ UNCHANGED vars
    BY <1>6 DEF Configure, vars, graphVars, Plain!plainVars, Outcome
  <1> QED
    BY <1>1, <1>2, <1>3, <1>4, <1>5, <1>6, NextIs DEF GraphStep, Graph

\* A graph whose nodes' reads are either given or rejected runs as the plain graph
\* does, or fails, whatever telemetry and callbacks raise.
THEOREM Refinement == Spec /\ []HidesNothing => ImplementsPlainGraph
  <1>1. Init => Plain!PlainInit
    BY DEF Init, Plain!PlainInit, Outcome
  <1>2. TypeInv /\ HidesNothing /\ (\A n \in Node : PayloadInv(n)) /\ [Next]_vars
            => [Plain!PlainNext]_(Plain!plainVars)
    BY StepIsPlain
  <1> QED
    BY <1>1, <1>2, TypeInvariant, PayloadInvariant, PTL
    DEF Spec, ImplementsPlainGraph, Plain!PlainSpec

\* What the author declares is given, and what is under no declared key is rejected.
LEMMA DeclaredIsSeen ==
    ASSUME AuthorsDeclare, TypeInv
    PROVE  HidesNothing
  <1> SUFFICES ASSUME NEW n \in Current
               PROVE  /\ MeetsView(n) => \A p \in Sources(n) : Len(p) = 1
                      /\ mode[n] = "enforce" /\ UndeclaredReads(ContractOf[n], Reads(n)) = {} =>
                            Sources(n) \cap DOMAIN state \subseteq DOMAIN RunInput(n)
    BY DEF HidesNothing
  <1>1. n \in Node /\ IsTree(state) /\ stage \in DOMAIN plan.stages /\ n \in plan.stages[stage]
    BY SettingGives, TreeIs DEF TypeInv, Current
  <1>2. PICK s \in Setting : plan = s.plan /\ mode = s.mode
    BY DEF TypeInv, SettingInv
  <1>3. Declared(s, n)
    BY <1>1, <1>2 DEF AuthorsDeclare
  <1>4. ~MeetsView(n)
    BY <1>2, <1>3 DEF Declared, MeetsView
  <1>5. ASSUME mode[n] = "enforce", UndeclaredReads(ContractOf[n], Reads(n)) = {},
               NEW p \in Sources(n), p \in DOMAIN state
        PROVE  p \in DOMAIN RunInput(n)
    <2>1. CASE \E policy \in ExecutionInputPolicies(ContractOf[n]) : Covers(policy, p)
      BY <1>1, <1>5, <2>1, RunInputIs
    <2>2. CASE ~ReadAllowed(ContractOf[n], <<p[1]>>)
      <3>1. p \in Seq(Key) /\ Len(p) \in Nat /\ Len(p) >= 1
        BY <1>1, <1>5 DEF IsTree, Path
      <3>2. SubSeq(p, 1, 1) = <<p[1]>> /\ Front(<<p[1]>>) = <<>>
        <4>1. p[1] \in Key
          BY <3>1
        <4>2. SubSeq(p, 1, 1) \in Seq(Key) /\ Len(SubSeq(p, 1, 1)) = 1 /\ SubSeq(p, 1, 1)[1] = p[1]
          BY <3>1
        <4>3. <<p[1]>> \in Seq(Key) /\ Len(<<p[1]>>) = 1 /\ <<p[1]>>[1] = p[1]
          BY <4>1
        <4>4. SubSeq(p, 1, 1) = <<p[1]>>
          <5>1. \A i \in 1..Len(SubSeq(p, 1, 1)) : SubSeq(p, 1, 1)[i] = <<p[1]>>[i]
            BY <4>2, <4>3
          <5> QED
            BY <4>2, <4>3, <5>1, SeqEqual
        <4>5. Front(<<p[1]>>) = <<>>
          BY <4>3 DEF Front
        <4> QED
          BY <4>4, <4>5
      <3>3. SubSeq(p, 1, 1) \in Reads(n)
        <4>1. IsMapping(RunInput(n), Front(SubSeq(p, 1, 1)))
          BY <3>2 DEF IsMapping
        <4>2. SubSeq(p, 1, 1) \in {SubSeq(p, 1, k) : k \in 1..Len(p)}
          BY <3>1
        <4> QED
          BY <1>4, <1>5, <4>1, <4>2 DEF Reads, Sources
      <3> QED
        BY <1>5, <2>2, <3>2, <3>3 DEF UndeclaredReads
    <2> QED
      BY <1>2, <1>3, <1>5, <2>1, <2>2 DEF Declared
  <1> QED
    BY <1>4, <1>5

\* When every author declares what nodes read, in every mode the graph computes what
\* it would without graphobs, or fails.
THEOREM DeclaredRefinement ==
    ASSUME AuthorsDeclare
    PROVE  Spec => ImplementsPlainGraph
  <1>1. TypeInv => HidesNothing
    BY DeclaredIsSeen
  <1> QED
    BY <1>1, TypeInvariant, Refinement, PTL
===============================================================================
