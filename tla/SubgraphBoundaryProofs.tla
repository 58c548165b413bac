------------------------ MODULE SubgraphBoundaryProofs ------------------------
(***************************************************************************)
(* Theorems about SubgraphBoundary, for any set of wrapped subgraphs,      *)
(* contracts, states and inner updates, and any number of supersteps.      *)
(***************************************************************************)
EXTENDS SubgraphBoundary, StatePathsProofs

-------------------------------------------------------------------------------
(* The inductive invariant.                                                *)

\* Each variable of the wrappers has an entry for each of them.
Tables ==
    /\ input = [s \in Sub |-> input[s]] /\ after = [s \in Sub |-> after[s]]
    /\ update = [s \in Sub |-> update[s]]

\* A wrapper that has left its place belongs to a superstep that is going on, and
\* one that has returned returned the public output of what it has.
WrapperInv(s) ==
    /\ pc[s] # "idle" => step < MaxSteps
    /\ pc[s] = "returned" => update[s] = PublicOutput(s)

IInv == TypeOK /\ Tables /\ \A s \in Sub : WrapperInv(s)

-------------------------------------------------------------------------------
(* What is returned, and what a superstep makes of it.                     *)

\* The public output is a state. It holds what is declared and has changed, with
\* the values of the subgraph.
LEMMA PublicOutputIsPublic ==
    ASSUME NEW s \in Sub, IsTree(input[s]), IsTree(after[s])
    PROVE  LET policy == ContractOf[s].outputs
           IN  /\ IsTree(PublicOutput(s))
               /\ \A p \in DOMAIN PublicOutput(s) :
                    Covers(policy, p) /\ p \in DOMAIN after[s] /\ PublicOutput(s)[p] = after[s][p]
               /\ \A p \in DOMAIN after[s] :
                    /\ Covers(policy, p) /\ after[s][p] # Empty
                    /\ ~(p \in DOMAIN input[s] /\ input[s][p] = after[s][p])
                    => p \in DOMAIN PublicOutput(s)
  <1> DEFINE policy == ContractOf[s].outputs
             before == Project(policy, input[s])
             now == Project(policy, after[s])
  <1>1. /\ DOMAIN before = {p \in DOMAIN input[s] : Covers(policy, p)}
        /\ \A p \in DOMAIN before : before[p] = input[s][p]
    BY ProjectIsTree
  <1>2. /\ IsTree(now)
        /\ DOMAIN now = {p \in DOMAIN after[s] : Covers(policy, p)}
        /\ \A p \in DOMAIN now : now[p] = after[s][p]
    BY ProjectIsTree
  <1>3. PublicOutput(s) = StateDiff(before, now)
    BY DEF PublicOutput
  <1> HIDE DEF policy, before, now
  <1> DEFINE diff == StateDiff(before, now)
  <1>4. /\ IsTree(diff)
        /\ \A p : p \in DOMAIN diff <=>
                /\ p \in DOMAIN now
                /\ ~(p \in DOMAIN before /\ before[p] = now[p])
                /\ ~(now[p] = Empty /\ IsMapping(before, p))
        /\ \A p \in DOMAIN diff : diff[p] = now[p]
    BY <1>2, StateDiffIsTree
  <1> HIDE DEF diff
  <1>5. \A p \in DOMAIN diff :
            Covers(policy, p) /\ p \in DOMAIN after[s] /\ diff[p] = after[s][p]
    BY <1>2, <1>4
  <1>6. \A p \in DOMAIN after[s] :
            /\ Covers(policy, p) /\ after[s][p] # Empty
            /\ ~(p \in DOMAIN input[s] /\ input[s][p] = after[s][p])
            => p \in DOMAIN diff
    BY <1>1, <1>2, <1>4
  <1> QED
    BY <1>3, <1>4, <1>5, <1>6 DEF policy, diff

\* The updates of wrappers that do not clash make up one state, in which each of
\* them is found whole.
LEMMA UpdatesMerge ==
    ASSUME TypeOK, ~Clash
    PROVE  /\ IsTree(AllUpdates)
           /\ DOMAIN AllUpdates = UNION {DOMAIN update[s] : s \in Returned}
           /\ \A s \in Returned : \A p \in DOMAIN update[s] : AllUpdates[p] = update[s][p]
  <1> DEFINE leaves == UNION {DOMAIN update[s] : s \in Returned}
             owner(p) == CHOOSE s \in Returned : p \in DOMAIN update[s]
  <1>0. \A s \in Returned : s \in Sub /\ IsTree(update[s])
    BY DEF Returned, TypeOK
  <1>1. AllUpdates = [p \in leaves |-> update[owner(p)][p]]
    BY DEF AllUpdates
  <1>2. \A p \in leaves : owner(p) \in Returned /\ p \in DOMAIN update[owner(p)]
    OBVIOUS
  <1>3. \A s, t \in Returned : \A p \in DOMAIN update[s], q \in DOMAIN update[t] :
            p[1] = q[1] => s = t
    BY DEF Clash, TopKeys
  <1> HIDE DEF owner, leaves
  <1>4. \A s \in Returned : \A p \in DOMAIN update[s] : p \in leaves /\ owner(p) = s
    BY <1>2, <1>3 DEF leaves
  <1>5. ASSUME NEW p \in leaves, NEW q \in leaves, IsPrefix(p, q)
        PROVE  p = q
    <2>1. p \in Path /\ q \in Path
      BY <1>0, <1>2 DEF IsTree
    <2>2. p[1] = q[1]
      BY <1>5, <2>1, PrefixHead DEF Path
    <2>3. owner(p) = owner(q)
      BY <1>2, <1>3, <2>2
    <2> QED
      BY <1>0, <1>2, <1>5, <2>3 DEF IsTree
  <1>6. /\ DOMAIN AllUpdates = leaves
        /\ AllUpdates = [p \in DOMAIN AllUpdates |-> AllUpdates[p]]
        /\ \A p \in leaves : AllUpdates[p] = update[owner(p)][p]
    BY <1>1
  <1>7. \A p \in leaves : p \in Path /\ AllUpdates[p] \in Value \cup {Empty}
    BY <1>0, <1>2, <1>6 DEF IsTree
  <1>8. IsTree(AllUpdates)
    BY <1>5, <1>6, <1>7 DEF IsTree
  <1>9. \A s \in Returned : \A p \in DOMAIN update[s] : AllUpdates[p] = update[s][p]
    BY <1>4, <1>6
  <1> QED
    BY <1>6, <1>8, <1>9 DEF leaves

-------------------------------------------------------------------------------
(* The invariant is kept by each action.                                   *)

\* The state without keys is a tree.
LEMMA EmptyIsTree == IsTree(EmptyTree)
  BY DEF IsTree, EmptyTree

\* The invariant holds before any superstep.
LEMMA InitInv == Init => IInv
  <1> SUFFICES ASSUME Init PROVE IInv
    OBVIOUS
  <1>1. TypeOK
    BY SubgraphAssumption, EmptyIsTree DEF Init, TypeOK
  <1>2. Tables /\ \A s \in Sub : WrapperInv(s)
    BY DEF Init, Tables, WrapperInv
  <1> QED
    BY <1>1, <1>2 DEF IInv

\* The wrapper calls the subgraph with a projection of the state.
LEMMA InvokeKeepsInv ==
    ASSUME IInv, NEW s \in Sub, Invoke(s)
    PROVE  IInv'
  <1>0. TypeOK /\ Tables /\ \A q \in Sub : WrapperInv(q)
    BY DEF IInv
  <1> DEFINE given == BuildExecutionInput(ContractOf[s], state)
  <1>1. IsTree(given)
    BY <1>0, ExecutionInput DEF TypeOK
  <1>2. /\ step < MaxSteps /\ pc' = [pc EXCEPT ![s] = "running"]
        /\ input' = [input EXCEPT ![s] = given] /\ after' = [after EXCEPT ![s] = input'[s]]
        /\ UNCHANGED <<run, step, state, onViolation, inner, update>>
    BY DEF Invoke
  <1> HIDE DEF given
  <1>3. /\ input'[s] = given /\ after'[s] = given
        /\ \A q \in Sub : q # s => input'[q] = input[q] /\ after'[q] = after[q] /\ pc'[q] = pc[q]
        /\ input' = [q \in Sub |-> input'[q]] /\ after' = [q \in Sub |-> after'[q]]
    BY <1>0, <1>2 DEF Tables, TypeOK
  <1>4. TypeOK'
    BY <1>0, <1>1, <1>2, <1>3 DEF TypeOK
  <1>5. \A q \in Sub : WrapperInv(q)'
    BY <1>0, <1>2, <1>3 DEF TypeOK, WrapperInv, PublicOutput
  <1> QED
    BY <1>0, <1>2, <1>3, <1>4, <1>5 DEF IInv, Tables

\* A node inside the subgraph replaces channels of the subgraph.
LEMMA InnerStepKeepsInv ==
    ASSUME IInv, NEW s \in Sub, InnerStep(s)
    PROVE  IInv'
  <1>0. TypeOK /\ Tables /\ \A q \in Sub : WrapperInv(q)
    BY DEF IInv
  <1>1. PICK u \in InnerUpdate : after' = [after EXCEPT ![s] = Overwrite(@, u)]
    BY DEF InnerStep
  <1>2. IsTree(Overwrite(after[s], u))
    BY <1>0, SubgraphAssumption, OverwriteIsTree DEF TypeOK
  <1>3. /\ after'[s] = Overwrite(after[s], u)
        /\ \A q \in Sub : q # s => after'[q] = after[q]
        /\ after' = [q \in Sub |-> after'[q]]
    BY <1>0, <1>1 DEF Tables
  <1>4. /\ pc[s] = "running" /\ inner[s] < MaxInner
        /\ inner' = [inner EXCEPT ![s] = @ + 1]
        /\ UNCHANGED <<run, step, state, onViolation, pc, input, update>>
    BY DEF InnerStep
  <1>5. inner' \in [Sub -> 0..MaxInner]
    BY <1>0, <1>4, SubgraphAssumption DEF TypeOK
  <1>6. TypeOK'
    BY <1>0, <1>2, <1>3, <1>4, <1>5 DEF TypeOK
  <1>7. \A q \in Sub : WrapperInv(q)'
    BY <1>0, <1>3, <1>4 DEF WrapperInv, PublicOutput
  <1> QED
    BY <1>0, <1>3, <1>4, <1>6, <1>7 DEF IInv, Tables

\* The subgraph fails, or its result is validated and cut down.
LEMMA ReturnKeepsInv ==
    ASSUME IInv, NEW s \in Sub, InvokeFails(s) \/ Return(s)
    PROVE  IInv'
  <1>0. TypeOK /\ Tables /\ \A q \in Sub : WrapperInv(q)
    BY DEF IInv
  <1>1. /\ pc[s] = "running"
        /\ UNCHANGED <<run, step, state, onViolation, input, after, inner>>
        /\ \/ pc' = [pc EXCEPT ![s] = "failed"] /\ UNCHANGED update
           \/ /\ pc' = [pc EXCEPT ![s] = "returned"]
              /\ update' = [update EXCEPT ![s] = PublicOutput(s)]
    BY DEF InvokeFails, Return
  <1>2. IsTree(PublicOutput(s))
    BY <1>0, PublicOutputIsPublic DEF TypeOK
  <1>3. \A q \in Sub : PublicOutput(q)' = PublicOutput(q)
    BY <1>1 DEF PublicOutput
  <1>4. /\ update' = [q \in Sub |-> update'[q]]
        /\ \A q \in Sub : q # s => update'[q] = update[q] /\ pc'[q] = pc[q]
        /\ \/ pc'[s] = "failed" /\ update'[s] = update[s]
           \/ pc'[s] = "returned" /\ update'[s] = PublicOutput(s)
    BY <1>0, <1>1 DEF Tables, TypeOK
  <1>5. TypeOK'
    BY <1>0, <1>1, <1>2, <1>4 DEF TypeOK
  <1>6. \A q \in Sub : WrapperInv(q)'
    BY <1>0, <1>1, <1>3, <1>4 DEF WrapperInv
  <1> QED
    BY <1>0, <1>1, <1>4, <1>5, <1>6 DEF IInv, Tables

\* The superstep ends.
LEMMA StepEndsKeepsInv ==
    ASSUME IInv, StepEnds
    PROVE  IInv'
  <1>0. TypeOK /\ Tables /\ \A q \in Sub : WrapperInv(q)
    BY DEF IInv
  <1>1. CASE Clash \/ \E s \in Sub : pc[s] = "failed"
    <2>1. run' = "failed" /\ UNCHANGED <<step, state, pc, input, after, inner, update, onViolation>>
      BY <1>1 DEF StepEnds
    <2> QED
      BY <1>0, <2>1 DEF IInv, TypeOK, Tables, WrapperInv, PublicOutput
  <1>2. CASE ~(Clash \/ \E s \in Sub : pc[s] = "failed")
    <2>1. /\ state' = Overwrite(state, AllUpdates) /\ step' = step + 1
          /\ pc' = [s \in Sub |-> "idle"]
          /\ input' = [s \in Sub |-> EmptyTree] /\ after' = [s \in Sub |-> EmptyTree]
          /\ inner' = [s \in Sub |-> 0] /\ update' = [s \in Sub |-> EmptyTree]
          /\ UNCHANGED <<run, onViolation>>
      BY <1>2 DEF StepEnds
    <2>2. IsTree(state')
      BY <1>0, <1>2, <2>1, UpdatesMerge, OverwriteIsTree DEF TypeOK
    <2>3. step' \in 0..MaxSteps
      BY <1>0, <2>1, SubgraphAssumption DEF StepEnds, WrapperInv, TypeOK
    <2>4. TypeOK'
      BY <1>0, <2>1, <2>2, <2>3, EmptyIsTree, SubgraphAssumption DEF TypeOK
    <2> QED
      BY <2>1, <2>4 DEF IInv, Tables, WrapperInv
  <1> QED
    BY <1>1, <1>2

\* The invariant holds of every run of the program.
LEMMA Invariance == Spec => []IInv
  <1>1. IInv /\ UNCHANGED vars => IInv'
    BY DEF vars, IInv, TypeOK, Tables, WrapperInv, PublicOutput
  <1>2. IInv /\ [Next]_vars => IInv'
    BY <1>1, InvokeKeepsInv, InnerStepKeepsInv, ReturnKeepsInv, StepEndsKeepsInv
      DEF Next, Finished
  <1> QED
    BY <1>2, InitInv, PTL DEF Spec

-------------------------------------------------------------------------------
(* What follows.                                                           *)

\* States, inputs, results and updates stay trees, in every superstep.
THEOREM TypeCorrect == Spec => []TypeOK
  <1>1. IInv => TypeOK
    BY DEF IInv
  <1> QED
    BY <1>1, Invariance, PTL

\* The parent's state changes only where a superstep ends.
LEMMA StateChange ==
    ASSUME IInv, [Next]_vars, state' # state \/ step' # step
    PROVE  /\ ~Clash /\ \A s \in Sub : pc[s] \in {"idle", "returned"}
           /\ state' = Overwrite(state, AllUpdates)
           /\ IsTree(AllUpdates) /\ IsTree(state)
  <1>1. StepEnds
    BY DEF Next, Invoke, InnerStep, InvokeFails, Return, Finished, vars
  <1>2. ~Clash /\ (\A s \in Sub : pc[s] # "failed") /\ state' = Overwrite(state, AllUpdates)
    BY <1>1 DEF StepEnds
  <1>3. TypeOK
    BY DEF IInv
  <1> QED
    BY <1>1, <1>2, <1>3, UpdatesMerge DEF StepEnds, TypeOK

\* Private and undeclared state never reaches the parent: what is new there is a
\* declared public output of a subgraph that returned.
THEOREM PublicOutputsLand == Spec => OnlyPublicOutputsLand
  <1>1. ASSUME IInv, [Next]_vars, NEW p \in DOMAIN state',
               ~(p \in DOMAIN state /\ state[p] = state'[p])
        PROVE  \E s \in Returned : PolicyAllowsWrite(p, ContractOf[s].outputs)
    <2>1. /\ ~Clash /\ state' = Overwrite(state, AllUpdates)
          /\ IsTree(AllUpdates) /\ IsTree(state) /\ TypeOK
      <3>1. state' # state
        BY <1>1
      <3> QED
        BY <1>1, <3>1, StateChange DEF IInv
    <2>2. p \in DOMAIN AllUpdates
      <3>1. /\ DOMAIN state' \subseteq DOMAIN state \cup DOMAIN AllUpdates
            /\ state'[p] = IF p \in DOMAIN AllUpdates THEN AllUpdates[p] ELSE state[p]
        BY <2>1, OverwriteIsTree
      <3> QED
        BY <1>1, <3>1
    <2>3. PICK s \in Returned : p \in DOMAIN update[s]
      BY <2>1, <2>2, UpdatesMerge
    <2>4. s \in Sub /\ update[s] = PublicOutput(s)
      BY <1>1 DEF IInv, WrapperInv, Returned
    <2>5. Covers(ContractOf[s].outputs, p)
      BY <2>1, <2>3, <2>4, PublicOutputIsPublic DEF TypeOK
    <2> QED
      BY <2>5 DEF PolicyAllowsWrite
  <1>2. IInv /\ [Next]_vars =>
            [\A p \in DOMAIN state' :
                ~(p \in DOMAIN state /\ state[p] = state'[p]) =>
                    \E s \in Returned : PolicyAllowsWrite(p, ContractOf[s].outputs)]_vars
    BY <1>1
  <1> QED
    BY <1>2, Invariance, PTL DEF Spec, OnlyPublicOutputsLand

\* What a subgraph changed at a declared output arrives, at any depth and whatever
\* runs beside it: two that write one channel fail the step.
THEOREM OutputsArrive == Spec => ChangedOutputsArrive
  <1>1. ASSUME IInv, [Next]_vars, step' # step, NEW s \in Sub, NEW p \in DOMAIN after[s],
               pc[s] # "idle", after[s][p] # Empty, Covers(ContractOf[s].outputs, p),
               ~(p \in DOMAIN input[s] /\ input[s][p] = after[s][p])
        PROVE  p \in DOMAIN state' /\ state'[p] = after[s][p]
    <2>1. /\ ~Clash /\ state' = Overwrite(state, AllUpdates) /\ pc[s] = "returned"
          /\ IsTree(AllUpdates) /\ IsTree(state) /\ TypeOK
      BY <1>1, StateChange DEF IInv
    <2>2. s \in Returned /\ update[s] = PublicOutput(s)
      BY <1>1, <2>1 DEF IInv, WrapperInv, Returned
    <2>3. p \in DOMAIN update[s] /\ update[s][p] = after[s][p]
      BY <1>1, <2>1, <2>2, PublicOutputIsPublic DEF TypeOK
    <2>4. p \in DOMAIN AllUpdates /\ AllUpdates[p] = after[s][p]
      BY <2>1, <2>2, <2>3, UpdatesMerge
    <2> QED
      BY <2>1, <2>4, OverwriteIsTree
  <1>2. IInv /\ [Next]_vars =>
            [step' # step =>
                \A s \in Sub : \A p \in DOMAIN after[s] :
                    /\ pc[s] # "idle" /\ after[s][p] # Empty
                    /\ Covers(ContractOf[s].outputs, p)
                    /\ ~(p \in DOMAIN input[s] /\ input[s][p] = after[s][p])
                    => p \in DOMAIN state' /\ state'[p] = after[s][p]]_vars
    BY <1>1
  <1> QED
    BY <1>2, Invariance, PTL DEF Spec, ChangedOutputsArrive

===============================================================================
