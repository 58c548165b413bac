--------------------------- MODULE SubgraphBoundary ---------------------------
(***************************************************************************)
(* Wrapped subgraphs (langgraph/subgraphs.py) in a parent graph: every     *)
(* superstep runs some of them in parallel on one state, and at its end    *)
(* the updates they return replace the parent's last-value channels, one   *)
(* channel for each top-level key.                                         *)
(*                                                                         *)
(* A contract's privateInputs are the private state keys of the            *)
(* SubgraphContract, its privateOutputs those and the cleanup writes.      *)
(* Spans and their failures are the business of ContractRun.               *)
(***************************************************************************)
EXTENDS StatePaths

CONSTANTS Sub,         \* the wrapped subgraphs
          ContractOf,  \* the contract of each
          State,       \* initial states of the parent graph
          InnerUpdate, \* what the nodes inside a subgraph return
          MaxInner,    \* bound on the inner updates of one call
          MaxSteps     \* bound on the supersteps

ASSUME SubgraphAssumption ==
    /\ ContractOf \in [Sub -> ContractType]
    /\ \A t \in State \cup InnerUpdate : IsTree(t)
    /\ MaxInner \in Nat /\ MaxSteps \in Nat

VARIABLES run,         \* "going", or how the parent graph stopped
          step,        \* supersteps finished
          state,       \* the parent's channels
          onViolation, \* the action of each wrapper; never changes
          pc,          \* where each wrapper stands in this superstep
          input,       \* subgraph_input
          after,       \* the subgraph's channels, in the end after_state
          inner,       \* updates applied inside each subgraph
          update       \* what each wrapper returned

vars == <<run, step, state, onViolation, pc, input, after, inner, update>>

-------------------------------------------------------------------------------

\* The update that is validated: state_diff(subgraph_input, after_state).
ValidationUpdate(s) == StateDiff(input[s], after[s])

\* Mutant: the validated update is returned as it is.
WholeUpdate(s) == StateDiff(input[s], after[s])

\* project_output(contract, subgraph_input, after_state).
PublicOutput(s) ==
    LET policy == ContractOf[s].outputs
    IN  StateDiff(Project(policy, input[s]), Project(policy, after[s]))

TopKeys(t) == {p[1] : p \in DOMAIN t}

Init ==
    /\ run = "going"
    /\ step = 0
    /\ state \in State
    /\ onViolation \in [Sub -> {"raise", "warn"}]
    /\ pc = [s \in Sub |-> "idle"]
    /\ input = [s \in Sub |-> EmptyTree]
    /\ after = [s \in Sub |-> EmptyTree]
    /\ inner = [s \in Sub |-> 0]
    /\ update = [s \in Sub |-> EmptyTree]

\* The wrapper builds the execution input and invokes the compiled graph.
Invoke(s) ==
    /\ run = "going" /\ step < MaxSteps
    /\ pc[s] = "idle"
    /\ pc' = [pc EXCEPT ![s] = "running"]
    /\ input' = [input EXCEPT ![s] = BuildExecutionInput(ContractOf[s], state)]
    /\ after' = [after EXCEPT ![s] = input'[s]]
    /\ UNCHANGED <<run, step, state, onViolation, inner, update>>

\* A node inside the subgraph returns; the inner channels are last-value ones.
InnerStep(s) ==
    /\ pc[s] = "running"
    /\ inner[s] < MaxInner
    /\ \E u \in InnerUpdate : after' = [after EXCEPT ![s] = Overwrite(@, u)]
    /\ inner' = [inner EXCEPT ![s] = @ + 1]
    /\ UNCHANGED <<run, step, state, onViolation, pc, input, update>>

\* The subgraph raises, or returns something that is not a mapping.
InvokeFails(s) ==
    /\ pc[s] = "running"
    /\ pc' = [pc EXCEPT ![s] = "failed"]
    /\ UNCHANGED <<run, step, state, onViolation, input, after, inner, update>>

\* The writes are validated, and the public output is recorded and returned.
Return(s) ==
    LET undeclared == UndeclaredWrites(ContractOf[s], ValidationUpdate(s))
    IN  /\ pc[s] = "running"
        /\ IF undeclared # {} /\ onViolation[s] = "raise"
           THEN pc' = [pc EXCEPT ![s] = "failed"] /\ UNCHANGED update
           ELSE pc' = [pc EXCEPT ![s] = "returned"]
                /\ update' = [update EXCEPT ![s] = PublicOutput(s)]
        /\ UNCHANGED <<run, step, state, onViolation, input, after, inner>>

\* LangGraph ends the superstep: nothing is applied when a wrapper failed or two
\* of them write one last-value channel.
Returned == {s \in Sub : pc[s] = "returned"}

Clash == \E s, t \in Returned : s # t /\ TopKeys(update[s]) \cap TopKeys(update[t]) # {}

AllUpdates ==
    [p \in UNION {DOMAIN update[s] : s \in Returned} |->
        update[CHOOSE s \in Returned : p \in DOMAIN update[s]][p]]

StepEnds ==
    /\ run = "going"
    /\ \E s \in Sub : pc[s] # "idle"
    /\ \A s \in Sub : pc[s] # "running"
    /\ IF Clash \/ \E s \in Sub : pc[s] = "failed"
       THEN run' = "failed" /\ UNCHANGED <<step, state, pc, input, after, inner, update>>
       ELSE /\ state' = Overwrite(state, AllUpdates)
            /\ step' = step + 1
            /\ pc' = [s \in Sub |-> "idle"]
            /\ input' = [s \in Sub |-> EmptyTree] /\ after' = [s \in Sub |-> EmptyTree]
            /\ inner' = [s \in Sub |-> 0] /\ update' = [s \in Sub |-> EmptyTree]
            /\ UNCHANGED run
    /\ UNCHANGED onViolation

Finished == (run = "failed" \/ step = MaxSteps) /\ UNCHANGED vars

Next ==
    \/ \E s \in Sub : Invoke(s) \/ InnerStep(s) \/ InvokeFails(s) \/ Return(s)
    \/ StepEnds
    \/ Finished

Spec == Init /\ [][Next]_vars

-------------------------------------------------------------------------------
(* Properties.                                                             *)

\* All states of the parent and of the subgraphs stay trees.
TypeOK ==
    /\ run \in {"going", "failed"} /\ step \in 0..MaxSteps
    /\ IsTree(state)
    /\ onViolation \in [Sub -> {"raise", "warn"}]
    /\ pc \in [Sub -> {"idle", "running", "returned", "failed"}]
    /\ \A s \in Sub : IsTree(input[s]) /\ IsTree(after[s]) /\ IsTree(update[s])
    /\ inner \in [Sub -> 0..MaxInner]

\* A value that is new in the parent's state is a declared public output of a
\* subgraph that returned, also when its wrapper only warns of undeclared
\* writes: private and undeclared state never reaches the parent.
OnlyPublicOutputsLand ==
    [][\A p \in DOMAIN state' :
        ~(p \in DOMAIN state /\ state[p] = state'[p]) =>
            \E s \in Returned : PolicyAllowsWrite(p, ContractOf[s].outputs)]_vars

\* What a subgraph changed at a declared output, at any depth, is in the parent's
\* state once the superstep has ended, unless it became an empty mapping: no
\* parallel subgraph overwrites it, and the difference that the result was cut
\* down to still has it.
ChangedOutputsArrive ==
    [][step' # step =>
        \A s \in Sub : \A p \in DOMAIN after[s] :
            /\ pc[s] # "idle" /\ after[s][p] # Empty
            /\ Covers(ContractOf[s].outputs, p)
            /\ ~(p \in DOMAIN input[s] /\ input[s][p] = after[s][p])
            => p \in DOMAIN state' /\ state'[p] = after[s][p]]_vars

\* The doc of contract_subgraph: "it returns the subgraph's full projected value".
\* Of every channel it writes, the wrapper returns all the public output there.
FullValueIsReturned ==
    \A s \in Sub : pc[s] = "returned" =>
        \A p \in DOMAIN Project(ContractOf[s].outputs, after[s]) :
            p[1] \in TopKeys(update[s]) => p \in DOMAIN update[s] /\ update[s][p] = after[s][p]
===============================================================================
