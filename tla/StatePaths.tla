------------------------------ MODULE StatePaths ------------------------------
(***************************************************************************)
(* Graph state as the contracts of graphobs see it, and the path algebra   *)
(* they are checked with (state/paths.py, state/observed_access.py,        *)
(* contracts/projection.py, contracts/conformance.py).                     *)
(*                                                                         *)
(* A nested mapping is represented by its leaves: a function from the leaf *)
(* paths of the mapping to their values.  An empty nested mapping is a     *)
(* leaf of its own with the value Empty, exactly the leaves that           *)
(* iter_update_paths yields.  The recursive code over nested mappings is   *)
(* compared with these definitions in module StateTrees.                   *)
(***************************************************************************)
EXTENDS Naturals, Sequences, SequencesExt, Functions

CONSTANTS Key,      \* the keys of state mappings; path parts
          Value,    \* leaf values: everything that is not a mapping
          Empty,    \* the leaf value of an empty nested mapping
          None      \* Python's None: an omitted include, an absent update

Path == Seq(Key) \ {<<>>}

\* An include of a ProjectionPolicy: dotted paths, or None for all state.
Policy == {None} \cup SUBSET Path

\* The leaves of a nested mapping: no leaf lies below another leaf.
IsTree(t) ==
    /\ t = [p \in DOMAIN t |-> t[p]]
    /\ DOMAIN t \subseteq Path
    /\ \A p \in DOMAIN t : t[p] \in Value \cup {Empty}
    /\ \A p, q \in DOMAIN t : IsPrefix(p, q) => p = q

\* A state without any key.
EmptyTree == [p \in {} |-> Empty]

ContractType == [inputs : Policy, privateInputs : Policy,
                 outputs : Policy, privateOutputs : Policy]

-------------------------------------------------------------------------------
(* Reading a state.                                                        *)

\* get_path finds a value at p: p is a leaf or a mapping above one.
Has(t, p) == \E q \in DOMAIN t : IsPrefix(p, q)

\* The value found at p is a (possibly empty) mapping, or p is the root.
IsMapping(t, p) ==
    p = <<>> \/ \E q \in DOMAIN t : IF p = q THEN t[q] = Empty ELSE IsPrefix(p, q)

\* The paths of the keys of the mapping found at p.
Children(t, p) ==
    {SubSeq(q, 1, Len(p) + 1) : q \in {x \in DOMAIN t : IsStrictPrefix(p, x)}}

-------------------------------------------------------------------------------
(* Policies.                                                               *)

\* The declared path is the path itself or lies above it.
Covers(policy, p) == policy = None \/ \E a \in policy : IsPrefix(a, p)

PathsOverlap(p, q) == IsPrefix(p, q) \/ IsPrefix(q, p)

PolicyAllowsRead(p, policy) ==
    policy = None \/ \E a \in policy : PathsOverlap(a, p)

PolicyAllowsWrite(p, policy) == Covers(policy, p)

ExecutionInputPolicies(c) == {c.inputs, c.privateInputs}

WritePolicies(c) == {c.outputs, c.privateOutputs}

ReadAllowed(c, p) == \E policy \in ExecutionInputPolicies(c) : PolicyAllowsRead(p, policy)

WriteAllowed(c, p) == \E policy \in WritePolicies(c) : PolicyAllowsWrite(p, policy)

UndeclaredReads(c, observed) == {p \in observed : ~ReadAllowed(c, p)}

\* The leaf paths of the update that no write policy covers.
UndeclaredWrites(c, update) == {p \in DOMAIN update : ~WriteAllowed(c, p)}

-------------------------------------------------------------------------------
(* Projection, merge and difference of states.                             *)

\* project_state: the leaves at or below an included path.  This is of states whose
\* nested mappings can be changed: where two included paths meet in a mapping that
\* is no MutableMapping, set_path (state/paths.py:62) puts a new one in its place and
\* its other members are gone, which StateTrees models.
Project(policy, t) == Restrict(t, {p \in DOMAIN t : Covers(policy, p)})

\* Replaces whole top-level values, as dict.update and last-value channels do.
Overwrite(t, update) ==
    LET kept == {p \in DOMAIN t : \A q \in DOMAIN update : p[1] # q[1]}
    IN  [p \in kept \cup DOMAIN update |-> IF p \in DOMAIN update THEN update[p] ELSE t[p]]

\* _merge_mappings of two projections of one state, whose nested mappings can be changed:
\* one that cannot is replaced and not merged (execution.py:156), see StateTrees.
Merge(public, private) ==
    [p \in DOMAIN public \cup DOMAIN private |->
        IF p \in DOMAIN private THEN private[p] ELSE public[p]]

BuildExecutionInput(c, t) == Merge(Project(c.inputs, t), Project(c.privateInputs, t))

\* Mutant: only keys that were there before are compared.
DiffOfKnownKeys(before, after) ==
    Restrict(after, {p \in DOMAIN after : p \in DOMAIN before /\ before[p] # after[p]})

\* state_diff: the leaves of after that are new or changed.  A mapping that
\* became empty has no changed child, so it is not reported.
StateDiff(before, after) ==
    Restrict(after,
        {p \in DOMAIN after :
            /\ ~(p \in DOMAIN before /\ before[p] = after[p])
            /\ ~(after[p] = Empty /\ IsMapping(before, p))})

-------------------------------------------------------------------------------
(* The input schema a strict node is registered with.                      *)

\* Mutant: the private inputs are left out.
PublicSchema(c) == IF c.inputs = None THEN None ELSE {a[1] : a \in c.inputs}

\* None when a policy is open; otherwise the first parts of its paths.
InputSchema(c) ==
    IF None \in ExecutionInputPolicies(c)
    THEN None
    ELSE {a[1] : a \in c.inputs \cup c.privateInputs}

\* The state LangGraph hands to a node registered with that schema.
Narrow(schema, t) ==
    IF schema = None THEN t ELSE Restrict(t, {p \in DOMAIN t : p[1] \in schema})
===============================================================================
