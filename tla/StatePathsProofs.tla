--------------------------- MODULE StatePathsProofs ---------------------------
(***************************************************************************)
(* Facts about the path algebra, for every state, contract and policy.     *)
(***************************************************************************)
EXTENDS StatePaths, TLAPS

-------------------------------------------------------------------------------
(* Prefixes.                                                               *)

\* is_prefix is transitive.
LEMMA PrefixTransitive ==
    ASSUME NEW p \in Seq(Key), NEW q \in Seq(Key), NEW s \in Seq(Key),
           IsPrefix(p, q), IsPrefix(q, s)
    PROVE  IsPrefix(p, s)
  BY DEF IsPrefix

\* Two paths above one path lie above one another.
LEMMA PrefixesOverlap ==
    ASSUME NEW p \in Seq(Key), NEW q \in Seq(Key), NEW s \in Seq(Key),
           IsPrefix(p, s), IsPrefix(q, s)
    PROVE  PathsOverlap(p, q)
  BY DEF IsPrefix, PathsOverlap

\* A path starts with the same key as every path above it.
LEMMA PrefixHead ==
    ASSUME NEW p \in Path, NEW q \in Seq(Key), IsPrefix(p, q)
    PROVE  q \in Path /\ p[1] = q[1]
  BY DEF IsPrefix, Path

-------------------------------------------------------------------------------
(* Projection and merge.                                                   *)

\* Projecting a state gives a state: nothing is torn below a leaf.
LEMMA ProjectIsTree ==
    ASSUME NEW t, NEW policy, IsTree(t)
    PROVE  /\ IsTree(Project(policy, t))
           /\ DOMAIN Project(policy, t) = {p \in DOMAIN t : Covers(policy, p)}
           /\ \A p \in DOMAIN Project(policy, t) : Project(policy, t)[p] = t[p]
  BY DEF IsTree, Project, Restrict

\* A projection holds covered paths only: the public payload carries no others.
LEMMA ProjectIsCovered ==
    ASSUME NEW t, NEW policy, IsTree(t), NEW p \in DOMAIN Project(policy, t)
    PROVE  Covers(policy, p)
  BY DEF IsTree, Project, Restrict

\* What the node is given under strict execution: the leaves of the state that
\* a public or a private read covers, with the values of the state.
LEMMA ExecutionInput ==
    ASSUME NEW t, NEW c, IsTree(t)
    PROVE  LET input == BuildExecutionInput(c, t)
           IN  /\ IsTree(input)
               /\ DOMAIN input =
                    {p \in DOMAIN t : Covers(c.inputs, p) \/ Covers(c.privateInputs, p)}
               /\ \A p \in DOMAIN input : input[p] = t[p]
  <1> DEFINE public == Project(c.inputs, t)
             private == Project(c.privateInputs, t)
             input == BuildExecutionInput(c, t)
  <1>1. /\ DOMAIN public = {p \in DOMAIN t : Covers(c.inputs, p)}
        /\ \A p \in DOMAIN public : public[p] = t[p]
    BY ProjectIsTree
  <1>2. /\ DOMAIN private = {p \in DOMAIN t : Covers(c.privateInputs, p)}
        /\ \A p \in DOMAIN private : private[p] = t[p]
    BY ProjectIsTree
  <1>3. input = [p \in DOMAIN public \cup DOMAIN private |->
                    IF p \in DOMAIN private THEN private[p] ELSE public[p]]
    BY DEF BuildExecutionInput, Merge
  <1> HIDE DEF public, private, input
  <1>4. DOMAIN input = {p \in DOMAIN t : Covers(c.inputs, p) \/ Covers(c.privateInputs, p)}
    BY <1>1, <1>2, <1>3
  <1>5. \A p \in DOMAIN input : input[p] = t[p]
    BY <1>1, <1>2, <1>3
  <1>6. IsTree(input)
    BY <1>3, <1>4, <1>5 DEF IsTree
  <1> QED
    BY <1>4, <1>5, <1>6 DEF input

\* Projection and audit agree: whatever strict execution lets the node find is
\* a read the audit allows.
THEOREM GivenIsAllowed ==
    ASSUME NEW t, NEW c \in ContractType, IsTree(t), NEW p \in Path,
           Has(BuildExecutionInput(c, t), p)
    PROVE  ReadAllowed(c, p)
  <1>1. PICK q \in DOMAIN t :
            /\ Covers(c.inputs, q) \/ Covers(c.privateInputs, q)
            /\ IsPrefix(p, q)
    BY ExecutionInput DEF Has
  <1>2. q \in Seq(Key) /\ p \in Seq(Key)
    BY <1>1 DEF IsTree, Path
  <1>3. ASSUME NEW policy \in Policy, Covers(policy, q)
        PROVE  PolicyAllowsRead(p, policy)
    <2>1. CASE policy = None
      BY <2>1 DEF PolicyAllowsRead
    <2>2. CASE policy # None
      <3>1. policy \subseteq Seq(Key)
        BY <2>2 DEF Policy, Path
      <3>2. PICK a \in policy : IsPrefix(a, q)
        BY <1>3, <2>2 DEF Covers
      <3>3. PathsOverlap(a, p)
        BY <1>1, <1>2, <3>1, <3>2, PrefixesOverlap
      <3> QED
        BY <3>3 DEF PolicyAllowsRead
    <2> QED
      BY <2>1, <2>2
  <1>4. c.inputs \in Policy /\ c.privateInputs \in Policy
    BY DEF ContractType
  <1> QED
    BY <1>1, <1>3, <1>4 DEF ReadAllowed, ExecutionInputPolicies

\* Strict projection takes nothing away that a contract grants: at and below a
\* path that a read policy covers, the execution input is the state.
THEOREM DeclaredIsGiven ==
    ASSUME NEW t, NEW c \in ContractType, IsTree(t), NEW p \in Path,
           NEW policy \in ExecutionInputPolicies(c), Covers(policy, p)
    PROVE  LET input == BuildExecutionInput(c, t)
           IN  /\ Has(input, p) <=> Has(t, p)
               /\ \A q \in DOMAIN t : IsPrefix(p, q) => q \in DOMAIN input /\ input[q] = t[q]
  <1> DEFINE input == BuildExecutionInput(c, t)
  <1>1. /\ DOMAIN input = {q \in DOMAIN t : Covers(c.inputs, q) \/ Covers(c.privateInputs, q)}
        /\ \A q \in DOMAIN input : input[q] = t[q]
    BY ExecutionInput
  <1> HIDE DEF input
  <1>2. ASSUME NEW q \in DOMAIN t, IsPrefix(p, q)
        PROVE  Covers(policy, q)
    <2>1. CASE policy = None
      BY <2>1 DEF Covers
    <2>2. CASE policy # None
      <3>1. policy \subseteq Seq(Key)
        BY <2>2 DEF ExecutionInputPolicies, ContractType, Policy, Path
      <3>2. PICK a \in policy : IsPrefix(a, p)
        BY <2>2 DEF Covers
      <3>3. p \in Seq(Key) /\ q \in Seq(Key)
        BY DEF IsTree, Path
      <3>4. IsPrefix(a, q)
        BY <1>2, <3>1, <3>2, <3>3, PrefixTransitive
      <3> QED
        BY <3>4 DEF Covers
    <2> QED
      BY <2>1, <2>2
  <1>3. \A q \in DOMAIN t : IsPrefix(p, q) => q \in DOMAIN input
    BY <1>1, <1>2 DEF ExecutionInputPolicies
  <1>4. Has(input, p) <=> Has(t, p)
    BY <1>1, <1>3 DEF Has
  <1> QED
    BY <1>1, <1>3, <1>4 DEF input

\* Registering a strict node with its narrowed schema takes nothing away: the
\* execution input built from the narrowed state is the one built from all of it.
THEOREM NarrowingKeepsExecutionInput ==
    ASSUME NEW t, NEW c \in ContractType, IsTree(t)
    PROVE  BuildExecutionInput(c, Narrow(InputSchema(c), t)) = BuildExecutionInput(c, t)
  <1> DEFINE schema == InputSchema(c)
             narrow == Narrow(schema, t)
             covered(p) == Covers(c.inputs, p) \/ Covers(c.privateInputs, p)
  <1>1. CASE schema = None
    BY <1>1 DEF Narrow
  <1>2. CASE schema # None
    <2>1. /\ schema = {a[1] : a \in c.inputs \cup c.privateInputs}
          /\ c.inputs \in SUBSET Path /\ c.privateInputs \in SUBSET Path
          /\ c.inputs # None /\ c.privateInputs # None
      BY <1>2 DEF InputSchema, ExecutionInputPolicies, ContractType, Policy
    <2>2. /\ IsTree(narrow)
          /\ DOMAIN narrow = {p \in DOMAIN t : p[1] \in schema}
          /\ \A p \in DOMAIN narrow : narrow[p] = t[p]
      BY <1>2 DEF Narrow, Restrict, IsTree
    <2>3. \A p \in DOMAIN t : covered(p) => p[1] \in schema
      <3> SUFFICES ASSUME NEW p \in DOMAIN t, covered(p)
                   PROVE  p[1] \in schema
        OBVIOUS
      <3>1. PICK a \in c.inputs \cup c.privateInputs : IsPrefix(a, p)
        BY <2>1 DEF Covers
      <3>2. a \in Path /\ p \in Seq(Key)
        BY <2>1, <3>1 DEF IsTree, Path
      <3>3. p[1] = a[1]
        BY <3>1, <3>2, PrefixHead
      <3> QED
        BY <2>1, <3>1, <3>3
    <2>4. DOMAIN BuildExecutionInput(c, narrow) = {p \in DOMAIN narrow : covered(p)}
      BY <2>2, ExecutionInput
    <2>5. DOMAIN BuildExecutionInput(c, t) = {p \in DOMAIN t : covered(p)}
      BY ExecutionInput
    <2>6. DOMAIN BuildExecutionInput(c, narrow) = DOMAIN BuildExecutionInput(c, t)
      BY <2>2, <2>3, <2>4, <2>5
    <2>7. \A p \in DOMAIN BuildExecutionInput(c, t) :
            BuildExecutionInput(c, narrow)[p] = BuildExecutionInput(c, t)[p]
      <3>1. \A p \in DOMAIN BuildExecutionInput(c, t) : BuildExecutionInput(c, t)[p] = t[p]
        BY ExecutionInput
      <3>2. \A p \in DOMAIN BuildExecutionInput(c, narrow) :
                BuildExecutionInput(c, narrow)[p] = narrow[p]
        BY <2>2, ExecutionInput
      <3> HIDE DEF narrow
      <3>3. \A p \in DOMAIN BuildExecutionInput(c, narrow) : p \in DOMAIN narrow
        BY <2>4
      <3> QED
        BY <2>2, <2>6, <3>1, <3>2, <3>3
    <2>8. /\ IsTree(BuildExecutionInput(c, narrow))
          /\ IsTree(BuildExecutionInput(c, t))
      BY <2>2, ExecutionInput
    <2> QED
      BY <2>6, <2>7, <2>8 DEF IsTree
  <1> QED
    BY <1>1, <1>2

\* Nor does it take anything from the public or the private projection.
LEMMA NarrowingKeepsProjection ==
    ASSUME NEW t, NEW c \in ContractType, IsTree(t), NEW policy \in ExecutionInputPolicies(c)
    PROVE  /\ IsTree(Narrow(InputSchema(c), t))
           /\ Project(policy, Narrow(InputSchema(c), t)) = Project(policy, t)
  <1> DEFINE schema == InputSchema(c)
             narrow == Narrow(schema, t)
  <1>1. CASE schema = None
    BY <1>1 DEF Narrow
  <1>2. CASE schema # None
    <2>1. /\ schema = {a[1] : a \in c.inputs \cup c.privateInputs}
          /\ policy \in SUBSET Path /\ policy \subseteq c.inputs \cup c.privateInputs
          /\ policy # None
      BY <1>2 DEF InputSchema, ExecutionInputPolicies, ContractType, Policy
    <2> HIDE DEF schema
    <2>2. /\ IsTree(narrow)
          /\ DOMAIN narrow = {p \in DOMAIN t : p[1] \in schema}
          /\ \A p \in DOMAIN narrow : narrow[p] = t[p]
      BY <1>2 DEF Narrow, Restrict, IsTree
    <2>3. \A p \in DOMAIN t : Covers(policy, p) => p[1] \in schema
      <3> SUFFICES ASSUME NEW p \in DOMAIN t, Covers(policy, p)
                   PROVE  p[1] \in schema
        OBVIOUS
      <3>1. PICK a \in policy : IsPrefix(a, p)
        BY <2>1 DEF Covers
      <3>2. a \in Path /\ p \in Seq(Key)
        BY <2>1, <3>1 DEF IsTree, Path
      <3>3. p[1] = a[1]
        BY <3>1, <3>2, PrefixHead
      <3> QED
        BY <2>1, <3>1, <3>3
    <2> HIDE DEF narrow
    <2>4. {p \in DOMAIN narrow : Covers(policy, p)} = {p \in DOMAIN t : Covers(policy, p)}
      BY <2>2, <2>3
    <2>5. \A p \in {q \in DOMAIN t : Covers(policy, q)} : narrow[p] = t[p]
      BY <2>2, <2>3
    <2>6. Project(policy, narrow) = Project(policy, t)
      BY <2>4, <2>5 DEF Project, Restrict
    <2> QED
      BY <2>2, <2>6 DEF narrow, schema
  <1> QED
    BY <1>1, <1>2

\* A part of a state is a state.
LEMMA PartIsTree ==
    ASSUME NEW t, IsTree(t), NEW S \in SUBSET DOMAIN t
    PROVE  /\ IsTree(Restrict(t, S))
           /\ DOMAIN Restrict(t, S) = S
           /\ \A p \in S : Restrict(t, S)[p] = t[p]
  BY DEF IsTree, Restrict

\* A difference of states is the part of the later one that is new or changed.
LEMMA StateDiffIsTree ==
    ASSUME NEW before, NEW after, IsTree(after)
    PROVE  /\ IsTree(StateDiff(before, after))
           /\ \A p : p \in DOMAIN StateDiff(before, after) <=>
                    /\ p \in DOMAIN after
                    /\ ~(p \in DOMAIN before /\ before[p] = after[p])
                    /\ ~(after[p] = Empty /\ IsMapping(before, p))
           /\ \A p \in DOMAIN StateDiff(before, after) : StateDiff(before, after)[p] = after[p]
  <1> DEFINE S == {p \in DOMAIN after :
                    /\ ~(p \in DOMAIN before /\ before[p] = after[p])
                    /\ ~(after[p] = Empty /\ IsMapping(before, p))}
  <1>1. StateDiff(before, after) = Restrict(after, S)
    BY DEF StateDiff
  <1>2. S \in SUBSET DOMAIN after
    OBVIOUS
  <1> HIDE DEF S
  <1>3. /\ IsTree(StateDiff(before, after)) /\ DOMAIN StateDiff(before, after) = S
        /\ \A p \in S : StateDiff(before, after)[p] = after[p]
    BY <1>1, <1>2, PartIsTree
  <1> QED
    BY <1>3 DEF S

\* Replacing top-level values gives a state: the leaves that are kept and those
\* that are new differ in their first key.
LEMMA OverwriteIsTree ==
    ASSUME NEW t, NEW update, IsTree(t), IsTree(update)
    PROVE  /\ IsTree(Overwrite(t, update))
           /\ \A p : p \in DOMAIN Overwrite(t, update) <=>
                    \/ p \in DOMAIN update
                    \/ p \in DOMAIN t /\ \A q \in DOMAIN update : p[1] # q[1]
           /\ \A p \in DOMAIN Overwrite(t, update) :
                Overwrite(t, update)[p] = IF p \in DOMAIN update THEN update[p] ELSE t[p]
  <1> DEFINE kept == {p \in DOMAIN t : \A q \in DOMAIN update : p[1] # q[1]}
             new == Overwrite(t, update)
  <1>1. new = [p \in kept \cup DOMAIN update |-> IF p \in DOMAIN update THEN update[p] ELSE t[p]]
    BY DEF Overwrite
  <1>2. /\ DOMAIN new = kept \cup DOMAIN update
        /\ \A p \in DOMAIN new : new[p] = IF p \in DOMAIN update THEN update[p] ELSE t[p]
        /\ new = [p \in DOMAIN new |-> new[p]]
    BY <1>1
  <1>3. kept \subseteq DOMAIN t
    OBVIOUS
  <1>4. DOMAIN t \subseteq Path /\ DOMAIN update \subseteq Path
    BY DEF IsTree
  <1>5. ASSUME NEW p \in DOMAIN new, NEW q \in DOMAIN new, IsPrefix(p, q)
        PROVE  p = q
    <2>1. p \in Path /\ q \in Path /\ q \in Seq(Key) /\ p \in Seq(Key)
      BY <1>2, <1>3, <1>4 DEF Path
    <2>2. p[1] = q[1]
      BY <1>5, <2>1, PrefixHead
    <2>3. (p \in kept /\ q \in kept) \/ (p \in DOMAIN update /\ q \in DOMAIN update)
      BY <1>2, <2>2
    <2> QED
      BY <1>3, <1>5, <2>3 DEF IsTree
  <1>6. \A p \in DOMAIN new : new[p] \in Value \cup {Empty}
    BY <1>2, <1>3 DEF IsTree
  <1> HIDE DEF new, kept
  <1>7. IsTree(new)
    BY <1>2, <1>3, <1>4, <1>5, <1>6 DEF IsTree
  <1> QED
    BY <1>2, <1>7 DEF new, kept

\* The nested keys of a mapping are paths.
LEMMA ChildrenArePaths ==
    ASSUME NEW t, IsTree(t), NEW p \in Path \cup {<<>>}
    PROVE  Children(t, p) \subseteq Path
  <1> SUFFICES ASSUME NEW q \in DOMAIN t, IsStrictPrefix(p, q)
               PROVE  SubSeq(q, 1, Len(p) + 1) \in Path
    BY DEF Children
  <1>1. q \in Seq(Key)
    BY DEF IsTree, Path
  <1>2. p \in Seq(Key)
    <2>1. CASE p \in Path
      BY <2>1 DEF Path
    <2>2. CASE p = <<>>
      BY <2>2
    <2> QED
      BY <2>1, <2>2
  <1>3. Len(p) < Len(q)
    BY <1>1, <1>2 DEF IsStrictPrefix, IsPrefix
  <1>4. /\ SubSeq(q, 1, Len(p) + 1) \in Seq(Key)
        /\ Len(SubSeq(q, 1, Len(p) + 1)) = Len(p) + 1
        /\ Len(p) \in Nat
    BY <1>1, <1>2, <1>3
  <1>5. \A s \in Seq(Key) : Len(s) > 0 => s \in Path
    BY DEF Path
  <1>6. Len(p) + 1 > 0
    BY <1>4
  <1> QED
    BY <1>4, <1>5, <1>6

===============================================================================
