------------------------------ MODULE StateTrees ------------------------------
(***************************************************************************)
(* The recursive functions over nested mappings (state/paths.py,           *)
(* contracts/projection.py, langgraph/execution.py) as they are written,   *)
(* compared with the definitions over leaves in StatePaths, which the      *)
(* other modules use.                                                      *)
(*                                                                         *)
(* A value is a record: [leaf |-> v], or [map |-> f, mutable |-> b] with f *)
(* from keys to values; a mapping that is not mutable (a MappingProxyType) *)
(* is a Mapping but no MutableMapping, and equal to one that is.  An       *)
(* include is a sequence, since the code goes through it in order.         *)
(***************************************************************************)
EXTENDS StatePaths, TLC

CONSTANTS Include,  \* the includes of projection policies: sequences, or None
          Compared  \* pairs of mappings that are compared

IsMap(x) == "map" \in DOMAIN x

IsMutable(x) == IsMap(x) /\ x.mutable

Dict(f) == [map |-> f, mutable |-> TRUE]

EmptyMap == Dict([k \in {} |-> Empty])

IsEmpty(x) == IsMap(x) /\ DOMAIN x.map = {}

\* The mapping x with the value v at the key k.
With(x, k, v) == Dict(k :> v @@ x.map)

\* The mappings of the given depth, and the values in them.
RECURSIVE Maps(_)
Maps(depth) ==
    LET values == [leaf : Value] \cup (IF depth > 1 THEN Maps(depth - 1) ELSE {})
    IN  {Dict(f) : f \in UNION {[keys -> values] : keys \in SUBSET Key}}

\* The mapping x with nested mappings that cannot be changed.
ReadOnlyBelow(x) ==
    Dict([k \in DOMAIN x.map |->
        IF IsMap(x.map[k]) THEN [x.map[k] EXCEPT !.mutable = FALSE] ELSE x.map[k]])

-------------------------------------------------------------------------------

NotFound == [found |-> FALSE]

Found(x) == [found |-> TRUE, value |-> x]

\* get_path.
RECURSIVE GetPath(_, _)
GetPath(x, p) ==
    IF p = <<>> THEN Found(x)
    ELSE IF IsMap(x) /\ Head(p) \in DOMAIN x.map THEN GetPath(x.map[Head(p)], Tail(p))
    ELSE NotFound

\* set_path: an intermediate value that is no mutable mapping gives way to an
\* empty one.
RECURSIVE SetPath(_, _, _)
SetPath(x, p, v) ==
    IF Len(p) = 1 THEN With(x, p[1], v)
    ELSE LET existing == IF Head(p) \in DOMAIN x.map /\ IsMutable(x.map[Head(p)])
                         THEN x.map[Head(p)] ELSE EmptyMap
         IN  With(x, Head(p), SetPath(existing, Tail(p), v))

\* Mutant: a path is set on a fresh mapping, whatever was projected before.
SetOnFresh(projected, x, p) ==
    LET read == GetPath(x, p)
    IN  IF read.found
        THEN With(projected, Head(p), SetPath(EmptyMap, p, read.value).map[Head(p)])
        ELSE projected

\* One round of the loop of project_state.
ProjectPath(projected, x, p) ==
    LET read == GetPath(x, p)
    IN  IF read.found THEN SetPath(projected, p, read.value) ELSE projected

\* project_state.
ProjectState(include, x) ==
    IF include = None THEN x
    ELSE FoldLeft(LAMBDA projected, p : ProjectPath(projected, x, p), EmptyMap, include)

\* _merge_mappings.
RECURSIVE MergeMappings(_, _)
MergeMappings(x, y) ==
    Dict([k \in DOMAIN x.map \cup DOMAIN y.map |->
        IF k \notin DOMAIN y.map THEN x.map[k]
        ELSE IF k \in DOMAIN x.map /\ IsMutable(x.map[k]) /\ IsMap(y.map[k])
        THEN MergeMappings(x.map[k], y.map[k])
        ELSE y.map[k]])

\* build_execution_input.
ExecutionInput(public, private, x) ==
    MergeMappings(MergeMappings(EmptyMap, ProjectState(public, x)), ProjectState(private, x))

\* Mutant: a nested mapping is reported whole when anything in it changed.
ShallowDiff(x, y) ==
    Dict(Restrict(y.map,
        {k \in DOMAIN y.map : k \notin DOMAIN x.map \/ x.map[k] # y.map[k]}))

\* state_diff and _diff_value: a value that did not change, and a mapping in
\* which nothing new was found, are left out.
RECURSIVE DiffMaps(_, _)
DiffMaps(x, y) ==
    LET nested(k) == k \in DOMAIN x.map /\ IsMap(x.map[k]) /\ IsMap(y.map[k])
        changed == {k \in DOMAIN y.map :
            /\ ~(k \in DOMAIN x.map /\ x.map[k] = y.map[k])
            /\ nested(k) => DiffMaps(x.map[k], y.map[k]) # EmptyMap}
    IN  Dict([k \in changed |->
            IF nested(k) THEN DiffMaps(x.map[k], y.map[k]) ELSE y.map[k]])

\* iter_update_paths.
RECURSIVE UpdatePaths(_, _)
UpdatePaths(x, prefix) ==
    UNION {LET v == x.map[k]
           IN  IF IsMap(v) /\ ~IsEmpty(v)
               THEN UpdatePaths(v, Append(prefix, k))
               ELSE {Append(prefix, k)}
           : k \in DOMAIN x.map}

\* The leaves of a mapping, by what get_path finds.
Leaves(x) ==
    LET paths == UNION {[1..n -> Key] : n \in 1..3}
        end(p) == LET read == GetPath(x, p)
                  IN  read.found /\ (IsMap(read.value) => IsEmpty(read.value))
    IN  [p \in {q \in paths : end(q)} |->
            LET v == GetPath(x, p).value IN IF IsMap(v) THEN Empty ELSE v.leaf]

\* The policy of an include.
PolicyOf(include) == IF include = None THEN None ELSE Range(include)

-------------------------------------------------------------------------------

VARIABLES before, after,    \* two states
          public, private,  \* the includes of a contract's input policies
          done,             \* the functions have been called
          runInput,         \* build_execution_input(contract, before)
          diff,             \* state_diff(before, after)
          paths             \* iter_update_paths(diff), what is validated

vars == <<before, after, public, private, done, runInput, diff, paths>>

Init ==
    /\ \E pair \in Compared : before = pair[1] /\ after = pair[2]
    /\ \/ public = <<>> /\ private = <<>>
       \/ before = after /\ public \in Include /\ private \in Include
    /\ done = FALSE
    /\ runInput = EmptyMap /\ diff = EmptyMap /\ paths = {}

Compute ==
    /\ ~done
    /\ done' = TRUE
    /\ runInput' = ExecutionInput(public, private, before)
    /\ diff' = DiffMaps(before, after)
    /\ paths' = UpdatePaths(diff', <<>>)
    /\ UNCHANGED <<before, after, public, private>>

Finished == done /\ UNCHANGED vars

Next == Compute \/ Finished

Spec == Init /\ [][Next]_vars

-------------------------------------------------------------------------------
(* Properties.                                                             *)

\* The order and the overlap of includes do not matter: building the execution
\* input path by path and merging the two projections gives exactly the leaves
\* that a policy covers.  The one exception: of a mapping that cannot be changed,
\* and that one include takes whole while another goes into it, declared leaves
\* may be lost.
InputIsCoveredLeaves ==
    done =>
        LET input == Leaves(runInput)
            covered == Merge(Project(PolicyOf(public), Leaves(before)),
                             Project(PolicyOf(private), Leaves(before)))
            includes == {PolicyOf(public), PolicyOf(private)}
            takenWhole(p) == \E policy \in includes : Covers(policy, p)
            goneInto(p) == \E policy \in includes \ {None} : \E a \in policy : IsStrictPrefix(p, a)
        IN  /\ DOMAIN input \subseteq DOMAIN covered
            /\ \A p \in DOMAIN input : input[p] = covered[p]
            /\ \A p \in DOMAIN covered \ DOMAIN input :
                \E n \in 1..Len(p) - 1 :
                    LET above == SubSeq(p, 1, n)
                    IN  /\ ~IsMutable(GetPath(before, above).value)
                        /\ takenWhole(above) /\ goneInto(above)

\* The nested difference tells the change, and all of it.  It has the leaves that
\* the flat one has; when it is validated as an update, these are judged: all that
\* changed, empty mappings included, and nothing else.  And merging it into the state
\* before restores everything there is after, unless a mapping was emptied.
DiffTellsTheChange ==
    done =>
        LET changed == StateDiff(Leaves(before), Leaves(after))
            restored(p) == GetPath(MergeMappings(before, diff), p)
        IN  /\ Leaves(diff) = changed /\ paths = DOMAIN changed
            /\ \A p \in DOMAIN Leaves(after) :
                \/ restored(p) = GetPath(after, p)
                \/ Leaves(after)[p] = Empty /\ restored(p).found /\ IsMap(restored(p).value)
===============================================================================
