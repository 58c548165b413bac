---------------------------- MODULE MCPureFunctions ----------------------------
(***************************************************************************)
(* Finite instances of the pure functions: StateTrees, PathText,           *)
(* TracePayload and SpanAttributes, side by side in one state space.       *)
(***************************************************************************)
EXTENDS StateTrees

VARIABLES readPath, judged, payload, mode, prepared, raised, attributes, onSpan

(* StateTrees: every mapping of two keys and depth two, with mutable nested*)
(* mappings or readPath-only ones, and every include of at most two of four    *)
(* paths, in either order.                                                 *)

MCCompared == (Maps(2) \X Maps(2)) \cup {<<ReadOnlyBelow(x), ReadOnlyBelow(x)>> : x \in Maps(2)}

Included == {<<"a">>, <<"b">>, <<"a", "a">>, <<"a", "b">>}

MCInclude == {None, <<>>} \cup {<<p>> : p \in Included} \cup {<<p, q>> : p, q \in Included}

NoTrees ==
    /\ before = EmptyMap /\ after = EmptyMap /\ public = <<>> /\ private = <<>>
    /\ done = FALSE /\ runInput = EmptyMap /\ diff = EmptyMap /\ paths = {}

(* PathText: every key of at most three characters, blank or not.          *)

MCKeyText == UNION {[1..n -> {"x", ".", " "}] : n \in 0..3}

Text == INSTANCE PathText WITH KeyText <- MCKeyText, MaxPathLength <- 2

(* TracePayload: mappings and lists of messages, and of what looks like one*)
(* or holds one.                                                           *)

Short == [kind |-> "text", length |-> 1]
Long == [kind |-> "text", length |-> 3]
Number == [kind |-> "number"]
Object == [kind |-> "object"]

List(f) == [kind |-> "list", entries |-> f]
Mapping(f) == [kind |-> "mapping", entries |-> f]

Contents == {Short, Long, Number, Object, List("0" :> Long), List("0" :> Object)}

Messages ==
    {Mapping("role" :> Short @@ "content" :> c) : c \in Contents}
    \cup {Mapping("type" :> Short @@ "content" :> c @@ "tool_calls" :> Object) : c \in Contents}
    \cup {[kind |-> "message object", content |-> c] : c \in Contents}

NearMessages == {Mapping("content" :> Long), Mapping("type" :> Object @@ "size" :> Number)}

Items == Messages \cup NearMessages \cup Contents

\* A message whose content holds another message.
Quoting == Mapping("role" :> Short @@ "content" :> List("0" :> Mapping("role" :> Short @@ "content" :> Long)))

MCGiven ==
    Items \cup {Quoting}
    \cup {Mapping("messages" :> List("0" :> x @@ "1" :> y)) : x, y \in Items}
    \cup {Mapping("request" :> Mapping("text" :> x) @@ "answer" :> Quoting) : x \in Items}

Trace == INSTANCE TracePayload WITH ContentLimit <- 2, Given <- MCGiven

(* SpanAttributes: mappings of two entries and depth two whose names may   *)
(* meet, and lists of every mixture of types.                              *)

Entries(keys, values) ==
    {<<>>} \cup [1..1 -> [key : keys, value : values]]
    \cup {<<[key |-> k[1], value |-> v[1]], [key |-> k[2], value |-> v[2]]>> :
            k \in {pair \in keys \X keys : pair[1] # pair[2]}, v \in values \X values}

Scalar(v) == [kind |-> "scalar", value |-> v]

NestedMappings ==
    [kind : {"mapping"},
     entries : Entries({<<>>, <<"x">>}, {Scalar("v"), [kind |-> "none"]})]

TypedLists ==
    [kind : {"list"},
     types : UNION {[1..n -> {"str", "bool", "int", "NoneType"}] : n \in 0..2}]

MCAttributes ==
    Entries({<<>>, <<" ">>, <<"x">>, <<"x", ".", "x">>},
            NestedMappings \cup {Scalar("w"), [kind |-> "none"], [kind |-> "object"]})
    \cup Entries({<<"x">>}, TypedLists)

Attr == INSTANCE SpanAttributes WITH Attributes <- MCAttributes

-------------------------------------------------------------------------------

pathVars == <<readPath, judged>>

payloadVars == <<payload, mode, prepared, raised>>

attributeVars == <<attributes, onSpan>>

MCInit ==
    \/ Init /\ Text!NoRead /\ Trace!NoPayload /\ Attr!NoAttributes
    \/ NoTrees /\ Text!PathInit /\ Trace!NoPayload /\ Attr!NoAttributes
    \/ NoTrees /\ Text!NoRead /\ Trace!PayloadInit /\ Attr!NoAttributes
    \/ NoTrees /\ Text!NoRead /\ Trace!NoPayload /\ Attr!AttributesInit

MCFinished ==
    /\ done \/ judged # Text!NotJudged \/ prepared # Trace!NotPrepared \/ onSpan # Attr!NotSet
    /\ UNCHANGED <<vars, pathVars, payloadVars, attributeVars>>

MCNext ==
    \/ /\ Text!NoRead /\ Trace!NoPayload /\ Attr!NoAttributes /\ Compute
       /\ UNCHANGED <<pathVars, payloadVars, attributeVars>>
    \/ Text!Judge /\ UNCHANGED <<vars, payloadVars, attributeVars>>
    \/ Trace!Serialize /\ UNCHANGED <<vars, pathVars, attributeVars>>
    \/ Attr!SetSpanAttributes /\ UNCHANGED <<vars, pathVars, payloadVars>>
    \/ MCFinished

MCSpec == MCInit /\ [][MCNext]_<<vars, pathVars, payloadVars, attributeVars>>

OnlyPlainKeysAreJudgedAsRead == Text!OnlyPlainKeysAreJudgedAsRead

OnlyMessageContentIsShown == Trace!OnlyMessageContentIsShown

LastValueOfEachName == Attr!LastValueOfEachName
===============================================================================
