----------------------------- MODULE TracePayload -----------------------------
(***************************************************************************)
(* The payload policy of spans and callbacks (payloads.py): what is left   *)
(* of a value when it is put on a span in one of the trace payload modes.  *)
(*                                                                         *)
(* A value is a record with a kind: "text" with a length, "number",        *)
(* "object" (anything JSON cannot represent), "list" and "mapping" with    *)
(* entries, and "message object" with a content (a LangChain message).     *)
(* A summary keeps types, sizes and keys only; a cut text is as long as    *)
(* what is left of it, its suffix aside.                                   *)
(***************************************************************************)
EXTENDS Integers, Sequences, SequencesExt

CONSTANTS ContentLimit,  \* _DEFAULT_CONTENT_LIMIT
          Given          \* the values payloads are made of

PayloadMode == {"message_compact", "compact", "full"}

IsMapping(v) == v.kind = "mapping"

\* _is_message.
IsMessage(v) ==
    \/ v.kind = "message object"
    \/ IsMapping(v) /\ "content" \in DOMAIN v.entries /\ DOMAIN v.entries \cap {"role", "type"} # {}

Content(v) == IF IsMapping(v) THEN v.entries["content"] ELSE v.content

\* Only text is cut.
Truncate(v) ==
    IF v.kind = "text" /\ v.length > ContentLimit THEN [v EXCEPT !.length = ContentLimit] ELSE v

\* The role is the message's type or role, as text.
Role == [kind |-> "role"]

\* shape_summary.
Summary == [kind |-> "summary"]

\* Mutant: the other fields of a message are kept.
CutMessage(v) ==
    IF IsMapping(v) THEN [v EXCEPT !.entries["content"] = Truncate(@)]
    ELSE [v EXCEPT !.content = Truncate(@)]

\* _compact_message.
CompactMessage(v) ==
    [kind |-> "mapping",
     entries |-> [k \in {"role", "content"} |-> IF k = "role" THEN Role ELSE Truncate(Content(v))]]

\* message_compact_summary.
RECURSIVE MessageCompact(_)
MessageCompact(v) ==
    IF IsMessage(v) THEN CompactMessage(v)
    ELSE IF v.kind \in {"list", "mapping"}
    THEN [v EXCEPT !.entries = [k \in DOMAIN v.entries |-> MessageCompact(v.entries[k])]]
    ELSE Summary

\* prepare_trace_payload.
Prepare(v, mode) ==
    CASE mode = "message_compact" -> MessageCompact(v)
      [] mode = "compact" -> Summary
      [] mode = "full" -> v

\* The parts of a container, by key or index.
Below(v) == IF v.kind \in {"list", "mapping"} THEN v.entries ELSE [k \in {} |-> Summary]

\* json.dumps: a value that holds an object anywhere cannot be dumped.
RECURSIVE Dumps(_)
Dumps(v) ==
    /\ v.kind \notin {"object", "message object"}
    /\ \A i \in DOMAIN Below(v) : Dumps(Below(v)[i])

-------------------------------------------------------------------------------

VARIABLES payload,   \* the value that is recorded
          mode,      \* TracePayloadMode
          prepared,  \* what is left of it
          raised     \* serialize_trace_payload raised

payloadVars == <<payload, mode, prepared, raised>>

NotPrepared == [kind |-> "none"]

NoPayload == payload = NotPrepared /\ mode = "full" /\ prepared = NotPrepared /\ raised = FALSE

PayloadInit ==
    /\ payload \in Given /\ mode \in PayloadMode
    /\ prepared = NotPrepared /\ raised = FALSE

Serialize ==
    /\ payload # NotPrepared /\ prepared = NotPrepared
    /\ prepared' = Prepare(payload, mode)
    /\ raised' = ~Dumps(prepared')
    /\ UNCHANGED <<payload, mode>>

-------------------------------------------------------------------------------
(* Properties.                                                             *)

\* The value at a place, a sequence of keys and indices; none where there is none.
RECURSIVE At(_, _)
At(v, place) ==
    IF place = <<>> THEN {v}
    ELSE IF Head(place) \in DOMAIN Below(v) THEN At(Below(v)[Head(place)], Tail(place))
    ELSE {}

\* The places of a value, itself included.
RECURSIVE Places(_)
Places(v) ==
    {<<>>} \cup UNION {{<<k>> \o place : place \in Places(Below(v)[k])} : k \in DOMAIN Below(v)}

\* The messages found through lists and mappings, outside of other messages.
OuterMessages(v) ==
    LET isMessage(place) == \E x \in At(v, place) : IsMessage(x)
    IN  {place \in Places(v) :
            isMessage(place) /\ \A n \in 0..Len(place) - 1 : ~isMessage(SubSeq(place, 1, n))}

\* The places that show a value itself.
Shown(v) ==
    {place \in Places(v) : \E x \in At(v, place) :
        x.kind \in {"text", "number", "object", "message object"}}

\* In the default mode what is shown of a payload, its keys, sizes and types aside,
\* is the content of its messages, cut at the limit if it is text and in full if it
\* is not; and only content of another kind than text can make the serialization
\* fail.  A structural summary shows nothing and never fails.
OnlyMessageContentIsShown ==
    prepared # NotPrepared /\ mode # "full" =>
        LET messages == IF mode = "compact" THEN {} ELSE OuterMessages(payload)
            content(m) == Content(CHOOSE x \in At(payload, m) : TRUE)
        IN  /\ \A place \in Shown(prepared) : \E m \in messages :
                /\ IsPrefix(Append(m, "content"), place)
                /\ LET inside == SubSeq(place, Len(m) + 2, Len(place))
                   IN  At(prepared, place) =
                        IF inside = <<>> THEN {Truncate(content(m))} ELSE At(content(m), inside)
            /\ \A place \in Shown(prepared) : \A x \in At(prepared, place) :
                x.kind = "text" /\ x.length > ContentLimit =>
                    \E m \in messages : IsStrictPrefix(Append(m, "content"), place)
            /\ raised <=> \E m \in messages : content(m).kind # "text" /\ ~Dumps(content(m))
===============================================================================
