---------------------------- MODULE SpanAttributes ----------------------------
(***************************************************************************)
(* The attributes of a span (tracing.py): set_span_attributes flattens a   *)
(* nested mapping lazily, joining keys with dots, and sets one attribute   *)
(* after the other on the span.                                            *)
(*                                                                         *)
(* A mapping is a sequence of entries, since the code goes through it in   *)
(* order; a key is the sequence of its characters.  Its values are records *)
(* with a kind: "scalar", "none", "object" (an unsupported value), "list"  *)
(* with the types of its items, and "mapping" with entries.                *)
(***************************************************************************)
EXTENDS Integers, Sequences, SequencesExt

CONSTANT Attributes  \* the mappings that are set

LOCAL Text == INSTANCE PathText WITH
    KeyText <- {}, MaxPathLength <- 0, readPath <- <<>>, judged <- <<>>

IsBlank(key) == Text!Strip(key) = <<>>

\* Mutant: a nested key stands for itself.
LastKey(raw, prefix) == raw

\* _attribute_key.
AttributeKey(raw, prefix) == IF prefix = <<>> THEN raw ELSE prefix \o <<Text!Dot>> \o raw

Primitive == {"str", "bool", "int", "float"}

\* _require_attribute_value accepts it: a list has items of one primitive type.
IsSupported(v) ==
    \/ v.kind = "scalar"
    \/ v.kind = "list" /\ \E type \in Primitive : Range(v.types) \subseteq {type}

\* set_span_attributes and _flatten_attributes: nothing follows a blank key, and
\* values that are None or not supported are skipped.
RECURSIVE SetAll(_, _, _)
SetAll(result, entries, prefix) ==
    FoldLeft(LAMBDA r, entry :
            LET key == AttributeKey(entry.key, prefix)
            IN  IF r.refused THEN r
                ELSE IF IsBlank(key) THEN [r EXCEPT !.refused = TRUE]
                ELSE IF entry.value.kind = "mapping" THEN SetAll(r, entry.value.entries, key)
                ELSE IF IsSupported(entry.value)
                THEN [r EXCEPT !.set = [k \in DOMAIN @ \cup {key} |->
                                            IF k = key THEN entry.value ELSE @[k]]]
                ELSE r,
        result, entries)

-------------------------------------------------------------------------------

VARIABLES attributes,  \* the mapping
          onSpan       \* the attributes on the span, and whether ValueError was raised

NotSet == [refused |-> FALSE, set |-> [k \in {} |-> <<>>]]

NoAttributes == attributes = <<>> /\ onSpan = NotSet

AttributesInit == attributes \in Attributes /\ onSpan = NotSet

SetSpanAttributes ==
    /\ attributes # <<>> /\ onSpan = NotSet
    /\ onSpan' = SetAll(NotSet, attributes, <<>>)
    /\ UNCHANGED attributes

-------------------------------------------------------------------------------
(* Properties.                                                             *)

\* The values in a mapping that are no mappings, each with the keys that lead to
\* it, in order.
RECURSIVE LeafEntries(_)
LeafEntries(entries) ==
    FlattenSeq([i \in DOMAIN entries |->
        LET v == entries[i].value
        IN  IF v.kind # "mapping" THEN <<[keys |-> <<entries[i].key>>, value |-> v]>>
            ELSE LET below == LeafEntries(v.entries)
                 IN  [j \in DOMAIN below |-> [below[j] EXCEPT !.keys = <<entries[i].key>> \o @]]])

\* The entries before the first blank key.
Heard(entries) ==
    LET blank == SelectInSeq(entries, LAMBDA entry : IsBlank(entry.key))
    IN  IF blank = 0 THEN entries ELSE SubSeq(entries, 1, blank - 1)

\* A span has one attribute for each dotted name of a supported value, and of
\* several values with one name it has the last.  Only a blank key at the top is
\* refused; the attributes before it stay, those after it are missing, and a blank
\* key further down makes a name that ends with a dot.
LastValueOfEachName ==
    onSpan # NotSet =>
        LET leaves == SelectSeq(LeafEntries(Heard(attributes)), LAMBDA leaf : IsSupported(leaf.value))
            name(i) == Text!JoinPath(leaves[i].keys)
            last(i) == \A j \in i + 1..Len(leaves) : name(j) # name(i)
        IN  /\ onSpan.refused <=> \E i \in DOMAIN attributes : IsBlank(attributes[i].key)
            /\ DOMAIN onSpan.set = {name(i) : i \in DOMAIN leaves}
            /\ \A i \in DOMAIN leaves : last(i) => onSpan.set[name(i)] = leaves[i].value
===============================================================================
