----------------------------- MODULE CallbackTable -----------------------------
(***************************************************************************)
(* What both callbacks of graphobs promise of the events of a LangChain    *)
(* run, without payloads, metadata and times: GraphLogCallback             *)
(* (logging/callback.py) and ProjectedCallbackHandler                      *)
(* (langgraph/callbacks.py) keep an entry of each run that is going on,    *)
(* tell its start, and then its end or its error, to a logger or to the    *)
(* downstream callback.  Telling may raise.  GraphLog and                  *)
(* CallbackProjection implement this specification, and so does GraphRun   *)
(* with each of its callbacks.                                             *)
(***************************************************************************)
EXTENDS Integers, Sequences

CONSTANTS ChainRun,  \* LangChain run ids
          First      \* no other callback is asked before this one, which could
                     \* raise and keep an event from it

VARIABLES phase,  \* "new", "going", "failing" after an end that raised; "over" when
                  \* all went well, "broken" when its only or last event raised
          kept,   \* the runs an entry is kept of; never changes
          open,   \* the runs there is an entry of
          told    \* what was told of each run

tableVars == <<phase, kept, open, told>>

-------------------------------------------------------------------------------

TableInit ==
    /\ phase = [r \in ChainRun |-> "new"]
    /\ kept \subseteq ChainRun
    /\ open = {}
    /\ told = [r \in ChainRun |-> <<>>]

\* What is told of the last event of a run; that there is no entry of the run may be
\* told before.
Whole(r, kind) ==
    {<<kind>>} \cup IF r \in open THEN {} ELSE {<<"duration_missing", kind>>}

\* What is told of it when the telling raises before it is done.
Cut(r) == {<<>>} \cup IF r \in open THEN {} ELSE {<<"duration_missing">>}

Tell(r, part) == told' = [told EXCEPT ![r] = @ \o part]

Missed == UNCHANGED <<open, told>>

\* A run begins, or not at all: when its start cannot be told, or later when
\* another callback raises.  The first callback only misses a start that comes
\* before it is attached.
Begin(r) ==
    /\ phase[r] = "new" /\ phase'[r] \in {"going", "broken"}
    /\ phase' = [phase EXCEPT ![r] = phase'[r]]
    /\ \/ /\ open' = open \cup ({r} \cap kept)
          /\ \E part \in {<<>>, <<"start">>} :
                Tell(r, part) /\ (part = <<>> => phase'[r] = "broken")
       \/ Missed /\ phase'[r] = IF First THEN "going" ELSE "broken"
    /\ UNCHANGED kept

\* The entry is removed, whatever becomes of the telling; a run is only over when its
\* last event has been told in full.
Close(r, kind) ==
    \/ /\ open' = open \ {r}
       /\ \E part \in Whole(r, kind) \cup Cut(r) :
            Tell(r, part) /\ (phase'[r] = "over" => part \in Whole(r, kind))
    \/ Missed /\ ~First /\ phase'[r] # "over"

\* When telling the end raises, the run may end a second time, with an error.
End(r) ==
    /\ phase[r] = "going"
    /\ phase'[r] \in {"over", "failing", "broken"} /\ phase' = [phase EXCEPT ![r] = phase'[r]]
    /\ Close(r, "end")
    /\ UNCHANGED kept

Fail(r) ==
    /\ phase[r] \in {"going", "failing"}
    /\ phase'[r] \in {"over", "broken"} /\ phase' = [phase EXCEPT ![r] = phase'[r]]
    /\ Close(r, "error")
    /\ UNCHANGED kept

TableNext == \E r \in ChainRun : Begin(r) \/ End(r) \/ Fail(r)

TableSpec == TableInit /\ [][TableNext]_tableVars
===============================================================================
