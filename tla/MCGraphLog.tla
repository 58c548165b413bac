------------------------------ MODULE MCGraphLog ------------------------------
(***************************************************************************)
(* Finite instance of GraphLog: two of the five correlation slots, which   *)
(* may be configured to two names or to one.                               *)
(***************************************************************************)
EXTENDS GraphLog

MCSlotOrder == <<"session", "request">>

MCContext ==
    {[session |-> "a", request |-> None], [session |-> "a", request |-> "b"],
     [session |-> None, request |-> "b"]}

\* Two names, and one name for both slots.
MCFields ==
    {[session |-> "session_id", request |-> "request_id"],
     [session |-> "session_id", request |-> "session_id"]}

MCGiven == {NoMetadata, "session_id" :> "a", "request_id" :> "a"}

RunSymmetry == Permutations(ChainRun)
===============================================================================
