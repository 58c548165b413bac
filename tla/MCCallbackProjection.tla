------------------------- MODULE MCCallbackProjection -------------------------
(***************************************************************************)
(* Finite instance of CallbackProjection: two nodes with a contract, one   *)
(* of them declared twice under one label, and one node without.           *)
(***************************************************************************)
EXTENDS CallbackProjection, TLC

Question == <<"question">>
Secret == <<"secret">>

MCKey == {"question", "secret"}

Answering ==
    [inputs |-> {Question}, privateInputs |-> {Secret}, outputs |-> {Question}, privateOutputs |-> {}]

Superseded ==
    [inputs |-> {Secret}, privateInputs |-> {}, outputs |-> {Secret}, privateOutputs |-> {}]

Listening ==
    [inputs |-> None, privateInputs |-> {}, outputs |-> {}, privateOutputs |-> {}]

MCLabelled ==
    << [label |-> "answer", contract |-> Superseded],
       [label |-> "listen", contract |-> Listening],
       [label |-> "answer", contract |-> Answering] >>

MCNode == {"answer", "listen", "other"}

MCPayload == {(Question :> "v") @@ (Secret :> "v"), Opaque}

RunSymmetry == Permutations(ChainRun)
===============================================================================
