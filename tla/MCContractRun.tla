---------------------------- MODULE MCContractRun ----------------------------
(***************************************************************************)
(* Finite instance of ContractRun.  The graph state has a nested request   *)
(* with a text and a user, a scratch note and an answer; the contracts     *)
(* declare nested reads (public and private), a whole-mapping read, and an *)
(* open one.                                                               *)
(***************************************************************************)
EXTENDS ContractRun, TLC

Text == <<"request", "text">>
User == <<"request", "user">>
Note == <<"scratch">>
Answer == <<"answer">>

MCKey == {"request", "text", "user", "scratch", "answer"}

\* Reads the two leaves of one mapping, one of them privately; writes the answer
\* and, privately, the note.
Narrowed ==
    [inputs |-> {Text}, privateInputs |-> {User}, outputs |-> {Answer}, privateOutputs |-> {Note}]

\* Reads a whole mapping, writes one leaf below it.
Broad ==
    [inputs |-> {<<"request">>}, privateInputs |-> {}, outputs |-> {User}, privateOutputs |-> {}]

\* Reads everything, declares no write.
Opened ==
    [inputs |-> None, privateInputs |-> {}, outputs |-> {}, privateOutputs |-> {}]

Full == (Text :> "v") @@ (User :> "v") @@ (Note :> "v")

Sparse == (<<"request">> :> Empty) @@ (Answer :> "v")

MCAllContracts == {Narrowed, Broad, Opened}

MCStates == {Full, Sparse}

MCUpdates == {None, Answer :> "w", (Answer :> "w") @@ (Note :> "w"), User :> "w"}

MCAccess == {<<"request">>, Text, User, Note, Answer}

\* The instances with two calls: one contract, one state, one undeclared read.
MCPairContracts == {Narrowed}

MCPairStates == {Full}

MCPairUpdates == {Answer :> "w"}

MCPairAccess == {Answer}

RunSymmetry == Permutations(Run)
===============================================================================
