-------------------------- MODULE MCSubgraphBoundary --------------------------
(***************************************************************************)
(* Finite instance of SubgraphBoundary: a retriever that returns an answer *)
(* with two parts and keeps notes of its own, and an editor that may       *)
(* return the answer's text and a flag.                                    *)
(***************************************************************************)
EXTENDS SubgraphBoundary, TLC

Question == <<"question">>
Text == <<"answer", "text">>
Source == <<"answer", "source">>
Notes == <<"notes">>
Flag == <<"flag">>

MCKey == {"question", "answer", "text", "source", "notes", "flag"}

Retriever ==
    [inputs |-> {Question, <<"answer">>}, privateInputs |-> {Notes},
     outputs |-> {<<"answer">>}, privateOutputs |-> {Notes}]

Editor ==
    [inputs |-> {Question, Text}, privateInputs |-> {},
     outputs |-> {Text, Flag}, privateOutputs |-> {}]

MCSub == {"retriever", "editor"}

MCContractOf == [s \in MCSub |-> IF s = "retriever" THEN Retriever ELSE Editor]

Answered == (Text :> "v") @@ (Source :> "v")

MCState == {Question :> "v", (Question :> "v") @@ (Notes :> "v") @@ Answered}

MCInnerUpdate ==
    {(Text :> "w") @@ (Source :> "v"), Text :> "w", <<"answer">> :> Empty,
     Notes :> "w", Flag :> "w", Question :> "w"}
===============================================================================
