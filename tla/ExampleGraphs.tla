----------------------------- MODULE ExampleGraphs -----------------------------
(***************************************************************************)
(* The graphs of src/examples as GraphRun runs them: for each node its     *)
(* contract and the flow of its function, for each graph its initial state *)
(* and its supersteps.  A leaf of a state is named by what is in it, and a *)
(* list of documents or matches is one leaf.  A flow names the path that a *)
(* node looks up for a leaf, whether its value depends on it or not.       *)
(***************************************************************************)
EXTENDS Sequences, TLC

CONSTANT None

RequestText == <<"request", "text">>
LoopStep == <<"scratch", "loop_step">>

NodeContract(reads, writes, privateReads, privateWrites) ==
    [inputs |-> reads, outputs |-> writes,
     privateInputs |-> privateReads, privateOutputs |-> privateWrites]

-------------------------------------------------------------------------------
(* simple_rag; the quickstart notebook has the same graph.                 *)

RagContracts ==
    ("classify_intent" :> NodeContract({RequestText}, {<<"classification", "intent">>}, {}, {}))
    @@ ("retrieve_docs" :> NodeContract({RequestText, <<"classification", "intent">>},
                                        {<<"documents">>}, {}, {}))
    @@ ("answer_question" :> NodeContract({RequestText, <<"documents">>},
                                          {<<"answer", "text">>}, {}, {}))

RagFlow ==
    ("classify_intent" :> (<<"classification", "intent">> :> RequestText))
    @@ ("retrieve_docs" :> (<<"documents">> :> RequestText))
    @@ ("answer_question" :> (<<"answer", "text">> :> <<"documents">>))

RagInitial ==
    (RequestText :> "text") @@ (<<"request", "raw_notes">> :> "notes")
    @@ (<<"scratch", "draft_query">> :> "draft")

RagGraph ==
    [stages |-> <<{"classify_intent"}, {"retrieve_docs"}, {"answer_question"}>>,
     initial |-> RagInitial]

\* Writes what it does not declare.
BadRetrieverContract == NodeContract({RequestText}, {<<"documents">>}, {}, {})

BadRetrieverFlow == (<<"documents">> :> None) @@ (<<"debug", "query">> :> None)

-------------------------------------------------------------------------------
(* tool_agent, with the contract version of run_tool.                      *)

ToolContracts ==
    ("decide_tool" :> NodeContract({RequestText},
                                   {<<"tool_call", "name">>, <<"tool_call", "arguments">>},
                                   {}, {LoopStep}))
    @@ ("run_tool" :> NodeContract({<<"tool_call", "name">>, <<"tool_call", "arguments">>},
                                   {<<"tool_result", "matches">>}, {LoopStep}, {LoopStep}))
    @@ ("final_answer" :> NodeContract({<<"tool_result", "matches">>},
                                       {<<"answer", "text">>}, {}, {}))

DecideFlow ==
    "decide_tool" :> ((<<"tool_call", "name">> :> None)
                      @@ (<<"tool_call", "arguments", "term">> :> RequestText)
                      @@ (LoopStep :> None))

ToolFlow ==
    DecideFlow
    @@ ("run_tool" :> ((<<"tool_result", "matches">> :> <<"tool_call", "arguments", "term">>)
                       @@ (LoopStep :> None)))
    @@ ("final_answer" :> (<<"answer", "text">> :> <<"tool_result", "matches">>))

ToolInitial ==
    (RequestText :> "text") @@ (<<"request", "raw_notes">> :> "notes") @@ (LoopStep :> "zero")

ToolGraph ==
    [stages |-> <<{"decide_tool"}, {"run_tool"}, {"final_answer"}>>, initial |-> ToolInitial]

-------------------------------------------------------------------------------
(* backend_export.                                                         *)

ExportContracts ==
    "prepare_answer" :> NodeContract({RequestText}, {<<"answer", "text">>}, {}, {})

ExportFlow == "prepare_answer" :> (<<"answer", "text">> :> RequestText)

ExportInitial ==
    (RequestText :> "text") @@ (<<"request", "raw_notes">> :> "notes")
    @@ (<<"scratch", "preview">> :> "draft")

ExportGraph == [stages |-> <<{"prepare_answer"}>>, initial |-> ExportInitial]

-------------------------------------------------------------------------------
(* langgraph_contracts, whose functions ask isinstance(x, dict).           *)

ClassifyContracts ==
    ("classify" :> NodeContract({RequestText}, {<<"classification", "label">>}, {}, {}))
    @@ ("answer" :> NodeContract({<<"classification", "label">>}, {<<"answer", "text">>}, {}, {}))

ClassifyFlow ==
    ("classify" :> (<<"classification", "label">> :> RequestText))
    @@ ("answer" :> (<<"answer", "text">> :> <<"classification", "label">>))

ClassifyTestsDict == {"classify", "answer"}

ClassifyGraph ==
    [stages |-> <<{"classify"}, {"answer"}>>, initial |-> RequestText :> "text"]

-------------------------------------------------------------------------------

\* The state schemas of the graphs; no node writes a key of another graph's only.
Channels ==
    {"request", "classification", "documents", "answer", "scratch", "tool_call", "tool_result"}

\* The notebook calls one tracing helper in each of its acts.
NotebookHelpers == ("first" :> "local") @@ ("second" :> "otlp")
===============================================================================
