------------------------------ MODULE MCGraphRun ------------------------------
(***************************************************************************)
(* Finite instance of GraphRun: the example graphs, and graphs of nodes    *)
(* that meet in one superstep, read private state or break their contract. *)
(***************************************************************************)
EXTENDS GraphRun, TLC

Ex == INSTANCE ExampleGraphs

Notes == <<"request", "raw_notes">>
Draft == <<"scratch", "draft_query">>
AnswerText == <<"answer", "text">>

\* summarize reads private state; peek reads what it does not declare.
MCContractOf ==
    Ex!RagContracts @@ Ex!ToolContracts @@ Ex!ExportContracts @@ Ex!ClassifyContracts
    @@ ("bad_retriever" :> Ex!BadRetrieverContract)
    @@ ("summarize" :> Ex!NodeContract({Ex!RequestText}, {AnswerText}, {Draft}, {}))
    @@ ("peek" :> Ex!NodeContract({Ex!RequestText}, {AnswerText}, {}, {}))

MCFlow ==
    Ex!RagFlow @@ Ex!ToolFlow @@ Ex!ExportFlow @@ Ex!ClassifyFlow
    @@ ("bad_retriever" :> Ex!BadRetrieverFlow)
    @@ ("summarize" :> (AnswerText :> Draft))
    @@ ("peek" :> (AnswerText :> Notes))

MCNode == DOMAIN MCContractOf

MCKey == {"request", "text", "raw_notes", "classification", "intent", "label", "documents",
          "answer", "scratch", "draft_query", "preview", "loop_step", "tool_call", "name",
          "arguments", "term", "tool_result", "matches", "debug", "query"}

MCValue == {"text", "notes", "draft", "zero", "default"}

MCTestsDict == Ex!ClassifyTestsDict

MCChannel == Ex!Channels

MCCaller == {"first", "second"}

Everywhere(m) == [n \in MCNode |-> m]

NoTracing == [c \in MCCaller |-> "no call"]

Settings(plans, modes, helpers) == [plan : plans, mode : modes, helper : helpers]

Graph1(stages) == [stages |-> stages, initial |-> Ex!RagInitial]

\* Parallel nodes, and one after them.
FanOut == Graph1(<<{"classify_intent", "retrieve_docs"}, {"answer_question"}>>)

\* Two nodes of a superstep write the same channel.
TwoAnswers == Graph1(<<{"prepare_answer", "summarize"}>>)

\* The mode is chosen node by node while a graph migrates.
Migrating == [Everywhere("observe") EXCEPT !["retrieve_docs"] = "enforce",
                                           !["answer_question"] = "audit"]

\* Any two helpers; who calls which makes no difference.
HelperPairs ==
    LET kind == <<"local", "phoenix", "otlp", "otlp without endpoint">>
    IN  {[c \in MCCaller |-> kind[IF c = "first" THEN pair[1] ELSE pair[2]]] :
            pair \in {p \in (1..4) \X (1..4) : p[1] <= p[2]}}

MCSetting ==
    Settings({Ex!RagGraph, Ex!ToolGraph}, {Everywhere(m) : m \in Mode}, {NoTracing})
    \cup Settings({FanOut}, {Everywhere("enforce"), Migrating}, {NoTracing})
    \cup Settings({TwoAnswers}, {Everywhere("enforce")}, {NoTracing, Ex!NotebookHelpers})
    \cup Settings({Graph1(<<{n}>>) : n \in {"bad_retriever", "peek", "summarize"}},
                  {Everywhere(m) : m \in Mode}, {NoTracing})
    \cup Settings({Ex!ClassifyGraph}, {Everywhere("observe")}, {NoTracing})
    \cup Settings({Ex!ExportGraph}, {Everywhere("enforce")}, HelperPairs)

\* The example of the documentation while it migrates.
MCAuditSetting == Settings({Ex!ClassifyGraph}, {Everywhere("audit")}, {NoTracing})
===============================================================================
