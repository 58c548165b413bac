----------------------------- MODULE TracerSetup -----------------------------
(***************************************************************************)
(* The demo tracing helpers (demo/tracing_setup.py; configure_tracing of   *)
(* examples/_support.py does as configure_local_tracing), called from      *)
(* several places of one process, while other threads begin and end spans  *)
(* with the global tracer provider (tracing.py, demo/span_records.py).     *)
(*                                                                         *)
(* OpenTelemetry is external: its global provider is a proxy until it is   *)
(* set, it can be set once, and a call that comes too late only logs a     *)
(* warning.  A span belongs to the provider it was begun with.             *)
(***************************************************************************)
EXTENDS Sequences, SequencesExt

CONSTANTS Caller,   \* calls of the helpers; each builds a provider of its own
          Span,     \* spans
          Nobody    \* no provider: the proxy

VARIABLES helper,    \* which helper each call is of, whether the OTLP endpoint is
                     \* set, or that there is no such call; never changes
          at,        \* where each call stands
          provider,  \* the caller whose provider is installed
          processor, \* the callers whose provider has its span processor
          answer,    \* what each call returned, or "raised"
          warned,    \* the calls a warning was logged for
          begunWith, \* the provider installed when each span began
          exported   \* what each caller's exporter received

setupVars == <<helper, at, provider, processor, answer, warned>>
spanVars == <<begunWith, exported>>
tracerVars == <<setupVars, spanVars>>

Helper == {"local", "phoenix", "otlp", "otlp without endpoint", "no call"}

\* What the helper returns after it went through.
AnswerOf(c) ==
    CASE helper[c] = "local" -> "exporter"
      [] helper[c] = "phoenix" -> "None"
      [] OTHER -> "True"

TracerInit ==
    /\ at = [c \in Caller |-> IF helper[c] = "no call" THEN "done" ELSE "call"]
    /\ provider = Nobody
    /\ processor = {}
    /\ answer = [c \in Caller |-> "none"]
    /\ warned = {}
    /\ begunWith = [s \in {} |-> Nobody]
    /\ exported = [c \in Caller |-> <<>>]

Return(c, value) ==
    /\ at' = [at EXCEPT ![c] = "done"]
    /\ answer' = [answer EXCEPT ![c] = value]

\* configure_otlp_tracing without an endpoint.
SkipOtlp(c) ==
    /\ at[c] = "call" /\ helper[c] = "otlp without endpoint"
    /\ Return(c, "False")
    /\ warned' = warned \cup {c}
    /\ UNCHANGED <<helper, provider, processor, spanVars>>

\* A package is missing, Phoenix does not launch, or the exporter is refused.
CannotBuild(c) ==
    /\ at[c] = "call" /\ helper[c] # "otlp without endpoint"
    /\ Return(c, "raised")
    /\ UNCHANGED <<helper, provider, processor, warned, spanVars>>

\* Mutant: the span processor is never added.
BuildBare(c) ==
    /\ at[c] = "call" /\ helper[c] \in {"local", "otlp"}
    /\ at' = [at EXCEPT ![c] = "check"]
    /\ UNCHANGED <<helper, provider, processor, answer, warned, spanVars>>

Build(c) ==
    /\ at[c] = "call" /\ helper[c] \in {"local", "otlp"}
    /\ processor' = processor \cup {c}
    /\ at' = [at EXCEPT ![c] = "check"]
    /\ UNCHANGED <<helper, provider, answer, warned, spanVars>>

\* Mutant: the test for the proxy is the wrong way round.
CheckInverted(c) ==
    /\ at[c] = "check"
    /\ IF provider = Nobody
       THEN /\ Return(c, IF helper[c] = "local" THEN "exporter" ELSE "False")
            /\ warned' = warned \cup {c}
       ELSE at' = [at EXCEPT ![c] = "set"] /\ UNCHANGED <<answer, warned>>
    /\ UNCHANGED <<helper, provider, processor, spanVars>>

\* The type of the provider that is installed is looked at ...
CheckProvider(c) ==
    /\ at[c] = "check"
    /\ IF provider # Nobody
       THEN /\ Return(c, IF helper[c] = "local" THEN "exporter" ELSE "False")
            /\ warned' = warned \cup {c}
       ELSE at' = [at EXCEPT ![c] = "set"] /\ UNCHANGED <<answer, warned>>
    /\ UNCHANGED <<helper, provider, processor, spanVars>>

\* OpenTelemetry keeps the first provider and warns of every later one.
SetOnce(c) ==
    IF provider = Nobody
    THEN provider' = c /\ UNCHANGED warned
    ELSE warned' = warned \cup {c} /\ UNCHANGED provider

\* ... and in a second step the new one is set.
SetProvider(c) ==
    /\ at[c] = "set"
    /\ SetOnce(c)
    /\ Return(c, AnswerOf(c))
    /\ UNCHANGED <<helper, processor, spanVars>>

\* configure_phoenix_tracing: register builds and sets, and looks at nothing.
RegisterPhoenix(c) ==
    /\ at[c] = "call" /\ helper[c] = "phoenix"
    /\ processor' = processor \cup {c}
    /\ SetOnce(c)
    /\ Return(c, AnswerOf(c))
    /\ UNCHANGED <<helper, spanVars>>

Configure(c) ==
    \/ SkipOtlp(c) \/ CannotBuild(c) \/ Build(c) \/ CheckProvider(c) \/ SetProvider(c)
    \/ RegisterPhoenix(c)

\* start_graph_span asks for the tracer of the provider installed now.
BeginSpan(s) ==
    /\ s \notin DOMAIN begunWith
    /\ begunWith' = [t \in DOMAIN begunWith \cup {s} |->
                        IF t = s THEN provider ELSE begunWith[t]]
    /\ UNCHANGED <<setupVars, exported>>

\* A span ends: its provider's processor hands it to the exporter.
EndSpan(s, record) ==
    /\ exported' = IF begunWith[s] \in processor
                   THEN [exported EXCEPT ![begunWith[s]] = Append(@, record)]
                   ELSE exported
    /\ UNCHANGED <<setupVars, begunWith>>

-------------------------------------------------------------------------------
(* Properties.                                                             *)

AtValues == {"call", "check", "set", "done"}

Answers == {"none", "exporter", "None", "True", "False", "raised"}

\* The types of all but the exporters, whose records are the caller's.
SetupTypeOK ==
    /\ helper \in [Caller -> Helper]
    /\ at \in [Caller -> AtValues]
    /\ provider \in Caller \cup {Nobody}
    /\ processor \subseteq Caller
    /\ answer \in [Caller -> Answers]
    /\ warned \subseteq Caller
    /\ DOMAIN begunWith \subseteq Span
    /\ \A s \in DOMAIN begunWith : begunWith[s] \in Caller \cup {Nobody}
===============================================================================
