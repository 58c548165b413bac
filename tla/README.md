# graphobs in TLA+

graphobs wraps the nodes and subgraphs of a LangGraph graph with *contracts*:
declarations of the state paths a node may read and write, publicly and
privately. The wrapper opens a tracing span with the public part of the state,
gives the node its declared input (or the whole state while it only observes),
records what the node reads, compares reads and writes with the contract, and
warns or raises. Two LangChain callbacks go with it: one projects the payloads of
LangChain events by the same contracts, the other writes a structured log of
every run. This directory models these parts, and a whole graph run with all of
them at once, in TLA+, checks them with TLC and proves the most important
properties with TLAPS. Source lines are given relative
to `src/src/graphobs/`, other paths to `src/`.

## Inventory

| component | state it keeps | operations | correct when |
|---|---|---|---|
| `state/paths.py`, `state/observed_access.py` | none (pure) | get, set, diff, leaf paths, prefix tests | nested and flat views of a state agree |
| `contracts/` | immutable policies | project, observe payload, undeclared reads and writes, report | read check, write check and projection draw one boundary |
| `state/read_tracking.py` | paths recorded by each tracker; views share the tracker | lookup, membership, iteration | everything the node reads is recorded, nothing else |
| `langgraph/nodes.py`, `langgraph/execution.py` | per call: tracker, input, result, exception, span | open span, record input, run, audit, validate, record output, handle error, close | see *ContractRun* |
| `langgraph/schemas.py` | none | input schema of a strict node | the schema loses nothing the node may read |
| `langgraph/subgraphs.py` | per call: input, subgraph channels | invoke, diff, validate, return public output | only declared public outputs reach the parent, and they do |
| `langgraph/callbacks.py` | contracts by run, observed, matched and unmatched nodes | chain start, end, error; statistics | every event of a contract node is projected by its own contract |
| `logging/` | start times and metadata by run | start, finish, error; merge correlation; build config | records are correlated and timed by their own run |
| `tracing.py` | the span | open, set payloads and attributes, mark error | a span tells how its call ended, and shows public state only |
| `payloads.py` | none | shape summaries, message compaction, serialization | nothing but cut message content is shown by default |
| `demo/` | the global tracer provider, the exporters | install exporters, list spans | an exporter holds the spans of its own provider, and a caller knows whether it was installed |
| `examples/` | the state of four graphs | node functions, contracts, edges | wrapped graphs compute what raw ones do |

How they interact: LangGraph calls a wrapper (`nodes.py`, `subgraphs.py`) in a
thread or a task per node of a superstep; the wrapper calls
`instrument_contract_run` or its asynchronous twin; that calls `tracing.py`,
`contracts/` and the node function, which reads through a `ReadTrackingMapping`.
LangChain, around the wrapper, calls the callbacks from the same threads, so the
tables of one callback are shared by overlapping runs. Spans go to the tracer
provider that is installed when they begin; the demo helpers install one, once
per process.

What is hard here: calls and runs overlap; every telemetry call may raise, at a
point where the node has run or has not; a cancelled task passes `except
Exception`; a tracked view outlives the node that was given it; a callback that
raises in one event gets another one for the same run; statistics are read from
live tables; nested differences meet channels that are overwritten whole; a node
counts as successful on its span and is lost in the graph, because a callback
raised in between.
`PROJECT.json` lists these hazards line by line with the properties that aim at
them.

## Modules

**StatePaths** is the vocabulary: a nested state is a function from its leaf
paths to values, an empty nested mapping being a leaf `Empty`. `Project`,
`Merge`, `StateDiff`, `UndeclaredReads`, ... are the code's functions on leaves.
No operator is recursive, so everything built on it can be proved about.

**StateTrees** is the recursive code itself (`get_path`, `set_path`,
`project_state`, `_merge_mappings`, `state_diff`, `iter_update_paths`) over nested
records, some of which cannot be changed. Its run compares it with StatePaths for
all small states, which is what entitles the other modules to the flat view of states
whose nested mappings can be changed. Of a read-only one (a `MappingProxyType`) the code
replaces what it would otherwise extend or merge (`paths.py:62`, `execution.py:156`), so
that declared siblings vanish; `InputIsCoveredLeaves` has that as its exception, and what
the other modules say of declared reads (`DeclaredReadsAreGiven`,
`ImplementsPlainGraph`) is not about such states. It,
TracePayload and SpanAttributes alone use RECURSIVE operators.

**PathText** is the way of a path into text and back: a tracker joins keys with
dots (`join_path`), the audit splits the text, strips the parts and refuses blank
ones (`normalize_paths`, `split_path`). A key is a sequence of characters here; in all other
modules it is atomic, which `OnlyPlainKeysAreJudgedAsRead` justifies for keys
without dots and outer blanks, and for no others.

**TracePayload** is the payload policy: `_is_message`, `_compact_message`,
`_truncate`, `message_compact_summary`, the three modes, and what `json.dumps`
can represent of the result.

**SpanAttributes** is `set_span_attributes`: the lazy flattening of nested
mappings to dotted names, the refusal of blank keys between two attributes, and
the coercion of values. A blank key below another key makes a name that ends with a
dot and passes, where the docstring (`tracing.py:137`) announces a `ValueError`.

**ContractRun** is a call of a wrapped node, one action for each step that can
end in two ways: `OpenSpan`, `RecordInput`, the node's `Lookup`, `LookupFails`
and `Iterate`, its end by `NodeReturns`, `NodeRaises` or `NodeCancelled`, then
`AuditReads`, `ValidateWrites`, `RecordOutput`, `HandleError`, `EndSpan`, each
telemetry call with its failing variant. `pc` is the place in
`instrument_contract_run`; the handler and the `with` block's end are the places
`handle` and `exit`. Calls (`Run`) interleave freely. `LateRead` is a read
through a view that outlived the node. The two wrappers differ only in that the
asynchronous one is cancelled by a timeout; a KeyboardInterrupt does the same to
the synchronous one, so both are one model.

**ContractBoundary** is the abstract specification: a call touches paths, and in
its node may offer an update; in one step it is accepted with the update offered,
rejected, or fails. A strict call is accepted only within its boundary and rejected only
for what it did itself: an undeclared read it made, or an undeclared write in the update it
offered. Other modes never reject. ContractRun implements it (`ImplementsBoundary`):
`outcome` is read off `pc` and `exc`, `touched` is `reads`, `seen` adds the late reads,
`offered` is `result`.

**CallbackProjection** is `ProjectedCallbackHandler`: each access of one of its
tables is a step of its own, so chain events of different runs and a
`projection_stats` call interleave between any two of them. The downstream
callback may raise in a start (the run is then refused) or in an end (an error
event of the same run follows).
LangGraph gives the runs inside a node the node's metadata, so several runs of one
node overlap even without retries. A run whose start the handler never saw is
left out: its end would be forwarded as it is, as the code documents for events
it knows no contract of.

**GraphLog** is `GraphLogCallback` with the correlation merge and
`build_invoke_config`. One step is one handler, since no two handlers touch the
same table entry: both tables are keyed by run, and the events of one run are
in order. The logger may raise at every record; since `raise_error` is set, that
reaches the graph. Another callback may raise after this one: a run whose start
was logged may never begin, and one whose end was logged may still fail.
Chain and tool handlers share this code and are one model.

**CallbackTable** is the abstract specification of both callbacks: of each run
there is an entry between its start and its end, its start and then its end or
its error are told, and telling may raise. A run is `over` when its last event was told
in full and `broken` when its only or last event raised; only then may nothing or a part of
it have been told, so a handler that swallows an end is no implementation. `First` says that no other callback is
asked before this one, so that no event is kept from it. GraphLog implements it with an
entry of every run, CallbackProjection with one of each run of a contract node
(`ImplementsTable`); there a run begins when its start is forwarded, and the entry, which
is made a step earlier, counts from then on. GraphRun implements it twice
(`CallbacksKeepTheirTables`: the log with `First`, the projection without), so that what
the two modules say of one callback alone also holds of the two in a row around a whole
graph.

**SubgraphBoundary** composes wrapped subgraphs with a parent graph: parallel
wrappers of a superstep take their input from one parent state, run inner nodes,
validate the difference and return the public one, and LangGraph replaces
last-value channels, or refuses two writers of one.

**GraphRun** composes everything in one run of a LangGraph graph: nodes wrapped
with contracts in any mode, node by node; `GraphLogCallback` and then
`ProjectedCallbackHandler` around every node and around the graph; a span for
each wrapper; and tracing helpers that are called meanwhile (TracerSetup). Its
steps are the phases of the other modules: the event before the call (`StartRun`),
`Enter`, `Accept` or `Raise` or `Cancel`, the end of the span (`Leave`), the event
after it (`EndRun`, `FailRun`), and LangGraph's supersteps (`Advance`,
`FailGraph`, ...). `Deliver` hands an event to both callbacks: when the log raises, a
synchronous graph does not ask the projection any more, an asynchronous one has.
A failed node cancels the others of its superstep. Node functions are given by
their flow: for each leaf of the update, the path it is computed from.

**PlainGraph** is its abstract specification: the same graph built with
`add_raw_node`, where a superstep calls node functions with the whole state and
applies their updates, or the run fails. `ImplementsPlainGraph` maps a run of GraphRun to it
by its channels; wrappers, events and helpers are stutters.

**TracerSetup** is the part of the demo helpers: `configure_local_tracing`,
`configure_phoenix_tracing`, `configure_otlp_tracing`, each call in the steps
build, check, set, over OpenTelemetry's provider, which can be set once. Spans belong to the
provider they were begun with, and its exporter gets them at their end. The batching of the
OTLP processor is left out: a span counts as exported when it is handed over.

**ExampleGraphs** holds the graphs of `examples/simple_rag`, `tool_agent`,
`backend_export` and `langgraph_contracts.py` as data for GraphRun and
PlainGraph: contracts, flows, initial states, stages.

`MC*` modules give the constants finite values. `*Proofs` modules hold proofs about
the module they are named for, **GraphRunRefinement** the proof that GraphRun
implements PlainGraph. A definition whose comment says *Mutant* is not part of the
model: it is a plausible bug, kept to show that a property would find it.

## Runs

| run | asks | bounds, and why they suffice |
|---|---|---|
| `contract_run` | all safety of one call, and refinement | one call; three contracts (nested public and private reads of one mapping, a whole mapping, everything), two states (one with an empty mapping), four updates (one None, one undeclared), five paths, one late read: every branch of the lifecycle and both directions of path overlap occur |
| `contract_run_live` | are overlapping calls separate, and is every span closed? | two calls, one late read, weak fairness of the wrapper; more calls add no new interaction, since calls only meet in trackers |
| `callback_projection` | all safety of the handler, and that it implements CallbackTable | two runs of any of three nodes (one without contract), one contract superseded by label, one statistics call |
| `graph_log` | all safety of the log, and that it implements CallbackTable | two runs, two of the five correlation slots with two names or one, two ids, two clock values |
| `subgraph_boundary` | what lands in the parent | two subgraphs with overlapping nested outputs, two inner updates each, two supersteps (the second starts from a changed state) |
| `pure_functions` | do the pure functions do what their reference definitions say? | trees: all pairs of mappings with two keys, two values and depth two, the same with read-only nested mappings, and all pairs of includes of at most two of four paths; text: all paths of two keys of at most three characters (a letter, a dot, a blank); payloads: 26 kinds of items alone, in pairs in a list, and beside a message that quotes another; attributes: mappings of two entries and depth two whose names may meet, lists of up to two types |
| `graph_run` | do all parts together leave a graph as it is and tell the same of it? | 30 settings: the RAG and the tool graph in all three modes; nodes with private reads, undeclared reads and undeclared writes (one node each) in all three modes; a superstep of two nodes and one after it, under ENFORCE and under a node-by-node mix of modes; two nodes that clash, under ENFORCE; the classify graph under OBSERVE only, since under AUDIT and ENFORCE it is not the plain graph (`graph_audit_doc`); the export graph under ENFORCE only, with every pair of calls of two helpers; every step may fail |
| `strict_doc`, `observe_doc`, `callback_snapshot_doc`, `subgraph_doc`, `graph_audit_doc` | is the doc right? | the same instances (`graph_audit_doc`: the documented example under AUDIT); each finds a counterexample |

Symmetry is used where calls or runs are interchangeable and the properties are
safety properties; the liveness run has none. No run turns deadlock checking off: each
module has a `Finished` step for the states in which the program is over.

Fairness is needed by two runs. In `contract_run_live` the wrapper is
straight-line code, so a thread or a task that can continue does: weak fairness
of `Wrapper(r)` for each call. The node function gets none; it may never return,
and the property says nothing of a call that waits for it. In `graph_run`
LangGraph's loop (`Graph`) and the code around each node function (`Wrapper(n)`) are
weakly fair; node functions, cancellation and the callers of helpers are not, and
`GraphEnds` speaks of runs in which no node function runs for ever.

What `graph_run` settles that no part shows by itself: `EvidenceMatchesFate` (a landed
update has a complete span and complete events; a failed node has complete events, unless
its error event itself raised (`unreported`), and an error on
its span unless it was cancelled for another; a span that looks like a success
may belong to an update that a callback lost, and then the graph is never
done), `TablesForgetEndedRuns` (the exact cases in which a callback keeps an entry of
a run that is over), `CallbacksKeepTheirTables`, `ChangesHaveAnAuthor` (what changes in the graph's state was
written by a node of that superstep, and by a strict one only if it declares it), `ExportersTellTheRun` and `InstallationIsTold` (races of helpers
with each other and with spans). `InstallationIsTold` says what the code does, which is
not what the docstring of `configure_otlp_tracing` says (`demo/tracing_setup.py:141-142`:
"``True`` if the provider was installed successfully, ``False`` if the endpoint variable
is unset"). A call that loses the race between check and set returns True although
OpenTelemetry kept another's provider, and only OpenTelemetry's own warning tells of it;
and a call that finds a provider installed returns False with the endpoint set
(`:177-184`). No run of its own shows this: `graph_run` reaches both cases, and what the
property says of them is that a call that did not install its provider was at least
followed by a warning.

### What the violations show

* `strict_doc`: the audit runs after the node returned (`nodes.py:206-207`,
  `239-240`). A node that reads an undeclared path and then raises, often because
  the read found nothing, leaves with its own exception; the violation goes
  unreported although ENFORCE promises `StateContractError`.
* `observe_doc`: `set_span_output` is called between the node's return and the
  wrapper's (`execution.py:84`) and raises again what goes wrong. Under OBSERVE, "trace
  hygiene without any execution change", an update can so be lost.
* `callback_snapshot_doc`: `missing_contracts` is computed from the live table
  (`callbacks.py:171`) after `matched_nodes` was copied (`:162`): a node matched
  in between is in neither. (A node is never in both, and no node is lost whose
  start had been forwarded: `StatsAgreeWithStarts`.)
* `subgraph_doc`: the wrapper returns a recursive difference, not "the subgraph's
  full projected value". On a last-value channel with a nested mapping the
  siblings of a changed leaf are dropped. What is dropped is unchanged, though:
  `ChangedOutputsArrive` says that every leaf that did change arrives.
* `graph_audit_doc`: under AUDIT and ENFORCE nested mappings reach the node as
  views that are no `dict` (`read_tracking.py:94-101`). The functions of
  `examples/langgraph_contracts.py` ask `isinstance(request, dict)` and fall back to
  their defaults, where the migration guide says that audit mode preserves existing graph
  behavior.

## Proofs

`tlapm` proves, for every value of the constants:

* **StatePathsProofs**: facts about prefixes, projection, merging, differences and
  overwriting; that everything found in a projected execution input, down to empty
  mappings, is a declared read (`GivenIsAllowed`), that every declared read finds there
  what the state has (`DeclaredIsGiven`), and that narrowing the state to the schema a
  strict node is registered with does not change its execution input
  (`NarrowingKeepsExecutionInput`).
* **ContractRunProofs**: type correctness, all eight other safety properties, the
  action property `EndedCallsAreFrozen`, and the refinement of ContractBoundary.
  They assume `ContractRunAssumption`: contracts are pairs of policies, states
  and updates are trees, looked-up paths are not empty.
* **CallbackProjectionProofs**: all three safety properties of `callback_projection`, that
  the table of contracts holds live and refused runs with their own contracts, and
  that the handler implements CallbackTable, from `CallbackProjectionAssumption`.
* **SubgraphBoundaryProofs**: type correctness and both action properties,
  `OnlyPublicOutputsLand` and `ChangedOutputsArrive`, from `SubgraphAssumption`.
* **GraphLogProofs**: all four safety properties of `graph_log`, that both tables hold the
  same runs, live or refused, the action property `DurationIsOwn`, and that the log implements CallbackTable, from `GraphLogAssumption`.
* **GraphRunProofs**: all six safety properties of `graph_run` and its action
  property, `ChangesHaveAnAuthor`, for any graphs,
  contracts, flows, node-by-node modes and callers of tracing helpers, from
  `GraphRunAssumption`.
* **GraphRunTables**: that a graph run implements CallbackTable with either of its
  callbacks, from the same assumption.
* **GraphRunRefinement**: that GraphRun implements PlainGraph, under a condition that
  the next section explains.

The properties of ContractRun are not inductive: that an accepted ENFORCE call
read only declared paths says nothing of the audit that made it so. `IInv` adds, for each
place `pc` can be at, what is settled there: before the node runs nothing is read
and the span has no output; while audited, the call's tracker holds its reads and
its late reads and nothing of another call; past the audit of a strict call its
reads are declared, past validation its writes; a report with an error is only
found at `handle` and later, with the exceptions that may be in flight there; the
span's status and payloads agree with `exc`. `given` is always `NodeInput` once
the node has started, which turns `UndeclaredReadsFindNothing` into a lemma about
projections. Each action preserves each part in a step of its own. The refinement
maps every action to a stutter except the reads (`Touch`), the late reads (`Linger`),
`NodeReturns` (`Offer`) and `EndSpan`, which becomes `Accept`, `Reject` or `Fail` by the exception in
flight.

In CallbackProjection the invariant ties `pc` to the tables: from `observed` on a
run's node is in `observed`, from `matched` on in `matched`, and between
`RememberContract` and the end its own key holds its own contract. The reader's
copies are subsets of the live tables, which only grow; that is why reading
`matched` first, as the code does, keeps `matched ⊆ observed`.

That a pass-through call warns exactly (`PassThroughWarnsExactly`) has an invariant of
its own, `WarnInv`: which report stands at each place after the audit and after
the validation, and that nothing recorded later is taken from it.

SubgraphBoundary needs little: a wrapper that is not idle belongs to a superstep
that is going on, and one that has returned returned the public output of its
input and channels (`WrapperInv`). The work is in the action properties: the updates of
a superstep meet in no channel, so each leaf of the joint update has one writer,
and overwriting keeps or replaces whole channels.

In GraphLog the invariant says that a run's start time in the table is the one in
`begun` (`TablesInv`), and what the log of a run is at its place (`LogInv`): nothing before
it starts, while it runs the record of its start if that was seen, made of the metadata
that is remembered, and every record carries the context. `ConfigInv` is what
`build_invoke_config` leaves: a config that agrees with the context. Of a run that is
`failing` the log is `EndedWell`, since its end may have been logged or not.

That the two modules implement CallbackTable is proved step by step. In GraphLog each
handler is one step of the table; what is emitted is a prefix of the complete
records (`EmittedIs`), so the events told are a part that `Whole` or `Cut` allows. In
CallbackProjection `ForwardStart` becomes `Begin`, an end or an error becomes `End` or
`Fail`; the lookups, the remembering and the statistics are stutters.

In GraphRun the invariant has six parts. `TypeInv` types everything, as sets. `StageInv`
orders supersteps: those that are over have landed, those to come are idle, and nothing
goes on when the graph's run does not. `NodeInv` says for each point of a node's run
what its span, its log, its projected events and the two tables hold. `PayloadInv`
says whose state and update the payloads of the running superstep show. `RootInv` and
`SetupInv` are about the graph's own run and the tracing helpers, `ExportInv` adds to
`ExportersTellTheRun` that spans are finitely many. Steps of one node leave
the evidence of every other alone (`NodeStepIsLocal`), and a failure is never taken back
(`FailureStays`); that is what a cancelled node's evidence rests on. While a run goes on the
log has its entry, so that its last event is written without a `duration_missing` record
(`Recorded`); only the error of a graph whose end raised has one. For
`ChangesHaveAnAuthor`, only `Advance` changes the state (`AppliedIs`: each leaf of the
new state is one update's, or was there, and what is gone was in a replaced channel),
and the update of a strict node that landed was written within its contract
(`PayloadInv`, which says that it is its `WrappedUpdate` and was not rejected).

In GraphRunTables every step is one event of one run, or moves no run
(`StepIsEvent`); an event that is delivered moves its run in both tables as the
abstract specification lets it (`LogStep`, `ProjectionStep`). That the projection misses
an event which the log refused is the step `Missed`, which `First` forbids to
the log.
`GraphRunAssumption` says that states are trees, that `None` is no path, that the leaves
of an update do not lie below one another, and that a node runs in one superstep: a node that runs
again in a loop is a node of its own here, as in ExampleGraphs.

### When a wrapped graph is the plain graph

The refinement does not hold of every contract. `Refinement` proves it of runs in which
contracts hide nothing silently (`HidesNothing`): what a strict node does not
get of the state it is rejected for reading, and no node that asks for a `dict` meets a
view where it looks further down. The second is `graph_audit_doc`'s finding. The
first excludes this: a node reads `request.raw_notes`, its contract declares
`request.text` only, and the state has no `request.text`. Its execution input has no
`request` at all; the node looks up `request`, which is allowed, finds
nothing and goes on with its default. Nothing undeclared was looked up, so
nothing is rejected, and the update is not the plain one. In the instance of `graph_run`
such a mapping always has its declared part, and all its runs satisfy `HidesNothing`.

`DeclaredRefinement` gives a condition that can be read off the graph
(`AuthorsDeclare`): each source of a strict node is declared, or lies under a key of
which nothing is, and a node that asks for a `dict` is only observed. All settings of
`graph_run` meet it but the one of the strict node `peek`, which is rejected. The proof:
wrappers, events, helpers and the refused end of a graph are stutters, failures are
`PlainFail`, and `Advance` is `PlainStep`: an update that landed is the node's
`WrappedUpdate` and was not rejected (`PayloadInv`), the execution input holds the
declared leaves of the whole state (`RunInputIs`, from `NarrowingKeepsExecutionInput`),
so it is the plain update (`WrappedIsPlain`), and what is applied depends on the updates only.

### What stays with TLC

* `EveryLeftCallEnds` and `GraphEnds`: liveness needs fairness and ENABLED.
* StateTrees, PathText, TracePayload, SpanAttributes (`pure_functions`): what a recursive
  function or a fold computes for every input needs induction over data, which is
  beyond the prover, as are RECURSIVE operators.

## Not modelled

* Package exports: re-exports and a version string.
* What shapes and truncated strings look like (`shape_summary`, `run_name`,
  `truncate_error_message`): a summary is one token.
* Mappings shared by reference between a parent state and a subgraph: trees have
  no identity. The hazards list says where this matters.
* Accumulating channels: `contract_subgraph` rules them out.
* Registration of several nodes (`add_contract_nodes`): it stops at the first
  node that cannot be registered and leaves the earlier ones; the builder's state is
  LangGraph's, and a builder that raised is thrown away. The schema a node is
  registered with is modelled (`InputSchema`, `Received`).
* Retries of a node by LangGraph and subgraphs inside GraphRun: a retry is a new
  run of the same node, which CallbackProjection and GraphLog have by run id.
* `examples/subgraph_boundary`: an instance of SubgraphBoundary with other names.

## Plan

Done: StatePaths, StateTrees, PathText, TracePayload, SpanAttributes, ContractBoundary,
ContractRun, CallbackTable, CallbackProjection, GraphLog, SubgraphBoundary, TracerSetup,
GraphRun with PlainGraph and ExampleGraphs, and the proofs named above: every safety
property, action property and refinement that a run checks of a module without recursion
is a theorem.

Left: that a node's run in GraphRun is a run of ContractBoundary's abstract call. `Accept`
reads and accepts in one step there, and the paths a node has read follow from the state, which
`Advance` replaces; so the mapping needs a variable that remembers them, and steps
that separate reading from accepting.
