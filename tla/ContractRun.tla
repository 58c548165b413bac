------------------------------ MODULE ContractRun ------------------------------
(***************************************************************************)
(* Calls of contract-wrapped nodes (langgraph/nodes.py) through the        *)
(* instrumented lifecycle of langgraph/execution.py: the span is opened    *)
(* and given the public input, the node runs on its execution input while  *)
(* a tracker records what it reads, reads are audited, writes validated,   *)
(* the public output recorded, and whatever is raised on the way is logged,*)
(* marked on the span and raised again.                                    *)
(*                                                                         *)
(* A Run is one call of a wrapper.  Calls overlap: LangGraph runs the      *)
(* nodes of a superstep in threads (sync) or tasks (async).                *)
(***************************************************************************)
EXTENDS StatePaths, FiniteSets

CONSTANTS Run,        \* calls of wrapped nodes
          Contract,   \* the contracts the nodes are wrapped with
          State,      \* the graph states the wrappers are called with
          Update,     \* what a node may return; None is no update
          Access,     \* the paths a node may look up
          MaxLateReads \* bound on the reads of one call after its node left

ASSUME ContractRunAssumption ==
    /\ Contract \subseteq ContractType
    /\ \A t \in State : IsTree(t)
    /\ \A u \in Update : u = None \/ IsTree(u)
    /\ Access \subseteq Path

VARIABLES pc,        \* where each call stands
          call,      \* its mode, contract and graph state; never changes
          given,     \* run_input: what the node function is called with
          reads,     \* the paths the node function has read
          late,      \* the paths read through views that outlived the node
          tracker,   \* the paths each call's ReadTracker has recorded
          result,    \* run_result: what the node function returned
          exc,       \* the exception in flight, "none" without one
          report,    \* the read and write violations reported
          span,      \* the call's span
          returned   \* what the wrapper returned to LangGraph

vars == <<pc, call, given, reads, late, tracker, result, exc, report, span, returned>>

-------------------------------------------------------------------------------
(* Modes.                                                                  *)

Mode == {"observe", "audit", "enforce"}

ModeExecution(mode) ==
    [passThrough |-> mode \in {"observe", "audit"},
     auditReads  |-> mode = "audit",
     onViolation |-> IF mode = "enforce" THEN "raise" ELSE "warn"]

PassThrough(r) == ModeExecution(call[r].mode).passThrough

OnViolation(r) == ModeExecution(call[r].mode).onViolation

\* Mutant: only the mode's own flag decides.
TracksWhenAsked(r) == ModeExecution(call[r].mode).auditReads

\* _read_audit_plan: strict execution always audits reads.
TracksReads(r) == ~PassThrough(r) \/ ModeExecution(call[r].mode).auditReads

\* Mutant: undeclared reads raise in every mode that audits them.
RaisesWhenAudited(r) == IF call[r].mode = "observe" THEN "warn" ELSE "raise"

\* _read_audit_plan: only a strict call may raise for a read.
OnReadViolation(r) == IF PassThrough(r) THEN "warn" ELSE OnViolation(r)

\* Mutant: one tracker per wrapper instead of one per call.
SharedTracker(r) == CHOOSE q \in Run : TRUE

\* The tracker a call records into: each call makes its own.
OwnTracker(r) == r

\* Mutant: strict execution passes the full state through.
WholeState(r) == call[r].state

\* _node_execution_input.
NodeInput(r) ==
    IF PassThrough(r) THEN call[r].state
    ELSE BuildExecutionInput(call[r].contract, call[r].state)

PublicInput(r) == Project(call[r].contract.inputs, call[r].state)

\* Mutant: the node's update is recorded as it is.
RawOutput(r) == result[r]

PublicOutput(r) == Project(call[r].contract.outputs, result[r])

-------------------------------------------------------------------------------
(* Outcomes and reports.                                                   *)

\* Exceptions that `except Exception` catches.  A cancelled task raises
\* CancelledError, which is not one of them.
Errors == {"NodeError", "KeyError", "AttributeError", "TelemetryError", "StateContractError"}

NoReport == [level |-> "none", paths |-> {}]

\* Mutant: the configured action is taken for the log level.
LevelIsAction(undeclared, onViolation) ==
    IF undeclared = {} THEN NoReport ELSE [level |-> onViolation, paths |-> undeclared]

\* report_violation: nothing when all is declared, else a warning or an error.
ViolationReport(undeclared, onViolation) ==
    IF undeclared = {} THEN NoReport
    ELSE [level |-> IF onViolation = "warn" THEN "warning" ELSE "error",
          paths |-> undeclared]

\* A payload is a set with the one value recorded, empty while there is none.
NewSpan == [open |-> FALSE, status |-> "unset", input |-> {}, output |-> {}]

Accepted(r) == pc[r] = "done" /\ exc[r] = "none"

-------------------------------------------------------------------------------

Init ==
    /\ pc = [r \in Run |-> "call"]
    /\ call \in [Run -> [mode : Mode, contract : Contract, state : State]]
    /\ given = [r \in Run |-> EmptyTree]
    /\ reads = [r \in Run |-> {}]
    /\ late = [r \in Run |-> {}]
    /\ tracker = [r \in Run |-> {}]
    /\ result = [r \in Run |-> None]
    /\ exc = [r \in Run |-> "none"]
    /\ report = [r \in Run |-> [read |-> NoReport, write |-> NoReport]]
    /\ span = [r \in Run |-> NewSpan]
    /\ returned = [r \in Run |-> None]

\* The exception e is raised and control goes to the handler or block end at.
Throw(r, e, at) ==
    /\ exc' = [exc EXCEPT ![r] = e]
    /\ pc' = [pc EXCEPT ![r] = at]

(* Opening the span and recording the input.                               *)

OpenSpan(r) ==
    /\ pc[r] = "call"
    /\ span' = [span EXCEPT ![r].open = TRUE]
    /\ pc' = [pc EXCEPT ![r] = "input"]
    /\ UNCHANGED <<call, given, reads, late, tracker, result, exc, report, returned>>

\* An attribute cannot be set: raised inside the span, outside the try.
OpenSpanFails(r) ==
    /\ pc[r] = "call"
    /\ span' = [span EXCEPT ![r].open = TRUE]
    /\ Throw(r, "TelemetryError", "exit")
    /\ UNCHANGED <<call, given, reads, late, tracker, result, report, returned>>

RecordInput(r) ==
    /\ pc[r] = "input"
    /\ span' = [span EXCEPT ![r].input = {PublicInput(r)}]
    /\ given' = [given EXCEPT ![r] = NodeInput(r)]
    /\ pc' = [pc EXCEPT ![r] = "node"]
    /\ UNCHANGED <<call, reads, late, tracker, result, exc, report, returned>>

\* The projected input cannot be serialized.
RecordInputFails(r) ==
    /\ pc[r] = "input"
    /\ Throw(r, "TelemetryError", "handle")
    /\ UNCHANGED <<call, given, reads, late, tracker, result, report, span, returned>>

(* The node function.                                                      *)

\* The mappings the node can look keys up in: the state and nested views.
Views(r) == {<<>>} \cup {p \in reads[r] : IsMapping(given[r], p)}

Tracked(r, paths) ==
    IF TracksReads(r)
    THEN [tracker EXCEPT ![OwnTracker(r)] = @ \cup paths]
    ELSE tracker

ReadBy(r, paths) ==
    /\ reads' = [reads EXCEPT ![r] = @ \cup paths]
    /\ tracker' = Tracked(r, paths)

\* state.get(key), key in state, or state[key] that finds the key.
Lookup(r, p) ==
    /\ pc[r] = "node"
    /\ Front(p) \in Views(r)
    /\ p \notin reads[r]
    /\ ReadBy(r, {p})
    /\ UNCHANGED <<pc, call, given, late, result, exc, report, span, returned>>

\* state[key] that does not find the key and is not caught by the node.
LookupFails(r, p) ==
    /\ pc[r] = "node"
    /\ Front(p) \in Views(r)
    /\ ~Has(given[r], p)
    /\ ReadBy(r, {p})
    /\ Throw(r, "KeyError", "handle")
    /\ UNCHANGED <<call, given, late, result, report, span, returned>>

\* Iterating, or taking the length of, the mapping at p records every key.
Iterate(r, p) ==
    /\ pc[r] = "node"
    /\ p \in Views(r)
    /\ ~(Children(given[r], p) \subseteq reads[r])
    /\ ReadBy(r, Children(given[r], p))
    /\ UNCHANGED <<pc, call, given, late, result, exc, report, span, returned>>

NodeReturns(r) ==
    /\ pc[r] = "node"
    /\ \E u \in Update : result' = [result EXCEPT ![r] = u]
    /\ pc' = [pc EXCEPT ![r] = "audit"]
    /\ UNCHANGED <<call, given, reads, late, tracker, exc, report, span, returned>>

NodeRaises(r) ==
    /\ pc[r] = "node"
    /\ Throw(r, "NodeError", "handle")
    /\ UNCHANGED <<call, given, reads, late, tracker, result, report, span, returned>>

\* Mutant: `except BaseException`.
CancelledIsHandled(r) ==
    /\ pc[r] = "node"
    /\ Throw(r, "Cancelled", "handle")
    /\ UNCHANGED <<call, given, reads, late, tracker, result, report, span, returned>>

\* CancelledError or KeyboardInterrupt: no except clause sees it.
NodeCancelled(r) ==
    /\ pc[r] = "node"
    /\ Throw(r, "Cancelled", "exit")
    /\ UNCHANGED <<call, given, reads, late, tracker, result, report, span, returned>>

\* Mutant: every tracked read is audited at once, the late ones too.
AuditedLateRead(r, p) ==
    /\ pc[r] = "done" /\ span[r].input # {}
    /\ Cardinality(late[r]) < MaxLateReads
    /\ late' = [late EXCEPT ![r] = @ \cup {p}]
    /\ tracker' = Tracked(r, {p})
    /\ report' = [report EXCEPT ![r].read =
                    ViolationReport(UndeclaredReads(call[r].contract, tracker'[r]), "warn")]
    /\ UNCHANGED <<pc, call, given, reads, result, exc, span, returned>>

\* A task or a value that kept the tracked state reads it after the node left.
LateRead(r, p) ==
    /\ pc[r] \in {"audit", "validate", "output", "handle", "exit", "done"}
    /\ span[r].input # {}
    /\ Cardinality(late[r]) < MaxLateReads
    /\ Front(p) \in Views(r)
    /\ late' = [late EXCEPT ![r] = @ \cup {p}]
    /\ tracker' = Tracked(r, {p})
    /\ UNCHANGED <<pc, call, given, reads, result, exc, report, span, returned>>

(* After the node function returned.                                       *)

\* enforce_undeclared_reads.
AuditReads(r) ==
    LET undeclared == UndeclaredReads(call[r].contract, tracker[OwnTracker(r)])
        found == IF TracksReads(r)
                 THEN ViolationReport(undeclared, OnReadViolation(r))
                 ELSE NoReport
    IN  /\ pc[r] = "audit"
        /\ report' = [report EXCEPT ![r].read = found]
        /\ IF found.level = "error"
           THEN Throw(r, "StateContractError", "handle")
           ELSE pc' = [pc EXCEPT ![r] = "validate"] /\ UNCHANGED exc
        /\ UNCHANGED <<call, given, reads, late, tracker, result, span, returned>>

\* validate_update: None has no items.
ValidateNoUpdate(r) ==
    /\ pc[r] = "validate"
    /\ result[r] = None
    /\ Throw(r, "AttributeError", "handle")
    /\ UNCHANGED <<call, given, reads, late, tracker, result, report, span, returned>>

\* Mutant: the output is recorded before it is validated.
RecordsThenValidates(r) ==
    LET found == ViolationReport(UndeclaredWrites(call[r].contract, result[r]), OnViolation(r))
    IN  /\ pc[r] = "validate"
        /\ result[r] # None
        /\ span' = [span EXCEPT ![r].output = {PublicOutput(r)}]
        /\ report' = [report EXCEPT ![r].write = found]
        /\ IF found.level = "error"
           THEN Throw(r, "StateContractError", "handle")
           ELSE pc' = [pc EXCEPT ![r] = "output"] /\ UNCHANGED exc
        /\ UNCHANGED <<call, given, reads, late, tracker, result, returned>>

\* Mutant: the private outputs are forgotten.
ValidatesPublicOnly(r) ==
    LET public == [call[r].contract EXCEPT !.privateOutputs = {}]
        found == ViolationReport(UndeclaredWrites(public, result[r]), OnViolation(r))
    IN  /\ pc[r] = "validate"
        /\ result[r] # None
        /\ report' = [report EXCEPT ![r].write = found]
        /\ IF found.level = "error"
           THEN Throw(r, "StateContractError", "handle")
           ELSE pc' = [pc EXCEPT ![r] = "output"] /\ UNCHANGED exc
        /\ UNCHANGED <<call, given, reads, late, tracker, result, span, returned>>

\* validate_update.
ValidateWrites(r) ==
    LET found == ViolationReport(UndeclaredWrites(call[r].contract, result[r]), OnViolation(r))
    IN  /\ pc[r] = "validate"
        /\ result[r] # None
        /\ report' = [report EXCEPT ![r].write = found]
        /\ IF found.level = "error"
           THEN Throw(r, "StateContractError", "handle")
           ELSE pc' = [pc EXCEPT ![r] = "output"] /\ UNCHANGED exc
        /\ UNCHANGED <<call, given, reads, late, tracker, result, span, returned>>

RecordOutput(r) ==
    /\ pc[r] = "output"
    /\ span' = [span EXCEPT ![r].output = {PublicOutput(r)}]
    /\ returned' = [returned EXCEPT ![r] = result[r]]
    /\ pc' = [pc EXCEPT ![r] = "exit"]
    /\ UNCHANGED <<call, given, reads, late, tracker, result, exc, report>>

\* The projected output cannot be serialized: the node's update is lost.
RecordOutputFails(r) ==
    /\ pc[r] = "output"
    /\ Throw(r, "TelemetryError", "handle")
    /\ UNCHANGED <<call, given, reads, late, tracker, result, report, span, returned>>

(* `except Exception` and the end of the with block.                       *)

HandleError(r) ==
    /\ pc[r] = "handle"
    /\ span' = [span EXCEPT ![r].status = "error"]
    /\ pc' = [pc EXCEPT ![r] = "exit"]
    /\ UNCHANGED <<call, given, reads, late, tracker, result, exc, report, returned>>

\* Mutant: marking is tried again until it works.
MarkAgain(r) ==
    /\ pc[r] = "handle"
    /\ Throw(r, IF exc[r] = "TelemetryError" THEN "NodeError" ELSE "TelemetryError", "handle")
    /\ UNCHANGED <<call, given, reads, late, tracker, result, report, span, returned>>

\* mark_span_error raises: its exception replaces the one being handled.
HandleErrorFails(r) ==
    /\ pc[r] = "handle"
    /\ Throw(r, "TelemetryError", "exit")
    /\ UNCHANGED <<call, given, reads, late, tracker, result, report, span, returned>>

\* start_as_current_span marks the exceptions it sees and ends the span.
EndSpan(r) ==
    /\ pc[r] = "exit"
    /\ span' = [span EXCEPT ![r].open = FALSE,
                            ![r].status = IF exc[r] \in Errors THEN "error" ELSE @]
    /\ pc' = [pc EXCEPT ![r] = "done"]
    /\ UNCHANGED <<call, given, reads, late, tracker, result, exc, report, returned>>

-------------------------------------------------------------------------------

Node(r) ==
    \/ \E p \in Access : Lookup(r, p) \/ LookupFails(r, p)
    \/ \E p \in Views(r) : Iterate(r, p)
    \/ NodeReturns(r) \/ NodeRaises(r) \/ NodeCancelled(r)

Wrapper(r) ==
    \/ OpenSpan(r) \/ OpenSpanFails(r)
    \/ RecordInput(r) \/ RecordInputFails(r)
    \/ AuditReads(r)
    \/ ValidateNoUpdate(r) \/ ValidateWrites(r)
    \/ RecordOutput(r) \/ RecordOutputFails(r)
    \/ HandleError(r) \/ HandleErrorFails(r)
    \/ EndSpan(r)

\* Every call has ended: the graph run is over.
Finished == (\A r \in Run : pc[r] = "done") /\ UNCHANGED vars

Next ==
    \/ \E r \in Run : Wrapper(r) \/ Node(r) \/ \E p \in Access : LateRead(r, p)
    \/ Finished

Spec == Init /\ [][Next]_vars

\* The wrapper is straight-line code: a thread or task that can go on does.
\* Nothing makes the node function return.
FairSpec == Spec /\ \A r \in Run : WF_vars(Wrapper(r))

-------------------------------------------------------------------------------
(* Properties.                                                             *)

Report == [level : {"none", "warning", "error"}, paths : SUBSET Path]

PcValues == {"call", "input", "node", "audit", "validate", "output", "handle", "exit", "done"}

IsSpan(s) ==
    /\ s = [open |-> s.open, status |-> s.status, input |-> s.input, output |-> s.output]
    /\ s.open \in BOOLEAN
    /\ s.status \in {"unset", "error"}
    /\ \A t \in s.input \cup s.output : IsTree(t)

\* Every variable keeps its type; states, updates and span payloads stay trees.
TypeOK ==
    /\ pc \in [Run -> PcValues]
    /\ call \in [Run -> [mode : Mode, contract : Contract, state : State]]
    /\ DOMAIN given = Run /\ \A r \in Run : IsTree(given[r])
    /\ reads \in [Run -> SUBSET Path]
    /\ late \in [Run -> SUBSET Path]
    /\ tracker \in [Run -> SUBSET Path]
    /\ result \in [Run -> Update \cup {None}]
    /\ exc \in [Run -> Errors \cup {"none", "Cancelled"}]
    /\ report \in [Run -> [read : Report, write : Report]]
    /\ DOMAIN span = Run /\ \A r \in Run : IsSpan(span[r])
    /\ returned \in [Run -> Update \cup {None}]

\* Strict execution guarantees the node's boundary: when a wrapper returns an
\* update under ENFORCE, everything the node function read and every leaf it
\* wrote is declared by its contract.
EnforcedRunStaysInBoundary ==
    \A r \in Run :
        Accepted(r) /\ call[r].mode = "enforce" =>
            /\ UndeclaredReads(call[r].contract, reads[r]) = {}
            /\ UndeclaredWrites(call[r].contract, returned[r]) = {}

\* Under ENFORCE an undeclared read, even through a view that outlives the
\* node, finds nothing: the audit and the projected input agree on what is
\* declared, so iterating the input is never itself a violation.
UndeclaredReadsFindNothing ==
    \A r \in Run :
        call[r].mode = "enforce" =>
            \A p \in UndeclaredReads(call[r].contract, reads[r] \cup late[r]) :
                ~Has(given[r], p)

\* Whatever the mode, a read at or below a declared path finds in the node's
\* input what the graph state has there: strict projection takes nothing away
\* that the contract grants.  (Of states whose nested mappings can be changed; see
\* StateTrees!InputIsCoveredLeaves for the others.)
DeclaredReadsAreGiven ==
    \A r \in Run : \A p \in reads[r] :
        (\E policy \in ExecutionInputPolicies(call[r].contract) : Covers(policy, p)) =>
            /\ Has(given[r], p) <=> Has(call[r].state, p)
            /\ \A q \in DOMAIN call[r].state :
                IsPrefix(p, q) => q \in DOMAIN given[r] /\ given[r][q] = call[r].state[q]

\* However it ends, a pass-through call reports no violation as an error and raises
\* none.  One that returns its update has warned of every undeclared read (AUDIT)
\* and write, and blamed the node for no path it did not touch.
PassThroughWarnsExactly ==
    \A r \in Run : PassThrough(r) =>
        /\ "error" \notin {report[r].read.level, report[r].write.level}
        /\ exc[r] # "StateContractError"
        /\ Accepted(r) =>
            LET c == call[r].contract
                warned == report[r].read.paths
            IN  /\ report[r].write = ViolationReport(UndeclaredWrites(c, returned[r]), "warn")
                /\ call[r].mode = "audit" =>
                    /\ UndeclaredReads(c, reads[r]) \subseteq warned
                    /\ warned \subseteq UndeclaredReads(c, reads[r] \cup late[r])
                /\ call[r].mode = "observe" => warned = {}

\* Overlapping calls never share a tracker: a call is only blamed for reads
\* that it made itself.
BlameIsLocal ==
    \A r \in Run : report[r].read.paths \subseteq reads[r] \cup late[r]

\* A violation that raises ends the call: no output reaches the span, nothing is
\* returned, and after an undeclared read the writes are not even looked at.
NoResultAfterViolation ==
    \A r \in Run :
        "error" \in {report[r].read.level, report[r].write.level} =>
            /\ exc[r] \in {"StateContractError", "TelemetryError"}
            /\ returned[r] = None /\ span[r].output = {}
            /\ report[r].read.level = "error" => report[r].write = NoReport

\* A finished span tells how the call ended: it is closed, it has error status
\* exactly when an exception (and not a cancellation) left the wrapper, and it
\* carries both payloads exactly when an update was returned.
SpanTellsOutcome ==
    \A r \in Run :
        pc[r] = "done" =>
            /\ ~span[r].open
            /\ span[r].status = "error" <=> exc[r] \notin {"none", "Cancelled"}
            /\ exc[r] = "none" <=> span[r].output # {}
            /\ exc[r] \in {"none", "Cancelled"} => span[r].input # {}

\* The payloads of a span are public: no private path appears in them, whatever
\* the mode, the update or the point at which the call failed.  The message of an
\* exception that is put on the span is the node's own and not restricted.
SpanIsPublic ==
    \A r \in Run :
        LET c == call[r].contract
        IN  /\ \A t \in span[r].input : \A p \in DOMAIN t : Covers(c.inputs, p)
            /\ \A t \in span[r].output : \A p \in DOMAIN t : Covers(c.outputs, p)

\* Once a call has ended, late reads change nothing that was said about it.
EndedCallsAreFrozen ==
    [][\A r \in Run : pc[r] = "done" =>
        UNCHANGED <<pc[r], exc[r], report[r], span[r], returned[r]>>]_vars

\* Whatever the node function does once it is left, the span is closed.
EveryLeftCallEnds ==
    \A r \in Run : pc[r] \notin {"call", "input", "node"} ~> pc[r] = "done"

\* How each call stands for the abstract boundary.
OutcomeOf(r) ==
    IF pc[r] # "done" THEN "running"
    ELSE IF exc[r] = "none" THEN "accepted"
    ELSE IF exc[r] = "StateContractError" THEN "rejected"
    ELSE "failed"

TermsOf(r) == [mode |-> call[r].mode, contract |-> call[r].contract]

ValueOf(r) == IF pc[r] = "done" THEN returned[r] ELSE None

Boundary == INSTANCE ContractBoundary WITH
    terms   <- [r \in Run |-> TermsOf(r)],
    outcome <- [r \in Run |-> OutcomeOf(r)],
    touched <- reads,
    seen    <- [r \in Run |-> reads[r] \cup late[r]],
    offered <- result,
    value   <- [r \in Run |-> ValueOf(r)]

\* The instrumented lifecycle implements the boundary a contract promises: an update
\* is accepted as the node returned it, a strict call only within its boundary, and a
\* call is rejected only in strict mode and only for what it read or returned itself.
ImplementsBoundary == Boundary!BoundarySpec

\* The doc of ENFORCE: "an undeclared read or write raises StateContractError".
\* Telemetry failures and cancellation aside.
UndeclaredReadRaisesContractError ==
    \A r \in Run :
        /\ pc[r] = "done" /\ call[r].mode = "enforce"
        /\ UndeclaredReads(call[r].contract, reads[r]) # {}
        /\ exc[r] \notin {"Cancelled", "TelemetryError"}
        => exc[r] = "StateContractError"

\* The doc of OBSERVE: "trace hygiene without any execution change".  Once the
\* node has returned, the wrapper returns the same.
ObserveChangesNothing ==
    \A r \in Run :
        pc[r] = "done" /\ call[r].mode = "observe" /\ result[r] # None
        => returned[r] = result[r]
===============================================================================
