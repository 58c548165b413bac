-------------------------- MODULE ContractRunProofs --------------------------
(***************************************************************************)
(* Theorems about ContractRun, for any set of calls, contracts, states and *)
(* updates.                                                                *)
(***************************************************************************)
EXTENDS ContractRun, StatePathsProofs

-------------------------------------------------------------------------------
(* The inductive invariant: what holds of one call at each point of its    *)
(* lifecycle.                                                              *)

InFlight == {"call", "input", "node", "audit", "validate", "output"}

\* The call is past the check, or ended without an exception.
PastAudit(r) == pc[r] \in {"validate", "output"} \/ (pc[r] \in {"exit", "done"} /\ exc[r] = "none")

PastValidation(r) == pc[r] = "output" \/ (pc[r] \in {"exit", "done"} /\ exc[r] = "none")

Settled(r) == pc[r] \in {"exit", "done"} /\ exc[r] = "none"

\* The tracker holds exactly what was read in the call's name.
TrackerInv(r) == TracksReads(r) => tracker[r] = reads[r] \cup late[r]

\* Nothing is read before the input is recorded and built.
InputInv(r) ==
    /\ span[r].input = {} => reads[r] = {} /\ late[r] = {} /\ given[r] = EmptyTree
    /\ span[r].input # {} => given[r] = NodeInput(r) /\ span[r].input = {PublicInput(r)}
    /\ pc[r] \in {"call", "input"} => span[r].input = {}
    /\ pc[r] \in {"node", "audit", "validate", "output"} => span[r].input # {}

\* The exception in flight, the span's status and its output go together.
OutcomeInv(r) ==
    /\ pc[r] \in InFlight => exc[r] = "none"
    /\ pc[r] = "handle" => exc[r] \in Errors
    /\ pc[r] \in InFlight \cup {"handle"} => span[r].status = "unset"
    /\ exc[r] \in {"none", "Cancelled"} => span[r].status = "unset"
    /\ exc[r] = "Cancelled" => span[r].input # {}
    /\ pc[r] = "done" => ~span[r].open /\ (exc[r] \in Errors => span[r].status = "error")
    /\ ~Settled(r) => span[r].output = {} /\ returned[r] = None
    /\ Settled(r) => /\ span[r].input # {}
                     /\ returned[r] = result[r]
                     /\ span[r].output = {PublicOutput(r)}

\* An error is reported only where StateContractError is raised.
ReportInv(r) ==
    /\ pc[r] \in {"call", "input", "node", "audit"} => report[r].read = NoReport
    /\ pc[r] \in InFlight \ {"output"} => report[r].write = NoReport
    /\ "error" \in {report[r].read.level, report[r].write.level} =>
        /\ exc[r] \in {"StateContractError", "TelemetryError"}
        /\ call[r].mode = "enforce"
    /\ report[r].read.level = "error" => report[r].write = NoReport
    /\ report[r].read.paths \subseteq reads[r] \cup late[r]

\* What a strict call that is past its checks has read and will return.
BoundaryInv(r) ==
    /\ PastAudit(r) /\ call[r].mode = "enforce" =>
        UndeclaredReads(call[r].contract, reads[r]) = {}
    /\ pc[r] \in {"call", "input", "node"} => result[r] = None
    /\ PastValidation(r) => result[r] # None
    /\ PastValidation(r) /\ call[r].mode = "enforce" =>
        UndeclaredWrites(call[r].contract, result[r]) = {}

\* StateContractError is only raised in strict mode, over what was read by then
\* or what the node returned.
BlameInv(r) ==
    exc[r] = "StateContractError" =>
        /\ call[r].mode = "enforce"
        /\ \/ UndeclaredReads(call[r].contract, reads[r] \cup late[r]) # {}
           \/ result[r] # None /\ UndeclaredWrites(call[r].contract, result[r]) # {}

CallInv(r) ==
    TrackerInv(r) /\ InputInv(r) /\ OutcomeInv(r) /\ ReportInv(r) /\ BoundaryInv(r) /\ BlameInv(r)

IInv == TypeOK /\ \A r \in Run : CallInv(r)

-------------------------------------------------------------------------------
(* A step of one call.                                                     *)

Step(r) == Wrapper(r) \/ Node(r) \/ \E p \in Access : LateRead(r, p)

\* A call's terms never change, so neither does what they decide.
LEMMA TermsAreFixed ==
    ASSUME UNCHANGED call
    PROVE  \A r \in Run :
            /\ PassThrough(r)' = PassThrough(r)
            /\ TracksReads(r)' = TracksReads(r)
            /\ NodeInput(r)' = NodeInput(r)
            /\ PublicInput(r)' = PublicInput(r)
  BY DEF PassThrough, TracksReads, NodeInput, PublicInput

\* A strict call raises, any other warns; reads are tracked unless observing.
LEMMA ModeDecides ==
    ASSUME TypeOK, NEW r \in Run
    PROVE  /\ PassThrough(r) <=> call[r].mode # "enforce"
           /\ TracksReads(r) <=> call[r].mode # "observe"
           /\ OnViolation(r) = IF call[r].mode = "enforce" THEN "raise" ELSE "warn"
           /\ OnReadViolation(r) = OnViolation(r)
  <1>1. call[r].mode \in {"observe", "audit", "enforce"}
    BY DEF TypeOK, Mode
  <1> QED
    BY <1>1 DEF PassThrough, TracksReads, OnViolation, OnReadViolation, ModeExecution

\* A step of one call leaves every part of every other call alone.
LEMMA StepIsLocal ==
    ASSUME TypeOK, NEW r \in Run, NEW q \in Run, q # r, Step(r)
    PROVE  /\ pc'[q] = pc[q] /\ call' = call /\ given'[q] = given[q]
           /\ reads'[q] = reads[q] /\ late'[q] = late[q] /\ tracker'[q] = tracker[q]
           /\ result'[q] = result[q] /\ exc'[q] = exc[q] /\ report'[q] = report[q]
           /\ span'[q] = span[q] /\ returned'[q] = returned[q]
  <1> USE DEF TypeOK, OwnTracker, Tracked, ReadBy, Throw
  <1>1. CASE Wrapper(r)
    BY <1>1 DEF Wrapper, OpenSpan, OpenSpanFails, RecordInput, RecordInputFails, AuditReads,
        ValidateNoUpdate, ValidateWrites, RecordOutput, RecordOutputFails, HandleError,
        HandleErrorFails, EndSpan
  <1>2. CASE Node(r)
    BY <1>2 DEF Node, Lookup, LookupFails, Iterate, NodeReturns, NodeRaises, NodeCancelled
  <1>3. CASE \E p \in Access : LateRead(r, p)
    BY <1>3 DEF LateRead
  <1> QED
    BY <1>1, <1>2, <1>3 DEF Step

\* What holds of a call goes on holding while no part of the call changes.
LEMMA UntouchedKeepsInv ==
    ASSUME NEW q \in Run, CallInv(q), call' = call, pc'[q] = pc[q], given'[q] = given[q],
           reads'[q] = reads[q], late'[q] = late[q], tracker'[q] = tracker[q],
           result'[q] = result[q], exc'[q] = exc[q], report'[q] = report[q],
           span'[q] = span[q], returned'[q] = returned[q]
    PROVE  CallInv(q)'
  <1>1. /\ TracksReads(q)' = TracksReads(q) /\ NodeInput(q)' = NodeInput(q)
        /\ PublicInput(q)' = PublicInput(q)
    BY TermsAreFixed
  <1>2. PublicOutput(q)' = PublicOutput(q)
    BY DEF PublicOutput
  <1>3. TrackerInv(q)' /\ InputInv(q)'
    BY <1>1 DEF CallInv, TrackerInv, InputInv
  <1>4. OutcomeInv(q)'
    BY <1>2 DEF CallInv, OutcomeInv, Settled
  <1>5. ReportInv(q)' /\ BoundaryInv(q)' /\ BlameInv(q)'
    BY DEF CallInv, ReportInv, BoundaryInv, BlameInv, PastAudit, PastValidation
  <1> QED
    BY <1>3, <1>4, <1>5 DEF CallInv

\* So a step of one call keeps what holds of the others.
LEMMA OthersKeepInv ==
    ASSUME IInv, NEW r \in Run, NEW q \in Run, q # r, Step(r)
    PROVE  CallInv(q)'
  <1>1. TypeOK /\ CallInv(q)
    BY DEF IInv
  <1> QED
    BY <1>1, StepIsLocal, UntouchedKeepsInv

-------------------------------------------------------------------------------
(* Types.                                                                  *)

\* What the node is given, and what is recorded of it, are states.
LEMMA PayloadsAreTrees ==
    ASSUME TypeOK, NEW r \in Run
    PROVE  /\ IsTree(NodeInput(r))
           /\ IsTree(PublicInput(r))
           /\ result[r] # None => IsTree(PublicOutput(r))
           /\ IsTree(EmptyTree)
  <1>1. IsTree(call[r].state)
    BY ContractRunAssumption DEF TypeOK
  <1>2. result[r] # None => IsTree(result[r])
    BY ContractRunAssumption DEF TypeOK
  <1>3. IsTree(EmptyTree)
    BY DEF IsTree, EmptyTree
  <1> QED
    BY <1>1, <1>2, <1>3, ExecutionInput, ProjectIsTree DEF NodeInput, PublicInput, PublicOutput

\* The paths a node can reach are paths.
LEMMA ReachIsTyped ==
    ASSUME TypeOK, NEW r \in Run
    PROVE  /\ Views(r) \subseteq Path \cup {<<>>}
           /\ \A p \in Views(r) : Children(given[r], p) \subseteq Path
  <1>1. Views(r) \subseteq Path \cup {<<>>}
    BY DEF Views, TypeOK
  <1> QED
    BY <1>1, ChildrenArePaths DEF TypeOK

\* A violation report is a report.
LEMMA ReportIsTyped ==
    ASSUME NEW paths \in SUBSET Path, NEW action
    PROVE  ViolationReport(paths, action) \in Report /\ NoReport \in Report
  BY DEF ViolationReport, NoReport, Report

\* Type correctness holds initially and is kept by every step, given the rest of
\* the invariant: a call that records its output has an update.
LEMMA InitTyped == Init => TypeOK
  <1> SUFFICES ASSUME Init PROVE TypeOK
    OBVIOUS
  <1>1. IsTree(EmptyTree)
    BY DEF IsTree, EmptyTree
  <1>2. IsSpan(NewSpan)
    BY DEF IsSpan, NewSpan
  <1>3. [read |-> NoReport, write |-> NoReport] \in [read : Report, write : Report]
    BY DEF NoReport, Report
  <1> QED
    BY <1>1, <1>2, <1>3 DEF Init, TypeOK, PcValues, Errors

\* Setting one field of a span keeps the others.
LEMMA SetStatus ==
    ASSUME NEW s, NEW status,
           s = [open |-> s.open, status |-> s.status, input |-> s.input, output |-> s.output]
    PROVE  [s EXCEPT !.status = status] =
            [open |-> s.open, status |-> status, input |-> s.input, output |-> s.output]
  OBVIOUS

\* Every way the code writes to a span leaves a span.
LEMMA SpanUpdates ==
    ASSUME NEW s, IsSpan(s)
    PROVE  /\ IsSpan([s EXCEPT !.open = TRUE])
           /\ IsSpan([s EXCEPT !.status = "error"])
           /\ \A t : IsTree(t) => IsSpan([s EXCEPT !.input = {t}])
           /\ \A t : IsTree(t) => IsSpan([s EXCEPT !.output = {t}])
           /\ \A status \in {"unset", "error"} :
                IsSpan([s EXCEPT !.open = FALSE, !.status = status])
  <1>1. s = [open |-> s.open, status |-> s.status, input |-> s.input, output |-> s.output]
    BY DEF IsSpan
  <1>2. \A open : [s EXCEPT !.open = open] =
            [open |-> open, status |-> s.status, input |-> s.input, output |-> s.output]
    BY <1>1
  <1>3. \A status : [s EXCEPT !.status = status] =
            [open |-> s.open, status |-> status, input |-> s.input, output |-> s.output]
    BY <1>1, SetStatus
  <1>4. \A t : /\ [s EXCEPT !.input = {t}] =
                    [open |-> s.open, status |-> s.status, input |-> {t}, output |-> s.output]
               /\ [s EXCEPT !.output = {t}] =
                    [open |-> s.open, status |-> s.status, input |-> s.input, output |-> {t}]
    BY <1>1
  <1>5. ASSUME NEW status \in {"unset", "error"}
        PROVE  IsSpan([s EXCEPT !.open = FALSE, !.status = status])
    <2> DEFINE closed ==
            [open |-> FALSE, status |-> s.status, input |-> s.input, output |-> s.output]
    <2>1. [s EXCEPT !.open = FALSE] = closed
      BY <1>2
    <2>2. [s EXCEPT !.open = FALSE, !.status = status] = [closed EXCEPT !.status = status]
      BY <2>1
    <2>3. [closed EXCEPT !.status = status] =
            [open |-> FALSE, status |-> status, input |-> s.input, output |-> s.output]
      <3>1. /\ closed = [open |-> closed.open, status |-> closed.status,
                         input |-> closed.input, output |-> closed.output]
            /\ closed.open = FALSE /\ closed.input = s.input /\ closed.output = s.output
        OBVIOUS
      <3> HIDE DEF closed
      <3> QED
        BY <3>1, SetStatus
    <2> QED
      BY <2>2, <2>3 DEF IsSpan
  <1> QED
    BY <1>2, <1>3, <1>4, <1>5 DEF IsSpan

\* The variables other than the span, for a step of the wrapper.
LEMMA WrapperTyped ==
    ASSUME IInv, NEW r \in Run, Wrapper(r)
    PROVE  TypeOK'
  <1> USE DEF TypeOK, PcValues, Errors, Throw
  <1>0. TypeOK /\ CallInv(r) /\ IsSpan(span[r])
    BY DEF IInv
  <1>1. CASE OpenSpan(r)
    <2>1. \A q \in Run : IsSpan(span'[q])
      BY <1>1, <1>0, SpanUpdates DEF OpenSpan
    <2> QED
      BY <1>1, <1>0, <2>1 DEF OpenSpan
  <1>2. CASE OpenSpanFails(r)
    <2>1. \A q \in Run : IsSpan(span'[q])
      BY <1>2, <1>0, SpanUpdates DEF OpenSpanFails
    <2> QED
      BY <1>2, <1>0, <2>1 DEF OpenSpanFails
  <1>3. CASE RecordInput(r)
    <2>1. \A q \in Run : IsSpan(span'[q])
      BY <1>3, <1>0, PayloadsAreTrees, SpanUpdates DEF RecordInput
    <2> QED
      BY <1>3, <1>0, <2>1, PayloadsAreTrees DEF RecordInput
  <1>4. CASE AuditReads(r)
    <2> DEFINE found == IF TracksReads(r)
                        THEN ViolationReport(UndeclaredReads(call[r].contract, tracker[OwnTracker(r)]),
                                             OnReadViolation(r))
                        ELSE NoReport
    <2>1. UndeclaredReads(call[r].contract, tracker[OwnTracker(r)]) \in SUBSET Path
      BY <1>0 DEF UndeclaredReads, OwnTracker
    <2>2. found \in Report
      BY <2>1, ReportIsTyped
    <2>3. report' = [report EXCEPT ![r].read = found]
      BY <1>4 DEF AuditReads
    <2> HIDE DEF found
    <2>4. report' \in [Run -> [read : Report, write : Report]]
      BY <1>0, <2>2, <2>3
    <2>5. pc' \in [Run -> PcValues] /\ exc' \in [Run -> Errors \cup {"none", "Cancelled"}]
      <3>1. \E at \in PcValues : pc' = [pc EXCEPT ![r] = at]
        BY <1>4 DEF AuditReads
      <3>2. exc' = exc \/ exc' = [exc EXCEPT ![r] = "StateContractError"]
        BY <1>4 DEF AuditReads
      <3> QED
        BY <1>0, <3>1, <3>2
    <2>6. UNCHANGED <<call, given, reads, late, tracker, result, span, returned>>
      BY <1>4 DEF AuditReads
    <2> QED
      BY <1>0, <2>4, <2>5, <2>6
  <1>5. CASE ValidateWrites(r)
    <2> DEFINE found == ViolationReport(UndeclaredWrites(call[r].contract, result[r]), OnViolation(r))
    <2>1. UndeclaredWrites(call[r].contract, result[r]) \in SUBSET Path
      BY <1>5, <1>0, ContractRunAssumption DEF UndeclaredWrites, ValidateWrites, IsTree
    <2>2. found \in Report
      BY <2>1, ReportIsTyped
    <2>3. report' = [report EXCEPT ![r].write = found]
      BY <1>5 DEF ValidateWrites
    <2> HIDE DEF found
    <2>4. report' \in [Run -> [read : Report, write : Report]]
      BY <1>0, <2>2, <2>3
    <2>5. pc' \in [Run -> PcValues] /\ exc' \in [Run -> Errors \cup {"none", "Cancelled"}]
      <3>1. \E at \in PcValues : pc' = [pc EXCEPT ![r] = at]
        BY <1>5 DEF ValidateWrites
      <3>2. exc' = exc \/ exc' = [exc EXCEPT ![r] = "StateContractError"]
        BY <1>5 DEF ValidateWrites
      <3> QED
        BY <1>0, <3>1, <3>2
    <2>6. UNCHANGED <<call, given, reads, late, tracker, result, span, returned>>
      BY <1>5 DEF ValidateWrites
    <2> QED
      BY <1>0, <2>4, <2>5, <2>6
  <1>6. ASSUME \E e \in Errors : Throw(r, e, "handle") \/ Throw(r, e, "exit"),
               UNCHANGED <<call, given, reads, late, tracker, result, report, span, returned>>
        PROVE  TypeOK'
    <2>1. PICK e \in Errors, at \in {"handle", "exit"} :
            pc' = [pc EXCEPT ![r] = at] /\ exc' = [exc EXCEPT ![r] = e]
      BY <1>6
    <2>2. pc' \in [Run -> PcValues]
      BY <1>0, <2>1
    <2>3. exc' \in [Run -> Errors \cup {"none", "Cancelled"}]
      BY <1>0, <2>1
    <2> QED
      BY <1>0, <1>6, <2>2, <2>3
  <1>7. CASE RecordInputFails(r) \/ ValidateNoUpdate(r) \/ RecordOutputFails(r) \/ HandleErrorFails(r)
    BY <1>6, <1>7 DEF RecordInputFails, ValidateNoUpdate, RecordOutputFails, HandleErrorFails
  <1>8. CASE RecordOutput(r)
    <2>1. IsTree(PublicOutput(r))
      BY <1>8, <1>0, PayloadsAreTrees DEF RecordOutput, CallInv, BoundaryInv, PastValidation
    <2>2. \A q \in Run : IsSpan(span'[q])
      BY <1>8, <1>0, <2>1, SpanUpdates DEF RecordOutput
    <2> QED
      BY <1>8, <1>0, <2>2 DEF RecordOutput
  <1>9. CASE HandleError(r)
    <2>1. \A q \in Run : IsSpan(span'[q])
      BY <1>9, <1>0, SpanUpdates DEF HandleError
    <2> QED
      BY <1>9, <1>0, <2>1 DEF HandleError
  <1>10. CASE EndSpan(r)
    <2>1. (IF exc[r] \in Errors THEN "error" ELSE span[r].status) \in {"unset", "error"}
      BY <1>0 DEF IsSpan
    <2>2. \A q \in Run : IsSpan(span'[q])
      BY <1>10, <1>0, <2>1, SpanUpdates DEF EndSpan
    <2> QED
      BY <1>10, <1>0, <2>2 DEF EndSpan
  <1> QED
    BY <1>1, <1>2, <1>3, <1>4, <1>5, <1>7, <1>8, <1>9, <1>10 DEF Wrapper

\* Steps of the node function keep the types.
LEMMA NodeTyped ==
    ASSUME IInv, NEW r \in Run, Node(r) \/ \E p \in Access : LateRead(r, p)
    PROVE  TypeOK'
  <1> USE DEF TypeOK, PcValues, Errors, Throw, Tracked, OwnTracker, ReadBy
  <1>0. TypeOK
    BY DEF IInv
  <1>1. ASSUME NEW p \in Access, Lookup(r, p) \/ LookupFails(r, p) \/ LateRead(r, p)
        PROVE  TypeOK'
    <2>1. p \in Path
      BY ContractRunAssumption
    <2>2. CASE Lookup(r, p)
      BY <2>1, <2>2, <1>0 DEF Lookup
    <2>3. CASE LookupFails(r, p)
      BY <2>1, <2>3, <1>0 DEF LookupFails
    <2>4. CASE LateRead(r, p)
      BY <2>1, <2>4, <1>0 DEF LateRead
    <2> QED
      BY <1>1, <2>2, <2>3, <2>4
  <1>2. ASSUME NEW p \in Views(r), Iterate(r, p)
        PROVE  TypeOK'
    <2>1. Children(given[r], p) \subseteq Path
      BY <1>0, ReachIsTyped
    <2> QED
      BY <1>2, <1>0, <2>1 DEF Iterate
  <1>3. CASE NodeReturns(r)
    BY <1>3, <1>0 DEF NodeReturns
  <1>4. CASE NodeRaises(r) \/ NodeCancelled(r)
    BY <1>4, <1>0 DEF NodeRaises, NodeCancelled
  <1> QED
    BY <1>1, <1>2, <1>3, <1>4 DEF Node

-------------------------------------------------------------------------------
(* The invariant is kept by each action.                                   *)

\* The invariant holds before any call.
LEMMA InitInv == Init => IInv
  <1> SUFFICES ASSUME Init PROVE IInv
    OBVIOUS
  <1>1. TypeOK
    BY InitTyped
  <1>2. ASSUME NEW r \in Run
        PROVE  CallInv(r)
    <2>1. TrackerInv(r) /\ InputInv(r)
      BY DEF Init, TrackerInv, InputInv, NewSpan
    <2>2. OutcomeInv(r)
      BY DEF Init, OutcomeInv, NewSpan, InFlight, Settled
    <2>3. ReportInv(r)
      BY DEF Init, ReportInv, NoReport, InFlight
    <2>4. BoundaryInv(r) /\ BlameInv(r)
      BY DEF Init, BoundaryInv, BlameInv, PastAudit, PastValidation
    <2> QED
      BY <2>1, <2>2, <2>3, <2>4 DEF CallInv
  <1> QED
    BY <1>1, <1>2 DEF IInv

\* Opening the span, recording the input.
LEMMA EntryKeepsInv ==
    ASSUME IInv, NEW r \in Run,
           OpenSpan(r) \/ OpenSpanFails(r) \/ RecordInput(r) \/ RecordInputFails(r)
    PROVE  CallInv(r)'
  <1> USE DEF Throw
  <1>0. TypeOK /\ CallInv(r) /\ call' = call
    BY DEF IInv, OpenSpan, OpenSpanFails, RecordInput, RecordInputFails
  <1>1. /\ TracksReads(r)' = TracksReads(r) /\ NodeInput(r)' = NodeInput(r)
        /\ PublicInput(r)' = PublicInput(r)
    BY <1>0, TermsAreFixed
  <1>2. CASE OpenSpan(r)
    BY <1>0, <1>1, <1>2 DEF OpenSpan, TypeOK, IsSpan, CallInv, TrackerInv, InputInv, OutcomeInv,
        ReportInv, BoundaryInv, BlameInv, UndeclaredReads, InFlight, Settled, PastAudit, PastValidation
  <1>3. CASE OpenSpanFails(r)
    BY <1>0, <1>1, <1>3 DEF OpenSpanFails, TypeOK, IsSpan, CallInv, TrackerInv, InputInv,
        OutcomeInv, ReportInv, BoundaryInv, BlameInv, UndeclaredReads, InFlight, Settled, PastAudit, PastValidation, NoReport
  <1>4. CASE RecordInput(r)
    BY <1>0, <1>1, <1>4 DEF RecordInput, TypeOK, IsSpan, CallInv, TrackerInv, InputInv, OutcomeInv,
        ReportInv, BoundaryInv, BlameInv, UndeclaredReads, InFlight, Settled, PastAudit, PastValidation
  <1>5. CASE RecordInputFails(r)
    BY <1>0, <1>1, <1>5 DEF RecordInputFails, TypeOK, IsSpan, CallInv, TrackerInv, InputInv,
        OutcomeInv, ReportInv, BoundaryInv, BlameInv, UndeclaredReads, InFlight, Settled, PastAudit, PastValidation,
        Errors, NoReport
  <1> QED
    BY <1>2, <1>3, <1>4, <1>5

\* The node function, and whatever outlives it.
LEMMA NodeKeepsInv ==
    ASSUME IInv, NEW r \in Run, Node(r) \/ \E p \in Access : LateRead(r, p)
    PROVE  CallInv(r)'
  <1> USE DEF Throw, ReadBy, Tracked, OwnTracker
  <1>0. TypeOK /\ CallInv(r) /\ call' = call
    BY DEF IInv, Node, Lookup, LookupFails, Iterate, NodeReturns, NodeRaises, NodeCancelled, LateRead
  <1>1. /\ TracksReads(r)' = TracksReads(r) /\ NodeInput(r)' = NodeInput(r)
        /\ PublicInput(r)' = PublicInput(r)
    BY <1>0, TermsAreFixed
  <1>2. ASSUME NEW p, Lookup(r, p) \/ Iterate(r, p)
        PROVE  CallInv(r)'
    BY <1>0, <1>1, <1>2 DEF Lookup, Iterate, TypeOK, CallInv, TrackerInv, InputInv, OutcomeInv,
        ReportInv, BoundaryInv, BlameInv, UndeclaredReads, InFlight, Settled, PastAudit, PastValidation, NoReport
  <1>3. ASSUME NEW p, LookupFails(r, p)
        PROVE  CallInv(r)'
    BY <1>0, <1>1, <1>3 DEF LookupFails, TypeOK, CallInv, TrackerInv, InputInv, OutcomeInv,
        ReportInv, BoundaryInv, BlameInv, UndeclaredReads, InFlight, Settled, PastAudit, PastValidation, NoReport, Errors
  <1>4. ASSUME NEW p, LateRead(r, p)
        PROVE  CallInv(r)'
    <2>1. PublicOutput(r)' = PublicOutput(r)
      BY <1>0, <1>4 DEF LateRead, PublicOutput
    <2> QED
      BY <1>0, <1>1, <1>4, <2>1 DEF LateRead, TypeOK, CallInv, TrackerInv, InputInv, OutcomeInv,
        ReportInv, BoundaryInv, BlameInv, UndeclaredReads, InFlight, Settled, PastAudit, PastValidation
  <1>5. CASE NodeReturns(r)
    BY <1>0, <1>1, <1>5 DEF NodeReturns, TypeOK, CallInv, TrackerInv, InputInv, OutcomeInv,
        ReportInv, BoundaryInv, BlameInv, UndeclaredReads, InFlight, Settled, PastAudit, PastValidation
  <1>6. CASE NodeRaises(r)
    BY <1>0, <1>1, <1>6 DEF NodeRaises, TypeOK, CallInv, TrackerInv, InputInv, OutcomeInv,
        ReportInv, BoundaryInv, BlameInv, UndeclaredReads, InFlight, Settled, PastAudit, PastValidation, Errors, NoReport
  <1>7. CASE NodeCancelled(r)
    BY <1>0, <1>1, <1>7 DEF NodeCancelled, TypeOK, CallInv, TrackerInv, InputInv, OutcomeInv,
        ReportInv, BoundaryInv, BlameInv, UndeclaredReads, InFlight, Settled, PastAudit, PastValidation, Errors, NoReport
  <1> QED
    BY <1>2, <1>3, <1>4, <1>5, <1>6, <1>7 DEF Node

\* The audit, the validation and the output.
LEMMA ChecksKeepInv ==
    ASSUME IInv, NEW r \in Run,
           \/ AuditReads(r) \/ ValidateNoUpdate(r) \/ ValidateWrites(r)
           \/ RecordOutput(r) \/ RecordOutputFails(r)
    PROVE  CallInv(r)'
  <1> USE DEF Throw
  <1>0. TypeOK /\ CallInv(r) /\ call' = call
    BY DEF IInv, AuditReads, ValidateNoUpdate, ValidateWrites, RecordOutput, RecordOutputFails
  <1>1. /\ TracksReads(r)' = TracksReads(r) /\ NodeInput(r)' = NodeInput(r)
        /\ PublicInput(r)' = PublicInput(r)
    BY <1>0, TermsAreFixed
  <1>2. CASE AuditReads(r)
    <2> DEFINE undeclared == UndeclaredReads(call[r].contract, tracker[r])
               found == IF TracksReads(r)
                        THEN ViolationReport(undeclared, OnReadViolation(r))
                        ELSE NoReport
    <2>1. /\ pc[r] = "audit"
          /\ report' = [report EXCEPT ![r].read = found]
          /\ IF found.level = "error"
             THEN Throw(r, "StateContractError", "handle")
             ELSE pc' = [pc EXCEPT ![r] = "validate"] /\ UNCHANGED exc
          /\ UNCHANGED <<call, given, reads, late, tracker, result, span, returned>>
      BY <1>2 DEF AuditReads, OwnTracker
    <2>2. found.paths \subseteq reads[r] \cup late[r]
      BY <1>0 DEF ViolationReport, NoReport, UndeclaredReads, CallInv, TrackerInv
    <2>3. found.level # "error" /\ call[r].mode = "enforce" =>
            UndeclaredReads(call[r].contract, reads[r]) = {}
      BY <1>0, ModeDecides DEF ViolationReport, NoReport, UndeclaredReads, CallInv, TrackerInv
    <2>9. found.level = "error" =>
            call[r].mode = "enforce" /\ UndeclaredReads(call[r].contract, reads[r] \cup late[r]) # {}
      BY <1>0, ModeDecides DEF ViolationReport, NoReport, CallInv, TrackerInv
    <2>4. report'[r].read = found /\ report'[r].write = NoReport
      BY <1>0, <2>1 DEF TypeOK, CallInv, ReportInv, InFlight
    <2> HIDE DEF found
    <2>5. TrackerInv(r)' /\ InputInv(r)'
      BY <1>0, <1>1, <2>1 DEF TypeOK, CallInv, TrackerInv, InputInv
    <2>6. OutcomeInv(r)'
      BY <1>0, <2>1 DEF TypeOK, CallInv, OutcomeInv, InFlight, Settled, Errors
    <2>7. ReportInv(r)'
      BY <1>0, <2>1, <2>2, <2>4, <2>9 DEF TypeOK, CallInv, ReportInv, InFlight, NoReport
    <2>8. BoundaryInv(r)'
      BY <1>0, <2>1, <2>3 DEF TypeOK, CallInv, BoundaryInv, PastAudit, PastValidation
    <2>10. BlameInv(r)'
      BY <1>0, <2>1, <2>9 DEF TypeOK, CallInv, BlameInv, OutcomeInv, InFlight
    <2> QED
      BY <2>5, <2>6, <2>7, <2>8, <2>10 DEF CallInv
  <1>3. CASE ValidateNoUpdate(r)
    BY <1>0, <1>1, <1>3 DEF ValidateNoUpdate, TypeOK, CallInv, TrackerInv, InputInv, OutcomeInv,
        ReportInv, BoundaryInv, BlameInv, UndeclaredReads, InFlight, Settled, PastAudit, PastValidation, Errors, NoReport
  <1>4. CASE ValidateWrites(r)
    <2> DEFINE undeclared == UndeclaredWrites(call[r].contract, result[r])
               found == ViolationReport(undeclared, OnViolation(r))
    <2>1. /\ pc[r] = "validate" /\ result[r] # None
          /\ report' = [report EXCEPT ![r].write = found]
          /\ IF found.level = "error"
             THEN Throw(r, "StateContractError", "handle")
             ELSE pc' = [pc EXCEPT ![r] = "output"] /\ UNCHANGED exc
          /\ UNCHANGED <<call, given, reads, late, tracker, result, span, returned>>
      BY <1>4 DEF ValidateWrites
    <2>2. found.level # "error" /\ call[r].mode = "enforce" => undeclared = {}
      BY <1>0, ModeDecides DEF ViolationReport, NoReport
    <2>9. found.level = "error" => call[r].mode = "enforce" /\ undeclared # {}
      BY <1>0, ModeDecides DEF ViolationReport, NoReport
    <2>3. report'[r].write = found /\ report'[r].read = report[r].read
      BY <1>0, <2>1 DEF TypeOK
    <2>4. report[r].read.level # "error"
      BY <1>0, <2>1 DEF CallInv, ReportInv, OutcomeInv, InFlight
    <2> HIDE DEF found
    <2>5. TrackerInv(r)' /\ InputInv(r)'
      BY <1>0, <1>1, <2>1 DEF TypeOK, CallInv, TrackerInv, InputInv
    <2>6. OutcomeInv(r)'
      BY <1>0, <2>1 DEF TypeOK, CallInv, OutcomeInv, InFlight, Settled, Errors
    <2>7. ReportInv(r)'
      BY <1>0, <2>1, <2>3, <2>4, <2>9 DEF TypeOK, CallInv, ReportInv, InFlight, NoReport
    <2>8. BoundaryInv(r)'
      BY <1>0, <2>1, <2>2 DEF TypeOK, CallInv, BoundaryInv, PastAudit, PastValidation
    <2>10. BlameInv(r)'
      BY <1>0, <2>1, <2>9 DEF TypeOK, CallInv, BlameInv, OutcomeInv, InFlight
    <2> QED
      BY <2>5, <2>6, <2>7, <2>8, <2>10 DEF CallInv
  <1>5. CASE RecordOutput(r)
    <2>1. PublicOutput(r)' = PublicOutput(r)
      BY <1>5 DEF RecordOutput, PublicOutput
    <2> QED
      BY <1>0, <1>1, <1>5, <2>1 DEF RecordOutput, TypeOK, IsSpan, CallInv, TrackerInv, InputInv,
        OutcomeInv, ReportInv, BoundaryInv, BlameInv, UndeclaredReads, InFlight, Settled, PastAudit, PastValidation
  <1>6. CASE RecordOutputFails(r)
    BY <1>0, <1>1, <1>6 DEF RecordOutputFails, TypeOK, CallInv, TrackerInv, InputInv, OutcomeInv,
        ReportInv, BoundaryInv, BlameInv, UndeclaredReads, InFlight, Settled, PastAudit, PastValidation, Errors, NoReport
  <1> QED
    BY <1>2, <1>3, <1>4, <1>5, <1>6

\* The except clause and the end of the span.
LEMMA ExitKeepsInv ==
    ASSUME IInv, NEW r \in Run, HandleError(r) \/ HandleErrorFails(r) \/ EndSpan(r)
    PROVE  CallInv(r)'
  <1> USE DEF Throw
  <1>0. TypeOK /\ CallInv(r) /\ call' = call
    BY DEF IInv, HandleError, HandleErrorFails, EndSpan
  <1>1. /\ TracksReads(r)' = TracksReads(r) /\ NodeInput(r)' = NodeInput(r)
        /\ PublicInput(r)' = PublicInput(r)
    BY <1>0, TermsAreFixed
  <1>2. CASE HandleError(r)
    BY <1>0, <1>1, <1>2 DEF HandleError, TypeOK, IsSpan, CallInv, TrackerInv, InputInv, OutcomeInv,
        ReportInv, BoundaryInv, BlameInv, UndeclaredReads, InFlight, Settled, PastAudit, PastValidation, Errors
  <1>3. CASE HandleErrorFails(r)
    BY <1>0, <1>1, <1>3 DEF HandleErrorFails, TypeOK, CallInv, TrackerInv, InputInv, OutcomeInv,
        ReportInv, BoundaryInv, BlameInv, UndeclaredReads, InFlight, Settled, PastAudit, PastValidation, Errors
  <1>4. CASE EndSpan(r)
    <2>1. PublicOutput(r)' = PublicOutput(r)
      BY <1>4 DEF EndSpan, PublicOutput
    <2> QED
      BY <1>0, <1>1, <1>4, <2>1 DEF EndSpan, TypeOK, IsSpan, CallInv, TrackerInv, InputInv,
        OutcomeInv, ReportInv, BoundaryInv, BlameInv, UndeclaredReads, InFlight, Settled, PastAudit, PastValidation, Errors
  <1> QED
    BY <1>2, <1>3, <1>4

\* Every step of a call keeps the invariant.
LEMMA StepKeepsInv ==
    ASSUME IInv, NEW r \in Run, Step(r)
    PROVE  IInv'
  <1>1. TypeOK'
    BY WrapperTyped, NodeTyped DEF Step
  <1>2. CallInv(r)'
    BY EntryKeepsInv, NodeKeepsInv, ChecksKeepInv, ExitKeepsInv DEF Step, Wrapper
  <1>3. \A q \in Run : q # r => CallInv(q)'
    BY OthersKeepInv
  <1> QED
    BY <1>1, <1>2, <1>3 DEF IInv

\* A step that changes nothing keeps the invariant.
LEMMA StutterKeepsInv ==
    ASSUME IInv, UNCHANGED vars
    PROVE  IInv'
  <1>1. TypeOK'
    BY DEF IInv, TypeOK, vars
  <1>2. ASSUME NEW q \in Run
        PROVE  CallInv(q)'
    BY UntouchedKeepsInv DEF IInv, vars
  <1> QED
    BY <1>1, <1>2 DEF IInv

\* What is settled at each place of a call is settled in every run of the program.
THEOREM Invariance == Spec => []IInv
  <1>1. IInv /\ [Next]_vars => IInv'
    BY StepKeepsInv, StutterKeepsInv DEF Next, Step, Finished
  <1> QED
    BY <1>1, InitInv, PTL DEF Spec

-------------------------------------------------------------------------------
(* What follows.                                                           *)

\* Type correctness.
THEOREM TypeCorrect == Spec => []TypeOK
  <1>1. IInv => TypeOK
    BY DEF IInv
  <1> QED
    BY <1>1, Invariance, PTL

\* A strict call that returns an update read and wrote declared paths only.
THEOREM StrictBoundary == Spec => []EnforcedRunStaysInBoundary
  <1>1. IInv => EnforcedRunStaysInBoundary
    BY DEF IInv, CallInv, BoundaryInv, OutcomeInv, Settled, PastAudit, PastValidation,
        EnforcedRunStaysInBoundary, Accepted
  <1> QED
    BY <1>1, Invariance, PTL

\* Overlapping calls never share a tracker.
THEOREM LocalBlame == Spec => []BlameIsLocal
  <1>1. IInv => BlameIsLocal
    BY DEF IInv, CallInv, ReportInv, BlameIsLocal
  <1> QED
    BY <1>1, Invariance, PTL

\* A violation that raises leaves neither an update nor a recorded output.
THEOREM ViolationStops == Spec => []NoResultAfterViolation
  <1>1. IInv => NoResultAfterViolation
    BY DEF IInv, CallInv, ReportInv, OutcomeInv, Settled, NoResultAfterViolation
  <1> QED
    BY <1>1, Invariance, PTL

\* A finished span tells how its call ended.
THEOREM SpanAgreesWithOutcome == Spec => []SpanTellsOutcome
  <1>1. ASSUME IInv, NEW r \in Run, pc[r] = "done"
        PROVE  /\ ~span[r].open
               /\ span[r].status = "error" <=> exc[r] \notin {"none", "Cancelled"}
               /\ exc[r] = "none" <=> span[r].output # {}
               /\ exc[r] \in {"none", "Cancelled"} => span[r].input # {}
    <2>1. exc[r] \in Errors \cup {"none", "Cancelled"}
      BY <1>1 DEF IInv, TypeOK
    <2>2. OutcomeInv(r)
      BY <1>1 DEF IInv, CallInv
    <2> QED
      BY <1>1, <2>1, <2>2 DEF OutcomeInv, Settled, Errors
  <1>2. IInv => SpanTellsOutcome
    BY <1>1 DEF SpanTellsOutcome
  <1> QED
    BY <1>2, Invariance, PTL

\* No private path is ever recorded on a span.
THEOREM SpansArePublic == Spec => []SpanIsPublic
  <1>1. ASSUME IInv, NEW r \in Run
        PROVE  /\ \A t \in span[r].input : \A p \in DOMAIN t : Covers(call[r].contract.inputs, p)
               /\ \A t \in span[r].output : \A p \in DOMAIN t : Covers(call[r].contract.outputs, p)
    <2>1. span[r].input \subseteq {PublicInput(r)} /\ IsTree(call[r].state)
      BY <1>1, ContractRunAssumption DEF IInv, TypeOK, CallInv, InputInv
    <2>2. span[r].output # {} =>
            span[r].output = {PublicOutput(r)} /\ IsTree(result[r])
      BY <1>1, ContractRunAssumption
        DEF IInv, TypeOK, CallInv, OutcomeInv, BoundaryInv, PastValidation, Settled
    <2>3. \A p \in DOMAIN PublicInput(r) : Covers(call[r].contract.inputs, p)
      BY <2>1, ProjectIsCovered DEF PublicInput
    <2>4. IsTree(result[r]) =>
            \A p \in DOMAIN PublicOutput(r) : Covers(call[r].contract.outputs, p)
      BY ProjectIsCovered DEF PublicOutput
    <2> QED
      BY <2>1, <2>2, <2>3, <2>4
  <1>2. IInv => SpanIsPublic
    BY <1>1 DEF SpanIsPublic
  <1> QED
    BY <1>2, Invariance, PTL

\* Under strict execution an undeclared read finds nothing.
THEOREM UndeclaredFindsNothing == Spec => []UndeclaredReadsFindNothing
  <1>1. ASSUME IInv, NEW r \in Run, call[r].mode = "enforce",
               NEW p \in UndeclaredReads(call[r].contract, reads[r] \cup late[r]),
               Has(given[r], p)
        PROVE  FALSE
    <2>1. TypeOK /\ InputInv(r) /\ p \in Path
      BY <1>1 DEF IInv, CallInv, UndeclaredReads, TypeOK
    <2>2. span[r].input # {}
      BY <1>1, <2>1 DEF InputInv, UndeclaredReads
    <2>3. given[r] = BuildExecutionInput(call[r].contract, call[r].state)
      BY <1>1, <2>1, <2>2, ModeDecides DEF InputInv, NodeInput
    <2>4. IsTree(call[r].state) /\ call[r].contract \in ContractType
      BY <2>1, ContractRunAssumption DEF TypeOK
    <2> QED
      BY <1>1, <2>1, <2>3, <2>4, GivenIsAllowed DEF UndeclaredReads
  <1>2. IInv => UndeclaredReadsFindNothing
    BY <1>1 DEF UndeclaredReadsFindNothing
  <1> QED
    BY <1>2, Invariance, PTL

\* A declared read finds what the state has, in every mode: before the input is
\* built nothing is read, and from then on the node has either the whole state or
\* its projection.
THEOREM DeclaredReadsFindAll == Spec => []DeclaredReadsAreGiven
  <1>1. ASSUME IInv, NEW r \in Run, NEW p \in reads[r],
               NEW policy \in ExecutionInputPolicies(call[r].contract), Covers(policy, p)
        PROVE  /\ Has(given[r], p) <=> Has(call[r].state, p)
               /\ \A q \in DOMAIN call[r].state :
                    IsPrefix(p, q) => q \in DOMAIN given[r] /\ given[r][q] = call[r].state[q]
    <2>1. TypeOK /\ InputInv(r) /\ p \in Path
      BY <1>1 DEF IInv, CallInv, TypeOK
    <2>2. given[r] = NodeInput(r)
      BY <2>1 DEF InputInv
    <2>3. IsTree(call[r].state) /\ call[r].contract \in ContractType
      BY <2>1, ContractRunAssumption DEF TypeOK
    <2>4. CASE PassThrough(r)
      BY <2>2, <2>4 DEF NodeInput
    <2>5. CASE ~PassThrough(r)
      <3>1. given[r] = BuildExecutionInput(call[r].contract, call[r].state)
        BY <2>2, <2>5 DEF NodeInput
      <3> QED
        BY <1>1, <2>1, <2>3, <3>1, DeclaredIsGiven
    <2> QED
      BY <2>4, <2>5
  <1>2. IInv => DeclaredReadsAreGiven
    BY <1>1 DEF DeclaredReadsAreGiven
  <1> QED
    BY <1>2, Invariance, PTL

\* What was said about a call that has ended is final.
THEOREM EndIsFinal == Spec => EndedCallsAreFrozen
  <1>1. ASSUME IInv, [Next]_vars, NEW r \in Run, pc[r] = "done"
        PROVE  UNCHANGED <<pc[r], exc[r], report[r], span[r], returned[r]>>
    <2>1. CASE UNCHANGED vars
      BY <2>1 DEF vars
    <2>2. ASSUME NEW q \in Run, Step(q)
          PROVE  UNCHANGED <<pc[r], exc[r], report[r], span[r], returned[r]>>
      <3>1. CASE q # r
        BY <1>1, <2>2, <3>1, StepIsLocal DEF IInv
      <3>2. CASE q = r
        BY <1>1, <2>2, <3>2 DEF Step, Wrapper, Node, OpenSpan, OpenSpanFails, RecordInput,
            RecordInputFails, AuditReads, ValidateNoUpdate, ValidateWrites, RecordOutput,
            RecordOutputFails, HandleError, HandleErrorFails, EndSpan, Lookup, LookupFails,
            Iterate, NodeReturns, NodeRaises, NodeCancelled, LateRead
      <3> QED
        BY <3>1, <3>2
    <2> QED
      BY <1>1, <2>1, <2>2 DEF Next, Step, Finished
  <1>2. IInv /\ [Next]_vars =>
            [\A r \in Run : pc[r] = "done" =>
                UNCHANGED <<pc[r], exc[r], report[r], span[r], returned[r]>>]_vars
    BY <1>1
  <1> QED
    BY <1>2, Invariance, PTL DEF Spec, EndedCallsAreFrozen

-------------------------------------------------------------------------------
(* What a pass-through call is warned of, on top of IInv.                  *)

\* Past the audit the report lists the undeclared reads of the node, and of the
\* later ones at most those made before the audit; past the validation it lists
\* the undeclared writes.
WarnInv(r) ==
    PassThrough(r) =>
        LET c == call[r].contract
            warned == report[r].read.paths
        IN  /\ PastAudit(r) =>
                /\ call[r].mode = "audit" =>
                    /\ UndeclaredReads(c, reads[r]) \subseteq warned
                    /\ warned \subseteq UndeclaredReads(c, reads[r] \cup late[r])
                /\ call[r].mode = "observe" => warned = {}
            /\ PastValidation(r) =>
                report[r].write = ViolationReport(UndeclaredWrites(c, result[r]), "warn")

\* The audit warns of what the tracker holds, which is what was read so far.
LEMMA AuditWarns ==
    ASSUME IInv, NEW r \in Run, AuditReads(r)
    PROVE  WarnInv(r)'
  <1> DEFINE undeclared == UndeclaredReads(call[r].contract, tracker[r])
             found == IF TracksReads(r)
                      THEN ViolationReport(undeclared, OnReadViolation(r))
                      ELSE NoReport
  <1>1. TypeOK /\ TrackerInv(r) /\ OutcomeInv(r)
    BY DEF IInv, CallInv
  <1>2. /\ pc[r] = "audit"
        /\ report' = [report EXCEPT ![r].read = found]
        /\ pc'[r] \in {"handle", "validate"}
        /\ UNCHANGED <<call, given, reads, late, tracker, result, span, returned>>
    BY <1>1 DEF AuditReads, OwnTracker, Throw, TypeOK
  <1>3. report'[r].read.paths = found.paths
    BY <1>1, <1>2 DEF TypeOK
  <1>4. call[r].mode = "audit" => found.paths = UndeclaredReads(call[r].contract, reads[r] \cup late[r])
    BY <1>1, ModeDecides DEF ViolationReport, NoReport, TrackerInv
  <1>5. call[r].mode = "observe" => found.paths = {}
    BY <1>1, ModeDecides DEF NoReport
  <1>6. UndeclaredReads(call[r].contract, reads[r])
            \subseteq UndeclaredReads(call[r].contract, reads[r] \cup late[r])
    BY DEF UndeclaredReads
  <1> HIDE DEF found
  <1> QED
    BY <1>2, <1>3, <1>4, <1>5, <1>6 DEF WarnInv, PastValidation

\* The validation warns of the undeclared leaves of the update.
LEMMA ValidationWarns ==
    ASSUME IInv, NEW r \in Run, ValidateWrites(r), WarnInv(r)
    PROVE  WarnInv(r)'
  <1> DEFINE found == ViolationReport(UndeclaredWrites(call[r].contract, result[r]), OnViolation(r))
  <1>1. TypeOK
    BY DEF IInv
  <1>2. /\ pc[r] = "validate"
        /\ report' = [report EXCEPT ![r].write = found]
        /\ UNCHANGED <<call, given, reads, late, tracker, result, span, returned>>
    BY DEF ValidateWrites
  <1>3. report'[r].write = found /\ report'[r].read = report[r].read
    BY <1>1, <1>2 DEF TypeOK
  <1>4. PassThrough(r) => OnViolation(r) = "warn"
    BY <1>1, ModeDecides
  <1>5. PassThrough(r)' = PassThrough(r)
    BY <1>2, TermsAreFixed
  <1> QED
    BY <1>2, <1>3, <1>4, <1>5 DEF WarnInv, PastAudit

\* Every other step leaves the report alone, and the reads of a call that is past
\* its audit; a late read only adds to what may have been warned of.
LEMMA OtherStepsKeepWarnings ==
    ASSUME IInv, NEW r \in Run, Step(r), ~AuditReads(r), ~ValidateWrites(r), WarnInv(r)
    PROVE  WarnInv(r)'
  <1> USE DEF Throw
  <1>1. TypeOK /\ OutcomeInv(r)
    BY DEF IInv, CallInv
  <1>2. /\ UNCHANGED <<call, report>>
        /\ late[r] \subseteq late'[r]
        /\ (PastAudit(r)' => PastAudit(r) /\ UNCHANGED <<reads, result>>)
        /\ (PastValidation(r)' => PastValidation(r) /\ UNCHANGED result)
    <2> DEFINE kept == /\ UNCHANGED <<call, report>>
                       /\ late[r] \subseteq late'[r]
                       /\ (PastAudit(r)' => PastAudit(r) /\ UNCHANGED <<reads, result>>)
                       /\ (PastValidation(r)' => PastValidation(r) /\ UNCHANGED result)
    <2>1. ASSUME OpenSpan(r) \/ OpenSpanFails(r) \/ RecordInput(r) \/ RecordInputFails(r)
                    \/ ValidateNoUpdate(r) \/ RecordOutput(r) \/ RecordOutputFails(r)
                    \/ HandleError(r) \/ HandleErrorFails(r) \/ EndSpan(r)
          PROVE  kept
      BY <1>1, <2>1 DEF TypeOK, OutcomeInv, PastAudit, PastValidation, InFlight, Errors, OpenSpan,
        OpenSpanFails, RecordInput, RecordInputFails, ValidateNoUpdate, RecordOutput,
        RecordOutputFails, HandleError, HandleErrorFails, EndSpan
    <2>2. CASE Node(r)
      BY <1>1, <2>2 DEF TypeOK, PastAudit, PastValidation, Node, Lookup, LookupFails, Iterate,
        NodeReturns, NodeRaises, NodeCancelled
    <2>3. CASE \E p \in Access : LateRead(r, p)
      BY <1>1, <2>3 DEF TypeOK, PastAudit, PastValidation, LateRead
    <2> QED
      BY <2>1, <2>2, <2>3 DEF Step, Wrapper
  <1>3. PassThrough(r)' = PassThrough(r)
    BY <1>2, TermsAreFixed
  <1>4. UndeclaredReads(call[r].contract, reads[r] \cup late[r])
            \subseteq UndeclaredReads(call[r].contract, reads[r] \cup late'[r])
    BY <1>2 DEF UndeclaredReads
  <1> QED
    BY <1>2, <1>3, <1>4 DEF WarnInv

\* The warnings of a call are settled at each place of it.
LEMMA WarningsInvariant == Spec => [](\A r \in Run : WarnInv(r))
  <1> DEFINE Inv == \A r \in Run : WarnInv(r)
  <1>1. Init => Inv
    BY DEF Init, WarnInv, PastAudit, PastValidation
  <1>2. IInv /\ Inv /\ [Next]_vars => Inv'
    <2> SUFFICES ASSUME IInv, Inv, [Next]_vars, NEW q \in Run
                 PROVE  WarnInv(q)'
      OBVIOUS
    <2>1. ASSUME call' = call, pc'[q] = pc[q], reads'[q] = reads[q], late'[q] = late[q],
                 result'[q] = result[q], exc'[q] = exc[q], report'[q] = report[q]
          PROVE  WarnInv(q)'
      <3>1. PassThrough(q)' = PassThrough(q)
        BY <2>1, TermsAreFixed
      <3> QED
        BY <2>1, <3>1 DEF WarnInv, PastAudit, PastValidation
    <2>2. ASSUME NEW r \in Run, Step(r)
          PROVE  WarnInv(q)'
      <3>1. CASE r = q
        BY <2>2, <3>1, AuditWarns, ValidationWarns, OtherStepsKeepWarnings
      <3>2. CASE r # q
        BY <2>1, <2>2, <3>2, StepIsLocal DEF IInv
      <3> QED
        BY <3>1, <3>2
    <2>3. CASE UNCHANGED vars
      BY <2>1, <2>3 DEF vars
    <2> QED
      BY <2>2, <2>3 DEF Next, Step, Finished
  <1> QED
    BY <1>1, <1>2, Invariance, PTL DEF Spec

\* A pass-through call never raises for a violation, however it ends; one that ends
\* well warned of all undeclared reads of its node and of all undeclared writes, and
\* of nothing the call did not touch.
THEOREM WarningsAreExact == Spec => []PassThroughWarnsExactly
  <1>0. ASSUME IInv, NEW r \in Run, PassThrough(r)
        PROVE  /\ "error" \notin {report[r].read.level, report[r].write.level}
               /\ exc[r] # "StateContractError"
    <2>1. call[r].mode # "enforce"
      BY <1>0, ModeDecides DEF IInv
    <2> QED
      BY <1>0, <2>1 DEF IInv, CallInv, ReportInv, BlameInv
  <1>1. ASSUME IInv, \A r \in Run : WarnInv(r), NEW r \in Run, Accepted(r), PassThrough(r)
        PROVE  LET c == call[r].contract
                   warned == report[r].read.paths
               IN  /\ report[r].write = ViolationReport(UndeclaredWrites(c, returned[r]), "warn")
                   /\ call[r].mode = "audit" =>
                        /\ UndeclaredReads(c, reads[r]) \subseteq warned
                        /\ warned \subseteq UndeclaredReads(c, reads[r] \cup late[r])
                   /\ call[r].mode = "observe" => warned = {}
    <2>1. OutcomeInv(r) /\ WarnInv(r)
      BY <1>1 DEF IInv, CallInv
    <2>2. returned[r] = result[r]
      BY <1>1, <2>1 DEF Accepted, OutcomeInv, Settled
    <2> QED
      BY <1>1, <2>1, <2>2 DEF Accepted, WarnInv, PastAudit, PastValidation
  <1>2. IInv /\ (\A r \in Run : WarnInv(r)) => PassThroughWarnsExactly
    BY <1>0, <1>1 DEF PassThroughWarnsExactly
  <1> QED
    BY <1>2, Invariance, WarningsInvariant, PTL

-------------------------------------------------------------------------------
(* The lifecycle implements ContractBoundary.                              *)

\* What the boundary sees of the calls a step does not make.
LEMMA OthersStandStill ==
    ASSUME IInv, NEW r \in Run, Step(r)
    PROVE  /\ [q \in Run |-> TermsOf(q)]' = [q \in Run |-> TermsOf(q)]
           /\ [q \in Run |-> OutcomeOf(q)]' = [[q \in Run |-> OutcomeOf(q)] EXCEPT ![r] = OutcomeOf(r)']
           /\ [q \in Run |-> ValueOf(q)]' = [[q \in Run |-> ValueOf(q)] EXCEPT ![r] = ValueOf(r)']
           /\ reads' = [reads EXCEPT ![r] = reads'[r]]
           /\ result' = [result EXCEPT ![r] = result'[r]]
           /\ [q \in Run |-> reads[q] \cup late[q]]' =
                [[q \in Run |-> reads[q] \cup late[q]] EXCEPT ![r] = (reads[r] \cup late[r])']
  <1>1. TypeOK /\ TypeOK' /\ IInv'
    BY StepKeepsInv DEF IInv
  <1>2. call' = call
    BY DEF Step, Wrapper, Node, OpenSpan, OpenSpanFails, RecordInput, RecordInputFails, AuditReads,
        ValidateNoUpdate, ValidateWrites, RecordOutput, RecordOutputFails, HandleError,
        HandleErrorFails, EndSpan, Lookup, LookupFails, Iterate, NodeReturns, NodeRaises,
        NodeCancelled, LateRead
  <1>3. \A q \in Run : q # r =>
            /\ pc'[q] = pc[q] /\ exc'[q] = exc[q] /\ returned'[q] = returned[q]
            /\ reads'[q] = reads[q] /\ late'[q] = late[q] /\ result'[q] = result[q]
    BY <1>1, StepIsLocal
  <1>4. \A q \in Run : q # r => OutcomeOf(q)' = OutcomeOf(q) /\ ValueOf(q)' = ValueOf(q)
    BY <1>3 DEF OutcomeOf, ValueOf
  <1>5. \A q \in Run : TermsOf(q)' = TermsOf(q)
    BY <1>2 DEF TermsOf
  <1>6. /\ reads \in [Run -> SUBSET Path] /\ reads' \in [Run -> SUBSET Path]
        /\ DOMAIN result = Run /\ result' \in [Run -> Update \cup {None}]
        /\ result \in [Run -> Update \cup {None}]
    BY <1>1 DEF TypeOK
  <1> QED
    BY <1>3, <1>4, <1>5, <1>6

\* Reads only accumulate.
LEMMA ReadsGrow ==
    ASSUME IInv, NEW r \in Run, Step(r)
    PROVE  reads[r] \subseteq reads'[r] /\ late[r] \subseteq late'[r]
  <1>1. TypeOK
    BY DEF IInv
  <1>2. CASE Wrapper(r)
    BY <1>2 DEF Wrapper, OpenSpan, OpenSpanFails, RecordInput, RecordInputFails, AuditReads,
        ValidateNoUpdate, ValidateWrites, RecordOutput, RecordOutputFails, HandleError,
        HandleErrorFails, EndSpan
  <1>3. CASE Node(r)
    <2>1. CASE \E paths : ReadBy(r, paths) /\ late' = late
      BY <1>1, <2>1 DEF TypeOK, ReadBy
    <2> QED
      BY <1>3, <2>1 DEF Node, Lookup, LookupFails, Iterate, NodeReturns, NodeRaises, NodeCancelled
  <1>4. CASE \E p \in Access : LateRead(r, p)
    BY <1>1, <1>4 DEF TypeOK, LateRead
  <1> QED
    BY <1>2, <1>3, <1>4 DEF Step

\* A call ends only by closing its span, and an ended call can only linger.
LEMMA EndOfCall ==
    ASSUME IInv, NEW r \in Run, Step(r)
    PROVE  /\ pc[r] # "done" /\ pc'[r] = "done" => EndSpan(r)
           /\ pc[r] = "done" => /\ pc'[r] = "done" /\ exc'[r] = exc[r] /\ result'[r] = result[r]
                                /\ returned'[r] = returned[r] /\ reads'[r] = reads[r]
  <1>1. TypeOK
    BY DEF IInv
  <1>2. CASE Wrapper(r) /\ ~EndSpan(r)
    BY <1>1, <1>2 DEF TypeOK, Throw, Wrapper, OpenSpan, OpenSpanFails, RecordInput,
        RecordInputFails, AuditReads, ValidateNoUpdate, ValidateWrites, RecordOutput,
        RecordOutputFails, HandleError, HandleErrorFails
  <1>3. CASE EndSpan(r)
    BY <1>3 DEF EndSpan
  <1>4. CASE Node(r)
    BY <1>1, <1>4 DEF TypeOK, Throw, Node, Lookup, LookupFails, Iterate, NodeReturns,
        NodeRaises, NodeCancelled
  <1>5. CASE \E p \in Access : LateRead(r, p)
    BY <1>5 DEF LateRead
  <1> QED
    BY <1>2, <1>3, <1>4, <1>5 DEF Step

\* Before the end only the return of the node function sets its update; it reads up
\* to there, and what is read afterwards is read by others.
LEMMA OpenStepReads ==
    ASSUME IInv, NEW r \in Run, Step(r)
    PROVE  \/ result[r] = None /\ result'[r] = None
           \/ result' = result /\ reads' = reads
           \/ NodeReturns(r)
  <1>1. TypeOK /\ BoundaryInv(r)
    BY DEF IInv, CallInv
  <1>2. CASE Wrapper(r)
    BY <1>2 DEF Wrapper, OpenSpan, OpenSpanFails, RecordInput, RecordInputFails, AuditReads,
        ValidateNoUpdate, ValidateWrites, RecordOutput, RecordOutputFails, HandleError,
        HandleErrorFails, EndSpan
  <1>3. CASE Node(r) /\ ~NodeReturns(r)
    BY <1>1, <1>3 DEF BoundaryInv, Node, Lookup, LookupFails, Iterate, NodeRaises, NodeCancelled
  <1>4. CASE \E p \in Access : LateRead(r, p)
    BY <1>4 DEF LateRead
  <1> QED
    BY <1>2, <1>3, <1>4 DEF Step

\* A step before the end is a Touch, an Offer, or what lingers.
LEMMA OpenStepIsQuiet ==
    ASSUME IInv, NEW r \in Run, Step(r), pc[r] # "done", pc'[r] # "done"
    PROVE  Boundary!Touch(r) \/ Boundary!Offer(r) \/ Boundary!Linger(r)
  <1>1. /\ OutcomeOf(r) = "running" /\ OutcomeOf(r)' = OutcomeOf(r) /\ ValueOf(r)' = ValueOf(r)
    BY DEF OutcomeOf, ValueOf
  <1>2. reads[r] \subseteq reads'[r] /\ reads[r] \cup late[r] \subseteq (reads[r] \cup late[r])'
    BY ReadsGrow
  <1>3. [q \in Run |-> OutcomeOf(q)]' = [q \in Run |-> OutcomeOf(q)]
    BY <1>1, OthersStandStill
  <1>4. [q \in Run |-> ValueOf(q)]' = [q \in Run |-> ValueOf(q)]
    BY <1>1, OthersStandStill
  <1>5. CASE result[r] = None /\ result'[r] = None
    <2>1. result' = result
      <3>1. result \in [Run -> Update \cup {None}]
        BY DEF IInv, TypeOK
      <3>2. result' = [result EXCEPT ![r] = result'[r]]
        BY OthersStandStill
      <3> QED
        BY <1>5, <3>1, <3>2
    <2>2. Boundary!Touch(r)
      BY <1>1, <1>2, <1>3, <1>4, <1>5, <2>1, OthersStandStill DEF Boundary!Touch
    <2> QED
      BY <2>2
  <1>6. CASE result' = result /\ reads' = reads
    <2>1. Boundary!Linger(r)
      BY <1>2, <1>3, <1>4, <1>6, OthersStandStill DEF Boundary!Linger
    <2> QED
      BY <2>1
  <1>7. CASE NodeReturns(r) /\ result'[r] # None
    <2>1. /\ pc[r] = "node" /\ UNCHANGED <<reads, late>>
          /\ \E u \in Update : result' = [result EXCEPT ![r] = u]
      BY <1>7 DEF NodeReturns
    <2>2. PICK u \in Update : result' = [result EXCEPT ![r] = u]
      BY <2>1
    <2>3. u # None /\ result[r] = None
      BY <1>7, <2>1, <2>2 DEF IInv, TypeOK, CallInv, BoundaryInv
    <2>4. [q \in Run |-> reads[q] \cup late[q]]' = [q \in Run |-> reads[q] \cup late[q]]
      BY <2>1
    <2>5. Boundary!Offer(r)
      BY <1>1, <1>3, <1>4, <2>1, <2>2, <2>3, <2>4, OthersStandStill DEF Boundary!Offer
    <2> QED
      BY <2>5
  <1> QED
    <2>1. NodeReturns(r) => result'[r] # None \/ (result[r] = None /\ result'[r] = None)
      BY DEF NodeReturns, IInv, CallInv, BoundaryInv
    <2> QED
      BY <1>5, <1>6, <1>7, <2>1, OpenStepReads

\* A step after the end is a Linger.
LEMMA EndedStepIsLinger ==
    ASSUME IInv, NEW r \in Run, Step(r), pc[r] = "done"
    PROVE  Boundary!Linger(r)
  <1>1. /\ pc'[r] = "done" /\ exc'[r] = exc[r] /\ returned'[r] = returned[r] /\ reads'[r] = reads[r]
        /\ result'[r] = result[r]
    BY EndOfCall
  <1>2. OutcomeOf(r)' = OutcomeOf(r) /\ ValueOf(r)' = ValueOf(r)
    BY <1>1 DEF OutcomeOf, ValueOf
  <1>3. reads[r] \cup late[r] \subseteq (reads[r] \cup late[r])'
    BY ReadsGrow
  <1>4. [q \in Run |-> OutcomeOf(q)]' = [q \in Run |-> OutcomeOf(q)]
    BY <1>2, OthersStandStill
  <1>5. [q \in Run |-> ValueOf(q)]' = [q \in Run |-> ValueOf(q)]
    BY <1>2, OthersStandStill
  <1>6. reads' = reads /\ result' = result
    <2>1. reads \in [Run -> SUBSET Path] /\ result \in [Run -> Update \cup {None}]
      BY DEF IInv, TypeOK
    <2>2. /\ reads' = [reads EXCEPT ![r] = reads'[r]]
          /\ result' = [result EXCEPT ![r] = result'[r]]
      BY OthersStandStill
    <2> QED
      BY <1>1, <2>1, <2>2
  <1> QED
    BY <1>3, <1>4, <1>5, <1>6, OthersStandStill DEF Boundary!Linger

\* The boundary reads a contract the way the checks do.
LEMMA SameChecks ==
    ASSUME NEW c, NEW S, NEW t
    PROVE  /\ Boundary!UndeclaredReads(c, S) = UndeclaredReads(c, S)
           /\ Boundary!UndeclaredWrites(c, t) = UndeclaredWrites(c, t)
  <1>1. \A p, q : Boundary!IsPrefix(p, q) = IsPrefix(p, q)
    BY DEF IsPrefix, Boundary!IsPrefix
  <1>2. \A p, policy : Boundary!PolicyAllowsRead(p, policy) = PolicyAllowsRead(p, policy)
    BY <1>1 DEF PolicyAllowsRead, PathsOverlap, Boundary!PolicyAllowsRead, Boundary!PathsOverlap
  <1>3. \A p, policy : Boundary!PolicyAllowsWrite(p, policy) = PolicyAllowsWrite(p, policy)
    BY <1>1 DEF PolicyAllowsWrite, Covers, Boundary!PolicyAllowsWrite, Boundary!Covers
  <1>4. \A p : /\ Boundary!ReadAllowed(c, p) = ReadAllowed(c, p)
               /\ Boundary!WriteAllowed(c, p) = WriteAllowed(c, p)
    BY <1>2, <1>3 DEF ReadAllowed, ExecutionInputPolicies, WriteAllowed, WritePolicies,
        Boundary!ReadAllowed, Boundary!ExecutionInputPolicies, Boundary!WriteAllowed,
        Boundary!WritePolicies
  <1> QED
    BY <1>4 DEF UndeclaredReads, UndeclaredWrites, Boundary!UndeclaredReads,
        Boundary!UndeclaredWrites

\* Closing the span accepts, rejects or fails the call.
LEMMA EndSpanIsVerdict ==
    ASSUME IInv, NEW r \in Run, EndSpan(r)
    PROVE  Boundary!Accept(r) \/ Boundary!Reject(r) \/ Boundary!Fail(r)
  <1>0. Step(r)
    BY DEF Step, Wrapper
  <1>1. /\ pc[r] = "exit" /\ pc'[r] = "done" /\ exc'[r] = exc[r] /\ returned'[r] = returned[r]
        /\ reads' = reads /\ late' = late /\ result' = result
    BY DEF EndSpan, IInv, TypeOK
  <1>2. TypeOK /\ OutcomeInv(r) /\ BoundaryInv(r) /\ BlameInv(r)
    BY DEF IInv, CallInv
  <1>3. OutcomeOf(r) = "running" /\ ValueOf(r) = None /\ ValueOf(r)' = returned[r]
    BY <1>1 DEF OutcomeOf, ValueOf
  <1>4. [q \in Run |-> OutcomeOf(q)]' = [[q \in Run |-> OutcomeOf(q)] EXCEPT ![r] = OutcomeOf(r)']
    BY <1>0, OthersStandStill
  <1>5. [q \in Run |-> ValueOf(q)]' = [[q \in Run |-> ValueOf(q)] EXCEPT ![r] = returned[r]]
    BY <1>0, <1>3, OthersStandStill
  <1>6. /\ [q \in Run |-> TermsOf(q)]' = [q \in Run |-> TermsOf(q)]
        /\ [q \in Run |-> reads[q] \cup late[q]]' = [q \in Run |-> reads[q] \cup late[q]]
    BY <1>0, <1>1, OthersStandStill
  <1>7. [q \in Run |-> TermsOf(q)][r] =
            [mode |-> call[r].mode, contract |-> call[r].contract]
    BY DEF TermsOf
  <1>8. CASE exc[r] = "none"
    <2>1. OutcomeOf(r)' = "accepted"
      BY <1>1, <1>8 DEF OutcomeOf
    <2>2. /\ returned[r] = result[r] /\ result[r] # None
          /\ call[r].mode = "enforce" =>
                /\ UndeclaredReads(call[r].contract, reads[r]) = {}
                /\ UndeclaredWrites(call[r].contract, returned[r]) = {}
      BY <1>1, <1>2, <1>8 DEF TypeOK, OutcomeInv, BoundaryInv, Settled, PastAudit, PastValidation
    <2>3. call[r].mode = "enforce" =>
            /\ Boundary!UndeclaredReads([q \in Run |-> TermsOf(q)][r].contract, reads[r]) = {}
            /\ Boundary!WritesWithin(r)
      BY <1>7, <2>2, SameChecks DEF Boundary!WritesWithin
    <2>4. [q \in Run |-> OutcomeOf(q)][r] = "running" /\ reads' = reads
      BY <1>1, <1>3
    <2>5. [q \in Run |-> OutcomeOf(q)]' = [[q \in Run |-> OutcomeOf(q)] EXCEPT ![r] = "accepted"]
      BY <1>4, <2>1
    <2>6. [q \in Run |-> TermsOf(q)][r].mode = call[r].mode
      BY <1>7
    <2>7. Boundary!Accept(r)
      BY <1>1, <1>5, <1>6, <2>2, <2>3, <2>4, <2>5, <2>6 DEF Boundary!Accept
    <2> QED
      BY <2>7
  <1>9. CASE exc[r] # "none"
    <2>1. returned[r] = None
      BY <1>2, <1>9 DEF OutcomeInv, Settled
    <2>2. [q \in Run |-> ValueOf(q)]' = [q \in Run |-> ValueOf(q)]
      BY <1>3, <1>5, <2>1
    <2>3. CASE exc[r] = "StateContractError"
      <3>1. OutcomeOf(r)' = "rejected"
        BY <1>1, <2>3 DEF OutcomeOf
      <3>2. /\ call[r].mode = "enforce"
            /\ \/ UndeclaredReads(call[r].contract, reads[r] \cup late[r]) # {}
               \/ result[r] # None /\ UndeclaredWrites(call[r].contract, result[r]) # {}
        BY <1>2, <2>3 DEF BlameInv, TypeOK
      <3>3. [q \in Run |-> OutcomeOf(q)][r] = "running" /\ reads' = reads
        BY <1>1, <1>3
      <3>4. [q \in Run |-> OutcomeOf(q)]' = [[q \in Run |-> OutcomeOf(q)] EXCEPT ![r] = "rejected"]
        BY <1>4, <3>1
      <3>5. [q \in Run |-> TermsOf(q)][r].mode = "enforce"
        BY <1>7, <3>2
      <3>6. \/ Boundary!UndeclaredReads([q \in Run |-> TermsOf(q)][r].contract,
                                       [q \in Run |-> reads[q] \cup late[q]][r]) # {}
            \/ result[r] # None /\ ~Boundary!WritesWithin(r)
        <4>1. [q \in Run |-> TermsOf(q)][r].contract = call[r].contract
          BY <1>7
        <4>2. [q \in Run |-> reads[q] \cup late[q]][r] = reads[r] \cup late[r]
          OBVIOUS
        <4> QED
          BY <3>2, <4>1, <4>2, SameChecks DEF Boundary!WritesWithin
      <3>7. Boundary!Reject(r)
        BY <1>1, <1>6, <2>2, <3>3, <3>4, <3>5, <3>6 DEF Boundary!Reject
      <3> QED
        BY <3>7
    <2>4. CASE exc[r] # "StateContractError"
      <3>1. OutcomeOf(r)' = "failed"
        BY <1>1, <1>9, <2>4 DEF OutcomeOf
      <3> QED
        BY <1>1, <1>3, <1>4, <1>6, <2>2, <3>1 DEF Boundary!Fail
    <2> QED
      BY <2>3, <2>4
  <1> QED
    BY <1>8, <1>9

\* The instrumented lifecycle keeps every promise of the contract boundary.
THEOREM LifecycleImplementsBoundary == Spec => ImplementsBoundary
  <1>1. Init => Boundary!BoundaryInit
    BY DEF Init, Boundary!BoundaryInit, OutcomeOf, ValueOf
  <1>2. IInv /\ [Next]_vars => [Boundary!BoundaryNext]_Boundary!boundaryVars
    <2> SUFFICES ASSUME IInv, [Next]_vars
                 PROVE  [Boundary!BoundaryNext]_Boundary!boundaryVars
      OBVIOUS
    <2>1. ASSUME NEW r \in Run, Step(r)
          PROVE  Boundary!BoundaryNext
      <3>1. CASE pc[r] = "done"
        BY <2>1, <3>1, EndedStepIsLinger DEF Boundary!BoundaryNext
      <3>2. CASE pc[r] # "done" /\ pc'[r] # "done"
        BY <2>1, <3>2, OpenStepIsQuiet DEF Boundary!BoundaryNext
      <3>3. CASE pc[r] # "done" /\ pc'[r] = "done"
        BY <2>1, <3>3, EndOfCall, EndSpanIsVerdict DEF Boundary!BoundaryNext
      <3> QED
        BY <3>1, <3>2, <3>3
    <2>2. CASE UNCHANGED vars
      BY <2>2 DEF vars, Boundary!boundaryVars, TermsOf, OutcomeOf, ValueOf
    <2> QED
      BY <2>1, <2>2 DEF Next, Step, Finished
  <1> QED
    BY <1>1, <1>2, Invariance, PTL DEF Spec, ImplementsBoundary, Boundary!BoundarySpec

===============================================================================
