--------------------------- MODULE ContractBoundary ---------------------------
(***************************************************************************)
(* What a contract-wrapped node promises (docstrings of NodeContractMode   *)
(* and contract_node), without the span, the tracker, the exceptions and   *)
(* the order of the checks.  A call touches state paths, its node offers   *)
(* an update, and in one step the call is accepted with that update,       *)
(* rejected because it left its boundary, or fails for a reason of its own.*)
(* ContractRun implements this specification.                              *)
(***************************************************************************)
EXTENDS StatePaths

CONSTANTS Run, Update

VARIABLES terms,    \* [mode, contract] of each call; never changes
          outcome,  \* "running", "accepted", "rejected" or "failed"
          touched,  \* paths read by the node function
          seen,     \* paths read in the call's name, also after the node left
          offered,  \* the update the node function returned, None before that
          value     \* the update an accepted call contributes, else None

boundaryVars == <<terms, outcome, touched, seen, offered, value>>

BoundaryInit ==
    /\ DOMAIN terms = Run
    /\ outcome = [r \in Run |-> "running"]
    /\ touched = [r \in Run |-> {}]
    /\ seen = [r \in Run |-> {}]
    /\ offered = [r \in Run |-> None]
    /\ value = [r \in Run |-> None]

\* The node reads until it offers an update: what it touches is also seen.
Touch(r) ==
    /\ outcome[r] = "running" /\ offered[r] = None
    /\ touched[r] \subseteq touched'[r] /\ touched' = [touched EXCEPT ![r] = touched'[r]]
    /\ seen[r] \subseteq seen'[r] /\ seen' = [seen EXCEPT ![r] = seen'[r]]
    /\ UNCHANGED <<terms, outcome, offered, value>>

\* The node function returns an update, whatever its mode and its contract.
Offer(r) ==
    /\ outcome[r] = "running" /\ offered[r] = None
    /\ \E u \in Update \ {None} : offered' = [offered EXCEPT ![r] = u]
    /\ UNCHANGED <<terms, outcome, touched, seen, value>>

\* Something that kept the node's state reads it, at any time.
Linger(r) ==
    /\ seen[r] \subseteq seen'[r] /\ seen' = [seen EXCEPT ![r] = seen'[r]]
    /\ UNCHANGED <<terms, outcome, touched, offered, value>>

WritesWithin(r) == UndeclaredWrites(terms[r].contract, offered[r]) = {}

\* The update that was offered is contributed as it is; a strict call read and wrote
\* within its boundary.
Accept(r) ==
    /\ outcome[r] = "running" /\ offered[r] # None
    /\ outcome' = [outcome EXCEPT ![r] = "accepted"]
    /\ value' = [value EXCEPT ![r] = offered[r]]
    /\ terms[r].mode = "enforce" =>
        UndeclaredReads(terms[r].contract, touched[r]) = {} /\ WritesWithin(r)
    /\ UNCHANGED <<terms, touched, seen, offered>>

\* Only a strict call is rejected, and only for a path seen in its own name or
\* written by the very update its node offered.
Reject(r) ==
    /\ outcome[r] = "running"
    /\ outcome' = [outcome EXCEPT ![r] = "rejected"]
    /\ terms[r].mode = "enforce"
    /\ \/ UndeclaredReads(terms[r].contract, seen[r]) # {}
       \/ offered[r] # None /\ ~WritesWithin(r)
    /\ UNCHANGED <<terms, touched, seen, offered, value>>

Fail(r) ==
    /\ outcome[r] = "running"
    /\ outcome' = [outcome EXCEPT ![r] = "failed"]
    /\ UNCHANGED <<terms, touched, seen, offered, value>>

BoundaryNext ==
    \E r \in Run : Touch(r) \/ Offer(r) \/ Linger(r) \/ Accept(r) \/ Reject(r) \/ Fail(r)

BoundarySpec == BoundaryInit /\ [][BoundaryNext]_boundaryVars
===============================================================================
