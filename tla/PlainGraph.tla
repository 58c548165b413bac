------------------------------ MODULE PlainGraph ------------------------------
(***************************************************************************)
(* A LangGraph graph of plain nodes, as the examples build it with         *)
(* add_raw_node: what a graph does without graphobs.  Each superstep calls *)
(* the nodes of one stage with the whole state and applies their updates   *)
(* together, or the run fails.  GraphRun implements this specification.    *)
(*                                                                         *)
(* A node function looks up dotted paths with state.get and a default, and *)
(* computes each leaf of its update from at most one of them; a computed   *)
(* value is named by the value it is computed from.                        *)
(***************************************************************************)
EXTENDS StatePaths

CONSTANTS Flow,     \* for each node: its update's leaf paths, and the path
                    \* each is computed from (None for a constant)
          Channel,  \* the keys of the graph's state schema
          Default   \* what a default, or a constant, computes to

VARIABLES plan,     \* the graph: its stages (sets of nodes) and initial state
          run,      \* "new", "going", "done" or "failed"
          stage,    \* the stage that is running
          state     \* the graph's channels

plainVars == <<plan, run, stage, state>>

-------------------------------------------------------------------------------

ValueAt(t, p) == IF p \in DOMAIN t THEN t[p] ELSE Default

\* What node n returns when it is called with the plain mapping t.
PlainUpdate(n, t) == [leaf \in DOMAIN Flow[n] |-> ValueAt(t, Flow[n][leaf])]

\* LangGraph ignores what a node returns for a key that is no channel.
Written(update) == Restrict(update, {p \in DOMAIN update : p[1] \in Channel})

\* Two nodes of a superstep may not write one last-value channel.
Clash(nodes, update) ==
    \E n, m \in nodes : n # m /\
        \E p \in DOMAIN Written(update[n]), q \in DOMAIN Written(update[m]) : p[1] = q[1]

\* The state after the updates of a superstep, which do not clash.
Applied(nodes, update, t) ==
    LET written == [n \in nodes |-> Written(update[n])]
        leaves == UNION {DOMAIN written[n] : n \in nodes}
    IN  Overwrite(t, [p \in leaves |-> written[CHOOSE n \in nodes : p \in DOMAIN written[n]][p]])

-------------------------------------------------------------------------------

PlainInit ==
    /\ run = "new"
    /\ stage = 1
    /\ state = plan.initial

PlainStart ==
    /\ run = "new"
    /\ run' \in {"going", "failed"}
    /\ UNCHANGED <<plan, stage, state>>

PlainStep ==
    LET nodes == plan.stages[stage]
        update == [n \in nodes |-> PlainUpdate(n, state)]
    IN  /\ run = "going" /\ stage <= Len(plan.stages)
        /\ ~Clash(nodes, update)
        /\ state' = Applied(nodes, update, state)
        /\ stage' = stage + 1
        /\ UNCHANGED <<plan, run>>

PlainFinish ==
    /\ run = "going" /\ stage > Len(plan.stages)
    /\ run' = "done"
    /\ UNCHANGED <<plan, stage, state>>

PlainFail ==
    /\ run = "going"
    /\ run' = "failed"
    /\ UNCHANGED <<plan, stage, state>>

PlainNext == PlainStart \/ PlainStep \/ PlainFinish \/ PlainFail

PlainSpec == PlainInit /\ [][PlainNext]_plainVars
===============================================================================
