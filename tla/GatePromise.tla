----------------------------- MODULE GatePromise -----------------------------
(***************************************************************************)
(* What the gates promise to the pipeline and to the operator: a gate is    *)
(* asked about only after the pipeline opened it, and answered once.       *)
(***************************************************************************)
CONSTANT Gates      \* the gates of the pipeline_runs table

VARIABLES opened,   \* gates the pipeline waits or waited for
          asked,    \* gates a message was sent about
          verdict   \* the answer, once there is one

vars == <<opened, asked, verdict>>

Answers == {"approved", "rejected"}

Init ==
    /\ opened = {} /\ asked = {}
    /\ verdict = [g \in Gates |-> "none"]

Open(g) ==
    /\ g \notin opened
    /\ opened' = opened \cup {g}
    /\ UNCHANGED <<asked, verdict>>

Ask(g) ==
    /\ g \in opened
    /\ asked' = asked \cup {g}
    /\ UNCHANGED <<opened, verdict>>

Answer(g, answer) ==
    /\ g \in opened /\ verdict[g] = "none"
    /\ verdict' = [verdict EXCEPT ![g] = answer]
    /\ UNCHANGED <<opened, asked>>

Next == \E g \in Gates : Open(g) \/ Ask(g) \/ \E answer \in Answers : Answer(g, answer)

Spec == Init /\ [][Next]_vars
=============================================================================
