--------------------------- MODULE InterviewLedger ---------------------------
(***************************************************************************)
(* What a session promises the history page and the scoring, whatever      *)
(* happens to the requests that carry it: topics are opened one after      *)
(* another, each is answered before it is scored and scored before the     *)
(* next is opened, and the session is complete only over scored topics.    *)
(***************************************************************************)
EXTENDS Integers

CONSTANT Topics   \* 0 .. n_questions - 1

VARIABLES
  phase,   \* per topic: "pending", "opened", "answered", "scored"
  status   \* of the session

Phases == {"pending", "opened", "answered", "scored"}

Init ==
  /\ phase = [t \in Topics |-> "pending"]
  /\ status = "active"

Move(t, from, to) ==
  /\ phase[t] = from
  /\ phase' = [phase EXCEPT ![t] = to]
  /\ UNCHANGED status

Open(t) ==
  /\ \A u \in Topics : u < t => phase[u] = "scored"
  /\ Move(t, "pending", "opened")
Answer(t) == Move(t, "opened", "answered")
Score(t) == Move(t, "answered", "scored")

Wrap ==
  /\ \A t \in Topics : phase[t] = "scored"
  /\ status' = "complete"
  /\ UNCHANGED phase

Abandon ==
  /\ status' = "abandoned"
  /\ UNCHANGED phase

Next ==
  \/ \E t \in Topics : Open(t) \/ Answer(t) \/ Score(t)
  \/ Wrap
  \/ Abandon

Spec == Init /\ [][Next]_<<phase, status>>
=============================================================================
