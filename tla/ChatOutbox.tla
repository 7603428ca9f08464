----------------------------- MODULE ChatOutbox -----------------------------
(***************************************************************************)
(* What the YouTube chat composer promises its operator, whatever the      *)
(* workers, routes and retries behind it do: messages are accepted one     *)
(* after another, each chat shows them in that order and none twice, a     *)
(* verdict is given once and is true, and a message never reaches a chat   *)
(* after the operator has been given its verdict.                          *)
(***************************************************************************)
EXTENDS Naturals, Sequences

CONSTANTS Route,
          Message  \* numbers, in the order the operator sends them

VARIABLES arrived,  \* the messages each route's chat has received
          told      \* what the operator was told about each message

vars == <<arrived, told>>

Verdict == {"sent", "partial", "failed"}
ArrivedAt(r) == {arrived[r][i] : i \in DOMAIN arrived[r]}

Init == /\ arrived = [r \in Route |-> <<>>]
        /\ told = [m \in Message |-> "none"]

\* m is the next message: all earlier ones have been accepted.
IsNext(m) == told[m] = "none" /\ \A n \in Message : n < m => told[n] # "none"

Truthful(m, verdict) ==
  IF verdict = "failed" THEN \A r \in Route : m \notin ArrivedAt(r)
                        ELSE \E r \in Route : m \in ArrivedAt(r)

\* The operator sends a message, and may learn what became of earlier ones.
Report ==
  /\ \E t \in [Message -> {"none", "queued"} \union Verdict] :
       /\ told' = t
       /\ \A m \in Message :
            \/ t[m] = told[m]
            \/ t[m] = "queued" /\ IsNext(m)
            \/ told[m] = "queued" /\ t[m] \in Verdict /\ Truthful(m, t[m])
  /\ UNCHANGED arrived

\* A chat receives a message that is newer than all it has.
Deliver(m, r) ==
  /\ told[m] = "queued"
  /\ \A n \in ArrivedAt(r) : n < m
  /\ arrived' = [arrived EXCEPT ![r] = Append(@, m)]
  /\ UNCHANGED told

Next == Report \/ \E m \in Message, r \in Route : Deliver(m, r)

Spec == Init /\ [][Next]_vars

-----------------------------------------------------------------------------
\* Each chat receives the messages in the order they were sent, and none twice.
ArrivedInOrder ==
  \A r \in Route : \A i, j \in DOMAIN arrived[r] : i < j => arrived[r][i] < arrived[r][j]

\* "Could not be sent" means no chat has the message, "sent" means one has.
HonestVerdicts ==
  \A m \in Message : told[m] \in Verdict => Truthful(m, told[m])

=============================================================================
