------------------------------ MODULE Mailbox ------------------------------
(***************************************************************************)
(* What the message queue of a session promises to the user who writes     *)
(* into it, without targets, windows, reservations, leases or failures:    *)
(* a message that is accepted waits until it is given to the model, once,  *)
(* either as the prompt of its own run or together with others to a run    *)
(* whose prompt was given before, or until it is dropped, for good.        *)
(***************************************************************************)
EXTENDS Integers, Sequences, FiniteSets

CONSTANT Message   \* numbered in the order in which they are sent

VARIABLES
  posted,      \* the messages accepted or refused so far
  waiting,     \* the accepted ones that may still be given to the model
  transcript   \* what it was given: whose text (msg), to the run of which message (by)

Init == posted = {} /\ waiting = {} /\ transcript = <<>>

\* The messages are accepted or refused in their order
Post(m) ==
  /\ m \notin posted /\ \A n \in Message : n < m => n \in posted
  /\ posted' = posted \cup {m}
  /\ waiting' \in {waiting, waiting \cup {m}}
  /\ UNCHANGED transcript

\* Withdrawn, stopped, or ended before they were given to the model
Drop(S) ==
  /\ waiting' = waiting \ S
  /\ UNCHANGED <<posted, transcript>>

\* A message becomes the prompt of its own run
Prompt(m) ==
  /\ waiting' = waiting \ {m}
  /\ transcript' = Append(transcript, [msg |-> m, by |-> m])
  /\ UNCHANGED posted

\* Messages are given to the run of r, in order and after those it was given before
Steer(r, S) ==
  /\ waiting' = waiting \ S
  /\ \E i \in DOMAIN transcript : transcript[i].msg = r
  /\ \A i \in DOMAIN transcript : transcript[i].by = r /\ transcript[i].msg # r
                                    => \A m \in S : transcript[i].msg < m
  /\ \E q \in [1 .. Cardinality(S) -> S] :
       /\ \A i, j \in DOMAIN q : i < j => q[i] < q[j]
       /\ transcript' = transcript \o [i \in DOMAIN q |-> [msg |-> q[i], by |-> r]]
  /\ UNCHANGED posted

Next ==
  \/ \E S \in SUBSET waiting : Drop(S) \/ \E r \in Message : Steer(r, S)
  \/ \E m \in waiting : Prompt(m)
  \/ \E m \in Message : Post(m)

Spec == Init /\ [][Next]_<<posted, waiting, transcript>>

=============================================================================
