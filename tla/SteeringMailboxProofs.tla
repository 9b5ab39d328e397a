----------------------- MODULE SteeringMailboxProofs -----------------------
(***************************************************************************)
(* Steering implements Mailbox when the releases of input rows succeed:    *)
(* for every set of messages each step of the store or of a loop is a step *)
(* of the mailbox, or leaves it as it is.                                  *)
(***************************************************************************)
EXTENDS SteeringProofs

-----------------------------------------------------------------------------
(* Steps that give nothing to the model *)

Over(q) == status[q] \in Terminal /\ loop[q].at = "none"

\* Nothing is posted, and what is over stays so: at most, messages are dropped.
LEMMA QuietStep ==
  ASSUME UNCHANGED context,
         \A q \in Run : /\ Unsent(q)' <=> Unsent(q)
                        /\ status'[q] \notin Fresh => status[q] \notin Fresh
                        /\ Over(q) => Over(q)'
  PROVE  Box!Next
  <1>1. Posted' = Posted BY DEF Posted, Unsent
  <1>2. Waiting' \subseteq Waiting
    <2>1. ASSUME NEW q \in Waiting' PROVE q \in Waiting
      <3>1. /\ q \in Run /\ status'[q] \notin Fresh /\ ~Over(q)'
            /\ ~Recorded(q)'
        BY <2>1 DEF Waiting, Fresh, Over
      <3>2. ~Recorded(q) BY <3>1 DEF Recorded
      <3> QED BY <3>1, <3>2 DEF Waiting, Fresh, Over
    <2> QED BY <2>1
  <1> DEFINE S == Waiting \ Waiting'
  <1>3. S \in SUBSET Waiting /\ Waiting' = Waiting \ S BY <1>2
  <1> HIDE DEF S
  <1>4. Box!Drop(S) BY <1>1, <1>3 DEF Box!Drop
  <1> QED BY <1>3, <1>4 DEF Box!Next

\* One run changes its status; no loop moves.
LEMMA QuietVerdict ==
  ASSUME UNCHANGED <<context, loop>>,
         \A q \in Run : \/ status'[q] = status[q]
                        \/ status[q] \in {"pending", "running", "waiting"} /\ status'[q] \notin Fresh
                        \/ status[q] = "absent" /\ status'[q] = "received"
  PROVE  Box!Next
  <1>1. ASSUME NEW q \in Run
        PROVE  /\ Unsent(q)' <=> Unsent(q)
               /\ status'[q] \notin Fresh => status[q] \notin Fresh
               /\ Over(q) => Over(q)'
    BY DEF Unsent, Fresh, Over, Terminal
  <1> QED BY <1>1, QuietStep

\* A loop takes a step.
LEMMA QuietLoop ==
  ASSUME IInv, NEW r \in Run, loop[r].at # "none", UNCHANGED context,
         \A q \in Run : q # r => status'[q] = status[q] /\ loop'[q] = loop[q],
         status'[r] \notin Fresh
  PROVE  Box!Next
  <1>1. status[r] \in {"running"} \cup Terminal BY DEF IInv, OwnInv
  <1>2. ASSUME NEW q \in Run
        PROVE  /\ Unsent(q)' <=> Unsent(q)
               /\ status'[q] \notin Fresh => status[q] \notin Fresh
               /\ Over(q) => Over(q)'
    <2>1. CASE q # r BY <2>1 DEF Unsent, Over
    <2>2. CASE q = r BY <1>1, <2>2 DEF Unsent, Over, Fresh, Terminal
    <2> QED BY <2>1, <2>2
  <1> QED BY <1>2, QuietStep

LEMMA QuietGoTo ==
  ASSUME IInv, NEW r \in Run, loop[r].at # "none", UNCHANGED <<context, status>>,
         \/ \E at : GoTo(r, at)
         \/ \E x : loop' = [loop EXCEPT ![r] = x]
  PROVE  Box!Next
  <1>1. loop \in [Run -> Loop] BY DEF IInv, TypeOK
  <1>2. \A q \in Run : q # r => loop'[q] = loop[q] BY <1>1 DEF GoTo
  <1>3. status[r] \notin Fresh BY DEF IInv, OwnInv, Fresh, Terminal
  <1> QED BY <1>2, <1>3, QuietLoop

LEMMA QuietEnd ==
  ASSUME IInv, NEW r \in Run, NEW s \in {"waiting", "completed", "failed"},
         loop[r].at # "none", GoTo(r, "none"), UNCHANGED context,
         IF Live(r) THEN SetStatus(r, s) ELSE UNCHANGED status
  PROVE  Box!Next
  <1>1. /\ loop \in [Run -> Loop] /\ status \in [Run -> Status]
        /\ status[r] \in {"running"} \cup Terminal
    BY DEF IInv, TypeOK, OwnInv
  <1>2. /\ \A q \in Run : q # r => loop'[q] = loop[q] /\ status'[q] = status[q]
        /\ status'[r] \in {s, status[r]}
    BY <1>1 DEF GoTo, SetStatus
  <1>3. status'[r] \notin Fresh BY <1>1, <1>2 DEF Fresh, Terminal
  <1> QED BY <1>2, <1>3, QuietLoop

-----------------------------------------------------------------------------
(* A message is stored *)

LEMMA PostStep ==
  ASSUME IInv, NEW r \in Run, EnqueuePlain(r) \/ EnqueueSteer(r)
  PROVE  Box!Next
  <1>1. /\ status[r] = "received" /\ \A q \in Run : q < r => ~Unsent(q)
        /\ UNCHANGED <<context, loop>>
    BY DEF EnqueuePlain, EnqueueSteer, Unsent
  <1>2. PICK s \in {"pending", "rejected"} : status' = [status EXCEPT ![r] = s]
    BY DEF EnqueuePlain, EnqueueSteer, SetStatus
  <1>3. status \in [Run -> Status] /\ ~Recorded(r) BY <1>1 DEF IInv, TypeOK, RecordInv, Fresh
  <1>4. status'[r] = s /\ \A q \in Run : q # r => status'[q] = status[q] BY <1>2, <1>3
  <1>5. r \notin Posted /\ \A q \in Run : q < r => q \in Posted BY <1>1 DEF Posted, Unsent
  <1>6. Posted' = Posted \cup {r} BY <1>4 DEF Posted
  <1>7. \A q \in Run : Recorded(q)' <=> Recorded(q) BY <1>1 DEF Recorded
  <1>8. r \notin Waiting BY <1>1 DEF Waiting
  <1>9. \A q \in Run : q # r => (q \in Waiting' <=> q \in Waiting)
    BY <1>1, <1>4, <1>7 DEF Waiting
  <1>10. Waiting' \in {Waiting, Waiting \cup {r}}
    <2>1. Waiting \subseteq Run /\ Waiting' \subseteq Run BY DEF Waiting
    <2> QED BY <1>8, <1>9, <2>1
  <1>11. Box!Post(r) BY <1>1, <1>5, <1>6, <1>10 DEF Box!Post
  <1> QED BY <1>11 DEF Box!Next

-----------------------------------------------------------------------------
(* A message is given to the model *)

LEMMA PromptStep ==
  ASSUME IInv, NEW r \in Run, RecordPrompt(r)
  PROVE  Box!Next
  <1>1. loop[r].at = "prompt" /\ GoTo(r, "start") /\ UNCHANGED status BY DEF RecordPrompt
  <1>2. CASE Recorded(r)
    <2>1. UNCHANGED context BY <1>2 DEF RecordPrompt
    <2> QED BY <1>1, <2>1, QuietGoTo
  <1>3. CASE ~Recorded(r)
    <2> DEFINE e == [msg |-> r, by |-> r]
               E == <<e>>
    <2>1. TypeOK /\ OwnInv(r) /\ context \in Seq(Event) BY DEF IInv, TypeOK
    <2>2. e \in Event /\ e.msg = r BY DEF Event
    <2>3. context' = Append(context, e) BY <1>3 DEF RecordPrompt
    <2>4. r \in Waiting
      BY <1>1, <1>3, <2>1 DEF Waiting, OwnInv, Terminal
    <2>5. ASSUME NEW q \in Run PROVE Recorded(q)' <=> Recorded(q) \/ q = r
      <3> HIDE DEF e
      <3>1. context' = context \o E BY <2>1, <2>2, <2>3, AppendIsConcat
      <3>2. E \in Seq(Event) /\ DOMAIN E = {1} /\ E[1] = e BY <2>2
      <3> HIDE DEF E
      <3>3. /\ \A i \in DOMAIN context : i \in DOMAIN context' /\ context'[i] = context[i]
            /\ \A i \in DOMAIN context' : i \notin DOMAIN context =>
                 \E k \in DOMAIN E : i = Len(context) + k /\ context'[i] = E[k]
            /\ \A k \in DOMAIN E : /\ Len(context) + k \in DOMAIN context'
                                   /\ context'[Len(context) + k] = E[k]
        BY <2>1, <3>1, <3>2, Extension
      <3>4. Recorded(q) => Recorded(q)' BY <3>3 DEF Recorded
      <3>5. Recorded(q)' => Recorded(q) \/ q = r BY <2>2, <3>2, <3>3 DEF Recorded
      <3>6. Recorded(r)'
        <4>1. Len(context) + 1 \in DOMAIN context' /\ context'[Len(context) + 1].msg = r
          BY <2>2, <3>2, <3>3
        <4> QED BY <4>1 DEF Recorded
      <3> QED BY <3>4, <3>5, <3>6
    <2>6. \A q \in Run : q # r => loop'[q] = loop[q] BY <1>1, <2>1 DEF GoTo, TypeOK
    <2>7. Waiting' = Waiting \ {r}
      <3>1. Waiting \subseteq Run /\ Waiting' \subseteq Run BY DEF Waiting
      <3>2. r \notin Waiting' BY <2>5 DEF Waiting
      <3>3. \A q \in Run : q # r => (q \in Waiting' <=> q \in Waiting)
        BY <1>1, <2>5, <2>6 DEF Waiting
      <3> QED BY <3>1, <3>2, <3>3
    <2>8. Posted' = Posted BY <1>1 DEF Posted
    <2>9. Box!Prompt(r) BY <2>3, <2>7, <2>8 DEF Box!Prompt
    <2> QED BY <2>4, <2>9 DEF Box!Next
  <1> QED BY <1>2, <1>3

LEMMA SteerStep ==
  ASSUME IInv, faults["release"] = 0, NEW r \in Run, loop[r].stage = "held",
         Applied(r, Appliable(r)), \A q \in Run : q # r => loop'[q] = loop[q]
  PROVE  Box!Next
  <1>S. PICK S : S = Appliable(r) OBVIOUS
  <1>E. PICK E : E = Interjections(r, S) OBVIOUS
  <1>1. TypeOK /\ OwnInv(r) /\ loop[r] \in Loop /\ context \in Seq(Event)
    BY DEF IInv, TypeOK
  <1>2. ASSUME NEW s \in S
        PROVE  /\ s \in Run /\ status[s] = "pending" /\ Queued(s) /\ s \in Listed(r)
               /\ ~Recorded(s)
    <2>1. s \in Run /\ status[s] = "pending" /\ Queued(s) /\ s \in Listed(r)
      BY <1>S, <1>1, <1>2 DEF Appliable, Loop, Queued, Listed
    <2> QED BY <2>1 DEF IInv, RecordInv
  <1>3. S \in SUBSET Waiting BY <1>2 DEF Waiting, Terminal
  <1>4. Recorded(r) BY <1>1 DEF IInv, RecordInv, OwnInv
  <1>5. /\ context' = context \o E
        /\ status' = [s \in Run |-> IF s \in S THEN "completed" ELSE status[s]]
    BY <1>S, <1>E DEF Applied
  <1> DEFINE q == InOrder(S)
  <1>6. /\ q \in [1 .. Cardinality(S) -> S]
        /\ \A i, j \in DOMAIN q : i < j => q[i] < q[j]
    <2>1. S \in SUBSET Nat BY <1>2, RunAssumption
    <2>2. IsFiniteSet(S)
      <3>1. S \in SUBSET Known BY <1>2 DEF Known
      <3> QED BY <3>1, FS_Subset DEF IInv
    <2> QED BY <2>1, <2>2, InOrderSorts
  <1>7. E = [i \in DOMAIN q |-> [msg |-> q[i], by |-> r]]
    <2>1. {s \in S : ~Interjected(s)} = S BY <1>2 DEF Interjected, Recorded
    <2> QED BY <1>E, <2>1 DEF Interjections
  <1>8. \A i \in DOMAIN context : context[i].by = r /\ context[i].msg # r
                                    => \A m \in S : context[i].msg < m
    BY <1>2 DEF IInv, TargetInv, LineInv
  <1>9. /\ E \in Seq(Event) /\ \A k \in DOMAIN E : E[k].msg \in S
    BY <1>E, <1>2, InterjectionFacts
  <1>10. /\ \A i \in DOMAIN context : i \in DOMAIN context' /\ context'[i] = context[i]
         /\ \A i \in DOMAIN context' : i \notin DOMAIN context =>
              \E k \in DOMAIN E : i = Len(context) + k /\ context'[i] = E[k]
    BY <1>1, <1>5, <1>9, Extension
  <1>11. ASSUME NEW u \in Run, u \notin S PROVE Recorded(u)' <=> Recorded(u)
    BY <1>9, <1>10, <1>11 DEF Recorded
  <1>12. Waiting' = Waiting \ S
    <2>1. Waiting \subseteq Run /\ Waiting' \subseteq Run BY DEF Waiting
    <2>2. ASSUME NEW s \in S PROVE s \notin Waiting'
      <3>1. s \in Run /\ s # r /\ status'[s] = "completed" BY <1>2, <1>4, <1>5
      <3>2. loop'[s].at = "none" BY <1>2, <3>1 DEF IInv, OwnInv, Terminal
      <3> QED BY <3>1, <3>2 DEF Waiting, Terminal
    <2>3. ASSUME NEW u \in Run, u \notin S PROVE u \in Waiting' <=> u \in Waiting
      <3>1. status'[u] = status[u] /\ (Recorded(u)' <=> Recorded(u)) BY <1>5, <1>11, <2>3
      <3>2. CASE u = r BY <1>4, <3>1, <3>2 DEF Waiting
      <3>3. CASE u # r BY <3>1, <3>3 DEF Waiting
      <3> QED BY <3>2, <3>3
    <2> QED BY <2>1, <2>2, <2>3
  <1>13. Posted' = Posted
    <2>1. \A u \in Run : u \in Posted' <=> u \in Posted BY <1>2, <1>5 DEF Posted
    <2> QED BY <2>1 DEF Posted
  <1>14. \E i \in DOMAIN context : context[i].msg = r BY <1>4 DEF Recorded
  <1>15. context' = context \o [i \in DOMAIN q |-> [msg |-> q[i], by |-> r]] BY <1>5, <1>7
  <1> HIDE DEF q
  <1>16. \E p \in [1 .. Cardinality(S) -> S] :
           /\ \A i, j \in DOMAIN p : i < j => p[i] < p[j]
           /\ context' = context \o [i \in DOMAIN p |-> [msg |-> p[i], by |-> r]]
    BY <1>6, <1>15, Zenon
  <1>17. Box!Cardinality(S) = Cardinality(S) BY Zenon DEF Box!Cardinality, Cardinality
  <1>18. Box!Steer(r, S)
    BY <1>8, <1>12, <1>13, <1>14, <1>16, <1>17, Zenon DEF Box!Steer
  <1> QED BY <1>3, <1>18 DEF Box!Next

-----------------------------------------------------------------------------
(* The refinement *)

\* Releases that do not fail are never counted as failed.
LEMMA ReleasesStep ==
  ASSUME TypeOK, "release" \notin Failing, [Next]_vars, faults["release"] = 0
  PROVE  faults'["release"] = 0
  <1>1. \/ UNCHANGED faults
        \/ \E k \in {"call", "reply", "release"} : Fault(k)
    BY DEF vars, Next, Receive, EnqueuePlain, EnqueueSteer, Withdraw, Answer, CancelRun,
           Lease, LoopStep, ReleaseOwnInput, RecordPrompt, Load, Reserve, Apply, SealWindow,
           FinishRun, HandOver, ParkRun, Fail, Stop
  <1>2. ASSUME NEW k \in {"call", "reply", "release"}, Fault(k) PROVE faults'["release"] = 0
    <2>1. k # "release" /\ faults' = [faults EXCEPT ![k] = faults[k] + 1] BY <1>2 DEF Fault
    <2> QED BY <2>1 DEF TypeOK, FaultKind
  <1> QED BY <1>1, <1>2

LEMMA LoopRefines ==
  ASSUME IInv, faults["release"] = 0, NEW r \in Run, LoopStep(r)
  PROVE  Box!Next
  <1>1. /\ TypeOK /\ OwnInv(r) /\ loop \in [Run -> Loop]
    BY DEF IInv, TypeOK
  <1>2. loop[r].stage # "ready" => loop[r].at # "none" BY <1>1 DEF OwnInv
  <1>3. CASE ReleaseOwnInput(r) BY <1>3, QuietGoTo DEF ReleaseOwnInput
  <1>4. CASE RecordPrompt(r) BY <1>4, PromptStep
  <1>5. CASE Load(r)
    <2>1. loop[r].at # "none" /\ UNCHANGED <<context, status>> BY <1>5 DEF Load, AtBoundary
    <2>2. \/ \E at : GoTo(r, at)
          \/ loop' = [loop EXCEPT ![r].stage = "loaded", ![r].sources = Listed(r)]
      BY <1>5 DEF Load
    <2>3. \A q \in Run : q # r => loop'[q] = loop[q] BY <1>1, <2>2 DEF GoTo
    <2>4. status[r] \notin Fresh BY <1>1, <2>1 DEF OwnInv, Fresh, Terminal
    <2> QED BY <2>1, <2>3, <2>4, QuietLoop
  <1>6. CASE Reserve(r)
    <2>1. loop[r].at # "none" /\ UNCHANGED <<context, status>> BY <1>2, <1>6 DEF Reserve
    <2>2. \/ \E at : GoTo(r, at)
          \/ loop' = [loop EXCEPT ![r].stage = "held", ![r].sources = Reservable(r)]
      BY <1>6 DEF Reserve
    <2>3. \A q \in Run : q # r => loop'[q] = loop[q] BY <1>1, <2>2 DEF GoTo
    <2>4. status[r] \notin Fresh BY <1>1, <2>1 DEF OwnInv, Fresh, Terminal
    <2> QED BY <2>1, <2>3, <2>4, QuietLoop
  <1>7. CASE Apply(r)
    <2>1. loop[r].stage = "held" /\ \E at : GoTo(r, at) BY <1>7 DEF Apply
    <2>2. \A q \in Run : q # r => loop'[q] = loop[q] BY <1>1, <2>1 DEF GoTo
    <2>3. CASE Applied(r, Appliable(r)) BY <2>1, <2>2, <2>3, SteerStep
    <2>4. CASE UNCHANGED <<context, status>> BY <1>2, <2>1, <2>4, QuietGoTo
    <2> QED BY <1>7, <2>3, <2>4 DEF Apply
  <1>8. CASE SealWindow(r)
    <2>1. /\ loop[r].at # "none" /\ UNCHANGED <<context, status>>
          /\ \E at : GoTo(r, at)
      BY <1>8 DEF SealWindow
    <2> QED BY <2>1, QuietGoTo
  <1>9. CASE FinishRun(r) BY <1>9, QuietEnd DEF FinishRun
  <1>10. CASE HandOver(r)
    <2>1. /\ loop[r].at # "none" /\ UNCHANGED <<context, status>>
          /\ \E at : GoTo(r, at)
      BY <1>10 DEF HandOver, AtBoundary
    <2> QED BY <2>1, QuietGoTo
  <1> QED BY <1>3, <1>4, <1>5, <1>6, <1>7, <1>8, <1>9, <1>10 DEF LoopStep

LEMMA StepRefines ==
  ASSUME IInv, faults["release"] = 0, Next
  PROVE  Box!Next
  <1>1. TypeOK /\ status \in [Run -> Status] /\ loop \in [Run -> Loop] BY DEF IInv, TypeOK
  <1>2. ASSUME NEW r \in Run, Receive(r) PROVE Box!Next
    BY <1>1, <1>2, QuietVerdict DEF Receive, SetStatus
  <1>3. ASSUME NEW r \in Run, Withdraw(r) \/ Answer(r) \/ CancelRun(r) PROVE Box!Next
    <2>1. /\ status[r] \in {"pending", "running", "waiting"} /\ UNCHANGED <<context, loop>>
          /\ \E s \in {"cancelled", "pending"} : status' = [status EXCEPT ![r] = s]
      BY <1>3 DEF Withdraw, Answer, CancelRun, SetStatus, Live
    <2>2. status'[r] \notin Fresh /\ \A q \in Run : q # r => status'[q] = status[q]
      BY <1>1, <2>1 DEF Fresh
    <2> QED BY <2>1, <2>2, QuietVerdict
  <1>4. ASSUME NEW r \in Run, Lease(r) PROVE Box!Next
    <2>1. /\ UNCHANGED context /\ status' = [status EXCEPT ![r] = "running"]
          /\ GoTo(r, "woken") /\ status[r] \in {"pending", "running"}
      BY <1>4 DEF Lease, SetStatus
    <2>2. /\ status'[r] = "running"
          /\ \A q \in Run : q # r => status'[q] = status[q] /\ loop'[q] = loop[q]
      BY <1>1, <2>1 DEF GoTo
    <2>3. ASSUME NEW q \in Run
          PROVE  /\ Unsent(q)' <=> Unsent(q)
                 /\ status'[q] \notin Fresh => status[q] \notin Fresh
                 /\ Over(q) => Over(q)'
      BY <2>1, <2>2 DEF Unsent, Fresh, Over, Terminal
    <2> QED BY <2>1, <2>3, QuietStep
  <1>5. ASSUME NEW r \in Run, ParkRun(r) PROVE Box!Next BY <1>5, QuietEnd DEF ParkRun
  <1>6. ASSUME NEW r \in Run, Fail(r) PROVE Box!Next BY <1>6, QuietEnd DEF Fail
  <1>7. ASSUME NEW t \in Run \cup {NoRun}, Stop(t) PROVE Box!Next
    <2>1. UNCHANGED <<context, loop>> BY <1>7 DEF Stop
    <2>2. ASSUME NEW q \in Run
          PROVE  \/ status'[q] = status[q]
                 \/ status[q] \in {"pending", "running", "waiting"} /\ status'[q] = "cancelled"
      <3>1. q = t => status[q] \in {"pending", "running", "waiting"}
        BY <1>7, RunAssumption DEF Stop, Live
      <3> QED BY <1>7, <3>1 DEF Stop
    <2> QED BY <2>1, <2>2, QuietVerdict DEF Fresh
  <1>8. ASSUME NEW r \in Run, EnqueuePlain(r) \/ EnqueueSteer(r) PROVE Box!Next
    BY <1>8, PostStep
  <1> QED BY <1>2, <1>3, <1>4, <1>5, <1>6, <1>7, <1>8, LoopRefines DEF Next

LEMMA InitRefines == Init => Box!Init
  <1> SUFFICES ASSUME Init PROVE Box!Init OBVIOUS
  <1>1. context = <<>> /\ \A r \in Run : status[r] = "absent" BY DEF Init
  <1>2. Posted = {} /\ Waiting = {} BY <1>1 DEF Posted, Waiting
  <1> QED BY <1>1, <1>2 DEF Box!Init

\* If the releases of input rows do not fail, the queue of a session behaves as a
\* mailbox: whatever loops list, reserve, hand over or fail to apply, every message is
\* accepted in order, and given to the model once and in order or dropped for good.
THEOREM SteeringImplementsMailbox ==
  ASSUME "release" \notin Failing
  PROVE  Spec => ImplementsMailbox
  <1> DEFINE Released == faults["release"] = 0
  <1>1. Init => Released BY DEF Init, FaultKind
  <1>2. IInv /\ Released /\ [Next]_vars => Released'
    BY ReleasesStep DEF IInv
  <1>3. IInv /\ Released /\ [Next]_vars => [Box!Next]_<<Posted, Waiting, context>>
    <2>1. ASSUME UNCHANGED vars PROVE UNCHANGED <<Posted, Waiting, context>>
      BY <2>1 DEF vars, Posted, Waiting, Recorded
    <2> QED BY <2>1, StepRefines
  <1> HIDE DEF Released
  <1> QED BY <1>1, <1>2, <1>3, InitRefines, SteeringInvariant, PTL
        DEF Spec, ImplementsMailbox, Box!Spec

=============================================================================
