--------------------------- MODULE SteeringProofs ---------------------------
(***************************************************************************)
(* Safety of Steering for every set of messages, every choice of           *)
(* continuations and of failures.                                          *)
(***************************************************************************)
EXTENDS Steering, FiniteSetTheorems, SequenceTheorems, TLAPS

Unsent(r) == status[r] \in {"absent", "received"}
Fresh == {"absent", "received", "rejected"}
Known == {r \in Run : status[r] # "absent"}

\* The loop, the status and the input row of one message agree.  A message whose input
\* is still queued is not executed beyond its wake; what was revoked is over.
OwnInv(r) ==
  /\ loop[r].at = "none" => status[r] # "running" /\ loop[r].stage = "ready"
  /\ loop[r].at # "none" => status[r] \in {"running"} \cup Terminal
  /\ loop[r].stage # "ready" => loop[r].at \in {"start", "turn", "drained"}
  /\ r \in late => status[r] \in {"received", "rejected"}
  /\ status[r] \in Fresh => input[r].state = "none"
  /\ input[r].state # "none" => input[r].target \in Run
  /\ Revoked(r) => status[r] = "cancelled" /\ loop[r].at = "none"
  /\ faults["release"] = 0 /\ Queued(r)
       => loop[r].at \in {"none", "woken"} /\ status[r] # "waiting"

\* Messages are stored in the order of their numbers.
QueueOrder == \A p, q \in Run : p < q /\ Unsent(p) => Unsent(q)

\* A message reserved for a run that is not over is still queued behind it, its window is
\* open and, if no reply was lost, its loop knows of the reservation or is about to ask.
ReservedFor(r, s) == input[s].state = "reserved" /\ input[s].target = r

HeldInv(r, s) ==
  ReservedFor(r, s) /\ status[r] \notin Terminal =>
    /\ status[s] \in {"pending"} \cup Terminal
    /\ status[s] = "pending" =>
         /\ r \notin sealed
         /\ faults["reply"] = 0 =>
              /\ status[r] = "running"
              /\ \/ loop[r].at \in {"woken", "prompt", "start", "handoff", "handed"}
                 \/ loop[r].stage = "held"
              /\ loop[r].stage # "ready" => s \in loop[r].sources

\* What the loop of a run listed or reserved comes before all that arrived since, and
\* what it was given before all that is still queued.
LineInv(r) ==
  /\ r \in sealed => Listed(r) = {}
  /\ loop[r].stage # "ready" =>
       \A s \in Listed(r), m \in loop[r].sources : s \in loop[r].sources \/ m < s
  /\ loop[r].stage = "held" =>
       \A s \in Listed(r) : s \in loop[r].sources => input[s].state = "reserved"
  /\ \A i \in DOMAIN context : context[i].by = r /\ context[i].msg # r =>
       \A s \in Listed(r) : context[i].msg < s

TargetInv(r) ==
  /\ \A s \in loop[r].sources : status[s] \notin Fresh
  /\ \A s \in Run : HeldInv(r, s)
  /\ faults["release"] = 0 => LineInv(r)

\* A recorded message was stored, a loop past its prompt has recorded it, nothing is
\* given to a run before its own prompt, and what is recorded is no longer queued.
RecordInv(r) ==
  /\ Recorded(r) => status[r] \notin Fresh
  /\ loop[r].at \notin {"none", "woken", "prompt"} => Recorded(r)
  /\ (\E i \in DOMAIN context : context[i].by = r) => Recorded(r)
  /\ faults["release"] = 0 /\ Recorded(r) => ~Queued(r)

IInv ==
  /\ TypeOK
  /\ IsFiniteSet(Known)
  /\ QueueOrder
  /\ \A r \in Run : OwnInv(r) /\ TargetInv(r) /\ RecordInv(r)
  /\ MessageEntersOnce
  /\ SteeredInOrder

-----------------------------------------------------------------------------
(* Interjections come in the order of their rows *)

LEMMA OrderExists ==
  ASSUME NEW S \in SUBSET Nat, IsFiniteSet(S)
  PROVE  \E q \in [1 .. Cardinality(S) -> S] : \A i, j \in DOMAIN q : i < j => q[i] < q[j]
  <1> DEFINE n == Cardinality(S)
             Upto(s) == {t \in S : t <= s}
             rank == [s \in S |-> Cardinality(Upto(s))]
  <1>1. n \in Nat BY FS_CardinalityType
  <1>2. ASSUME NEW s \in S PROVE IsFiniteSet(Upto(s)) /\ rank[s] \in 1 .. n
    <2>1. Upto(s) \in SUBSET S OBVIOUS
    <2>2. IsFiniteSet(Upto(s)) /\ Cardinality(Upto(s)) <= n BY <2>1, FS_Subset
    <2>3. s \in Upto(s) OBVIOUS
    <2>4. Cardinality(Upto(s)) \in Nat /\ Cardinality(Upto(s)) # 0
      BY <2>2, <2>3, FS_CardinalityType, FS_EmptySet
    <2> QED BY <1>1, <2>2, <2>4
  <1>3. ASSUME NEW s \in S, NEW t \in S, s < t PROVE rank[s] < rank[t]
    <2>1. Upto(s) \in SUBSET Upto(t)
      <3>1. ASSUME NEW u \in S, u <= s PROVE u <= t
        <4>1. u \in Nat /\ s \in Nat /\ t \in Nat OBVIOUS
        <4> QED BY <1>3, <3>1, <4>1
      <3> QED BY <3>1
    <2>2. t \in Upto(t) /\ t \notin Upto(s) BY <1>3
    <2>3. IsFiniteSet(Upto(t)) BY <1>2
    <2>4. /\ Cardinality(Upto(s)) <= Cardinality(Upto(t))
          /\ Cardinality(Upto(t)) = Cardinality(Upto(s)) => Upto(t) = Upto(s)
      BY <2>1, <2>3, FS_Subset
    <2>5. rank[s] \in Nat /\ rank[t] \in Nat BY <1>2
    <2> QED BY <2>2, <2>4, <2>5
  <1> HIDE DEF rank, n
  <1>4. rank \in [S -> 1 .. n] BY <1>2 DEF rank
  <1>5. rank \in Injection(S, 1 .. n)
    <2>1. ASSUME NEW s \in S, NEW t \in S, rank[s] = rank[t] PROVE s = t
      <3>1. rank[s] \in Int /\ rank[t] \in Int /\ s \in Nat /\ t \in Nat BY <1>4
      <3> QED BY <1>3, <2>1, <3>1
    <2>2. \A s, t \in S : rank[s] = rank[t] => s = t BY <2>1
    <2> QED BY <1>4, <2>2 DEF Injection, IsInjective
  <1>6. IsFiniteSet(1 .. n) /\ Cardinality(1 .. n) = n BY <1>1, FS_Interval
  <1>7. rank \in Surjection(S, 1 .. n) BY <1>5, <1>6, FS_Injection DEF n
  <1> DEFINE q == [i \in 1 .. n |-> CHOOSE s \in S : rank[s] = i]
  <1>8. ASSUME NEW i \in 1 .. n PROVE q[i] \in S /\ rank[q[i]] = i
    <2>1. \E s \in S : rank[s] = i BY <1>7 DEF Surjection
    <2> QED BY <2>1
  <1>9. q \in [1 .. n -> S] BY <1>8
  <1>10. ASSUME NEW i \in 1 .. n, NEW j \in 1 .. n, i < j PROVE q[i] < q[j]
    <2>1. /\ q[i] \in S /\ q[j] \in S /\ rank[q[i]] = i /\ rank[q[j]] = j BY <1>8
    <2>2. q[i] \in Nat /\ q[j] \in Nat BY <2>1
    <2>3. ~(q[j] < q[i])
      <3>1. SUFFICES ASSUME q[j] < q[i] PROVE FALSE OBVIOUS
      <3>2. rank[q[j]] < rank[q[i]] BY <1>3, <2>1, <3>1
      <3> QED BY <1>1, <1>10, <2>1, <3>2
    <2>4. q[i] # q[j] BY <1>1, <1>10, <2>1
    <2> HIDE DEF q
    <2> QED BY <2>2, <2>3, <2>4
  <1> HIDE DEF q
  <1> QED BY <1>9, <1>10 DEF n

LEMMA InOrderSorts ==
  ASSUME NEW S \in SUBSET Nat, IsFiniteSet(S)
  PROVE  /\ InOrder(S) \in [1 .. Cardinality(S) -> S]
         /\ Cardinality(S) \in Nat
         /\ \A i, j \in 1 .. Cardinality(S) : i < j => InOrder(S)[i] < InOrder(S)[j]
  <1>1. Cardinality(S) \in Nat BY FS_CardinalityType
  <1> DEFINE Sorts(q) == \A i, j \in DOMAIN q : i < j => q[i] < q[j]
  <1>2. \E q \in [1 .. Cardinality(S) -> S] : Sorts(q) BY OrderExists
  <1>3. InOrder(S) = CHOOSE q \in [1 .. Cardinality(S) -> S] : Sorts(q) BY DEF InOrder
  <1> HIDE DEF Sorts
  <1>4. InOrder(S) \in [1 .. Cardinality(S) -> S] /\ Sorts(InOrder(S)) BY <1>2, <1>3
  <1> QED BY <1>1, <1>4 DEF Sorts

-----------------------------------------------------------------------------
(* What every step owes the messages and the loops it does not move *)

\* What a step may do to a message: it is stored once and in order, a verdict is final,
\* a blocked message is not started, and an input row only moves forward.
MessageStep(s) ==
  /\ Unsent(s)' => Unsent(s)
  /\ Unsent(s) /\ ~Unsent(s)' => \A q \in Run : q < s => ~Unsent(q)
  /\ status[s] \notin Fresh => status'[s] \notin Fresh
  /\ status[s] \in Terminal => status'[s] \in Terminal
  /\ status'[s] = "pending" => status[s] \in {"received", "pending", "waiting"}
  /\ status[s] = "pending" /\ SteeringBlocked(s) => status'[s] \in {"pending"} \cup Terminal
  /\ status[s] = "running" /\ loop'[s] = loop[s] => status'[s] \in {"running"} \cup Terminal
  /\ Unsent(s) => /\ input'[s].state \in {"none", "pending"}
                  /\ input'[s].state = "pending" => input'[s].target \notin sealed
  /\ ~Unsent(s) => /\ input'[s].target = input[s].target
                   /\ input'[s].state = "pending" => input[s].state = "pending"
                   /\ Queued(s)' => Queued(s)
  /\ input'[s].state = "reserved" /\ input[s].state # "reserved"
       => loop'[input[s].target] # loop[input[s].target]

PastPrompt(r) == loop[r].at \notin {"none", "woken", "prompt"}

ContextStep ==
  /\ \A i \in DOMAIN context : i \in DOMAIN context' /\ context'[i] = context[i]
  /\ \A i \in DOMAIN context' : i \notin DOMAIN context
       => loop'[context'[i].by] # loop[context'[i].by]

Step ==
  /\ \A s \in Run : MessageStep(s)
  /\ \A k \in FaultKind : faults'[k] = 0 => faults[k] = 0
  /\ \A r \in Run : r \in sealed' => r \in sealed \/ loop'[r] # loop[r]
  /\ ContextStep

LEMMA ListedStep ==
  ASSUME IInv, Step, faults'["release"] = 0, NEW r \in Run, NEW s \in Run, s \in Listed(r)'
  PROVE  \/ s \in Listed(r)
         \/ /\ Unsent(s) /\ ~Unsent(s)' /\ r \notin sealed
            /\ \A m \in Run : ~Unsent(m) => m < s
  <1>1. /\ input'[s].target = r /\ Queued(s)' /\ status'[s] = "pending"
        /\ MessageStep(s) /\ faults["release"] = 0 /\ OwnInv(s)
    BY DEF Listed, Step, IInv, FaultKind
  <1>2. CASE ~Unsent(s)
    <2>1. Queued(s) /\ input[s].target = r BY <1>1, <1>2 DEF MessageStep
    <2>2. status[s] = "pending" BY <1>1, <1>2, <2>1 DEF MessageStep, OwnInv, Unsent
    <2> QED BY <2>1, <2>2 DEF Listed
  <1>3. CASE Unsent(s)
    <2>1. ~Unsent(s)' /\ r \notin sealed BY <1>1, <1>3 DEF MessageStep, Unsent, Queued
    <2>2. \A q \in Run : q < s => ~Unsent(q) BY <1>1, <1>3, <2>1 DEF MessageStep
    <2>3. ASSUME NEW m \in Run, ~Unsent(m) PROVE m < s
      <3>1. m \in Nat /\ s \in Nat BY RunAssumption
      <3>2. ~(s < m) BY <1>3, <2>3 DEF IInv, QueueOrder
      <3> QED BY <1>3, <2>3, <3>1, <3>2
    <2> QED BY <1>3, <2>1, <2>3
  <1> QED BY <1>2, <1>3

\* The target of a reservation whose loop does not move.
LEMMA HeldFrame ==
  ASSUME IInv, Step, NEW r \in Run, loop'[r] = loop[r], NEW s \in Run
  PROVE  HeldInv(r, s)'
  <1> SUFFICES ASSUME ReservedFor(r, s)', status'[r] \notin Terminal
               PROVE  /\ status'[s] \in {"pending"} \cup Terminal
                      /\ status'[s] = "pending" =>
                           /\ r \notin sealed'
                           /\ faults'["reply"] = 0 =>
                                /\ status'[r] = "running"
                                /\ \/ loop[r].at \in {"woken", "prompt", "start", "handoff", "handed"}
                                   \/ loop[r].stage = "held"
                                /\ loop[r].stage # "ready" => s \in loop[r].sources
    BY DEF HeldInv
  <1>1. /\ MessageStep(s) /\ MessageStep(r) /\ HeldInv(r, s)
        /\ r \in sealed' => r \in sealed
        /\ faults'["reply"] = 0 => faults["reply"] = 0
    BY DEF Step, IInv, TargetInv, FaultKind
  <1>2. ReservedFor(r, s) BY <1>1 DEF MessageStep, ReservedFor
  <1>3. status[r] \notin Terminal BY <1>1 DEF MessageStep
  <1>4. SteeringBlocked(s) BY <1>2, <1>3 DEF SteeringBlocked, ReservedFor
  <1>5. status'[s] \in {"pending"} \cup Terminal
    BY <1>1, <1>2, <1>3, <1>4 DEF HeldInv, MessageStep
  <1>6. status'[s] = "pending" => status[s] = "pending"
    BY <1>1, <1>2, <1>3 DEF HeldInv, MessageStep, Terminal
  <1>7. status[r] = "running" => status'[r] = "running" BY <1>1 DEF MessageStep
  <1> QED BY <1>1, <1>2, <1>3, <1>5, <1>6, <1>7 DEF HeldInv

LEMMA LineFrame ==
  ASSUME IInv, Step, NEW r \in Run, loop'[r] = loop[r], faults'["release"] = 0
  PROVE  LineInv(r)'
  <1>1. /\ LineInv(r) /\ (r \in sealed' => r \in sealed)
        /\ loop[r].sources \subseteq Run
    BY DEF Step, IInv, TargetInv, FaultKind, TypeOK, Loop
  <1>2. \A m \in loop[r].sources : ~Unsent(m) BY DEF IInv, TargetInv, Fresh, Unsent
  <1>3. ASSUME NEW s \in Listed(r)' PROVE s \in Run BY <1>3 DEF Listed
  <1>4. r \in sealed' => Listed(r)' = {} BY <1>1, <1>3, ListedStep DEF LineInv
  <1>5. loop[r].stage # "ready" =>
          \A s \in Listed(r)', m \in loop[r].sources : s \in loop[r].sources \/ m < s
    BY <1>1, <1>2, <1>3, ListedStep DEF LineInv
  <1>6. loop[r].stage = "held" =>
          \A s \in Listed(r)' : s \in loop[r].sources => input'[s].state = "reserved"
    <2> SUFFICES ASSUME loop[r].stage = "held", NEW s \in Listed(r)', s \in loop[r].sources
                 PROVE  input'[s].state = "reserved"
      OBVIOUS
    <2>1. s \in Run /\ ~Unsent(s) /\ MessageStep(s) BY <1>2, <1>3 DEF Step
    <2>2. s \in Listed(r) BY <2>1, ListedStep
    <2>3. input[s].state = "reserved" BY <1>1, <2>2 DEF LineInv
    <2> QED BY <2>1, <2>3 DEF MessageStep, Listed, Queued
  <1>7. \A i \in DOMAIN context' : context'[i].by = r /\ context'[i].msg # r =>
          \A s \in Listed(r)' : context'[i].msg < s
    <2> SUFFICES ASSUME NEW i \in DOMAIN context', context'[i].by = r, context'[i].msg # r,
                        NEW s \in Listed(r)'
                 PROVE  context'[i].msg < s
      OBVIOUS
    <2>1. i \in DOMAIN context /\ context'[i] = context[i] BY DEF Step, ContextStep
    <2>2. context[i] \in Event BY <2>1 DEF IInv, TypeOK
    <2>3. context[i].msg \in Run BY <2>2 DEF Event
    <2>4. ~Unsent(context[i].msg)
      BY <2>1, <2>3 DEF IInv, RecordInv, Recorded, Unsent, Fresh
    <2> QED BY <1>1, <1>3, <2>1, <2>3, <2>4, ListedStep DEF LineInv
  <1> QED BY <1>4, <1>5, <1>6, <1>7 DEF LineInv

LEMMA TargetFrame ==
  ASSUME IInv, Step, NEW r \in Run, loop'[r] = loop[r]
  PROVE  TargetInv(r)'
  <1>1. loop[r].sources \subseteq Run BY DEF IInv, TypeOK, Loop
  <1>2. \A s \in loop[r].sources : status'[s] \notin Fresh
    BY <1>1 DEF IInv, TargetInv, Step, MessageStep
  <1> QED BY <1>2, HeldFrame, LineFrame DEF TargetInv

\* The events of a session are only ever appended.
LEMMA RecordFrame ==
  ASSUME IInv, Step, UNCHANGED context, NEW r \in Run,
         PastPrompt(r)' => PastPrompt(r) \/ Recorded(r)
  PROVE  RecordInv(r)'
  <1>1. RecordInv(r) /\ MessageStep(r) /\ (faults'["release"] = 0 => faults["release"] = 0)
    BY DEF IInv, Step, FaultKind
  <1>2. Recorded(r)' <=> Recorded(r) BY DEF Recorded
  <1>3. Recorded(r) => ~Unsent(r) BY <1>1 DEF RecordInv, Unsent, Fresh
  <1> QED BY <1>1, <1>2, <1>3 DEF RecordInv, MessageStep, PastPrompt

LEMMA QueueFrame ==
  ASSUME IInv, Step
  PROVE  QueueOrder'
  <1> SUFFICES ASSUME NEW p \in Run, NEW q \in Run, p < q, Unsent(p)', ~Unsent(q)'
               PROVE  FALSE
    BY DEF QueueOrder
  <1>1. MessageStep(p) /\ MessageStep(q) BY DEF Step
  <1> QED BY <1>1 DEF IInv, QueueOrder, MessageStep

\* A step that records nothing and moves at most the loop of r.
LEMMA SilentStep ==
  ASSUME IInv, TypeOK', Step, UNCHANGED context, IsFiniteSet(Known'),
         \A q \in Run : OwnInv(q)' /\ (PastPrompt(q)' => PastPrompt(q) \/ Recorded(q)),
         \A q \in Run : loop'[q] = loop[q] \/ TargetInv(q)'
  PROVE  IInv'
  <1>1. \A q \in Run : TargetInv(q)' BY TargetFrame
  <1>2. \A q \in Run : RecordInv(q)' BY RecordFrame
  <1>3. faults'["release"] = 0 => faults["release"] = 0 BY DEF Step, FaultKind
  <1>4. MessageEntersOnce' BY <1>3 DEF IInv, MessageEntersOnce
  <1>5. SteeredInOrder' BY <1>3 DEF IInv, SteeredInOrder
  <1> QED BY <1>1, <1>2, <1>4, <1>5, QueueFrame DEF IInv

LEMMA KnownFrame ==
  ASSUME IInv, \A q \in Run : status[q] = "absent" => status'[q] = "absent"
  PROVE  IsFiniteSet(Known')
  <1>1. Known' \subseteq Known BY DEF Known
  <1>2. IsFiniteSet(Known) BY DEF IInv
  <1> QED BY <1>1, <1>2, FS_Subset

\* A message that a step does not touch.
LEMMA OwnFrame ==
  ASSUME NEW q \in Run, OwnInv(q), status'[q] = status[q], input'[q] = input[q],
         loop'[q] = loop[q], q \in late' => q \in late, q \in withdrawn' => q \in withdrawn,
         faults'["release"] = 0 => faults["release"] = 0
  PROVE  OwnInv(q)'
  BY DEF OwnInv, Revoked, Queued

LEMMA MessageFrame ==
  ASSUME NEW q \in Run, OwnInv(q), status'[q] = status[q], input'[q] = input[q]
  PROVE  MessageStep(q)
  BY DEF OwnInv, MessageStep, Unsent, Fresh, Queued

\* A transaction of the store that moves no loop.
LEMMA StoreStep ==
  ASSUME IInv, TypeOK', UNCHANGED <<sealed, context, loop, faults>>, IsFiniteSet(Known'),
         \A q \in Run : OwnInv(q)' /\ MessageStep(q)
  PROVE  IInv'
  <1>1. Step BY DEF Step, ContextStep
  <1>2. \A q \in Run : PastPrompt(q)' => PastPrompt(q) BY DEF PastPrompt
  <1> QED BY <1>1, <1>2, SilentStep

-----------------------------------------------------------------------------
(* The user *)

LEMMA ReceiveStep ==
  ASSUME IInv, NEW r \in Run, Receive(r)
  PROVE  IInv'
  <1>1. /\ status[r] = "absent" /\ status' = [status EXCEPT ![r] = "received"]
        /\ UNCHANGED <<late, sealed, input, withdrawn, context, loop, answers, faults>>
    BY DEF Receive, SetStatus
  <1>2. TypeOK /\ \A q \in Run : OwnInv(q) BY DEF IInv
  <1>3. TypeOK' BY <1>1, <1>2 DEF TypeOK, Status
  <1>4. status'[r] = "received" /\ \A q \in Run : q # r => status'[q] = status[q]
    BY <1>1, <1>2 DEF TypeOK
  <1>5. IsFiniteSet(Known')
    <2>1. IsFiniteSet(Known \cup {r}) BY FS_AddElement DEF IInv
    <2>2. Known' \in SUBSET (Known \cup {r}) BY <1>4 DEF Known
    <2> QED BY <2>1, <2>2, FS_Subset
  <1>6. OwnInv(r)' /\ MessageStep(r)
    BY <1>1, <1>2, <1>4 DEF OwnInv, MessageStep, Revoked, Queued, Unsent, Fresh, Terminal
  <1>7. ASSUME NEW q \in Run, q # r PROVE OwnInv(q)' /\ MessageStep(q)
    BY <1>1, <1>2, <1>4, <1>7, OwnFrame, MessageFrame
  <1> QED BY <1>1, <1>3, <1>5, <1>6, <1>7, StoreStep

LEMMA EnqueuePlainStep ==
  ASSUME IInv, NEW r \in Run, EnqueuePlain(r)
  PROVE  IInv'
  <1>1. /\ status[r] = "received" /\ status' = [status EXCEPT ![r] = "pending"]
        /\ \A q \in Run : q < r => ~Unsent(q)
        /\ late' = late \ {r}
        /\ UNCHANGED <<sealed, input, withdrawn, context, loop, answers, faults>>
    BY DEF EnqueuePlain, SetStatus, Unsent
  <1>2. TypeOK /\ \A q \in Run : OwnInv(q) BY DEF IInv
  <1>3. TypeOK' BY <1>1, <1>2 DEF TypeOK, Status
  <1>4. status'[r] = "pending" /\ \A q \in Run : q # r => status'[q] = status[q]
    BY <1>1, <1>2 DEF TypeOK
  <1>5. IsFiniteSet(Known') BY <1>1, <1>4, KnownFrame
  <1>6. OwnInv(r)' /\ MessageStep(r)
    BY <1>1, <1>2, <1>4 DEF OwnInv, MessageStep, Revoked, Queued, Unsent, Fresh, Terminal
  <1>7. ASSUME NEW q \in Run, q # r PROVE OwnInv(q)' /\ MessageStep(q)
    BY <1>1, <1>2, <1>4, <1>7, OwnFrame, MessageFrame
  <1> QED BY <1>1, <1>3, <1>5, <1>6, <1>7, StoreStep

LEMMA EnqueueSteerStep ==
  ASSUME IInv, NEW r \in Run, EnqueueSteer(r)
  PROVE  IInv'
  <1>1. /\ status[r] = "received"
        /\ \A q \in Run : q < r => ~Unsent(q)
        /\ UNCHANGED <<late, sealed, withdrawn, context, loop, answers, faults>>
    BY DEF EnqueueSteer, Unsent
  <1>2. TypeOK /\ \A q \in Run : OwnInv(q) BY DEF IInv
  <1>3. CASE r \in late
    <2>1. status' = [status EXCEPT ![r] = "rejected"] /\ UNCHANGED input
      BY <1>3 DEF EnqueueSteer, SetStatus
    <2>2. TypeOK' BY <1>1, <1>2, <2>1 DEF TypeOK, Status
    <2>3. status'[r] = "rejected" /\ \A q \in Run : q # r => status'[q] = status[q]
      BY <1>2, <2>1 DEF TypeOK
    <2>4. IsFiniteSet(Known') BY <1>1, <2>3, KnownFrame
    <2>5. OwnInv(r)' /\ MessageStep(r)
      BY <1>1, <1>2, <2>1, <2>3
         DEF OwnInv, MessageStep, Revoked, Queued, Unsent, Fresh, Terminal
    <2>6. ASSUME NEW q \in Run, q # r PROVE OwnInv(q)' /\ MessageStep(q)
      BY <1>1, <1>2, <2>1, <2>3, <2>6, OwnFrame, MessageFrame
    <2> QED BY <1>1, <2>2, <2>4, <2>5, <2>6, StoreStep
  <1>4. CASE r \notin late
    <2>1. PICK t \in Targets :
            /\ status' = [status EXCEPT ![r] = "pending"]
            /\ input' = [input EXCEPT ![r] = [state |-> "pending", target |-> t]]
      BY <1>4 DEF EnqueueSteer, SetStatus
    <2>2. t \in Run /\ t \notin sealed BY DEF Targets, AcceptsInput
    <2>3. [state |-> "pending", target |-> t] \in Input BY <2>2 DEF Input
    <2>4. TypeOK' BY <1>1, <1>2, <2>1, <2>3 DEF TypeOK, Status
    <2>5. /\ status'[r] = "pending" /\ input'[r].state = "pending" /\ input'[r].target = t
          /\ \A q \in Run : q # r => status'[q] = status[q] /\ input'[q] = input[q]
      BY <1>2, <2>1 DEF TypeOK
    <2>6. IsFiniteSet(Known') BY <1>1, <2>5, KnownFrame
    <2>7. OwnInv(r)' /\ MessageStep(r)
      BY <1>1, <1>2, <1>4, <2>2, <2>5
         DEF OwnInv, MessageStep, Revoked, Queued, Unsent, Fresh, Terminal
    <2>8. ASSUME NEW q \in Run, q # r PROVE OwnInv(q)' /\ MessageStep(q)
      BY <1>1, <1>2, <2>5, <2>8, OwnFrame, MessageFrame
    <2> QED BY <1>1, <2>4, <2>6, <2>7, <2>8, StoreStep
  <1> QED BY <1>3, <1>4

LEMMA WithdrawStep ==
  ASSUME IInv, NEW r \in Run, Withdraw(r)
  PROVE  IInv'
  <1>1. /\ status[r] = "pending" /\ status' = [status EXCEPT ![r] = "cancelled"]
        /\ withdrawn' = withdrawn \cup {r}
        /\ UNCHANGED <<late, sealed, context, loop, answers, faults>>
    BY DEF Withdraw, SetStatus
  <1>2. TypeOK /\ input[r] \in Input /\ \A q \in Run : OwnInv(q) BY DEF IInv, TypeOK
  <1>3. /\ input' \in [Run -> Input]
        /\ input'[r].target = input[r].target
        /\ \/ input[r].state = "none" /\ input'[r].state = "none"
           \/ input'[r].state = "cancelled" /\ input[r].state # "none"
        /\ \A q \in Run : q # r => input'[q] = input[q]
    <2>1. CASE input[r].state = "none" /\ UNCHANGED input BY <1>2, <2>1 DEF TypeOK
    <2>2. CASE input[r].state = "pending" /\ SetInput(r, "cancelled")
      <3> DEFINE x == [input[r] EXCEPT !.state = "cancelled"]
      <3>1. x \in Input /\ x.state = "cancelled" /\ x.target = input[r].target
        BY <1>2 DEF Input
      <3>2. input' = [input EXCEPT ![r] = x] BY <2>2 DEF SetInput
      <3> HIDE DEF x
      <3> QED BY <1>2, <2>2, <3>1, <3>2 DEF TypeOK
    <2> QED BY <2>1, <2>2 DEF Withdraw
  <1>4. status'[r] = "cancelled" /\ \A q \in Run : q # r => status'[q] = status[q]
    BY <1>1, <1>2 DEF TypeOK
  <1>5. TypeOK' BY <1>1, <1>2, <1>3 DEF TypeOK, Status, Terminal
  <1>6. IsFiniteSet(Known') BY <1>1, <1>4, KnownFrame
  <1>7. OwnInv(r)' /\ MessageStep(r)
    BY <1>1, <1>2, <1>3, <1>4
       DEF OwnInv, MessageStep, Revoked, Queued, Unsent, Fresh, Terminal
  <1>8. ASSUME NEW q \in Run, q # r PROVE OwnInv(q)' /\ MessageStep(q)
    BY <1>1, <1>2, <1>3, <1>4, <1>8, OwnFrame, MessageFrame
  <1> QED BY <1>1, <1>5, <1>6, <1>7, <1>8, StoreStep

LEMMA StopStep ==
  ASSUME IInv, NEW t \in Run \cup {NoRun}, Stop(t)
  PROVE  IInv'
  <1> DEFINE sources == {s \in Run : Queued(s) /\ status[s] = "pending"}
             released == {s \in sources : s \in Continuation /\ input[s].state = "pending"}
             cancelled == {q \in Run : q = t \/ q \in sources \ released}
  <1>1. /\ t # NoRun => Live(t)
        /\ late' = {q \in Run : status[q] = "received"}
        /\ input' = [s \in Run |-> CASE s \in released -> [input[s] EXCEPT !.state = "released"]
                                     [] s \in sources \ released
                                          -> [input[s] EXCEPT !.state = "cancelled"]
                                     [] OTHER -> input[s]]
        /\ status' = [q \in Run |-> IF q = t \/ q \in sources \ released
                                      THEN "cancelled" ELSE status[q]]
        /\ UNCHANGED <<sealed, withdrawn, context, loop, answers, faults>>
    BY DEF Stop
  <1>2. TypeOK /\ \A q \in Run : OwnInv(q) BY DEF IInv
  <1>3. ASSUME NEW q \in Run
        PROVE  /\ input'[q] \in Input /\ input'[q].target = input[q].target
               /\ input'[q].state = IF q \in released THEN "released"
                                    ELSE IF q \in sources THEN "cancelled" ELSE input[q].state
    <2>1. input[q] \in Input BY <1>2 DEF TypeOK
    <2>2. CASE q \in released
      <3>1. input'[q] = [input[q] EXCEPT !.state = "released"] BY <1>1, <2>2
      <3> QED BY <2>1, <2>2, <3>1 DEF Input
    <2>3. CASE q \in sources \ released
      <3>1. input'[q] = [input[q] EXCEPT !.state = "cancelled"] BY <1>1, <2>3
      <3> QED BY <2>1, <2>3, <3>1 DEF Input
    <2>4. CASE q \notin sources BY <1>1, <2>1, <2>4
    <2> QED BY <2>2, <2>3, <2>4
  <1>4. \A q \in Run : status'[q] = IF q \in cancelled THEN "cancelled" ELSE status[q]
    BY <1>1
  <1>5. TypeOK'
    <2>1. input' = [q \in Run |-> input'[q]] BY <1>1
    <2>2. input' \in [Run -> Input] BY <1>3, <2>1
    <2>3. status' \in [Run -> Status] BY <1>1, <1>2 DEF TypeOK, Status, Terminal
    <2> QED BY <1>1, <1>2, <2>2, <2>3 DEF TypeOK
  <1>6. ASSUME NEW q \in Run
        PROVE  /\ q \in released => status[q] = "pending" /\ Queued(q)
               /\ q \in sources => status[q] = "pending" /\ Queued(q)
               /\ q \in cancelled => status[q] \in {"pending", "running", "waiting"}
               /\ q \in sources /\ q \notin released => q \in cancelled
    <2>1. q = t => t # NoRun BY RunAssumption
    <2> QED BY <1>1, <2>1 DEF Live
  <1> HIDE DEF sources, released, cancelled
  <1>7. IsFiniteSet(Known') BY <1>4, <1>6, KnownFrame
  <1>8. ASSUME NEW q \in Run PROVE OwnInv(q)'
    <2>1. OwnInv(q) BY <1>2
    <2>2. q \in late' => status'[q] = "received" BY <1>1, <1>4, <1>6
    <2> QED BY <1>1, <1>3, <1>4, <1>6, <2>1, <2>2
           DEF OwnInv, Revoked, Queued, Fresh, Terminal
  <1>9. ASSUME NEW q \in Run PROVE MessageStep(q)
    <2>1. OwnInv(q) BY <1>2
    <2> QED BY <1>1, <1>3, <1>4, <1>6, <2>1
           DEF OwnInv, MessageStep, Queued, Unsent, Fresh, Terminal
  <1> QED BY <1>1, <1>5, <1>7, <1>8, <1>9, StoreStep

LEMMA AnswerStep ==
  ASSUME IInv, NEW r \in Run, Answer(r)
  PROVE  IInv'
  <1>1. /\ status[r] = "waiting" /\ status' = [status EXCEPT ![r] = "pending"]
        /\ answers' = answers + 1 /\ answers < MaxAnswers
        /\ UNCHANGED <<late, sealed, input, withdrawn, context, loop, faults>>
    BY DEF Answer, SetStatus
  <1>2. TypeOK /\ \A q \in Run : OwnInv(q) BY DEF IInv
  <1>3. TypeOK' BY <1>1, <1>2, BoundAssumption DEF TypeOK, Status
  <1>4. status'[r] = "pending" /\ \A q \in Run : q # r => status'[q] = status[q]
    BY <1>1, <1>2 DEF TypeOK
  <1>5. IsFiniteSet(Known') BY <1>1, <1>4, KnownFrame
  <1>6. OwnInv(r)' /\ MessageStep(r)
    BY <1>1, <1>2, <1>4 DEF OwnInv, MessageStep, Revoked, Queued, Unsent, Fresh, Terminal
  <1>7. ASSUME NEW q \in Run, q # r PROVE OwnInv(q)' /\ MessageStep(q)
    BY <1>1, <1>2, <1>4, <1>7, OwnFrame, MessageFrame
  <1> QED BY <1>1, <1>3, <1>5, <1>6, <1>7, StoreStep

LEMMA CancelRunStep ==
  ASSUME IInv, NEW r \in Run, CancelRun(r)
  PROVE  IInv'
  <1>1. /\ status[r] \in {"pending", "running", "waiting"}
        /\ status' = [status EXCEPT ![r] = "cancelled"]
        /\ UNCHANGED <<late, sealed, input, withdrawn, context, loop, answers, faults>>
    BY DEF CancelRun, SetStatus, Live
  <1>2. TypeOK /\ \A q \in Run : OwnInv(q) BY DEF IInv
  <1>3. TypeOK' BY <1>1, <1>2 DEF TypeOK, Status, Terminal
  <1>4. status'[r] = "cancelled" /\ \A q \in Run : q # r => status'[q] = status[q]
    BY <1>1, <1>2 DEF TypeOK
  <1>5. IsFiniteSet(Known') BY <1>1, <1>4, KnownFrame
  <1>6. OwnInv(r)' /\ MessageStep(r)
    BY <1>1, <1>2, <1>4 DEF OwnInv, MessageStep, Revoked, Queued, Unsent, Fresh, Terminal
  <1>7. ASSUME NEW q \in Run, q # r PROVE OwnInv(q)' /\ MessageStep(q)
    BY <1>1, <1>2, <1>4, <1>7, OwnFrame, MessageFrame
  <1> QED BY <1>1, <1>3, <1>5, <1>6, <1>7, StoreStep

-----------------------------------------------------------------------------
(* Steps of a loop that record nothing *)

At == {"none", "woken", "prompt", "start", "turn", "drained", "disabled", "sealed",
       "handoff", "handed"}

LEMMA GoToWrite ==
  ASSUME TypeOK, NEW r \in Run, NEW at \in At, GoTo(r, at)
  PROVE  /\ loop' \in [Run -> Loop]
         /\ loop'[r].at = at /\ loop'[r].stage = "ready" /\ loop'[r].sources = {}
         /\ \A q \in Run : q # r => loop'[q] = loop[q]
  <1> DEFINE x == [at |-> at, stage |-> "ready", sources |-> {}]
  <1>1. x \in Loop BY DEF Loop, At
  <1>2. loop' = [loop EXCEPT ![r] = x]
    <2>1. [NoLoop EXCEPT !.at = at] = x BY DEF NoLoop
    <2> HIDE DEF x
    <2> QED BY <2>1 DEF GoTo
  <1>3. x.at = at /\ x.stage = "ready" /\ x.sources = {} OBVIOUS
  <1> HIDE DEF x
  <1> QED BY <1>1, <1>2, <1>3 DEF TypeOK

LEMMA FaultWrite ==
  ASSUME TypeOK, NEW kind \in FaultKind, Fault(kind)
  PROVE  /\ faults' \in [FaultKind -> 0 .. MaxFaults]
         /\ faults'[kind] # 0
         /\ \A k \in FaultKind : k # kind => faults'[k] = faults[k]
         /\ \A k \in FaultKind : faults'[k] = 0 => faults[k] = 0
  <1>1. \A k \in FaultKind : faults[k] \in Nat BY BoundAssumption DEF TypeOK
  <1>2. faults["call"] + faults["reply"] + faults["release"] < MaxFaults BY DEF Fault
  <1>3. faults[kind] < MaxFaults
    BY <1>1, <1>2, BoundAssumption DEF FaultKind
  <1>4. faults[kind] + 1 \in 0 .. MaxFaults /\ faults[kind] + 1 # 0
    BY <1>1, <1>3, BoundAssumption
  <1>5. faults' = [faults EXCEPT ![kind] = faults[kind] + 1] BY DEF Fault
  <1> QED BY <1>4, <1>5 DEF TypeOK

\* A reservation that was there before the step, behind a run that is not over after it.
LEMMA HeldMove ==
  ASSUME IInv, Step, NEW r \in Run, NEW s \in Run,
         ReservedFor(r, s), status'[r] \notin Terminal
  PROVE  /\ status[r] \notin Terminal /\ HeldInv(r, s)
         /\ status'[s] \in {"pending"} \cup Terminal
         /\ status'[s] = "pending" => status[s] = "pending" /\ s \in Listed(r) /\ r \notin sealed
         /\ status'[s] = "pending" /\ faults'["reply"] = 0
              => /\ status[r] = "running"
                 /\ \/ loop[r].at \in {"woken", "prompt", "start", "handoff", "handed"}
                    \/ loop[r].stage = "held"
                 /\ loop[r].stage # "ready" => s \in loop[r].sources
  <1>1. /\ MessageStep(s) /\ MessageStep(r) /\ HeldInv(r, s)
        /\ faults'["reply"] = 0 => faults["reply"] = 0
    BY DEF Step, IInv, TargetInv, FaultKind
  <1>2. status[r] \notin Terminal BY <1>1 DEF MessageStep
  <1>3. SteeringBlocked(s) BY <1>2 DEF SteeringBlocked, ReservedFor
  <1>4. status'[s] \in {"pending"} \cup Terminal
    BY <1>1, <1>2, <1>3 DEF HeldInv, MessageStep
  <1>5. status'[s] = "pending" => status[s] = "pending"
    BY <1>1, <1>2 DEF HeldInv, MessageStep, Terminal
  <1> QED BY <1>1, <1>2, <1>4, <1>5 DEF HeldInv, ReservedFor, Listed, Queued

LEMMA NoNewReservation ==
  ASSUME IInv, Step, NEW r \in Run, NEW s \in Run, ReservedFor(r, s)',
         input'[s].state = "reserved" => input[s].state = "reserved"
  PROVE  ReservedFor(r, s)
  BY DEF IInv, Step, MessageStep, ReservedFor

\* The loop of r goes on with nothing in its hands.
LEMMA ReadyTarget ==
  ASSUME IInv, Step, NEW r \in Run, loop'[r].stage = "ready", loop'[r].sources = {},
         r \in sealed' => r \in sealed \/ Listed(r)' = {},
         \A s \in Run : HeldInv(r, s)',
         \A i \in DOMAIN context' :
           faults'["release"] = 0 /\ context'[i].by = r /\ context'[i].msg # r
             => \/ i \in DOMAIN context
                \/ \A s \in Listed(r)' : context'[i].msg < s
  PROVE  TargetInv(r)'
  <1>1. ASSUME faults'["release"] = 0 PROVE LineInv(r)'
    <2>1. faults["release"] = 0 BY <1>1 DEF Step, FaultKind
    <2>2. LineInv(r) BY <2>1 DEF IInv, TargetInv
    <2>3. Listed(r)' \subseteq Run BY DEF Listed
    <2>4. r \in sealed' => Listed(r)' = {} BY <1>1, <2>2, <2>3, ListedStep DEF LineInv
    <2>5. ASSUME NEW i \in DOMAIN context, context[i].by = r, context[i].msg # r,
                 NEW s \in Listed(r)'
          PROVE  context[i].msg < s
      <3>1. context[i] \in Event BY DEF IInv, TypeOK
      <3>2. context[i].msg \in Run BY <3>1 DEF Event
      <3>3. ~Unsent(context[i].msg)
        BY <3>2 DEF IInv, RecordInv, Recorded, Unsent, Fresh
      <3> QED BY <1>1, <2>2, <2>3, <2>5, <3>2, <3>3, ListedStep DEF LineInv
    <2>6. \A i \in DOMAIN context' : context'[i].by = r /\ context'[i].msg # r =>
            \A s \in Listed(r)' : context'[i].msg < s
      BY <1>1, <2>5 DEF Step, ContextStep
    <2> QED BY <2>4, <2>6 DEF LineInv
  <1> QED BY <1>1 DEF TargetInv

\* One loop moves, with the status and the input row of its own run.
LEMMA LoopMove ==
  ASSUME IInv, TypeOK', NEW r \in Run, UNCHANGED <<late, withdrawn, context>>,
         \A q \in Run : q # r => /\ status'[q] = status[q] /\ input'[q] = input[q]
                                 /\ loop'[q] = loop[q],
         \A k \in FaultKind : faults'[k] = 0 => faults[k] = 0,
         \A q \in Run : q \in sealed' => q \in sealed \/ q = r,
         loop'[r] # loop[r], status[r] # "absent",
         OwnInv(r)', MessageStep(r), PastPrompt(r)' => PastPrompt(r) \/ Recorded(r),
         Step => TargetInv(r)'
  PROVE  IInv'
  <1>1. ASSUME NEW q \in Run, q # r
        PROVE  OwnInv(q)' /\ MessageStep(q) /\ (PastPrompt(q)' => PastPrompt(q) \/ Recorded(q))
    <2>1. OwnInv(q) BY DEF IInv
    <2>2. faults'["release"] = 0 => faults["release"] = 0 BY DEF FaultKind
    <2> QED BY <1>1, <2>1, <2>2, OwnFrame, MessageFrame DEF PastPrompt
  <1>2. Step BY <1>1 DEF Step, ContextStep
  <1>3. IsFiniteSet(Known') BY KnownFrame
  <1> QED BY <1>1, <1>2, <1>3, SilentStep

\* The common case: the loop moves to a place without inputs, in which it may still be
\* the target of a reservation only if it runs and will ask again.
LEMMA GoToMove ==
  ASSUME IInv, TypeOK', NEW r \in Run, NEW at \in At, GoTo(r, at),
         UNCHANGED <<late, withdrawn, context>>,
         \A q \in Run : q # r => status'[q] = status[q] /\ input'[q] = input[q],
         input'[r].state = "reserved" => input[r].state = "reserved",
         \A k \in FaultKind : faults'[k] = 0 => faults[k] = 0,
         \A q \in Run : q \in sealed' => q \in sealed \/ (q = r /\ Listed(r) = {} /\ Listed(r)' = {}),
         loop[r].at # at \/ loop[r].stage # "ready", status[r] # "absent",
         OwnInv(r)', MessageStep(r), PastPrompt(r)' => PastPrompt(r) \/ Recorded(r),
         status'[r] \notin Terminal =>
           \/ status'[r] = "running" /\ at \in {"woken", "prompt", "start", "handoff", "handed"}
           \/ Listed(r) = {}
           \/ /\ loop[r].at \notin {"woken", "prompt", "start", "handoff", "handed"}
              /\ loop[r].stage # "held"
  PROVE  IInv'
  <1>1. TypeOK BY DEF IInv
  <1>2. /\ loop'[r].at = at /\ loop'[r].stage = "ready" /\ loop'[r].sources = {}
        /\ \A q \in Run : q # r => loop'[q] = loop[q]
    BY <1>1, GoToWrite
  <1>3. loop'[r] # loop[r] BY <1>2
  <1>4. ASSUME Step PROVE TargetInv(r)'
    <2>1. ASSUME NEW s \in Run PROVE HeldInv(r, s)'
      <3> SUFFICES ASSUME ReservedFor(r, s)', status'[r] \notin Terminal
                   PROVE  /\ status'[s] \in {"pending"} \cup Terminal
                          /\ status'[s] = "pending" =>
                               /\ r \notin sealed'
                               /\ faults'["reply"] = 0 =>
                                    /\ status'[r] = "running"
                                    /\ at \in {"woken", "prompt", "start", "handoff", "handed"}
        BY <1>2 DEF HeldInv
      <3>1. ReservedFor(r, s) BY <1>4, NoNewReservation
      <3> QED BY <1>4, <3>1, HeldMove
    <2> QED BY <1>2, <1>4, <2>1, ReadyTarget
  <1> QED BY <1>2, <1>3, <1>4, LoopMove

LEMMA LeaseStep ==
  ASSUME IInv, NEW r \in Run, Lease(r)
  PROVE  IInv'
  <1>1. /\ \/ status[r] = "pending" /\ loop[r].at = "none"
           \/ status[r] = "running" /\ loop[r].at = "handed"
        /\ ~SteeringBlocked(r) /\ status' = [status EXCEPT ![r] = "running"]
        /\ GoTo(r, "woken")
        /\ UNCHANGED <<late, sealed, input, withdrawn, context, answers, faults>>
    BY DEF Lease, SetStatus
  <1>2. TypeOK /\ OwnInv(r) BY DEF IInv
  <1>3. "woken" \in At BY DEF At
  <1>4. status'[r] = "running" /\ \A q \in Run : q # r => status'[q] = status[q]
    BY <1>1, <1>2 DEF TypeOK
  <1>5. loop' \in [Run -> Loop] /\ loop'[r].at = "woken" /\ loop'[r].stage = "ready"
    BY <1>1, <1>2, <1>3, GoToWrite
  <1>6. TypeOK' BY <1>1, <1>2, <1>5 DEF TypeOK, Status
  <1>7. OwnInv(r)'
    BY <1>1, <1>2, <1>4, <1>5 DEF OwnInv, Revoked, Queued, Fresh, Terminal
  <1>8. MessageStep(r)
    BY <1>1, <1>2, <1>4 DEF OwnInv, MessageStep, Queued, Unsent, Fresh, Terminal
  <1>9. ~PastPrompt(r)' BY <1>5 DEF PastPrompt
  <1> QED BY <1>1, <1>3, <1>4, <1>6, <1>7, <1>8, <1>9, GoToMove

LEMMA ReleaseOwnInputStep ==
  ASSUME IInv, NEW r \in Run, ReleaseOwnInput(r)
  PROVE  IInv'
  <1>1. /\ loop[r].at = "woken" /\ GoTo(r, "prompt")
        /\ UNCHANGED <<status, late, sealed, withdrawn, context, answers>>
    BY DEF ReleaseOwnInput
  <1>2. TypeOK /\ input[r] \in Input /\ OwnInv(r) BY DEF IInv, TypeOK
  <1>3. "prompt" \in At BY DEF At
  <1>4. loop' \in [Run -> Loop] /\ loop'[r].at = "prompt" /\ loop'[r].stage = "ready"
    BY <1>1, <1>2, <1>3, GoToWrite
  <1>5. /\ input' \in [Run -> Input] /\ input'[r].target = input[r].target
        /\ \/ input'[r].state = input[r].state
           \/ Queued(r) /\ input'[r].state = "released"
        /\ \A q \in Run : q # r => input'[q] = input[q]
        /\ faults' \in [FaultKind -> 0 .. MaxFaults]
        /\ \A k \in FaultKind : faults'[k] = 0 => faults[k] = 0
        /\ ~Queued(r)' \/ faults'["release"] # 0
    <2>1. CASE Queued(r) /\ SetInput(r, "released") /\ UNCHANGED faults
      <3> DEFINE x == [input[r] EXCEPT !.state = "released"]
      <3>1. x \in Input /\ x.state = "released" /\ x.target = input[r].target
        BY <1>2 DEF Input
      <3>2. input' = [input EXCEPT ![r] = x] BY <2>1 DEF SetInput
      <3> HIDE DEF x
      <3> QED BY <1>2, <2>1, <3>1, <3>2 DEF TypeOK, Queued
    <2>2. CASE ~Queued(r) /\ UNCHANGED <<input, faults>> BY <1>2, <2>2 DEF TypeOK, Queued
    <2>3. CASE Fault("release") /\ UNCHANGED input
      BY <1>2, <2>3, FaultWrite DEF TypeOK, FaultKind
    <2> QED BY <2>1, <2>2, <2>3 DEF ReleaseOwnInput
  <1>6. TypeOK' BY <1>1, <1>2, <1>4, <1>5 DEF TypeOK
  <1>7. status[r] \in {"running"} \cup Terminal BY <1>1, <1>2 DEF OwnInv
  <1>8. OwnInv(r)'
    BY <1>1, <1>2, <1>4, <1>5, <1>7 DEF OwnInv, Revoked, Queued, Fresh, Terminal
  <1>9. MessageStep(r)
    BY <1>1, <1>2, <1>5, <1>7 DEF OwnInv, MessageStep, Queued, Unsent, Fresh, Terminal
  <1>10. ~PastPrompt(r)' BY <1>4 DEF PastPrompt
  <1>11. input'[r].state = "reserved" => input[r].state = "reserved" BY <1>5
  <1>12. status[r] # "absent" BY <1>7 DEF Terminal
  <1> QED BY <1>1, <1>3, <1>5, <1>6, <1>7, <1>8, <1>9, <1>10, <1>11, <1>12, GoToMove

\* A step of an executing loop that writes only the loop and perhaps counts a failure.
LEMMA LoopOnlyMove ==
  ASSUME IInv, NEW r \in Run, NEW at \in At, at # "none" \/ status[r] \in Terminal,
         GoTo(r, at), PastPrompt(r), loop[r].at # at \/ loop[r].stage # "ready",
         UNCHANGED <<status, late, input, withdrawn, context, answers>>,
         sealed' = sealed \/ (sealed' = sealed \cup {r} /\ Listed(r) = {}),
         UNCHANGED faults \/ \E k \in FaultKind : Fault(k),
         \/ at \in {"handoff", "handed"}
         \/ Listed(r) = {} \/ status[r] \in Terminal
         \/ loop[r].at \in {"turn", "drained"} /\ loop[r].stage # "held"
  PROVE  IInv'
  <1>1. TypeOK /\ OwnInv(r) BY DEF IInv
  <1>2. loop' \in [Run -> Loop] /\ loop'[r].at = at /\ loop'[r].stage = "ready"
    BY <1>1, GoToWrite
  <1>3. /\ faults' \in [FaultKind -> 0 .. MaxFaults]
        /\ \A k \in FaultKind : faults'[k] = 0 => faults[k] = 0
    BY <1>1, FaultWrite DEF TypeOK
  <1>4. TypeOK' BY <1>1, <1>2, <1>3 DEF TypeOK
  <1>5. status[r] \in {"running"} \cup Terminal BY <1>1 DEF OwnInv, PastPrompt
  <1>6. /\ faults["release"] = 0 => ~Queued(r)
        /\ faults'["release"] = 0 => faults["release"] = 0
        /\ ~Revoked(r)
    BY <1>1, <1>3 DEF OwnInv, PastPrompt, FaultKind
  <1>7. OwnInv(r)'
    BY <1>1, <1>2, <1>5, <1>6 DEF OwnInv, Revoked, Queued, Fresh, Terminal
  <1>8. MessageStep(r) BY <1>1, MessageFrame
  <1>9. Listed(r)' = Listed(r) BY DEF Listed, Queued
  <1>10. \A q \in Run : q \in sealed' =>
           q \in sealed \/ (q = r /\ Listed(r) = {} /\ Listed(r)' = {})
    BY <1>9
  <1>11. status[r] # "absent" BY <1>5 DEF Terminal
  <1> QED BY <1>3, <1>4, <1>5, <1>7, <1>8, <1>10, <1>11, GoToMove

LEMMA BoundaryFacts ==
  ASSUME IInv, NEW r \in Run, AtBoundary(r)
  PROVE  PastPrompt(r) /\ loop[r].stage = "ready" /\ loop[r].at \in {"start", "turn", "drained"}
  BY DEF AtBoundary, PastPrompt

LEMMA SealWindowStep ==
  ASSUME IInv, NEW r \in Run, SealWindow(r)
  PROVE  IInv'
  <1>1. /\ loop[r].at = "drained" /\ loop[r].stage = "ready"
        /\ UNCHANGED <<status, late, input, withdrawn, context, answers>>
    BY DEF SealWindow
  <1>2. PastPrompt(r) BY <1>1 DEF PastPrompt
  <1>3. {"sealed", "turn", "handoff"} \subseteq At /\ FaultKind = {"call", "reply", "release"}
    BY DEF At, FaultKind
  <1>4. CASE Listed(r) = {} /\ sealed' = sealed \cup {r} /\ GoTo(r, "sealed") /\ UNCHANGED faults
    BY <1>1, <1>2, <1>3, <1>4, LoopOnlyMove
  <1>5. CASE (GoTo(r, "turn") \/ GoTo(r, "handoff")) /\ UNCHANGED <<sealed, faults>>
    BY <1>1, <1>2, <1>3, <1>5, LoopOnlyMove
  <1>6. CASE GoTo(r, "handoff") /\ Fault("call") /\ UNCHANGED sealed
    BY <1>1, <1>2, <1>3, <1>6, LoopOnlyMove
  <1>7. CASE GoTo(r, "handoff") /\ Fault("reply") /\ Listed(r) = {} /\ sealed' = sealed \cup {r}
    BY <1>1, <1>2, <1>3, <1>7, LoopOnlyMove
  <1> QED BY <1>4, <1>5, <1>6, <1>7 DEF SealWindow

LEMMA HandOverStep ==
  ASSUME IInv, NEW r \in Run, HandOver(r)
  PROVE  IInv'
  <1>1. /\ loop[r].at \in {"handoff", "disabled", "start", "turn", "drained", "sealed"}
        /\ GoTo(r, IF status[r] = "running" THEN "handed" ELSE "none")
        /\ UNCHANGED <<status, late, sealed, input, withdrawn, context, answers, faults>>
    BY DEF HandOver, AtBoundary
  <1>2. PastPrompt(r) BY <1>1 DEF PastPrompt
  <1>3. status[r] \in {"running"} \cup Terminal BY <1>1 DEF IInv, OwnInv
  <1>4. "handed" \in At /\ "none" \in At BY DEF At
  <1> QED BY <1>1, <1>2, <1>3, <1>4, LoopOnlyMove

\* The end of a loop: the run parks, finishes or fails unless a verdict was there first.
LEMMA EndStep ==
  ASSUME IInv, NEW r \in Run, NEW s \in {"waiting", "completed", "failed"},
         loop[r].at # "none", GoTo(r, "none"),
         IF Live(r) THEN SetStatus(r, s) ELSE UNCHANGED status,
         UNCHANGED <<late, sealed, input, withdrawn, context, answers, faults>>,
         s = "waiting" => /\ loop[r].at \in {"turn", "drained", "disabled"}
                          /\ loop[r].stage = "ready"
  PROVE  IInv'
  <1>1. TypeOK /\ OwnInv(r) BY DEF IInv
  <1>2. status[r] \in {"running"} \cup Terminal BY <1>1 DEF OwnInv
  <1>3. "none" \in At BY DEF At
  <1>4. loop' \in [Run -> Loop] /\ loop'[r].at = "none" /\ loop'[r].stage = "ready"
    BY <1>1, <1>3, GoToWrite
  <1>5. /\ status' \in [Run -> Status]
        /\ status'[r] = IF status[r] = "running" THEN s ELSE status[r]
        /\ \A q \in Run : q # r => status'[q] = status[q]
    BY <1>1, <1>2 DEF TypeOK, Live, SetStatus, Status, Terminal
  <1>6. TypeOK' BY <1>1, <1>4, <1>5 DEF TypeOK
  <1>7. /\ ~Revoked(r)
        /\ s = "waiting" /\ faults["release"] = 0 => ~Queued(r)
    BY <1>1 DEF OwnInv
  <1>8. status'[r] \in {s} \cup Terminal BY <1>2, <1>5
  <1>9. OwnInv(r)'
    BY <1>1, <1>4, <1>7, <1>8, <1>2 DEF OwnInv, Revoked, Queued, Fresh, Terminal
  <1>10. loop'[r] # loop[r] BY <1>4
  <1>11. MessageStep(r)
    BY <1>1, <1>2, <1>5, <1>10 DEF OwnInv, MessageStep, Queued, Unsent, Fresh, Terminal
  <1>12. ~PastPrompt(r)' BY <1>4 DEF PastPrompt
  <1>13. status[r] # "absent" BY <1>2 DEF Terminal
  <1>14. status'[r] \notin Terminal
           => /\ loop[r].at \notin {"woken", "prompt", "start", "handoff", "handed"}
              /\ loop[r].stage # "held"
    BY <1>8 DEF Terminal
  <1> QED BY <1>3, <1>5, <1>6, <1>9, <1>11, <1>12, <1>13, <1>14, GoToMove

-----------------------------------------------------------------------------
(* List and reserve *)

LEMMA AfterFailedClaimAt ==
  ASSUME NEW r \in Run
  PROVE  /\ AfterFailedClaim(r) \in At /\ AfterFailedClaim(r) # "none"
         /\ loop[r].at = "start" => AfterFailedClaim(r) = "handoff"
         /\ AfterFailedClaim(r) \notin {"start", "turn", "drained"}
  BY DEF AfterFailedClaim, At

LEMMA LoadStep ==
  ASSUME IInv, NEW r \in Run, Load(r)
  PROVE  IInv'
  <1>1. /\ AtBoundary(r)
        /\ UNCHANGED <<status, late, sealed, input, withdrawn, context, answers>>
    BY DEF Load
  <1>2. /\ PastPrompt(r) /\ loop[r].stage = "ready"
        /\ loop[r].at \in {"start", "turn", "drained"}
    BY <1>1, BoundaryFacts
  <1>3. CASE Listed(r) = {} /\ GoTo(r, "drained") /\ UNCHANGED faults
    <2>1. CASE loop[r].at # "drained"
      <3>1. "drained" \in At BY DEF At
      <3> QED BY <1>1, <1>2, <1>3, <2>1, <3>1, LoopOnlyMove
    <2>2. CASE loop[r].at = "drained"
      <3>1. TypeOK /\ "drained" \in At BY DEF IInv, At
      <3>2. /\ loop'[r].at = "drained" /\ loop'[r].stage = "ready" /\ loop'[r].sources = {}
            /\ loop' \in [Run -> Loop]
            /\ \A q \in Run : q # r => loop'[q] = loop[q]
        BY <1>3, <3>1, GoToWrite
      <3>3. TypeOK' BY <1>1, <1>3, <3>1, <3>2 DEF TypeOK
      <3>4. OwnInv(r) /\ (\A q \in Run : OwnInv(q)) BY DEF IInv
      <3>5. \A q \in Run : MessageStep(q) BY <1>1, <3>4, MessageFrame
      <3>6. ASSUME NEW q \in Run PROVE OwnInv(q)'
        <4>1. CASE q # r BY <1>1, <1>3, <3>2, <3>4, <4>1, OwnFrame
        <4>2. CASE q = r
          BY <1>1, <1>2, <1>3, <2>2, <3>2, <3>4, <4>2
             DEF OwnInv, Revoked, Queued, Fresh, Terminal
        <4> QED BY <4>1, <4>2
      <3>7. Step BY <1>1, <1>3, <3>5 DEF Step, ContextStep
      <3>8. \A q \in Run : PastPrompt(q)' => PastPrompt(q) BY <1>2, <3>2 DEF PastPrompt
      <3>9. IsFiniteSet(Known') BY <1>1, KnownFrame
      <3>10. ASSUME NEW s \in Run PROVE HeldInv(r, s)'
        <4>1. ~(ReservedFor(r, s)' /\ status'[s] = "pending")
          BY <1>1, <1>3 DEF ReservedFor, Listed, Queued
        <4>2. ReservedFor(r, s)' => ReservedFor(r, s) BY <1>1 DEF ReservedFor
        <4> QED BY <3>7, <4>1, <4>2, HeldMove DEF HeldInv
      <3>11. TargetInv(r)' BY <1>1, <3>2, <3>7, <3>10, ReadyTarget
      <3> QED BY <1>1, <3>2, <3>3, <3>6, <3>7, <3>8, <3>9, <3>11, SilentStep
    <2> QED BY <2>1, <2>2
  <1>4. CASE /\ Listed(r) # {} /\ UNCHANGED faults
             /\ loop' = [loop EXCEPT ![r].stage = "loaded", ![r].sources = Listed(r)]
    <2> DEFINE x == [loop[r] EXCEPT !.stage = "loaded", !.sources = Listed(r)]
    <2>1. TypeOK /\ OwnInv(r) /\ loop[r] \in Loop BY DEF IInv, TypeOK
    <2>2. Listed(r) \in SUBSET Run BY DEF Listed
    <2>3. /\ x \in Loop /\ x.at = loop[r].at /\ x.stage = "loaded" /\ x.sources = Listed(r)
      BY <2>1, <2>2 DEF Loop
    <2>4. loop' = [loop EXCEPT ![r] = x] BY <1>4, <2>1 DEF TypeOK, Loop
    <2> HIDE DEF x
    <2>5. /\ loop' \in [Run -> Loop] /\ loop'[r] = x
          /\ \A q \in Run : q # r => loop'[q] = loop[q]
      BY <2>1, <2>3, <2>4 DEF TypeOK
    <2>6. TypeOK' BY <1>1, <1>4, <2>1, <2>5 DEF TypeOK
    <2>7. OwnInv(r)'
      BY <1>1, <1>2, <1>4, <2>1, <2>3, <2>5 DEF OwnInv, Revoked, Queued, Fresh, Terminal
    <2>8. MessageStep(r) BY <1>1, <2>1, MessageFrame
    <2>9. PastPrompt(r)' => PastPrompt(r) BY <1>2
    <2>10. loop'[r] # loop[r] BY <1>2, <2>3, <2>5
    <2>11. status[r] # "absent" BY <1>2, <2>1 DEF OwnInv, Terminal
    <2>12. ASSUME Step PROVE TargetInv(r)'
      <3>1. \A s \in Listed(r) : status[s] = "pending" /\ s \in Run BY DEF Listed
      <3>2. \A s \in loop'[r].sources : status'[s] \notin Fresh
        BY <1>1, <2>3, <2>5, <3>1 DEF Fresh
      <3>3. ASSUME NEW s \in Run PROVE HeldInv(r, s)'
        <4>1. ReservedFor(r, s)' => ReservedFor(r, s) BY <1>1 DEF ReservedFor
        <4> QED BY <1>1, <1>2, <2>3, <2>5, <2>12, <4>1, HeldMove DEF HeldInv
      <3>4. ASSUME faults'["release"] = 0 PROVE LineInv(r)'
        <4>1. LineInv(r) BY <1>4, <3>4 DEF IInv, TargetInv
        <4>2. Listed(r)' = Listed(r) BY <1>1 DEF Listed, Queued
        <4> QED BY <1>1, <2>3, <2>5, <4>1, <4>2 DEF LineInv
      <3> QED BY <3>2, <3>3, <3>4 DEF TargetInv
    <2> QED BY <1>1, <1>4, <2>5, <2>6, <2>7, <2>8, <2>9, <2>10, <2>11, <2>12, LoopMove
  <1>5. CASE Fault("call") /\ GoTo(r, AfterFailedClaim(r))
    <2>1. "call" \in FaultKind BY DEF FaultKind
    <2>2. loop[r].at = "start" \/ (loop[r].at \in {"turn", "drained"} /\ loop[r].stage # "held")
      BY <1>2
    <2> QED BY <1>1, <1>2, <1>5, <2>1, <2>2, AfterFailedClaimAt, LoopOnlyMove
  <1> QED BY <1>3, <1>4, <1>5 DEF Load

\* What SetReserved writes.
LEMMA ReserveWrite ==
  ASSUME TypeOK, NEW S \in SUBSET Run, SetReserved(S)
  PROVE  /\ input' \in [Run -> Input]
         /\ \A s \in Run : /\ input'[s].target = input[s].target
                           /\ input'[s].state = IF s \in S THEN "reserved" ELSE input[s].state
                           /\ s \notin S => input'[s] = input[s]
  <1>1. ASSUME NEW s \in Run
        PROVE  /\ input'[s] \in Input /\ input'[s].target = input[s].target
               /\ input'[s].state = IF s \in S THEN "reserved" ELSE input[s].state
               /\ s \notin S => input'[s] = input[s]
    <2>1. input[s] \in Input BY DEF TypeOK
    <2>2. input'[s] = IF s \in S THEN [input[s] EXCEPT !.state = "reserved"] ELSE input[s]
      BY DEF SetReserved
    <2> QED BY <2>1, <2>2 DEF Input
  <1>2. input' = [s \in Run |-> input'[s]] BY DEF SetReserved
  <1>3. input' \in [Run -> Input] BY <1>1, <1>2
  <1> QED BY <1>1, <1>3

\* A reservation, with whatever the loop of r learns of it.
LEMMA ReserveMove ==
  ASSUME IInv, NEW r \in Run, loop[r].stage = "loaded", loop' \in [Run -> Loop],
         NEW S, S = Reservable(r) \/ S = {}, SetReserved(S),
         \A q \in Run : q # r => loop'[q] = loop[q],
         faults' \in [FaultKind -> 0 .. MaxFaults],
         \A k \in FaultKind : faults'[k] = 0 => faults[k] = 0,
         UNCHANGED <<status, late, sealed, withdrawn, context, answers>>,
         loop'[r].at # "none",
         \/ /\ loop'[r].stage = "ready" /\ loop'[r].sources = {}
            /\ faults'["reply"] = 0 =>
                 S = {} /\ (loop'[r].at = "handoff" \/ loop[r].at # "start" \/ Reservable(r) = {})
         \/ /\ loop'[r].stage = "held" /\ loop'[r].sources = S /\ S = Reservable(r)
            /\ S # {} /\ loop'[r].at = loop[r].at
  PROVE  IInv'
  <1>1. TypeOK /\ \A q \in Run : OwnInv(q) BY DEF IInv
  <1>2. /\ loop[r].at \in {"start", "turn", "drained"} /\ PastPrompt(r)
        /\ status[r] \in {"running"} \cup Terminal
    BY <1>1 DEF OwnInv, PastPrompt
  <1>3. loop[r].sources \in SUBSET Run BY <1>1 DEF TypeOK, Loop
  <1>4. ASSUME NEW s \in S
        PROVE  /\ AcceptsInput(r) /\ s \in loop[r].sources /\ input[s].target = r
               /\ Queued(s) /\ status[s] = "pending"
    BY <1>4 DEF Reservable
  <1>5. S \in SUBSET Run BY <1>3, <1>4
  <1>6. /\ input' \in [Run -> Input]
        /\ \A s \in Run : /\ input'[s].target = input[s].target
                          /\ input'[s].state = IF s \in S THEN "reserved" ELSE input[s].state
                          /\ s \notin S => input'[s] = input[s]
    BY <1>1, <1>5, ReserveWrite
  <1>7. TypeOK' BY <1>1, <1>6 DEF TypeOK
  <1>8. loop'[r] # loop[r] BY DEF IInv
  <1>9. \A s \in Run : Queued(s)' <=> Queued(s) BY <1>4, <1>6 DEF Queued
  <1>10. Listed(r)' = Listed(r) BY <1>6, <1>9 DEF Listed
  <1>11. faults'["release"] = 0 => faults["release"] = 0 BY DEF FaultKind
  <1>12. ASSUME NEW q \in Run, q # r PROVE OwnInv(q)'
    BY <1>1, <1>4, <1>6, <1>9, <1>11, <1>12 DEF OwnInv, Revoked, Fresh, Queued
  <1>13. OwnInv(r)'
    <2>1. /\ OwnInv(r) /\ ~Revoked(r) /\ r \notin S
          /\ faults["release"] = 0 => ~Queued(r)
      BY <1>1, <1>2, <1>4 DEF OwnInv, Terminal
    <2>2. input'[r] = input[r] BY <1>6, <2>1
    <2>3. loop'[r].stage # "ready" => loop'[r].at \in {"start", "turn", "drained"} BY <1>2
    <2> QED BY <1>2, <1>11, <2>1, <2>2, <2>3 DEF OwnInv, Revoked, Queued, Fresh, Terminal
  <1>14. ASSUME NEW s \in Run PROVE MessageStep(s)
    <2>1. CASE s \notin S BY <1>1, <1>6, <2>1, MessageFrame
    <2>2. CASE s \in S
      BY <1>1, <1>4, <1>6, <1>8, <1>9, <2>2
         DEF MessageStep, OwnInv, Unsent, Fresh, Terminal, Queued
    <2> QED BY <2>1, <2>2
  <1>15. Step BY <1>14 DEF Step, ContextStep
  <1>16. \A q \in Run : PastPrompt(q)' => PastPrompt(q) BY <1>2 DEF PastPrompt
  <1>17. IsFiniteSet(Known') BY KnownFrame
  <1>18. ASSUME NEW s \in Run PROVE HeldInv(r, s)'
    <2> SUFFICES ASSUME ReservedFor(r, s)', status[r] \notin Terminal
                 PROVE  /\ status[s] \in {"pending"} \cup Terminal
                        /\ status[s] = "pending" =>
                             /\ r \notin sealed
                             /\ faults'["reply"] = 0 =>
                                  /\ status[r] = "running"
                                  /\ \/ loop'[r].at \in {"woken", "prompt", "start", "handoff",
                                                         "handed"}
                                     \/ loop'[r].stage = "held"
                                  /\ loop'[r].stage # "ready" => s \in loop'[r].sources
      BY DEF HeldInv
    <2>1. status[r] = "running" BY <1>2
    <2>2. CASE s \in S BY <1>4, <2>1, <2>2 DEF AcceptsInput
    <2>3. CASE s \notin S
      <3>1. ReservedFor(r, s) BY <1>6, <2>3 DEF ReservedFor
      <3>2. /\ status[s] \in {"pending"} \cup Terminal
            /\ status[s] = "pending" => s \in Listed(r) /\ r \notin sealed
            /\ status[s] = "pending" /\ faults'["reply"] = 0
                 => loop[r].at = "start" /\ s \in loop[r].sources
        BY <1>2, <1>15, <3>1, HeldMove
      <3>3. status[s] = "pending" /\ faults'["reply"] = 0 => s \in Reservable(r)
        BY <2>1, <3>1, <3>2 DEF Reservable, AcceptsInput, ReservedFor, Queued
      <3> QED BY <2>1, <2>3, <3>2, <3>3
    <2> QED BY <2>2, <2>3
  <1>19. TargetInv(r)'
    <2>1. CASE loop'[r].stage = "ready" /\ loop'[r].sources = {}
      BY <1>15, <1>18, <2>1, ReadyTarget
    <2>2. CASE /\ loop'[r].stage = "held" /\ loop'[r].sources = S /\ S = Reservable(r)
               /\ S # {}
      <3>1. \A s \in S : status'[s] \notin Fresh BY <1>4 DEF Fresh
      <3>2. ASSUME faults'["release"] = 0 PROVE LineInv(r)'
        <4>1. LineInv(r) BY <1>11, <3>2 DEF IInv, TargetInv
        <4>2. AcceptsInput(r) BY <1>4, <2>2
        <4>3. \A s \in Listed(r) : s \in loop[r].sources => s \in S
          BY <2>2, <4>2 DEF Reservable, Listed
        <4>4. \A s \in Listed(r), m \in S : s \in S \/ m < s
          BY <1>4, <4>1, <4>3 DEF LineInv
        <4>5. \A s \in Listed(r) : s \in S => input'[s].state = "reserved"
          BY <1>5, <1>6
        <4> QED BY <1>10, <2>2, <4>1, <4>4, <4>5 DEF LineInv
      <3> QED BY <1>18, <2>2, <3>1, <3>2 DEF TargetInv
    <2> QED BY <2>1, <2>2
  <1> QED BY <1>7, <1>12, <1>13, <1>15, <1>16, <1>17, <1>19, SilentStep

LEMMA ReserveStep ==
  ASSUME IInv, NEW r \in Run, Reserve(r)
  PROVE  IInv'
  <1>1. /\ loop[r].stage = "loaded"
        /\ UNCHANGED <<status, late, sealed, withdrawn, context, answers>>
    BY DEF Reserve
  <1>2. TypeOK /\ loop[r] \in Loop /\ OwnInv(r) BY DEF IInv, TypeOK
  <1>3. /\ faults \in [FaultKind -> 0 .. MaxFaults] /\ "call" \in FaultKind
        /\ "reply" \in FaultKind
    BY <1>2 DEF TypeOK, FaultKind
  <1>4. CASE Reservable(r) = {} /\ SetReserved(Reservable(r)) /\ GoTo(r, "drained")
             /\ UNCHANGED faults
    <2>1. "drained" \in At BY DEF At
    <2>2. /\ loop' \in [Run -> Loop] /\ loop'[r].at = "drained"
          /\ loop'[r].stage = "ready" /\ loop'[r].sources = {}
          /\ \A q \in Run : q # r => loop'[q] = loop[q]
      BY <1>2, <1>4, <2>1, GoToWrite
    <2> QED BY <1>1, <1>3, <1>4, <2>2, ReserveMove
  <1>5. CASE /\ Reservable(r) # {} /\ SetReserved(Reservable(r)) /\ UNCHANGED faults
             /\ loop' = [loop EXCEPT ![r].stage = "held", ![r].sources = Reservable(r)]
    <2> DEFINE x == [loop[r] EXCEPT !.stage = "held", !.sources = Reservable(r)]
    <2>1. Reservable(r) \in SUBSET Run BY <1>2 DEF Reservable, Loop
    <2>2. x \in Loop /\ x.at = loop[r].at /\ x.stage = "held" /\ x.sources = Reservable(r)
      BY <1>2, <2>1 DEF Loop
    <2>3. loop' = [loop EXCEPT ![r] = x] BY <1>2, <1>5 DEF TypeOK, Loop
    <2> HIDE DEF x
    <2>4. /\ loop' \in [Run -> Loop] /\ loop'[r] = x
          /\ \A q \in Run : q # r => loop'[q] = loop[q]
      BY <1>2, <2>2, <2>3 DEF TypeOK
    <2>5. loop[r].at # "none" BY <1>1, <1>2 DEF OwnInv
    <2> QED BY <1>1, <1>3, <1>5, <2>2, <2>4, <2>5, ReserveMove
  <1>6. ASSUME GoTo(r, AfterFailedClaim(r))
        PROVE  /\ loop' \in [Run -> Loop] /\ loop'[r].at = AfterFailedClaim(r)
               /\ loop'[r].stage = "ready" /\ loop'[r].sources = {}
               /\ \A q \in Run : q # r => loop'[q] = loop[q]
    BY <1>2, <1>6, AfterFailedClaimAt, GoToWrite
  <1>7. CASE GoTo(r, AfterFailedClaim(r)) /\ Fault("call") /\ UNCHANGED input
    <2>1. SetReserved({}) BY <1>2, <1>7 DEF SetReserved, TypeOK
    <2>2. /\ faults' \in [FaultKind -> 0 .. MaxFaults]
          /\ \A k \in FaultKind : faults'[k] = 0 => faults[k] = 0
      BY <1>2, <1>3, <1>7, FaultWrite
    <2> QED BY <1>1, <1>6, <1>7, <2>1, <2>2, AfterFailedClaimAt, ReserveMove
  <1>8. CASE GoTo(r, AfterFailedClaim(r)) /\ Fault("reply") /\ SetReserved(Reservable(r))
    <2>1. /\ faults' \in [FaultKind -> 0 .. MaxFaults] /\ faults'["reply"] # 0
          /\ \A k \in FaultKind : faults'[k] = 0 => faults[k] = 0
      BY <1>2, <1>3, <1>8, FaultWrite
    <2> QED BY <1>1, <1>6, <1>8, <2>1, AfterFailedClaimAt, ReserveMove
  <1> QED BY <1>4, <1>5, <1>7, <1>8 DEF Reserve

-----------------------------------------------------------------------------
(* Steps that record *)

LEMMA Extension ==
  ASSUME context \in Seq(Event), NEW E \in Seq(Event), context' = context \o E
  PROVE  /\ context' \in Seq(Event)
         /\ \A i \in DOMAIN context : i \in DOMAIN context' /\ context'[i] = context[i]
         /\ \A i \in DOMAIN context' : i \notin DOMAIN context =>
              \E k \in DOMAIN E : i = Len(context) + k /\ context'[i] = E[k]
         /\ \A k \in DOMAIN E : /\ Len(context) + k \in DOMAIN context'
                                /\ context'[Len(context) + k] = E[k]
  <1> DEFINE m == Len(context)
             n == Len(E)
  <1>1. /\ m \in Nat /\ n \in Nat /\ DOMAIN context = 1 .. m /\ DOMAIN E = 1 .. n
    BY LenProperties
  <1>2. /\ context' \in Seq(Event) /\ Len(context') = m + n
        /\ \A i \in 1 .. m + n : context'[i] = IF i <= m THEN context[i] ELSE E[i - m]
    BY ConcatProperties
  <1>3. DOMAIN context' = 1 .. m + n BY <1>2, LenProperties
  <1> HIDE DEF m, n
  <1>4. ASSUME NEW i \in 1 .. m PROVE i \in 1 .. m + n /\ context'[i] = context[i]
    BY <1>1, <1>2
  <1>5. ASSUME NEW i \in 1 .. m + n, i \notin 1 .. m
        PROVE  i - m \in 1 .. n /\ i = m + (i - m) /\ context'[i] = E[i - m]
    BY <1>1, <1>2, <1>5
  <1>6. ASSUME NEW k \in 1 .. n PROVE m + k \in 1 .. m + n /\ context'[m + k] = E[k]
    <2>1. m + k \in 1 .. m + n /\ ~(m + k <= m) /\ (m + k) - m = k BY <1>1
    <2> QED BY <1>2, <2>1
  <1> QED BY <1>1, <1>2, <1>3, <1>4, <1>5, <1>6 DEF m

\* Events by r, in the order of their messages, each of a message that was not recorded
\* and is no longer queued.
LEMMA RecordingStep ==
  ASSUME IInv, TypeOK', Step, IsFiniteSet(Known'), NEW r \in Run,
         NEW E \in Seq(Event), context' = context \o E,
         \A q \in Run : OwnInv(q)' /\ (loop'[q] = loop[q] \/ TargetInv(q)'),
         \A q \in Run : PastPrompt(q)' =>
           PastPrompt(q) \/ Recorded(q) \/ \E k \in DOMAIN E : E[k].msg = q,
         Recorded(r) \/ \E k \in DOMAIN E : E[k].msg = r,
         \A k \in DOMAIN E :
           /\ E[k].by = r /\ status'[E[k].msg] \notin Fresh
           /\ faults'["release"] = 0 => ~Queued(E[k].msg)' /\ ~Recorded(E[k].msg)
           /\ \A l \in DOMAIN E : k < l => E[k].msg < E[l].msg
           /\ faults'["release"] = 0 =>
                \A i \in DOMAIN context : context[i].by = r /\ context[i].msg # r
                                            => context[i].msg < E[k].msg
  PROVE  IInv'
  <1>1. context \in Seq(Event) BY DEF IInv, TypeOK
  <1>2. /\ \A i \in DOMAIN context : i \in DOMAIN context' /\ context'[i] = context[i]
        /\ \A i \in DOMAIN context' : i \notin DOMAIN context =>
             \E k \in DOMAIN E : i = Len(context) + k /\ context'[i] = E[k]
        /\ \A k \in DOMAIN E : /\ Len(context) + k \in DOMAIN context'
                               /\ context'[Len(context) + k] = E[k]
    BY <1>1, Extension
  <1>3. /\ Len(context) \in Nat /\ DOMAIN context = 1 .. Len(context)
        /\ Len(E) \in Nat /\ DOMAIN E = 1 .. Len(E)
    BY <1>1, LenProperties
  <1>4. ASSUME NEW q \in Run
        PROVE  Recorded(q)' <=> Recorded(q) \/ \E k \in DOMAIN E : E[k].msg = q
    <2>1. Recorded(q)' => Recorded(q) \/ \E k \in DOMAIN E : E[k].msg = q
      BY <1>2 DEF Recorded
    <2>2. Recorded(q) => Recorded(q)' BY <1>2 DEF Recorded
    <2>3. ASSUME NEW k \in DOMAIN E, E[k].msg = q PROVE Recorded(q)'
      <3>1. /\ Len(context) + k \in DOMAIN context'
            /\ context'[Len(context) + k].msg = q
        BY <1>2, <2>3
      <3> QED BY <3>1 DEF Recorded
    <2> QED BY <2>1, <2>2, <2>3
  <1>5. faults'["release"] = 0 => faults["release"] = 0 BY DEF Step, FaultKind
  <1>6. \A k \in DOMAIN E : E[k].msg \in Run /\ E[k].msg \in Nat
    <2>1. \A k \in DOMAIN E : E[k] \in Event OBVIOUS
    <2> QED BY <2>1, RunAssumption DEF Event
  <1>7. ASSUME NEW q \in Run PROVE RecordInv(q)'
    <2>1. RecordInv(q) /\ MessageStep(q) BY DEF IInv, Step
    <2>2. Recorded(q)' => status'[q] \notin Fresh
      BY <1>4, <2>1 DEF RecordInv, MessageStep
    <2>3. loop'[q].at \notin {"none", "woken", "prompt"} => Recorded(q)'
      BY <1>4, <2>1 DEF RecordInv, PastPrompt
    <2>4. (\E i \in DOMAIN context' : context'[i].by = q) => Recorded(q)'
      <3>1. ASSUME NEW i \in DOMAIN context', context'[i].by = q PROVE Recorded(q)'
        <4>1. CASE i \in DOMAIN context BY <1>2, <1>4, <2>1, <3>1, <4>1 DEF RecordInv
        <4>2. CASE i \notin DOMAIN context
          <5>1. q = r BY <1>2, <3>1, <4>2
          <5> QED BY <1>4, <5>1
        <4> QED BY <4>1, <4>2
      <3> QED BY <3>1
    <2>5. ASSUME faults'["release"] = 0, Recorded(q)' PROVE ~Queued(q)'
      <3>1. CASE Recorded(q)
        <4>1. ~Queued(q) /\ ~Unsent(q)
          BY <1>5, <2>1, <2>5, <3>1 DEF RecordInv, Unsent, Fresh
        <4> QED BY <2>1, <4>1 DEF MessageStep
      <3>2. CASE \E k \in DOMAIN E : E[k].msg = q BY <2>5, <3>2
      <3> QED BY <1>4, <2>5, <3>1, <3>2
    <2> QED BY <2>2, <2>3, <2>4, <2>5 DEF RecordInv
  <1>8. ASSUME faults'["release"] = 0, NEW i \in DOMAIN context', NEW j \in DOMAIN context',
               i < j
        PROVE  /\ context'[i].msg # context'[j].msg
               /\ context'[i].by = context'[j].by /\ context'[i].msg # context'[i].by
                    => context'[i].msg < context'[j].msg
    <2>1. CASE j \in DOMAIN context
      <3>1. i \in DOMAIN context
        <4>1. i \notin DOMAIN context => \E k \in DOMAIN E : i = Len(context) + k BY <1>2
        <4> QED BY <1>3, <1>8, <2>1, <4>1
      <3>2. context'[i] = context[i] /\ context'[j] = context[j] BY <1>2, <2>1, <3>1
      <3>3. i # j BY <1>3, <1>8, <2>1, <3>1
      <3> QED BY <1>5, <1>8, <2>1, <3>1, <3>2, <3>3 DEF IInv, MessageEntersOnce, SteeredInOrder
    <2>2. CASE j \notin DOMAIN context
      <3>1. PICK l \in DOMAIN E : j = Len(context) + l /\ context'[j] = E[l] BY <1>2, <2>2
      <3>2. CASE i \in DOMAIN context
        <4>1. context'[i] = context[i] BY <1>2, <3>2
        <4>2. ~Recorded(E[l].msg) BY <1>8
        <4>3. context[i].msg # E[l].msg BY <3>2, <4>2 DEF Recorded
        <4> QED BY <1>8, <3>1, <3>2, <4>1, <4>3
      <3>3. CASE i \notin DOMAIN context
        <4>1. PICK k \in DOMAIN E : i = Len(context) + k /\ context'[i] = E[k] BY <1>2, <3>3
        <4>2. k < l BY <1>3, <1>8, <3>1, <4>1
        <4>3. E[k].msg < E[l].msg BY <4>2
        <4>4. E[k].msg # E[l].msg BY <1>6, <4>3
        <4> QED BY <3>1, <4>1, <4>3, <4>4
      <3> QED BY <3>2, <3>3
    <2> QED BY <2>1, <2>2
  <1>9. DOMAIN context' \subseteq Int BY <1>2, <1>3
  <1>10. MessageEntersOnce'
    <2> SUFFICES ASSUME faults'["release"] = 0, NEW i \in DOMAIN context',
                        NEW j \in DOMAIN context', context'[i].msg = context'[j].msg
                 PROVE  i = j
      BY DEF MessageEntersOnce
    <2>1. i \in Int /\ j \in Int BY <1>9
    <2>2. ~(i < j) /\ ~(j < i) BY <1>8
    <2> QED BY <2>1, <2>2
  <1>11. SteeredInOrder' BY <1>8 DEF SteeredInOrder
  <1>12. \A q \in Run : TargetInv(q)' BY TargetFrame
  <1> QED BY <1>7, <1>10, <1>11, <1>12, QueueFrame DEF IInv

LEMMA RecordPromptStep ==
  ASSUME IInv, NEW r \in Run, RecordPrompt(r)
  PROVE  IInv'
  <1>1. /\ loop[r].at = "prompt" /\ GoTo(r, "start")
        /\ UNCHANGED <<status, late, sealed, input, withdrawn, answers, faults>>
    BY DEF RecordPrompt
  <1>2. TypeOK /\ \A q \in Run : OwnInv(q) BY DEF IInv
  <1>3. "start" \in At BY DEF At
  <1>4. /\ loop' \in [Run -> Loop]
        /\ loop'[r].at = "start" /\ loop'[r].stage = "ready" /\ loop'[r].sources = {}
        /\ \A q \in Run : q # r => loop'[q] = loop[q]
    BY <1>1, <1>2, <1>3, GoToWrite
  <1>5. status[r] \in {"running"} \cup Terminal BY <1>1, <1>2 DEF OwnInv
  <1>6. OwnInv(r)'
    BY <1>1, <1>2, <1>4, <1>5 DEF OwnInv, Revoked, Queued, Fresh, Terminal
  <1>7. \A q \in Run : MessageStep(q) BY <1>1, <1>2, MessageFrame
  <1>8. status[r] \notin Fresh BY <1>5 DEF Fresh, Terminal
  <1>9. CASE Recorded(r)
    <2>1. UNCHANGED context BY <1>9 DEF RecordPrompt
    <2>2. TypeOK' BY <1>1, <1>2, <1>4, <2>1 DEF TypeOK
    <2>3. status[r] # "absent" BY <1>8 DEF Fresh
    <2> QED BY <1>1, <1>3, <1>5, <1>6, <1>7, <1>9, <2>1, <2>2, <2>3, GoToMove
  <1>10. CASE ~Recorded(r)
    <2> DEFINE e == [msg |-> r, by |-> r]
               E == <<e>>
    <2>1. e \in Event /\ e.msg = r /\ e.by = r BY DEF Event
    <2>2. context \in Seq(Event) BY <1>2 DEF TypeOK
    <2>3. context' = context \o E
      <3>1. context' = Append(context, e) BY <1>10 DEF RecordPrompt
      <3> HIDE DEF e
      <3> QED BY <2>1, <2>2, <3>1, AppendIsConcat
    <2>4. E \in Seq(Event) /\ DOMAIN E = {1} /\ E[1] = e
      <3> HIDE DEF e
      <3> QED BY <2>1
    <2> HIDE DEF e, E
    <2>5. /\ context' \in Seq(Event)
          /\ \A i \in DOMAIN context : i \in DOMAIN context' /\ context'[i] = context[i]
          /\ \A i \in DOMAIN context' : i \notin DOMAIN context => context'[i] = e
      <3>1. /\ context' \in Seq(Event)
            /\ \A i \in DOMAIN context : i \in DOMAIN context' /\ context'[i] = context[i]
            /\ \A i \in DOMAIN context' : i \notin DOMAIN context =>
                 \E k \in DOMAIN E : i = Len(context) + k /\ context'[i] = E[k]
        BY <2>2, <2>3, <2>4, Extension
      <3> QED BY <2>4, <3>1
    <2>6. TypeOK' BY <1>1, <1>2, <1>4, <2>5 DEF TypeOK
    <2>7. loop'[r] # loop[r] BY <1>1, <1>4
    <2>8. Step BY <1>1, <1>7, <2>1, <2>5, <2>7 DEF Step, ContextStep
    <2>9. ASSUME NEW s \in Run PROVE HeldInv(r, s)'
      <3>1. ReservedFor(r, s)' => ReservedFor(r, s) BY <1>1 DEF ReservedFor
      <3> QED BY <1>1, <1>4, <1>5, <2>8, <3>1, HeldMove DEF HeldInv
    <2>10. TargetInv(r)'
      <3>1. \A i \in DOMAIN context' : context'[i].by = r /\ context'[i].msg # r
                                         => i \in DOMAIN context
        BY <2>1, <2>5
      <3> QED BY <1>1, <1>4, <2>8, <2>9, <3>1, ReadyTarget
    <2>11. ASSUME NEW q \in Run PROVE OwnInv(q)' /\ (loop'[q] = loop[q] \/ TargetInv(q)')
      <3>1. CASE q # r BY <1>1, <1>2, <1>4, <3>1, OwnFrame
      <3>2. CASE q = r BY <1>6, <2>10, <3>2
      <3> QED BY <3>1, <3>2
    <2>12. IsFiniteSet(Known') BY <1>1, KnownFrame
    <2>13. \A q \in Run : PastPrompt(q)' => PastPrompt(q) \/ \E k \in DOMAIN E : E[k].msg = q
      BY <1>4, <2>1, <2>4 DEF PastPrompt
    <2>14. \A k \in DOMAIN E : E[k].by = r /\ E[k].msg = r BY <2>1, <2>4
    <2>15. faults["release"] = 0 => ~Queued(r) BY <1>1, <1>2 DEF OwnInv
    <2>16. ~Queued(r)' <=> ~Queued(r) BY <1>1 DEF Queued
    <2>17. \A i \in DOMAIN context : context[i].by # r BY <1>10 DEF IInv, RecordInv
    <2>18. \A k, l \in DOMAIN E : ~(k < l) BY <2>4
    <2>19. \E k \in DOMAIN E : E[k].msg = r BY <2>4, <2>14
    <2> QED BY <1>1, <1>8, <1>10, <2>3, <2>4, <2>6, <2>8, <2>11, <2>12, <2>13, <2>14, <2>15,
               <2>16, <2>17, <2>18, <2>19, RecordingStep
  <1> QED BY <1>9, <1>10

\* What buildAppliedSteeringEventInputs returns.
LEMMA InterjectionFacts ==
  ASSUME IInv, NEW r \in Run, NEW S \in SUBSET Run, \A s \in S : status[s] = "pending"
  PROVE  /\ Interjections(r, S) \in Seq(Event)
         /\ \A k \in DOMAIN Interjections(r, S) :
              /\ Interjections(r, S)[k].by = r /\ Interjections(r, S)[k].msg \in S
              /\ \A l \in DOMAIN Interjections(r, S) :
                   k < l => Interjections(r, S)[k].msg < Interjections(r, S)[l].msg
  <1> DEFINE N == {s \in S : ~Interjected(s)}
             n == Cardinality(N)
             new == InOrder(N)
             E == [i \in DOMAIN new |-> [msg |-> new[i], by |-> r]]
  <1>1. N \in SUBSET Nat BY RunAssumption
  <1>2. IsFiniteSet(N)
    <2>1. N \in SUBSET Known BY DEF Known
    <2> QED BY <2>1, FS_Subset DEF IInv
  <1>3. N \in SUBSET S OBVIOUS
  <1>4. Interjections(r, S) = E BY DEF Interjections
  <1> HIDE DEF N
  <1>5. /\ new \in [1 .. n -> N] /\ n \in Nat
        /\ \A i, j \in 1 .. n : i < j => new[i] < new[j]
    BY <1>1, <1>2, InOrderSorts
  <1> HIDE DEF new, n
  <1>6. \A i \in 1 .. n : new[i] \in S /\ new[i] \in Run BY <1>3, <1>5
  <1>7. DOMAIN E = 1 .. n /\ \A i \in 1 .. n : E[i] = [msg |-> new[i], by |-> r] BY <1>5
  <1>8. \A i \in 1 .. n : E[i] \in Event /\ E[i].msg = new[i] /\ E[i].by = r
    BY <1>6, <1>7 DEF Event
  <1>9. E \in Seq(Event)
    <2>1. E \in [1 .. n -> Event]
      <3>1. E = [i \in 1 .. n |-> E[i]] BY <1>7
      <3> HIDE DEF E
      <3> QED BY <1>8, <3>1
    <2> HIDE DEF E
    <2> QED BY <1>5, <2>1
  <1> HIDE DEF E
  <1> QED BY <1>4, <1>5, <1>6, <1>7, <1>8, <1>9

\* The transaction of applySteeringInputsAtomically, whether or not the loop sees its
\* reply.
LEMMA AppliedStep ==
  ASSUME IInv, NEW r \in Run, loop[r].stage = "held", Applied(r, Appliable(r)),
         NEW at \in {"turn", "handoff"}, GoTo(r, at),
         at = "turn" => Appliable(r) = loop[r].sources,
         faults' \in [FaultKind -> 0 .. MaxFaults],
         \A k \in FaultKind : faults'[k] = 0 => faults[k] = 0,
         UNCHANGED <<late, sealed, withdrawn, answers>>
  PROVE  IInv'
  <1>S. PICK S : S = Appliable(r) OBVIOUS
  <1>E. PICK E : E = Interjections(r, S) OBVIOUS
  <1>1. TypeOK /\ \A q \in Run : OwnInv(q) BY DEF IInv
  <1>2. /\ loop[r].at \in {"start", "turn", "drained"} /\ PastPrompt(r)
        /\ status[r] \in {"running"} \cup Terminal
    BY <1>1 DEF OwnInv, PastPrompt
  <1>3. loop[r].sources \in SUBSET Run BY <1>1 DEF TypeOK, Loop
  <1>4. ASSUME NEW s \in S
        PROVE  /\ s \in loop[r].sources /\ input[s].state = "reserved" /\ input[s].target = r
               /\ status[s] = "pending" /\ AcceptsInput(r) /\ s \in Run
    BY <1>3, <1>4, <1>S DEF Appliable
  <1>5. S \in SUBSET Run BY <1>4
  <1>6. ASSUME NEW s \in Run, s \in loop[r].sources, s \in Listed(r), AcceptsInput(r),
               input[s].state = "reserved"
        PROVE  s \in S
    <2>1. input[s] = [state |-> "reserved", target |-> r]
      <3>1. input[s] \in Input /\ input[s].target = r BY <1>1, <1>6 DEF TypeOK, Listed
      <3> QED BY <1>6, <3>1 DEF Input
    <2> QED BY <1>6, <1>S, <2>1 DEF Appliable, Listed
  <1>7. /\ context' = context \o E
        /\ input' = [s \in Run |-> IF s \in S THEN [input[s] EXCEPT !.state = "applied"]
                                              ELSE input[s]]
        /\ status' = [s \in Run |-> IF s \in S THEN "completed" ELSE status[s]]
    BY <1>S, <1>E DEF Applied
  <1>8. /\ E \in Seq(Event)
        /\ \A k \in DOMAIN E : /\ E[k].by = r /\ E[k].msg \in S
                               /\ \A l \in DOMAIN E : k < l => E[k].msg < E[l].msg
    BY <1>4, <1>5, <1>E, InterjectionFacts
  <1>9. ASSUME NEW s \in Run
        PROVE  /\ input'[s] \in Input /\ input'[s].target = input[s].target
               /\ input'[s].state = IF s \in S THEN "applied" ELSE input[s].state
               /\ s \notin S => input'[s] = input[s]
    <2>1. input[s] \in Input BY <1>1 DEF TypeOK
    <2>2. input'[s] = IF s \in S THEN [input[s] EXCEPT !.state = "applied"] ELSE input[s]
      BY <1>7
    <2> QED BY <2>1, <2>2 DEF Input
  <1>10. input' \in [Run -> Input]
    <2>1. input' = [s \in Run |-> input'[s]] BY <1>7
    <2> QED BY <1>9, <2>1
  <1>11. /\ status' \in [Run -> Status]
         /\ \A s \in Run : status'[s] = IF s \in S THEN "completed" ELSE status[s]
    BY <1>1, <1>7 DEF TypeOK, Status, Terminal
  <1>12. context \in Seq(Event) BY <1>1 DEF TypeOK
  <1>13. /\ context' \in Seq(Event)
         /\ \A i \in DOMAIN context : i \in DOMAIN context' /\ context'[i] = context[i]
         /\ \A i \in DOMAIN context' : i \notin DOMAIN context =>
              \E k \in DOMAIN E : i = Len(context) + k /\ context'[i] = E[k]
    BY <1>7, <1>8, <1>12, Extension
  <1>14. at \in At BY DEF At
  <1>15. /\ loop' \in [Run -> Loop]
         /\ loop'[r].at = at /\ loop'[r].stage = "ready" /\ loop'[r].sources = {}
         /\ \A q \in Run : q # r => loop'[q] = loop[q]
    BY <1>1, <1>14, GoToWrite
  <1>16. TypeOK' BY <1>1, <1>10, <1>11, <1>13, <1>15 DEF TypeOK
  <1>17. r \notin S /\ status'[r] = status[r] /\ input'[r] = input[r]
    BY <1>2, <1>4, <1>9, <1>11 DEF Terminal
  <1>18. faults'["release"] = 0 => faults["release"] = 0 BY DEF FaultKind
  <1>19. OwnInv(r)'
    <2>1. OwnInv(r) /\ ~Revoked(r) /\ (faults["release"] = 0 => ~Queued(r))
      BY <1>1, <1>2 DEF OwnInv
    <2> QED BY <1>2, <1>15, <1>17, <1>18, <2>1 DEF OwnInv, Revoked, Queued, Fresh, Terminal
  <1>20. ASSUME NEW s \in S PROVE OwnInv(s)' /\ MessageStep(s)
    <2>1. s \in Run /\ s # r BY <1>4, <1>17
    <2>2. /\ status'[s] = "completed" /\ input'[s].state = "applied" /\ loop'[s] = loop[s]
          /\ input'[s].target = r
      BY <1>4, <1>9, <1>11, <1>15, <2>1
    <2>3. /\ loop[s].at = "none" /\ loop[s].stage = "ready" /\ s \notin late /\ ~Revoked(s)
      BY <1>1, <1>4, <2>1 DEF OwnInv, Terminal
    <2>4. OwnInv(s)'
      BY <2>2, <2>3 DEF OwnInv, Revoked, Queued, Fresh, Terminal
    <2>5. MessageStep(s)
      BY <1>4, <2>1, <2>2 DEF MessageStep, Unsent, Fresh, Terminal, Queued
    <2> QED BY <2>4, <2>5
  <1>21. ASSUME NEW q \in Run, q \notin S PROVE MessageStep(q) /\ OwnInv(q)'
    <2>1. status'[q] = status[q] /\ input'[q] = input[q] BY <1>9, <1>11, <1>21
    <2> QED BY <1>1, <1>15, <1>18, <1>19, <2>1, OwnFrame, MessageFrame
  <1>22. loop'[r] # loop[r] BY <1>15
  <1>23. Step BY <1>8, <1>13, <1>20, <1>21, <1>22 DEF Step, ContextStep
  <1>24. ASSUME NEW s \in Run PROVE HeldInv(r, s)'
    <2>1. ReservedFor(r, s)' => ReservedFor(r, s) /\ s \notin S BY <1>9 DEF ReservedFor
    <2>2. ReservedFor(r, s)' /\ status'[s] = "pending" /\ status'[r] \notin Terminal
            /\ faults'["reply"] = 0 => status[r] = "running" /\ s \in loop[r].sources
      BY <1>23, <2>1, HeldMove
    <2>3. ASSUME ReservedFor(r, s)', status'[s] = "pending", status'[r] \notin Terminal,
                 faults'["reply"] = 0
          PROVE  at = "handoff"
      BY <1>S, <2>1, <2>2, <2>3
    <2> QED BY <1>15, <1>17, <1>23, <2>1, <2>2, <2>3, HeldMove DEF HeldInv
  <1>25. ASSUME faults'["release"] = 0, NEW m \in S, NEW s \in Listed(r)' PROVE m < s
    <2>1. s \in Run /\ s \notin S BY <1>11 DEF Listed
    <2>2. m \in Run /\ ~Unsent(m) /\ m \in loop[r].sources /\ AcceptsInput(r)
      BY <1>4 DEF Unsent
    <2>3. CASE s \in Listed(r)
      <3>1. LineInv(r) BY <1>18, <1>25 DEF IInv, TargetInv
      <3>2. s \notin loop[r].sources BY <1>6, <2>1, <2>2, <2>3, <3>1 DEF LineInv
      <3> QED BY <2>2, <2>3, <3>1, <3>2 DEF LineInv
    <2> QED BY <1>23, <1>25, <2>1, <2>2, <2>3, ListedStep
  <1>26. TargetInv(r)'
    <2>1. \A i \in DOMAIN context' :
            faults'["release"] = 0 /\ context'[i].by = r /\ context'[i].msg # r
              => i \in DOMAIN context \/ \A s \in Listed(r)' : context'[i].msg < s
      BY <1>8, <1>13, <1>25
    <2> QED BY <1>15, <1>23, <1>24, <2>1, ReadyTarget
  <1>27. IsFiniteSet(Known') BY <1>4, <1>11, KnownFrame
  <1>28. Recorded(r) BY <1>2 DEF IInv, RecordInv, PastPrompt
  <1>29. \A q \in Run : PastPrompt(q)' => PastPrompt(q) BY <1>2, <1>15 DEF PastPrompt
  <1>30. ASSUME NEW s \in S
         PROVE  /\ status'[s] \notin Fresh
                /\ faults'["release"] = 0 =>
                     /\ ~Queued(s)' /\ ~Recorded(s)
                     /\ \A i \in DOMAIN context : context[i].by = r /\ context[i].msg # r
                                                    => context[i].msg < s
    <2>1. s \in Run /\ Queued(s) /\ s \in Listed(r) BY <1>4 DEF Queued, Listed
    <2>2. status'[s] \notin Fresh /\ ~Queued(s)' BY <1>9, <1>11, <2>1 DEF Fresh, Queued
    <2>3. ASSUME faults'["release"] = 0
          PROVE  /\ ~Recorded(s)
                 /\ \A i \in DOMAIN context : context[i].by = r /\ context[i].msg # r
                                                => context[i].msg < s
      <3>1. RecordInv(s) /\ LineInv(r) BY <1>18, <2>1, <2>3 DEF IInv, TargetInv
      <3> QED BY <1>18, <2>1, <2>3, <3>1 DEF RecordInv, LineInv
    <2> QED BY <2>2, <2>3
  <1>31. \A q \in Run : OwnInv(q)' /\ (loop'[q] = loop[q] \/ TargetInv(q)')
    BY <1>15, <1>20, <1>21, <1>26
  <1>32. \A k \in DOMAIN E :
           /\ E[k].by = r /\ status'[E[k].msg] \notin Fresh
           /\ faults'["release"] = 0 => ~Queued(E[k].msg)' /\ ~Recorded(E[k].msg)
           /\ \A l \in DOMAIN E : k < l => E[k].msg < E[l].msg
           /\ faults'["release"] = 0 =>
                \A i \in DOMAIN context : context[i].by = r /\ context[i].msg # r
                                            => context[i].msg < E[k].msg
    BY <1>8, <1>30
  <1> QED BY <1>7, <1>8, <1>16, <1>23, <1>27, <1>28, <1>29, <1>31, <1>32,
             RecordingStep

LEMMA ApplyStep ==
  ASSUME IInv, NEW r \in Run, Apply(r)
  PROVE  IInv'
  <1>1. loop[r].stage = "held" /\ UNCHANGED <<late, sealed, withdrawn, answers>>
    BY DEF Apply
  <1>2. TypeOK /\ OwnInv(r) BY DEF IInv
  <1>3. /\ faults \in [FaultKind -> 0 .. MaxFaults] /\ "call" \in FaultKind
        /\ "reply" \in FaultKind /\ "handoff" \in At
    BY <1>2 DEF TypeOK, FaultKind, At
  <1>4. CASE /\ Applied(r, Appliable(r)) /\ UNCHANGED faults
             /\ GoTo(r, IF Appliable(r) = loop[r].sources THEN "turn" ELSE "handoff")
    <2>1. CASE Appliable(r) = loop[r].sources BY <1>1, <1>3, <1>4, <2>1, AppliedStep
    <2>2. CASE Appliable(r) # loop[r].sources BY <1>1, <1>3, <1>4, <2>2, AppliedStep
    <2> QED BY <2>1, <2>2
  <1>5. CASE GoTo(r, "handoff") /\ Fault("call") /\ UNCHANGED <<context, input, status>>
    <2>1. PastPrompt(r) BY <1>1, <1>2 DEF OwnInv, PastPrompt
    <2> QED BY <1>1, <1>3, <1>5, <2>1, LoopOnlyMove
  <1>6. CASE GoTo(r, "handoff") /\ Fault("reply") /\ Applied(r, Appliable(r))
    <2>1. /\ faults' \in [FaultKind -> 0 .. MaxFaults]
          /\ \A k \in FaultKind : faults'[k] = 0 => faults[k] = 0
      BY <1>2, <1>3, <1>6, FaultWrite
    <2> QED BY <1>1, <1>6, <2>1, AppliedStep
  <1> QED BY <1>4, <1>5, <1>6 DEF Apply

-----------------------------------------------------------------------------
(* The theorems *)

LEMMA InitInv == Init => IInv
  <1> SUFFICES ASSUME Init PROVE IInv OBVIOUS
  <1>1. /\ \A r \in Run : /\ status[r] = "absent"
                          /\ input[r].state = "none" /\ input[r].target = NoRun
                          /\ loop[r].at = "none" /\ loop[r].stage = "ready"
                          /\ loop[r].sources = {}
        /\ late = {} /\ sealed = {} /\ withdrawn = {} /\ context = <<>>
    BY DEF Init, NoLoop
  <1>2. TypeOK
    <2>1. NoLoop \in Loop BY DEF NoLoop, Loop
    <2>2. [state |-> "none", target |-> NoRun] \in Input BY DEF Input
    <2>3. <<>> \in Seq(Event) OBVIOUS
    <2>4. 0 \in 0 .. MaxFaults /\ 0 \in 0 .. MaxAnswers BY BoundAssumption
    <2> QED BY <2>1, <2>2, <2>3, <2>4 DEF Init, TypeOK, Status
  <1>3. IsFiniteSet(Known)
    <2>1. Known = {} BY <1>1 DEF Known
    <2> QED BY <2>1, FS_EmptySet
  <1>4. QueueOrder BY <1>1 DEF QueueOrder, Unsent
  <1>5. DOMAIN context = {} BY <1>1
  <1>6. \A r \in Run : Listed(r) = {} BY <1>1 DEF Listed, Queued
  <1>7. ASSUME NEW r \in Run PROVE OwnInv(r) /\ TargetInv(r) /\ RecordInv(r)
    <2>1. OwnInv(r) BY <1>1 DEF OwnInv, Revoked, Queued
    <2>2. TargetInv(r)
      BY <1>1, <1>5, <1>6 DEF TargetInv, HeldInv, ReservedFor, LineInv
    <2>3. RecordInv(r) BY <1>1, <1>5 DEF RecordInv, Recorded
    <2> QED BY <2>1, <2>2, <2>3
  <1>8. MessageEntersOnce /\ SteeredInOrder BY <1>5 DEF MessageEntersOnce, SteeredInOrder
  <1> QED BY <1>2, <1>3, <1>4, <1>7, <1>8 DEF IInv

LEMMA NextInv == IInv /\ [Next]_vars => IInv'
  <1> SUFFICES ASSUME IInv, [Next]_vars PROVE IInv' OBVIOUS
  <1>1. ASSUME NEW r \in Run, LoopStep(r) PROVE IInv'
    <2>1. CASE ReleaseOwnInput(r) BY <2>1, ReleaseOwnInputStep
    <2>2. CASE RecordPrompt(r) BY <2>2, RecordPromptStep
    <2>3. CASE Load(r) BY <2>3, LoadStep
    <2>4. CASE Reserve(r) BY <2>4, ReserveStep
    <2>5. CASE Apply(r) BY <2>5, ApplyStep
    <2>6. CASE SealWindow(r) BY <2>6, SealWindowStep
    <2>7. CASE FinishRun(r) BY <2>7, EndStep DEF FinishRun
    <2>8. CASE HandOver(r) BY <2>8, HandOverStep
    <2> QED BY <1>1, <2>1, <2>2, <2>3, <2>4, <2>5, <2>6, <2>7, <2>8 DEF LoopStep
  <1>2. ASSUME NEW r \in Run,
               \/ Receive(r) \/ EnqueuePlain(r) \/ EnqueueSteer(r) \/ Withdraw(r)
               \/ Answer(r) \/ CancelRun(r) \/ Lease(r)
        PROVE  IInv'
    BY <1>2, ReceiveStep, EnqueuePlainStep, EnqueueSteerStep, WithdrawStep, AnswerStep,
       CancelRunStep, LeaseStep
  <1>3. ASSUME NEW r \in Run, ParkRun(r) PROVE IInv'
    BY <1>3, EndStep DEF ParkRun
  <1>4. ASSUME NEW r \in Run, Fail(r) PROVE IInv'
    BY <1>4, EndStep DEF Fail
  <1>5. ASSUME NEW t \in Run \cup {NoRun}, Stop(t) PROVE IInv' BY <1>5, StopStep
  <1>6. CASE UNCHANGED vars
    BY <1>6 DEF vars, IInv, TypeOK, Known, QueueOrder, Unsent, OwnInv, Revoked, Queued,
                TargetInv, HeldInv, ReservedFor, LineInv, Listed, RecordInv, Recorded,
                MessageEntersOnce, SteeredInOrder
  <1> QED BY <1>1, <1>2, <1>3, <1>4, <1>5, <1>6 DEF Next

\* The inductive invariant of the queue of a session: rows, loops and events agree.
THEOREM SteeringInvariant == Spec => []IInv
  BY InitInv, NextInv, PTL DEF Spec

\* Statuses, rows, loops and recorded events keep their types: whatever is interjected
\* names its message and the run it was given to.
THEOREM TypeCorrect == Spec => []TypeOK
  <1>1. IInv => TypeOK BY DEF IInv
  <1> QED BY <1>1, SteeringInvariant, PTL

\* If releases succeed, a message is recorded once, by applySteeringInputsAtomically or
\* by the wake that executes it.
THEOREM EntersOnce == Spec => []MessageEntersOnce
  <1>1. IInv => MessageEntersOnce BY DEF IInv
  <1> QED BY <1>1, SteeringInvariant, PTL

\* If releases succeed, the messages that steer a run enter it in the order of their
\* rows: buildAppliedSteeringEventInputs sorts a batch, and what is listed or reserved
\* later was sent later.
THEOREM EntersInOrder == Spec => []SteeredInOrder
  <1>1. IInv => SteeredInOrder BY DEF IInv
  <1> QED BY <1>1, SteeringInvariant, PTL

\* A message accepted before a stop is not injected into a run started after it:
\* enqueueUserMessage compares the two instants under the lock of the session.
THEOREM StopCovers == Spec => []StopCoversLateMessages
  <1>1. IInv => StopCoversLateMessages
    <2> SUFFICES ASSUME IInv, NEW r \in late PROVE status[r] \in {"received", "rejected"}
      BY DEF StopCoversLateMessages
    <2> QED BY DEF IInv, TypeOK, OwnInv
  <1> QED BY <1>1, SteeringInvariant, PTL

\* If releases succeed, no queued message is left behind a window that
\* trySealSteeringInputWindow closed.
THEOREM SealSafe == Spec => []SealLeavesNobodyBehind
  <1>1. IInv => SealLeavesNobodyBehind
    BY DEF IInv, TypeOK, TargetInv, LineInv, SealLeavesNobodyBehind
  <1> QED BY <1>1, SteeringInvariant, PTL

\* If no reply is lost, a run that waits for a click blocks no queued message: a loop
\* that holds a reservation applies it or hands over before it can park.
THEOREM WaitingBlocksNobody == Spec => []WaitingRunBlocksNobody
  <1>1. IInv => WaitingRunBlocksNobody
    <2> SUFFICES ASSUME IInv, faults["reply"] = 0, NEW s \in Run, status[s] = "pending",
                        SteeringBlocked(s)
                 PROVE  status[input[s].target] # "waiting"
      BY DEF WaitingRunBlocksNobody
    <2>1. CASE input[s].state = "pending" /\ AcceptsInput(input[s].target)
      BY <2>1 DEF AcceptsInput
    <2>2. CASE input[s].state = "reserved" /\ status[input[s].target] \notin Terminal
      <3>1. input[s].target \in Run BY <2>2 DEF IInv, OwnInv
      <3>2. HeldInv(input[s].target, s) BY <3>1 DEF IInv, TargetInv
      <3> QED BY <2>2, <3>2 DEF HeldInv, ReservedFor
    <2> QED BY <2>1, <2>2 DEF SteeringBlocked
  <1> QED BY <1>1, SteeringInvariant, PTL

\* A message that was withdrawn or stopped is not given to the model afterwards, even if
\* a loop had listed or reserved it.
THEOREM RevokedStaysOut == Spec => RevokedMessageStaysOut
  <1>1. IInv /\ [Next]_vars =>
          [\A i \in DOMAIN context' : i \notin DOMAIN context => ~Revoked(context'[i].msg)]_vars
    <2> SUFFICES ASSUME IInv, Next, NEW i \in DOMAIN context', i \notin DOMAIN context
                 PROVE  ~Revoked(context'[i].msg)
      OBVIOUS
    <2>1. TypeOK /\ context \in Seq(Event) BY DEF IInv, TypeOK
    <2>2. \E r \in Run : \/ RecordPrompt(r)
                         \/ loop[r].stage = "held" /\ Applied(r, Appliable(r))
      <3>1. context' # context OBVIOUS
      <3> QED BY <3>1 DEF Next, Receive, EnqueuePlain, EnqueueSteer, Withdraw, Answer,
                CancelRun, Lease, LoopStep, ReleaseOwnInput, Load, Reserve, Apply, SealWindow,
                FinishRun, HandOver, ParkRun, Fail, Stop
    <2>3. PICK r \in Run : \/ RecordPrompt(r)
                           \/ loop[r].stage = "held" /\ Applied(r, Appliable(r))
      BY <2>2
    <2>4. OwnInv(r) BY DEF IInv
    <2>5. CASE RecordPrompt(r)
      <3> DEFINE e == [msg |-> r, by |-> r]
      <3>1. e \in Event /\ e.msg = r BY DEF Event
      <3>2. loop[r].at = "prompt" /\ context' = Append(context, e)
        BY <2>5 DEF RecordPrompt
      <3> HIDE DEF e
      <3>3. context'[i] = e
        <4>1. DOMAIN context = 1 .. Len(context) /\ Len(context) \in Nat
          BY <2>1, LenProperties
        <4>2. /\ context' \in Seq(Event) /\ Len(context') = Len(context) + 1
              /\ context'[Len(context) + 1] = e
          BY <2>1, <3>1, <3>2, AppendProperties
        <4>3. DOMAIN context' = 1 .. Len(context) + 1 BY <4>2, LenProperties
        <4>4. i = Len(context) + 1 BY <4>1, <4>3
        <4> QED BY <4>2, <4>4
      <3> QED BY <2>4, <3>1, <3>2, <3>3 DEF OwnInv
    <2>6. CASE loop[r].stage = "held" /\ Applied(r, Appliable(r))
      <3>S. PICK S : S = Appliable(r) OBVIOUS
      <3>E. PICK E : E = Interjections(r, S) OBVIOUS
      <3>1. S \in SUBSET Run /\ \A s \in S : status[s] = "pending"
        <4>1. loop[r] \in Loop BY <2>1 DEF TypeOK
        <4> QED BY <3>S, <4>1 DEF Appliable, Loop
      <3>2. E \in Seq(Event) /\ \A k \in DOMAIN E : E[k].msg \in S
        BY <3>E, <3>1, InterjectionFacts
      <3>3. context' = context \o E BY <2>6, <3>S, <3>E DEF Applied
      <3>4. \E k \in DOMAIN E : context'[i] = E[k] BY <2>1, <3>2, <3>3, Extension
      <3>5. context'[i].msg \in S BY <3>2, <3>4
      <3>6. \A s \in S : ~Revoked(s) BY <3>1 DEF IInv, OwnInv
      <3> QED BY <3>5, <3>6
    <2> QED BY <2>3, <2>5, <2>6
  <1> QED BY <1>1, SteeringInvariant, PTL DEF Spec, RevokedMessageStaysOut

=============================================================================
