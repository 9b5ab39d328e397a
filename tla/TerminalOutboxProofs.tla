------------------------ MODULE TerminalOutboxProofs ------------------------
(***************************************************************************)
(* Safety of TerminalOutbox for any number of runs and tasks, any claim    *)
(* time, backoff and clock skew, and any number of failures.               *)
(***************************************************************************)
EXTENDS TerminalOutbox, TLAPS

Delivering(t) == job[t].at \notin {"idle", "announce"}

\* A run has one delivery at most, opened after or with its verdict and never before.
OneDelivery(r) ==
  /\ outbox[r].state = "none" => outbox[r].id = 0
  /\ outbox[r].state # "none"
       => outbox[r].id = 1 /\ status[r] \in Verdict /\ outbox[r].verdict = status[r]

\* The terminal events in the event store are those of that delivery.
LogIsFaithful(r) ==
  /\ \A i, j \in DOMAIN log[r] : log[r][i].id # 0 /\ log[r][j].id # 0 => i = j
  /\ \A i \in DOMAIN log[r] : log[r][i].id # 0 =>
       /\ outbox[r].state # "none"
       /\ log[r][i].id = outbox[r].id
       /\ log[r][i].status = status[r]

DeliveredIsStored(r) == outbox[r].state = "delivered" => Published(r, outbox[r].id)

RunInv(r) == OneDelivery(r) /\ LogIsFaithful(r) /\ DeliveredIsStored(r)

\* A task that delivers works on the delivery of its run, whether or not it still has
\* the claim; past the append the events are stored; only runs without a tenant are
\* rejected.
JobInv(t) ==
  /\ Delivering(t) =>
       /\ outbox[job[t].run].state # "none"
       /\ job[t].id = outbox[job[t].run].id
       /\ job[t].status = status[job[t].run]
  /\ job[t].at \in {"confirm", "finish"} => Published(job[t].run, job[t].id)
  /\ job[t].at = "reject" => job[t].run \in Unresolvable

IInv == TypeOK /\ (\A r \in Run : RunInv(r)) /\ (\A t \in Task : JobInv(t))

-----------------------------------------------------------------------------
(* What a step writes *)

LEMMA IdleJobType == IdleJob \in Job /\ IdleJob.at = "idle"
  <1>1. (CHOOSE r \in Run : TRUE) \in Run BY TaskAssumption
  <1>2. 0 \in 0 .. MaxDeliveries BY BoundAssumption
  <1> QED BY <1>1, <1>2 DEF IdleJob, Job, Active

LEMMA FaultType ==
  ASSUME TypeOK, Fault
  PROVE  faults' \in 0 .. MaxFaults
  BY BoundAssumption DEF TypeOK, Fault

\* A task takes its next step; the others stay where they are.
LEMMA GoType ==
  ASSUME TypeOK, NEW t \in Task, NEW a, [job[t] EXCEPT !.at = a] \in Job, Go(t, a)
  PROVE  /\ job' \in [Task -> Job]
         /\ job'[t].at = a /\ job'[t].run = job[t].run
         /\ job'[t].id = job[t].id /\ job'[t].status = job[t].status
         /\ \A u \in Task : u # t => job'[u] = job[u]
  BY DEF Go, TypeOK, Job

LEMMA DoneType ==
  ASSUME TypeOK, NEW t \in Task, Done(t)
  PROVE  /\ job' \in [Task -> Job]
         /\ job'[t].at = "idle"
         /\ \A u \in Task : u # t => job'[u] = job[u]
  BY IdleJobType DEF Done, TypeOK

\* A step that leaves the delivery of a run, if there is one, what it is
KeepsDelivery(r) ==
  outbox[r].state # "none" =>
    /\ outbox'[r].state # "none"
    /\ outbox'[r].id = outbox[r].id
    /\ status'[r] = status[r]
    /\ \A n \in 0 .. MaxDeliveries : Published(r, n) => Published(r, n)'

\* A step that at most settles it
Settles(r) ==
  /\ outbox'[r].id = outbox[r].id
  /\ outbox'[r].verdict = outbox[r].verdict
  /\ outbox'[r].state = "none" <=> outbox[r].state = "none"
  /\ outbox'[r].state = "delivered"
       => outbox[r].state = "delivered" \/ Published(r, outbox[r].id)
  /\ status'[r] = status[r]
  /\ log'[r] = log[r]

LEMMA SettlesRunInv ==
  ASSUME IInv, NEW r \in Run, Settles(r)
  PROVE  RunInv(r)' /\ KeepsDelivery(r)
  <1>1. RunInv(r) BY DEF IInv
  <1> QED
    BY <1>1 DEF RunInv, OneDelivery, LogIsFaithful, DeliveredIsStored, Published, Settles,
         KeepsDelivery

LEMMA KeptRunSettles ==
  ASSUME NEW r \in Run, outbox'[r] = outbox[r], status'[r] = status[r], log'[r] = log[r]
  PROVE  Settles(r)
  BY DEF Settles

\* A task that rests, or goes on with the delivery it has.
LEMMA KeepsJobInv ==
  ASSUME IInv, NEW t \in Task, KeepsDelivery(job[t].run),
         \/ job'[t] = job[t]
         \/ job'[t].at \in {"idle", "announce"}
         \/ /\ Delivering(t)
            /\ job'[t].run = job[t].run /\ job'[t].id = job[t].id
            /\ job'[t].status = job[t].status
            /\ job'[t].at \in {"confirm", "finish"} => Published(job[t].run, job[t].id)'
            /\ job'[t].at # "reject"
  PROVE  JobInv(t)'
  <1>1. JobInv(t) /\ job[t].id \in 0 .. MaxDeliveries BY DEF IInv, TypeOK, Job
  <1>2. CASE job'[t] = job[t]
    BY <1>1, <1>2 DEF JobInv, Delivering, KeepsDelivery
  <1>3. CASE job'[t].at \in {"idle", "announce"}
    BY <1>3 DEF JobInv, Delivering
  <1>4. CASE /\ Delivering(t)
             /\ job'[t].run = job[t].run /\ job'[t].id = job[t].id
             /\ job'[t].status = job[t].status
             /\ job'[t].at \in {"confirm", "finish"} => Published(job[t].run, job[t].id)'
             /\ job'[t].at # "reject"
    BY <1>1, <1>4 DEF JobInv, Delivering, KeepsDelivery, Published
  <1> QED BY <1>2, <1>3, <1>4

LEMMA InitInv == Init => IInv
  <1> SUFFICES ASSUME Init PROVE IInv OBVIOUS
  <1>1. NoOutbox \in Outbox /\ NoOutbox.state = "none" /\ NoOutbox.id = 0
        /\ NoOutbox.token = NoTask
    <2>1. 0 \in 0 .. MaxDeliveries /\ 0 \in 0 .. MaxAge
      BY BoundAssumption DEF MaxAge
    <2> QED BY <2>1 DEF NoOutbox, Outbox, Active
  <1>2. TypeOK
    BY <1>1, IdleJobType, TaskAssumption, BoundAssumption DEF Init, TypeOK, Active
  <1>3. ASSUME NEW r \in Run PROVE RunInv(r)
    <2>1. log[r] = << >> /\ outbox[r] = NoOutbox BY DEF Init
    <2>2. DOMAIN log[r] = {} BY <2>1
    <2> QED BY <1>1, <2>1, <2>2 DEF RunInv, OneDelivery, LogIsFaithful, DeliveredIsStored
  <1>4. \A t \in Task : JobInv(t)
    BY IdleJobType DEF Init, JobInv, Delivering
  <1> QED BY <1>2, <1>3, <1>4 DEF IInv

-----------------------------------------------------------------------------
(* Verdicts *)

\* An undecided run has no delivery, and nobody works on one.
LEMMA UndecidedIsQuiet ==
  ASSUME IInv, NEW r \in Run, status[r] \in Active \/ outbox[r].state = "none"
  PROVE  /\ outbox[r].state = "none" /\ outbox[r].id = 0
         /\ \A i \in DOMAIN log[r] : log[r][i].id = 0
         /\ \A t \in Task : job[t].run = r => ~Delivering(t)
  <1>1. RunInv(r) BY DEF IInv
  <1>2. outbox[r].state = "none"
    BY <1>1, VerdictAssumption DEF RunInv, OneDelivery, Active
  <1> QED BY <1>1, <1>2 DEF IInv, RunInv, OneDelivery, LogIsFaithful, JobInv

\* A new verdict of an undecided run, with or without a delivery, or a new status.
LEMMA DecidesInv ==
  ASSUME IInv, NEW r \in Run, outbox[r].state = "none",
         TypeOK', UNCHANGED log,
         \A q \in Run : q # r => outbox'[q] = outbox[q] /\ status'[q] = status[q],
         \/ outbox'[r] = outbox[r]
         \/ /\ outbox'[r].state = "delivering" /\ outbox'[r].id = 1
            /\ status'[r] \in Verdict /\ outbox'[r].verdict = status'[r]
  PROVE  (\A q \in Run : RunInv(q)') /\ (\A q \in Run : KeepsDelivery(q))
  <1>1. ASSUME NEW q \in Run, q # r PROVE RunInv(q)' /\ KeepsDelivery(q)
    BY <1>1, KeptRunSettles, SettlesRunInv
  <1>2. /\ outbox[r].id = 0
        /\ \A i \in DOMAIN log[r] : log[r][i].id = 0
    BY UndecidedIsQuiet
  <1>3. RunInv(r)'
    BY <1>2 DEF RunInv, OneDelivery, LogIsFaithful, DeliveredIsStored
  <1>4. KeepsDelivery(r) BY DEF KeepsDelivery
  <1> QED BY <1>1, <1>3, <1>4

LEMMA OpenOutboxInv ==
  ASSUME IInv, NEW t \in Task, NEW r \in Run, NEW v \in Verdict, Idle(t),
         outbox[r].state = "none", OpenOutbox(t, r, v),
         status' \in [Run -> Active \cup Verdict], status'[r] = v,
         \A q \in Run : q # r => status'[q] = status[q],
         UNCHANGED <<reaped, log, notes, faults>>
  PROVE  IInv'
  <1> DEFINE new == [state |-> "delivering", id |-> outbox[r].id + 1, verdict |-> v,
                     token |-> t, age |-> 0]
  <1> DEFINE next == [at |-> "begin", run |-> r, id |-> outbox[r].id + 1, status |-> v]
  <1>1. TypeOK /\ outbox[r].id = 0 BY UndecidedIsQuiet DEF IInv
  <1>2. outbox[r].id + 1 = 1 /\ 1 \in 0 .. MaxDeliveries /\ 0 \in 0 .. MaxAge
    BY <1>1, BoundAssumption DEF OpenOutbox, MaxAge
  <1>3. new \in Outbox /\ next \in Job BY <1>2 DEF Outbox, Job
  <1>4. /\ outbox' = [outbox EXCEPT ![r] = new] /\ job' = [job EXCEPT ![t] = next]
    BY DEF OpenOutbox
  <1>5. /\ outbox' \in [Run -> Outbox] /\ job' \in [Task -> Job]
        /\ outbox'[r] = new /\ job'[t] = next
        /\ \A q \in Run : q # r => outbox'[q] = outbox[q]
        /\ \A u \in Task : u # t => job'[u] = job[u]
    BY <1>1, <1>3, <1>4 DEF TypeOK
  <1>6. TypeOK'
    <2>1. new.state = "delivering" /\ new.token \in Task OBVIOUS
    <2> HIDE DEF new, next
    <2>2. \A q \in Run : outbox'[q].state = "delivering" <=> outbox'[q].token \in Task
      BY <1>1, <1>5, <2>1 DEF TypeOK
    <2> QED BY <1>1, <1>5, <2>2 DEF TypeOK
  <1>7. (\A q \in Run : RunInv(q)') /\ (\A q \in Run : KeepsDelivery(q))
    BY <1>2, <1>5, <1>6, DecidesInv
  <1>8. ASSUME NEW u \in Task, u # t PROVE JobInv(u)'
    <2>1. job[u].run \in Run BY <1>1 DEF TypeOK, Job
    <2> QED BY <1>5, <1>7, <1>8, <2>1, KeepsJobInv
  <1>9. JobInv(t)' BY <1>5 DEF JobInv, Delivering
  <1> QED BY <1>6, <1>7, <1>8, <1>9 DEF IInv

LEMMA FinalizeInv ==
  ASSUME IInv, NEW t \in Task, NEW r \in Run, NEW v \in Verdict, Finalize(t, r, v)
  PROVE  IInv'
  <1>1. outbox[r].state = "none" BY UndecidedIsQuiet DEF Finalize
  <1>2. /\ status' \in [Run -> Active \cup Verdict] /\ status'[r] = v
        /\ \A q \in Run : q # r => status'[q] = status[q]
    BY DEF Finalize, IInv, TypeOK
  <1> QED BY <1>1, <1>2, OpenOutboxInv DEF Finalize

LEMMA ClaimStateOnlyInv ==
  ASSUME IInv, NEW t \in Task, NEW r \in Run, ClaimStateOnly(t, r)
  PROVE  IInv'
  <1>1. status[r] \in Verdict /\ status' \in [Run -> Active \cup Verdict]
    BY DEF ClaimStateOnly, IInv, TypeOK
  <1> QED BY <1>1, OpenOutboxInv DEF ClaimStateOnly

\* A status that is written without a delivery
LEMMA StatusInv ==
  ASSUME IInv, NEW r \in Run, NEW s \in Active \cup Verdict, status[r] \in Active,
         status' = [status EXCEPT ![r] = s], reaped' \in [Run -> BOOLEAN],
         job' \in [Task -> Job], notes' \in [Run -> 0 .. MaxNotes],
         \A t \in Task : job'[t] = job[t] \/ job'[t].at = "announce",
         UNCHANGED <<outbox, log, faults>>
  PROVE  IInv'
  <1>1. TypeOK /\ outbox[r].state = "none" BY UndecidedIsQuiet DEF IInv
  <1>2. TypeOK' BY <1>1 DEF TypeOK
  <1>3. \A q \in Run : q # r => outbox'[q] = outbox[q] /\ status'[q] = status[q]
    BY <1>1 DEF TypeOK
  <1>4. (\A q \in Run : RunInv(q)') /\ (\A q \in Run : KeepsDelivery(q))
    BY <1>1, <1>2, <1>3, DecidesInv
  <1>5. ASSUME NEW t \in Task PROVE JobInv(t)'
    <2>1. job[t].run \in Run BY <1>1 DEF TypeOK, Job
    <2> QED BY <1>4, <2>1, KeepsJobInv
  <1> QED BY <1>2, <1>4, <1>5 DEF IInv

LEMMA ReapInv ==
  ASSUME IInv, NEW r \in Run, Reap(r)
  PROVE  IInv'
  <1>1. "orphaned" \in Verdict BY VerdictAssumption
  <1> QED BY <1>1, StatusInv DEF Reap, IInv, TypeOK, Active

LEMMA CancelStateOnlyInv ==
  ASSUME IInv, NEW r \in Run, CancelStateOnly(r)
  PROVE  IInv'
  <1>1. "cancelled" \in Verdict BY VerdictAssumption
  <1> QED BY <1>1, StatusInv DEF CancelStateOnly, IInv, TypeOK

LEMMA MarkStateInv ==
  ASSUME IInv, NEW t \in Task, NEW r \in Run, NEW s \in Active, MarkState(t, r, s)
  PROVE  IInv'
  <1> DEFINE next == [at |-> "announce", run |-> r, id |-> 0, status |-> s]
  <1>1. TypeOK BY DEF IInv
  <1>2. next \in Job BY BoundAssumption DEF Job
  <1>3. /\ job' \in [Task -> Job]
        /\ \A u \in Task : job'[u] = job[u] \/ job'[u].at = "announce"
    BY <1>1, <1>2 DEF MarkState, TypeOK
  <1>4. notes' \in [Run -> 0 .. MaxNotes] /\ reaped' \in [Run -> BOOLEAN]
    BY <1>1, BoundAssumption DEF MarkState, TypeOK
  <1> QED BY <1>3, <1>4, StatusInv DEF MarkState

-----------------------------------------------------------------------------
(* The claim *)

\* The claim of a delivery changes hands, is renewed, or ends with the delivery.
LEMMA SettleStepInv ==
  ASSUME IInv, NEW r \in Run, NEW o \in Outbox,
         outbox[r].state # "none", o.state # "none",
         o.id = outbox[r].id, o.verdict = outbox[r].verdict,
         o.state = "delivering" <=> o.token \in Task,
         o.state = "delivered" => Published(r, outbox[r].id),
         outbox' = [outbox EXCEPT ![r] = o],
         job' \in [Task -> Job], faults' \in 0 .. MaxFaults,
         UNCHANGED <<status, reaped, log, notes>>
  PROVE  TypeOK' /\ (\A q \in Run : RunInv(q)') /\ (\A q \in Run : KeepsDelivery(q))
  <1>1. TypeOK BY DEF IInv
  <1>2. /\ outbox' \in [Run -> Outbox] /\ outbox'[r] = o
        /\ \A q \in Run : q # r => outbox'[q] = outbox[q]
    BY <1>1 DEF TypeOK
  <1>3. TypeOK' BY <1>1, <1>2 DEF TypeOK
  <1>4. ASSUME NEW q \in Run PROVE Settles(q)
    <2>1. CASE q = r BY <1>2, <2>1 DEF Settles
    <2>2. CASE q # r BY <1>2, <2>2, KeptRunSettles
    <2> QED BY <2>1, <2>2
  <1> QED BY <1>3, <1>4, SettlesRunInv

\* Nothing but a task or the count of failures changes.
LEMMA JobStepInv ==
  ASSUME IInv, job' \in [Task -> Job], faults' \in 0 .. MaxFaults,
         UNCHANGED <<status, reaped, outbox, log, notes>>
  PROVE  TypeOK' /\ (\A q \in Run : RunInv(q)') /\ (\A q \in Run : KeepsDelivery(q))
  <1>1. TypeOK' BY DEF IInv, TypeOK
  <1>2. \A q \in Run : Settles(q) BY KeptRunSettles
  <1> QED BY <1>1, <1>2, SettlesRunInv

\* A step of one task that keeps every delivery.
LEMMA OneTaskInv ==
  ASSUME IInv, NEW t \in Task, TypeOK', \A q \in Run : RunInv(q)',
         \A q \in Run : KeepsDelivery(q),
         \A u \in Task : u # t => job'[u] = job[u], JobInv(t)'
  PROVE  IInv'
  <1>1. ASSUME NEW u \in Task, u # t PROVE JobInv(u)'
    <2>1. job[u].run \in Run BY DEF IInv, TypeOK, Job
    <2> QED BY <1>1, <2>1, KeepsJobInv
  <1> QED BY <1>1 DEF IInv

LEMMA ClaimInv ==
  ASSUME IInv, NEW t \in Task, NEW r \in Run, NEW lag \in 0 .. ScanLag, Claim(t, r, lag)
  PROVE  IInv'
  <1> DEFINE o == [outbox[r] EXCEPT !.state = "delivering", !.token = t, !.age = lag]
  <1> DEFINE next == [at |-> "probe", run |-> r, id |-> outbox[r].id,
                      status |-> outbox[r].verdict]
  <1>1. TypeOK /\ outbox[r] \in Outbox /\ outbox[r].state # "none"
    BY DEF IInv, TypeOK, Claim, Claimable
  <1>2. lag \in 0 .. MaxAge BY BoundAssumption DEF MaxAge
  <1>3. /\ o \in Outbox /\ o.state = "delivering" /\ o.token = t
        /\ o.id = outbox[r].id /\ o.verdict = outbox[r].verdict
    BY <1>1, <1>2 DEF Outbox
  <1>4. next \in Job BY <1>1 DEF Outbox, Job
  <1>5. /\ job' \in [Task -> Job] /\ job'[t] = next
        /\ \A u \in Task : u # t => job'[u] = job[u]
    BY <1>1, <1>4 DEF Claim, TypeOK
  <1>6. outbox' = [outbox EXCEPT ![r] = o] /\ outbox'[r] = o
    BY <1>1 DEF Claim, TypeOK
  <1>7. TypeOK' /\ (\A q \in Run : RunInv(q)') /\ (\A q \in Run : KeepsDelivery(q))
    <2> HIDE DEF o, next
    <2>1. faults' \in 0 .. MaxFaults /\ UNCHANGED <<status, reaped, log, notes>>
      BY <1>1 DEF Claim, TypeOK
    <2> QED BY <1>1, <1>3, <1>5, <1>6, <2>1, SettleStepInv
  <1>8. JobInv(t)'
    <2>1. outbox[r].verdict = status[r] /\ status' = status BY DEF Claim
    <2> HIDE DEF o
    <2> QED BY <1>3, <1>5, <1>6, <2>1 DEF JobInv, Delivering
  <1> QED BY <1>5, <1>7, <1>8, OneTaskInv

LEMMA ListUnresolvableInv ==
  ASSUME IInv, NEW t \in Task, NEW r \in Run, ListUnresolvable(t, r)
  PROVE  IInv'
  <1> DEFINE next == [at |-> "reject", run |-> r, id |-> outbox[r].id,
                      status |-> outbox[r].verdict]
  <1>1. TypeOK /\ outbox[r] \in Outbox /\ outbox[r].state # "none"
    BY DEF IInv, TypeOK, ListUnresolvable, Claimable
  <1>2. next \in Job BY <1>1 DEF Outbox, Job
  <1>3. /\ job' \in [Task -> Job] /\ job'[t] = next
        /\ \A u \in Task : u # t => job'[u] = job[u]
    BY <1>1, <1>2 DEF ListUnresolvable, TypeOK
  <1>4. TypeOK' /\ (\A q \in Run : RunInv(q)') /\ (\A q \in Run : KeepsDelivery(q))
    BY <1>1, <1>3, JobStepInv DEF ListUnresolvable, TypeOK
  <1>5. JobInv(t)' BY <1>1, <1>3 DEF JobInv, Delivering, ListUnresolvable
  <1> QED BY <1>3, <1>4, <1>5, OneTaskInv

\* What the rejection of a run without a tenant writes, if anything
LEMMA RejectOutbox ==
  ASSUME IInv, NEW t \in Task, Reject(t), ~UNCHANGED outbox
  PROVE  LET r == job[t].run
         IN  /\ r \in Run /\ outbox[r].state # "none"
             /\ \E o \in Outbox :
                  /\ o.state = "rejected" /\ o.token = NoTask
                  /\ o.id = outbox[r].id /\ o.verdict = outbox[r].verdict
                  /\ outbox' = [outbox EXCEPT ![r] = o]
  <1> DEFINE r == job[t].run
  <1> DEFINE o == [outbox[r] EXCEPT !.state = "rejected", !.token = NoTask, !.age = 0]
  <1>1. TypeOK /\ r \in Run BY DEF IInv, TypeOK, Job
  <1>2. outbox[r] \in Outbox BY <1>1 DEF TypeOK
  <1>3. outbox[r].state # "none" BY DEF IInv, JobInv, Delivering, Reject
  <1>4. 0 \in 0 .. MaxAge BY BoundAssumption DEF MaxAge
  <1>5. /\ o \in Outbox /\ o.state = "rejected" /\ o.token = NoTask
        /\ o.id = outbox[r].id /\ o.verdict = outbox[r].verdict
    BY <1>2, <1>4 DEF Outbox
  <1>6. outbox' = [outbox EXCEPT ![r] = o] BY DEF Reject
  <1> QED BY <1>1, <1>3, <1>5, <1>6

LEMMA RejectInv ==
  ASSUME IInv, NEW t \in Task, Reject(t)
  PROVE  IInv'
  <1>1. TypeOK /\ job[t].run \in Run BY DEF IInv, TypeOK, Job
  <1>2. /\ job' \in [Task -> Job] /\ job'[t].at = "idle"
        /\ \A u \in Task : u # t => job'[u] = job[u]
    BY <1>1, DoneType DEF Reject
  <1>3. faults' \in 0 .. MaxFaults /\ UNCHANGED <<status, reaped, log, notes>>
    BY <1>1 DEF Reject, TypeOK
  <1>4. TypeOK' /\ (\A q \in Run : RunInv(q)') /\ (\A q \in Run : KeepsDelivery(q))
    <2>1. CASE UNCHANGED outbox BY <1>2, <1>3, <2>1, JobStepInv
    <2>2. CASE ~UNCHANGED outbox
      <3>1. PICK o \in Outbox :
              /\ o.state = "rejected" /\ o.token = NoTask
              /\ o.id = outbox[job[t].run].id /\ o.verdict = outbox[job[t].run].verdict
              /\ outbox' = [outbox EXCEPT ![job[t].run] = o]
        BY <2>2, RejectOutbox
      <3>2. outbox[job[t].run].state # "none" BY <2>2, RejectOutbox
      <3> QED BY <1>1, <1>2, <1>3, <3>1, <3>2, TaskAssumption, SettleStepInv
    <2> QED BY <2>1, <2>2
  <1>5. JobInv(t)' BY <1>1, <1>2, <1>4, KeepsJobInv
  <1> QED BY <1>2, <1>4, <1>5, OneTaskInv

\* A renewal changes the age of the claim alone.
LEMMA RenewedInv ==
  ASSUME IInv, NEW t \in Task, Holds(t), Renewed(t), job' \in [Task -> Job],
         faults' \in 0 .. MaxFaults, UNCHANGED <<status, reaped, log, notes>>
  PROVE  TypeOK' /\ (\A q \in Run : RunInv(q)') /\ (\A q \in Run : KeepsDelivery(q))
  <1> DEFINE r == job[t].run
  <1> DEFINE o == [outbox[r] EXCEPT !.age = 0]
  <1>1. TypeOK /\ r \in Run BY DEF IInv, TypeOK, Job
  <1>2. outbox[r] \in Outbox /\ outbox[r].state = "delivering" /\ outbox[r].token \in Task
    BY <1>1 DEF TypeOK, Holds
  <1>3. 0 \in 0 .. MaxAge BY BoundAssumption DEF MaxAge
  <1>4. /\ o \in Outbox /\ o.state = "delivering" /\ o.token \in Task
        /\ o.id = outbox[r].id /\ o.verdict = outbox[r].verdict
    BY <1>2, <1>3 DEF Outbox
  <1>5. outbox' = [outbox EXCEPT ![r] = o] BY <1>1 DEF Renewed, TypeOK
  <1> HIDE DEF r, o
  <1> QED BY <1>1, <1>2, <1>4, <1>5, SettleStepInv

LEMMA HeartbeatInv ==
  ASSUME IInv, NEW t \in Task, Heartbeat(t)
  PROVE  IInv'
  <1>1. TypeOK /\ job[t].run \in Run BY DEF IInv, TypeOK, Job
  <1>2. TypeOK' /\ (\A q \in Run : RunInv(q)') /\ (\A q \in Run : KeepsDelivery(q))
    BY <1>1, RenewedInv DEF Heartbeat, Keeps, TypeOK
  <1>3. JobInv(t)' BY <1>1, <1>2, KeepsJobInv DEF Heartbeat
  <1> QED BY <1>2, <1>3, OneTaskInv DEF Heartbeat

LEMMA AssertAndRenewInv ==
  ASSUME IInv, NEW t \in Task, AssertAndRenew(t)
  PROVE  IInv'
  <1>1. TypeOK /\ job[t] \in Job /\ job[t].run \in Run BY DEF IInv, TypeOK, Job
  <1>2. job[t].at \in {"probe", "begin", "confirm"} BY DEF AssertAndRenew, Renews
  <1>3. faults' \in 0 .. MaxFaults BY <1>1, FaultType DEF AssertAndRenew, TypeOK
  <1>4. CASE Go(t, Renews[job[t].at])
    <2> DEFINE a == Renews[job[t].at]
    <2>1. a \in {"check", "append", "finish"} /\ (a = "finish" <=> job[t].at = "confirm")
      BY <1>2 DEF Renews
    <2>2. [job[t] EXCEPT !.at = a] \in Job
      <3> HIDE DEF a
      <3> QED BY <1>1, <2>1 DEF Job
    <2> HIDE DEF a
    <2>3. Go(t, a) BY <1>4 DEF a
    <2>4. /\ job' \in [Task -> Job]
          /\ job'[t].at = a /\ job'[t].run = job[t].run
          /\ job'[t].id = job[t].id /\ job'[t].status = job[t].status
          /\ \A u \in Task : u # t => job'[u] = job[u]
      BY <1>1, <2>2, <2>3, GoType
    <2>5. \/ Holds(t) /\ Renewed(t)
          \/ UNCHANGED outbox
      BY DEF AssertAndRenew
    <2>6. TypeOK' /\ (\A q \in Run : RunInv(q)') /\ (\A q \in Run : KeepsDelivery(q))
      BY <1>3, <2>4, <2>5, RenewedInv, JobStepInv DEF AssertAndRenew
    <2>7. a = "finish" => Published(job[t].run, job[t].id)'
      BY <1>1, <2>1, <2>4 DEF IInv, JobInv, Published, AssertAndRenew
    <2>8. JobInv(t)'
      BY <1>1, <1>2, <2>1, <2>4, <2>6, <2>7, KeepsJobInv DEF Delivering
    <2> QED BY <2>4, <2>6, <2>8, OneTaskInv
  <1>5. CASE Done(t)
    <2>1. /\ job' \in [Task -> Job] /\ job'[t].at = "idle"
          /\ \A u \in Task : u # t => job'[u] = job[u]
      BY <1>1, <1>5, DoneType
    <2>2. \/ Holds(t) /\ Renewed(t)
          \/ UNCHANGED outbox
      BY DEF AssertAndRenew
    <2>3. TypeOK' /\ (\A q \in Run : RunInv(q)') /\ (\A q \in Run : KeepsDelivery(q))
      BY <1>3, <2>1, <2>2, RenewedInv, JobStepInv DEF AssertAndRenew
    <2>4. JobInv(t)' BY <1>1, <2>1, <2>3, KeepsJobInv
    <2> QED BY <2>1, <2>3, <2>4, OneTaskInv
  <1> QED BY <1>4, <1>5 DEF AssertAndRenew

-----------------------------------------------------------------------------
(* Delivery *)

LEMMA CheckInv ==
  ASSUME IInv, NEW t \in Task, Check(t)
  PROVE  IInv'
  <1>1. TypeOK /\ job[t] \in Job /\ job[t].run \in Run BY DEF IInv, TypeOK, Job
  <1>2. faults' \in 0 .. MaxFaults BY <1>1, FaultType DEF Check, TypeOK
  <1>3. PICK a \in {"confirm", "begin", "giveup"} :
          Go(t, a) /\ (a = "confirm" => Published(job[t].run, job[t].id))
    BY DEF Check
  <1>4. [job[t] EXCEPT !.at = a] \in Job BY <1>1 DEF Job
  <1>5. /\ job' \in [Task -> Job]
        /\ job'[t].at = a /\ job'[t].run = job[t].run
        /\ job'[t].id = job[t].id /\ job'[t].status = job[t].status
        /\ \A u \in Task : u # t => job'[u] = job[u]
    BY <1>1, <1>3, <1>4, GoType
  <1>6. TypeOK' /\ (\A q \in Run : RunInv(q)') /\ (\A q \in Run : KeepsDelivery(q))
    BY <1>2, <1>5, JobStepInv DEF Check
  <1>7. a = "confirm" => Published(job[t].run, job[t].id)'
    BY <1>3, <1>5 DEF Published, Check
  <1>8. JobInv(t)'
    BY <1>1, <1>5, <1>6, <1>7, KeepsJobInv DEF Delivering, Check
  <1> QED BY <1>5, <1>6, <1>8, OneTaskInv

\* The event store keeps what it has and adds the events of a delivery once.
LEMMA StoredType ==
  ASSUME TypeOK, NEW r \in Run, NEW n \in 0 .. MaxDeliveries,
         NEW v \in Active \cup Verdict
  PROVE  LET s == Stored(r, n, v)
         IN  /\ s \in Seq(Event)
             /\ \A i \in DOMAIN log[r] : i \in DOMAIN s /\ s[i] = log[r][i]
             /\ \A i \in DOMAIN s :
                  \/ i \in DOMAIN log[r]
                  \/ ~Published(r, n) /\ i = Len(log[r]) + 1 /\ s[i].id = n /\ s[i].status = v
             /\ \E i \in DOMAIN s : s[i].id = n
  <1> DEFINE e == [status |-> v, id |-> n]
  <1>1. log[r] \in Seq(Event) /\ e \in Event BY DEF TypeOK, Event
  <1>2. CASE Published(r, n) BY <1>1, <1>2 DEF Stored, Published
  <1>3. CASE ~Published(r, n)
    <2>1. Stored(r, n, v) = Append(log[r], e) BY <1>3 DEF Stored
    <2>2. e.id = n /\ e.status = v OBVIOUS
    <2> HIDE DEF e
    <2>3. /\ Append(log[r], e) \in Seq(Event)
          /\ Len(Append(log[r], e)) = Len(log[r]) + 1
          /\ DOMAIN Append(log[r], e) = 1 .. Len(log[r]) + 1
          /\ DOMAIN log[r] = 1 .. Len(log[r]) /\ Len(log[r]) \in Nat
          /\ \A i \in 1 .. Len(log[r]) : Append(log[r], e)[i] = log[r][i]
          /\ Append(log[r], e)[Len(log[r]) + 1] = e
      BY <1>1
    <2> QED BY <1>3, <2>1, <2>2, <2>3
  <1> QED BY <1>2, <1>3

\* The events of the run's own delivery are stored.
LEMMA StoreStepInv ==
  ASSUME IInv, NEW t \in Task, Delivering(t), job' \in [Task -> Job],
         NEW r \in Run, NEW n \in 0 .. MaxDeliveries, NEW v \in Active \cup Verdict,
         r = job[t].run, n = job[t].id, v = job[t].status,
         log' = [log EXCEPT ![r] = Stored(r, n, v)],
         faults' \in 0 .. MaxFaults, UNCHANGED <<status, reaped, outbox, notes>>
  PROVE  /\ TypeOK' /\ (\A q \in Run : RunInv(q)') /\ (\A q \in Run : KeepsDelivery(q))
         /\ Published(r, n)'
  <1>1. TypeOK BY DEF IInv
  <1>2. PICK s \in Seq(Event) :
          /\ s = Stored(r, n, v)
          /\ \A i \in DOMAIN log[r] : i \in DOMAIN s /\ s[i] = log[r][i]
          /\ \A i \in DOMAIN s :
               \/ i \in DOMAIN log[r]
               \/ ~Published(r, n) /\ i = Len(log[r]) + 1 /\ s[i].id = n /\ s[i].status = v
          /\ \E i \in DOMAIN s : s[i].id = n
    <2> DEFINE s == Stored(r, n, v)
    <2>1. /\ s \in Seq(Event)
          /\ \A i \in DOMAIN log[r] : i \in DOMAIN s /\ s[i] = log[r][i]
          /\ \A i \in DOMAIN s :
               \/ i \in DOMAIN log[r]
               \/ ~Published(r, n) /\ i = Len(log[r]) + 1 /\ s[i].id = n /\ s[i].status = v
          /\ \E i \in DOMAIN s : s[i].id = n
      BY <1>1, StoredType
    <2>2. s = Stored(r, n, v) OBVIOUS
    <2> HIDE DEF s
    <2> QED BY <2>1, <2>2
  <1>3. JobInv(t) /\ RunInv(r) BY <1>1 DEF IInv
  <1>4. /\ outbox[r].state # "none" /\ n = outbox[r].id /\ v = status[r]
    BY <1>3 DEF JobInv
  <1>5. /\ log' \in [Run -> Seq(Event)] /\ log'[r] = s
        /\ \A q \in Run : q # r => log'[q] = log[q]
    BY <1>1, <1>2 DEF TypeOK
  <1>6. TypeOK' BY <1>1, <1>5 DEF TypeOK
  <1>7. ASSUME NEW q \in Run, q # r PROVE RunInv(q)' /\ KeepsDelivery(q)
    BY <1>5, <1>7, KeptRunSettles, SettlesRunInv
  <1>8. KeepsDelivery(r) BY <1>2, <1>5 DEF KeepsDelivery, Published
  <1>9. Published(r, n)' BY <1>2, <1>5 DEF Published
  <1>10. LogIsFaithful(r)'
    <2>1. ASSUME NEW i \in DOMAIN s, NEW j \in DOMAIN s, s[i].id # 0, s[j].id # 0
          PROVE  i = j
      <3>1. CASE Published(r, n)
        BY <1>2, <1>3, <2>1, <3>1 DEF RunInv, LogIsFaithful
      <3>2. CASE ~Published(r, n)
        <4>1. \A k \in DOMAIN log[r] : log[r][k].id = 0
          BY <1>3, <1>4, <3>2 DEF RunInv, LogIsFaithful, Published
        <4> QED BY <1>2, <2>1, <4>1
      <3> QED BY <3>1, <3>2
    <2>2. ASSUME NEW i \in DOMAIN s, s[i].id # 0
          PROVE  s[i].id = outbox[r].id /\ s[i].status = status[r]
      <3>1. CASE i \in DOMAIN log[r]
        BY <1>2, <1>3, <2>2, <3>1 DEF RunInv, LogIsFaithful
      <3>2. CASE i \notin DOMAIN log[r] BY <1>2, <1>4, <3>2
      <3> QED BY <3>1, <3>2
    <2> QED BY <1>4, <1>5, <2>1, <2>2 DEF LogIsFaithful
  <1>11. RunInv(r)'
    BY <1>3, <1>4, <1>9, <1>10 DEF RunInv, OneDelivery, DeliveredIsStored, Published
  <1> QED BY <1>6, <1>7, <1>8, <1>9, <1>11

LEMMA AppendEventsInv ==
  ASSUME IInv, NEW t \in Task, AppendEvents(t)
  PROVE  IInv'
  <1>1. /\ TypeOK /\ job[t] \in Job /\ job[t].run \in Run
        /\ job[t].id \in 0 .. MaxDeliveries /\ job[t].status \in Active \cup Verdict
    BY DEF IInv, TypeOK, Job
  <1>2. faults' \in 0 .. MaxFaults BY <1>1, FaultType DEF AppendEvents, TypeOK
  <1>3. Delivering(t) BY DEF Delivering, AppendEvents
  <1>4. PICK a \in {"confirm", "giveup"} :
          /\ Go(t, a)
          /\ \/ log' = [log EXCEPT ![job[t].run] = Stored(job[t].run, job[t].id, job[t].status)]
             \/ a = "giveup" /\ UNCHANGED log
    BY DEF AppendEvents
  <1>5. [job[t] EXCEPT !.at = a] \in Job BY <1>1 DEF Job
  <1>6. /\ job' \in [Task -> Job]
        /\ job'[t].at = a /\ job'[t].run = job[t].run
        /\ job'[t].id = job[t].id /\ job'[t].status = job[t].status
        /\ \A u \in Task : u # t => job'[u] = job[u]
    BY <1>1, <1>4, <1>5, GoType
  <1>7. UNCHANGED <<status, reaped, outbox, notes>> BY DEF AppendEvents
  <1>8. /\ TypeOK' /\ (\A q \in Run : RunInv(q)') /\ (\A q \in Run : KeepsDelivery(q))
        /\ a = "confirm" => Published(job[t].run, job[t].id)'
    <2>1. CASE log' = [log EXCEPT ![job[t].run] =
                         Stored(job[t].run, job[t].id, job[t].status)]
      <3>1. PICK r \in Run, n \in 0 .. MaxDeliveries, v \in Active \cup Verdict :
              r = job[t].run /\ n = job[t].id /\ v = job[t].status
        BY <1>1
      <3>2. log' = [log EXCEPT ![r] = Stored(r, n, v)] BY <2>1, <3>1
      <3>3. /\ TypeOK' /\ (\A q \in Run : RunInv(q)') /\ (\A q \in Run : KeepsDelivery(q))
            /\ Published(r, n)'
        BY <1>2, <1>3, <1>6, <1>7, <3>1, <3>2, StoreStepInv
      <3> QED BY <1>6, <3>1, <3>3
    <2>2. CASE a = "giveup" /\ UNCHANGED log
      BY <1>2, <1>6, <1>7, <2>2, JobStepInv
    <2> QED BY <1>4, <2>1, <2>2
  <1>9. JobInv(t)' BY <1>1, <1>3, <1>6, <1>8, KeepsJobInv
  <1> QED BY <1>6, <1>8, <1>9, OneTaskInv

LEMMA FinishInv ==
  ASSUME IInv, NEW t \in Task, NEW from, NEW state,
         Finish(t, from, state),
         \/ from = "finish" /\ state = "delivered"
         \/ from = "giveup" /\ state = "failed"
  PROVE  IInv'
  <1>1. TypeOK /\ job[t].run \in Run /\ JobInv(t) BY DEF IInv, TypeOK, Job
  <1>2. faults' \in 0 .. MaxFaults BY <1>1, FaultType DEF Finish, TypeOK
  <1>3. /\ job' \in [Task -> Job] /\ job'[t].at = "idle"
        /\ \A u \in Task : u # t => job'[u] = job[u]
    BY <1>1, DoneType DEF Finish
  <1>4. UNCHANGED <<status, reaped, log, notes>> BY DEF Finish
  <1>5. TypeOK' /\ (\A q \in Run : RunInv(q)') /\ (\A q \in Run : KeepsDelivery(q))
    <2>1. CASE UNCHANGED outbox BY <1>2, <1>3, <1>4, <2>1, JobStepInv
    <2>2. CASE outbox' # outbox
      <3>1. Holds(t) BY <2>2 DEF Finish
      <3>2. PICK r \in Run : r = job[t].run BY <1>1
      <3>3. PICK lag \in 0 .. ScanLag :
              outbox' = [outbox EXCEPT ![r] =
                [@ EXCEPT !.state = state, !.token = NoTask,
                          !.age = IF state = "failed" THEN lag ELSE 0]]
        BY <2>2, <3>2 DEF Finish
      <3>4. PICK age \in 0 .. MaxAge : age = IF state = "failed" THEN lag ELSE 0
        <4>1. lag \in 0 .. MaxAge /\ 0 \in 0 .. MaxAge BY BoundAssumption DEF MaxAge
        <4> QED BY <4>1
      <3> DEFINE o == [outbox[r] EXCEPT !.state = state, !.token = NoTask, !.age = age]
      <3>5. outbox[r] \in Outbox /\ outbox[r].state = "delivering" /\ outbox[r].id = job[t].id
        BY <1>1, <3>1, <3>2 DEF TypeOK, Holds
      <3>6. state \in {"delivered", "failed"} OBVIOUS
      <3>7. /\ o \in Outbox /\ o.state = state /\ o.token = NoTask
            /\ o.id = outbox[r].id /\ o.verdict = outbox[r].verdict
        BY <3>4, <3>5, <3>6 DEF Outbox
      <3>8. outbox' = [outbox EXCEPT ![r] = o] BY <1>1, <3>3, <3>4 DEF TypeOK
      <3>9. state = "delivered" => Published(r, outbox[r].id)
        BY <1>1, <3>2, <3>5 DEF JobInv, Finish
      <3> HIDE DEF o
      <3> QED
        BY <1>2, <1>3, <1>4, <3>5, <3>6, <3>7, <3>8, <3>9, TaskAssumption, SettleStepInv
    <2> QED BY <2>1, <2>2
  <1>6. JobInv(t)' BY <1>1, <1>3, <1>5, KeepsJobInv
  <1> QED BY <1>3, <1>5, <1>6, OneTaskInv

-----------------------------------------------------------------------------
(* State events, crashes and time *)

LEMMA AnnounceInv ==
  ASSUME IInv, NEW t \in Task, Announce(t)
  PROVE  IInv'
  <1>1. TypeOK /\ job[t] \in Job BY DEF IInv, TypeOK
  <1>2. faults' \in 0 .. MaxFaults BY <1>1, FaultType DEF Announce, TypeOK
  <1>3. /\ job' \in [Task -> Job] /\ job'[t].at = "idle"
        /\ \A u \in Task : u # t => job'[u] = job[u]
    BY <1>1, DoneType DEF Announce
  <1>4. UNCHANGED <<status, reaped, outbox, notes>> BY DEF Announce
  <1>5. PICK r \in Run, v \in Active \cup Verdict : r = job[t].run /\ v = job[t].status
    BY <1>1 DEF Job
  <1>6. TypeOK' /\ (\A q \in Run : RunInv(q)') /\ (\A q \in Run : KeepsDelivery(q))
    <2>1. CASE UNCHANGED log BY <1>2, <1>3, <1>4, <2>1, JobStepInv
    <2>2. CASE log' # log
      <3>1. PICK e \in Event : e = [status |-> v, id |-> 0]
        <4>1. [status |-> v, id |-> 0] \in Event BY BoundAssumption DEF Event
        <4> QED BY <4>1
      <3>2. e.id = 0 BY <3>1
      <3>3. log' = [log EXCEPT ![r] = Append(log[r], e)]
        BY <1>1, <1>5, <2>2, <3>1 DEF Announce, TypeOK
      <3>4. log[r] \in Seq(Event) BY <1>1 DEF TypeOK
      <3>5. PICK s \in Seq(Event) :
              /\ s = Append(log[r], e)
              /\ \A i \in DOMAIN log[r] : i \in DOMAIN s /\ s[i] = log[r][i]
              /\ \A i \in DOMAIN s : i \in DOMAIN log[r] \/ s[i].id = 0
        <4> DEFINE s == Append(log[r], e)
        <4>1. /\ s \in Seq(Event) /\ DOMAIN s = 1 .. Len(log[r]) + 1
              /\ DOMAIN log[r] = 1 .. Len(log[r]) /\ Len(log[r]) \in Nat
              /\ \A i \in 1 .. Len(log[r]) : s[i] = log[r][i]
              /\ s[Len(log[r]) + 1] = e
          BY <3>4
        <4>2. s = Append(log[r], e) OBVIOUS
        <4> HIDE DEF s
        <4> QED BY <3>2, <4>1, <4>2
      <3>6. /\ log' \in [Run -> Seq(Event)] /\ log'[r] = s
            /\ \A q \in Run : q # r => log'[q] = log[q]
        BY <1>1, <3>3, <3>5 DEF TypeOK
      <3>7. TypeOK' BY <1>1, <1>2, <1>3, <1>4, <3>6 DEF TypeOK
      <3>8. ASSUME NEW q \in Run, q # r PROVE RunInv(q)' /\ KeepsDelivery(q)
        BY <1>4, <3>6, <3>8, KeptRunSettles, SettlesRunInv
      <3>9. KeepsDelivery(r) BY <1>4, <3>5, <3>6 DEF KeepsDelivery, Published
      <3>10. RunInv(r)'
        <4>1. RunInv(r) /\ outbox' = outbox /\ status' = status BY <1>4 DEF IInv
        <4>2. LogIsFaithful(r)' BY <3>5, <3>6, <4>1 DEF RunInv, LogIsFaithful
        <4>3. DeliveredIsStored(r)'
          BY <3>5, <3>6, <4>1 DEF RunInv, DeliveredIsStored, Published
        <4> QED BY <4>1, <4>2, <4>3 DEF RunInv, OneDelivery
      <3> QED BY <3>7, <3>8, <3>9, <3>10
    <2> QED BY <2>1, <2>2
  <1>7. JobInv(t)' BY <1>3, <1>5, <1>6, KeepsJobInv
  <1> QED BY <1>3, <1>6, <1>7, OneTaskInv

LEMMA CrashInv ==
  ASSUME IInv, NEW t \in Task, Crash(t)
  PROVE  IInv'
  <1>1. TypeOK /\ job[t].run \in Run BY DEF IInv, TypeOK, Job
  <1>2. /\ job' \in [Task -> Job] /\ job'[t].at = "idle"
        /\ \A u \in Task : u # t => job'[u] = job[u]
    BY <1>1, DoneType DEF Crash
  <1>3. TypeOK' /\ (\A q \in Run : RunInv(q)') /\ (\A q \in Run : KeepsDelivery(q))
    BY <1>1, <1>2, FaultType, JobStepInv DEF Crash
  <1>4. JobInv(t)' BY <1>1, <1>2, <1>3, KeepsJobInv
  <1> QED BY <1>2, <1>3, <1>4, OneTaskInv

\* Time changes the age of an outbox alone.
LEMMA TickOutbox ==
  ASSUME TypeOK, Tick
  PROVE  /\ outbox' \in [Run -> Outbox]
         /\ \A r \in Run : /\ outbox'[r].state = outbox[r].state
                           /\ outbox'[r].id = outbox[r].id
                           /\ outbox'[r].verdict = outbox[r].verdict
                           /\ outbox'[r].token = outbox[r].token
  <1>1. MaxAge \in Nat BY BoundAssumption DEF MaxAge
  <1>2. ASSUME NEW r \in Run
        PROVE  /\ outbox'[r] \in Outbox
               /\ outbox'[r].state = outbox[r].state
               /\ outbox'[r].id = outbox[r].id
               /\ outbox'[r].verdict = outbox[r].verdict
               /\ outbox'[r].token = outbox[r].token
    <2>1. outbox[r] \in Outbox BY DEF TypeOK
    <2>2. outbox[r].age < MaxAge => outbox[r].age + 1 \in 0 .. MaxAge
      BY <1>1, <2>1 DEF Outbox
    <2>3. outbox'[r] = IF outbox[r].state \in {"delivering", "failed"} /\ outbox[r].age < MaxAge
                         THEN [outbox[r] EXCEPT !.age = outbox[r].age + 1] ELSE outbox[r]
      BY <2>1 DEF Tick, Outbox
    <2> QED BY <2>1, <2>2, <2>3 DEF Outbox
  <1>3. DOMAIN outbox' = Run /\ outbox' = [r \in Run |-> outbox'[r]] BY DEF Tick
  <1> QED BY <1>2, <1>3

LEMMA TickInv ==
  ASSUME IInv, Tick
  PROVE  IInv'
  <1>1. TypeOK BY DEF IInv
  <1>2. /\ outbox' \in [Run -> Outbox]
        /\ \A r \in Run : /\ outbox'[r].state = outbox[r].state
                          /\ outbox'[r].id = outbox[r].id
                          /\ outbox'[r].verdict = outbox[r].verdict
                          /\ outbox'[r].token = outbox[r].token
    BY <1>1, TickOutbox
  <1>3. UNCHANGED <<status, reaped, log, job, notes>> BY DEF Tick
  <1>4. faults' \in 0 .. MaxFaults BY <1>1, FaultType DEF Tick, TypeOK
  <1>5. TypeOK' BY <1>1, <1>2, <1>3, <1>4 DEF TypeOK
  <1>6. ASSUME NEW r \in Run PROVE Settles(r) BY <1>2, <1>3 DEF Settles
  <1>7. ASSUME NEW t \in Task PROVE JobInv(t)'
    <2>1. job[t].run \in Run BY <1>1 DEF TypeOK, Job
    <2> QED BY <1>3, <1>6, <2>1, SettlesRunInv, KeepsJobInv
  <1> QED BY <1>5, <1>6, <1>7, SettlesRunInv DEF IInv

-----------------------------------------------------------------------------
(* Theorems *)

LEMMA NextInv ==
  ASSUME IInv, [Next]_vars
  PROVE  IInv'
  <1>1. CASE UNCHANGED vars
    BY <1>1 DEF vars, IInv, TypeOK, RunInv, OneDelivery, LogIsFaithful, DeliveredIsStored,
         JobInv, Delivering, Published
  <1>2. ASSUME NEW t \in Task, NEW r \in Run,
               \/ \E v \in Verdict : Finalize(t, r, v)
               \/ ClaimStateOnly(t, r)
               \/ \E lag \in 0 .. ScanLag : Claim(t, r, lag)
               \/ ListUnresolvable(t, r)
               \/ \E s \in Active : MarkState(t, r, s)
        PROVE  IInv'
    BY <1>2, FinalizeInv, ClaimStateOnlyInv, ClaimInv, ListUnresolvableInv, MarkStateInv
  <1>3. ASSUME NEW t \in Task, Deliver(t) PROVE IInv'
    BY <1>3, AssertAndRenewInv, CheckInv, AppendEventsInv, FinishInv DEF Deliver
  <1>4. ASSUME NEW t \in Task, Heartbeat(t) \/ Reject(t) \/ Announce(t) \/ Crash(t)
        PROVE  IInv'
    BY <1>4, HeartbeatInv, RejectInv, AnnounceInv, CrashInv
  <1>5. ASSUME NEW r \in Run, Reap(r) \/ CancelStateOnly(r) PROVE IInv'
    BY <1>5, ReapInv, CancelStateOnlyInv
  <1>6. CASE Tick BY <1>6, TickInv
  <1> QED BY <1>1, <1>2, <1>3, <1>4, <1>5, <1>6 DEF Next

\* The inductive invariant: a run has one delivery at most, every task that delivers
\* works on it, and the event store has its events at most once.
THEOREM OutboxInvariant == Spec => []IInv
  <1>1. Init => IInv BY InitInv
  <1>2. IInv /\ [Next]_vars => IInv' BY NextInv
  <1> QED BY <1>1, <1>2, PTL DEF Spec

\* Every row, outbox, event and task stays in its type, and an outbox has a claim token
\* exactly while it is being delivered.
THEOREM TypeCorrect == Spec => []TypeOK
  <1>1. IInv => TypeOK BY DEF IInv
  <1> QED BY <1>1, OutboxInvariant, PTL

\* The event store never has two terminal batches of a run, nor one that contradicts the
\* run's row, whoever decided, repaired, replayed or crashed.
THEOREM VerdictOnce == Spec => []OneVerdictPublished
  <1>1. IInv => OneVerdictPublished BY DEF IInv, RunInv, LogIsFaithful, OneVerdictPublished
  <1> QED BY <1>1, OutboxInvariant, PTL

\* finishTerminalEventOutbox acknowledges a delivery only when its events are stored.
THEOREM DeliveredPublished == Spec => []DeliveredIsPublished
  <1>1. IInv => DeliveredIsPublished
    BY DEF IInv, RunInv, DeliveredIsStored, DeliveredIsPublished
  <1> QED BY <1>1, OutboxInvariant, PTL

\* What may become of a claim: it stays, it is taken over once it has expired, its holder
\* settles the delivery, or the delivery is rejected because its run has no tenant.
LEMMA ClaimStep ==
  ASSUME IInv, [Next]_vars, NEW r \in Run, outbox[r].state = "delivering"
  PROVE  \/ outbox'[r].state = "delivering" /\ outbox'[r].token = outbox[r].token
         \/ outbox[r].age > ClaimTtl /\ outbox'[r].state = "delivering"
         \/ r \in Unresolvable /\ outbox'[r].state = "rejected"
         \/ /\ outbox'[r].state \in {"delivered", "failed"}
            /\ \E t \in Task : /\ outbox[r].token = t /\ job[t].run = r
                               /\ job[t].at \in {"finish", "giveup"} /\ job'[t].at = "idle"
  <1>1. TypeOK /\ outbox[r] \in Outbox BY DEF IInv, TypeOK
  <1>2. CASE UNCHANGED outbox BY <1>2
  <1>3. ASSUME NEW t \in Task, NEW q \in Run, NEW v, OpenOutbox(t, q, v),
               outbox[q].state = "none"
        PROVE  outbox'[r] = outbox[r]
    BY <1>1, <1>3 DEF OpenOutbox, TypeOK
  <1>4. ASSUME NEW t \in Task, NEW q \in Run, NEW v \in Verdict, Finalize(t, q, v)
        PROVE  outbox'[r] = outbox[r]
    BY <1>3, <1>4, UndecidedIsQuiet DEF Finalize
  <1>5. ASSUME NEW t \in Task, NEW q \in Run, ClaimStateOnly(t, q)
        PROVE  outbox'[r] = outbox[r]
    BY <1>3, <1>5 DEF ClaimStateOnly
  <1>6. ASSUME NEW t \in Task, NEW q \in Run, NEW lag \in 0 .. ScanLag, Claim(t, q, lag)
        PROVE  \/ outbox'[r] = outbox[r]
               \/ outbox[r].age > ClaimTtl /\ outbox'[r].state = "delivering"
    <2>1. CASE q # r BY <1>1, <1>6, <2>1 DEF Claim, TypeOK
    <2>2. CASE q = r
      <3>1. outbox[r].age > ClaimTtl
        BY <1>1, <1>6, <2>2, BoundAssumption DEF Claim, Claimable, Outbox
      <3>2. outbox'[r] = [outbox[r] EXCEPT !.state = "delivering", !.token = t, !.age = lag]
        BY <1>1, <1>6, <2>2 DEF Claim, TypeOK
      <3>3. outbox'[r].state = "delivering" BY <1>1, <3>2 DEF Outbox
      <3> QED BY <3>1, <3>3
    <2> QED BY <2>1, <2>2
  <1>7. ASSUME NEW t \in Task, Renewed(t)
        PROVE  outbox'[r].state = outbox[r].state /\ outbox'[r].token = outbox[r].token
    <2>1. job[t].run \in Run BY <1>1 DEF TypeOK, Job
    <2> QED BY <1>1, <1>7, <2>1 DEF Renewed, TypeOK, Outbox
  <1>8. ASSUME NEW t \in Task, NEW from \in {"finish", "giveup"},
               NEW state \in {"delivered", "failed"}, Finish(t, from, state)
        PROVE  \/ outbox'[r] = outbox[r]
               \/ /\ outbox'[r].state = state
                  /\ outbox[r].token = t /\ job[t].run = r
                  /\ job[t].at \in {"finish", "giveup"} /\ job'[t].at = "idle"
    <2>1. job[t].run \in Run /\ job'[t].at = "idle"
      BY <1>1, <1>8, DoneType DEF TypeOK, Job, Finish
    <2>2. CASE UNCHANGED outbox \/ job[t].run # r
      BY <1>1, <1>8, <2>1, <2>2 DEF Finish, TypeOK
    <2>3. CASE outbox' # outbox /\ job[t].run = r
      <3>1. Holds(t) BY <1>8, <2>3 DEF Finish
      <3>2. outbox'[r].state = state
        <4>1. \E age : outbox'[r] = [outbox[r] EXCEPT !.state = state, !.token = NoTask,
                                                     !.age = age]
          BY <1>1, <1>8, <2>3 DEF Finish, TypeOK
        <4> QED BY <1>1, <4>1 DEF Outbox
      <3> QED BY <1>8, <2>1, <2>3, <3>1, <3>2 DEF Holds, Finish
    <2> QED BY <2>2, <2>3
  <1>9. ASSUME NEW t \in Task, Deliver(t)
        PROVE  \/ outbox'[r].state = outbox[r].state /\ outbox'[r].token = outbox[r].token
               \/ /\ outbox'[r].state \in {"delivered", "failed"}
                  /\ outbox[r].token = t /\ job[t].run = r
                  /\ job[t].at \in {"finish", "giveup"} /\ job'[t].at = "idle"
    <2>1. CASE AssertAndRenew(t) BY <1>7, <2>1 DEF AssertAndRenew
    <2>2. CASE Check(t) \/ AppendEvents(t) BY <2>2 DEF Check, AppendEvents
    <2>3. CASE Finish(t, "finish", "delivered") \/ Finish(t, "giveup", "failed")
      BY <1>8, <2>3
    <2> QED BY <1>9, <2>1, <2>2, <2>3 DEF Deliver
  <1>10. ASSUME Tick
         PROVE  outbox'[r].state = outbox[r].state /\ outbox'[r].token = outbox[r].token
    BY <1>1, <1>10, TickOutbox
  <1>11. CASE \/ \E t \in Task, q \in Run, s \in Active : MarkState(t, q, s)
              \/ \E t \in Task, q \in Run : ListUnresolvable(t, q)
              \/ \E t \in Task : Announce(t) \/ Crash(t)
              \/ \E q \in Run : Reap(q) \/ CancelStateOnly(q)
              \/ UNCHANGED vars
    <2>1. UNCHANGED outbox 
      BY <1>11 DEF MarkState, ListUnresolvable, Announce, Crash, Reap, CancelStateOnly, vars
    <2> QED BY <1>2, <2>1
  <1>12. CASE \E t \in Task : Heartbeat(t) BY <1>7, <1>12 DEF Heartbeat
  <1>13. ASSUME NEW t \in Task, Reject(t)
         PROVE  \/ outbox'[r] = outbox[r]
                \/ r \in Unresolvable /\ outbox'[r].state = "rejected"
    <2>1. CASE UNCHANGED outbox BY <2>1
    <2>2. CASE ~UNCHANGED outbox
      <3>1. PICK o \in Outbox :
              /\ o.state = "rejected" /\ outbox' = [outbox EXCEPT ![job[t].run] = o]
        BY <1>13, <2>2, RejectOutbox
      <3>2. job[t].run \in Run /\ job[t].run \in Unresolvable
        BY <1>1, <1>13 DEF TypeOK, Job, IInv, JobInv, Reject
      <3> QED BY <1>1, <3>1, <3>2 DEF TypeOK
    <2> QED BY <2>1, <2>2
  <1> QED BY <1>4, <1>5, <1>6, <1>9, <1>10, <1>11, <1>12, <1>13 DEF Next

\* A task whose claim was taken over cannot settle the outbox: only the task whose token
\* the outbox has acknowledges or fails a delivery.
THEOREM HolderSettles == Spec => OnlyTheHolderSettles
  <1>1. ASSUME IInv, [Next]_vars, NEW r \in Run,
               outbox[r].state = "delivering", outbox'[r].state \in {"delivered", "failed"}
        PROVE  \E t \in Task : outbox[r].token = t /\ job[t].run = r
                                 /\ job[t].at \in {"finish", "giveup"} /\ job'[t].at = "idle"
    BY <1>1, ClaimStep
  <1>2. IInv /\ [Next]_vars =>
          [\A r \in Run :
             outbox[r].state = "delivering" /\ outbox'[r].state \in {"delivered", "failed"}
               => \E t \in Task : outbox[r].token = t /\ job[t].run = r
                                    /\ job[t].at \in {"finish", "giveup"}
                                    /\ job'[t].at = "idle"]_vars
    BY <1>1
  <1> QED BY <1>2, OutboxInvariant, PTL DEF Spec, OnlyTheHolderSettles

\* A claim that has not expired stays with its task until the task settles the delivery,
\* whatever the clock of the scan that looks for claimable outboxes, unless the run has no
\* tenant and its delivery is rejected.
THEOREM FreshClaimKept == Spec => FreshClaimIsKept
  <1>1. ASSUME IInv, [Next]_vars, NEW r \in Run, NEW t \in Task,
               outbox[r].state = "delivering", outbox[r].token = t,
               outbox[r].age <= ClaimTtl
        PROVE  \/ outbox'[r].token = t \/ outbox'[r].state \in {"delivered", "failed"}
               \/ r \in Unresolvable /\ outbox'[r].state = "rejected"
    <2>1. ~(outbox[r].age > ClaimTtl)
      BY <1>1, BoundAssumption DEF IInv, TypeOK, Outbox
    <2> QED BY <1>1, <2>1, ClaimStep
  <1>2. IInv /\ [Next]_vars =>
          [\A r \in Run : \A t \in Task :
             outbox[r].state = "delivering" /\ outbox[r].token = t /\ outbox[r].age <= ClaimTtl
               => \/ outbox'[r].token = t \/ outbox'[r].state \in {"delivered", "failed"}
                  \/ r \in Unresolvable /\ outbox'[r].state = "rejected"]_vars
    BY <1>1
  <1> QED BY <1>2, OutboxInvariant, PTL DEF Spec, FreshClaimIsKept

=============================================================================
