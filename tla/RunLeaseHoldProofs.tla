------------------------- MODULE RunLeaseHoldProofs -------------------------
(***************************************************************************)
(* What a lease guarantees to the process that holds it, and what becomes  *)
(* of a running run that nobody holds, for every instance of RunLease.     *)
(***************************************************************************)
EXTENDS RunLeaseProofs

\* A running row with an owner has an expiry, and is stale only once it expired.
LeaseHeld(r) ==
  row[r].status = "running" /\ row[r].worker # NoWorker
    => row[r].lease # NoLease /\ (LeaseValid(r) => row[r].live # "stale")

\* A running row without a lease is open to the next process or to the reaper, unless
\* a caller of lease.release() passes running as the final status.
LooseIsVisible(r) ==
  "running" \notin ReleaseStatus
    => (row[r].status = "running"
          => \/ row[r].lease # NoLease
             \/ row[r].live \in {"none", "stale"}
             \/ r \in BackgroundCommand)

HoldInv(r) == LeaseHeld(r) /\ LooseIsVisible(r)

HInv == IInv /\ \A r \in Run : HoldInv(r)

\* What ValidLeaseIsRespected says of one run
Respected(r) ==
  \A w \in Worker :
    row[r].status = "running" /\ row[r].worker = w /\ LeaseValid(r)
      => \/ row'[r].worker = w /\ row'[r].live # "stale"
         \/ loop'[w][r] # loop[w][r]
         \/ row'[r].status \notin {"running", "orphaned"}
         \/ /\ row'[r].status = "orphaned" /\ r \in BackgroundCommand
            /\ \E v \in Worker : loop[v][r] = "starting" /\ loop'[v][r] = "closing"

Holds(r) == HoldInv(r)' /\ Respected(r)

-----------------------------------------------------------------------------
(* Rows that a step leaves alone or takes out of running *)

LEMMA SameRow ==
  ASSUME NEW r \in Run, HoldInv(r), row'[r] = row[r]
  PROVE  Holds(r)
  BY WorkerAssumption
     DEF Holds, HoldInv, LeaseHeld, LooseIsVisible, LeaseValid, Respected

LEMMA NotRunningAnyMore ==
  ASSUME NEW r \in Run, row'[r].status \notin {"running", "orphaned"}
  PROVE  Holds(r)
  BY DEF Holds, HoldInv, LeaseHeld, LooseIsVisible, Respected

LEMMA NotRunning ==
  ASSUME NEW r \in Run, row[r].status # "running", row'[r].status # "running"
  PROVE  Holds(r)
  BY DEF Holds, HoldInv, LeaseHeld, LooseIsVisible, Respected

\* The row of one run is written.
LEMMA OneRow ==
  ASSUME HInv, NEW r \in Run, NEW x \in Row, SetRow(r, x), row'[r] = x => Holds(r)
  PROVE  \A q \in Run : Holds(q)
  <1>1. TypeOK /\ \A q \in Run : HoldInv(q) BY DEF HInv, IInv
  <1>2. row'[r] = x /\ \A q \in Run : q # r => row'[q] = row[q] BY <1>1, RowWrite
  <1>3. ASSUME NEW q \in Run, q # r PROVE Holds(q) BY <1>1, <1>2, <1>3, SameRow
  <1> QED BY <1>2, <1>3

LEMMA NoRow ==
  ASSUME HInv, UNCHANGED row
  PROVE  \A q \in Run : Holds(q)
  BY SameRow DEF HInv

\* A verdict or a question.
LEMMA LeaveRow ==
  ASSUME HInv, NEW r \in Run, NEW x \in Row, SetRow(r, x),
         x.status \notin {"running", "orphaned"}
  PROVE  \A q \in Run : Holds(q)
  BY OneRow, NotRunningAnyMore

LEMMA LeaveByMark ==
  ASSUME HInv, NEW r \in Run, NEW s \in Status \ {"running", "orphaned"},
         SetRow(r, Marked(r, s))
  PROVE  \A q \in Run : Holds(q)
  <1>1. Marked(r, s) \in Row /\ Marked(r, s).status = s
    BY MarkedType DEF HInv, IInv
  <1> QED BY <1>1, LeaveRow

-----------------------------------------------------------------------------
(* Producers and verdicts from outside *)

LEMMA ProducerHolds ==
  ASSUME HInv, NEW r \in Run,
         \/ Enqueue(r) \/ UpsertPending(r) \/ ResumeClaim(r)
         \/ ResumeActivate(r) \/ ResumeRollback(r)
  PROVE  \A q \in Run : Holds(q)
  <1>1. TypeOK /\ row[r] \in Row BY DEF HInv, IInv, TypeOK
  <1>2. CASE Enqueue(r)
    <2> DEFINE x == [AbsentRow EXCEPT !.status = "pending", !.live = "active"]
    <2>1. x \in Row /\ x.status = "pending" BY AbsentRowType, Literals DEF Row
    <2>2. SetRow(r, x) BY <1>2 DEF Enqueue
    <2> HIDE DEF x
    <2> QED BY <2>1, <2>2, LeaveRow
  <1>3. CASE UpsertPending(r)
    <2> DEFINE x == Put(row[r], "pending", NoWorker, NoLease, "active", "other")
    <2>1. x \in Row /\ x.status = "pending" BY <1>1, ConstantTypes, PutType, Literals
    <2>2. SetRow(r, x) BY <1>3 DEF UpsertPending
    <2> HIDE DEF x
    <2> QED BY <2>1, <2>2, LeaveRow
  <1>4. CASE ResumeClaim(r)
    <2> DEFINE v == LiveAfter(r, "active")
               y == Put(row[r], "pending", NoWorker, NoLease, v, "other")
               x == [y EXCEPT !.staged = row[r].status]
    <2>1. SetRow(r, x) /\ row[r].status \in Waiting BY <1>4 DEF ResumeClaim
    <2>2. v \in Live BY DEF LiveAfter, Live
    <2> HIDE DEF v
    <2>3. y \in Row /\ y.status = "pending"
      BY <1>1, <2>2, ConstantTypes, PutType, Literals
    <2> HIDE DEF y
    <2>4. x \in Row /\ x.status = "pending" BY <2>1, <2>3 DEF Row
    <2> HIDE DEF x
    <2> QED BY <2>1, <2>4, LeaveRow
  <1>5. CASE ResumeActivate(r)
    <2> DEFINE x == [row[r] EXCEPT !.staged = "no"]
    <2>1. SetRow(r, x) /\ row[r].status = "pending" BY <1>5 DEF ResumeActivate
    <2>2. x \in Row /\ x.status = "pending" BY <1>1, <2>1 DEF Row
    <2> HIDE DEF x
    <2> QED BY <2>1, <2>2, LeaveRow
  <1>6. CASE ResumeRollback(r)
    <2> DEFINE v == LiveAfter(r, "waiting_interaction")
               y == Put(row[r], row[r].staged, NoWorker, NoLease, v, "other")
               x == [y EXCEPT !.staged = "no"]
    <2>1. SetRow(r, x) /\ row[r].staged # "no" BY <1>6 DEF ResumeRollback
    <2>2. v \in Live BY DEF LiveAfter, Live
    <2>3. row[r].staged \in Waiting /\ row[r].staged \in Status
      BY <1>1, <2>1 DEF Row, Status
    <2> HIDE DEF v
    <2>4. y \in Row /\ y.status \in Waiting
      BY <1>1, <2>2, <2>3, ConstantTypes, PutType, Literals
    <2> HIDE DEF y
    <2>5. x \in Row /\ x.status \in Waiting BY <2>4 DEF Row
    <2> HIDE DEF x
    <2> QED BY <2>1, <2>5, LeaveRow DEF Waiting
  <1> QED BY <1>2, <1>3, <1>4, <1>5, <1>6

LEMMA RetryHolds ==
  ASSUME HInv, NEW r \in Run, NEW p \in Run, RetryOrphaned(r, p)
  PROVE  \A q \in Run : Holds(q)
  <1> DEFINE x == [row[r] EXCEPT !.retried = TRUE]
             y == Put(row[r], "pending", NoWorker, NoLease, "active", "other")
  <1>1. row[r] \in Row /\ row \in [Run -> Row] BY DEF HInv, IInv, TypeOK
  <1>2. /\ row[r].status = "orphaned" /\ row[p].status = "absent"
        /\ row' = [row EXCEPT ![r] = x, ![p] = y]
    BY DEF RetryOrphaned
  <1>3. y.status = "pending" BY <1>1, ConstantTypes, PutType, Literals
  <1>4. x.status = "orphaned" BY <1>1, <1>2 DEF Row
  <1> HIDE DEF x, y
  <1>5. /\ row'[r].status = "orphaned" /\ row'[p].status = "pending"
        /\ \A q \in Run \ {r, p} : row'[q] = row[q]
    BY <1>1, <1>2, <1>3, <1>4
  <1> QED BY <1>2, <1>5, NotRunning, SameRow DEF HInv

LEMMA CancelHolds ==
  ASSUME HInv, \/ \E r \in Run : CancelRun(r) \/ CancelStaleApproval(r)
               \/ CancelTenant
  PROVE  \A q \in Run : Holds(q)
  <1>1. TypeOK /\ \A q \in Run : row[q] \in Row BY DEF HInv, IInv, TypeOK
  <1>2. "cancelled" \in Status \ {"running", "orphaned"} BY DEF Status, Terminal
  <1>3. ASSUME NEW r \in Run, CancelRun(r) PROVE \A q \in Run : Holds(q)
    BY <1>2, <1>3, LeaveByMark DEF CancelRun
  <1>4. ASSUME NEW r \in Run, CancelStaleApproval(r) PROVE \A q \in Run : Holds(q)
    <2> DEFINE x == [row[r] EXCEPT !.status = "cancelled", !.worker = NoWorker,
                                   !.lease = NoLease]
    <2>1. SetRow(r, x) BY <1>4 DEF CancelStaleApproval
    <2>2. NoLease \in NoLease .. LeaseTime BY ConstantTypes DEF LeaseLeft
    <2>3. x \in Row /\ x.status = "cancelled" BY <1>1, <1>2, <2>2 DEF Row
    <2> HIDE DEF x
    <2> QED BY <2>1, <2>3, LeaveRow
  <1>5. CASE CancelTenant
    <2>1. ASSUME NEW q \in Run
          PROVE [row[q] EXCEPT !.status = "cancelled"].status = "cancelled"
      BY <1>1 DEF Row
    <2>2. \A q \in Run : row'[q].status = "cancelled" \/ row'[q] = row[q]
      BY <1>5, <2>1 DEF CancelTenant
    <2> QED BY <2>2, NotRunningAnyMore, SameRow DEF HInv
  <1> QED BY <1>3, <1>4, <1>5

\* The reaper looks at the lease: what it marks stale has expired, and what it
\* terminates has been stale.
LEMMA ReapHolds ==
  ASSUME HInv, NEW S \in SUBSET Run, Reap(S)
  PROVE  \A q \in Run : Holds(q)
  <1>1. TypeOK /\ \A q \in Run : row[q] \in Row BY DEF HInv, IInv, TypeOK
  <1>2. \A q \in Run : row'[q] = IF q \in S THEN Reaped(q) ELSE row[q] BY DEF Reap
  <1>3. ASSUME NEW q \in S PROVE Holds(q)
    <2>1. q \in Run /\ row[q].status = "running" /\ (ReapOrphan(q) \/ ReapStale(q))
      BY DEF Reap, ReapOrphan, ReapStale
    <2>2. row'[q] = Reaped(q) /\ HoldInv(q) BY <1>2, <2>1 DEF HInv
    <2>3. CASE ReapOrphan(q)
      <3>1. row[q].live = "stale" BY <2>3 DEF ReapOrphan
      <3>2. row'[q].status = "orphaned"
        <4> DEFINE y == IF ToolRunning(q) THEN "external_tool_outcome_unknown" ELSE "other"
        <4>1. row'[q] = Put(row[q], "orphaned", NoWorker, NoLease, "orphaned", y)
          BY <2>2, <2>3 DEF Reaped
        <4>2. "orphaned" \in Status /\ "orphaned" \in Live /\ y \in Reason
          BY DEF Status, Terminal, Live, Reason
        <4> HIDE DEF y
        <4> QED BY <1>1, <2>1, <4>1, <4>2, ConstantTypes, PutType
      <3> QED BY <2>1, <2>2, <3>1, <3>2, WorkerAssumption
             DEF Holds, HoldInv, LeaseHeld, LooseIsVisible, Respected
    <2>4. CASE ~ReapOrphan(q)
      <3>1. LeaseExpired(q) BY <2>1, <2>4 DEF ReapStale
      <3>2. row'[q] = Put(row[q], "running", row[q].worker, row[q].lease, "stale", "other")
        BY <2>1, <2>2, <2>4 DEF Reaped
      <3>3. /\ row[q].worker \in Owner /\ row[q].lease \in LeaseLeft /\ "stale" \in Live
            /\ row[q].lease \in Int
        BY <1>1, <2>1, TimeAssumption DEF Row, Owner, LeaseLeft, Live, NoLease
      <3>4. /\ row'[q].worker = row[q].worker /\ row'[q].lease = row[q].lease
            /\ row'[q].live = "stale"
        BY <1>1, <2>1, <3>2, <3>3, Literals, PutType
      <3>5. ~LeaseValid(q) /\ ~LeaseValid(q)' /\ row[q].lease # NoLease
        BY <3>1, <3>3, <3>4 DEF LeaseValid, LeaseExpired, Overdue, NoLease
      <3> QED BY <2>2, <3>4, <3>5 DEF Holds, HoldInv, LeaseHeld, LooseIsVisible, Respected
    <2> QED BY <2>3, <2>4
  <1>4. ASSUME NEW q \in Run, q \notin S PROVE Holds(q)
    BY <1>2, <1>4, SameRow DEF HInv
  <1> QED BY <1>3, <1>4

\* Time takes leases away, but a lease that expires stays one that expired.
LEMMA TickHolds ==
  ASSUME HInv, Tick
  PROVE  \A q \in Run : Holds(q)
  <1> SUFFICES ASSUME NEW q \in Run PROVE Holds(q) OBVIOUS
  <1> DEFINE l == Later(row[q].lease)
             a == IF row[q].age < Grace THEN row[q].age + 1 ELSE row[q].age
  <1>1. row[q] \in Row /\ HoldInv(q) BY DEF HInv, IInv, TypeOK
  <1>2. /\ l = NoLease <=> row[q].lease = NoLease
        /\ l > 0 => row[q].lease > 0
    BY <1>1, TimeAssumption DEF Row, Later, NoLease, Overdue
  <1>3. row'[q] = [row[q] EXCEPT !.lease = l, !.age = a] BY DEF Tick
  <1> HIDE DEF l, a
  <1>4. /\ row'[q].status = row[q].status /\ row'[q].worker = row[q].worker
        /\ row'[q].live = row[q].live /\ row'[q].lease = l
    BY <1>1, <1>3 DEF Row
  <1> QED BY <1>1, <1>2, <1>4, WorkerAssumption
         DEF Holds, HoldInv, LeaseHeld, LooseIsVisible, LeaseValid, Respected

-----------------------------------------------------------------------------
(* Leases *)

\* acquireLease takes no run away from an owner whose lease is valid.
LEMMA AcquireHolds ==
  ASSUME HInv, NEW w \in Worker, NEW r \in Run, AcquireLease(w, r)
  PROVE  \A q \in Run : Holds(q)
  <1> DEFINE y == Put(row[r], "running", w, LeaseTime, "busy", "other")
             x == [y EXCEPT !.tokenBy = w, !.ready = FALSE]
  <1>1. TypeOK /\ row[r] \in Row BY DEF HInv, IInv, TypeOK
  <1>2. Acquirable(r) /\ SetRow(r, x) BY DEF AcquireLease
  <1>3. /\ y \in Row /\ y.worker = w /\ y.live = "busy" /\ y.lease = LeaseTime
    BY <1>1, ConstantTypes, PutType, Literals
  <1> HIDE DEF y
  <1>4. x \in Row /\ x.worker = w /\ x.live = "busy" /\ x.lease = LeaseTime
    BY <1>3 DEF Row
  <1> HIDE DEF x
  <1>5. LeaseTime # NoLease BY TimeAssumption DEF NoLease
  <1>6. ~(row[r].status = "running" /\ row[r].worker \in Worker /\ LeaseValid(r))
    BY <1>2, WorkerAssumption
       DEF Acquirable, RecoverableHandoff, LeaseOverdue, LeaseValid, NoLease, Overdue
  <1>7. row'[r] = x => Holds(r)
    BY <1>4, <1>5, <1>6 DEF Holds, HoldInv, LeaseHeld, LooseIsVisible, Respected
  <1> QED BY <1>2, <1>4, <1>7, OneRow

LEMMA RenewHolds ==
  ASSUME HInv, NEW w \in Worker, NEW r \in Run, RenewLease(w, r)
  PROVE  \A q \in Run : Holds(q)
  <1> DEFINE a == IF row[r].live = "busy" THEN row[r].age ELSE 0
             x == [row[r] EXCEPT !.lease = LeaseTime, !.live = "busy",
                                 !.reason = "other", !.age = a]
  <1>1. row[r] \in Row BY DEF HInv, IInv, TypeOK
  <1>2. SetRow(r, x) BY DEF RenewLease
  <1>3. a \in 0 .. Grace BY <1>1, TimeAssumption DEF Row
  <1>4. LeaseTime \in NoLease .. LeaseTime BY ConstantTypes DEF LeaseLeft
  <1> HIDE DEF a
  <1>5. x \in Row /\ x.worker = row[r].worker /\ x.live = "busy" /\ x.lease = LeaseTime
    BY <1>1, <1>3, <1>4, Literals DEF Row
  <1> HIDE DEF x
  <1>6. LeaseTime # NoLease BY TimeAssumption DEF NoLease
  <1>7. row'[r] = x => Holds(r)
    BY <1>5, <1>6 DEF Holds, HoldInv, LeaseHeld, LooseIsVisible, Respected
  <1> QED BY <1>2, <1>5, <1>7, OneRow

\* A release is the owner's own step, and leaves a run that stays running stale.
LEMMA ReleaseHolds ==
  ASSUME HInv, NEW w \in Worker, NEW r \in Run, OwnedBy(w, r),
         NEW f \in (ReleaseStatus \cup {"none"}), NEW why \in Reason,
         SetRow(r, Released(r, f, why)), loop'[w][r] # loop[w][r]
  PROVE  \A q \in Run : Holds(q)
  <1> DEFINE s == IF row[r].status \in Terminal \/ f = "none" THEN row[r].status ELSE f
             live == IF f = "none" /\ row[r].status = "running" THEN "stale" ELSE LiveOf(s)
             v == LiveAfter(r, live)
             y == IF row[r].live = "none" THEN "other" ELSE why
             x == Put(row[r], s, NoWorker, NoLease, v, y)
  <1>1. row[r] \in Row /\ RunInv(r) BY DEF HInv, IInv, TypeOK
  <1>2. SetRow(r, x) BY DEF Released
  <1>3. s \in Status /\ y \in Reason
    BY <1>1, ReleaseAssumption DEF Row, Reason, Status, Waiting, Terminal
  <1>4. v \in Live BY LiveOfType DEF LiveAfter, Live
  <1>5. row[r].status \in {"running"} \cup Terminal
    BY <1>1, WorkerAssumption DEF RunInv, OwnerMeansRunning, OwnedBy
  <1>6. "running" \notin ReleaseStatus /\ s = "running" => v \in {"none", "stale"}
    BY <1>5 DEF LiveAfter, Terminal
  <1> HIDE DEF s, v, y
  <1>7. x \in Row /\ x.status = s /\ x.worker = NoWorker /\ x.live = v
    BY <1>1, <1>3, <1>4, ConstantTypes, PutType
  <1> HIDE DEF x
  <1>8. row'[r] = x => Holds(r)
    BY <1>6, <1>7 DEF Holds, HoldInv, LeaseHeld, LooseIsVisible, Respected, OwnedBy
  <1> QED BY <1>2, <1>7, <1>8, OneRow

LEMMA GiveUpHolds ==
  ASSUME HInv, NEW w \in Worker, NEW r \in Run,
         \/ HandOff(w, r) \/ FallbackRelease(w, r)
         \/ \E f \in ReleaseStatus \cup {"none"}, why \in {"other", "handoff"} :
              ReleaseLease(w, r, f, why)
  PROVE  \A q \in Run : Holds(q)
  <1>1. TypeOK /\ row[r] \in Row BY DEF HInv, IInv, TypeOK
  <1>2. ASSUME NEW f \in ReleaseStatus \cup {"none"}, NEW why \in {"other", "handoff"},
               ReleaseLease(w, r, f, why)
        PROVE  \A q \in Run : Holds(q)
    <2>1. loop'[w][r] # loop[w][r]
      BY <1>1, <1>2, LoopWrite DEF ReleaseLease, LoopState
    <2>2. CASE FencedBy(w, r)
      BY <1>2, <2>1, <2>2, ReleaseHolds, Literals DEF ReleaseLease, FencedBy
    <2>3. CASE ~FencedBy(w, r) BY <1>2, <2>3, NoRow DEF ReleaseLease
    <2> QED BY <2>2, <2>3
  <1>3. CASE FallbackRelease(w, r)
    <2>1. loop'[w][r] # loop[w][r]
      BY <1>1, <1>3, LoopWrite DEF FallbackRelease, LoopState
    <2>2. CASE OwnedBy(w, r) /\ SetRow(r, Released(r, "none", "external_tool_outcome_unknown"))
      BY <2>1, <2>2, ReleaseHolds, Literals
    <2> QED BY <1>3, <2>2, NoRow DEF FallbackRelease
  <1>4. CASE HandOff(w, r)
    <2>1. CASE HandoffAllowed(w, r)
      <3> DEFINE y == Put(row[r], "running", NoWorker, NoLease, "none", "other")
                 x == [y EXCEPT !.ready = TRUE]
      <3>1. SetRow(r, x) /\ OwnedBy(w, r) BY <1>4, <2>1 DEF HandOff, HandoffAllowed
      <3>2. y \in Row /\ y.worker = NoWorker /\ y.live = "none"
        BY <1>1, ConstantTypes, PutType, Literals
      <3> HIDE DEF y
      <3>3. x \in Row /\ x.worker = NoWorker /\ x.live = "none" BY <3>2 DEF Row
      <3> HIDE DEF x
      <3>4. loop'[w][r] # loop[w][r] BY <1>1, <1>4, <2>1, LoopWrite DEF HandOff, LoopState
      <3>5. row'[r] = x => Holds(r)
        BY <3>1, <3>3, <3>4
           DEF Holds, HoldInv, LeaseHeld, LooseIsVisible, Respected, OwnedBy
      <3> QED BY <3>1, <3>3, <3>5, OneRow
    <2>2. CASE ~HandoffAllowed(w, r) BY <1>4, <2>2, NoRow DEF HandOff
    <2> QED BY <2>1, <2>2
  <1> QED BY <1>2, <1>3, <1>4

-----------------------------------------------------------------------------
(* Loops *)

\* markRunState(running): a late dispatch changes neither the owner nor the lease, and
\* an executing loop of a run without a lease is that of a command monitor.
LEMMA MarkRunningHolds ==
  ASSUME HInv, NEW w \in Worker, NEW r \in Run, MarkRunning(w, r)
  PROVE  \A q \in Run : Holds(q)
  <1>1. TypeOK /\ row[r] \in Row /\ RunInv(r) /\ HoldInv(r) BY DEF HInv, IInv, TypeOK
  <1>2. CASE row[r].status \in Terminal BY <1>2, NoRow DEF MarkRunning
  <1>3. CASE row[r].status \notin Terminal
    <2> DEFINE v == LiveAfter(r, "busy")
               x == Put(row[r], "running", row[r].worker, row[r].lease, v, "other")
    <2>1. row[r].status = "running" /\ (row[r].worker = w \/ r \in BackgroundCommand)
      BY <1>1, <1>3 DEF RunInv, ExecutingLoopOwnsRun, Executing, MarkRunning
    <2>2. LiveOf("running") = "busy" BY DEF LiveOf, Terminal, Waiting
    <2>3. SetRow(r, x) BY <1>3, <2>2 DEF MarkRunning, Marked
    <2>4. v \in {"none", "busy"} /\ v \in Live BY DEF LiveAfter, Live
    <2>5. row[r].worker \in Owner /\ row[r].lease \in LeaseLeft
      BY <1>1 DEF Row, Owner, LeaseLeft
    <2> HIDE DEF v
    <2>6. x \in Row /\ x.worker = row[r].worker /\ x.lease = row[r].lease /\ x.live = v
      BY <1>1, <2>4, <2>5, Literals, PutType
    <2> HIDE DEF x
    <2>7. row'[r] = x => Holds(r)
      BY <1>1, <2>1, <2>4, <2>6, WorkerAssumption
         DEF Holds, HoldInv, LeaseHeld, LooseIsVisible, LeaseValid, Respected
    <2> QED BY <2>3, <2>6, <2>7, OneRow
  <1> QED BY <1>2, <1>3

LEMMA FinishHolds ==
  ASSUME HInv, NEW w \in Worker, NEW r \in Run, NEW s \in Terminal, Finish(w, r, s)
  PROVE  \A q \in Run : Holds(q)
  <1>1. TypeOK /\ RunInv(r) BY DEF HInv, IInv
  <1>2. CASE ~IsActive(r) BY <1>2, NoRow DEF Finish
  <1>3. CASE IsActive(r) /\ s # "orphaned"
    BY <1>3, Literals, LeaveByMark DEF Finish, Terminal
  <1>4. CASE IsActive(r) /\ s = "orphaned"
    <2> DEFINE x == Marked(r, "orphaned")
    <2>1. SetRow(r, x) BY <1>4 DEF Finish
    <2>2. x \in Row /\ x.status = "orphaned" BY <1>1, MarkedType, Literals DEF Terminal
    <2> HIDE DEF x
    <2>3. loop[w][r] = "starting" BY <1>4 DEF Finish
    <2>4. loop'[w][r] = "closing" BY <1>1, LoopWrite DEF Finish, LoopState
    <2>5. row[r].status = "running" => row[r].worker = w \/ r \in BackgroundCommand
      BY <1>1, <2>3 DEF RunInv, ExecutingLoopOwnsRun, Executing
    <2>6. row'[r] = x => Holds(r)
      BY <2>2, <2>3, <2>4, <2>5 DEF Holds, HoldInv, LeaseHeld, LooseIsVisible, Respected
    <2> QED BY <2>1, <2>2, <2>6, OneRow
  <1> QED BY <1>2, <1>3, <1>4

LEMMA LeaveLoopHolds ==
  ASSUME HInv, NEW w \in Worker, NEW r \in Run,
         (\E k \in Waiting : RequestInteraction(w, r, k)) \/ FailForWallClock(w, r)
  PROVE  \A q \in Run : Holds(q)
  <1>1. "failed" \in Status \ {"running", "orphaned"}
        /\ Waiting \subseteq Status \ {"running", "orphaned"}
    BY DEF Status, Waiting, Terminal
  <1>2. ASSUME NEW k \in Waiting, RequestInteraction(w, r, k)
        PROVE  \A q \in Run : Holds(q)
    BY <1>1, <1>2, NoRow, LeaveByMark DEF RequestInteraction
  <1>3. CASE FailForWallClock(w, r) BY <1>1, <1>3, LeaveByMark DEF FailForWallClock
  <1> QED BY <1>2, <1>3

-----------------------------------------------------------------------------
LEMMA InitHold == Init => HInv
  <1> SUFFICES ASSUME Init PROVE HInv OBVIOUS
  <1>1. IInv BY InitInv
  <1>2. ASSUME NEW r \in Run PROVE HoldInv(r)
    <2>1. row[r] = AbsentRow BY DEF Init
    <2> QED BY <2>1, AbsentRowType DEF HoldInv, LeaseHeld, LooseIsVisible
  <1> QED BY <1>1, <1>2 DEF HInv

LEMMA NextHold == HInv /\ [Next]_vars => \A q \in Run : Holds(q)
  <1> SUFFICES ASSUME HInv, [Next]_vars PROVE \A q \in Run : Holds(q) OBVIOUS
  <1>1. ASSUME NEW w \in Worker, NEW r \in Run, LoopStep(w, r)
        PROVE  \A q \in Run : Holds(q)
    <2>1. CASE AcquireLease(w, r) BY <2>1, AcquireHolds
    <2>2. CASE RenewLease(w, r) BY <2>2, RenewHolds
    <2>3. CASE \/ HandOff(w, r) \/ FallbackRelease(w, r)
               \/ \E f \in ReleaseStatus \cup {"none"}, why \in {"other", "handoff"} :
                    ReleaseLease(w, r, f, why)
      BY <2>3, GiveUpHolds
    <2>4. CASE MarkRunning(w, r) BY <2>4, MarkRunningHolds
    <2>5. CASE (\E k \in Waiting : RequestInteraction(w, r, k)) \/ FailForWallClock(w, r)
      BY <2>5, LeaveLoopHolds
    <2>6. CASE \E s \in Terminal : Finish(w, r, s) BY <2>6, FinishHolds
    <2>7. CASE AbortLoop(w, r) \/ ToolStart(w, r) \/ ToolInvoke(w, r) \/ ToolComplete(w, r)
      BY <2>7, NoRow DEF AbortLoop, ToolStart, ToolInvoke, ToolComplete
    <2> QED BY <1>1, <2>1, <2>2, <2>3, <2>4, <2>5, <2>6, <2>7 DEF LoopStep
  <1>2. CASE StoreStep BY <1>2, ProducerHolds, RetryHolds, CancelHolds, ReapHolds DEF StoreStep
  <1>3. CASE (\E w \in Worker : Crash(w)) \/ UNCHANGED vars BY <1>3, NoRow DEF Crash, vars
  <1>4. CASE Tick BY <1>4, TickHolds
  <1> QED BY <1>1, <1>2, <1>3, <1>4 DEF Next

\* The inductive invariant of the leases holds in every reachable state.
THEOREM HoldInvariant == Spec => []HInv
  <1>1. HInv /\ [Next]_vars => HInv' BY NextInv, NextHold DEF HInv, Holds
  <1> QED BY <1>1, InitHold, PTL DEF Spec

\* Renewals that arrive in time keep a run: no other process, and not the reaper, takes
\* a run away from an owner whose lease is valid, or marks it stale.
THEOREM LeaseRespected == Spec => ValidLeaseIsRespected
  <1>1. HInv /\ [Next]_vars
          => [\A r \in Run, w \in Worker :
                row[r].status = "running" /\ row[r].worker = w /\ LeaseValid(r)
                  => \/ row'[r].worker = w /\ row'[r].live # "stale"
                     \/ loop'[w][r] # loop[w][r]
                     \/ row'[r].status \notin {"running", "orphaned"}
                     \/ /\ row'[r].status = "orphaned" /\ r \in BackgroundCommand
                        /\ \E v \in Worker : loop[v][r] = "starting"
                                               /\ loop'[v][r] = "closing"]_vars
    BY NextHold DEF Holds, Respected
  <1> QED BY <1>1, HoldInvariant, PTL DEF Spec, ValidLeaseIsRespected

\* If no caller of lease.release() passes running as the final status, a running run is
\* leased, recoverable or visible to the reaper, as the warning in releaseRunLease says.
THEOREM RunningRecoverable ==
  ASSUME "running" \notin ReleaseStatus
  PROVE  Spec => []RunningRunIsRecoverable
  <1>1. HInv => RunningRunIsRecoverable
    BY DEF HInv, HoldInv, LooseIsVisible, RunningRunIsRecoverable
  <1> QED BY <1>1, HoldInvariant, PTL

=============================================================================
