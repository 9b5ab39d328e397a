------------------------------ MODULE RunLease ------------------------------
(***************************************************************************)
(* The runtime_runs table of the durable run store and the scheduler       *)
(* processes that lease runs from it (server/src/runtime).                 *)
(*                                                                         *)
(* Every UPDATE of the store is one PostgreSQL statement or one            *)
(* transaction under a row or advisory lock, so it is one action here.     *)
(* What a process does between two statements is not atomic: a process     *)
(* whose lease has been lost keeps its loop (and goes on writing) until it *)
(* notices.  An instant kept in the table is represented by its distance   *)
(* to the present, which is all the code compares: `lease' is the time     *)
(* left before lease_expires_at, `age' the time since                      *)
(* liveness_detected_at.                                                   *)
(*                                                                         *)
(* Out of this module: capacity admission (RunCapacity), steering          *)
(* (Steering), terminal event delivery (TerminalOutbox), background        *)
(* agents; waiting_hand, which no code of the repository ever writes.      *)
(***************************************************************************)
EXTENDS Integers, FiniteSets

CONSTANTS
  Run,            \* run ids; the number is the row's enqueue_seq
  Session,        \* conversation sessions (of one tenant)
  SessionOf,      \* the session a run is enqueued in
  BackgroundCommand, \* runs with metadata.backgroundTask that monitor a command
  Worker,         \* scheduler processes, one workerId each
  NoWorker,       \* worker_id IS NULL
  LegacyWorker,   \* processes still running release N-1 during a deploy
  LeaseTime,      \* leaseMs in clock ticks
  Grace,          \* livenessStaleGraceMs in clock ticks
  ReleaseStatus   \* finalStatus values callers pass to lease.release()

ASSUME RunAssumption == Run \subseteq Nat
ASSUME SessionAssumption == SessionOf \in [Run -> Session]
ASSUME BackgroundAssumption == BackgroundCommand \subseteq Run
ASSUME WorkerAssumption == NoWorker \notin Worker /\ LegacyWorker \subseteq Worker
ASSUME TimeAssumption == LeaseTime \in Nat \ {0} /\ Grace \in Nat
ASSUME ReleaseAssumption ==
  ReleaseStatus \subseteq {"running", "waiting_approval", "waiting_user", "failed"}

VARIABLES
  row,    \* the runtime_runs row of each run
  loop,   \* where the wake loop of a process for a run stands
  tool,   \* the tool invocation a process registered for a run
  alive   \* the processes that have not crashed

vars == <<row, loop, tool, alive>>

Waiting  == {"waiting_approval", "waiting_user"}
Terminal == {"completed", "failed", "cancelled", "orphaned"}
Status   == {"absent", "pending", "running"} \cup Waiting \cup Terminal

\* liveness_state; "none" stands for a row whose liveness_version IS NULL
Live == {"none", "active", "busy", "stale", "waiting_interaction", "terminal", "orphaned"}

\* liveness_reason_code as far as the code tells reasons apart: the reasons of a
\* legacy drain handoff, an unknown tool outcome, and every other reason
Reason == {"other", "handoff", "external_tool_outcome_unknown"}

NoLease == -2   \* lease_expires_at IS NULL
Overdue == -1   \* lease_expires_at strictly in the past

Row == [status  : Status,
        worker  : Worker \cup {NoWorker},
        tokenBy : Worker \cup {NoWorker},  \* whose acquisition wrote runLeaseToken
        lease   : NoLease .. LeaseTime,
        live    : Live,
        reason  : Reason,
        age     : 0 .. Grace,
        ready   : BOOLEAN,                 \* metadata.drainHandoffReady
        staged  : {"no"} \cup Waiting,     \* schedulerState staged by a resume of ...
        retried : BOOLEAN]                 \* metadata.explicitRetryRunId present

AbsentRow == [status |-> "absent", worker |-> NoWorker, tokenBy |-> NoWorker,
              lease |-> NoLease, live |-> "none", reason |-> "other", age |-> 0,
              ready |-> FALSE, staged |-> "no", retried |-> FALSE]

\* "starting": leased, before the dispatch marks the run running; "looping": the
\* agent loop runs; "closing": the loop is over or aborted, its lease not yet
\* released; "refused": a handoff was refused, the fallback release is next
LoopState == {"none", "starting", "looping", "closing", "refused"}

\* "open": invocation row running, not yet claimed; "invoked": the claim committed
\* and the side effect may happen
ToolState == {"none", "open", "invoked"}

TypeOK ==
  /\ row \in [Run -> Row]
  /\ loop \in [Worker -> [Run -> LoopState]]
  /\ tool \in [Worker -> [Run -> ToolState]]
  /\ alive \subseteq Worker

Init ==
  /\ row = [r \in Run |-> AbsentRow]
  /\ loop = [w \in Worker |-> [r \in Run |-> "none"]]
  /\ tool = [w \in Worker |-> [r \in Run |-> "none"]]
  /\ alive = Worker

-----------------------------------------------------------------------------
(* Predicates on a row *)

IsActive(r) == row[r].status \in {"pending", "running"} \cup Waiting

\* EXISTS a tool invocation of the run with status running
ToolRunning(r) == \E w \in Worker : tool[w][r] # "none"

LeaseValid(r)   == row[r].lease > 0
LeaseOverdue(r) == row[r].lease = Overdue          \* lease_expires_at <  now
LeaseExpired(r) == row[r].lease \in {Overdue, 0}   \* lease_expires_at <= now

OwnedBy(w, r)  == row[r].worker = w
FencedBy(w, r) == OwnedBy(w, r) /\ row[r].tokenBy = w

\* Mutant of RecoverableHandoff: a handover is taken over while a tool runs
RecoverableWithTool(r) ==
  /\ row[r].status = "running"
  /\ row[r].worker = NoWorker
  /\ row[r].lease = NoLease
  /\ \/ row[r].live = "none" /\ row[r].ready
     \/ row[r].live = "stale" /\ row[r].reason = "handoff"

\* recoverableRunHandoffSql
RecoverableHandoff(r) ==
  /\ row[r].status = "running"
  /\ row[r].worker = NoWorker
  /\ row[r].lease = NoLease
  /\ \/ row[r].live = "none" /\ row[r].ready
     \/ row[r].live = "stale" /\ row[r].reason = "handoff"
  /\ ~ToolRunning(r)

\* Mutant of BlockersCleared: only the queue order is checked, not the executing run
QueueOrderOnly(r) ==
  \A q \in Run \ {r} : SessionOf[q] = SessionOf[r] =>
    (row[r].status = "pending" /\ row[q].status = "pending" => r < q)

\* Mutant of BlockersCleared: an older queued run of the session does not block
IgnoreQueueOrder(r) ==
  \A q \in Run \ {r} : SessionOf[q] = SessionOf[r] => row[q].status # "running"

\* runLeaseBlockersClearedSql without its steering clause
BlockersCleared(r) ==
  \A q \in Run \ {r} : SessionOf[q] = SessionOf[r] =>
    /\ row[q].status # "running"
    /\ row[r].status = "pending" /\ row[q].status = "pending" => r < q

\* liveness_state written by a status change: a NULL version stays NULL
LiveAfter(r, state) == IF row[r].live = "none" THEN "none" ELSE state

LiveOf(s) == CASE s = "orphaned" -> "orphaned"
               [] s \in Terminal \ {"orphaned"} -> "terminal"
               [] s \in Waiting -> "waiting_interaction"
               [] s = "running" -> "busy"
               [] OTHER -> "active"

\* The columns that every transition of the store writes together
Put(x, status, worker, lease, live, reason) ==
  [x EXCEPT !.status = status, !.worker = worker, !.lease = lease,
            !.live = live, !.reason = reason, !.age = 0]

\* The row after markRunStatus / markRunStatusIfCurrent
Marked(r, s) ==
  Put(row[r], s, IF s = "running" THEN row[r].worker ELSE NoWorker,
      IF s = "running" THEN row[r].lease ELSE NoLease, LiveAfter(r, LiveOf(s)), "other")

SetRow(r, value) == row' = [row EXCEPT ![r] = value]
SetLoop(w, r, state) == loop' = [loop EXCEPT ![w][r] = state]

-----------------------------------------------------------------------------
(* Producers of runs *)

\* createPendingRun, the INSERT of upsertPendingRun and of enqueueUserMessage
Enqueue(r) ==
  /\ row[r].status = "absent"
  /\ SetRow(r, [AbsentRow EXCEPT !.status = "pending", !.live = "active"])
  /\ UNCHANGED <<loop, tool, alive>>

\* upsertPendingRun on an existing row: a waiting run becomes pending
UpsertPending(r) ==
  /\ row[r].status \in Waiting
  /\ SetRow(r, Put(row[r], "pending", NoWorker, NoLease, "active", "other"))
  /\ UNCHANGED <<loop, tool, alive>>

\* claimPersistedInteractionResume: the answer of the user is staged first
ResumeClaim(r) ==
  /\ row[r].status \in Waiting
  /\ SetRow(r, [Put(row[r], "pending", NoWorker, NoLease, LiveAfter(r, "active"), "other")
                  EXCEPT !.staged = row[r].status])
  /\ UNCHANGED <<loop, tool, alive>>

\* activatePersistedInteractionResume
ResumeActivate(r) ==
  /\ row[r].status = "pending" /\ row[r].staged # "no"
  /\ SetRow(r, [row[r] EXCEPT !.staged = "no"])
  /\ UNCHANGED <<loop, tool, alive>>

\* rollbackPersistedInteractionResume
ResumeRollback(r) ==
  /\ row[r].status = "pending" /\ row[r].staged # "no"
  /\ SetRow(r, [Put(row[r], row[r].staged, NoWorker, NoLease,
                    LiveAfter(r, "waiting_interaction"), "other") EXCEPT !.staged = "no"])
  /\ UNCHANGED <<loop, tool, alive>>

\* retryOrphanedUserMessage: q is the fresh run inserted for the orphaned run r, with
\* a copy of its metadata
RetryOrphaned(r, q) ==
  /\ row[r].status = "orphaned" /\ ~row[r].retried
  /\ row[r].live # "none" /\ row[r].reason # "external_tool_outcome_unknown"
  /\ ~ToolRunning(r)
  /\ row[q].status = "absent" /\ SessionOf[q] = SessionOf[r]
  /\ q \in BackgroundCommand <=> r \in BackgroundCommand
  /\ row' = [row EXCEPT ![r] = [@ EXCEPT !.retried = TRUE],
                        ![q] = Put(row[r], "pending", NoWorker, NoLease, "active", "other")]
  /\ UNCHANGED <<loop, tool, alive>>

-----------------------------------------------------------------------------
(* Leases *)

\* Mutant of Acquirable: an expired command monitor is not taken over
AcquirableForeground(r) ==
  /\ \/ row[r].status = "pending" /\ row[r].staged = "no"
     \/ /\ row[r].status = "running" /\ row[r].live = "none"
        /\ row[r].lease = NoLease \/ LeaseOverdue(r)
     \/ RecoverableHandoff(r)
  /\ BlockersCleared(r)

\* The WHERE clause of acquireLease
Acquirable(r) ==
  /\ \/ row[r].status = "pending" /\ row[r].staged = "no"
     \/ /\ row[r].status = "running"
        /\ row[r].live = "none" \/ r \in BackgroundCommand
        /\ row[r].lease = NoLease \/ LeaseOverdue(r)
     \/ RecoverableHandoff(r)
  /\ BlockersCleared(r)

\* launch + tryHandle up to the lease: a process runs one loop per session
AcquireLease(w, r) ==
  /\ w \in alive
  /\ \A q \in Run : SessionOf[q] = SessionOf[r] => loop[w][q] = "none"
  /\ Acquirable(r)
  /\ SetRow(r, [Put(row[r], "running", w, LeaseTime, "busy", "other")
                  EXCEPT !.tokenBy = w, !.ready = FALSE])
  /\ SetLoop(w, r, "starting")
  /\ UNCHANGED <<tool, alive>>

\* renewRunLease; the age of liveness_detected_at restarts only when the state changes
RenewLease(w, r) ==
  /\ w \in alive /\ loop[w][r] \in {"starting", "looping", "closing"}
  /\ FencedBy(w, r) /\ row[r].status = "running" /\ row[r].live # "stale"
  /\ SetRow(r, [row[r] EXCEPT !.lease = LeaseTime, !.live = "busy", !.reason = "other",
                  !.age = IF row[r].live = "busy" THEN @ ELSE 0])
  /\ UNCHANGED <<loop, tool, alive>>

\* Mutants of Released: the final status is written when it is omitted, over a
\* terminal status, and without leaving a running run stale
ReleasedBlindly(r, f, why) ==
  Put(row[r], f, NoWorker, NoLease, LiveAfter(r, LiveOf(f)), why)

ReleasedOverTerminal(r, f, why) ==
  LET s == IF f = "none" THEN row[r].status ELSE f
  IN  Put(row[r], s, NoWorker, NoLease, LiveAfter(r, LiveOf(s)), why)

ReleasedBusy(r, f, why) ==
  LET s == IF row[r].status \in Terminal \/ f = "none" THEN row[r].status ELSE f
  IN  Put(row[r], s, NoWorker, NoLease, LiveAfter(r, LiveOf(s)), why)

\* releaseRunLease: the new row when finalStatus is f ("none" when omitted)
Released(r, f, why) ==
  LET kept == row[r].status \in Terminal \/ f = "none"
      s    == IF kept THEN row[r].status ELSE f
      live == IF f = "none" /\ row[r].status = "running" THEN "stale" ELSE LiveOf(s)
  IN  Put(row[r], s, NoWorker, NoLease, LiveAfter(r, live),
          IF row[r].live = "none" THEN "other" ELSE why)

\* lease.release(finalStatus) at the end of a wake.  A waiting finalStatus comes from
\* a wake that found its own unanswered interaction before dispatching.  A release by
\* a process that is no longer the owner changes nothing.
ReleaseLease(w, r, f, why) ==
  /\ w \in alive /\ loop[w][r] \in {"starting", "closing"}
  /\ f \in Waiting => loop[w][r] = "starting" /\ r \notin BackgroundCommand
  /\ why = "handoff" => w \in LegacyWorker /\ f = "none"
  /\ IF FencedBy(w, r) THEN SetRow(r, Released(r, f, why)) ELSE UNCHANGED row
  /\ SetLoop(w, r, "none")
  /\ UNCHANGED <<tool, alive>>

\* Mutant of HandoffAllowed: running tool invocations are not looked at
HandoffWithTool(w, r) ==
  /\ OwnedBy(w, r) /\ row[r].status = "running" /\ LeaseValid(r)
  /\ row[r].live \in {"none", "busy"}

\* releaseRunLeaseForHandoff: fenced by worker_id only, refused while a tool runs
HandoffAllowed(w, r) ==
  /\ OwnedBy(w, r) /\ row[r].status = "running" /\ LeaseValid(r)
  /\ row[r].live \in {"none", "busy"}
  /\ ~ToolRunning(r)

HandOff(w, r) ==
  /\ w \in alive /\ loop[w][r] \in {"starting", "closing"}
  /\ IF HandoffAllowed(w, r)
       THEN /\ SetRow(r, [Put(row[r], "running", NoWorker, NoLease, "none", "other")
                            EXCEPT !.ready = TRUE])
            /\ SetLoop(w, r, "none")
       ELSE UNCHANGED row /\ SetLoop(w, r, "refused")
  /\ UNCHANGED <<tool, alive>>

\* The release that follows a refused handoff: no final status, no lease token.  Its
\* failure is logged and swallowed, the lease is then left to expire.
FallbackRelease(w, r) ==
  /\ w \in alive /\ loop[w][r] = "refused"
  /\ \/ OwnedBy(w, r) /\ SetRow(r, Released(r, "none", "external_tool_outcome_unknown"))
     \/ UNCHANGED row
  /\ SetLoop(w, r, "none")
  /\ UNCHANGED <<tool, alive>>

-----------------------------------------------------------------------------
(* What a wake loop writes; none of these statements checks the lease *)

\* markRunState(running) by the dispatch and by a resolved interaction event
MarkRunning(w, r) ==
  /\ w \in alive /\ loop[w][r] \in {"starting", "looping"}
  /\ IF row[r].status \in Terminal THEN UNCHANGED row ELSE SetRow(r, Marked(r, "running"))
  /\ SetLoop(w, r, "looping")
  /\ UNCHANGED <<tool, alive>>

\* trackRunStateAfterEvent on approval_requested / interaction_requested: the run
\* parks and the loop ends
RequestInteraction(w, r, k) ==
  /\ w \in alive /\ loop[w][r] = "looping" /\ tool[w][r] = "none"
  /\ r \notin BackgroundCommand
  /\ IF row[r].status \in Terminal THEN UNCHANGED row ELSE SetRow(r, Marked(r, k))
  /\ SetLoop(w, r, "closing")
  /\ UNCHANGED <<tool, alive>>

\* finalizeTerminalRun by the loop: the CAS on a non-terminal status is the verdict.
\* A run that cannot be woken (no waker, a parentless subagent) is orphaned at once.
Finish(w, r, s) ==
  /\ w \in alive /\ loop[w][r] \in {"starting", "looping", "closing"}
  /\ s = "orphaned" => loop[w][r] = "starting"
  /\ IF IsActive(r) THEN SetRow(r, Marked(r, s)) ELSE UNCHANGED row
  /\ SetLoop(w, r, "closing")
  /\ UNCHANGED <<tool, alive>>

\* The loop stops without a verdict: drain, a failed renewal, an aborted dispatch
AbortLoop(w, r) ==
  /\ w \in alive /\ loop[w][r] = "looping"
  /\ SetLoop(w, r, "closing")
  /\ UNCHANGED <<row, tool, alive>>

\* Mutant of ToolStart: the run is not checked when an invocation is registered
ToolStartUnchecked(w, r) ==
  /\ w \in alive /\ loop[w][r] = "looping" /\ tool[w][r] = "none"
  /\ tool' = [tool EXCEPT ![w][r] = "open"]
  /\ UNCHANGED <<row, loop, alive>>

\* toolInvocationStore.start: a terminal or handed-off run gets a failed invocation.
\* The monitor of a background command registers no invocations.
ToolStart(w, r) ==
  /\ w \in alive /\ loop[w][r] = "looping" /\ tool[w][r] = "none"
  /\ r \notin BackgroundCommand
  /\ row[r].status \notin Terminal
  /\ ~(row[r].worker = NoWorker /\ row[r].ready)
  /\ tool' = [tool EXCEPT ![w][r] = "open"]
  /\ UNCHANGED <<row, loop, alive>>

\* invokeWithPgActiveRunGate: the claim that precedes the side effect
ToolInvoke(w, r) ==
  /\ w \in alive /\ loop[w][r] = "looping" /\ tool[w][r] = "open"
  /\ row[r].status = "running" /\ OwnedBy(w, r) /\ LeaseValid(r)
  /\ tool' = [tool EXCEPT ![w][r] = "invoked"]
  /\ UNCHANGED <<row, loop, alive>>

\* toolInvocationStore.complete, also after the loop has been aborted
ToolComplete(w, r) ==
  /\ w \in alive /\ tool[w][r] # "none"
  /\ tool' = [tool EXCEPT ![w][r] = "none"]
  /\ UNCHANGED <<row, loop, alive>>

-----------------------------------------------------------------------------
(* Verdicts from outside the loop *)

\* markStatus(cancelled), cancelUserMessageByClientMsgId, cancelActiveRunsByUser
CancelRun(r) ==
  /\ IsActive(r)
  /\ SetRow(r, Marked(r, "cancelled"))
  /\ UNCHANGED <<loop, tool, alive>>

\* cancelActiveByTenant: status only, worker, lease and liveness stay behind
CancelTenant ==
  /\ \E r \in Run : IsActive(r)
  /\ row' = [r \in Run |-> IF IsActive(r) THEN [row[r] EXCEPT !.status = "cancelled"] ELSE row[r]]
  /\ UNCHANGED <<loop, tool, alive>>

\* cancelStaleWaitingApproval, whose cutoff is an arbitrary delay here
CancelStaleApproval(r) ==
  /\ row[r].status = "waiting_approval"
  /\ SetRow(r, [row[r] EXCEPT !.status = "cancelled", !.worker = NoWorker, !.lease = NoLease])
  /\ UNCHANGED <<loop, tool, alive>>

\* failRunningRunForWallClock: the CAS expects running, then the loop is aborted
FailForWallClock(w, r) ==
  /\ w \in alive /\ loop[w][r] = "looping" /\ row[r].status = "running"
  /\ SetRow(r, Marked(r, "failed"))
  /\ SetLoop(w, r, "closing")
  /\ UNCHANGED <<tool, alive>>

\* Mutants of the reaper: a stale run without a lease is not terminated; the lease is
\* not compared with the clock
ReapOrphanWithLease(r) ==
  /\ row[r].status = "running" /\ r \notin BackgroundCommand
  /\ row[r].live = "stale" /\ row[r].age >= Grace /\ LeaseExpired(r)
  /\ ~RecoverableHandoff(r)

ReapStaleEarly(r) ==
  /\ row[r].status = "running" /\ r \notin BackgroundCommand
  /\ row[r].live = "busy"

\* reapExpiredRunLiveness
ReapOrphan(r) ==
  /\ row[r].status = "running" /\ r \notin BackgroundCommand
  /\ row[r].live = "stale" /\ row[r].age >= Grace
  /\ ~RecoverableHandoff(r)

ReapStale(r) ==
  /\ row[r].status = "running" /\ r \notin BackgroundCommand
  /\ row[r].live = "busy" /\ LeaseExpired(r)

Reaped(r) ==
  IF ReapOrphan(r)
    THEN Put(row[r], "orphaned", NoWorker, NoLease, "orphaned",
             IF ToolRunning(r) THEN "external_tool_outcome_unknown" ELSE "other")
    ELSE Put(row[r], row[r].status, row[r].worker, row[r].lease, "stale", "other")

\* One transaction of the reaper: rows that another transaction has locked, or that
\* exceed the batch limit, are left for the next tick
Reap(S) ==
  /\ S # {} /\ alive # {}
  /\ \A r \in S : ReapOrphan(r) \/ ReapStale(r)
  /\ row' = [r \in Run |-> IF r \in S THEN Reaped(r) ELSE row[r]]
  /\ UNCHANGED <<loop, tool, alive>>

-----------------------------------------------------------------------------
(* Environment *)

\* A process dies; a replacement has a fresh workerId, so one process stays
Crash(w) ==
  /\ w \in alive /\ alive # {w}
  /\ alive' = alive \ {w}
  /\ loop' = [loop EXCEPT ![w] = [r \in Run |-> "none"]]
  /\ UNCHANGED <<row, tool>>

Later(l) == IF l > Overdue THEN l - 1 ELSE l

Tick ==
  /\ row' = [r \in Run |-> [row[r] EXCEPT !.lease = Later(@),
                              !.age = IF @ < Grace THEN @ + 1 ELSE @]]
  /\ UNCHANGED <<loop, tool, alive>>

-----------------------------------------------------------------------------
LoopStep(w, r) ==
  \/ AcquireLease(w, r) \/ RenewLease(w, r) \/ HandOff(w, r) \/ FallbackRelease(w, r)
  \/ \E f \in ReleaseStatus \cup {"none"}, why \in {"other", "handoff"} :
       ReleaseLease(w, r, f, why)
  \/ MarkRunning(w, r) \/ AbortLoop(w, r) \/ FailForWallClock(w, r)
  \/ \E k \in Waiting : RequestInteraction(w, r, k)
  \/ \E s \in Terminal : Finish(w, r, s)
  \/ ToolStart(w, r) \/ ToolInvoke(w, r) \/ ToolComplete(w, r)

StoreStep ==
  \/ \E r \in Run : \/ Enqueue(r) \/ UpsertPending(r) \/ ResumeClaim(r)
                    \/ ResumeActivate(r) \/ ResumeRollback(r)
                    \/ CancelRun(r) \/ CancelStaleApproval(r)
  \/ \E r, q \in Run : RetryOrphaned(r, q)
  \/ CancelTenant
  \/ \E S \in SUBSET Run : Reap(S)

Next ==
  \/ \E w \in Worker, r \in Run : LoopStep(w, r)
  \/ StoreStep
  \/ \E w \in Worker : Crash(w)
  \/ Tick

Spec == Init /\ [][Next]_vars

\* What the code schedules by itself: time passes, every live process ticks (reaper,
\* recovery scan), and a loop ends (runtimeRunController.armWallClock) and then
\* releases.  Renewals, users and tools promise nothing.
Fairness ==
  /\ WF_vars(Tick)
  /\ \A r \in Run : WF_vars(\E S \in SUBSET Run : r \in S /\ Reap(S))
  /\ \A r \in Run : WF_vars(\E w \in Worker : AcquireLease(w, r))
  /\ \A w \in Worker, r \in Run :
       /\ WF_vars(MarkRunning(w, r) /\ loop[w][r] = "starting")
       /\ WF_vars(AbortLoop(w, r))
       /\ WF_vars(ReleaseLease(w, r, "none", "other"))
       /\ WF_vars(FallbackRelease(w, r))

FairSpec == Spec /\ Fairness

-----------------------------------------------------------------------------
(* Properties *)

\* The run queue of a session as its clients see it: the lease protocol implements
\* RunLifecycle, so runs of a session start in enqueue order and one at a time, only a
\* paused run is queued again, and no verdict is ever revised, whatever the processes
\* do with their leases.
Phase(s) == CASE s = "pending" -> "queued"
              [] s = "running" -> "executing"
              [] s \in Waiting -> "parked"
              [] OTHER -> s

Lifecycle == INSTANCE RunLifecycle WITH phase <- [r \in Run |-> Phase(row[r].status)]

ImplementsLifecycle == Lifecycle!Spec

\* A terminal status is a sink: no writer - a late loop, an upsert, a resume, a
\* release, the reaper - moves a run out of it or from one verdict to another
\* (runStatusCas: "Terminal statuses are sinks").
TerminalIsFinal ==
  [][\A r \in Run : row[r].status \in Terminal => row'[r].status = row[r].status]_vars

\* The session gate of acquireLease is checked only when a lease is taken, yet a
\* session never has two runs in status running, although dispatches and interaction
\* events write running without looking at the lease or at the session.
OneExecutingRunPerSession ==
  \A r, q \in Run : r # q /\ SessionOf[r] = SessionOf[q]
                      => ~(row[r].status = "running" /\ row[q].status = "running")

\* No two processes are inside the side effect of the same run at the same time: a
\* run changes hands only when the outcome of its last tool call is known
\* (runLeaseHandoff: fail closed while an external tool is unresolved).
ExclusiveToolExecution ==
  \A r \in Run : \A v, w \in Worker :
    tool[v][r] = "invoked" /\ tool[w][r] = "invoked" => v = w

\* The input of a run is offered again (explicit retry) only when none of its tool
\* calls can still have an effect: a retried run never has a running invocation, not
\* even one that a late loop registers afterwards.
RetriedRunIsQuiet ==
  \A r \in Run : row[r].retried => ~ToolRunning(r)

\* An unexpired lease protects its owner: while it is valid, only the owner's own step
\* or a verdict or a question on the run (never the reaper's) takes the run away from
\* the owner or marks it stale, so renewals that arrive in time keep a run alive.  The
\* verdict may be that of a process that lost a command monitor before it woke it.
ValidLeaseIsRespected ==
  [][\A r \in Run, w \in Worker :
       row[r].status = "running" /\ row[r].worker = w /\ LeaseValid(r)
         => \/ row'[r].worker = w /\ row'[r].live # "stale"
            \/ loop'[w][r] # loop[w][r]
            \/ row'[r].status \notin {"running", "orphaned"}
            \/ /\ row'[r].status = "orphaned" /\ r \in BackgroundCommand
               /\ \E v \in Worker : loop[v][r] = "starting" /\ loop'[v][r] = "closing"]_vars

\* A run that was handed over is replayable: it has no owner, and no tool invocation
\* of it is running or can start before the next process has leased it.
HandedOverRunIsReplayable ==
  \A r \in Run : row[r].status = "running" /\ row[r].live = "none"
                   => row[r].worker = NoWorker /\ ~ToolRunning(r)

\* A run in status running that no process is executing any more - its process died,
\* released it, or handed it over - does not stay that way: it is leased again or it
\* reaches a terminal status, and the session behind it moves on.
Abandoned(r) == row[r].status = "running" /\ \A w \in Worker : loop[w][r] = "none"

AbandonedRunIsResolved == \A r \in Run : Abandoned(r) ~> ~Abandoned(r)

\* The claim of the warning in releaseRunLease: a run released while it is still
\* running is left stale, so that the reaper terminates it after the grace period.
\* Every running run is owned, recoverable or visible to the reaper.
RunningRunIsRecoverable ==
  \A r \in Run : row[r].status = "running"
                   => \/ row[r].lease # NoLease
                      \/ row[r].live \in {"none", "stale"}
                      \/ r \in BackgroundCommand

=============================================================================
