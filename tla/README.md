# Verification of the durable run runtime

This directory models the part of the repository that decides who executes what
and when: the run store on PostgreSQL, the scheduler processes that lease runs
from it, the publication of verdicts, the injection of messages into active runs,
the resumption of runs by answers, and the lock of a session (under
`src/server/src/runtime`, with the web channel and the approval service that call
it).  It holds TLA+ modules, TLC
configurations, proofs checked by TLAPS, and `PROJECT.json`, which maps every
definition to the lines it models and lists runs, mutants, hazards, findings and
theorems.

    tlc -workers 2 -config RunLease.cfg MCRunLease
    tlapm RunLeaseProofs.tla

## 1. Inventory

The repository is a TypeScript monorepo: a server (Express, WebSocket, agent
runtime, stores, cron, billing, task board, embedded applications, chat
channels), an orchestrator of sandboxes on Kubernetes (`acs-orchestrator`), a
tool executor (`hand-server`), web and mobile clients with a shared package,
application packages and release scripts.  Everything a user sees passes through
a *run*: a chat message is a run of its session, and so are cron turns, subagents
and background tasks.

| Part | State | Operations | Talks to | Hard |
|---|---|---|---|---|
| Run store (`runStore*.ts`, `runStatusCas.ts`, `runLease*.ts`, `runTerminalLifecycle.ts`) | `runtime_runs`: status, worker, lease, liveness, metadata; `steering_inputs`; `steering_sessions` | enqueue, lease, renew, release, hand off, mark, reap, cancel, retry, resume | every process, by SQL | several processes, two releases at once during a deploy, crashes, unfenced writes |
| Scheduler (`scheduler.ts`) | in-flight runs of a process | tick: reap, cancel stale approvals, recover, lease, launch; drain | run store, wake dispatch | lease lost while the loop runs; handoff refused |
| Wake dispatch and agent loop (`rawRuntimeRunDispatch.ts`, `rawAgentLoop*.ts`) | the loop's memory | mark running, model turns, tools, ask, finish, release | run, event and tool stores | everything read before an await |
| Tool invocations (`toolInvocationStore.ts`, `pgToolInvocationRunGate.ts`) | invocation rows | start, gate, complete, cancel | run row, hands | side effects that cannot be undone |
| Terminal coordinator and outbox (`runTerminalCoordinator.ts`, `runTerminalOutbox*.ts`) | outbox in the run's metadata | decide, claim, renew, append, acknowledge, reject | event store | claim lost in the middle, lost replies, repair of verdicts without an outbox |
| Steering (`runStore.ts`, `rawAgentLoopInterjections.ts`) | input rows, sealed windows, stop marks | enqueue, list, reserve, apply, seal, release, withdraw, stop | web channel, agent loop | what was listed or reserved changes before it is applied |
| Event store (`pgEventStore.ts`) | session event logs | append, replay, notify | all of the above, clients | ordering and idempotence |
| Approvals and interactions (`channels/web/channel.ts`, `channelRuntimeHelpers.ts`, `dws/orgAgentApprovalService.ts`, `approvalStore.ts`) | request and response events, the claim in the run's metadata | answer, claim, append, activate, roll back, recover, fail closed | web channel, approval service, scheduler, wake | the answer and the run are separate writes; several answers at once; the run ends in between |
| Session lock (`pgSessionLock.ts`) | advisory lock, two lease tables, timers | acquire, renew, expire, release | wake dispatch | two modes during a deploy, late timers, lost replies |
| Background tasks and wakes (`background/`) | task runs, wake outbox | start, monitor, wake the parent, cancel | run store, orchestrator | exactly one wake; no replay |
| Capacity and subagents (`acquireLease`, `subagent/`) | counts over rows | admit, inherit the parent's slot | run store | inheritance across processes |
| Session automation, hands and sandboxes, cron, change jobs, task board, KY applications, channels, billing, context and memory, clients, orchestrator, hand server, release tooling | see `PROJECT.json` "components" | | | not modelled here yet |

What makes the core correct:

* *run store and scheduler* - a session executes one run at a time and in order;
  verdicts are final; a side effect is never executed by two processes; a valid
  lease is respected; no run is abandoned;
* *outbox* - clients learn exactly one verdict per run, the one of the row, and
  they do learn it;
* *steering* - a message reaches the model once, in order, not after the user
  revoked it, and is never left behind;
* *interactions* - an interaction has one answer, durable before the run can go
  on; once acknowledged it is not asked again and takes effect;
* *session lock* - who goes on in a session owns its lease; the session is always
  obtained again.

## 2. Modules

| Module | Models | Runs |
|---|---|---|
| `RunLease` | run rows, leases, liveness, handoff, tools, processes | `lease`, `lease_live`, `lease_stuck` |
| `RunLifecycle` | abstract: the queue of a session as clients see it | `lease` |
| `RunLeaseProofs`, `RunLeaseHoldProofs` | theorems about `RunLease` | - |
| `TerminalOutbox` | publication of verdicts and state events | `outbox`, `outbox_order` |
| `Steering` | messages that steer active runs | `steering`, `steering_live`, `steering_withdraw` |
| `Mailbox` | abstract: the message queue of a session as its user sees it | `steering` |
| `InteractionResume` | answers that wake a parked run | `interaction`, `interaction_late` |
| `SessionLock` | the single-writer lock of a session during a deployment | `session_lock`, `session_overlap` |
| `TerminalOutboxProofs`, `SteeringProofs`, `SteeringMailboxProofs`, `InteractionResumeProofs`, `SessionLockProofs` | theorems about these four | - |
| `MCRunLease`, `MCTerminalOutbox`, `MCSteering`, `MCInteractionResume`, `MCSessionLock` | instances for TLC | |

Conventions.  One SQL statement or transaction (under a row or advisory lock) is
one action; what a process holds in memory between two statements is state of its
own and may be stale.  Instants are kept as distances to the present.  An
operator commented "Mutant of X" is a plausible wrong version of X: with it in
the place of X, TLC refutes the property `PROJECT.json` pairs it with.

### RunLease

`row[r]` is the `runtime_runs` row: `status`; `worker` and `lease` (`worker_id`,
`lease_expires_at`); `tokenBy` (who wrote `runLeaseToken`); `live`, `reason`,
`age` (the liveness columns, `live = "none"` for a NULL version, which is what a
handoff writes); `ready`, `staged`, `retried` (metadata).  `loop[w][r]` is the
wake of process `w`, `tool[w][r]` its tool invocation, `alive` the processes.

| Action | Code |
|---|---|
| `Enqueue`, `UpsertPending` | `createPendingRun`, `upsertPendingRun` |
| `ResumeClaim`, `ResumeActivate`, `ResumeRollback` | staging of an answered interaction |
| `RetryOrphaned` | `retryOrphanedUserMessage` |
| `AcquireLease`, `RenewLease`, `ReleaseLease` | `acquireLease`, `renewRunLease`, `releaseRunLease` through the wake coordinator |
| `HandOff`, `FallbackRelease` | `releaseRunLeaseForHandoff`; the release after a refusal |
| `MarkRunning`, `RequestInteraction`, `Finish` | unfenced `markRunState`, `trackRunStateAfterEvent`, `finalizeTerminalRun` |
| `AbortLoop`, `FailForWallClock` | the loop's end without a verdict; the wall clock |
| `ToolStart`, `ToolInvoke`, `ToolComplete` | registration, gate of the side effect, completion |
| `CancelRun`, `CancelTenant`, `CancelStaleApproval` | the cancellations |
| `Reap` | the reaper's two statements, in its order, as one tick |
| `Crash`, `Tick` | environment |

`LegacyWorker` are processes of release N-1, which hand over by a release with a
legacy reason.  `ReleaseStatus` are the statuses callers pass to `release`; with
`"running"` among them `RunningRunIsRecoverable` fails (finding 1), which is why
the liveness run leaves it out.

### TerminalOutbox

`outbox[r]` is `metadata.terminalEventOutbox`, `log[r]` the run's events, and
`job[t]` what a task is doing: a delivery goes through renewing the claim,
checking what is appended, appending, renewing again and acknowledging, each a
separate step at which another task may have taken the claim over.  A stall is a
tick that lets a live holder's claim expire; together with failed calls, lost
replies and crashes it draws on one budget, `MaxFaults`.  `ScanLag` is the age of
the clock a dispatcher scan claims with.  `MarkState` and `Announce` are the two
writes of a non-terminal state.  `Claim` covers the dispatcher and the scheduler.
A run without tenant (`Unresolvable`) is listed while its entry is claimable
(`ListUnresolvable`) and rejected by a later statement of its own (`Reject`), which
checks the delivery's id and that it is not delivered but no claim: it may end a claim
that was taken or renewed in between.  `FreshClaimIsKept` names that case.

### Steering

A message is a run; `input[r]` is its row in `steering_inputs`, `sealed` the
closed windows, `late` the messages accepted before the latest stop and not yet
stored, `context` the `user_message` events in order, and `loop[r]` the agent
loop with what it listed or reserved.  The runs are those of one session and
have one loop at a time, which `RunLease` establishes.  `Failing` says which
calls may fail: a `call` of the loop before its commit, a `reply` after it, a
`release` of a fallen-back message's own row; `faults` counts each kind, because
some guarantees survive only some of them: `MessageEntersOnce`, `SteeredInOrder`
and `SealLeavesNobodyBehind` need the releases to succeed (a message that is
executed, and parks, with its row still queued is listed for its old target
again), and `WaitingRunBlocksNobody` needs the replies of reservations and seals to
arrive; after a lost one `MessageIsNotStuck` allows a message to be held up only while
its target is parked.  `InOrder` is the order of `enqueue_seq` in which
`buildAppliedSteeringEventInputs` gets the rows.

### InteractionResume

The four modules above take `waiting` to `pending` in one step; this one shows
how.  `asked` are the interactions of one run in order, `run` its record with the
staging metadata (`stage`, `claim`, `of`, `answer`, `consumed`), `event[i]` the
durable `interaction_resolved` (its id is the same for every attempt, so the first
append wins), `result[i]` the tool result or `approval_resolved`, `extra[i]` the
run `interaction-resume:<session>:<i>` that continues a question whose run has
ended, and `handler[h]` an answer on its way, with what it has read.

| Action | Code |
|---|---|
| `Receive`, `Load`, `Choose` | `resolveInteraction`, `loadPersistedInteractionRecoveryState`, the branches of `tryResumePersistedInteraction` |
| `Decide` | `OrgAgentApprovalService.decide`, which takes no lock |
| `ClaimRun`, `ReadClaim`, `ReadEvents`, `RollBack`, `CheckOwner`, `AppendResolved`, `Undo`, `Activate` | claim, rejected claim and its recovery, append, activation |
| `AppendDenial`, `Close` | `failClosePersistedApproval` |
| `AppendAnswer`, `GetResumeRun`, `Enqueue`, `Start` | `resumeTerminalPersistedAskUser` |
| `Recover`, `Lease`, `Wake`, `Apply`, `LeaseExtra`, `ApplyExtra` | `recoverStagedPersistedInteractions`, `tryHandle`, `wakeRuntimeSession`, `resumeApproval`, `resumeInteraction` |
| `Ask`, `Park`, `Finish`, `Cancel`, `CancelStale` | the request and the waiting status (two writes), verdicts |
| `Age`, `LoseLock`, `CrashHandler`, `CrashLoop` | time and failures |

Web handlers of a session exclude each other by the admission lock, a
transaction-level advisory lock on a connection of its own (`withLocks` of
`artifactShareStore.ts`); when that connection breaks the holder goes on
(`LoseLock`).  What is simplified: `resolvePending` is one step, although its lock
is that of a process; the outbox that closes a stale approval is one step with the
cancellation (`TerminalOutbox` has the delay); the automation fence, deleted
sessions, access checks and interactions answered in the memory of a live loop are
left out.  A run crashed in its dispatch is failed (`RunLease` has the reaper).

What a handler tells its user is `Confirmed`: the web channel returns the response
of the deduplicating append, the approval service confirms the decision of its own
administrator without comparing it with the response that append returned (it compares
only with a resolution it read before it claimed the run).  `recovery_pending` is not
counted as an acknowledgement.

What the properties leave open, because the code does: a staged claim without a
durable event waits for the user's next attempt, since only handlers roll it back;
an event that became durable while its run was rolled back to waiting is picked up
by the next attempt through the web channel, whereas the approval service only
answers `recovery_pending`; an approval that is answered between its request event
and the waiting status is closed, and its run waits for the stale-approval timeout
(`AcknowledgedIsNotAwaited` exempts closed approvals).

### SessionLock

`legacy` and `tenant` are the rows of the two lease tables, `advisory` and `guard`
the two advisory locks, `proc[p]` a dispatch: its place in `tryAcquire`, the legacy
row its snapshot saw, its expiry timer, the reply of a renewal on its way, and
whether its connection broke.  An acquisition in mode lease is three steps
(`BeginInsert`, `TryGuard`, `CommitInsert`), since the sub-query of an SQL statement
sees the snapshot of its start; the trigger of mode dual runs its query with a fresh
one (`GuardTrigger`, a volatile function under READ COMMITTED).  Time is the
database's; a timer fires at any time after it is due.  `OwnerToken`s are
represented by whose current handle they are of.  Processes of the release before
mode dual, which are not in this repository, are left out, and so is the DDL.

## 3. Runs

All passing runs explore their whole state space; all are within the limits of a
laptop (the largest, `steering`, takes about three minutes).

| Run | Instance | Shows |
|---|---|---|
| `lease` | 2 processes, 2 runs of a session, lease 1 tick, grace 0; symmetry of the processes | type, session and tool exclusion, quiet retries, replayable handoffs, final verdicts, respected leases, refinement of `RunLifecycle` |
| `lease_live` | a message and a command monitor in one session, an old and a new process, grace 0 | an abandoned run is resolved, by the reaper or (the monitor) by the lease path alone; it is always visible to someone |
| `lease_stuck` | 1 run, release with `running` | *violated*: finding 1 |
| `outbox` | 2 runs (one without tenant), 2 tasks, 1 fault, 1 state event, ttl, backoff and lag 1 tick | one verdict, acknowledged only when published, settled by its holder, fresh claims kept (rejections of runs without tenant excepted), published in the end |
| `outbox_order` | 1 run, 2 tasks, 2 faults, 2 state events | *violated*: finding 2 |
| `steering` | 3 messages (the last a task board continuation), 1 failed call, 1 answer | once, in order, not after revocation, nobody left behind, waiting runs block nobody, refinement of `Mailbox` |
| `steering_live` | 2 messages, 2 answers, up to 2 failures of each kind | no message stays pending, one whose reservation lost its reply waits at most for its parked target; revocation survives every failure, the other guarantees the failures they name |
| `steering_withdraw` | 2 messages | *violated*: finding 3 |
| `session_lock` | 2 dispatches in each mode, lease 2 ticks, 1 failure | who goes on owns its lease, late dual dispatches do not overlap, a leased session is not joined, the session is obtained again and again |
| `session_overlap` | 2 dispatches in mode dual, 1 in mode lease, no failure | *violated*: finding 4 |
| `interaction` | 2 answers by either way, 2 interactions, 1 failure | one answer, durable before the lease, not taken back, applied; staged runs are recovered |
| `interaction_late` | 3 answers, 3 interactions, no failure | *violated*: finding 5 |

Why the bounds are enough. Every conflict in the lease protocol is between the
process that has a run and one that takes it, and between a run and one other of
its session, so two of each reach it; ticks of 1 separate "valid", "expires now"
and "overdue", the three cases the comparisons tell apart. The grace period only
delays the reaper, so grace 0 allows every behaviour that a longer one allows
and is the stronger instance for safety. A delivery has a holder and a
challenger; the second run, which has no tenant, is rejected instead of
published. With one run, two state events and three faults (a stall, a lost
reply and a crash in one behaviour) all six properties hold as well. Steering
needs a target and a source, and a third message for order and for a source
behind another source. A session lock needs a holder and a challenger in each
mode, and two ticks to tell a fresh row from an older one; one failure is enough
for a lost reply, a broken connection or a crash, after which the others must
cope. An interaction needs two answers that meet, and a second interaction to
meet an answer to the first; two failures, and two web handlers with one of the
approval service, were also explored for the invariants and change nothing. The
late answer of finding 5 takes a third one. Deadlock is checked except in the
steering and interaction runs, where a session may have nothing left to do.

### Fairness

* `RunLease`: time passes; every live process ticks, so the reaper visits a run
  and a leasable run is leased (`tickOnce`); a leased dispatch marks its run;
  the wall clock of the run controller ends a loop, which then releases, and a
  refused handoff is followed by its fallback release.  Renewals, tools, users
  and the success of a run are not assumed.
* `TerminalOutbox`: time passes, a delivery or rejection that was begun goes on, the renewal
  timer fires, the dispatcher scans every second and claims what is claimable,
  scheduler ticks repair the reaper's verdicts; failures are finite.  Nothing
  promises the repair of a verdict of `cancelActiveByTenant`, which commits no
  outbox: the property leaves it out.
* `Steering`: the scheduler leases, loops take steps, and the wall clock or the
  reaper ends them.  Users promise nothing; in particular nobody answers.
* `InteractionResume`: a handler that has begun goes on (its failures are finite),
  the scheduler's tick recovers staged runs and leases ready ones, a dispatch goes
  on.  Nobody promises an answer, a retry or the passing of the claim's lease.
* `SessionLock`: time passes, the scheduler tries again, timers fire eventually and
  an aborted or finished dispatch is finalised.  Renewals are not assumed.

## 4. Proofs

Every safety invariant, every action property and both refinements that a passing
run checks are also theorems, for any sets of runs, sessions, processes, tasks,
handlers and messages, any time limits and any number of failures, from the named
assumptions on the constants alone, except for the hypothesis that two of them state.
The bounds that keep TLC finite (`MaxFaults`,
`MaxAnswers` and the like) are arbitrary natural numbers in the theorems.

| Module | Theorem | States |
|---|---|---|
| `RunLeaseProofs` | `LeaseInvariant` | `Spec => []IInv` |
| | `TypeCorrect` | `Spec => []TypeOK` |
| | `SessionExclusion` | `Spec => []OneExecutingRunPerSession` |
| | `ToolExclusion` | `Spec => []ExclusiveToolExecution` |
| | `HandoverSafe` | `Spec => []HandedOverRunIsReplayable` |
| | `RetrySafe` | `Spec => []RetriedRunIsQuiet` |
| | `VerdictsAreFinal` | `Spec => TerminalIsFinal` |
| | `LeaseImplementsLifecycle` | `Spec => ImplementsLifecycle` |
| `RunLeaseHoldProofs` | `HoldInvariant` | `Spec => []HInv` |
| | `LeaseRespected` | `Spec => ValidLeaseIsRespected` |
| | `RunningRecoverable` | `"running" \notin ReleaseStatus` implies `Spec => []RunningRunIsRecoverable` |
| `TerminalOutboxProofs` | `OutboxInvariant` | `Spec => []IInv` |
| | `TypeCorrect` | `Spec => []TypeOK` |
| | `VerdictOnce` | `Spec => []OneVerdictPublished` |
| | `DeliveredPublished` | `Spec => []DeliveredIsPublished` |
| | `HolderSettles` | `Spec => OnlyTheHolderSettles` |
| | `FreshClaimKept` | `Spec => FreshClaimIsKept` |
| `SteeringProofs` | `SteeringInvariant` | `Spec => []IInv` |
| | `TypeCorrect` | `Spec => []TypeOK` |
| | `EntersOnce` | `Spec => []MessageEntersOnce` |
| | `EntersInOrder` | `Spec => []SteeredInOrder` |
| | `StopCovers` | `Spec => []StopCoversLateMessages` |
| | `SealSafe` | `Spec => []SealLeavesNobodyBehind` |
| | `WaitingBlocksNobody` | `Spec => []WaitingRunBlocksNobody` |
| | `RevokedStaysOut` | `Spec => RevokedMessageStaysOut` |
| `SteeringMailboxProofs` | `SteeringImplementsMailbox` | `"release" \notin Failing` implies `Spec => ImplementsMailbox` |
| `InteractionResumeProofs` | `ResumeInvariant` | `Spec => []IInv` |
| | `TypeCorrect` | `Spec => []TypeOK` |
| | `OneAnswer` | `Spec => []AnswerIsAgreed` |
| | `ReadyDurable` | `Spec => []ReadyIsDurable` |
| | `AcknowledgedNotAwaited` | `Spec => []AcknowledgedIsNotAwaited` |
| `SessionLockProofs` | `LockInvariant` | `Spec => []IInv` |
| | `TypeCorrect` | `Spec => []TypeOK` |
| | `BeliefBacked` | `Spec => []BeliefIsBacked` |
| | `DualSerial` | `Spec => []DualDispatchesAreSerial` |
| | `LeaseNotJoined` | `Spec => LeaseIsNotJoined` |

All proofs have the same shape.  The inductive invariant (first checked with TLC)
is a conjunction over the runs, tasks, handlers or processes; frame lemmas say that
what a step does not touch keeps its part of the invariant; then one lemma per
action, then `Next`.

*RunLease.*  `OneExecutingRunPerSession` is not inductive: `MarkRunning` and
`RequestInteraction` write `running` or a waiting status without looking at the
session, so one has to know from which statuses a loop can do that.  `IInv` adds,
per run: the run of an executing loop is running or decided and, unless it is a
command monitor, a running one is owned by that worker (`ExecutingLoopOwnsRun`); an
owned row is running or decided, and a running row whose liveness version is NULL
has no owner (`OwnerMeansRunning`); command monitors never park
(`MonitorNeverParks`); a registered invocation of an undecided run belongs to its
owner, or to the last owner of a run given up without a handover (`ToolHasOwner`);
a run has one invocation at a time (`OneTool`); and a retried run is orphaned with
no invocation left (`RetriedIsOrphaned`).  Lemmas about the row writers (`Marked`,
`Released`, `Reaped`) and `StatusChange`, which says which status changes each
action can make, carry the rest; final verdicts and the simulation of
`RunLifecycle` follow from it.

*Leases.*  `HInv` adds that a running row with an owner has an expiry and is stale
only once that has passed (`LeaseHeld`), and that a running row without a lease has a
liveness the recovery scan or the reaper selects (`LooseIsVisible`); the second
part is the one that a release with `running` breaks, and the theorem says so in its
hypothesis.  The first attempt failed for a good reason: a process that started to
serve a command monitor and lost it gives the run its verdict (`orphaned`, frozen)
while the new owner's lease is valid.  The instance of the run has no monitor in it;
`ValidLeaseIsRespected` now names the case.

*TerminalOutbox.*  A task remembers which run, delivery and verdict it works on while
others claim, settle and repair.  The invariant: a run has one delivery at most, it
belongs to the verdict of the row (`OneDelivery`), and the terminal event in the log,
of which there is at most one, is that delivery's (`LogIsFaithful`,
`DeliveredIsStored`); every task that delivers works on the delivery of its run,
whether or not it still has the claim, past its append the events are stored, and a
task about to reject has a run without tenant (`JobInv`).  So a late task can repeat an append, which is idempotent, but can neither
publish something else nor acknowledge what is not there.

*Steering.*  `OwnInv` relates the row of a message, its input row and its own loop: a
queued message is not executed beyond its wake, what was revoked is over.  `HeldInv`
says of every reservation for a run that is not over that its message is still
pending, its window open and, if no reply was lost, that the loop of the target
holds it or will ask for it again before it can park.  `LineInv` is the order: what
a loop listed or reserved comes before everything queued since, and everything it was
given before everything still queued.  It rests on `QueueOrder` (messages are stored
in the order of their numbers, under the lock of the session) and on `Known` being
finite, so that a batch has a sorted enumeration (`OrderExists`, by counting the
smaller elements; `InOrderSorts`).  `RecordInv` says that what is recorded is no
longer queued.  Trying to prove `SteeredInOrder` and `SealLeavesNobodyBehind` as they
were stated before, without a word on failed releases, led to counterexamples that
TLC confirms with releases failing; both now name the condition.

`Mailbox` says the whole promise in one place.  A message is mapped to waiting from
its storage until its text is in the session or its run is over with no loop that
could still record it; with `IInv` every step of `Steering` then posts a message,
drops some, makes one the prompt of its run, gives a sorted batch to a run that has
its prompt, or changes nothing the user sees.  The hypothesis is that of
`MessageEntersOnce`.

*InteractionResume.*  What handlers remember is kept true by three facts every step
has to respect (`Advance`): a durable answer stays, the end of a run stays, and a run
that has gone on past an interaction (`Moved`: it was activated, asked something else,
ended, or the approval was closed) does not come back to it.  `RequestInv` says, per
handler, which of these its reads amount to at each place; `StoreInv` says that from
its activation until the answer is applied the run carries the durable answer, and
that every result is that answer.  A web handler tells what it saw in the log, so
`AnswerIsAgreed` ties its acknowledgement to the durable answer; of the approval
service it says only that something was durable first.

*SessionLock.*  Per dispatch: the guard is held by the one statement that obtained it
(`GuardHeld`), the advisory lock from its acquisition to the end of the dispatch
unless the connection broke (`AdvisoryHeld`), the timer of a handle, and the expiry a
renewal on its way will set it to, are backed by a row of the handle's own token
(`HandleBacked`), and while an insert of mode dual is on its way no row is valid
(`GuardedIsFree`).

Assumptions on constants say what the code takes for granted: the sets of names are
disjoint (`NoRun` is no run, a handler is none of the values a claim can have), lease
times are positive, messages are numbered.  TLC evaluates all of them.

Only model-checked: the liveness properties (`AbandonedRunIsResolved`,
`EveryVerdictIsPublished`, `MessageIsNotStuck`, `AcknowledgedIsApplied`,
`StagedIsRecovered`, `SessionIsServed`), since fairness and ENABLED are outside the
prover's reach, and the five counterexamples.

## 5. Findings

1. *A run can be lost in status running* (`lease_stuck`).  A wake that ends while
   its row is running releases with that status; the release writes liveness
   `busy` without worker or lease, which neither the reaper nor the recovery scan
   selects.  The comment of `releaseRunLease` says it is left stale.
2. *A stale state event after the verdict* (`outbox_order`).  The row and the
   event of a non-terminal state are two writes; a verdict can be published
   between them, and session details then report the older state.
3. *A started run can be withdrawn* (`steering_withdraw`).  After an answer the
   run is pending again and `cancelPendingUserMessage` accepts it.
4. *Two dispatches hold a session during the second deployment*
   (`session_overlap`).  The statement of mode lease takes the guard and looks for a
   legacy row with a snapshot that may be older than the guard; a dual acquisition
   that commits in between is not seen.  The dual dispatch learns of it at its next
   renewal, which the trigger swallows.  The header calls the overlap safe.
5. *An answer wakes a run that waits for another question* (`interaction_late`).
   `claimPersistedInteractionResume` compares the status and not the interaction; a
   repeated or slow answer to an earlier interaction claims the run, and the wake
   ends it because that interaction is already resolved.

Three more consequences are in the model without a run of their own.

*An opposite decision can be confirmed.*  Two administrators decide one approval in
opposite ways.  The claim of the first grows too old and is rolled back, or its append
commits and fails towards its caller; the second, which read the log before that event,
claims the run, its append returns the first decision, the run goes on with that, and
`decide` returns `queued`, `changed: true` to the second.  The test at
`orgAgentApprovalService.test.ts:313` has the sequential case of this title
("concurrent opposite decisions return a conflict").  The run still applies the
durable decision (`AnswerIsAgreed`); strengthening that property to acknowledgements
of the approval service makes TLC show the behaviour.

The other two are of failing calls, and no line of the repository claims otherwise.  After a failed release of its input row a
fallen-back message may be injected a second time into its old target, out of order,
or be queued behind the window its target has sealed (`MessageEntersOnce`,
`SteeredInOrder` and `SealLeavesNobodyBehind` name the failure).  After the reply of a reservation is lost
at a tool boundary, the tool may park the run with a reserved message, which then
stays blocked until somebody answers the card or the target ends
(`WaitingRunBlocksNobody` names the failure, `MessageIsNotStuck` bounds the delay).

## 6. Not modelled, and limits

* Capacity admission, task board staging, background agents, tool cancellation
  delivery: planned, see below.
* `waiting_hand` is read by the code and never written; it is left out.
* Tenants: the runs of a model belong to one tenant; the SQL compares the tenant
  in every statement.  Contents of messages, events and errors are abstract.
* PostgreSQL is assumed to be serialisable per row lock and advisory lock, as the
  statements rely on; clocks of processes agree except for `ScanLag`.
* In `Steering` the fallback for stores without an atomic apply, compact commands
  and duplicate submissions are left out; a pending source always has a message.
* The rest of the repository (see "components") is listed with its reason.

## 7. Plan

1. Abstract specifications: a publication channel for `TerminalOutbox` (a verdict
   is decided, then published once) and an answered question for
   `InteractionResume`, each shown to be implemented.
2. `RunCapacity`: the limit of `acquireLease`, reserved foreground slots, the
   inheritance of a parent's slot; composed with the lease states of `RunLease`.
3. `BackgroundTask`: freeze instead of replay, wake of the parent exactly once.
4. `ToolCancel`: delivery of cancel requests against completion.
5. `ChangeJob` (claims and retries of the governance worker), `CronClaim` and the
   hand server's invocation store.
