--------------------------- MODULE TerminalOutbox ---------------------------
(***************************************************************************)
(* Publication of the verdict of a run (server/src/runtime,                *)
(* runTerminalCoordinator and the terminal event outbox).                  *)
(*                                                                         *)
(* A run is decided by a compare-and-set of its row that commits an outbox *)
(* in the same statement, or by a statement that leaves the row without    *)
(* one (the reaper, a tenant-wide cancel).  The events of the outbox are   *)
(* then appended to the event store by any task that holds its claim: the  *)
(* task that decided, a dispatcher scan, a scheduler tick of any process.  *)
(* A claim is a lease on the outbox; a task that lost it goes on until its *)
(* next statement.                                                         *)
(*                                                                         *)
(* The batch of a verdict belongs to one session, so the event store       *)
(* appends it in one transaction: it is one event here.  A deliveryId is   *)
(* the number of outboxes written for the run, a claimToken the task that  *)
(* drew it (a task works on one delivery at a time).                       *)
(***************************************************************************)
EXTENDS Integers, Sequences

CONSTANTS
  Run,
  Task,          \* asynchronous tasks of all processes that decide or deliver
  NoTask,
  Verdict,       \* terminal statuses
  Unresolvable,  \* runs whose row has no tenant, so that no claim is granted
  ClaimTtl,      \* claimTtlMs in clock ticks
  Backoff,       \* the retry delay of a failed delivery in clock ticks
  ScanLag,       \* how long ago the scan that claims may have read the clock
  MaxFaults,     \* bound: failed calls and crashes
  MaxNotes,      \* bound: non-terminal state events per run
  MaxDeliveries  \* bound: outboxes written per run

ASSUME TaskAssumption == Run # {} /\ NoTask \notin Task
ASSUME VerdictAssumption == "cancelled" \in Verdict /\ "orphaned" \in Verdict
                            /\ Verdict \cap {"running", "waiting"} = {}
ASSUME UnresolvableAssumption == Unresolvable \subseteq Run
ASSUME BoundAssumption == {ClaimTtl, Backoff, ScanLag, MaxFaults, MaxNotes, MaxDeliveries} \subseteq Nat

VARIABLES
  status,  \* runtime_runs.status
  reaped,  \* metadata.livenessTerminalizedBy = reaper
  outbox,  \* metadata.terminalEventOutbox
  log,     \* the run's events in the event store, in session order
  job,     \* what each task is doing
  notes,   \* state events announced so far
  faults   \* failures so far

vars == <<status, reaped, outbox, log, job, notes, faults>>

Active == {"running", "waiting"}
NoOutbox == [state |-> "none", id |-> 0, verdict |-> "running", token |-> NoTask, age |-> 0]

\* age: ticks since claimedAt while delivering, since the failure after it
MaxAge == ClaimTtl + Backoff + ScanLag + 1

Outbox == [state : {"none", "delivering", "failed", "rejected", "delivered"},
           id : 0 .. MaxDeliveries,
           verdict : Active \cup Verdict,   \* terminalStatus; "running" without an outbox
           token : Task \cup {NoTask}, age : 0 .. MaxAge]

Event == [status : Active \cup Verdict, id : 0 .. MaxDeliveries]   \* id 0: not a verdict

\* Where a delivery stands: probe, begin and confirm renew the claim before check,
\* append and finish; giveup records a failure; reject has listed an outbox whose claim is
\* not granted; announce appends a state event
Job == [at : {"idle", "probe", "check", "begin", "append", "confirm", "finish",
              "giveup", "reject", "announce"},
        run : Run, id : 0 .. MaxDeliveries, status : Active \cup Verdict]

IdleJob == [at |-> "idle", run |-> CHOOSE r \in Run : TRUE, id |-> 0, status |-> "running"]

\* Types; an outbox has a claim token exactly while it is being delivered
TypeOK ==
  /\ status \in [Run -> Active \cup Verdict]
  /\ reaped \in [Run -> BOOLEAN]
  /\ outbox \in [Run -> Outbox]
  /\ log \in [Run -> Seq(Event)]
  /\ job \in [Task -> Job]
  /\ notes \in [Run -> 0 .. MaxNotes]
  /\ faults \in 0 .. MaxFaults
  /\ \A r \in Run : outbox[r].state = "delivering" <=> outbox[r].token \in Task

Init ==
  /\ status = [r \in Run |-> "running"]
  /\ reaped = [r \in Run |-> FALSE]
  /\ outbox = [r \in Run |-> NoOutbox]
  /\ log = [r \in Run |-> <<>>]
  /\ job = [t \in Task |-> IdleJob]
  /\ notes = [r \in Run |-> 0]
  /\ faults = 0

Idle(t) == job[t].at = "idle"
Go(t, at) == job' = [job EXCEPT ![t].at = at]
Done(t) == job' = [job EXCEPT ![t] = IdleJob]
Fault == faults < MaxFaults /\ faults' = faults + 1

Published(r, id) == \E i \in DOMAIN log[r] : log[r][i].id = id

-----------------------------------------------------------------------------
(* Verdicts *)

\* terminalOutbox: a fresh delivery, claimed by the task that writes it
OpenOutbox(t, r, v) ==
  /\ outbox[r].id < MaxDeliveries
  /\ outbox' = [outbox EXCEPT ![r] = [state |-> "delivering", id |-> outbox[r].id + 1,
                                      verdict |-> v, token |-> t, age |-> 0]]
  /\ job' = [job EXCEPT ![t] = [at |-> "begin", run |-> r, id |-> outbox[r].id + 1,
                                status |-> v]]

\* finalizeTerminalRun: status and outbox are committed by one compare-and-set
Finalize(t, r, v) ==
  /\ Idle(t) /\ status[r] \in Active
  /\ status' = [status EXCEPT ![r] = v]
  /\ OpenOutbox(t, r, v)
  /\ UNCHANGED <<reaped, log, notes, faults>>

\* The orphan CAS of the reaper: no outbox yet
Reap(r) ==
  /\ status[r] = "running"
  /\ status' = [status EXCEPT ![r] = "orphaned"]
  /\ reaped' = [reaped EXCEPT ![r] = TRUE]
  /\ UNCHANGED <<outbox, log, job, notes, faults>>

\* cancelActiveByTenant: a verdict nobody is going to publish, unless a wake loop of
\* the run finds it
CancelStateOnly(r) ==
  /\ status[r] \in Active
  /\ status' = [status EXCEPT ![r] = "cancelled"]
  /\ UNCHANGED <<reaped, outbox, log, job, notes, faults>>

\* finalizeTerminalRun with stateOnlyRepair, by the scheduler for the runs the reaper
\* reports and by the end of a wake: claimStateOnlyTerminalOutbox
ClaimStateOnly(t, r) ==
  /\ Idle(t) /\ status[r] \in Verdict /\ outbox[r].state = "none"
  /\ OpenOutbox(t, r, status[r])
  /\ UNCHANGED <<status, reaped, log, notes, faults>>

-----------------------------------------------------------------------------
(* The claim *)

\* Mutant of Claimable: the age of a claim is not looked at
ClaimableAlways(r, lag) == outbox[r].state \in {"failed", "delivering"}

\* Mutant of Claimable: a delivery whose task died is not taken over
ClaimableFailed(r, lag) == outbox[r].state = "failed" /\ outbox[r].age >= Backoff + lag

\* The outboxes that listPendingTerminalEventOutboxes returns and
\* claimTerminalEventOutbox grants, for a scan that read the clock lag ticks ago
Claimable(r, lag) ==
  \/ outbox[r].state = "failed" /\ outbox[r].age >= Backoff + lag
  \/ outbox[r].state = "delivering" /\ outbox[r].age > ClaimTtl + lag

\* retryPendingTerminalEvents up to the claim; claimedAt is the clock of the scan
Claim(t, r, lag) ==
  /\ Idle(t) /\ Claimable(r, lag) /\ r \notin Unresolvable
  /\ status[r] = outbox[r].verdict
  /\ outbox' = [outbox EXCEPT ![r] = [@ EXCEPT !.state = "delivering", !.token = t, !.age = lag]]
  /\ job' = [job EXCEPT ![t] = [at |-> "probe", run |-> r, id |-> outbox[r].id,
                                status |-> outbox[r].verdict]]
  /\ UNCHANGED <<status, reaped, log, notes, faults>>

\* The scan lists the outbox of a run without a tenant, whose claim is never granted (a
\* scan with an older clock lists fewer)
ListUnresolvable(t, r) ==
  /\ Idle(t) /\ Claimable(r, 0) /\ r \in Unresolvable
  /\ status[r] = outbox[r].verdict
  /\ job' = [job EXCEPT ![t] = [at |-> "reject", run |-> r, id |-> outbox[r].id,
                                status |-> outbox[r].verdict]]
  /\ UNCHANGED <<status, reaped, outbox, log, notes, faults>>

\* failUnresolvableTerminalEventOutbox, a statement of its own after the claim that was not
\* granted: it rejects any delivery that is not acknowledged, renewed meanwhile or not
Reject(t) ==
  /\ job[t].at = "reject"
  /\ LET r == job[t].run
     IN  IF outbox[r].id = job[t].id /\ outbox[r].state # "delivered"
           THEN outbox' = [outbox EXCEPT ![r] = [@ EXCEPT !.state = "rejected",
                                                          !.token = NoTask, !.age = 0]]
           ELSE UNCHANGED outbox
  /\ Done(t)
  /\ UNCHANGED <<status, reaped, log, notes, faults>>

\* Mutant of Holds: the claim token is not compared
HoldsDelivery(t) ==
  outbox[job[t].run].state = "delivering" /\ outbox[job[t].run].id = job[t].id

\* The fence of renewTerminalEventOutboxClaim and finishTerminalEventOutbox (the former
\* also compares the row's status, which is terminal and cannot have changed)
Holds(t) ==
  LET o == outbox[job[t].run]
  IN  o.state = "delivering" /\ o.id = job[t].id /\ o.token = t

Renewed(t) == outbox' = [outbox EXCEPT ![job[t].run].age = 0]

\* A task between startTerminalClaimLease and the end of its delivery, with the claim
Keeps(t) == job[t].at \notin {"idle", "reject", "announce"} /\ Holds(t)

\* The renewal timer of startTerminalClaimLease
Heartbeat(t) ==
  /\ Keeps(t)
  /\ Renewed(t)
  /\ UNCHANGED <<status, reaped, log, job, notes, faults>>

Renews == [probe |-> "check", begin |-> "append", confirm |-> "finish"]

\* assertAndRenew: a claim that is lost, or whose renewal fails, ends the delivery
AssertAndRenew(t) ==
  /\ job[t].at \in DOMAIN Renews
  /\ \/ Holds(t) /\ Renewed(t) /\ Go(t, Renews[job[t].at]) /\ UNCHANGED faults
     \/ ~Holds(t) /\ Done(t) /\ UNCHANGED <<outbox, faults>>
     \/ /\ Fault /\ Done(t)
        /\ \/ UNCHANGED outbox
           \/ Holds(t) /\ Renewed(t)
  /\ UNCHANGED <<status, reaped, log, notes>>

-----------------------------------------------------------------------------
(* Delivery *)

\* terminalEventsAlreadyAppended
Check(t) ==
  /\ job[t].at = "check"
  /\ \/ Go(t, IF Published(job[t].run, job[t].id) THEN "confirm" ELSE "begin") /\ UNCHANGED faults
     \/ Fault /\ Go(t, "giveup")
  /\ UNCHANGED <<status, reaped, outbox, log, notes>>

\* Mutant of Stored: the unique event id is not used
StoredTwice(r, id, v) == Append(log[r], [status |-> v, id |-> id])

\* The log after appendBatch: an event id that is there is not stored again
Stored(r, id, v) ==
  IF Published(r, id) THEN log[r] ELSE Append(log[r], [status |-> v, id |-> id])

\* Mutant of AppendEvents: a failed append is taken for a delivery
AppendUnchecked(t) ==
  /\ job[t].at = "append"
  /\ \/ log' = [log EXCEPT ![job[t].run] = Stored(job[t].run, job[t].id, job[t].status)] /\ UNCHANGED faults
     \/ Fault /\ UNCHANGED log
  /\ Go(t, "confirm")
  /\ UNCHANGED <<status, reaped, outbox, notes>>

\* appendTerminalEvents: the call may fail after its transaction committed
AppendEvents(t) ==
  /\ job[t].at = "append"
  /\ \/ /\ log' = [log EXCEPT ![job[t].run] = Stored(job[t].run, job[t].id, job[t].status)]
        /\ \/ Go(t, "confirm") /\ UNCHANGED faults
           \/ Fault /\ Go(t, "giveup")
     \/ Fault /\ Go(t, "giveup") /\ UNCHANGED log
  /\ UNCHANGED <<status, reaped, outbox, notes>>

\* Mutant of Finish: the claim token of the settled outbox is kept
FinishWithToken(t, from, state) ==
  /\ job[t].at = from
  /\ IF Holds(t) THEN outbox' = [outbox EXCEPT ![job[t].run] = [@ EXCEPT !.state = state, !.age = 0]]
                 ELSE UNCHANGED outbox
  /\ Done(t)
  /\ UNCHANGED <<status, reaped, log, notes, faults>>

\* finishClaimedOutboxBestEffort: a lost claim and a failed call change nothing
Finish(t, from, state) ==
  /\ job[t].at = from
  /\ \/ /\ IF Holds(t)
             THEN \E lag \in 0 .. ScanLag :
                    outbox' = [outbox EXCEPT ![job[t].run] =
                      [@ EXCEPT !.state = state, !.token = NoTask,
                                !.age = IF state = "failed" THEN lag ELSE 0]]
             ELSE UNCHANGED outbox
        /\ UNCHANGED faults
     \/ Fault /\ UNCHANGED outbox
  /\ Done(t)
  /\ UNCHANGED <<status, reaped, log, notes>>

-----------------------------------------------------------------------------
(* Non-terminal state events *)

\* markRunState and trackRunStateAfterEvent: the row first (a terminal one refuses), ...
MarkState(t, r, s) ==
  /\ Idle(t) /\ status[r] \in Active /\ notes[r] < MaxNotes
  /\ status' = [status EXCEPT ![r] = s]
  /\ job' = [job EXCEPT ![t] = [at |-> "announce", run |-> r, id |-> 0, status |-> s]]
  /\ notes' = [notes EXCEPT ![r] = @ + 1]
  /\ UNCHANGED <<reaped, outbox, log, faults>>

\* ... then the event
Announce(t) ==
  /\ job[t].at = "announce"
  /\ \/ log' = [log EXCEPT ![job[t].run] = Append(@, [status |-> job[t].status, id |-> 0])]
        /\ UNCHANGED faults
     \/ Fault /\ UNCHANGED log
  /\ Done(t)
  /\ UNCHANGED <<status, reaped, outbox, notes>>

-----------------------------------------------------------------------------
(* Environment *)

Crash(t) ==
  /\ ~Idle(t) /\ Fault
  /\ Done(t)
  /\ UNCHANGED <<status, reaped, outbox, log, notes>>

\* The renewal timer fires three times per ClaimTtl, so a claim whose holder is at work
\* expires only when the holder stalls
Stalls == \E t \in Task : Keeps(t) /\ outbox[job[t].run].age = ClaimTtl

Tick ==
  /\ IF Stalls THEN Fault ELSE UNCHANGED faults
  /\ outbox' = [r \in Run |-> IF outbox[r].state \in {"delivering", "failed"} /\ outbox[r].age < MaxAge
                                THEN [outbox[r] EXCEPT !.age = @ + 1] ELSE outbox[r]]
  /\ UNCHANGED <<status, reaped, log, job, notes>>

Deliver(t) ==
  \/ AssertAndRenew(t) \/ Check(t) \/ AppendEvents(t)
  \/ Finish(t, "finish", "delivered") \/ Finish(t, "giveup", "failed")

Next ==
  \/ \E t \in Task, r \in Run :
       \/ \E v \in Verdict : Finalize(t, r, v)
       \/ ClaimStateOnly(t, r)
       \/ \E lag \in 0 .. ScanLag : Claim(t, r, lag)
       \/ ListUnresolvable(t, r)
       \/ \E s \in Active : MarkState(t, r, s)
  \/ \E t \in Task : Heartbeat(t) \/ Deliver(t) \/ Reject(t) \/ Announce(t) \/ Crash(t)
  \/ \E r \in Run : Reap(r) \/ CancelStateOnly(r)
  \/ Tick

Spec == Init /\ [][Next]_vars

\* What the code keeps doing by itself: time passes, a task goes on with what it began,
\* the dispatcher scans (every second) and claims what is claimable with its own clock,
\* every scheduler tick repairs the verdicts of the reaper.
Fairness ==
  /\ WF_vars(Tick)
  /\ \A t \in Task : /\ WF_vars(Deliver(t)) /\ WF_vars(Reject(t))
                     /\ WF_vars(Announce(t)) /\ WF_vars(Heartbeat(t))
  /\ \A r \in Run : /\ WF_vars(\E t \in Task : Claim(t, r, 0))
                    /\ WF_vars(\E t \in Task : reaped[r] /\ ClaimStateOnly(t, r))

FairSpec == Spec /\ Fairness

-----------------------------------------------------------------------------
(* Properties *)

\* However many tasks decide, repair, replay or crash, clients see one verdict per run
\* and it is the one of the row: the event store never holds two terminal batches of a
\* run, nor one that contradicts runtime_runs.
OneVerdictPublished ==
  \A r \in Run :
    /\ \A i, j \in DOMAIN log[r] : log[r][i].id # 0 /\ log[r][j].id # 0 => i = j
    /\ \A i \in DOMAIN log[r] : log[r][i].id # 0 => log[r][i].status = status[r]

\* An outbox is acknowledged only when its events are in the event store, whichever
\* task appended them and whatever call failed on the way.
DeliveredIsPublished ==
  \A r \in Run : outbox[r].state = "delivered" => Published(r, outbox[r].id)

\* A task that stalled past its claim cannot settle an outbox that another task has
\* claimed since: only the holder of the claim acknowledges a delivery or fails it for a
\* later attempt.  (The rejection of a run without a tenant, final, asks for no claim.)
OnlyTheHolderSettles ==
  [][\A r \in Run :
       outbox[r].state = "delivering" /\ outbox'[r].state \in {"delivered", "failed"}
         => \E t \in Task : outbox[r].token = t /\ job[t].run = r
                              /\ job[t].at \in {"finish", "giveup"} /\ job'[t].at = "idle"]_vars

\* At most one task works on a delivery whose claim is fresh: a claim is taken over
\* only when its holder let it expire, however old the clock of the scan.  The one step
\* that takes a fresh claim away is the rejection of a run without a tenant, which the
\* scan may have listed before the claim was renewed.
FreshClaimIsKept ==
  [][\A r \in Run : \A t \in Task :
       outbox[r].state = "delivering" /\ outbox[r].token = t /\ outbox[r].age <= ClaimTtl
         => \/ outbox'[r].token = t \/ outbox'[r].state \in {"delivered", "failed"}
            \/ r \in Unresolvable /\ outbox'[r].state = "rejected"]_vars

\* Every verdict that was committed with an outbox, and every verdict of the reaper,
\* reaches the event store, although the task that decided may have died and calls may
\* have failed on the way (runs without a tenant excepted: their outbox is rejected).
Committed(r) == status[r] \in Verdict /\ (outbox[r].state # "none" \/ reaped[r])

EveryVerdictIsPublished ==
  \A r \in Run \ Unresolvable : Committed(r) ~> outbox[r].state = "delivered"

\* The reading of session details: the last state event of a run whose verdict has been
\* published is that verdict ("the terminal state of the latest run, derived from the
\* last run_state_changed of the event store").
LastStateEventIsVerdict ==
  \A r \in Run : outbox[r].state = "delivered" => log[r][Len(log[r])].status = status[r]

=============================================================================
