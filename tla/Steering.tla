------------------------------ MODULE Steering ------------------------------
(***************************************************************************)
(* Steering: a message sent while a run of its session is active is        *)
(* injected into that run (server/src/runtime, runStore and                *)
(* rawAgentLoopInterjections).                                             *)
(*                                                                         *)
(* A message is a run of its own: it is inserted pending, with an input    *)
(* row that names the run it steers (its target).  The loop of the target  *)
(* lists, reserves and applies such inputs between two model calls; a      *)
(* source that is not applied falls back to being executed as a run.  The  *)
(* user may withdraw a message or stop the session at any moment.          *)
(*                                                                         *)
(* The runs are those of one session.  Every transaction of the store      *)
(* (row locks or the advisory lock of the session) is one action; what a   *)
(* loop listed or reserved is its own memory between two of them.  That a  *)
(* run has one loop at a time is what RunLease shows.                      *)
(***************************************************************************)
EXTENDS Integers, Sequences, FiniteSets

CONSTANTS
  Run,           \* messages; the number is the enqueue_seq of the row
  NoRun,
  Continuation,  \* messages with metadata.taskboardContinuation
  Failing,       \* the kinds of failure that happen
  MaxFaults,     \* bound: failures
  MaxAnswers     \* bound: interactions answered

ASSUME RunAssumption == Run \subseteq Nat /\ NoRun \notin Run
ASSUME ContinuationAssumption == Continuation \subseteq Run
ASSUME FaultAssumption == Failing \subseteq {"call", "reply", "release"}
ASSUME BoundAssumption == MaxFaults \in Nat /\ MaxAnswers \in Nat

VARIABLES
  status,     \* runtime_runs.status; "received": accepted by the channel, not yet stored
  late,       \* received messages whose steeringAcceptedAt is not after stopped_at
  sealed,     \* runs with metadata.steeringInputWindow = sealed
  input,      \* the steering_inputs row of a message
  withdrawn,  \* runs with metadata.cancelledByQueueRequest
  context,    \* the user_message events of the session
  loop,       \* the agent loop of each run
  answers,    \* interactions answered so far
  faults      \* failures so far, by kind

vars == <<status, late, sealed, input, withdrawn, context, loop, answers, faults>>

Terminal == {"completed", "failed", "cancelled"}   \* failed: orphaned too
Status == {"absent", "received", "rejected", "pending", "running", "waiting"} \cup Terminal

Input == [state : {"none", "pending", "reserved", "applied", "released", "cancelled"},
          target : Run \cup {NoRun}]

\* msg: whose text it is; by: the run that recorded it (the target of an interjection)
Event == [msg : Run, by : Run]

\* woken: leased; prompt: about to record its own message; start: before the first
\* model call; turn: inside a turn; drained: nothing was queued; disabled: a call for
\* inputs failed inside a turn; sealed: about to finish; handoff: about to hand over;
\* handed: handed over, no loop until the next lease
Loop == [at : {"none", "woken", "prompt", "start", "turn", "drained", "disabled", "sealed",
               "handoff", "handed"},
         stage : {"ready", "loaded", "held"},
         sources : SUBSET Run]

\* A call of the loop fails; only its reply is lost, after the commit; the release of an
\* input fails
FaultKind == {"call", "reply", "release"}

NoLoop == [at |-> "none", stage |-> "ready", sources |-> {}]

TypeOK ==
  /\ status \in [Run -> Status]
  /\ late \subseteq Run /\ sealed \subseteq Run /\ withdrawn \subseteq Run
  /\ input \in [Run -> Input]
  /\ context \in Seq(Event)
  /\ loop \in [Run -> Loop]
  /\ answers \in 0 .. MaxAnswers
  /\ faults \in [FaultKind -> 0 .. MaxFaults]

Init ==
  /\ status = [r \in Run |-> "absent"]
  /\ late = {} /\ sealed = {} /\ withdrawn = {}
  /\ input = [r \in Run |-> [state |-> "none", target |-> NoRun]]
  /\ context = <<>>
  /\ loop = [r \in Run |-> NoLoop]
  /\ answers = 0
  /\ faults = [k \in FaultKind |-> 0]

Queued(r) == input[r].state \in {"pending", "reserved"}
Live(r) == status[r] \in {"pending", "running", "waiting"}
AcceptsInput(r) == status[r] \in {"pending", "running"} /\ r \notin sealed

\* user_message events: recorded by the run itself, or by a target it steered
Recorded(r) == \E i \in DOMAIN context : context[i].msg = r
Interjected(r) == \E i \in DOMAIN context : context[i].msg = r /\ context[i].by # r

SetStatus(r, s) == status' = [status EXCEPT ![r] = s]
SetInput(r, s) == input' = [input EXCEPT ![r].state = s]
GoTo(r, at) == loop' = [loop EXCEPT ![r] = [NoLoop EXCEPT !.at = at]]
Fault(kind) ==
  /\ kind \in Failing
  /\ faults["call"] + faults["reply"] + faults["release"] < MaxFaults
  /\ faults' = [faults EXCEPT ![kind] = @ + 1]

-----------------------------------------------------------------------------
(* The user *)

\* handleChat: the instant of acceptance is taken before the message is stored
Receive(r) ==
  /\ status[r] = "absent"
  /\ SetStatus(r, "received")
  /\ UNCHANGED <<late, sealed, input, withdrawn, context, loop, answers, faults>>

\* The targets enqueueUserMessage may choose for a new message
Targets == {t \in Run : AcceptsInput(t) /\ ~Queued(t)}

\* Its ORDER BY: the running target first, then the oldest
Preferred(t) ==
  \A u \in Targets \ {t} :
    \/ status[t] = "running" /\ status[u] = "pending"
    \/ status[t] = status[u] /\ t < u

\* enqueueUserMessage: mode queue, or mode steer without a target it may steer
EnqueuePlain(r) ==
  /\ status[r] = "received" /\ \A q \in Run : q < r => status[q] \notin {"absent", "received"}
  /\ SetStatus(r, "pending")
  /\ late' = late \ {r}
  /\ UNCHANGED <<sealed, input, withdrawn, context, loop, answers, faults>>

\* Mutant of EnqueueSteer: the acceptance is not compared with the latest stop
EnqueueSteerLate(r) ==
  /\ status[r] = "received" /\ \A q \in Run : q < r => status[q] \notin {"absent", "received"}
  /\ \E t \in Targets : /\ Preferred(t)
                        /\ SetStatus(r, "pending")
                        /\ input' = [input EXCEPT ![r] = [state |-> "pending", target |-> t]]
  /\ UNCHANGED <<late, sealed, withdrawn, context, loop, answers, faults>>

\* Mode steer: a message accepted before the latest stop is refused
EnqueueSteer(r) ==
  /\ status[r] = "received" /\ \A q \in Run : q < r => status[q] \notin {"absent", "received"}
  /\ IF r \in late
       THEN SetStatus(r, "rejected") /\ UNCHANGED input
       ELSE \E t \in Targets :
              /\ Preferred(t)
              /\ SetStatus(r, "pending")
              /\ input' = [input EXCEPT ![r] = [state |-> "pending", target |-> t]]
  /\ UNCHANGED <<late, sealed, withdrawn, context, loop, answers, faults>>

\* cancelPendingUserMessage and cancelPendingSteeringSourceRun, when they succeed: an
\* input that is reserved, or no longer an input, is too late
Withdraw(r) ==
  /\ status[r] = "pending"
  /\ \/ input[r].state = "none" /\ UNCHANGED input
     \/ input[r].state = "pending" /\ SetInput(r, "cancelled")
  /\ SetStatus(r, "cancelled")
  /\ withdrawn' = withdrawn \cup {r}
  /\ UNCHANGED <<late, sealed, context, loop, answers, faults>>

\* cancelSteeringBeforeDispatchInternal: the target, if any, and every source that is
\* still queued; a pending taskboard continuation becomes a run of its own
Stop(t) ==
  LET sources  == {s \in Run : Queued(s) /\ status[s] = "pending"}
      released == {s \in sources : s \in Continuation /\ input[s].state = "pending"}
  IN  /\ t # NoRun => Live(t)
      /\ late' = {r \in Run : status[r] = "received"}
      /\ input' = [s \in Run |-> CASE s \in released -> [input[s] EXCEPT !.state = "released"]
                                   [] s \in sources \ released -> [input[s] EXCEPT !.state = "cancelled"]
                                   [] OTHER -> input[s]]
      /\ status' = [r \in Run |-> IF r = t \/ r \in sources \ released
                                    THEN "cancelled" ELSE status[r]]
      /\ UNCHANGED <<sealed, withdrawn, context, loop, answers, faults>>

\* A waiting run gets its answer and is queued again
Answer(r) ==
  /\ status[r] = "waiting" /\ answers < MaxAnswers
  /\ SetStatus(r, "pending")
  /\ answers' = answers + 1
  /\ UNCHANGED <<late, sealed, input, withdrawn, context, loop, faults>>

-----------------------------------------------------------------------------
(* Leases *)

\* Mutant of SteeringBlocked: a source waits for the end of its target
TargetBlocked(r) == Queued(r) /\ status[input[r].target] \notin Terminal

\* The steering clause of runLeaseBlockersClearedSql
SteeringBlocked(r) ==
  \/ input[r].state = "reserved" /\ status[input[r].target] \notin Terminal
  \/ input[r].state = "pending" /\ AcceptsInput(input[r].target)

\* acquireLease: a pending run, or one that was handed over
Lease(r) ==
  /\ \/ status[r] = "pending" /\ loop[r].at = "none"
     \/ status[r] = "running" /\ loop[r].at = "handed"
  /\ \A q \in Run \ {r} : /\ status[q] # "running"
                          /\ status[r] = "pending" /\ status[q] = "pending" => r < q
  /\ ~SteeringBlocked(r)
  /\ SetStatus(r, "running")
  /\ GoTo(r, "woken")
  /\ UNCHANGED <<late, sealed, input, withdrawn, context, answers, faults>>

\* wakeRuntimeSession: a source that is executed itself takes its input row back; a
\* failure is logged and the run goes on
ReleaseOwnInput(r) ==
  /\ loop[r].at = "woken"
  /\ \/ /\ IF Queued(r) THEN SetInput(r, "released") ELSE UNCHANGED input
        /\ UNCHANGED <<faults>>
     \/ Queued(r) /\ Fault("release") /\ UNCHANGED input
  /\ GoTo(r, "prompt")
  /\ UNCHANGED <<status, late, sealed, withdrawn, context, answers>>

\* Mutant of RecordPrompt: a run that is resumed records its message again
RecordPromptAgain(r) ==
  /\ loop[r].at = "prompt"
  /\ context' = Append(context, [msg |-> r, by |-> r])
  /\ GoTo(r, "start")
  /\ UNCHANGED <<status, late, sealed, input, withdrawn, answers, faults>>

\* resolveWakePrompt: the message is recorded unless it is already in the session
RecordPrompt(r) ==
  /\ loop[r].at = "prompt"
  /\ IF Recorded(r) THEN UNCHANGED context
                    ELSE context' = Append(context, [msg |-> r, by |-> r])
  /\ GoTo(r, "start")
  /\ UNCHANGED <<status, late, sealed, input, withdrawn, answers, faults>>

-----------------------------------------------------------------------------
(* The loop of a target: list, reserve, apply, seal *)

AtBoundary(r) == loop[r].at \in {"start", "turn", "drained"} /\ loop[r].stage = "ready"

\* requestRecoveryHandoff: the first drain of a loop returns at once; inside a turn the
\* tool call that asked goes on
AfterFailedClaim(r) == IF loop[r].at = "start" THEN "handoff" ELSE "disabled"

\* listPendingSteeringInputs
Listed(r) == {s \in Run : input[s].target = r /\ Queued(s) /\ status[s] = "pending"}

Load(r) ==
  /\ AtBoundary(r)
  /\ \/ /\ IF Listed(r) = {} THEN GoTo(r, "drained")
             ELSE loop' = [loop EXCEPT ![r].stage = "loaded", ![r].sources = Listed(r)]
        /\ UNCHANGED faults
     \/ Fault("call") /\ GoTo(r, AfterFailedClaim(r))
  /\ UNCHANGED <<status, late, sealed, input, withdrawn, context, answers>>

\* What reserveSteeringInputs returns: newly and already reserved inputs
Reservable(r) ==
  IF AcceptsInput(r)
    THEN {s \in loop[r].sources : input[s].target = r /\ Queued(s) /\ status[s] = "pending"}
    ELSE {}

SetReserved(S) ==
  input' = [s \in Run |-> IF s \in S THEN [input[s] EXCEPT !.state = "reserved"] ELSE input[s]]

Reserve(r) ==
  /\ loop[r].stage = "loaded"
  /\ \/ /\ SetReserved(Reservable(r))
        /\ IF Reservable(r) = {} THEN GoTo(r, "drained")
             ELSE loop' = [loop EXCEPT ![r].stage = "held", ![r].sources = Reservable(r)]
        /\ UNCHANGED faults
     \/ /\ GoTo(r, AfterFailedClaim(r))
        /\ \/ Fault("call") /\ UNCHANGED input
           \/ Fault("reply") /\ SetReserved(Reservable(r))
  /\ UNCHANGED <<status, late, sealed, withdrawn, context, answers>>

\* Mutant of Appliable: the source and its row are not looked at again
AppliableHeld(r) == IF AcceptsInput(r) THEN loop[r].sources ELSE {}

\* The inputs applySteeringInputsAtomically settles
Appliable(r) ==
  IF AcceptsInput(r)
    THEN {s \in loop[r].sources : input[s] = [state |-> "reserved", target |-> r]
                                    /\ status[s] = "pending"}
    ELSE {}

\* A set of messages in the order of their rows
InOrder(S) ==
  CHOOSE q \in [1 .. Cardinality(S) -> S] : \A i, j \in DOMAIN q : i < j => q[i] < q[j]

\* Mutant of Interjections: the latest message first
LatestFirst(r, S) ==
  LET new == InOrder({s \in S : ~Interjected(s)})
  IN  [i \in DOMAIN new |-> [msg |-> new[Len(new) + 1 - i], by |-> r]]

\* Mutant of Interjections: the event does not name the run it was given to
Unaddressed(r, S) ==
  LET new == InOrder({s \in S : ~Interjected(s)})
  IN  [i \in DOMAIN new |-> [msg |-> new[i], by |-> NoRun]]

\* buildAppliedSteeringEventInputs: in the order of the rows, once per source
Interjections(r, S) ==
  LET new == InOrder({s \in S : ~Interjected(s)})
  IN  [i \in DOMAIN new |-> [msg |-> new[i], by |-> r]]

\* Its transaction: the events, the rows and the sources
Applied(r, S) ==
  /\ context' = context \o Interjections(r, S)
  /\ input' = [s \in Run |-> IF s \in S THEN [input[s] EXCEPT !.state = "applied"] ELSE input[s]]
  /\ status' = [s \in Run |-> IF s \in S THEN "completed" ELSE status[s]]

\* applyReserved: a partial settlement hands the target over
Apply(r) ==
  /\ loop[r].stage = "held"
  /\ \/ /\ Applied(r, Appliable(r))
        /\ GoTo(r, IF Appliable(r) = loop[r].sources THEN "turn" ELSE "handoff")
        /\ UNCHANGED faults
     \/ /\ GoTo(r, "handoff")
        /\ \/ Fault("call") /\ UNCHANGED <<context, input, status>>
           \/ Fault("reply") /\ Applied(r, Appliable(r))
  /\ UNCHANGED <<late, sealed, withdrawn, answers>>

\* Mutant of SealWindow: the window is sealed on the strength of the last drain
SealUnchecked(r) ==
  /\ loop[r].at = "drained" /\ loop[r].stage = "ready"
  /\ sealed' = sealed \cup {r} /\ GoTo(r, "sealed")
  /\ UNCHANGED <<status, late, input, withdrawn, context, answers, faults>>

\* trySealSteeringInputWindow in drainOrSeal; the third refusal hands the target over
SealWindow(r) ==
  /\ loop[r].at = "drained" /\ loop[r].stage = "ready"
  /\ \/ /\ Listed(r) = {}
        /\ sealed' = sealed \cup {r} /\ GoTo(r, "sealed") /\ UNCHANGED faults
     \/ /\ Listed(r) # {}
        /\ GoTo(r, "turn") \/ GoTo(r, "handoff")
        /\ UNCHANGED <<sealed, faults>>
     \/ /\ GoTo(r, "handoff")
        /\ \/ Fault("call") /\ UNCHANGED sealed
           \/ Fault("reply") /\ Listed(r) = {} /\ sealed' = sealed \cup {r}
  /\ UNCHANGED <<status, late, input, withdrawn, context, answers>>

-----------------------------------------------------------------------------
(* The end of a loop *)

\* Mutant of ParkRun: a tool is executed although the loop holds inputs
ParkHolding(r) ==
  /\ loop[r].at \in {"turn", "drained", "disabled"}
  /\ IF Live(r) THEN SetStatus(r, "waiting") ELSE UNCHANGED status
  /\ GoTo(r, "none")
  /\ UNCHANGED <<late, sealed, input, withdrawn, context, answers, faults>>

\* A tool asks for an approval or for an answer; a loop that holds inputs skips its tools
ParkRun(r) ==
  /\ loop[r].at \in {"turn", "drained", "disabled"} /\ loop[r].stage = "ready"
  /\ IF Live(r) THEN SetStatus(r, "waiting") ELSE UNCHANGED status
  /\ GoTo(r, "none")
  /\ UNCHANGED <<late, sealed, input, withdrawn, context, answers, faults>>

\* finishSuccessfulRun
FinishRun(r) ==
  /\ loop[r].at = "sealed"
  /\ IF Live(r) THEN SetStatus(r, "completed") ELSE UNCHANGED status
  /\ GoTo(r, "none")
  /\ UNCHANGED <<late, sealed, input, withdrawn, context, answers, faults>>

\* A recovery handoff, and the handoff of a draining process at the end of a turn
HandOver(r) ==
  /\ loop[r].at \in {"handoff", "disabled"} \/ AtBoundary(r) \/ loop[r].at = "sealed"
  /\ GoTo(r, IF status[r] = "running" THEN "handed" ELSE "none")
  /\ UNCHANGED <<status, late, sealed, input, withdrawn, context, answers, faults>>

\* An error, the wall clock, a crash that the reaper terminates, the handoff limit; a
\* loop whose run is terminal stops at its next check
Fail(r) ==
  /\ loop[r].at # "none"
  /\ IF Live(r) THEN SetStatus(r, "failed") ELSE UNCHANGED status
  /\ GoTo(r, "none")
  /\ UNCHANGED <<late, sealed, input, withdrawn, context, answers, faults>>

\* Verdicts from elsewhere: cancelActiveByTenant, cancelStaleWaitingApproval
CancelRun(r) ==
  /\ Live(r)
  /\ SetStatus(r, "cancelled")
  /\ UNCHANGED <<late, sealed, input, withdrawn, context, loop, answers, faults>>

LoopStep(r) ==
  \/ ReleaseOwnInput(r) \/ RecordPrompt(r) \/ Load(r) \/ Reserve(r) \/ Apply(r)
  \/ SealWindow(r) \/ FinishRun(r) \/ HandOver(r)

Next ==
  \/ \E r \in Run : \/ Receive(r) \/ EnqueuePlain(r) \/ EnqueueSteer(r) \/ Withdraw(r)
                    \/ Answer(r) \/ CancelRun(r)
                    \/ Lease(r) \/ LoopStep(r) \/ ParkRun(r) \/ Fail(r)
  \/ \E t \in Run \cup {NoRun} : Stop(t)

Spec == Init /\ [][Next]_vars

\* The scheduler leases what it may, a loop takes its next step, and the wall clock ends
\* it; users promise nothing.
Fairness ==
  \A r \in Run : WF_vars(Lease(r)) /\ WF_vars(LoopStep(r)) /\ WF_vars(Fail(r))

FairSpec == Spec /\ Fairness

-----------------------------------------------------------------------------
(* Properties *)

\* A message reaches the model once, whichever way it goes: applied to its target, or
\* executed by itself after the target ended, parked or handed over in between.  It
\* needs the release of its input to succeed: wakeRuntimeSession only logs a failure.
MessageEntersOnce ==
  faults["release"] = 0 =>
    \A i, j \in DOMAIN context : context[i].msg = context[j].msg => i = j

\* The queue of a session as the user sees it.  A message waits until its text is in the
\* session, and is dropped when its run is over without that and no loop has it: the run
\* of a stopped session may still be about to record its prompt.  The queue implements
\* Mailbox, if releases succeed.
Posted == {r \in Run : status[r] \notin {"absent", "received"}}

Waiting ==
  {r \in Run : /\ status[r] \notin {"absent", "received", "rejected"}
               /\ status[r] \in Terminal => loop[r].at # "none"
               /\ ~Recorded(r)}

Box == INSTANCE Mailbox WITH Message <- Run, posted <- Posted, waiting <- Waiting,
                             transcript <- context

ImplementsMailbox == Box!Spec

\* The user was told that the message is gone - withdrawn while queued, or stopped with
\* the session: it is not given to the model afterwards, although a loop may have listed
\* or reserved it before.
Revoked(r) == r \in withdrawn \/ input[r].state = "cancelled"

RevokedMessageStaysOut ==
  [][\A i \in DOMAIN context' : i \notin DOMAIN context => ~Revoked(context'[i].msg)]_vars

\* A stop covers the messages on their way: one that was accepted before the stop and
\* meant to steer is not injected into a run that is started after it.
StopCoversLateMessages ==
  \A r \in late : status[r] \in {"received", "rejected"} \/ input[r].state = "none"

\* Messages that steer the same run enter it in the order in which they were sent, if
\* releases succeed: a message that parked with its input still queued is listed again.
SteeredInOrder ==
  faults["release"] = 0 =>
    \A i, j \in DOMAIN context :
      i < j /\ context[i].by = context[j].by /\ context[i].msg # context[i].by
        => context[i].msg < context[j].msg

\* No message is left behind a sealed window: the last drain of a run and a message that
\* arrives at the same moment never miss each other, if releases succeed.
SealLeavesNobodyBehind ==
  faults["release"] = 0 => \A r \in sealed : Listed(r) = {}

\* A run that waits for a click does not hold up the messages sent after it: no queued
\* message is blocked by a waiting target.  A reply that is lost after the commit of a
\* reservation or of a seal is the one exception: the loop does not know that it holds
\* the message, and may park.
WaitingRunBlocksNobody ==
  faults["reply"] = 0 =>
    \A s \in Run : status[s] = "pending" /\ SteeringBlocked(s)
                     => status[input[s].target] # "waiting"

\* Every stored message gets its turn: it is applied, executed, withdrawn or refused,
\* but does not stay queued behind a run that ended, crashed, handed over or failed a
\* call.  A reply lost after the commit of a reservation or of a seal may hold it behind a
\* target that parked, but only until that target is answered or ends.
HeldUp(r) ==
  faults["reply"] > 0 /\ SteeringBlocked(r) /\ status[input[r].target] = "waiting"

MessageIsNotStuck ==
  \A r \in Run : status[r] = "pending" ~> status[r] # "pending" \/ HeldUp(r)

\* The contract of cancelPendingUserMessage: only a message that has not obtained
\* execution is withdrawn.
OnlyUnstartedIsWithdrawn == \A r \in withdrawn : ~Recorded(r)

=============================================================================
