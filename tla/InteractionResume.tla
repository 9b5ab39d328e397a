-------------------------- MODULE InteractionResume --------------------------
(***************************************************************************)
(* How the answer to a question (ask_user) or to an approval request wakes *)
(* the run that is parked on it: tryResumePersistedInteraction of the web  *)
(* channel, decide of the organisation's approval service, the staged      *)
(* transitions of the run store, the scheduler's recovery of staged runs   *)
(* and the wake that applies the answer.                                   *)
(*                                                                         *)
(* A handler claims the run (pending but staged, hence not leasable),      *)
(* appends the durable interaction_resolved event, whose id is the same    *)
(* for every attempt, and activates the run (ready).  The web handlers of  *)
(* a session exclude each other by a lock on a connection of its own; the  *)
(* approval service and the scheduler take no lock.                        *)
(*                                                                         *)
(* One run of one session, and the runs that resume its questions once it  *)
(* has ended.  A statement of the database is one step.                    *)
(***************************************************************************)
EXTENDS Integers, Sequences

CONSTANTS
  Handler,         \* answers that arrive, each handled once
  None,
  MaxAsked,        \* bound: interactions that the run requests
  MaxFaults        \* bound: failed calls, crashes and lost locks

ASSUME HandlerAssumption == None \notin Handler \cup {"yes", "no", "closed"}
ASSUME BoundAssumption == MaxAsked \in Nat \ {0} /\ MaxFaults \in Nat

VARIABLES
  asked,     \* the interactions requested so far, by their type
  run,       \* the run's record
  loop,      \* the dispatch of the run that holds the session
  event,     \* the response of each interaction_resolved event
  result,    \* what each interaction came to: its tool result or approval_resolved
  extra,     \* the runs interaction-resume:<session>:<interaction>
  handler,   \* each handler
  lock,      \* who holds the session's admission lock
  faults     \* failures so far

vars == <<asked, run, loop, event, result, extra, handler, lock, faults>>

Interaction == 1 .. MaxAsked
Type == {"ask_user", "approval"}

\* normalised responses; "no" is also what a fail-closed approval gets
Answer == {"yes", "no"}

\* persistedInteractionResumeClaim: claimId is the attempt
Claim == [by : Handler, of : Interaction] \cup {None}

\* stage: metadata.schedulerState; claim stays after the activation; old: claimed longer
\* than PERSISTED_INTERACTION_CLAIM_LEASE_MS ago; of, answer, consumed: resumeInteraction
\* or resumeApproval and its consumed mark (the other one is always consumed or absent)
Run == [status : {"running", "waiting", "pending", "terminal"},
        stage : {"none", "staged", "ready"},
        claim : Claim,
        old : BOOLEAN,
        of : 0 .. MaxAsked,
        answer : Answer \cup {None},
        consumed : BOOLEAN]

\* via: the web channel or the approval service; of, answer: the request; saw: the run as
\* it was read; seen: the event as it was read; other: the claim to be activated or rolled
\* back; told: the acknowledged response
Request == [at : {"idle", "load", "choose", "decide", "claim", "reclaim", "rejected", "events",
                  "rollback", "own", "append", "undo", "activate", "close", "closed",
                  "answer", "resume", "enqueue", "start", "end"},
            via : {"web", "org"},
            of : 0 .. MaxAsked,
            answer : Answer \cup {None},
            saw : Run \cup {None},
            seen : Answer \cup {None},
            other : Claim,
            told : Answer \cup {None}]

Waiting == [status |-> "waiting", stage |-> "none", claim |-> None, old |-> FALSE,
            of |-> 0, answer |-> None, consumed |-> FALSE]

Unused == [at |-> "idle", via |-> "web", of |-> 0, answer |-> None, saw |-> None, seen |-> None,
           other |-> None, told |-> None]

TypeOK ==
  /\ asked \in Seq(Type) /\ Len(asked) \in Interaction
  /\ run \in Run
  /\ loop \in {"none", "wake", "apply", "go", "park"}
  /\ event \in [Interaction -> Answer \cup {None}]
  /\ result \in [Interaction -> Answer \cup {None, "closed"}]
  /\ extra \in [Interaction -> {"absent", "staged", "ready", "running", "done"}]
  /\ handler \in [Handler -> Request]
  /\ lock \in Handler \cup {None}
  /\ faults \in 0 .. MaxFaults

\* The run has parked on its first interaction
Init ==
  /\ asked \in {<<t>> : t \in Type}
  /\ run = Waiting
  /\ loop = "none"
  /\ event = [i \in Interaction |-> None]
  /\ result = [i \in Interaction |-> None]
  /\ extra = [i \in Interaction |-> "absent"]
  /\ handler = [h \in Handler |-> Unused]
  /\ lock = None
  /\ faults = 0

-----------------------------------------------------------------------------
(* The run store *)

Fault == faults < MaxFaults /\ faults' = faults + 1

\* The WHERE of the activation
Staged(c) == run.status = "pending" /\ run.stage = "staged" /\ run.claim = c

\* Mutant of MayRollBack: any pending run of the claim
PendingFor(c) == run.status = "pending" /\ run.claim = c

\* The WHERE of the rollback
MayRollBack(c) == run.status = "pending" /\ run.stage = "staged" /\ run.claim = c

\* waiting_user or waiting_approval, whichever the interaction's type expects
WaitsFor(i) == run.status = "waiting" /\ asked[Len(asked)] = asked[i]

\* Mutant of Claimed: the attempt is stored where the interaction belongs
ClaimedSwapped(c, a) == [run EXCEPT !.status = "pending", !.stage = "staged", !.claim = c,
                                    !.old = FALSE, !.of = c.by, !.answer = a, !.consumed = FALSE]

\* claimPersistedInteractionResume
Claimed(c, a) == [run EXCEPT !.status = "pending", !.stage = "staged", !.claim = c,
                             !.old = FALSE, !.of = c.of, !.answer = a, !.consumed = FALSE]

\* Mutant of Activated: the response of the claim is kept
ActivatedAsClaimed(a) == [run EXCEPT !.stage = "ready"]

\* Mutant of Activated: schedulerState is not set
ActivatedStaged(a) == [run EXCEPT !.answer = a]

\* activatePersistedInteractionResume
Activated(a) == [run EXCEPT !.stage = "ready", !.answer = a]

\* Mutant of Resolved: the store does not deduplicate
ResolvedAgain(i, a) == [event EXCEPT ![i] = a]

\* The append of an event whose id may be there already
Resolved(i, a) == [event EXCEPT ![i] = IF @ = None THEN a ELSE @]

-----------------------------------------------------------------------------
(* A handler *)

\* h takes its next step; a handler that ends gives the admission lock back
Goes(h, request) ==
  /\ handler' = [handler EXCEPT ![h] = request]
  /\ lock' = IF request.at = "end" /\ lock = h THEN None ELSE lock

To(h, at) == [handler[h] EXCEPT !.at = at]

\* Once a handler has ended only what it acknowledged, if anything, matters
End(h, told) ==
  IF told = None THEN [Unused EXCEPT !.at = "end"]
                 ELSE [Unused EXCEPT !.at = "end", !.told = told, !.via = handler[h].via,
                                     !.of = handler[h].of]

\* The handler ends: respond_ok with the canonical response (of the approval service: the
\* decision is queued), or with an error or a promise of recovery
Acknowledge(h, a) == Goes(h, End(h, a))
Refuse(h) == Goes(h, End(h, None))

At(h, at) == handler[h].at = at
Of(h) == handler[h].of
IsApproval(i) == asked[i] = "approval"
ClaimOf(r, i) == r.claim # None /\ r.claim.of = i
IsReady(r) == r.status = "pending" /\ r.stage = "ready"

\* The web channel takes the admission lock and reads the session's active run; the
\* approval service reads the run
Receive(h, via, i, a) ==
  /\ At(h, "idle")
  /\ \/ via = "web" /\ lock = None /\ lock' = h
     \/ via = "org" /\ IsApproval(i) /\ result[i] = None /\ UNCHANGED lock
  /\ handler' = [handler EXCEPT ![h] = [@ EXCEPT !.at = IF via = "web" THEN "load" ELSE "decide",
                                                 !.via = via, !.of = i, !.answer = a, !.saw = run]]
  /\ UNCHANGED <<asked, run, loop, event, result, extra, faults>>

\* loadPersistedInteractionRecoveryState; an approval that is resolved is only replayed
Load(h) ==
  /\ At(h, "load")
  /\ LET i == Of(h)
     IN  IF IsApproval(i) /\ result[i] # None
           THEN Acknowledge(h, event[i])
           ELSE Goes(h, [To(h, "choose") EXCEPT !.seen = event[i]])
  /\ UNCHANGED <<asked, run, loop, event, result, extra, faults>>

\* The approval cannot wake the run r, which therefore gets a denial
CannotResume(r, i, seen) ==
  r.status = "terminal" \/ (seen = None /\ ~ClaimOf(r, i) /\ r.status # "waiting")

\* Where tryResumePersistedInteraction goes with the run r.  A question's run is read
\* again, an approval's only when it was not the active one
Chosen(h, r) ==
  LET i == Of(h)
      seen == handler[h].seen
  IN  IF r.status = "terminal" /\ ~IsApproval(i) THEN To(h, "answer")
      ELSE IF IsApproval(i) /\ CannotResume(r, i, seen) THEN To(h, "close")
      ELSE IF seen # None /\ ClaimOf(r, i)
        THEN IF IsReady(r) THEN End(h, seen)
                           ELSE [To(h, "activate") EXCEPT !.other = r.claim]
      ELSE [To(h, "claim") EXCEPT !.answer = IF IsApproval(i) /\ seen # None THEN seen ELSE @]

Choose(h) ==
  /\ At(h, "choose")
  /\ LET saw == handler[h].saw
     IN  Goes(h, [Chosen(h, IF IsApproval(Of(h)) /\ saw.status # "terminal" THEN saw ELSE run)
                    EXCEPT !.saw = None])
  /\ UNCHANGED <<asked, run, loop, event, result, extra, faults>>

\* decide of the approval service, with the run it read and the canonical event
Decide(h) ==
  /\ At(h, "decide")
  /\ LET i == Of(h)
         r == handler[h].saw
         same == event[i] = handler[h].answer
         next == IF IsReady(r) THEN IF same THEN End(h, event[i]) ELSE End(h, None)
                 ELSE IF r.status = "pending" /\ ClaimOf(r, i)
                   THEN IF same THEN [To(h, "activate") EXCEPT !.seen = event[i], !.other = r.claim]
                        ELSE IF event[i] = None /\ run.claim = r.claim /\ run.old
                          THEN [To(h, "rollback") EXCEPT !.other = r.claim]
                        ELSE End(h, None)
                 ELSE IF event[i] = None /\ r.status = "waiting" THEN To(h, "reclaim")
                 ELSE End(h, None)
     IN  Goes(h, [next EXCEPT !.saw = None])
  /\ UNCHANGED <<asked, run, loop, event, result, extra, faults>>

ClaimRun(h) ==
  /\ At(h, "claim") \/ At(h, "reclaim")
  /\ IF WaitsFor(Of(h))
       THEN /\ run' = Claimed([by |-> h, of |-> Of(h)], handler[h].answer)
            /\ Goes(h, To(h, "own"))
       ELSE /\ UNCHANGED run
            /\ IF At(h, "claim") THEN Goes(h, To(h, "rejected")) ELSE Refuse(h)
  /\ UNCHANGED <<asked, loop, event, result, extra, faults>>

\* Rejected: whose claim is it,
ReadClaim(h) ==
  /\ At(h, "rejected")
  /\ IF ClaimOf(run, Of(h)) THEN Goes(h, [To(h, "events") EXCEPT !.other = run.claim])
                            ELSE Refuse(h)
  /\ UNCHANGED <<asked, run, loop, event, result, extra, faults>>

\* has it appended the event, and if not, is it too old
ReadEvents(h) ==
  /\ At(h, "events")
  /\ IF event[Of(h)] # None
       THEN Goes(h, [To(h, "activate") EXCEPT !.seen = event[Of(h)]])
       ELSE IF run.claim = handler[h].other /\ run.old THEN Goes(h, To(h, "rollback"))
                                                       ELSE Refuse(h)
  /\ UNCHANGED <<asked, run, loop, event, result, extra, faults>>

\* The run after rollbackPersistedInteractionResume
RolledBack == Waiting

\* The claim of a handler that seems gone is rolled back, and the run claimed again
RollBack(h) ==
  /\ At(h, "rollback")
  /\ IF MayRollBack(handler[h].other) THEN run' = RolledBack /\ Goes(h, To(h, "reclaim"))
                                      ELSE UNCHANGED run /\ Refuse(h)
  /\ UNCHANGED <<asked, loop, event, result, extra, faults>>

\* ownsPersistedInteractionClaim; the approval service looks at the claim alone
CheckOwner(h) ==
  /\ At(h, "own")
  /\ LET c == [by |-> h, of |-> Of(h)]
     IN  IF Staged(c) \/ (handler[h].via = "org" /\ run.claim = c)
           THEN Goes(h, To(h, "append"))
           ELSE Refuse(h)
  /\ UNCHANGED <<asked, run, loop, event, result, extra, faults>>

\* appendPersistedInteractionResolved.  It fails when the append failed and the event is
\* not found, or cannot be looked for although it was written
AppendResolved(h) ==
  /\ At(h, "append")
  /\ LET i == Of(h)
     IN  \/ /\ event' = Resolved(i, handler[h].answer)
            /\ Goes(h, [To(h, "activate") EXCEPT !.seen = event'[i], !.other = [by |-> h, of |-> i]])
            /\ UNCHANGED faults
         \/ /\ Fault
            /\ event' \in {event, Resolved(i, handler[h].answer)}
            /\ Goes(h, To(h, "undo"))
  /\ UNCHANGED <<asked, run, loop, result, extra>>

\* The claim is given back after a failed append
Undo(h) ==
  /\ At(h, "undo")
  /\ run' = IF MayRollBack([by |-> h, of |-> Of(h)]) THEN RolledBack ELSE run
  /\ Refuse(h)
  /\ UNCHANGED <<asked, loop, event, result, extra, faults>>

\* Of the run that it activates the web channel tells the canonical response; the approval
\* service confirms the decision it was asked for and does not compare the two
Confirmed(h) == IF handler[h].via = "web" THEN handler[h].seen ELSE handler[h].answer

\* activatePersistedInteractionClaim; the approval service does not look whether somebody
\* else has activated the claim
Activate(h) ==
  /\ At(h, "activate")
  /\ LET c == handler[h].other
         seen == handler[h].seen
     IN  \/ Staged(c) /\ run' = Activated(seen) /\ Acknowledge(h, Confirmed(h))
         \/ /\ ~Staged(c) /\ UNCHANGED run
            /\ IF handler[h].via = "web" /\ IsReady(run) /\ run.claim = c
                 THEN Acknowledge(h, seen)
                 ELSE Refuse(h)
  /\ UNCHANGED <<asked, loop, event, result, extra, faults>>

-----------------------------------------------------------------------------
(* A handler whose run has ended *)

\* failClosePersistedApproval: the denial is appended, unless there is a response,
AppendDenial(h) ==
  /\ At(h, "close")
  /\ \/ event' = Resolved(Of(h), "no") /\ Goes(h, To(h, "closed")) /\ UNCHANGED faults
     \/ Fault /\ event' \in {event, Resolved(Of(h), "no")} /\ Refuse(h)
  /\ UNCHANGED <<asked, run, loop, result, extra>>

\* and the approval is rejected, unless it is resolved
Close(h) ==
  /\ At(h, "closed")
  /\ result' = [result EXCEPT ![Of(h)] = IF @ = None THEN "closed" ELSE @]
  /\ Acknowledge(h, event[Of(h)])
  /\ UNCHANGED <<asked, run, loop, event, extra, faults>>

\* resumeTerminalPersistedAskUser: the answer is appended,
AppendAnswer(h) ==
  /\ At(h, "answer")
  /\ \/ event' = Resolved(Of(h), handler[h].answer) /\ Goes(h, To(h, "resume")) /\ UNCHANGED faults
     \/ Fault /\ event' \in {event, Resolved(Of(h), handler[h].answer)} /\ Refuse(h)
  /\ UNCHANGED <<asked, run, loop, result, extra>>

\* the run that resumes it is looked up,
GetResumeRun(h) ==
  /\ At(h, "resume")
  /\ CASE extra[Of(h)] = "absent" -> Goes(h, To(h, "enqueue"))
       [] extra[Of(h)] = "staged" -> Goes(h, To(h, "start"))
       [] OTHER -> Acknowledge(h, event[Of(h)])
  /\ UNCHANGED <<asked, run, loop, event, result, extra, faults>>

\* What an upsert with schedulerState staged makes of the run
Enqueued(s) == IF s \in {"absent", "ready"} THEN "staged" ELSE s

\* and enqueued when there was none
Enqueue(h) ==
  /\ At(h, "enqueue")
  /\ LET new == [extra EXCEPT ![Of(h)] = Enqueued(@)]
     IN  \/ /\ extra' = new
            /\ IF new[Of(h)] = "staged" THEN Goes(h, To(h, "start"))
                                        ELSE Acknowledge(h, event[Of(h)])
            /\ UNCHANGED faults
         \/ Fault /\ extra' \in {extra, new} /\ Refuse(h)
  /\ UNCHANGED <<asked, run, loop, event, result>>

\* activateStagedRun
Start(h) ==
  /\ At(h, "start")
  /\ LET new == [extra EXCEPT ![Of(h)] = IF @ = "staged" THEN "ready" ELSE @]
     IN  \/ extra' = new /\ Acknowledge(h, event[Of(h)]) /\ UNCHANGED faults
         \/ Fault /\ extra' \in {extra, new} /\ Refuse(h)
  /\ UNCHANGED <<asked, run, loop, event, result>>

-----------------------------------------------------------------------------
(* The scheduler and the wake *)

\* Mutant of Recoverable: only when the claim's response is the durable one
RecoverableAsClaimed ==
  /\ run.status = "pending" /\ run.stage = "staged"
  /\ event[run.claim.of] = run.answer

\* A staged run whose response is durable
Recoverable ==
  /\ run.status = "pending" /\ run.stage = "staged"
  /\ event[run.claim.of] # None

\* recoverStagedPersistedInteractions
Recover ==
  /\ Recoverable
  /\ run' = Activated(event[run.claim.of])
  /\ UNCHANGED <<asked, loop, event, result, extra, handler, lock, faults>>

\* A staged run is not leased
Leasable == run.status = "pending" /\ run.stage # "staged"

Lease ==
  /\ Leasable /\ loop = "none"
  /\ run' = [run EXCEPT !.status = "running"]
  /\ loop' = "wake"
  /\ UNCHANGED <<asked, event, result, extra, handler, lock, faults>>

Terminal(r) == [r EXCEPT !.status = "terminal"]

\* wakeRuntimeSession, up to the consumed mark: without the durable event, or when the
\* approval is resolved, the run ends; so it does when its workspace cannot be provided or
\* its requester has lost access
Wake ==
  /\ loop = "wake"
  /\ \/ /\ event[run.of] # None
        /\ IsApproval(run.of) => result[run.of] = None
        /\ run' = [run EXCEPT !.consumed = TRUE]
        /\ loop' = "apply"
     \/ run' = Terminal(run) /\ loop' = "none"
  /\ UNCHANGED <<asked, event, result, extra, handler, lock, faults>>

\* resumeApproval applies the response of the wake's metadata, resumeInteraction that of
\* the event.  An interaction that has its result is an error, which fails the run
Apply ==
  /\ loop = "apply"
  /\ LET i == run.of
     IN  IF result[i] = None
           THEN /\ result' = [result EXCEPT ![i] = IF IsApproval(i) THEN run.answer ELSE event[i]]
                /\ loop' = "go"
                /\ UNCHANGED run
           ELSE run' = Terminal(run) /\ loop' = "none" /\ UNCHANGED result
  /\ UNCHANGED <<asked, event, extra, handler, lock, faults>>

\* The model requests another interaction: the event first,
Ask(t) ==
  /\ loop = "go" /\ run.status = "running" /\ Len(asked) < MaxAsked
  /\ asked' = Append(asked, t)
  /\ loop' = "park"
  /\ UNCHANGED <<run, event, result, extra, handler, lock, faults>>

\* then the status; a run that was cancelled meanwhile stays so
Park ==
  /\ loop = "park"
  /\ run' = IF run.status = "running" THEN [run EXCEPT !.status = "waiting"] ELSE run
  /\ loop' = "none"
  /\ UNCHANGED <<asked, event, result, extra, handler, lock, faults>>

\* The run finishes, or the loop notices that it was cancelled
Finish ==
  /\ loop = "go" \/ (loop # "none" /\ run.status = "terminal")
  /\ run' = Terminal(run)
  /\ loop' = "none"
  /\ UNCHANGED <<asked, event, result, extra, handler, lock, faults>>

\* The wake of a resume run; it fails while another dispatch holds the session
LeaseExtra(i) ==
  /\ extra[i] = "ready"
  /\ extra' = [extra EXCEPT ![i] = IF loop = "none" /\ \A j \in Interaction : extra[j] # "running"
                                     THEN "running" ELSE "done"]
  /\ UNCHANGED <<asked, run, loop, event, result, handler, lock, faults>>

\* The answer is applied, unless the question has its result
ApplyExtra(i) ==
  /\ extra[i] = "running"
  /\ result' = [result EXCEPT ![i] = IF @ = None THEN event[i] ELSE @]
  /\ extra' = [extra EXCEPT ![i] = "done"]
  /\ UNCHANGED <<asked, run, loop, event, handler, lock, faults>>

-----------------------------------------------------------------------------
(* Stops, time and failures *)

\* The user stops the run
Cancel ==
  /\ run.status # "terminal"
  /\ run' = Terminal(run)
  /\ UNCHANGED <<asked, loop, event, result, extra, handler, lock, faults>>

\* cancelStaleWaitingApprovals; the outbox that closes the approval is one step with it
CancelStale ==
  /\ run.status = "waiting" /\ IsApproval(Len(asked))
  /\ run' = Terminal(run)
  /\ result' = [result EXCEPT ![Len(asked)] = IF @ = None THEN "closed" ELSE @]
  /\ UNCHANGED <<asked, loop, event, extra, handler, lock, faults>>

\* isPersistedInteractionClaimExpired becomes true
Age ==
  /\ run.stage = "staged" /\ ~run.old
  /\ run' = [run EXCEPT !.old = TRUE]
  /\ UNCHANGED <<asked, loop, event, result, extra, handler, lock, faults>>

\* The connection of the admission lock breaks; its holder goes on
LoseLock ==
  /\ lock # None
  /\ Fault
  /\ lock' = None
  /\ UNCHANGED <<asked, run, loop, event, result, extra, handler>>

\* The process of a handler dies, or one of its other calls fails
CrashHandler(h) ==
  /\ ~At(h, "idle") /\ ~At(h, "end")
  /\ Fault
  /\ Refuse(h)
  /\ UNCHANGED <<asked, run, loop, event, result, extra>>

\* The process of a dispatch dies; the run is failed once its lease has expired
CrashLoop ==
  /\ Fault
  /\ \/ loop # "none" /\ loop' = "none" /\ run' = Terminal(run) /\ UNCHANGED extra
     \/ /\ \E i \in Interaction : extra[i] = "running" /\ extra' = [extra EXCEPT ![i] = "done"]
        /\ UNCHANGED <<loop, run>>
  /\ UNCHANGED <<asked, event, result, handler, lock>>

-----------------------------------------------------------------------------

\* What a handler does next, once it has begun
Continue(h) ==
  \/ Load(h) \/ Choose(h) \/ Decide(h) \/ ClaimRun(h) \/ ReadClaim(h) \/ ReadEvents(h)
  \/ RollBack(h) \/ CheckOwner(h) \/ AppendResolved(h) \/ Undo(h) \/ Activate(h)
  \/ AppendDenial(h) \/ Close(h) \/ AppendAnswer(h) \/ GetResumeRun(h) \/ Enqueue(h) \/ Start(h)

Dispatch ==
  \/ Lease \/ Wake \/ Apply \/ Park \/ Finish
  \/ \E t \in Type : Ask(t)

Next ==
  \/ \E h \in Handler : \/ \E via \in {"web", "org"}, i \in 1 .. Len(asked), a \in Answer :
                             Receive(h, via, i, a)
                        \/ Continue(h) \/ CrashHandler(h)
  \/ Recover \/ Dispatch
  \/ \E i \in Interaction : LeaseExtra(i) \/ ApplyExtra(i)
  \/ Cancel \/ CancelStale \/ Age \/ LoseLock \/ CrashLoop

Spec == Init /\ [][Next]_vars

\* A handler goes on, the scheduler ticks, a dispatch goes on
Fairness ==
  /\ \A h \in Handler : WF_vars(Continue(h))
  /\ WF_vars(Recover) /\ WF_vars(Dispatch)
  /\ \A i \in Interaction : WF_vars(LeaseExtra(i)) /\ WF_vars(ApplyExtra(i))

FairSpec == Spec /\ Fairness

-----------------------------------------------------------------------------
(* Properties *)

\* However attempts, retries, recoveries and stops interleave, there is one answer: the
\* run applies the durable response and no other, every user of the web channel who is
\* acknowledged hears that response, and nobody is acknowledged before there is one.  (An
\* approval whose run has ended may be closed instead.  The approval service confirms the
\* administrator's own decision without comparing it with the durable one, see Confirmed.)
AnswerIsAgreed ==
  /\ \A i \in Interaction : result[i] \in Answer => result[i] = event[i]
  /\ \A h \in Handler :
       handler[h].told # None =>
         /\ event[Of(h)] # None
         /\ handler[h].via = "web" => handler[h].told = event[Of(h)]

\* A run that can be leased finds what it is to apply: its answer is durable, and its
\* metadata has the durable one, whichever attempt claimed it and whoever activated it.
ReadyIsDurable ==
  Leasable /\ ~run.consumed => run.answer # None /\ run.answer = event[run.of]

\* An acknowledged answer is never taken back: the run does not wait for it again, unless
\* the approval was closed.
AcknowledgedIsNotAwaited ==
  \A h \in Handler :
    handler[h].told # None /\ run.status = "waiting" /\ Of(h) = Len(asked) =>
      result[Of(h)] = "closed"

\* An acknowledged answer takes effect, unless the run ends before; then the run that
\* resumes it is not left ready.
AcknowledgedIsApplied ==
  \A i \in Interaction :
    (\E h \in Handler : handler[h].told # None /\ Of(h) = i) ~>
      result[i] # None \/ (run.status = "terminal" /\ extra[i] \notin {"ready", "running"})

\* Once an answer is durable no crash leaves the claimed run staged.
StagedIsRecovered ==
  LET staged == run.status = "pending" /\ run.stage = "staged"
  IN  staged /\ event[run.of] # None ~> ~staged

\* The run store: the staged transitions are fenced by the persisted interaction key.  A
\* claimed run is resumed with the interaction it waits for.
FencedByInteraction == run.status = "pending" => run.of = Len(asked)

=============================================================================
