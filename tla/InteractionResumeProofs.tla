----------------------- MODULE InteractionResumeProofs -----------------------
(***************************************************************************)
(* Safety of InteractionResume for any number of answers, interactions and *)
(* failures.                                                               *)
(***************************************************************************)
EXTENDS InteractionResume, TLAPS

ClaimId == [by : Handler, of : Interaction]
Place == {"idle", "load", "choose", "decide", "claim", "reclaim", "rejected", "events",
          "rollback", "own", "append", "undo", "activate", "close", "closed",
          "answer", "resume", "enqueue", "start", "end"}

\* What the database and the dispatch have, without the handlers
StoreTypeOK ==
  /\ asked \in Seq(Type) /\ Len(asked) \in Interaction
  /\ run \in Run
  /\ loop \in {"none", "wake", "apply", "go", "park"}
  /\ event \in [Interaction -> Answer \cup {None}]
  /\ result \in [Interaction -> Answer \cup {None, "closed"}]
  /\ extra \in [Interaction -> {"absent", "staged", "ready", "running", "done"}]
  /\ faults \in 0 .. MaxFaults

\* A claimed run names its claim's interaction; a run that a dispatch works on is running
\* or was stopped.
RunInv ==
  /\ run.status = "pending" =>
       /\ run.stage \in {"staged", "ready"}
       /\ run.claim \in ClaimId /\ run.of = run.claim.of
       /\ run.of \in 1 .. Len(asked)
  /\ run.status \in {"waiting", "pending"} => loop = "none"

\* From its activation until the answer is applied the run's metadata has the answer of
\* the durable event.
AnswerInv ==
  IsReady(run) \/ loop \in {"wake", "apply"} =>
    /\ run.of \in 1 .. Len(asked)
    /\ run.answer # None /\ run.answer = event[run.of]

\* The run has gone on past interaction i for good: it has been activated since, it asked
\* something else, it ended, or the approval was closed.
Moved(i) ==
  \/ i < Len(asked)
  \/ run.status = "terminal"
  \/ result[i] = "closed"
  \/ i <= Len(asked) /\ loop # "park" /\ (run.status = "running" \/ IsReady(run))

\* A result is that of the durable event, and the run does not wait for it again; a run
\* that resumes a question exists only once its first run has ended.
ResultInv(i) ==
  /\ result[i] \in Answer => result[i] = event[i] /\ Moved(i)
  /\ extra[i] # "absent" => run.status = "terminal"

StoreInv == StoreTypeOK /\ RunInv /\ AnswerInv /\ \A i \in Interaction : ResultInv(i)

\* What a handler remembers between its calls is true of the durable event, of its own
\* interaction and of a run that does not come back.
RequestInv(q) ==
  /\ q.at \notin {"idle", "end"} => q.of \in 1 .. Len(asked) /\ q.answer # None
  /\ q.seen # None => q.at \notin {"idle", "end"} /\ q.seen = event[q.of]
  /\ q.at \in {"load", "choose", "decide"} =>
       q.saw \in Run /\ (IsReady(q.saw) => Moved(q.of))
  /\ q.at \in {"events", "rollback", "activate"} => q.other \in ClaimId /\ q.other.of = q.of
  /\ q.at = "activate" => q.seen # None
  /\ q.at \in {"answer", "resume", "enqueue", "start"} => run.status = "terminal"
  /\ q.told # None =>
       /\ q.at = "end" /\ q.of \in 1 .. Len(asked)
       /\ event[q.of] # None /\ Moved(q.of)
       /\ q.via = "web" => q.told = event[q.of]

IInv ==
  /\ StoreInv
  /\ handler \in [Handler -> Request] /\ lock \in Handler \cup {None}
  /\ \A h \in Handler : RequestInv(handler[h])

-----------------------------------------------------------------------------
(* What a step may do to what others remember *)

\* Answers, ends and progress are final.
Advance ==
  /\ \A i \in Interaction : event[i] # None => event'[i] = event[i]
  /\ \A i \in Interaction : Moved(i) => Moved(i)'
  /\ Len(asked) <= Len(asked)'
  /\ run.status = "terminal" => run'.status = "terminal"

LEMMA LenType ==
  ASSUME StoreTypeOK
  PROVE  Len(asked) \in Nat \ {0} /\ Len(asked) <= MaxAsked
         /\ \A i \in 1 .. Len(asked) : i \in Interaction
         /\ MaxAsked \in Nat
  BY BoundAssumption DEF StoreTypeOK, Interaction

LEMMA FaultType ==
  ASSUME StoreTypeOK, Fault
  PROVE  faults' \in 0 .. MaxFaults
  BY BoundAssumption DEF StoreTypeOK, Fault

\* Nothing a handler remembers becomes false by a step of another.
LEMMA RequestKept ==
  ASSUME StoreTypeOK, StoreTypeOK', Advance, NEW q \in Request, RequestInv(q)
  PROVE  RequestInv(q)'
  <1>1. /\ Len(asked) \in Nat /\ Len(asked)' \in Nat /\ Len(asked) <= Len(asked)'
        /\ \A i \in 1 .. Len(asked) : i \in Interaction /\ i \in 1 .. Len(asked)'
    <2>1. Len(asked) \in Nat /\ \A i \in 1 .. Len(asked) : i \in Interaction BY LenType
    <2>2. Len(asked)' \in Nat BY DEF StoreTypeOK, Interaction
    <2> QED BY <2>1, <2>2 DEF Advance
  <1>2. ASSUME q.of \in 1 .. Len(asked)
        PROVE  /\ q.of \in 1 .. Len(asked)'
               /\ event[q.of] # None => event'[q.of] = event[q.of]
               /\ Moved(q.of) => Moved(q.of)'
    BY <1>1, <1>2 DEF Advance
  <1>3. q.at \notin {"idle", "end"} => q.of \in 1 .. Len(asked)' /\ q.answer # None
    BY <1>2 DEF RequestInv
  <1>4. q.seen # None => q.at \notin {"idle", "end"} /\ q.seen = event'[q.of]
    BY <1>2 DEF RequestInv
  <1>5. q.at \in {"load", "choose", "decide"} =>
          q.saw \in Run /\ (IsReady(q.saw) => Moved(q.of)')
    BY <1>2 DEF RequestInv
  <1>6. q.told # None =>
          /\ q.at = "end" /\ q.of \in 1 .. Len(asked)'
          /\ event'[q.of] # None /\ Moved(q.of)'
          /\ q.via = "web" => q.told = event'[q.of]
    BY <1>2 DEF RequestInv
  <1>7. /\ q.at \in {"events", "rollback", "activate"} =>
             q.other \in ClaimId /\ q.other.of = q.of
        /\ q.at = "activate" => q.seen # None
        /\ q.at \in {"answer", "resume", "enqueue", "start"} => run'.status = "terminal"
    BY DEF RequestInv, Advance
  <1>8. IsReady(q.saw)' <=> IsReady(q.saw) BY DEF IsReady
  <1> QED BY <1>3, <1>4, <1>5, <1>6, <1>7, <1>8 DEF RequestInv

\* A step of the scheduler, of a dispatch or of a user
LEMMA StoreStepInv ==
  ASSUME IInv, StoreInv', Advance, UNCHANGED handler, lock' \in Handler \cup {None}
  PROVE  IInv'
  <1>1. ASSUME NEW h \in Handler PROVE RequestInv(handler[h])'
    <2>1. PICK q \in Request : q = handler[h] BY DEF IInv
    <2>2. RequestInv(q) BY <2>1 DEF IInv
    <2>3. RequestInv(q)' BY <2>2, RequestKept DEF IInv, StoreInv
    <2> QED BY <2>1, <2>3
  <1> QED BY <1>1 DEF IInv

\* A step of a handler
LEMMA HandlerStepInv ==
  ASSUME IInv, StoreInv', Advance, NEW h \in Handler, NEW q \in Request, Goes(h, q),
         RequestInv(q)'
  PROVE  IInv'
  <1>1. /\ handler' \in [Handler -> Request] /\ handler'[h] = q
        /\ \A g \in Handler : g # h => handler'[g] = handler[g]
    BY DEF IInv, Goes
  <1>2. lock' \in Handler \cup {None} BY DEF IInv, Goes
  <1>3. ASSUME NEW g \in Handler, g # h PROVE RequestInv(handler[g])'
    <2>1. PICK p \in Request : p = handler[g] BY DEF IInv
    <2>2. RequestInv(p) BY <2>1 DEF IInv
    <2>3. RequestInv(p)' BY <2>2, RequestKept DEF IInv, StoreInv
    <2> QED BY <1>1, <1>3, <2>1, <2>3
  <1>4. RequestInv(handler[h])' BY <1>1
  <1> QED BY <1>1, <1>2, <1>3, <1>4 DEF IInv

-----------------------------------------------------------------------------
(* Steps on the store *)

LEMMA StoreKept ==
  ASSUME StoreInv, UNCHANGED <<asked, run, loop, event, result, extra>>,
         faults' \in 0 .. MaxFaults
  PROVE  StoreInv' /\ Advance
  <1>1. \A i : Moved(i)' <=> Moved(i) BY DEF Moved, IsReady
  <1>2. StoreTypeOK' BY DEF StoreInv, StoreTypeOK
  <1>3. RunInv' /\ AnswerInv' BY DEF StoreInv, RunInv, AnswerInv, IsReady
  <1>4. \A i \in Interaction : ResultInv(i)' BY <1>1 DEF StoreInv, ResultInv
  <1>5. Len(asked) <= Len(asked)' BY LenType DEF StoreInv
  <1> QED BY <1>1, <1>2, <1>3, <1>4, <1>5 DEF StoreInv, Advance

\* An event is appended once; afterwards there is an answer.
LEMMA EventStored ==
  ASSUME StoreInv, UNCHANGED <<asked, run, loop, result, extra>>,
         faults' \in 0 .. MaxFaults,
         NEW i \in Interaction, NEW a \in Answer, event' = Resolved(i, a)
  PROVE  StoreInv' /\ Advance /\ event'[i] # None
  <1>1. \A j : Moved(j)' <=> Moved(j) BY DEF Moved, IsReady
  <1>2. a # None BY HandlerAssumption DEF Answer
  <1>3. /\ event' \in [Interaction -> Answer \cup {None}]
        /\ event'[i] # None
        /\ \A j \in Interaction : event[j] # None => event'[j] = event[j]
    BY <1>2 DEF StoreInv, StoreTypeOK, Resolved
  <1>4. StoreTypeOK' BY <1>3 DEF StoreInv, StoreTypeOK
  <1>5. RunInv' BY DEF StoreInv, RunInv
  <1>6. AnswerInv'
    <2> SUFFICES ASSUME IsReady(run) \/ loop \in {"wake", "apply"}
                 PROVE  /\ run.of \in 1 .. Len(asked)
                        /\ run.answer # None /\ run.answer = event'[run.of]
      BY DEF AnswerInv, IsReady
    <2>1. /\ run.of \in 1 .. Len(asked) /\ run.answer # None /\ run.answer = event[run.of]
      BY DEF StoreInv, AnswerInv
    <2> QED BY <1>3, <2>1, LenType DEF StoreInv
  <1>7. ASSUME NEW j \in Interaction PROVE ResultInv(j)'
    <2>1. None \notin Answer BY HandlerAssumption DEF Answer
    <2> QED BY <1>1, <1>3, <2>1 DEF StoreInv, ResultInv
  <1>8. Len(asked) <= Len(asked)' BY LenType DEF StoreInv
  <1> QED BY <1>1, <1>3, <1>4, <1>5, <1>6, <1>7, <1>8 DEF StoreInv, Advance

\* A change of the run's record or of its dispatch.
LEMMA RunStepInv ==
  ASSUME StoreInv, UNCHANGED <<asked, event, result, extra>>, faults' \in 0 .. MaxFaults,
         run' \in Run, loop' \in {"none", "wake", "apply", "go", "park"},
         RunInv', AnswerInv',
         run.status = "terminal" => run'.status = "terminal",
         loop # "park" /\ (run.status = "running" \/ IsReady(run)) =>
           \/ run'.status = "terminal"
           \/ loop' # "park" /\ (run'.status = "running" \/ IsReady(run'))
  PROVE  StoreInv' /\ Advance
  <1>1. \A i : Moved(i) => Moved(i)' BY DEF Moved, IsReady
  <1>2. StoreTypeOK' BY DEF StoreInv, StoreTypeOK
  <1>3. \A i \in Interaction : ResultInv(i)' BY <1>1 DEF StoreInv, ResultInv
  <1>4. Len(asked) <= Len(asked)' BY LenType DEF StoreInv
  <1> QED BY <1>1, <1>2, <1>3, <1>4 DEF StoreInv, Advance

\* The run ends; a dispatch that is at work goes on until it notices.
LEMMA TerminalStep ==
  ASSUME StoreInv, UNCHANGED <<asked, event, result, extra>>, faults' \in 0 .. MaxFaults,
         run' = Terminal(run), loop' \in {loop, "none"}
  PROVE  StoreInv' /\ Advance
  <1>1. /\ run' \in Run /\ run'.status = "terminal" /\ run'.of = run.of
        /\ run'.answer = run.answer
    BY DEF StoreInv, StoreTypeOK, Terminal, Run
  <1>2. loop' \in {"none", "wake", "apply", "go", "park"} BY DEF StoreInv, StoreTypeOK
  <1>3. RunInv' BY <1>1 DEF RunInv
  <1>4. AnswerInv' BY <1>1 DEF StoreInv, AnswerInv, IsReady
  <1> QED BY <1>1, <1>2, <1>3, <1>4, RunStepInv

LEMMA WaitingType ==
  /\ Waiting \in Run /\ Waiting.status = "waiting" /\ Waiting.stage = "none"
  /\ RolledBack = Waiting
  <1>1. 0 \in 0 .. MaxAsked BY BoundAssumption
  <1> QED BY <1>1 DEF Waiting, RolledBack, Run, Claim

\* A staged claim is rolled back.
LEMMA RollBackStep ==
  ASSUME StoreInv, UNCHANGED <<asked, loop, event, result, extra, faults>>,
         NEW c, MayRollBack(c), run' = RolledBack
  PROVE  StoreInv' /\ Advance
  <1>1. run.status = "pending" /\ run.stage = "staged" /\ loop = "none"
    BY DEF MayRollBack, StoreInv, RunInv
  <1>2. run' \in Run /\ run'.status = "waiting" BY WaitingType
  <1>3. RunInv' /\ AnswerInv' BY <1>1, <1>2 DEF RunInv, AnswerInv, IsReady
  <1>4. loop' \in {"none", "wake", "apply", "go", "park"} /\ faults' \in 0 .. MaxFaults
    BY DEF StoreInv, StoreTypeOK
  <1> QED BY <1>1, <1>2, <1>3, <1>4, RunStepInv DEF IsReady

\* A staged run is activated with the durable answer of its interaction.
LEMMA ActivateStep ==
  ASSUME StoreInv, UNCHANGED <<asked, loop, event, result, extra, faults>>,
         run.status = "pending", run.stage = "staged",
         NEW a \in Answer, a = event[run.claim.of], run' = Activated(a)
  PROVE  StoreInv' /\ Advance /\ IsReady(run)' /\ loop = "none"
  <1>1. /\ run.claim \in ClaimId /\ run.of = run.claim.of /\ run.of \in 1 .. Len(asked)
        /\ loop = "none"
    BY DEF StoreInv, RunInv
  <1>2. /\ run' \in Run /\ run'.status = "pending" /\ run'.stage = "ready"
        /\ run'.claim = run.claim /\ run'.of = run.of /\ run'.answer = a
    BY DEF StoreInv, StoreTypeOK, Activated, Run
  <1>3. a # None BY HandlerAssumption DEF Answer
  <1>4. RunInv' BY <1>1, <1>2 DEF RunInv
  <1>5. AnswerInv' BY <1>1, <1>2, <1>3 DEF AnswerInv
  <1>6. loop' \in {"none", "wake", "apply", "go", "park"} /\ faults' \in 0 .. MaxFaults
    BY DEF StoreInv, StoreTypeOK
  <1> QED BY <1>1, <1>2, <1>4, <1>5, <1>6, RunStepInv DEF IsReady

-----------------------------------------------------------------------------
(* Requests *)

LEMMA UnusedType ==
  /\ Unused \in Request /\ Unused.at = "idle" /\ Unused.seen = None /\ Unused.told = None
  <1>1. 0 \in 0 .. MaxAsked BY BoundAssumption
  <1> QED BY <1>1 DEF Unused, Request, Claim

LEMMA ToType ==
  ASSUME IInv, NEW h \in Handler, NEW a \in Place
  PROVE  LET q == To(h, a)
             p == handler[h]
         IN  /\ q \in Request /\ q.at = a
             /\ q.via = p.via /\ q.of = p.of /\ q.answer = p.answer /\ q.saw = p.saw
             /\ q.seen = p.seen /\ q.other = p.other /\ q.told = p.told
  <1>1. handler[h] \in Request BY DEF IInv
  <1> QED BY <1>1 DEF To, Request, Place

LEMMA EndType ==
  ASSUME IInv, NEW h \in Handler, NEW a \in Answer \cup {None}
  PROVE  LET q == End(h, a)
         IN  /\ q \in Request /\ q.at = "end" /\ q.seen = None /\ q.told = a
             /\ a # None => q.of = Of(h) /\ q.via = handler[h].via
  <1>1. handler[h] \in Request BY DEF IInv
  <1>2. CASE a = None BY <1>2, UnusedType DEF End, Request
  <1>3. CASE a # None
    <2>1. PICK n \in 0 .. MaxAsked : n = handler[h].of BY <1>1 DEF Request
    <2>2. PICK v \in {"web", "org"} : v = handler[h].via BY <1>1 DEF Request
    <2>3. End(h, a) = [Unused EXCEPT !.at = "end", !.told = a, !.via = v, !.of = n]
      BY <1>3, <2>1, <2>2 DEF End
    <2> QED BY <1>3, <2>1, <2>2, <2>3, UnusedType DEF Request, Of
  <1> QED BY <1>2, <1>3

\* A handler that ends with an error
LEMMA RefuseInv ==
  ASSUME IInv, NEW h \in Handler, StoreInv', Advance, Refuse(h)
  PROVE  IInv'
  <1>1. PICK q \in Request : /\ q = End(h, None)
                             /\ q.at = "end" /\ q.seen = None /\ q.told = None
    BY EndType
  <1>2. RequestInv(q)' BY <1>1 DEF RequestInv
  <1> QED BY <1>1, <1>2, HandlerStepInv DEF Refuse

\* A handler that acknowledges, if anything, an interaction whose answer is durable and
\* that the run has left for good; the web channel tells that answer
LEMMA EndsInv ==
  ASSUME IInv, NEW h \in Handler, StoreInv', Advance,
         NEW q \in Request, Goes(h, q), q.at = "end", q.seen = None,
         q.told # None => /\ q.of = Of(h) /\ q.of \in 1 .. Len(asked)
                          /\ event'[q.of] # None /\ Moved(q.of)'
                          /\ q.via = "web" => q.told = event'[q.of]
  PROVE  IInv'
  <1>1. q.of \in 1 .. Len(asked) => q.of \in 1 .. Len(asked)'
    <2>1. Len(asked) \in Nat /\ Len(asked)' \in Nat
      BY DEF IInv, StoreInv, StoreTypeOK, Interaction
    <2> QED BY <2>1 DEF Advance
  <1>2. RequestInv(q)' BY <1>1 DEF RequestInv
  <1> QED BY <1>2, HandlerStepInv

LEMMA AcknowledgeInv ==
  ASSUME IInv, NEW h \in Handler, StoreInv', Advance,
         NEW a \in Answer \cup {None}, Acknowledge(h, a),
         NEW i, i = Of(h), i \in 1 .. Len(asked),
         a # None => /\ event'[i] # None /\ Moved(i)'
                     /\ handler[h].via = "web" => a = event'[i]
  PROVE  IInv'
  <1>1. PICK q \in Request : /\ q = End(h, a)
                             /\ q.at = "end" /\ q.seen = None /\ q.told = a
                             /\ a # None => q.of = i /\ q.via = handler[h].via
    BY EndType
  <1> QED BY <1>1, EndsInv DEF Acknowledge

\* What is known of a handler that is at work
LEMMA BusyFacts ==
  ASSUME IInv, NEW h \in Handler, handler[h].at \notin {"idle", "end"}
  PROVE  /\ StoreInv /\ StoreTypeOK
         /\ handler[h] \in Request /\ RequestInv(handler[h])
         /\ Of(h) \in 1 .. Len(asked) /\ Of(h) \in Interaction
         /\ handler[h].answer \in Answer /\ handler[h].answer # None
         /\ handler[h].told = None
         /\ handler[h].seen # None => handler[h].seen \in Answer /\ handler[h].seen = event[Of(h)]
         /\ event[Of(h)] \in Answer \cup {None}
  <1>1. StoreInv /\ StoreTypeOK /\ handler[h] \in Request /\ RequestInv(handler[h])
    BY DEF IInv, StoreInv
  <1>2. Of(h) \in 1 .. Len(asked) /\ handler[h].answer # None /\ handler[h].told = None
    BY <1>1 DEF RequestInv, Of
  <1>3. Of(h) \in Interaction BY <1>1, <1>2, LenType
  <1>4. handler[h].answer \in Answer BY <1>1, <1>2 DEF Request
  <1>5. handler[h].seen # None => handler[h].seen \in Answer /\ handler[h].seen = event[Of(h)]
    BY <1>1 DEF Request, RequestInv, Of
  <1>6. event[Of(h)] \in Answer \cup {None} BY <1>1, <1>3 DEF StoreTypeOK
  <1> QED BY <1>1, <1>2, <1>3, <1>4, <1>5, <1>6

\* A handler that goes on with its interaction
LEMMA GoesOnInv ==
  ASSUME IInv, NEW h \in Handler, handler[h].at \notin {"idle", "end"},
         StoreInv', Advance, NEW q \in Request, Goes(h, q),
         q.of = Of(h), q.at \notin {"idle", "end", "load", "choose", "decide"},
         q.answer # None, q.told = None,
         q.seen # None => q.seen = event'[q.of],
         q.at \in {"events", "rollback", "activate"} => q.other \in ClaimId /\ q.other.of = q.of,
         q.at = "activate" => q.seen # None,
         q.at \in {"answer", "resume", "enqueue", "start"} => run'.status = "terminal"
  PROVE  IInv'
  <1>1. q.of \in 1 .. Len(asked)'
    <2>1. Len(asked) \in Nat /\ Len(asked)' \in Nat
      BY DEF IInv, StoreInv, StoreTypeOK, Interaction
    <2> QED BY <2>1, BusyFacts DEF Advance
  <1>2. RequestInv(q)' BY <1>1 DEF RequestInv
  <1> QED BY <1>2, HandlerStepInv

\* ... to a place where it needs nothing but what it has
LEMMA PlainInv ==
  ASSUME IInv, NEW h \in Handler, handler[h].at \notin {"idle", "end"},
         StoreInv', Advance, NEW a \in Place, Goes(h, To(h, a)),
         a \notin {"idle", "end", "load", "choose", "decide", "events", "activate"},
         a = "rollback" => handler[h].at = "events",
         a \in {"answer", "resume", "enqueue", "start"} => run'.status = "terminal"
  PROVE  IInv'
  <1>1. PICK q \in Request :
          /\ q = To(h, a) /\ q.at = a /\ q.of = Of(h) /\ q.answer = handler[h].answer
          /\ q.seen = handler[h].seen /\ q.other = handler[h].other /\ q.told = handler[h].told
    BY ToType DEF Of
  <1>2. q.seen # None => q.seen = event'[q.of]
    BY <1>1, BusyFacts DEF Advance
  <1>3. a = "rollback" => q.other \in ClaimId /\ q.other.of = q.of
    BY <1>1, BusyFacts DEF RequestInv, Of
  <1>4. q.answer # None /\ q.told = None BY <1>1, BusyFacts
  <1> QED BY <1>1, <1>2, <1>3, <1>4, GoesOnInv

-----------------------------------------------------------------------------
(* A handler *)

LEMMA InitInv == Init => IInv
  <1> SUFFICES ASSUME Init PROVE IInv OBVIOUS
  <1>1. asked \in Seq(Type) /\ Len(asked) = 1
    <2>1. PICK t \in Type : asked = <<t>> BY DEF Init
    <2> QED BY <2>1
  <1>2. 1 \in Interaction BY BoundAssumption DEF Interaction
  <1>3. StoreTypeOK
    BY <1>1, <1>2, WaitingType, BoundAssumption DEF Init, StoreTypeOK
  <1>4. RunInv /\ AnswerInv BY WaitingType DEF Init, RunInv, AnswerInv, IsReady
  <1>5. \A i \in Interaction : ResultInv(i)
    BY HandlerAssumption DEF Init, ResultInv, Answer
  <1>6. \A h \in Handler : RequestInv(handler[h])
    BY UnusedType DEF Init, RequestInv
  <1>7. handler \in [Handler -> Request] /\ lock \in Handler \cup {None}
    BY UnusedType DEF Init
  <1> QED BY <1>3, <1>4, <1>5, <1>6, <1>7 DEF IInv, StoreInv

\* A run that is ready has left every interaction requested so far.
LEMMA ReadyMoved ==
  ASSUME StoreInv, IsReady(run), NEW i \in 1 .. Len(asked)
  PROVE  Moved(i)
  <1>1. loop = "none" BY DEF StoreInv, RunInv, IsReady
  <1>2. i <= Len(asked) BY LenType DEF StoreInv
  <1> QED BY <1>1, <1>2 DEF Moved

LEMMA ReceiveInv ==
  ASSUME IInv, NEW h \in Handler, NEW via \in {"web", "org"}, NEW i \in 1 .. Len(asked),
         NEW a \in Answer, Receive(h, via, i, a)
  PROVE  IInv'
  <1>1. /\ StoreInv /\ StoreTypeOK /\ handler[h] \in Request /\ RequestInv(handler[h])
        /\ handler[h].at = "idle"
    BY DEF IInv, StoreInv, Receive, At
  <1>2. i \in Interaction /\ i \in 0 .. MaxAsked
    BY <1>1, LenType, BoundAssumption DEF Interaction
  <1>3. PICK at \in {"load", "decide"} : at = IF via = "web" THEN "load" ELSE "decide"
    OBVIOUS
  <1>4. PICK q : q = [handler[h] EXCEPT !.at = at, !.via = via, !.of = i, !.answer = a,
                                        !.saw = run]
    OBVIOUS
  <1>5. run \in Run BY <1>1 DEF StoreTypeOK
  <1>6. /\ q \in Request /\ q.at = at /\ q.of = i /\ q.answer = a /\ q.saw = run
        /\ q.seen = handler[h].seen /\ q.told = handler[h].told
    BY <1>1, <1>2, <1>4, <1>5 DEF Request
  <1>7. handler' = [handler EXCEPT ![h] = q] BY <1>3, <1>4 DEF Receive, IInv
  <1>8. StoreInv' /\ Advance BY <1>1, StoreKept DEF Receive, StoreTypeOK
  <1>9. RequestInv(q)'
    <2>1. a # None BY HandlerAssumption DEF Answer
    <2>2. q.seen = None /\ q.told = None BY <1>1, <1>6 DEF RequestInv
    <2>3. IsReady(q.saw) => Moved(i)' BY <1>1, <1>2, <1>6, <1>8, ReadyMoved DEF Advance
    <2>4. UNCHANGED <<asked, run>> BY DEF Receive
    <2> QED BY <1>3, <1>5, <1>6, <2>1, <2>2, <2>3, <2>4 DEF RequestInv, IsReady
  <1>10. /\ handler' \in [Handler -> Request] /\ handler'[h] = q
         /\ \A g \in Handler : g # h => handler'[g] = handler[g]
    BY <1>6, <1>7 DEF IInv
  <1>11. lock' \in Handler \cup {None} BY DEF IInv, Receive
  <1>12. ASSUME NEW g \in Handler, g # h PROVE RequestInv(handler[g])'
    <2>1. PICK p \in Request : p = handler[g] BY DEF IInv
    <2>2. RequestInv(p) BY <2>1 DEF IInv
    <2>3. RequestInv(p)' BY <1>8, <2>2, RequestKept DEF IInv, StoreInv
    <2> QED BY <1>10, <1>12, <2>1, <2>3
  <1>13. RequestInv(handler[h])' BY <1>9, <1>10
  <1> QED BY <1>8, <1>10, <1>11, <1>12, <1>13 DEF IInv

\* A result that is there means that the run has left the interaction.
LEMMA ResultMoved ==
  ASSUME StoreInv, NEW i \in Interaction, result[i] # None
  PROVE  Moved(i)
  <1>1. result[i] \in Answer \/ result[i] = "closed" BY DEF StoreInv, StoreTypeOK
  <1> QED BY <1>1 DEF StoreInv, ResultInv, Moved

LEMMA LoadInv ==
  ASSUME IInv, NEW h \in Handler, Load(h)
  PROVE  IInv'
  <1>1. handler[h].at = "load" BY DEF Load, At
  <1>2. PICK i \in Interaction : i = Of(h) BY <1>1, BusyFacts
  <1>3. StoreInv' /\ Advance BY <1>1, BusyFacts, StoreKept DEF Load, StoreTypeOK
  <1>4. UNCHANGED event BY DEF Load
  <1>5. CASE IsApproval(i) /\ result[i] # None
    <2>1. Acknowledge(h, event[i]) BY <1>2, <1>5 DEF Load
    <2>2. Moved(i)' BY <1>1, <1>3, <1>5, ResultMoved, BusyFacts DEF Advance
    <2>3. event[i] \in Answer \cup {None} /\ i \in 1 .. Len(asked)
      BY <1>1, <1>2, BusyFacts
    <2> QED BY <1>2, <1>3, <1>4, <2>1, <2>2, <2>3, AcknowledgeInv
  <1>6. CASE ~(IsApproval(i) /\ result[i] # None)
    <2>1. Goes(h, [To(h, "choose") EXCEPT !.seen = event[i]]) BY <1>2, <1>6 DEF Load
    <2>2. PICK q : q = [To(h, "choose") EXCEPT !.seen = event[i]] OBVIOUS
    <2>3. event[i] \in Answer \cup {None} BY <1>1, <1>2, BusyFacts
    <2>4. /\ q \in Request /\ q.at = "choose" /\ q.of = i /\ q.answer = handler[h].answer
          /\ q.seen = event[i] /\ q.saw = handler[h].saw /\ q.told = handler[h].told
      BY <1>2, <2>2, <2>3, ToType DEF Request, Of, Place
    <2>5. RequestInv(q)'
      <3>1. RequestInv(handler[h]) /\ q.answer # None /\ q.told = None /\ i \in 1 .. Len(asked)
        BY <1>1, <1>2, <2>4, BusyFacts
      <3>2. q.saw \in Run /\ (IsReady(q.saw) => Moved(i))
        BY <1>1, <1>2, <2>4, <3>1 DEF RequestInv, Of
      <3>3. Moved(i) => Moved(i)' BY <1>3 DEF Advance
      <3>4. UNCHANGED asked BY DEF Load
      <3> QED BY <1>4, <2>4, <3>1, <3>2, <3>3, <3>4 DEF RequestInv, IsReady
    <2> QED BY <1>3, <2>1, <2>2, <2>4, <2>5, HandlerStepInv
  <1> QED BY <1>5, <1>6

\* The run that was read is forgotten.
LEMMA ForgetType ==
  ASSUME NEW p \in Request
  PROVE  LET q == [p EXCEPT !.saw = None]
         IN  /\ q \in Request /\ q.at = p.at /\ q.via = p.via /\ q.of = p.of
             /\ q.answer = p.answer /\ q.seen = p.seen /\ q.other = p.other
             /\ q.told = p.told
  BY DEF Request

\* Where the web handler goes with the run it looks at, which may be stale but for its end
LEMMA ChosenInv ==
  ASSUME IInv, NEW h \in Handler, handler[h].at = "choose",
         StoreInv', Advance, UNCHANGED <<run, event>>,
         NEW r \in Run, IsReady(r) => Moved(Of(h)),
         r.status = "terminal" => run.status = "terminal",
         Goes(h, [Chosen(h, r) EXCEPT !.saw = None])
  PROVE  IInv'
  <1>0. PICK i \in Interaction : i = Of(h) BY BusyFacts
  <1> DEFINE seen == handler[h].seen
  <1>1. /\ i \in 1 .. Len(asked) /\ i = Of(h)
        /\ handler[h] \in Request /\ handler[h].answer # None /\ handler[h].told = None
        /\ seen # None => seen \in Answer /\ seen = event[i]
    BY <1>0, BusyFacts
  <1>2. CASE r.status = "terminal" /\ ~IsApproval(i)
    <2>1. Chosen(h, r) = To(h, "answer") BY <1>1, <1>2 DEF Chosen
    <2>2. PICK q : q = [Chosen(h, r) EXCEPT !.saw = None] OBVIOUS
    <2>3. /\ q \in Request /\ q.at = "answer" /\ q.of = i /\ q.answer = handler[h].answer
          /\ q.seen = seen /\ q.told = handler[h].told
      BY <1>1, <2>1, <2>2, ToType, ForgetType DEF Place, Of
    <2> QED BY <1>1, <1>2, <2>2, <2>3, GoesOnInv
  <1>3. CASE ~(r.status = "terminal" /\ ~IsApproval(i)) /\ IsApproval(i) /\ CannotResume(r, i, seen)
    <2>1. Chosen(h, r) = To(h, "close") BY <1>1, <1>3 DEF Chosen
    <2>2. PICK q : q = [Chosen(h, r) EXCEPT !.saw = None] OBVIOUS
    <2>3. /\ q \in Request /\ q.at = "close" /\ q.of = i /\ q.answer = handler[h].answer
          /\ q.seen = seen /\ q.told = handler[h].told
      BY <1>1, <2>1, <2>2, ToType, ForgetType DEF Place, Of
    <2> QED BY <1>1, <2>2, <2>3, GoesOnInv
  <1>4. CASE /\ ~(r.status = "terminal" /\ ~IsApproval(i))
             /\ ~(IsApproval(i) /\ CannotResume(r, i, seen))
             /\ seen # None /\ ClaimOf(r, i) /\ IsReady(r)
    <2>1. Chosen(h, r) = End(h, seen) BY <1>1, <1>4 DEF Chosen
    <2>2. PICK q : q = [Chosen(h, r) EXCEPT !.saw = None] OBVIOUS
    <2>3. q \in Request /\ q.at = "end" /\ q.seen = None /\ q.told = seen /\ q.of = i
      BY <1>1, <1>4, <2>1, <2>2, EndType, ForgetType
    <2>4. Moved(i)' BY <1>1, <1>4 DEF Advance
    <2>5. q.told = event'[q.of] /\ Moved(q.of)' BY <1>1, <1>4, <2>3, <2>4
    <2> QED BY <1>1, <2>2, <2>3, <2>5, EndsInv
  <1>5. CASE /\ ~(r.status = "terminal" /\ ~IsApproval(i))
             /\ ~(IsApproval(i) /\ CannotResume(r, i, seen))
             /\ seen # None /\ ClaimOf(r, i) /\ ~IsReady(r)
    <2>1. Chosen(h, r) = [To(h, "activate") EXCEPT !.other = r.claim] BY <1>1, <1>5 DEF Chosen
    <2>2. r.claim \in ClaimId /\ r.claim.of = i
      BY <1>5 DEF ClaimOf, Run, Claim, ClaimId
    <2>3. PICK p : p = Chosen(h, r) OBVIOUS
    <2>4. r.claim \in Claim BY DEF Run
    <2>5. /\ p \in Request /\ p.at = "activate" /\ p.of = i /\ p.answer = handler[h].answer
          /\ p.seen = seen /\ p.other = r.claim /\ p.told = handler[h].told
      BY <1>1, <2>1, <2>3, <2>4, ToType DEF Place, Of, Request
    <2>6. PICK q : q = [p EXCEPT !.saw = None] OBVIOUS
    <2>7. /\ q \in Request /\ q.at = "activate" /\ q.of = i /\ q.answer = handler[h].answer
          /\ q.seen = seen /\ q.other = r.claim /\ q.told = handler[h].told
      BY <2>5, <2>6, ForgetType
    <2> QED BY <1>1, <1>5, <2>2, <2>3, <2>6, <2>7, GoesOnInv
  <1>6. CASE /\ ~(r.status = "terminal" /\ ~IsApproval(i))
             /\ ~(IsApproval(i) /\ CannotResume(r, i, seen))
             /\ ~(seen # None /\ ClaimOf(r, i))
    <2>1. PICK a \in Answer : a = IF IsApproval(i) /\ seen # None THEN seen ELSE handler[h].answer
      BY <1>1, BusyFacts
    <2>2. Chosen(h, r) = [To(h, "claim") EXCEPT !.answer = a]
      <3>1. To(h, "claim").answer = handler[h].answer BY ToType DEF Place
      <3> QED BY <1>1, <1>6, <2>1, <3>1 DEF Chosen
    <2>3. PICK p : p = Chosen(h, r) OBVIOUS
    <2>4. /\ p \in Request /\ p.at = "claim" /\ p.of = i /\ p.answer = a
          /\ p.seen = seen /\ p.told = handler[h].told
      BY <1>1, <2>2, <2>3, ToType DEF Place, Of, Request
    <2>5. PICK q : q = [p EXCEPT !.saw = None] OBVIOUS
    <2>6. /\ q \in Request /\ q.at = "claim" /\ q.of = i /\ q.answer = a
          /\ q.seen = seen /\ q.told = handler[h].told
      BY <2>4, <2>5, ForgetType
    <2>7. a # None BY HandlerAssumption DEF Answer
    <2> QED BY <1>1, <2>3, <2>5, <2>6, <2>7, GoesOnInv
  <1> QED BY <1>2, <1>3, <1>4, <1>5, <1>6

LEMMA ChooseInv ==
  ASSUME IInv, NEW h \in Handler, Choose(h)
  PROVE  IInv'
  <1>1. handler[h].at = "choose" BY DEF Choose, At
  <1>2. StoreInv' /\ Advance BY <1>1, BusyFacts, StoreKept DEF Choose, StoreTypeOK
  <1>3. /\ handler[h].saw \in Run /\ (IsReady(handler[h].saw) => Moved(Of(h)))
        /\ run \in Run /\ (IsReady(run) => Moved(Of(h)))
    BY <1>1, BusyFacts, ReadyMoved DEF RequestInv, Of, StoreTypeOK
  <1>4. PICK r \in Run :
          r = IF IsApproval(Of(h)) /\ handler[h].saw.status # "terminal"
                THEN handler[h].saw ELSE run
    BY <1>3
  <1>5. Goes(h, [Chosen(h, r) EXCEPT !.saw = None]) BY <1>4 DEF Choose
  <1>6. UNCHANGED <<run, event>> BY DEF Choose
  <1> QED BY <1>1, <1>2, <1>3, <1>4, <1>5, <1>6, ChosenInv

LEMMA DecideInv ==
  ASSUME IInv, NEW h \in Handler, Decide(h)
  PROVE  IInv'
  <1>0. PICK i \in Interaction : i = Of(h) BY BusyFacts DEF Decide, At
  <1> DEFINE r == handler[h].saw
  <1> DEFINE same == event[i] = handler[h].answer
  <1>1. handler[h].at = "decide" BY DEF Decide, At
  <1>2. StoreInv' /\ Advance BY <1>1, BusyFacts, StoreKept DEF Decide, StoreTypeOK
  <1>3. UNCHANGED <<run, event>> BY DEF Decide
  <1>4. /\ i \in 1 .. Len(asked) /\ i = Of(h)
        /\ handler[h] \in Request /\ handler[h].answer # None /\ handler[h].told = None
        /\ handler[h].seen # None => handler[h].seen \in Answer /\ handler[h].seen = event[i]
        /\ event[i] \in Answer \cup {None}
    BY <1>0, <1>1, BusyFacts
  <1>5. r \in Run /\ (IsReady(r) => Moved(i))
    BY <1>1, <1>4, BusyFacts DEF RequestInv, Of
  <1>6. r.claim \in Claim /\ (ClaimOf(r, i) => r.claim \in ClaimId /\ r.claim.of = i)
    BY <1>5 DEF Run, ClaimOf, Claim, ClaimId
  <1>7. PICK p : /\ Goes(h, [p EXCEPT !.saw = None])
                 /\ \/ p = End(h, event[i]) /\ IsReady(r) /\ same
                    \/ p = End(h, None)
                    \/ /\ p = [To(h, "activate") EXCEPT !.seen = event[i], !.other = r.claim]
                       /\ ClaimOf(r, i) /\ same
                    \/ p = [To(h, "rollback") EXCEPT !.other = r.claim] /\ ClaimOf(r, i)
                    \/ p = To(h, "reclaim")
    BY <1>4 DEF Decide
  <1>8. PICK q : q = [p EXCEPT !.saw = None] OBVIOUS
  <1>9. CASE p = End(h, event[i]) /\ IsReady(r) /\ same
    <2>1. q \in Request /\ q.at = "end" /\ q.seen = None /\ q.told = event[i] /\ q.of = i
      BY <1>4, <1>8, <1>9, EndType, ForgetType
    <2>2. q.told = event'[q.of] /\ Moved(q.of)' BY <1>2, <1>3, <1>4, <1>5, <1>9, <2>1 DEF Advance
    <2> QED BY <1>2, <1>4, <1>7, <1>8, <2>1, <2>2, EndsInv
  <1>10. CASE p = End(h, None)
    <2>1. q \in Request /\ q.at = "end" /\ q.seen = None /\ q.told = None
      BY <1>8, <1>10, EndType, ForgetType
    <2> QED BY <1>2, <1>7, <1>8, <2>1, EndsInv
  <1>11. CASE /\ p = [To(h, "activate") EXCEPT !.seen = event[i], !.other = r.claim]
              /\ ClaimOf(r, i) /\ same
    <2>1. /\ p \in Request /\ p.at = "activate" /\ p.of = i /\ p.answer = handler[h].answer
          /\ p.seen = event[i] /\ p.other = r.claim /\ p.told = handler[h].told
      <3>1. PICK t \in Request :
              /\ t = To(h, "activate") /\ t.at = "activate" /\ t.of = i
              /\ t.answer = handler[h].answer /\ t.told = handler[h].told
        BY <1>4, ToType DEF Place, Of
      <3>2. PICK e \in Answer \cup {None}, c \in Claim : e = event[i] /\ c = r.claim
        BY <1>4, <1>6
      <3>3. p = [t EXCEPT !.seen = e, !.other = c] BY <1>11, <3>1, <3>2
      <3> HIDE DEF r
      <3> QED BY <3>1, <3>2, <3>3 DEF Request
    <2>2. /\ q \in Request /\ q.at = "activate" /\ q.of = i /\ q.answer = handler[h].answer
          /\ q.seen = event[i] /\ q.other = r.claim /\ q.told = handler[h].told
      BY <1>8, <2>1, ForgetType
    <2>3. q.seen # None /\ q.seen = event'[q.of] BY <1>3, <1>4, <1>11, <2>2
    <2> QED BY <1>1, <1>2, <1>4, <1>6, <1>7, <1>8, <1>11, <2>2, <2>3, GoesOnInv
  <1>12. CASE p = [To(h, "rollback") EXCEPT !.other = r.claim] /\ ClaimOf(r, i)
    <2>1. /\ p \in Request /\ p.at = "rollback" /\ p.of = i /\ p.answer = handler[h].answer
          /\ p.seen = handler[h].seen /\ p.other = r.claim /\ p.told = handler[h].told
      <3> HIDE DEF r
      <3> QED BY <1>4, <1>6, <1>12, ToType DEF Place, Of, Request
    <2>2. /\ q \in Request /\ q.at = "rollback" /\ q.of = i /\ q.answer = handler[h].answer
          /\ q.seen = handler[h].seen /\ q.other = r.claim /\ q.told = handler[h].told
      BY <1>8, <2>1, ForgetType
    <2> QED BY <1>1, <1>2, <1>3, <1>4, <1>6, <1>7, <1>8, <1>12, <2>2, GoesOnInv
  <1>13. CASE p = To(h, "reclaim")
    <2>1. /\ q \in Request /\ q.at = "reclaim" /\ q.of = i /\ q.answer = handler[h].answer
          /\ q.seen = handler[h].seen /\ q.told = handler[h].told
      BY <1>4, <1>8, <1>13, ToType, ForgetType DEF Place, Of
    <2> QED BY <1>1, <1>2, <1>3, <1>4, <1>7, <1>8, <2>1, GoesOnInv
  <1> QED BY <1>7, <1>9, <1>10, <1>11, <1>12, <1>13

LEMMA ClaimRunInv ==
  ASSUME IInv, NEW h \in Handler, ClaimRun(h)
  PROVE  IInv'
  <1>1. handler[h].at \in {"claim", "reclaim"} BY DEF ClaimRun, At
  <1>2. PICK i \in Interaction : i = Of(h) /\ i \in 1 .. Len(asked) BY <1>1, BusyFacts
  <1>3. /\ StoreInv /\ StoreTypeOK /\ handler[h].answer \in Answer
        /\ loop' = loop /\ faults' \in 0 .. MaxFaults
    BY <1>1, BusyFacts DEF ClaimRun, StoreTypeOK
  <1>4. CASE WaitsFor(i)
    <2>1. PICK c \in ClaimId : c = [by |-> h, of |-> i] BY DEF ClaimId
    <2>2. PICK a \in Answer : a = handler[h].answer BY <1>3
    <2>3. run' = Claimed(c, a) /\ Goes(h, To(h, "own")) BY <1>2, <1>4, <2>1, <2>2 DEF ClaimRun
    <2>4. run.status = "waiting" /\ loop = "none" BY <1>3, <1>4 DEF WaitsFor, StoreInv, RunInv
    <2>5. c.of = i /\ i \in 0 .. MaxAsked /\ c \in Claim
      BY <2>1, BoundAssumption DEF Interaction, Claim, ClaimId
    <2>6. /\ run' \in Run /\ run'.status = "pending" /\ run'.stage = "staged"
          /\ run'.claim = c /\ run'.of = i
      BY <1>3, <2>3, <2>5 DEF StoreTypeOK, Claimed, Run
    <2>7. RunInv' /\ AnswerInv'
      BY <1>2, <1>3, <2>4, <2>5, <2>6 DEF RunInv, AnswerInv, IsReady, ClaimRun
    <2>8. StoreInv' /\ Advance
      BY <1>3, <2>4, <2>6, <2>7, RunStepInv DEF ClaimRun, IsReady
    <2> QED BY <1>1, <2>3, <2>8, PlainInv DEF Place
  <1>5. CASE ~WaitsFor(i)
    <2>1. StoreInv' /\ Advance BY <1>2, <1>3, <1>5, StoreKept DEF ClaimRun
    <2>2. Goes(h, To(h, "rejected")) \/ Refuse(h) BY <1>2, <1>5 DEF ClaimRun
    <2> QED BY <1>1, <2>1, <2>2, PlainInv, RefuseInv DEF Place
  <1> QED BY <1>4, <1>5

LEMMA ReadClaimInv ==
  ASSUME IInv, NEW h \in Handler, ReadClaim(h)
  PROVE  IInv'
  <1>1. handler[h].at = "rejected" BY DEF ReadClaim, At
  <1>2. StoreInv' /\ Advance BY <1>1, BusyFacts, StoreKept DEF ReadClaim, StoreTypeOK
  <1>3. CASE ClaimOf(run, Of(h))
    <2>1. PICK c \in Claim : c = run.claim BY <1>1, BusyFacts DEF StoreTypeOK, Run
    <2>2. c \in ClaimId /\ c.of = Of(h) BY <1>3, <2>1 DEF ClaimOf, Claim, ClaimId
    <2>3. PICK q : q = [To(h, "events") EXCEPT !.other = c] OBVIOUS
    <2>4. /\ q \in Request /\ q.at = "events" /\ q.of = Of(h) /\ q.answer = handler[h].answer
          /\ q.seen = handler[h].seen /\ q.other = c /\ q.told = handler[h].told
      BY <2>3, ToType DEF Place, Of, Request
    <2>5. Goes(h, q) BY <1>3, <2>1, <2>3 DEF ReadClaim
    <2>6. q.seen # None => q.seen = event'[q.of] BY <1>1, <2>4, BusyFacts DEF ReadClaim
    <2> QED BY <1>1, <1>2, <2>2, <2>4, <2>5, <2>6, BusyFacts, GoesOnInv
  <1>4. CASE ~ClaimOf(run, Of(h)) BY <1>2, <1>4, RefuseInv DEF ReadClaim
  <1> QED BY <1>3, <1>4

LEMMA ReadEventsInv ==
  ASSUME IInv, NEW h \in Handler, ReadEvents(h)
  PROVE  IInv'
  <1>1. handler[h].at = "events" BY DEF ReadEvents, At
  <1>2. StoreInv' /\ Advance BY <1>1, BusyFacts, StoreKept DEF ReadEvents, StoreTypeOK
  <1>3. CASE event[Of(h)] # None
    <2>1. PICK e \in Answer \cup {None} : e = event[Of(h)] BY <1>1, BusyFacts
    <2>2. PICK q : q = [To(h, "activate") EXCEPT !.seen = e] OBVIOUS
    <2>3. /\ q \in Request /\ q.at = "activate" /\ q.of = Of(h)
          /\ q.answer = handler[h].answer
          /\ q.seen = e /\ q.other = handler[h].other /\ q.told = handler[h].told
      BY <2>2, ToType DEF Place, Of, Request
    <2>4. Goes(h, q) BY <1>3, <2>1, <2>2 DEF ReadEvents
    <2>5. q.other \in ClaimId /\ q.other.of = q.of
      BY <1>1, <2>3, BusyFacts DEF RequestInv, Of
    <2>6. q.seen # None /\ q.seen = event'[q.of] BY <1>3, <2>1, <2>3 DEF ReadEvents
    <2> QED BY <1>1, <1>2, <2>3, <2>4, <2>5, <2>6, BusyFacts, GoesOnInv
  <1>4. CASE event[Of(h)] = None
    <2>1. Goes(h, To(h, "rollback")) \/ Refuse(h) BY <1>4 DEF ReadEvents
    <2> QED BY <1>1, <1>2, <2>1, PlainInv, RefuseInv DEF Place
  <1> QED BY <1>3, <1>4

LEMMA RollBackInv ==
  ASSUME IInv, NEW h \in Handler, RollBack(h)
  PROVE  IInv'
  <1>1. handler[h].at = "rollback" BY DEF RollBack, At
  <1>2. StoreInv /\ StoreTypeOK BY <1>1, BusyFacts
  <1>3. CASE MayRollBack(handler[h].other)
    <2>1. StoreInv' /\ Advance BY <1>2, <1>3, RollBackStep DEF RollBack
    <2> QED BY <1>1, <1>3, <2>1, PlainInv DEF Place, RollBack
  <1>4. CASE ~MayRollBack(handler[h].other)
    <2>1. StoreInv' /\ Advance BY <1>2, <1>4, StoreKept DEF RollBack, StoreTypeOK
    <2> QED BY <1>4, <2>1, RefuseInv DEF RollBack
  <1> QED BY <1>3, <1>4

LEMMA CheckOwnerInv ==
  ASSUME IInv, NEW h \in Handler, CheckOwner(h)
  PROVE  IInv'
  <1>1. handler[h].at = "own" BY DEF CheckOwner, At
  <1>2. StoreInv' /\ Advance BY <1>1, BusyFacts, StoreKept DEF CheckOwner, StoreTypeOK
  <1>3. Goes(h, To(h, "append")) \/ Refuse(h) BY DEF CheckOwner
  <1> QED BY <1>1, <1>2, <1>3, PlainInv, RefuseInv DEF Place

\* An append that fails may have been executed.
LEMMA FailedAppend ==
  ASSUME IInv, Fault, NEW i \in Interaction, NEW a \in Answer,
         event' \in {event, Resolved(i, a)}, UNCHANGED <<asked, run, loop, result, extra>>
  PROVE  StoreInv' /\ Advance
  <1>1. StoreInv /\ faults' \in 0 .. MaxFaults BY FaultType DEF IInv, StoreInv
  <1> QED BY <1>1, StoreKept, EventStored

LEMMA AppendResolvedInv ==
  ASSUME IInv, NEW h \in Handler, AppendResolved(h)
  PROVE  IInv'
  <1>1. handler[h].at = "append" BY DEF AppendResolved, At
  <1>2. PICK i \in Interaction, a \in Answer : i = Of(h) /\ a = handler[h].answer
    BY <1>1, BusyFacts
  <1>3. UNCHANGED <<asked, run, loop, result, extra>> BY DEF AppendResolved
  <1>4. CASE /\ event' = Resolved(i, a)
             /\ Goes(h, [To(h, "activate") EXCEPT !.seen = event'[i],
                                                  !.other = [by |-> h, of |-> i]])
             /\ UNCHANGED faults
    <2>1. StoreInv' /\ Advance /\ event'[i] # None
      BY <1>1, <1>3, <1>4, BusyFacts, EventStored DEF StoreTypeOK
    <2>2. PICK e \in Answer \cup {None} : e = event'[i]
      BY <2>1 DEF StoreInv, StoreTypeOK
    <2>3. PICK c \in ClaimId : c = [by |-> h, of |-> i] /\ c.of = i
      <3>1. [by |-> h, of |-> i] \in ClaimId BY DEF ClaimId
      <3> QED BY <3>1
    <2>4. PICK q : q = [To(h, "activate") EXCEPT !.seen = e, !.other = c] OBVIOUS
    <2>5. c \in Claim BY DEF Claim, ClaimId
    <2>6. PICK t \in Request :
              /\ t = To(h, "activate") /\ t.at = "activate" /\ t.of = i
              /\ t.answer = handler[h].answer /\ t.told = handler[h].told
      BY <1>2, ToType DEF Place, Of
    <2>7. /\ q \in Request /\ q.at = "activate" /\ q.of = i /\ q.answer = handler[h].answer
          /\ q.seen = e /\ q.other = c /\ q.told = handler[h].told
      BY <2>4, <2>5, <2>6 DEF Request
    <2>8. Goes(h, q) BY <1>4, <2>2, <2>3, <2>4
    <2> QED BY <1>1, <1>2, <2>1, <2>2, <2>3, <2>7, <2>8, BusyFacts, GoesOnInv
  <1>5. CASE /\ Fault /\ event' \in {event, Resolved(i, a)}
             /\ Goes(h, To(h, "undo"))
    <2>1. StoreInv' /\ Advance BY <1>3, <1>5, FailedAppend
    <2> QED BY <1>1, <1>5, <2>1, PlainInv DEF Place
  <1> QED BY <1>2, <1>4, <1>5 DEF AppendResolved

LEMMA UndoInv ==
  ASSUME IInv, NEW h \in Handler, Undo(h)
  PROVE  IInv'
  <1>1. handler[h].at = "undo" BY DEF Undo, At
  <1>2. StoreInv /\ StoreTypeOK BY <1>1, BusyFacts
  <1>3. StoreInv' /\ Advance
    <2>1. CASE MayRollBack([by |-> h, of |-> Of(h)]) BY <1>2, <2>1, RollBackStep DEF Undo
    <2>2. CASE ~MayRollBack([by |-> h, of |-> Of(h)])
      BY <1>2, <2>2, StoreKept DEF Undo, StoreTypeOK
    <2> QED BY <2>1, <2>2
  <1> QED BY <1>3, RefuseInv DEF Undo

LEMMA ActivateInv ==
  ASSUME IInv, NEW h \in Handler, Activate(h)
  PROVE  IInv'
  <1>1. handler[h].at = "activate" BY DEF Activate, At
  <1>2. PICK i \in Interaction : i = Of(h) /\ i \in 1 .. Len(asked) BY <1>1, BusyFacts
  <1>3. PICK a \in Answer : a = handler[h].seen /\ a = event[i]
    BY <1>1, <1>2, BusyFacts DEF RequestInv
  <1>4. PICK c \in ClaimId : c = handler[h].other /\ c.of = i
    BY <1>1, <1>2, BusyFacts DEF RequestInv, Of
  <1>5. StoreInv /\ StoreTypeOK BY <1>1, BusyFacts
  <1>6. UNCHANGED <<asked, loop, event, result, extra, faults>> BY DEF Activate
  <1>7. CASE Staged(c) /\ run' = Activated(a) /\ Acknowledge(h, Confirmed(h))
    <2>1. StoreInv' /\ Advance /\ IsReady(run)' /\ loop = "none"
      BY <1>3, <1>4, <1>5, <1>6, <1>7, ActivateStep DEF Staged
    <2>2. Moved(i)' BY <1>2, <1>6, <2>1, LenType, <1>5 DEF Moved
    <2>3. PICK b \in Answer : b = Confirmed(h) /\ (handler[h].via = "web" => b = a)
      BY <1>1, <1>3, BusyFacts DEF Confirmed
    <2>4. a # None BY HandlerAssumption DEF Answer
    <2> QED BY <1>2, <1>3, <1>6, <1>7, <2>1, <2>2, <2>3, <2>4, AcknowledgeInv
  <1>8. CASE UNCHANGED run /\ (Refuse(h) \/ (IsReady(run) /\ Acknowledge(h, a)))
    <2>1. StoreInv' /\ Advance BY <1>5, <1>6, <1>8, StoreKept DEF StoreTypeOK
    <2>2. CASE Refuse(h) BY <2>1, <2>2, RefuseInv
    <2>3. CASE IsReady(run) /\ Acknowledge(h, a)
      <3>1. Moved(i)' BY <1>2, <1>5, <2>1, <2>3, ReadyMoved DEF Advance
      <3> QED BY <1>2, <1>3, <1>6, <2>1, <2>3, <3>1, AcknowledgeInv
    <2> QED BY <1>8, <2>2, <2>3
  <1> QED BY <1>3, <1>4, <1>7, <1>8 DEF Activate

-----------------------------------------------------------------------------
(* A handler whose run has ended *)

LEMMA AppendDenialInv ==
  ASSUME IInv, NEW h \in Handler, AppendDenial(h)
  PROVE  IInv'
  <1>1. handler[h].at = "close" BY DEF AppendDenial, At
  <1>2. PICK i \in Interaction : i = Of(h) BY <1>1, BusyFacts
  <1>3. "no" \in Answer BY DEF Answer
  <1>4. UNCHANGED <<asked, run, loop, result, extra>> BY DEF AppendDenial
  <1>5. CASE /\ event' = Resolved(i, "no") /\ Goes(h, To(h, "closed")) /\ UNCHANGED faults
    <2>1. StoreInv' /\ Advance
      BY <1>1, <1>3, <1>4, <1>5, BusyFacts, EventStored DEF StoreTypeOK
    <2> QED BY <1>1, <1>5, <2>1, PlainInv DEF Place
  <1>6. CASE Fault /\ event' \in {event, Resolved(i, "no")} /\ Refuse(h)
    <2>1. StoreInv' /\ Advance BY <1>3, <1>4, <1>6, FailedAppend
    <2> QED BY <1>6, <2>1, RefuseInv
  <1> QED BY <1>2, <1>5, <1>6 DEF AppendDenial

\* An approval is closed; one that has a result keeps it.
LEMMA CloseStep ==
  ASSUME StoreInv, UNCHANGED <<asked, event, extra>>, faults' \in 0 .. MaxFaults,
         NEW i \in Interaction,
         result' = [result EXCEPT ![i] = IF @ = None THEN "closed" ELSE @],
         \/ UNCHANGED <<run, loop>>
         \/ run' = Terminal(run) /\ loop' = loop
  PROVE  StoreInv' /\ Advance /\ result'[i] # None
  <1>1. StoreTypeOK BY DEF StoreInv
  <1>2. /\ result' \in [Interaction -> Answer \cup {None, "closed"}]
        /\ result'[i] # None
        /\ \A j \in Interaction : \/ result'[j] = result[j]
                                  \/ result[j] = None /\ result'[j] = "closed"
    BY <1>1, HandlerAssumption DEF StoreTypeOK
  <1>3. /\ run' \in Run /\ run'.of = run.of /\ run'.answer = run.answer
        /\ run' = run \/ run'.status = "terminal"
    BY <1>1 DEF StoreTypeOK, Terminal, Run
  <1>4. StoreTypeOK' BY <1>1, <1>2, <1>3 DEF StoreTypeOK
  <1>5. RunInv' BY <1>3 DEF StoreInv, RunInv
  <1>6. AnswerInv' BY <1>3 DEF StoreInv, AnswerInv, IsReady
  <1>7. ASSUME NEW j \in Interaction PROVE Moved(j) => Moved(j)'
    <2>1. result[j] = "closed" => result'[j] = "closed" BY <1>2, HandlerAssumption
    <2> QED BY <1>3, <2>1 DEF Moved, IsReady
  <1>8. ASSUME NEW j \in Interaction PROVE ResultInv(j)'
    <2>1. result'[j] \in Answer => result'[j] = result[j] BY <1>2 DEF Answer
    <2> QED BY <1>3, <1>7, <2>1 DEF StoreInv, ResultInv
  <1>9. Len(asked) <= Len(asked)' BY <1>1, LenType
  <1> QED BY <1>2, <1>3, <1>4, <1>5, <1>6, <1>7, <1>8, <1>9 DEF StoreInv, Advance

LEMMA CloseInv ==
  ASSUME IInv, NEW h \in Handler, Close(h)
  PROVE  IInv'
  <1>1. handler[h].at = "closed" BY DEF Close, At
  <1>2. PICK i \in Interaction :
          i = Of(h) /\ i \in 1 .. Len(asked) /\ event[i] \in Answer \cup {None}
    BY <1>1, BusyFacts
  <1>3. StoreInv' /\ Advance /\ result'[i] # None
    BY <1>1, <1>2, BusyFacts, CloseStep DEF Close, StoreTypeOK
  <1>4. Moved(i)'
    <2>1. result'[i] \in Answer \/ result'[i] = "closed"
      BY <1>3 DEF StoreInv, StoreTypeOK
    <2> QED BY <1>3, <2>1 DEF StoreInv, ResultInv, Moved
  <1>5. Acknowledge(h, event[i]) /\ UNCHANGED event BY <1>2 DEF Close
  <1> QED BY <1>2, <1>3, <1>4, <1>5, AcknowledgeInv

LEMMA AppendAnswerInv ==
  ASSUME IInv, NEW h \in Handler, AppendAnswer(h)
  PROVE  IInv'
  <1>1. handler[h].at = "answer" BY DEF AppendAnswer, At
  <1>2. PICK i \in Interaction, a \in Answer : i = Of(h) /\ a = handler[h].answer
    BY <1>1, BusyFacts
  <1>3. UNCHANGED <<asked, run, loop, result, extra>> BY DEF AppendAnswer
  <1>4. CASE /\ event' = Resolved(i, a) /\ Goes(h, To(h, "resume")) /\ UNCHANGED faults
    <2>1. StoreInv' /\ Advance
      BY <1>1, <1>3, <1>4, BusyFacts, EventStored DEF StoreTypeOK
    <2>2. run'.status = "terminal" BY <1>1, <1>3, BusyFacts DEF RequestInv
    <2> QED BY <1>1, <1>4, <2>1, <2>2, PlainInv DEF Place
  <1>5. CASE Fault /\ event' \in {event, Resolved(i, a)} /\ Refuse(h)
    <2>1. StoreInv' /\ Advance BY <1>3, <1>5, FailedAppend
    <2> QED BY <1>5, <2>1, RefuseInv
  <1> QED BY <1>2, <1>4, <1>5 DEF AppendAnswer

\* The run that resumes a question is created or goes on, after the first run has ended.
LEMMA ExtraStep ==
  ASSUME StoreInv, UNCHANGED <<asked, run, loop, event, result>>,
         faults' \in 0 .. MaxFaults,
         extra' \in [Interaction -> {"absent", "staged", "ready", "running", "done"}],
         run.status = "terminal" \/ \A i \in Interaction : extra[i] = "absent" => extra'[i] = "absent"
  PROVE  StoreInv' /\ Advance
  <1>1. \A i : Moved(i)' <=> Moved(i) BY DEF Moved, IsReady
  <1>2. StoreTypeOK' BY DEF StoreInv, StoreTypeOK
  <1>3. RunInv' /\ AnswerInv' BY DEF StoreInv, RunInv, AnswerInv, IsReady
  <1>4. \A i \in Interaction : ResultInv(i)' BY <1>1 DEF StoreInv, ResultInv
  <1>5. Len(asked) <= Len(asked)' BY LenType DEF StoreInv
  <1> QED BY <1>1, <1>2, <1>3, <1>4, <1>5 DEF StoreInv, Advance

\* A handler of an ended run that tells the durable answer
LEMMA TerminalAcknowledge ==
  ASSUME IInv, NEW h \in Handler, handler[h].at \in {"resume", "enqueue", "start"},
         StoreInv', Advance, UNCHANGED <<run, event>>, Acknowledge(h, event[Of(h)])
  PROVE  IInv'
  <1>1. PICK i \in Interaction :
          i = Of(h) /\ i \in 1 .. Len(asked) /\ event[i] \in Answer \cup {None}
    BY BusyFacts
  <1>2. Moved(i)' BY BusyFacts DEF RequestInv, Moved
  <1>3. Acknowledge(h, event[i]) BY <1>1
  <1> QED BY <1>1, <1>2, <1>3, AcknowledgeInv

LEMMA GetResumeRunInv ==
  ASSUME IInv, NEW h \in Handler, GetResumeRun(h)
  PROVE  IInv'
  <1>1. handler[h].at = "resume" BY DEF GetResumeRun, At
  <1>2. UNCHANGED <<asked, run, loop, event, result, extra, faults>> BY DEF GetResumeRun
  <1>3. StoreInv' /\ Advance BY <1>1, <1>2, BusyFacts, StoreKept DEF StoreTypeOK
  <1>4. run'.status = "terminal" BY <1>1, <1>2, BusyFacts DEF RequestInv
  <1>5. \/ Goes(h, To(h, "enqueue")) \/ Goes(h, To(h, "start"))
        \/ Acknowledge(h, event[Of(h)])
    BY DEF GetResumeRun
  <1> QED BY <1>1, <1>2, <1>3, <1>4, <1>5, PlainInv, TerminalAcknowledge DEF Place

LEMMA EnqueueInv ==
  ASSUME IInv, NEW h \in Handler, Enqueue(h)
  PROVE  IInv'
  <1> DEFINE new == [extra EXCEPT ![Of(h)] = Enqueued(@)]
  <1>1. handler[h].at = "enqueue" BY DEF Enqueue, At
  <1>2. UNCHANGED <<asked, run, loop, event, result>> BY DEF Enqueue
  <1>3. run.status = "terminal" /\ StoreInv /\ StoreTypeOK BY <1>1, BusyFacts DEF RequestInv
  <1>4. new \in [Interaction -> {"absent", "staged", "ready", "running", "done"}]
    BY <1>1, <1>3, BusyFacts DEF StoreTypeOK, Enqueued
  <1>5. extra' \in {extra, new} /\ faults' \in 0 .. MaxFaults
    BY <1>3, FaultType DEF Enqueue, StoreTypeOK
  <1>6. StoreInv' /\ Advance BY <1>2, <1>3, <1>4, <1>5, ExtraStep DEF StoreTypeOK
  <1>7. Goes(h, To(h, "start")) \/ Acknowledge(h, event[Of(h)]) \/ Refuse(h)
    BY DEF Enqueue
  <1> QED
    BY <1>1, <1>2, <1>3, <1>6, <1>7, PlainInv, TerminalAcknowledge, RefuseInv DEF Place

LEMMA StartInv ==
  ASSUME IInv, NEW h \in Handler, Start(h)
  PROVE  IInv'
  <1> DEFINE new == [extra EXCEPT ![Of(h)] = IF @ = "staged" THEN "ready" ELSE @]
  <1>1. handler[h].at = "start" BY DEF Start, At
  <1>2. UNCHANGED <<asked, run, loop, event, result>> BY DEF Start
  <1>3. run.status = "terminal" /\ StoreInv /\ StoreTypeOK BY <1>1, BusyFacts DEF RequestInv
  <1>4. new \in [Interaction -> {"absent", "staged", "ready", "running", "done"}]
    BY <1>1, <1>3, BusyFacts DEF StoreTypeOK
  <1>5. extra' \in {extra, new} /\ faults' \in 0 .. MaxFaults
    BY <1>3, FaultType DEF Start, StoreTypeOK
  <1>6. StoreInv' /\ Advance BY <1>2, <1>3, <1>4, <1>5, ExtraStep DEF StoreTypeOK
  <1>7. Acknowledge(h, event[Of(h)]) \/ Refuse(h) BY DEF Start
  <1> QED BY <1>1, <1>2, <1>6, <1>7, TerminalAcknowledge, RefuseInv

-----------------------------------------------------------------------------
(* The scheduler and the wake *)

LEMMA StoreFacts ==
  ASSUME IInv
  PROVE  StoreInv /\ StoreTypeOK /\ RunInv /\ AnswerInv /\ lock \in Handler \cup {None}
         /\ faults \in 0 .. MaxFaults /\ run \in Run
         /\ loop \in {"none", "wake", "apply", "go", "park"}
  BY DEF IInv, StoreInv, StoreTypeOK

LEMMA RecoverInv == ASSUME IInv, Recover PROVE IInv'
  <1>1. run.status = "pending" /\ run.stage = "staged" BY DEF Recover, Recoverable
  <1>2. run.claim.of \in Interaction BY <1>1, StoreFacts DEF RunInv, ClaimId
  <1>3. PICK a \in Answer : a = event[run.claim.of]
    BY <1>2, StoreFacts DEF Recover, Recoverable, StoreTypeOK
  <1>4. StoreInv' /\ Advance BY <1>1, <1>3, StoreFacts, ActivateStep DEF Recover
  <1> QED BY <1>4, StoreFacts, StoreStepInv DEF Recover

LEMMA LeaseInv == ASSUME IInv, Lease PROVE IInv'
  <1>1. run.status = "pending" /\ run.stage = "ready"
    BY StoreFacts DEF Lease, Leasable, RunInv
  <1>2. /\ run' \in Run /\ run'.status = "running" /\ run'.of = run.of
        /\ run'.answer = run.answer
    BY StoreFacts DEF Lease, Run
  <1>3. RunInv' BY <1>2 DEF RunInv
  <1>4. AnswerInv' BY <1>1, <1>2, StoreFacts DEF AnswerInv, IsReady, Lease
  <1>5. StoreInv' /\ Advance
    BY <1>1, <1>2, <1>3, <1>4, StoreFacts, RunStepInv DEF Lease
  <1> QED BY <1>5, StoreFacts, StoreStepInv DEF Lease

LEMMA WakeInv == ASSUME IInv, Wake PROVE IInv'
  <1>1. CASE run' = [run EXCEPT !.consumed = TRUE] /\ loop' = "apply"
    <2>1. /\ run' \in Run /\ run'.status = run.status /\ run'.of = run.of
          /\ run'.answer = run.answer
      BY <1>1, StoreFacts DEF Run
    <2>2. run.status \in {"running", "terminal"} BY StoreFacts DEF Wake, RunInv, Run
    <2>3. RunInv' BY <2>1, <2>2 DEF RunInv
    <2>4. AnswerInv' BY <1>1, <2>1, StoreFacts DEF AnswerInv, Wake
    <2>5. StoreInv' /\ Advance
      BY <1>1, <2>1, <2>2, <2>3, <2>4, StoreFacts, RunStepInv DEF Wake, IsReady
    <2> QED BY <2>5, StoreFacts, StoreStepInv DEF Wake
  <1>2. CASE run' = Terminal(run) /\ loop' = "none"
    <2>1. StoreInv' /\ Advance BY <1>2, StoreFacts, TerminalStep DEF Wake
    <2> QED BY <2>1, StoreFacts, StoreStepInv DEF Wake
  <1> QED BY <1>1, <1>2 DEF Wake

\* A result is written once, with the durable answer.
LEMMA ResultStored ==
  ASSUME StoreInv, UNCHANGED <<asked, run, event>>, faults' \in 0 .. MaxFaults,
         loop' \in {"none", "wake", "apply", "go", "park"},
         extra' \in [Interaction -> {"absent", "staged", "ready", "running", "done"}],
         \A j \in Interaction : extra[j] = "absent" => extra'[j] = "absent",
         RunInv', AnswerInv', loop' = "park" => loop = "park",
         NEW i \in Interaction, result' = [result EXCEPT ![i] = IF @ = None THEN event[i] ELSE @],
         Moved(i)
  PROVE  StoreInv' /\ Advance
  <1>1. StoreTypeOK BY DEF StoreInv
  <1>2. /\ result' \in [Interaction -> Answer \cup {None, "closed"}]
        /\ \A j \in Interaction :
             \/ result'[j] = result[j]
             \/ j = i /\ result[j] = None /\ result'[j] = event[i]
    BY <1>1 DEF StoreTypeOK
  <1>3. StoreTypeOK' BY <1>1, <1>2 DEF StoreTypeOK
  <1>4. ASSUME NEW j \in Interaction PROVE Moved(j) => Moved(j)'
    <2>1. result[j] = "closed" => result'[j] = "closed" BY <1>2, HandlerAssumption
    <2> QED BY <2>1 DEF Moved, IsReady
  <1>5. ASSUME NEW j \in Interaction PROVE ResultInv(j)'
    BY <1>2, <1>4 DEF StoreInv, ResultInv
  <1>6. Len(asked) <= Len(asked)' BY <1>1, LenType
  <1> QED BY <1>3, <1>4, <1>5, <1>6 DEF StoreInv, Advance

LEMMA ApplyInv == ASSUME IInv, Apply PROVE IInv'
  <1>1. PICK i \in Interaction : i = run.of /\ i \in 1 .. Len(asked)
    BY StoreFacts, LenType DEF Apply, AnswerInv
  <1>2. run.answer = event[i] BY <1>1, StoreFacts DEF Apply, AnswerInv
  <1>3. CASE result[i] = None
    <2>1. result' = [result EXCEPT ![i] = IF @ = None THEN event[i] ELSE @]
      BY <1>1, <1>2, <1>3, StoreFacts DEF Apply, StoreTypeOK
    <2>2. UNCHANGED <<asked, run, event, extra, handler, lock, faults>> /\ loop' = "go"
      BY <1>1, <1>3 DEF Apply
    <2>3. run.status \in {"running", "terminal"} BY StoreFacts DEF Apply, RunInv, Run
    <2>4. i <= Len(asked) BY <1>1, StoreFacts, LenType
    <2>5. Moved(i) BY <2>3, <2>4 DEF Apply, Moved
    <2>6. RunInv' /\ AnswerInv' BY <2>2, <2>3 DEF RunInv, AnswerInv, IsReady
    <2>7. StoreInv' /\ Advance
      BY <2>1, <2>2, <2>5, <2>6, StoreFacts, ResultStored DEF StoreTypeOK
    <2> QED BY <2>2, <2>7, StoreFacts, StoreStepInv
  <1>4. CASE result[i] # None
    <2>1. /\ run' = Terminal(run) /\ loop' = "none"
          /\ UNCHANGED <<asked, event, result, extra, handler, lock, faults>>
      BY <1>1, <1>4 DEF Apply
    <2>2. StoreInv' /\ Advance BY <2>1, StoreFacts, TerminalStep
    <2> QED BY <2>1, <2>2, StoreFacts, StoreStepInv
  <1> QED BY <1>3, <1>4

LEMMA AskInv == ASSUME IInv, NEW t \in Type, Ask(t) PROVE IInv'
  <1>1. asked \in Seq(Type) /\ Len(asked) \in Nat BY StoreFacts DEF StoreTypeOK
  <1>2. /\ asked' \in Seq(Type) /\ Len(asked)' = Len(asked) + 1
    BY <1>1 DEF Ask
  <1>3. Len(asked)' \in Interaction
    BY <1>1, <1>2, BoundAssumption DEF Ask, Interaction
  <1>4. UNCHANGED <<run, event, result, extra, handler, lock, faults>> /\ loop' = "park"
    BY DEF Ask
  <1>5. StoreTypeOK' BY <1>2, <1>3, <1>4, StoreFacts DEF StoreTypeOK
  <1>6. run.status = "running" BY DEF Ask
  <1>7. RunInv' /\ AnswerInv' BY <1>4, <1>6 DEF RunInv, AnswerInv, IsReady
  <1>8. ASSUME NEW i \in Interaction PROVE Moved(i) => Moved(i)'
    <2>1. i \in Nat BY DEF Interaction
    <2> QED BY <1>1, <1>2, <1>4, <2>1 DEF Moved
  <1>9. \A i \in Interaction : ResultInv(i)'
    BY <1>4, <1>8, StoreFacts DEF StoreInv, ResultInv
  <1>10. StoreInv' /\ Advance
    BY <1>1, <1>2, <1>4, <1>5, <1>7, <1>8, <1>9 DEF StoreInv, Advance
  <1> QED BY <1>4, <1>10, StoreFacts, StoreStepInv

LEMMA ParkInv == ASSUME IInv, Park PROVE IInv'
  <1>1. run.status \in {"running", "terminal"} BY StoreFacts DEF Park, RunInv, Run
  <1>2. /\ run' \in Run /\ run'.status \in {"waiting", "terminal"}
        /\ run.status = "terminal" => run'.status = "terminal"
    BY <1>1, StoreFacts DEF Park, Run
  <1>3. RunInv' /\ AnswerInv' BY <1>2 DEF Park, RunInv, AnswerInv, IsReady
  <1>4. StoreInv' /\ Advance
    BY <1>2, <1>3, StoreFacts, RunStepInv DEF Park
  <1> QED BY <1>4, StoreFacts, StoreStepInv DEF Park

LEMMA FinishInv == ASSUME IInv, Finish PROVE IInv'
  <1>1. StoreInv' /\ Advance BY StoreFacts, TerminalStep DEF Finish
  <1> QED BY <1>1, StoreFacts, StoreStepInv DEF Finish

LEMMA LeaseExtraInv == ASSUME IInv, NEW i \in Interaction, LeaseExtra(i) PROVE IInv'
  <1>1. /\ extra' \in [Interaction -> {"absent", "staged", "ready", "running", "done"}]
        /\ \A j \in Interaction : extra[j] = "absent" => extra'[j] = "absent"
    BY StoreFacts DEF LeaseExtra, StoreTypeOK
  <1>2. StoreInv' /\ Advance BY <1>1, StoreFacts, ExtraStep DEF LeaseExtra
  <1> QED BY <1>2, StoreFacts, StoreStepInv DEF LeaseExtra

LEMMA ApplyExtraInv == ASSUME IInv, NEW i \in Interaction, ApplyExtra(i) PROVE IInv'
  <1>1. /\ extra' \in [Interaction -> {"absent", "staged", "ready", "running", "done"}]
        /\ \A j \in Interaction : extra[j] = "absent" => extra'[j] = "absent"
    BY StoreFacts DEF ApplyExtra, StoreTypeOK
  <1>2. run.status = "terminal" BY StoreFacts DEF ApplyExtra, StoreInv, ResultInv
  <1>3. Moved(i) BY <1>2 DEF Moved
  <1>4. RunInv' /\ AnswerInv' BY StoreFacts DEF ApplyExtra, RunInv, AnswerInv, IsReady
  <1>5. StoreInv' /\ Advance
    BY <1>1, <1>3, <1>4, StoreFacts, ResultStored DEF ApplyExtra
  <1> QED BY <1>5, StoreFacts, StoreStepInv DEF ApplyExtra

-----------------------------------------------------------------------------
(* Stops, time and failures *)

LEMMA CancelInv == ASSUME IInv, Cancel PROVE IInv'
  <1>1. StoreInv' /\ Advance BY StoreFacts, TerminalStep DEF Cancel
  <1> QED BY <1>1, StoreFacts, StoreStepInv DEF Cancel

LEMMA CancelStaleInv == ASSUME IInv, CancelStale PROVE IInv'
  <1>1. PICK i \in Interaction : i = Len(asked) BY StoreFacts DEF StoreTypeOK
  <1>2. StoreInv' /\ Advance BY <1>1, StoreFacts, CloseStep DEF CancelStale
  <1> QED BY <1>2, StoreFacts, StoreStepInv DEF CancelStale

LEMMA AgeInv == ASSUME IInv, Age PROVE IInv'
  <1>1. /\ run' \in Run /\ run'.status = run.status /\ run'.stage = run.stage
        /\ run'.claim = run.claim /\ run'.of = run.of /\ run'.answer = run.answer
    BY StoreFacts DEF Age, Run
  <1>2. RunInv' /\ AnswerInv' BY <1>1, StoreFacts DEF Age, RunInv, AnswerInv, IsReady
  <1>3. StoreInv' /\ Advance BY <1>1, <1>2, StoreFacts, RunStepInv DEF Age, IsReady
  <1> QED BY <1>3, StoreFacts, StoreStepInv DEF Age

LEMMA LoseLockInv == ASSUME IInv, LoseLock PROVE IInv'
  <1>1. StoreInv' /\ Advance BY StoreFacts, FaultType, StoreKept DEF LoseLock
  <1> QED BY <1>1, StoreStepInv DEF LoseLock

LEMMA CrashHandlerInv == ASSUME IInv, NEW h \in Handler, CrashHandler(h) PROVE IInv'
  <1>1. StoreInv' /\ Advance BY StoreFacts, FaultType, StoreKept DEF CrashHandler
  <1> QED BY <1>1, RefuseInv DEF CrashHandler

LEMMA CrashLoopInv == ASSUME IInv, CrashLoop PROVE IInv'
  <1>1. faults' \in 0 .. MaxFaults BY StoreFacts, FaultType DEF CrashLoop
  <1>2. StoreInv' /\ Advance
    <2>1. CASE loop' = "none" /\ run' = Terminal(run) /\ UNCHANGED extra
      BY <1>1, <2>1, StoreFacts, TerminalStep DEF CrashLoop
    <2>2. ASSUME NEW i \in Interaction, extra[i] = "running",
                 extra' = [extra EXCEPT ![i] = "done"], UNCHANGED <<loop, run>>
          PROVE  StoreInv' /\ Advance
      <3>1. /\ extra' \in [Interaction -> {"absent", "staged", "ready", "running", "done"}]
            /\ \A j \in Interaction : extra[j] = "absent" => extra'[j] = "absent"
        BY <2>2, StoreFacts DEF StoreTypeOK
      <3> QED BY <1>1, <2>2, <3>1, StoreFacts, ExtraStep DEF CrashLoop
    <2> QED BY <2>1, <2>2 DEF CrashLoop
  <1> QED BY <1>2, StoreFacts, StoreStepInv DEF CrashLoop

-----------------------------------------------------------------------------
(* Theorems *)

LEMMA ContinueInv ==
  ASSUME IInv, NEW h \in Handler, Continue(h)
  PROVE  IInv'
  BY LoadInv, ChooseInv, DecideInv, ClaimRunInv, ReadClaimInv, ReadEventsInv, RollBackInv,
     CheckOwnerInv, AppendResolvedInv, UndoInv, ActivateInv, AppendDenialInv, CloseInv,
     AppendAnswerInv, GetResumeRunInv, EnqueueInv, StartInv
     DEF Continue

LEMMA NextInv ==
  ASSUME IInv, [Next]_vars
  PROVE  IInv'
  <1>1. CASE UNCHANGED vars
    <2>1. StoreInv' /\ Advance BY <1>1, StoreFacts, StoreKept DEF vars
    <2> QED BY <1>1, <2>1, StoreFacts, StoreStepInv DEF vars
  <1>2. ASSUME NEW h \in Handler, NEW via \in {"web", "org"}, NEW i \in 1 .. Len(asked),
               NEW a \in Answer, Receive(h, via, i, a)
        PROVE  IInv'
    BY <1>2, ReceiveInv
  <1>3. ASSUME NEW h \in Handler, Continue(h) \/ CrashHandler(h) PROVE IInv'
    BY <1>3, ContinueInv, CrashHandlerInv
  <1>4. CASE Recover \/ Dispatch
    BY <1>4, RecoverInv, LeaseInv, WakeInv, ApplyInv, AskInv, ParkInv, FinishInv DEF Dispatch
  <1>5. ASSUME NEW i \in Interaction, LeaseExtra(i) \/ ApplyExtra(i) PROVE IInv'
    BY <1>5, LeaseExtraInv, ApplyExtraInv
  <1>6. CASE Cancel \/ CancelStale \/ Age \/ LoseLock \/ CrashLoop
    BY <1>6, CancelInv, CancelStaleInv, AgeInv, LoseLockInv, CrashLoopInv
  <1> QED BY <1>1, <1>2, <1>3, <1>4, <1>5, <1>6 DEF Next

\* The inductive invariant: what a handler has read and remembers stays true of the
\* durable events, of its claim and of the progress of the run.
THEOREM ResumeInvariant == Spec => []IInv
  <1>1. Init => IInv BY InitInv
  <1>2. IInv /\ [Next]_vars => IInv' BY NextInv
  <1> QED BY <1>1, <1>2, PTL DEF Spec

\* The run's record, the events, the results and every request stay in their types.
THEOREM TypeCorrect == Spec => []TypeOK
  <1>1. IInv => TypeOK BY DEF IInv, StoreInv, StoreTypeOK, TypeOK
  <1> QED BY <1>1, ResumeInvariant, PTL

\* Everybody who is acknowledged hears the durable answer, and what the run applies is
\* that answer, whichever attempt claimed the run and whoever activated it.
THEOREM OneAnswer == Spec => []AnswerIsAgreed
  <1>1. IInv => AnswerIsAgreed
    BY DEF IInv, StoreInv, ResultInv, RequestInv, AnswerIsAgreed, Of
  <1> QED BY <1>1, ResumeInvariant, PTL

\* A run that the scheduler may lease has the durable answer in its metadata.
THEOREM ReadyDurable == Spec => []ReadyIsDurable
  <1>1. IInv => ReadyIsDurable
    BY DEF IInv, StoreInv, RunInv, AnswerInv, IsReady, Leasable, ReadyIsDurable
  <1> QED BY <1>1, ResumeInvariant, PTL

\* The run never waits again for an answer that was acknowledged, unless the approval
\* was closed.
THEOREM AcknowledgedNotAwaited == Spec => []AcknowledgedIsNotAwaited
  <1>1. ASSUME IInv PROVE AcknowledgedIsNotAwaited
    <2> SUFFICES ASSUME NEW h \in Handler, handler[h].told # None, run.status = "waiting",
                        Of(h) = Len(asked)
                 PROVE  result[Of(h)] = "closed"
      BY DEF AcknowledgedIsNotAwaited
    <2>1. Moved(Of(h)) BY <1>1 DEF IInv, RequestInv, Of
    <2>2. Len(asked) \in Nat BY <1>1, StoreFacts, LenType
    <2> QED BY <2>1, <2>2 DEF Moved, IsReady
  <1> QED BY <1>1, ResumeInvariant, PTL

=============================================================================
