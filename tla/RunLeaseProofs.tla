--------------------------- MODULE RunLeaseProofs ---------------------------
(***************************************************************************)
(* Safety of RunLease for every set of runs, sessions and processes, every *)
(* lease time and grace period.                                            *)
(***************************************************************************)
EXTENDS RunLease, TLAPS

Executing(w, r) == loop[w][r] \in {"starting", "looping"}

\* A loop that may still dispatch belongs to a run that is running or decided, and,
\* unless the run is a command monitor, to the worker_id of the running row.
ExecutingLoopOwnsRun(r) ==
  \A w \in Worker : Executing(w, r) =>
    /\ row[r].status \in {"running"} \cup Terminal
    /\ row[r].status = "running" /\ r \notin BackgroundCommand => row[r].worker = w

\* A row with an owner is running or decided; a running row whose liveness version is
\* NULL was handed over and has no owner.
OwnerMeansRunning(r) ==
  /\ row[r].worker # NoWorker => row[r].status \in {"running"} \cup Terminal
  /\ row[r].status = "running" /\ row[r].live = "none" => row[r].worker = NoWorker

\* A command monitor asks nobody anything.
MonitorNeverParks(r) ==
  r \in BackgroundCommand => row[r].status \notin Waiting /\ row[r].staged = "no"

\* A registered invocation of an undecided run belongs to its owner, or to the last
\* owner of a run that was given up without a handover.
ToolHasOwner(r) ==
  \A w \in Worker : tool[w][r] # "none" =>
    /\ r \notin BackgroundCommand
    /\ loop[w][r] # "starting"
    /\ row[r].status \in {"running"} \cup Terminal
    /\ row[r].status = "running"
         => \/ row[r].worker = w
            \/ row[r].worker = NoWorker /\ row[r].live # "none"

\* At most one process has a registered invocation of a run.
OneTool(r) ==
  \A v, w \in Worker : tool[v][r] # "none" /\ tool[w][r] # "none" => v = w

\* A run is retried only after it was orphaned with no invocation left.
RetriedIsOrphaned(r) ==
  row[r].retried => row[r].status = "orphaned" /\ ~ToolRunning(r)

RunInv(r) ==
  /\ ExecutingLoopOwnsRun(r)
  /\ OwnerMeansRunning(r)
  /\ MonitorNeverParks(r)
  /\ ToolHasOwner(r)
  /\ OneTool(r)
  /\ RetriedIsOrphaned(r)

IInv == TypeOK /\ OneExecutingRunPerSession /\ \A r \in Run : RunInv(r)

-----------------------------------------------------------------------------
(* What the store writes *)

LeaseLeft == NoLease .. LeaseTime
Owner == Worker \cup {NoWorker}

\* Put writes the six columns and leaves the others alone.
LEMMA PutType ==
  ASSUME NEW x \in Row, NEW s \in Status, NEW w \in Owner, NEW l \in LeaseLeft,
         NEW v \in Live, NEW y \in Reason
  PROVE  /\ Put(x, s, w, l, v, y) \in Row
         /\ Put(x, s, w, l, v, y).status = s
         /\ Put(x, s, w, l, v, y).worker = w
         /\ Put(x, s, w, l, v, y).lease = l
         /\ Put(x, s, w, l, v, y).live = v
         /\ Put(x, s, w, l, v, y).staged = x.staged
         /\ Put(x, s, w, l, v, y).retried = x.retried
  <1> DEFINE zero == 0
  <1>1. zero \in 0 .. Grace BY TimeAssumption
  <1>2. Put(x, s, w, l, v, y) = [x EXCEPT !.status = s, !.worker = w, !.lease = l,
                                          !.live = v, !.reason = y, !.age = zero]
    BY DEF Put
  <1> HIDE DEF zero
  <1>3. Put(x, s, w, l, v, y) \in Row BY <1>1, <1>2 DEF Row, Owner, LeaseLeft
  <1> QED BY <1>2, <1>3 DEF Row

LEMMA LiveOfType ==
  ASSUME NEW s PROVE LiveOf(s) \in Live
  <1>1. CASE s = "orphaned" BY <1>1 DEF LiveOf, Live
  <1>2. CASE s \in Terminal \ {"orphaned"} BY <1>2 DEF LiveOf, Live
  <1>3. CASE s \in Waiting BY <1>3 DEF LiveOf, Live, Terminal, Waiting
  <1>4. CASE s = "running" BY <1>4 DEF LiveOf, Live, Terminal, Waiting
  <1>5. CASE s \notin Terminal \cup Waiting \cup {"running"}
    BY <1>5 DEF LiveOf, Live, Terminal
  <1> QED BY <1>1, <1>2, <1>3, <1>4, <1>5

LEMMA ConstantTypes ==
  /\ NoLease \in LeaseLeft /\ LeaseTime \in LeaseLeft
  /\ NoWorker \in Owner /\ \A w \in Worker : w \in Owner
  BY TimeAssumption DEF LeaseLeft, NoLease, Owner

LEMMA Literals ==
  /\ "pending" \in Status /\ "running" \in Status /\ Waiting \subseteq Status
  /\ Terminal \subseteq Status
  /\ "active" \in Live /\ "busy" \in Live /\ "none" \in Live
  /\ "other" \in Reason /\ "handoff" \in Reason
  /\ "external_tool_outcome_unknown" \in Reason
  BY DEF Status, Waiting, Terminal, Live, Reason

LEMMA AbsentRowType ==
  /\ AbsentRow \in Row /\ AbsentRow.status = "absent" /\ AbsentRow.worker = NoWorker
  /\ AbsentRow.staged = "no" /\ AbsentRow.retried = FALSE
  BY TimeAssumption DEF AbsentRow, Row, Status, Terminal, Waiting, Live, Reason, NoLease

\* markRunStatus: the fields of the new row.
LEMMA MarkedType ==
  ASSUME TypeOK, NEW r \in Run, NEW s \in Status
  PROVE  /\ Marked(r, s) \in Row
         /\ Marked(r, s).status = s
         /\ Marked(r, s).worker = IF s = "running" THEN row[r].worker ELSE NoWorker
         /\ Marked(r, s).live = "none" <=> row[r].live = "none"
         /\ Marked(r, s).staged = row[r].staged
         /\ Marked(r, s).retried = row[r].retried
  <1>1. row[r] \in Row BY DEF TypeOK
  <1> DEFINE w == IF s = "running" THEN row[r].worker ELSE NoWorker
             l == IF s = "running" THEN row[r].lease ELSE NoLease
             v == LiveAfter(r, LiveOf(s))
  <1>2. w \in Owner /\ l \in LeaseLeft BY <1>1, ConstantTypes DEF Row, Owner, LeaseLeft
  <1>3. v \in Live /\ (v = "none" <=> row[r].live = "none")
    <2>1. LiveOf(s) # "none" BY DEF LiveOf, Status, Terminal, Waiting
    <2> QED BY <2>1, LiveOfType DEF LiveAfter, Live
  <1>4. "other" \in Reason BY DEF Reason
  <1>5. Marked(r, s) = Put(row[r], s, w, l, v, "other") BY DEF Marked
  <1> HIDE DEF w, l, v
  <1>6. /\ Marked(r, s) \in Row
        /\ Marked(r, s).status = s
        /\ Marked(r, s).worker = w
        /\ Marked(r, s).live = v
        /\ Marked(r, s).staged = row[r].staged
        /\ Marked(r, s).retried = row[r].retried
    BY <1>1, <1>2, <1>3, <1>4, <1>5, PutType
  <1> QED BY <1>3, <1>6 DEF w

\* releaseRunLease: the fields of the new row.
LEMMA ReleasedType ==
  ASSUME TypeOK, NEW r \in Run, NEW f \in (Status \cup {"none"}), NEW why \in Reason
  PROVE  /\ Released(r, f, why) \in Row
         /\ Released(r, f, why).status =
              IF row[r].status \in Terminal \/ f = "none" THEN row[r].status ELSE f
         /\ Released(r, f, why).worker = NoWorker
         /\ Released(r, f, why).live = "none" <=> row[r].live = "none"
         /\ Released(r, f, why).staged = row[r].staged
         /\ Released(r, f, why).retried = row[r].retried
  <1>1. row[r] \in Row BY DEF TypeOK
  <1> DEFINE s == IF row[r].status \in Terminal \/ f = "none" THEN row[r].status ELSE f
             live == IF f = "none" /\ row[r].status = "running" THEN "stale" ELSE LiveOf(s)
             v == LiveAfter(r, live)
             y == IF row[r].live = "none" THEN "other" ELSE why
  <1>2. s \in Status /\ y \in Reason BY <1>1 DEF Row, Reason
  <1>3. v \in Live /\ (v = "none" <=> row[r].live = "none")
    <2>1. LiveOf(s) # "none" BY <1>2 DEF LiveOf, Status, Terminal, Waiting
    <2> QED BY <2>1, LiveOfType DEF LiveAfter, Live
  <1>4. Released(r, f, why) = Put(row[r], s, NoWorker, NoLease, v, y) BY DEF Released
  <1> HIDE DEF s, live, v, y
  <1>5. /\ Released(r, f, why) \in Row
        /\ Released(r, f, why).status = s
        /\ Released(r, f, why).worker = NoWorker
        /\ Released(r, f, why).live = v
        /\ Released(r, f, why).staged = row[r].staged
        /\ Released(r, f, why).retried = row[r].retried
    BY <1>1, <1>2, <1>3, <1>4, ConstantTypes, PutType
  <1> QED BY <1>3, <1>5 DEF s

\* The reaper: a row it selects is decided or only loses its liveness.
LEMMA ReapedType ==
  ASSUME TypeOK, NEW r \in Run, row[r].status = "running"
  PROVE  /\ Reaped(r) \in Row
         /\ \/ Reaped(r).status = "orphaned" /\ Reaped(r).worker = NoWorker
            \/ /\ Reaped(r).status = "running" /\ Reaped(r).worker = row[r].worker
               /\ Reaped(r).live = "stale"
         /\ Reaped(r).staged = row[r].staged
         /\ Reaped(r).retried = row[r].retried
  <1>1. row[r] \in Row BY DEF TypeOK
  <1>2. /\ "orphaned" \in Status /\ "running" \in Status
        /\ "orphaned" \in Live /\ "stale" \in Live /\ "other" \in Reason
        /\ "external_tool_outcome_unknown" \in Reason
        /\ row[r].worker \in Owner /\ row[r].lease \in LeaseLeft
    BY <1>1 DEF Status, Terminal, Live, Reason, Row, Owner, LeaseLeft
  <1> DEFINE y == IF ToolRunning(r) THEN "external_tool_outcome_unknown" ELSE "other"
  <1>3. y \in Reason BY <1>2
  <1>4. CASE ReapOrphan(r)
    <2>1. Reaped(r) = Put(row[r], "orphaned", NoWorker, NoLease, "orphaned", y)
      BY <1>4 DEF Reaped
    <2> HIDE DEF y
    <2> QED BY <1>1, <1>2, <1>3, <2>1, ConstantTypes, PutType
  <1>5. CASE ~ReapOrphan(r)
    <2>1. Reaped(r) = Put(row[r], "running", row[r].worker, row[r].lease, "stale", "other")
      BY <1>5 DEF Reaped
    <2> QED BY <1>1, <1>2, <2>1, PutType
  <1> QED BY <1>4, <1>5

-----------------------------------------------------------------------------
(* Frames: a step that writes the row, a loop or a tool of one run *)

LEMMA RowWrite ==
  ASSUME TypeOK, NEW r \in Run, NEW x \in Row, SetRow(r, x)
  PROVE  /\ row' \in [Run -> Row] /\ row'[r] = x
         /\ \A q \in Run : q # r => row'[q] = row[q]
  BY DEF TypeOK, SetRow

LEMMA LoopWrite ==
  ASSUME TypeOK, NEW w \in Worker, NEW r \in Run, NEW c \in LoopState, SetLoop(w, r, c)
  PROVE  /\ loop' \in [Worker -> [Run -> LoopState]]
         /\ \A v \in Worker, q \in Run :
              loop'[v][q] = IF v = w /\ q = r THEN c ELSE loop[v][q]
  BY DEF TypeOK, SetLoop

LEMMA ToolWrite ==
  ASSUME TypeOK, NEW w \in Worker, NEW r \in Run, NEW c \in ToolState,
         tool' = [tool EXCEPT ![w][r] = c]
  PROVE  /\ tool' \in [Worker -> [Run -> ToolState]]
         /\ \A v \in Worker, q \in Run :
              tool'[v][q] = IF v = w /\ q = r THEN c ELSE tool[v][q]
  BY DEF TypeOK

LEMMA Frame ==
  ASSUME NEW q \in Run, RunInv(q), row'[q] = row[q],
         \A w \in Worker : loop'[w][q] = loop[w][q] /\ tool'[w][q] = tool[w][q]
  PROVE  RunInv(q)'
  BY DEF RunInv, ExecutingLoopOwnsRun, Executing, OwnerMeansRunning, MonitorNeverParks,
         ToolHasOwner, OneTool, RetriedIsOrphaned, ToolRunning

\* A step confined to run r preserves the invariant when it preserves RunInv(r) and
\* does not start r beside a running run of the session.
LEMMA OneRunStep ==
  ASSUME IInv, TypeOK', NEW r \in Run, RunInv(r)',
         \A q \in Run : q # r => /\ row'[q] = row[q]
                                 /\ \A w \in Worker : /\ loop'[w][q] = loop[w][q]
                                                      /\ tool'[w][q] = tool[w][q],
         \/ row'[r].status # "running"
         \/ row[r].status = "running"
         \/ \A q \in Run \ {r} : SessionOf[q] = SessionOf[r] => row[q].status # "running"
  PROVE  IInv'
  <1>1. \A q \in Run : RunInv(q)' BY Frame DEF IInv
  <1>2. OneExecutingRunPerSession' BY DEF IInv, OneExecutingRunPerSession
  <1> QED BY <1>1, <1>2 DEF IInv

\* Every verdict: an undecided run becomes terminal, whatever its loops and tools do.
LEMMA DecideStep ==
  ASSUME IInv, NEW r \in Run, NEW x \in Row, SetRow(r, x),
         row[r].status \notin Terminal, x.status \in Terminal,
         x.staged = row[r].staged, x.retried = row[r].retried,
         loop' \in [Worker -> [Run -> LoopState]], UNCHANGED <<tool, alive>>,
         \A w \in Worker, q \in Run : q # r => loop'[w][q] = loop[w][q],
         \A w \in Worker : loop'[w][r] = "starting" => loop[w][r] = "starting"
  PROVE  IInv'
  <1>1. TypeOK BY DEF IInv
  <1>2. row' \in [Run -> Row] /\ row'[r] = x /\ \A q \in Run : q # r => row'[q] = row[q]
    BY <1>1, RowWrite
  <1>3. TypeOK' BY <1>1, <1>2 DEF TypeOK
  <1>4. RunInv(r) BY DEF IInv
  <1>5. RunInv(r)'
    BY <1>2, <1>4 DEF RunInv, ExecutingLoopOwnsRun, Executing, OwnerMeansRunning,
       MonitorNeverParks, ToolHasOwner, OneTool, RetriedIsOrphaned, Terminal, Waiting
  <1>6. row'[r].status # "running" BY <1>2 DEF Terminal
  <1> QED BY <1>2, <1>3, <1>5, <1>6, OneRunStep

\* The run becomes or stays pending or waiting: no loop executes it, no tool is open.
LEMMA ParkStep ==
  ASSUME IInv, NEW r \in Run, NEW x \in Row, SetRow(r, x),
         row[r].status \notin Terminal, x.status \in {"pending"} \cup Waiting,
         x.worker = NoWorker, x.retried = row[r].retried,
         r \in BackgroundCommand => x.status = "pending" /\ x.staged = "no",
         loop' \in [Worker -> [Run -> LoopState]], UNCHANGED <<tool, alive>>,
         \A w \in Worker, q \in Run : q # r => loop'[w][q] = loop[w][q],
         \A w \in Worker : ~Executing(w, r)' /\ tool[w][r] = "none"
  PROVE  IInv'
  <1>1. TypeOK BY DEF IInv
  <1>2. row' \in [Run -> Row] /\ row'[r] = x /\ \A q \in Run : q # r => row'[q] = row[q]
    BY <1>1, RowWrite
  <1>3. TypeOK' BY <1>1, <1>2 DEF TypeOK
  <1>4. RunInv(r) BY DEF IInv
  <1>5. RunInv(r)'
    BY <1>2, <1>4 DEF RunInv, ExecutingLoopOwnsRun, Executing, OwnerMeansRunning,
       MonitorNeverParks, ToolHasOwner, OneTool, RetriedIsOrphaned, Terminal, Waiting
  <1>6. row'[r].status # "running" BY <1>2 DEF Waiting
  <1> QED BY <1>2, <1>3, <1>5, <1>6, OneRunStep

\* A run that no process may be executing has no executing loop and no open tool.
LEMMA ParkedIsQuiet ==
  ASSUME IInv, NEW r \in Run, row[r].status \notin {"running"} \cup Terminal
  PROVE  \A w \in Worker : ~Executing(w, r) /\ tool[w][r] = "none"
  BY DEF IInv, RunInv, ExecutingLoopOwnsRun, ToolHasOwner

-----------------------------------------------------------------------------
(* Producers *)

LEMMA EnqueueStep ==
  ASSUME IInv, NEW r \in Run, Enqueue(r)
  PROVE  IInv'
  <1> DEFINE x == [AbsentRow EXCEPT !.status = "pending", !.live = "active"]
  <1>1. /\ x \in Row /\ x.status = "pending" /\ x.worker = NoWorker
        /\ x.staged = "no" /\ x.retried = FALSE
    BY AbsentRowType, Literals DEF Row
  <1>2. SetRow(r, x) /\ row[r].status = "absent" /\ UNCHANGED <<loop, tool, alive>>
    BY DEF Enqueue
  <1> HIDE DEF x
  <1>3. \A w \in Worker : ~Executing(w, r) /\ tool[w][r] = "none"
    BY <1>2, ParkedIsQuiet DEF Terminal
  <1>4. row[r].retried = FALSE
    BY <1>2 DEF IInv, RunInv, RetriedIsOrphaned, TypeOK, Row
  <1> QED BY <1>1, <1>2, <1>3, <1>4, ParkStep DEF IInv, TypeOK, Executing, Terminal

LEMMA UpsertPendingStep ==
  ASSUME IInv, NEW r \in Run, UpsertPending(r)
  PROVE  IInv'
  <1> DEFINE x == Put(row[r], "pending", NoWorker, NoLease, "active", "other")
  <1>1. row[r] \in Row /\ row[r].status \in Waiting BY DEF IInv, TypeOK, UpsertPending
  <1>2. /\ x \in Row /\ x.status = "pending" /\ x.worker = NoWorker
        /\ x.staged = row[r].staged /\ x.retried = row[r].retried
    BY <1>1, ConstantTypes, PutType, Literals
  <1>3. SetRow(r, x) /\ UNCHANGED <<loop, tool, alive>> BY DEF UpsertPending
  <1> HIDE DEF x
  <1>4. \A w \in Worker : ~Executing(w, r) /\ tool[w][r] = "none"
    BY <1>1, ParkedIsQuiet DEF Terminal, Waiting
  <1>5. r \notin BackgroundCommand BY <1>1 DEF IInv, RunInv, MonitorNeverParks
  <1> QED BY <1>1, <1>2, <1>3, <1>4, <1>5, ParkStep
         DEF IInv, TypeOK, Executing, Terminal, Waiting

LEMMA ResumeClaimStep ==
  ASSUME IInv, NEW r \in Run, ResumeClaim(r)
  PROVE  IInv'
  <1> DEFINE v == LiveAfter(r, "active")
             y == Put(row[r], "pending", NoWorker, NoLease, v, "other")
             x == [y EXCEPT !.staged = row[r].status]
  <1>1. row[r] \in Row /\ row[r].status \in Waiting BY DEF IInv, TypeOK, ResumeClaim
  <1>2. v \in Live BY DEF LiveAfter, Live
  <1>3. SetRow(r, x) /\ UNCHANGED <<loop, tool, alive>> BY DEF ResumeClaim
  <1> HIDE DEF v
  <1>4. /\ y \in Row /\ y.status = "pending" /\ y.worker = NoWorker
        /\ y.retried = row[r].retried
    BY <1>1, <1>2, ConstantTypes, PutType, Literals
  <1> HIDE DEF y
  <1>5. /\ x \in Row /\ x.status = "pending" /\ x.worker = NoWorker
        /\ x.retried = row[r].retried
    BY <1>1, <1>4 DEF Row
  <1> HIDE DEF x
  <1>6. \A w \in Worker : ~Executing(w, r) /\ tool[w][r] = "none"
    BY <1>1, ParkedIsQuiet DEF Terminal, Waiting
  <1>7. r \notin BackgroundCommand BY <1>1 DEF IInv, RunInv, MonitorNeverParks
  <1> QED BY <1>1, <1>3, <1>5, <1>6, <1>7, ParkStep
         DEF IInv, TypeOK, Executing, Terminal, Waiting

LEMMA ResumeActivateStep ==
  ASSUME IInv, NEW r \in Run, ResumeActivate(r)
  PROVE  IInv'
  <1> DEFINE x == [row[r] EXCEPT !.staged = "no"]
  <1>1. row[r] \in Row /\ row[r].status = "pending" BY DEF IInv, TypeOK, ResumeActivate
  <1>2. /\ x \in Row /\ x.status = "pending" /\ x.worker = row[r].worker
        /\ x.staged = "no" /\ x.retried = row[r].retried
    BY <1>1 DEF Row
  <1>3. SetRow(r, x) /\ UNCHANGED <<loop, tool, alive>> BY DEF ResumeActivate
  <1> HIDE DEF x
  <1>4. \A w \in Worker : ~Executing(w, r) /\ tool[w][r] = "none"
    BY <1>1, ParkedIsQuiet DEF Terminal
  <1>5. row[r].worker = NoWorker
    BY <1>1 DEF IInv, RunInv, OwnerMeansRunning, Terminal
  <1> QED BY <1>1, <1>2, <1>3, <1>4, <1>5, ParkStep
         DEF IInv, TypeOK, Executing, Terminal

LEMMA ResumeRollbackStep ==
  ASSUME IInv, NEW r \in Run, ResumeRollback(r)
  PROVE  IInv'
  <1> DEFINE v == LiveAfter(r, "waiting_interaction")
             y == Put(row[r], row[r].staged, NoWorker, NoLease, v, "other")
             x == [y EXCEPT !.staged = "no"]
  <1>1. row[r] \in Row /\ row[r].status = "pending" /\ row[r].staged # "no"
    BY DEF IInv, TypeOK, ResumeRollback
  <1>2. v \in Live BY DEF LiveAfter, Live
  <1>3. row[r].staged \in Waiting /\ row[r].staged \in Status BY <1>1 DEF Row, Status
  <1>4. SetRow(r, x) /\ UNCHANGED <<loop, tool, alive>> BY DEF ResumeRollback
  <1> HIDE DEF v
  <1>5. /\ y \in Row /\ y.status \in Waiting /\ y.worker = NoWorker
        /\ y.retried = row[r].retried
    BY <1>1, <1>2, <1>3, ConstantTypes, PutType, Literals
  <1> HIDE DEF y
  <1>6. /\ x \in Row /\ x.status \in Waiting /\ x.worker = NoWorker
        /\ x.retried = row[r].retried
    BY <1>5 DEF Row
  <1> HIDE DEF x
  <1>7. \A w \in Worker : ~Executing(w, r) /\ tool[w][r] = "none"
    BY <1>1, ParkedIsQuiet DEF Terminal
  <1>8. r \notin BackgroundCommand BY <1>1 DEF IInv, RunInv, MonitorNeverParks
  <1> QED BY <1>1, <1>4, <1>6, <1>7, <1>8, ParkStep
         DEF IInv, TypeOK, Executing, Terminal, Waiting

\* retryOrphanedUserMessage: the source stays orphaned, the copy is a pending run.
LEMMA RetryOrphanedStep ==
  ASSUME IInv, NEW r \in Run, NEW q \in Run, RetryOrphaned(r, q)
  PROVE  IInv'
  <1> DEFINE x == [row[r] EXCEPT !.retried = TRUE]
             y == Put(row[r], "pending", NoWorker, NoLease, "active", "other")
  <1>1. /\ row[r].status = "orphaned" /\ ~row[r].retried /\ ~ToolRunning(r)
        /\ row[q].status = "absent" /\ (q \in BackgroundCommand <=> r \in BackgroundCommand)
        /\ row' = [row EXCEPT ![r] = x, ![q] = y] /\ UNCHANGED <<loop, tool, alive>>
    BY DEF RetryOrphaned
  <1>2. TypeOK /\ row[r] \in Row /\ row[q] \in Row /\ r # q BY <1>1 DEF IInv, TypeOK
  <1>3. /\ y \in Row /\ y.status = "pending" /\ y.worker = NoWorker
        /\ y.staged = row[r].staged /\ y.retried = row[r].retried
    BY <1>2, ConstantTypes, PutType, Literals
  <1>4. /\ x \in Row /\ x.status = "orphaned" /\ x.worker = row[r].worker
        /\ x.live = row[r].live /\ x.staged = row[r].staged
    BY <1>1, <1>2 DEF Row
  <1> HIDE DEF x, y
  <1>5. /\ row' \in [Run -> Row] /\ row'[r] = x /\ row'[q] = y
        /\ \A p \in Run : p # r /\ p # q => row'[p] = row[p]
    BY <1>1, <1>2, <1>3, <1>4 DEF TypeOK
  <1>6. TypeOK' BY <1>1, <1>2, <1>5 DEF TypeOK
  <1>7. RunInv(r) /\ RunInv(q) BY DEF IInv
  <1>8. \A w \in Worker : ~Executing(w, q) /\ tool[w][q] = "none"
    BY <1>1, ParkedIsQuiet DEF Terminal
  <1>9. RunInv(r)'
    BY <1>1, <1>4, <1>5, <1>7 DEF RunInv, ExecutingLoopOwnsRun, Executing,
       OwnerMeansRunning, MonitorNeverParks, ToolHasOwner, OneTool, RetriedIsOrphaned,
       ToolRunning, Terminal, Waiting
  <1>10. RunInv(q)'
    BY <1>1, <1>3, <1>5, <1>7, <1>8 DEF RunInv, ExecutingLoopOwnsRun, Executing,
       OwnerMeansRunning, MonitorNeverParks, ToolHasOwner, OneTool, RetriedIsOrphaned,
       ToolRunning, Terminal, Waiting
  <1>11. \A p \in Run : RunInv(p)' BY <1>1, <1>5, <1>9, <1>10, Frame DEF IInv
  <1>12. OneExecutingRunPerSession'
    BY <1>3, <1>4, <1>5 DEF IInv, OneExecutingRunPerSession
  <1> QED BY <1>6, <1>11, <1>12 DEF IInv

-----------------------------------------------------------------------------
(* Leases *)

\* A running row stays running; its owner stays, or leaves with no loop behind.
LEMMA RunningStep ==
  ASSUME IInv, NEW r \in Run, NEW x \in Row, SetRow(r, x),
         row[r].status = "running", x.status = "running",
         x.staged = row[r].staged, x.retried = row[r].retried,
         \/ x.worker = row[r].worker /\ (x.live = "none" => row[r].live = "none")
         \/ /\ x.worker = NoWorker
            /\ r \in BackgroundCommand \/ \A w \in Worker : ~Executing(w, r)'
            /\ x.live # "none" \/ ~ToolRunning(r),
         loop' \in [Worker -> [Run -> LoopState]], UNCHANGED <<tool, alive>>,
         \A w \in Worker, q \in Run : q # r => loop'[w][q] = loop[w][q],
         \A w \in Worker : /\ Executing(w, r)' => Executing(w, r)
                           /\ loop'[w][r] = "starting" => loop[w][r] = "starting"
  PROVE  IInv'
  <1>1. TypeOK BY DEF IInv
  <1>2. row' \in [Run -> Row] /\ row'[r] = x /\ \A q \in Run : q # r => row'[q] = row[q]
    BY <1>1, RowWrite
  <1>3. TypeOK' BY <1>1, <1>2 DEF TypeOK
  <1>4. RunInv(r) BY DEF IInv
  <1>5. ExecutingLoopOwnsRun(r)'
    BY <1>2, <1>4 DEF RunInv, ExecutingLoopOwnsRun, Executing
  <1>6. OwnerMeansRunning(r)' /\ MonitorNeverParks(r)'
    BY <1>2, <1>4 DEF RunInv, OwnerMeansRunning, MonitorNeverParks
  <1>7. ToolHasOwner(r)' /\ OneTool(r)'
    BY <1>2, <1>4 DEF RunInv, OwnerMeansRunning, ToolHasOwner, OneTool, ToolRunning
  <1>8. RetriedIsOrphaned(r)' BY <1>2, <1>4 DEF RunInv, RetriedIsOrphaned
  <1>9. RunInv(r)' BY <1>5, <1>6, <1>7, <1>8 DEF RunInv
  <1> QED BY <1>2, <1>3, <1>9, OneRunStep

\* A step of the loop of w on r that writes no row and no tool.
LEMMA LoopOnlyStep ==
  ASSUME IInv, NEW w \in Worker, NEW r \in Run, NEW c \in LoopState, SetLoop(w, r, c),
         c \notin {"starting", "looping"}, UNCHANGED <<row, tool, alive>>
  PROVE  IInv'
  <1>1. TypeOK BY DEF IInv
  <1>2. /\ loop' \in [Worker -> [Run -> LoopState]]
        /\ \A v \in Worker, q \in Run :
             loop'[v][q] = IF v = w /\ q = r THEN c ELSE loop[v][q]
    BY <1>1, LoopWrite
  <1>3. TypeOK' BY <1>1, <1>2 DEF TypeOK
  <1>4. RunInv(r) BY DEF IInv
  <1>5. RunInv(r)'
    BY <1>2, <1>4 DEF RunInv, ExecutingLoopOwnsRun, Executing, OwnerMeansRunning,
       MonitorNeverParks, ToolHasOwner, OneTool, RetriedIsOrphaned, ToolRunning
  <1> QED BY <1>2, <1>3, <1>5, OneRunStep

LEMMA AcquireLeaseStep ==
  ASSUME IInv, NEW w \in Worker, NEW r \in Run, AcquireLease(w, r)
  PROVE  IInv'
  <1> DEFINE y == Put(row[r], "running", w, LeaseTime, "busy", "other")
             x == [y EXCEPT !.tokenBy = w, !.ready = FALSE]
  <1>1. TypeOK /\ row[r] \in Row /\ RunInv(r) BY DEF IInv, TypeOK
  <1>2. /\ Acquirable(r) /\ SetRow(r, x) /\ SetLoop(w, r, "starting")
        /\ UNCHANGED <<tool, alive>>
    BY DEF AcquireLease
  <1>3. /\ y \in Row /\ y.status = "running" /\ y.worker = w /\ y.live = "busy"
        /\ y.staged = row[r].staged /\ y.retried = row[r].retried
    BY <1>1, ConstantTypes, PutType, Literals
  <1> HIDE DEF y
  <1>4. /\ x \in Row /\ x.status = "running" /\ x.worker = w /\ x.live = "busy"
        /\ x.staged = row[r].staged /\ x.retried = row[r].retried
    BY <1>3 DEF Row
  <1> HIDE DEF x
  <1>5. row' \in [Run -> Row] /\ row'[r] = x /\ \A q \in Run : q # r => row'[q] = row[q]
    BY <1>1, <1>2, <1>4, RowWrite
  <1>6. /\ loop' \in [Worker -> [Run -> LoopState]]
        /\ \A v \in Worker, q \in Run :
             loop'[v][q] = IF v = w /\ q = r THEN "starting" ELSE loop[v][q]
    BY <1>1, <1>2, LoopWrite DEF LoopState
  <1>7. TypeOK' BY <1>1, <1>2, <1>5, <1>6 DEF TypeOK
  <1>8. \A q \in Run \ {r} : SessionOf[q] = SessionOf[r] => row[q].status # "running"
    BY <1>2 DEF Acquirable, BlockersCleared
  <1>9. /\ row[r].status \in {"pending", "running"}
        /\ \A v \in Worker : /\ tool[v][r] = "none"
                             /\ Executing(v, r) => r \in BackgroundCommand
    <2>1. CASE row[r].status = "pending"
      BY <2>1, ParkedIsQuiet DEF Terminal
    <2>2. CASE row[r].status = "running" /\ r \in BackgroundCommand
      BY <1>1, <2>2 DEF RunInv, ToolHasOwner
    <2>3. CASE row[r].status = "running" /\ r \notin BackgroundCommand
      <3>1. row[r].worker = NoWorker /\ (row[r].live = "none" \/ ~ToolRunning(r))
        BY <1>1, <1>2, <2>3 DEF Acquirable, RecoverableHandoff, RunInv, OwnerMeansRunning
      <3> QED BY <1>1, <2>3, <3>1, WorkerAssumption
             DEF RunInv, ExecutingLoopOwnsRun, ToolHasOwner, ToolRunning
    <2> QED BY <1>2, <2>1, <2>2, <2>3 DEF Acquirable, RecoverableHandoff
  <1>10. ExecutingLoopOwnsRun(r)'
    BY <1>4, <1>5, <1>6, <1>9 DEF ExecutingLoopOwnsRun, Executing
  <1>11. OwnerMeansRunning(r)' /\ MonitorNeverParks(r)'
    BY <1>1, <1>4, <1>5 DEF RunInv, OwnerMeansRunning, MonitorNeverParks, Waiting
  <1>12. ToolHasOwner(r)' /\ OneTool(r)'
    BY <1>2, <1>9 DEF ToolHasOwner, OneTool
  <1>13. RetriedIsOrphaned(r)'
    BY <1>1, <1>4, <1>5, <1>9 DEF RunInv, RetriedIsOrphaned
  <1>14. RunInv(r)' BY <1>10, <1>11, <1>12, <1>13 DEF RunInv
  <1> QED BY <1>2, <1>5, <1>6, <1>7, <1>8, <1>14, OneRunStep

LEMMA RenewLeaseStep ==
  ASSUME IInv, NEW w \in Worker, NEW r \in Run, RenewLease(w, r)
  PROVE  IInv'
  <1> DEFINE a == IF row[r].live = "busy" THEN row[r].age ELSE 0
             x == [row[r] EXCEPT !.lease = LeaseTime, !.live = "busy",
                                 !.reason = "other", !.age = a]
  <1>1. TypeOK /\ row[r] \in Row /\ row[r].status = "running"
    BY DEF IInv, TypeOK, RenewLease
  <1>2. SetRow(r, x) /\ UNCHANGED <<loop, tool, alive>> BY DEF RenewLease
  <1>3. a \in 0 .. Grace BY <1>1, TimeAssumption DEF Row
  <1>4. LeaseTime \in NoLease .. LeaseTime BY ConstantTypes DEF LeaseLeft
  <1> HIDE DEF a
  <1>5. /\ x \in Row /\ x.status = "running" /\ x.worker = row[r].worker
        /\ x.live = "busy" /\ x.staged = row[r].staged /\ x.retried = row[r].retried
    BY <1>1, <1>3, <1>4, Literals DEF Row
  <1> HIDE DEF x
  <1> QED BY <1>1, <1>2, <1>5, RunningStep DEF TypeOK, Executing

\* The release of a lease the process still owns, with any final status.
LEMMA OwnedReleaseStep ==
  ASSUME IInv, NEW w \in Worker, NEW r \in Run, OwnedBy(w, r),
         NEW f \in (ReleaseStatus \cup {"none"}), NEW why \in Reason,
         SetRow(r, Released(r, f, why)), SetLoop(w, r, "none"), UNCHANGED <<tool, alive>>,
         f \in Waiting => loop[w][r] = "starting" /\ r \notin BackgroundCommand
  PROVE  IInv'
  <1> DEFINE x == Released(r, f, why)
             s == IF row[r].status \in Terminal \/ f = "none" THEN row[r].status ELSE f
  <1>1. TypeOK /\ row[r] \in Row /\ RunInv(r) BY DEF IInv, TypeOK
  <1>2. f \in Status \cup {"none"}
    BY ReleaseAssumption DEF Status, Waiting, Terminal
  <1>3. /\ x \in Row /\ x.status = s /\ x.worker = NoWorker
        /\ (x.live = "none" <=> row[r].live = "none")
        /\ x.staged = row[r].staged /\ x.retried = row[r].retried
    BY <1>1, <1>2, ReleasedType
  <1>4. SetRow(r, x) OBVIOUS
  <1> HIDE DEF x
  <1>5. row' \in [Run -> Row] /\ row'[r] = x /\ \A q \in Run : q # r => row'[q] = row[q]
    BY <1>1, <1>3, <1>4, RowWrite
  <1>6. /\ loop' \in [Worker -> [Run -> LoopState]]
        /\ \A v \in Worker, q \in Run :
             loop'[v][q] = IF v = w /\ q = r THEN "none" ELSE loop[v][q]
    BY <1>1, LoopWrite DEF LoopState
  <1>7. row[r].status \in {"running"} \cup Terminal /\ row[r].worker = w /\ w # NoWorker
    BY <1>1, WorkerAssumption DEF RunInv, OwnerMeansRunning, OwnedBy
  <1>8. CASE row[r].status \in Terminal
    <2>1. TypeOK' BY <1>1, <1>5, <1>6 DEF TypeOK
    <2>2. RunInv(r)'
      BY <1>1, <1>3, <1>5, <1>6, <1>8 DEF RunInv, ExecutingLoopOwnsRun, Executing,
         OwnerMeansRunning, MonitorNeverParks, ToolHasOwner, OneTool, RetriedIsOrphaned,
         ToolRunning, Terminal
    <2>3. row'[r].status # "running" BY <1>3, <1>5, <1>8 DEF Terminal
    <2> QED BY <1>5, <1>6, <2>1, <2>2, <2>3, OneRunStep
  <1>9. CASE row[r].status = "running"
    <2>1. row[r].live # "none" BY <1>1, <1>7, <1>9 DEF RunInv, OwnerMeansRunning
    <2>2. \A v \in Worker : Executing(v, r)' => r \in BackgroundCommand
      BY <1>1, <1>6, <1>7, <1>9 DEF RunInv, ExecutingLoopOwnsRun, Executing
    <2>3. \A v \in Worker : tool[v][r] # "none" => v = w
      BY <1>1, <1>7, <1>9 DEF RunInv, ToolHasOwner
    <2>4. CASE f \in {"none", "running"}
      <3>1. x.status = "running" BY <1>3, <1>9, <2>4 DEF Terminal
      <3> QED BY <1>3, <1>4, <1>6, <1>9, <2>1, <2>2, <3>1, RunningStep DEF Executing
    <2>5. CASE f \in Waiting
      <3>1. \A v \in Worker : tool[v][r] = "none"
        BY <1>1, <2>3, <2>5 DEF RunInv, ToolHasOwner
      <3>2. x.status \in Waiting BY <1>3, <1>9, <2>5 DEF Terminal, Waiting
      <3>3. \A v \in Worker : ~Executing(v, r)' BY <2>2, <2>5
      <3> QED BY <1>3, <1>4, <1>6, <1>9, <2>5, <3>1, <3>2, <3>3, ParkStep DEF Terminal
    <2>6. CASE f = "failed"
      <3>1. x.status = "failed" BY <1>3, <1>9, <2>6 DEF Terminal
      <3> QED BY <1>3, <1>4, <1>6, <1>9, <3>1, DecideStep DEF Terminal
    <2> QED BY <2>4, <2>5, <2>6, ReleaseAssumption DEF Waiting
  <1> QED BY <1>7, <1>8, <1>9

LEMMA ReleaseLeaseStep ==
  ASSUME IInv, NEW w \in Worker, NEW r \in Run, NEW f \in (ReleaseStatus \cup {"none"}),
         NEW why \in {"other", "handoff"}, ReleaseLease(w, r, f, why)
  PROVE  IInv'
  <1>1. CASE FencedBy(w, r)
    BY <1>1, OwnedReleaseStep, Literals DEF ReleaseLease, FencedBy
  <1>2. CASE ~FencedBy(w, r)
    BY <1>2, LoopOnlyStep DEF ReleaseLease, LoopState
  <1> QED BY <1>1, <1>2

LEMMA FallbackReleaseStep ==
  ASSUME IInv, NEW w \in Worker, NEW r \in Run, FallbackRelease(w, r)
  PROVE  IInv'
  <1>1. CASE OwnedBy(w, r) /\ SetRow(r, Released(r, "none", "external_tool_outcome_unknown"))
    BY <1>1, OwnedReleaseStep, Literals DEF FallbackRelease, Waiting
  <1>2. CASE UNCHANGED row
    BY <1>2, LoopOnlyStep DEF FallbackRelease, LoopState
  <1> QED BY <1>1, <1>2 DEF FallbackRelease

LEMMA HandOffStep ==
  ASSUME IInv, NEW w \in Worker, NEW r \in Run, HandOff(w, r)
  PROVE  IInv'
  <1>1. CASE HandoffAllowed(w, r)
    <2> DEFINE y == Put(row[r], "running", NoWorker, NoLease, "none", "other")
               x == [y EXCEPT !.ready = TRUE]
    <2>1. TypeOK /\ row[r] \in Row /\ RunInv(r) BY DEF IInv, TypeOK
    <2>2. SetRow(r, x) /\ SetLoop(w, r, "none") /\ UNCHANGED <<tool, alive>>
      BY <1>1 DEF HandOff
    <2>3. /\ y \in Row /\ y.status = "running" /\ y.worker = NoWorker
          /\ y.staged = row[r].staged /\ y.retried = row[r].retried
      BY <2>1, ConstantTypes, PutType, Literals
    <2> HIDE DEF y
    <2>4. /\ x \in Row /\ x.status = "running" /\ x.worker = NoWorker
          /\ x.staged = row[r].staged /\ x.retried = row[r].retried
      BY <2>3 DEF Row
    <2> HIDE DEF x
    <2>5. /\ loop' \in [Worker -> [Run -> LoopState]]
          /\ \A v \in Worker, q \in Run :
               loop'[v][q] = IF v = w /\ q = r THEN "none" ELSE loop[v][q]
      BY <2>1, <2>2, LoopWrite DEF LoopState
    <2>6. row[r].status = "running" /\ row[r].worker = w /\ ~ToolRunning(r)
      BY <1>1 DEF HandoffAllowed, OwnedBy
    <2>7. \A v \in Worker : Executing(v, r)' => r \in BackgroundCommand
      BY <2>1, <2>5, <2>6 DEF RunInv, ExecutingLoopOwnsRun, Executing
    <2> QED BY <2>2, <2>4, <2>5, <2>6, <2>7, RunningStep DEF Executing
  <1>2. CASE ~HandoffAllowed(w, r)
    BY <1>2, LoopOnlyStep DEF HandOff, LoopState
  <1> QED BY <1>1, <1>2

-----------------------------------------------------------------------------
(* Loops *)

LEMMA MarkRunningStep ==
  ASSUME IInv, NEW w \in Worker, NEW r \in Run, MarkRunning(w, r)
  PROVE  IInv'
  <1>1. TypeOK /\ RunInv(r) /\ Executing(w, r) BY DEF IInv, MarkRunning, Executing
  <1>2. row[r].status \in {"running"} \cup Terminal
    BY <1>1 DEF RunInv, ExecutingLoopOwnsRun
  <1>3. /\ loop' \in [Worker -> [Run -> LoopState]]
        /\ \A v \in Worker, q \in Run :
             loop'[v][q] = IF v = w /\ q = r THEN "looping" ELSE loop[v][q]
    BY <1>1, LoopWrite DEF LoopState, MarkRunning
  <1>4. CASE row[r].status = "running"
    <2> DEFINE x == Marked(r, "running")
    <2>1. /\ x \in Row /\ x.status = "running" /\ x.worker = row[r].worker
          /\ (x.live = "none" <=> row[r].live = "none")
          /\ x.staged = row[r].staged /\ x.retried = row[r].retried
      BY <1>1, MarkedType, Literals
    <2>2. SetRow(r, x) /\ UNCHANGED <<tool, alive>>
      BY <1>4 DEF MarkRunning, Terminal
    <2> HIDE DEF x
    <2> QED BY <1>1, <1>3, <1>4, <2>1, <2>2, RunningStep DEF Executing
  <1>5. CASE row[r].status \in Terminal
    <2>1. UNCHANGED <<row, tool, alive>> BY <1>5 DEF MarkRunning
    <2>2. TypeOK' BY <1>1, <1>3, <2>1 DEF TypeOK
    <2>3. RunInv(r)'
      BY <1>1, <1>3, <1>5, <2>1 DEF RunInv, ExecutingLoopOwnsRun, Executing,
         OwnerMeansRunning, MonitorNeverParks, ToolHasOwner, OneTool, RetriedIsOrphaned,
         ToolRunning, Terminal
    <2> QED BY <1>3, <1>5, <2>1, <2>2, <2>3, OneRunStep
  <1> QED BY <1>2, <1>4, <1>5

LEMMA RequestInteractionStep ==
  ASSUME IInv, NEW w \in Worker, NEW r \in Run, NEW k \in Waiting,
         RequestInteraction(w, r, k)
  PROVE  IInv'
  <1>1. TypeOK /\ RunInv(r) /\ Executing(w, r) /\ r \notin BackgroundCommand
    BY DEF IInv, RequestInteraction, Executing
  <1>2. row[r].status \in {"running"} \cup Terminal
    BY <1>1 DEF RunInv, ExecutingLoopOwnsRun
  <1>3. CASE row[r].status \in Terminal
    BY <1>3, LoopOnlyStep DEF RequestInteraction, LoopState
  <1>4. CASE row[r].status = "running"
    <2> DEFINE x == Marked(r, k)
    <2>1. k \in Status /\ k # "running" BY Literals DEF Waiting
    <2>2. /\ x \in Row /\ x.status = k /\ x.worker = NoWorker
          /\ x.retried = row[r].retried
      BY <1>1, <2>1, MarkedType
    <2>3. SetRow(r, x) /\ SetLoop(w, r, "closing") /\ UNCHANGED <<tool, alive>>
      BY <1>4 DEF RequestInteraction, Terminal
    <2> HIDE DEF x
    <2>4. /\ loop' \in [Worker -> [Run -> LoopState]]
          /\ \A v \in Worker, q \in Run :
               loop'[v][q] = IF v = w /\ q = r THEN "closing" ELSE loop[v][q]
      BY <1>1, <2>3, LoopWrite DEF LoopState
    <2>5. row[r].worker = w /\ tool[w][r] = "none"
      BY <1>1, <1>4 DEF RunInv, ExecutingLoopOwnsRun, RequestInteraction
    <2>6. \A v \in Worker : ~Executing(v, r)' /\ tool[v][r] = "none"
      BY <1>1, <1>4, <2>4, <2>5, WorkerAssumption
         DEF RunInv, ExecutingLoopOwnsRun, Executing, ToolHasOwner
    <2> QED BY <1>1, <1>4, <2>2, <2>3, <2>4, <2>6, ParkStep DEF Terminal
  <1> QED BY <1>2, <1>3, <1>4

\* A verdict by markRunStatus together with any loop ending.
LEMMA MarkTerminalStep ==
  ASSUME IInv, NEW r \in Run, NEW s \in Terminal, row[r].status \notin Terminal,
         SetRow(r, Marked(r, s)), UNCHANGED <<tool, alive>>,
         \/ UNCHANGED loop
         \/ \E w \in Worker : SetLoop(w, r, "closing")
  PROVE  IInv'
  <1> DEFINE x == Marked(r, s)
  <1>1. TypeOK BY DEF IInv
  <1>2. /\ x \in Row /\ x.status = s
        /\ x.staged = row[r].staged /\ x.retried = row[r].retried
    BY <1>1, MarkedType, Literals
  <1>3. SetRow(r, x) OBVIOUS
  <1> HIDE DEF x
  <1>4. CASE UNCHANGED loop
    BY <1>1, <1>2, <1>3, <1>4, DecideStep DEF TypeOK
  <1>5. CASE \E w \in Worker : SetLoop(w, r, "closing")
    <2>1. PICK w \in Worker : SetLoop(w, r, "closing") BY <1>5
    <2>2. /\ loop' \in [Worker -> [Run -> LoopState]]
          /\ \A v \in Worker, q \in Run :
               loop'[v][q] = IF v = w /\ q = r THEN "closing" ELSE loop[v][q]
      BY <1>1, <2>1, LoopWrite DEF LoopState
    <2> QED BY <1>2, <1>3, <2>2, DecideStep
  <1> QED BY <1>4, <1>5

LEMMA FinishStep ==
  ASSUME IInv, NEW w \in Worker, NEW r \in Run, NEW s \in Terminal, Finish(w, r, s)
  PROVE  IInv'
  <1>1. CASE IsActive(r)
    BY <1>1, MarkTerminalStep DEF Finish, IsActive, Terminal, Waiting
  <1>2. CASE ~IsActive(r)
    BY <1>2, LoopOnlyStep DEF Finish, LoopState
  <1> QED BY <1>1, <1>2

LEMMA CancelRunStep ==
  ASSUME IInv, NEW r \in Run, CancelRun(r)
  PROVE  IInv'
  BY MarkTerminalStep DEF CancelRun, IsActive, Terminal, Waiting

LEMMA FailForWallClockStep ==
  ASSUME IInv, NEW w \in Worker, NEW r \in Run, FailForWallClock(w, r)
  PROVE  IInv'
  BY MarkTerminalStep DEF FailForWallClock, Terminal

LEMMA AbortLoopStep ==
  ASSUME IInv, NEW w \in Worker, NEW r \in Run, AbortLoop(w, r)
  PROVE  IInv'
  BY LoopOnlyStep DEF AbortLoop, LoopState

\* A tool step of the looping process w on r.
LEMMA ToolStep ==
  ASSUME IInv, NEW w \in Worker, NEW r \in Run,
         ToolStart(w, r) \/ ToolInvoke(w, r) \/ ToolComplete(w, r)
  PROVE  IInv'
  <1>1. TypeOK /\ RunInv(r) /\ UNCHANGED <<row, loop, alive>>
    BY DEF IInv, ToolStart, ToolInvoke, ToolComplete
  <1>2. PICK c \in ToolState : tool' = [tool EXCEPT ![w][r] = c]
    BY DEF ToolStart, ToolInvoke, ToolComplete, ToolState
  <1>3. /\ tool' \in [Worker -> [Run -> ToolState]]
        /\ \A v \in Worker, q \in Run :
             tool'[v][q] = IF v = w /\ q = r THEN c ELSE tool[v][q]
    BY <1>1, <1>2, ToolWrite
  <1>4. TypeOK' BY <1>1, <1>3 DEF TypeOK
  <1>5. \/ tool'[w][r] = "none"
        \/ tool[w][r] # "none"
        \/ ToolStart(w, r)
    BY <1>1, <1>3 DEF ToolInvoke, ToolComplete, TypeOK
  <1>6. CASE tool'[w][r] = "none" \/ tool[w][r] # "none"
    <2>1. RunInv(r)'
      BY <1>1, <1>3, <1>6 DEF RunInv, ExecutingLoopOwnsRun, Executing,
         OwnerMeansRunning, MonitorNeverParks, ToolHasOwner, OneTool, RetriedIsOrphaned,
         ToolRunning
    <2> QED BY <1>1, <1>3, <1>4, <2>1, OneRunStep
  <1>7. CASE ToolStart(w, r)
    <2>1. /\ loop[w][r] = "looping" /\ r \notin BackgroundCommand
          /\ row[r].status \notin Terminal
      BY <1>7 DEF ToolStart
    <2>2. row[r].status = "running" /\ row[r].worker = w
      BY <1>1, <2>1 DEF RunInv, ExecutingLoopOwnsRun, Executing
    <2>3. \A v \in Worker : tool[v][r] # "none" => v = w
      BY <1>1, <2>2, WorkerAssumption DEF RunInv, ToolHasOwner
    <2>4. ToolHasOwner(r)' /\ OneTool(r)'
      BY <1>1, <1>3, <2>1, <2>2, <2>3 DEF RunInv, ToolHasOwner, OneTool
    <2>5. RunInv(r)'
      BY <1>1, <2>2, <2>4 DEF RunInv, ExecutingLoopOwnsRun, Executing,
         OwnerMeansRunning, MonitorNeverParks, RetriedIsOrphaned
    <2> QED BY <1>1, <1>3, <1>4, <2>5, OneRunStep
  <1> QED BY <1>5, <1>6, <1>7

-----------------------------------------------------------------------------
(* Verdicts on several runs, crashes, time *)

LEMMA CancelStaleApprovalStep ==
  ASSUME IInv, NEW r \in Run, CancelStaleApproval(r)
  PROVE  IInv'
  <1> DEFINE x == [row[r] EXCEPT !.status = "cancelled", !.worker = NoWorker, !.lease = NoLease]
  <1>1. row[r] \in Row /\ row[r].status = "waiting_approval"
    BY DEF IInv, TypeOK, CancelStaleApproval
  <1>2. "cancelled" \in Status /\ NoLease \in NoLease .. LeaseTime
    BY ConstantTypes DEF Status, Terminal, LeaseLeft
  <1>3. SetRow(r, x) /\ UNCHANGED <<loop, tool, alive>> BY DEF CancelStaleApproval
  <1>4. /\ x \in Row /\ x.status = "cancelled"
        /\ x.staged = row[r].staged /\ x.retried = row[r].retried
    BY <1>1, <1>2 DEF Row
  <1> HIDE DEF x
  <1> QED BY <1>1, <1>3, <1>4, DecideStep DEF IInv, TypeOK, Terminal

\* A step that changes rows only, each row to itself, to a verdict, or to a running
\* row with the same owner that has not lost its liveness version.
LEMMA ManyRowsStep ==
  ASSUME IInv, row' \in [Run -> Row], UNCHANGED <<loop, tool, alive>>,
         \A q \in Run :
           /\ row'[q].staged = row[q].staged /\ row'[q].retried = row[q].retried
           /\ \/ /\ row'[q].status = row[q].status /\ row'[q].worker = row[q].worker
                 /\ row'[q].live = "none" <=> row[q].live = "none"
              \/ /\ row[q].status = "running" /\ row'[q].status = "running"
                 /\ row'[q].worker = row[q].worker /\ row'[q].live # "none"
              \/ row[q].status \notin Terminal /\ row'[q].status \in Terminal
  PROVE  IInv'
  <1>1. TypeOK' BY DEF IInv, TypeOK
  <1>2. OneExecutingRunPerSession'
    BY DEF IInv, OneExecutingRunPerSession, Terminal
  <1>3. ASSUME NEW q \in Run PROVE RunInv(q)'
    <2>1. RunInv(q) BY DEF IInv
    <2>2. ExecutingLoopOwnsRun(q)'
      BY <2>1 DEF RunInv, ExecutingLoopOwnsRun, Executing, Terminal
    <2>3. OwnerMeansRunning(q)' /\ MonitorNeverParks(q)'
      BY <2>1 DEF RunInv, OwnerMeansRunning, MonitorNeverParks, Terminal, Waiting
    <2>4. ToolHasOwner(q)' /\ OneTool(q)'
      BY <2>1 DEF RunInv, ToolHasOwner, OneTool, Terminal
    <2>5. RetriedIsOrphaned(q)'
      BY <2>1 DEF RunInv, RetriedIsOrphaned, ToolRunning, Terminal
    <2> QED BY <2>2, <2>3, <2>4, <2>5 DEF RunInv
  <1> QED BY <1>1, <1>2, <1>3 DEF IInv

LEMMA CancelTenantStep ==
  ASSUME IInv, CancelTenant
  PROVE  IInv'
  <1>1. ASSUME NEW q \in Run, IsActive(q)
        PROVE  LET x == [row[q] EXCEPT !.status = "cancelled"]
               IN  /\ x \in Row /\ x.status = "cancelled"
                   /\ x.staged = row[q].staged /\ x.retried = row[q].retried
    <2>1. row[q] \in Row BY DEF IInv, TypeOK
    <2>2. "cancelled" \in Status BY DEF Status, Terminal
    <2> QED BY <2>1, <2>2 DEF Row
  <1>2. /\ row' = [q \in Run |-> IF IsActive(q) THEN [row[q] EXCEPT !.status = "cancelled"]
                                               ELSE row[q]]
        /\ UNCHANGED <<loop, tool, alive>>
    BY DEF CancelTenant
  <1>3. row' \in [Run -> Row] BY <1>1, <1>2 DEF IInv, TypeOK
  <1>4. ASSUME NEW q \in Run
        PROVE  /\ row'[q].staged = row[q].staged /\ row'[q].retried = row[q].retried
               /\ \/ row'[q] = row[q]
                  \/ row[q].status \notin Terminal /\ row'[q].status \in Terminal
    BY <1>1, <1>2 DEF IsActive, Terminal, Waiting
  <1> QED BY <1>2, <1>3, <1>4, ManyRowsStep

LEMMA ReapStep ==
  ASSUME IInv, NEW S \in SUBSET Run, Reap(S)
  PROVE  IInv'
  <1>1. ASSUME NEW q \in S PROVE q \in Run /\ row[q].status = "running"
    BY <1>1 DEF Reap, ReapOrphan, ReapStale
  <1>2. /\ row' = [q \in Run |-> IF q \in S THEN Reaped(q) ELSE row[q]]
        /\ UNCHANGED <<loop, tool, alive>>
    BY DEF Reap
  <1>3. TypeOK BY DEF IInv
  <1>4. row' \in [Run -> Row] BY <1>1, <1>2, <1>3, ReapedType DEF TypeOK
  <1>5. ASSUME NEW q \in Run
        PROVE  /\ row'[q].staged = row[q].staged /\ row'[q].retried = row[q].retried
               /\ \/ row'[q] = row[q]
                  \/ /\ row[q].status = "running" /\ row'[q].status = "running"
                     /\ row'[q].worker = row[q].worker /\ row'[q].live # "none"
                  \/ row[q].status \notin Terminal /\ row'[q].status \in Terminal
    <2>1. CASE q \in S
      BY <1>1, <1>2, <1>3, <2>1, ReapedType DEF Terminal
    <2>2. CASE q \notin S BY <1>2, <2>2
    <2> QED BY <2>1, <2>2
  <1> QED BY <1>2, <1>4, <1>5, ManyRowsStep

LEMMA TickStep ==
  ASSUME IInv, Tick
  PROVE  IInv'
  <1>1. ASSUME NEW q \in Run
        PROVE  /\ row'[q] \in Row
               /\ row'[q].status = row[q].status /\ row'[q].worker = row[q].worker
               /\ row'[q].live = row[q].live
               /\ row'[q].staged = row[q].staged /\ row'[q].retried = row[q].retried
    <2> DEFINE l == Later(row[q].lease)
               a == IF row[q].age < Grace THEN row[q].age + 1 ELSE row[q].age
    <2>1. row[q] \in Row BY DEF IInv, TypeOK
    <2>2. l \in NoLease .. LeaseTime
      BY <2>1, TimeAssumption DEF Row, Later, NoLease, Overdue
    <2>3. a \in 0 .. Grace BY <2>1, TimeAssumption DEF Row
    <2>4. row'[q] = [row[q] EXCEPT !.lease = l, !.age = a] BY DEF Tick
    <2> HIDE DEF l, a
    <2> QED BY <2>1, <2>2, <2>3, <2>4 DEF Row
  <1>2. UNCHANGED <<loop, tool, alive>> BY DEF Tick
  <1>3. row' \in [Run -> Row]
    <2>1. row' = [q \in Run |-> row'[q]] BY DEF Tick
    <2> QED BY <1>1, <2>1
  <1> QED BY <1>1, <1>2, <1>3, ManyRowsStep

LEMMA CrashStep ==
  ASSUME IInv, NEW w \in Worker, Crash(w)
  PROVE  IInv'
  <1>1. TypeOK BY DEF IInv
  <1>2. /\ loop' \in [Worker -> [Run -> LoopState]] /\ UNCHANGED <<row, tool>>
        /\ alive' \subseteq Worker
        /\ \A v \in Worker, q \in Run : loop'[v][q] = IF v = w THEN "none" ELSE loop[v][q]
    BY <1>1 DEF Crash, TypeOK, LoopState
  <1>3. TypeOK' BY <1>1, <1>2 DEF TypeOK
  <1>4. OneExecutingRunPerSession' BY <1>2 DEF IInv, OneExecutingRunPerSession
  <1>5. ASSUME NEW q \in Run PROVE RunInv(q)'
    <2>1. RunInv(q) BY DEF IInv
    <2> QED BY <1>2, <2>1 DEF RunInv, ExecutingLoopOwnsRun, Executing,
         OwnerMeansRunning, MonitorNeverParks, ToolHasOwner, OneTool, RetriedIsOrphaned,
         ToolRunning
  <1> QED BY <1>3, <1>4, <1>5 DEF IInv

-----------------------------------------------------------------------------
(* The inductive invariant and what follows from it *)

LEMMA InitInv == Init => IInv
  <1> SUFFICES ASSUME Init PROVE IInv OBVIOUS
  <1>1. \A r \in Run : row[r] = AbsentRow BY DEF Init
  <1>2. TypeOK BY AbsentRowType DEF Init, TypeOK, LoopState, ToolState
  <1>3. OneExecutingRunPerSession BY <1>1, AbsentRowType DEF OneExecutingRunPerSession
  <1>4. ASSUME NEW r \in Run PROVE RunInv(r)
    BY <1>1, AbsentRowType DEF Init, RunInv, ExecutingLoopOwnsRun, Executing,
       OwnerMeansRunning, MonitorNeverParks, ToolHasOwner, OneTool, RetriedIsOrphaned,
       Waiting
  <1> QED BY <1>2, <1>3, <1>4 DEF IInv

LEMMA NextInv == IInv /\ [Next]_vars => IInv'
  <1> SUFFICES ASSUME IInv, [Next]_vars PROVE IInv' OBVIOUS
  <1>1. ASSUME NEW w \in Worker, NEW r \in Run, LoopStep(w, r) PROVE IInv'
    <2>1. CASE AcquireLease(w, r) BY <2>1, AcquireLeaseStep
    <2>2. CASE RenewLease(w, r) BY <2>2, RenewLeaseStep
    <2>3. CASE HandOff(w, r) BY <2>3, HandOffStep
    <2>4. CASE FallbackRelease(w, r) BY <2>4, FallbackReleaseStep
    <2>5. CASE \E f \in ReleaseStatus \cup {"none"}, why \in {"other", "handoff"} :
                 ReleaseLease(w, r, f, why)
      BY <2>5, ReleaseLeaseStep
    <2>6. CASE MarkRunning(w, r) BY <2>6, MarkRunningStep
    <2>7. CASE AbortLoop(w, r) BY <2>7, AbortLoopStep
    <2>8. CASE FailForWallClock(w, r) BY <2>8, FailForWallClockStep
    <2>9. CASE \E k \in Waiting : RequestInteraction(w, r, k)
      BY <2>9, RequestInteractionStep
    <2>10. CASE \E s \in Terminal : Finish(w, r, s) BY <2>10, FinishStep
    <2>11. CASE ToolStart(w, r) \/ ToolInvoke(w, r) \/ ToolComplete(w, r)
      BY <2>11, ToolStep
    <2> QED BY <1>1, <2>1, <2>2, <2>3, <2>4, <2>5, <2>6, <2>7, <2>8, <2>9, <2>10, <2>11
           DEF LoopStep
  <1>2. ASSUME StoreStep PROVE IInv'
    <2>1. ASSUME NEW r \in Run,
                 \/ Enqueue(r) \/ UpsertPending(r) \/ ResumeClaim(r)
                 \/ ResumeActivate(r) \/ ResumeRollback(r)
                 \/ CancelRun(r) \/ CancelStaleApproval(r)
          PROVE  IInv'
      BY <2>1, EnqueueStep, UpsertPendingStep, ResumeClaimStep, ResumeActivateStep,
         ResumeRollbackStep, CancelRunStep, CancelStaleApprovalStep
    <2> QED BY <1>2, <2>1, RetryOrphanedStep, CancelTenantStep, ReapStep DEF StoreStep
  <1>3. ASSUME UNCHANGED vars PROVE IInv'
    BY <1>3 DEF IInv, vars, TypeOK, OneExecutingRunPerSession, RunInv,
       ExecutingLoopOwnsRun, Executing, OwnerMeansRunning, MonitorNeverParks,
       ToolHasOwner, OneTool, RetriedIsOrphaned, ToolRunning
  <1> QED BY <1>1, <1>2, <1>3, CrashStep, TickStep DEF Next

\* The inductive invariant holds in every reachable state of the lease protocol.
THEOREM LeaseInvariant == Spec => []IInv
  BY InitInv, NextInv, PTL DEF Spec

\* Every row the store writes is well formed.
THEOREM TypeCorrect == Spec => []TypeOK
  <1>1. IInv => TypeOK BY DEF IInv
  <1> QED BY <1>1, LeaseInvariant, PTL

\* A session never executes two runs, for any number of runs, sessions and processes,
\* although the session gate is checked only when a lease is acquired.
THEOREM SessionExclusion == Spec => []OneExecutingRunPerSession
  <1>1. IInv => OneExecutingRunPerSession BY DEF IInv
  <1> QED BY <1>1, LeaseInvariant, PTL

\* Two processes are never both inside a side effect of one run.
THEOREM ToolExclusion == Spec => []ExclusiveToolExecution
  <1>1. IInv => ExclusiveToolExecution
    BY DEF IInv, RunInv, OneTool, ExclusiveToolExecution
  <1> QED BY <1>1, LeaseInvariant, PTL

\* A run that was handed over has no owner and no invocation until the next lease.
THEOREM HandoverSafe == Spec => []HandedOverRunIsReplayable
  <1>1. IInv => HandedOverRunIsReplayable
    BY WorkerAssumption DEF IInv, RunInv, OwnerMeansRunning, ToolHasOwner,
       HandedOverRunIsReplayable, ToolRunning
  <1> QED BY <1>1, LeaseInvariant, PTL

\* A retried run has no tool invocation that could still act.
THEOREM RetrySafe == Spec => []RetriedRunIsQuiet
  <1>1. IInv => RetriedRunIsQuiet
    BY DEF IInv, RunInv, RetriedIsOrphaned, RetriedRunIsQuiet
  <1> QED BY <1>1, LeaseInvariant, PTL

-----------------------------------------------------------------------------
(* What a step does to the statuses: the refinement and the finality of verdicts *)

ActiveStatus == {"pending", "running"} \cup Waiting

StatusMoved(r, from, to) ==
  /\ row[r].status \in from /\ row'[r].status \in to
  /\ \A q \in Run : q # r => row'[q].status = row[q].status

Decided(S, v) ==
  \A q \in Run : IF q \in S THEN row[q].status \in ActiveStatus /\ row'[q].status = v
                            ELSE row'[q].status = row[q].status

StatusChange ==
  \/ \A q \in Run : row'[q].status = row[q].status
  \/ \E r \in Run : \/ StatusMoved(r, {"absent"}, {"pending"})
                    \/ StatusMoved(r, {"pending"}, {"running"}) /\ BlockersCleared(r)
                    \/ StatusMoved(r, {"running"}, Waiting)
                    \/ StatusMoved(r, Waiting, {"pending"})
                    \/ StatusMoved(r, {"pending"}, Waiting)
  \/ \E S \in SUBSET Run, v \in Terminal : Decided(S, v)

LEMMA OneStatus ==
  ASSUME TypeOK, NEW r \in Run, NEW x \in Row, SetRow(r, x)
  PROVE  /\ row'[r].status = x.status
         /\ \A q \in Run : q # r => row'[q].status = row[q].status
  BY RowWrite

LEMMA OneDecided ==
  ASSUME TypeOK, NEW r \in Run, NEW x \in Row, SetRow(r, x),
         row[r].status \in ActiveStatus, x.status \in Terminal
  PROVE  StatusChange
  <1>1. Decided({r}, x.status) BY OneStatus DEF Decided
  <1> QED BY <1>1 DEF StatusChange

LEMMA MarkedStatus ==
  ASSUME IInv, NEW r \in Run, NEW s \in Terminal, IsActive(r), SetRow(r, Marked(r, s))
  PROVE  StatusChange
  <1>1. TypeOK BY DEF IInv
  <1>2. Marked(r, s) \in Row /\ Marked(r, s).status = s BY <1>1, MarkedType, Literals
  <1>3. row[r].status \in ActiveStatus BY DEF IsActive, ActiveStatus
  <1> HIDE DEF Marked
  <1> QED BY <1>1, <1>2, <1>3, OneDecided

LEMMA ProducerStatus ==
  ASSUME IInv, NEW r \in Run,
         \/ Enqueue(r) \/ UpsertPending(r) \/ ResumeClaim(r)
         \/ ResumeActivate(r) \/ ResumeRollback(r)
  PROVE  StatusChange
  <1>1. TypeOK /\ row[r] \in Row BY DEF IInv, TypeOK
  <1>2. CASE Enqueue(r)
    <2> DEFINE x == [AbsentRow EXCEPT !.status = "pending", !.live = "active"]
    <2>1. x \in Row /\ x.status = "pending" BY AbsentRowType, Literals DEF Row
    <2>2. SetRow(r, x) /\ row[r].status = "absent" BY <1>2 DEF Enqueue
    <2> HIDE DEF x
    <2> QED BY <1>1, <2>1, <2>2, OneStatus DEF StatusChange, StatusMoved
  <1>3. CASE UpsertPending(r)
    <2> DEFINE x == Put(row[r], "pending", NoWorker, NoLease, "active", "other")
    <2>1. x \in Row /\ x.status = "pending" BY <1>1, ConstantTypes, PutType, Literals
    <2>2. SetRow(r, x) /\ row[r].status \in Waiting BY <1>3 DEF UpsertPending
    <2> HIDE DEF x
    <2> QED BY <1>1, <2>1, <2>2, OneStatus DEF StatusChange, StatusMoved
  <1>4. CASE ResumeClaim(r)
    <2> DEFINE v == LiveAfter(r, "active")
               y == Put(row[r], "pending", NoWorker, NoLease, v, "other")
               x == [y EXCEPT !.staged = row[r].status]
    <2>1. SetRow(r, x) /\ row[r].status \in Waiting BY <1>4 DEF ResumeClaim
    <2>2. v \in Live BY DEF LiveAfter, Live
    <2> HIDE DEF v
    <2>3. y \in Row /\ y.status = "pending"
      BY <1>1, <2>2, ConstantTypes, PutType, Literals
    <2> HIDE DEF y
    <2>4. x \in Row /\ x.status = "pending" BY <2>1, <2>3 DEF Row
    <2> HIDE DEF x
    <2> QED BY <1>1, <2>1, <2>4, OneStatus DEF StatusChange, StatusMoved
  <1>5. CASE ResumeActivate(r)
    <2> DEFINE x == [row[r] EXCEPT !.staged = "no"]
    <2>1. SetRow(r, x) BY <1>5 DEF ResumeActivate
    <2>2. x \in Row /\ x.status = row[r].status BY <1>1 DEF Row
    <2> HIDE DEF x
    <2> QED BY <1>1, <2>1, <2>2, OneStatus DEF StatusChange
  <1>6. CASE ResumeRollback(r)
    <2> DEFINE v == LiveAfter(r, "waiting_interaction")
               y == Put(row[r], row[r].staged, NoWorker, NoLease, v, "other")
               x == [y EXCEPT !.staged = "no"]
    <2>1. SetRow(r, x) /\ row[r].status = "pending" /\ row[r].staged # "no"
      BY <1>6 DEF ResumeRollback
    <2>2. v \in Live BY DEF LiveAfter, Live
    <2>3. row[r].staged \in Waiting /\ row[r].staged \in Status
      BY <1>1, <2>1 DEF Row, Status
    <2> HIDE DEF v
    <2>4. y \in Row /\ y.status \in Waiting
      BY <1>1, <2>2, <2>3, ConstantTypes, PutType, Literals
    <2> HIDE DEF y
    <2>5. x \in Row /\ x.status \in Waiting BY <2>4 DEF Row
    <2> HIDE DEF x
    <2> QED BY <1>1, <2>1, <2>5, OneStatus DEF StatusChange, StatusMoved
  <1> QED BY <1>2, <1>3, <1>4, <1>5, <1>6

LEMMA RetryStatus ==
  ASSUME IInv, NEW r \in Run, NEW q \in Run, RetryOrphaned(r, q)
  PROVE  StatusChange
  <1> DEFINE x == [row[r] EXCEPT !.retried = TRUE]
             y == Put(row[r], "pending", NoWorker, NoLease, "active", "other")
  <1>1. row[r] \in Row /\ row \in [Run -> Row] BY DEF IInv, TypeOK
  <1>2. /\ row[r].status = "orphaned" /\ row[q].status = "absent"
        /\ row' = [row EXCEPT ![r] = x, ![q] = y]
    BY DEF RetryOrphaned
  <1>3. y.status = "pending" BY <1>1, ConstantTypes, PutType, Literals
  <1>4. x.status = row[r].status BY <1>1 DEF Row
  <1> HIDE DEF x, y
  <1>5. StatusMoved(q, {"absent"}, {"pending"}) BY <1>1, <1>2, <1>3, <1>4 DEF StatusMoved
  <1> QED BY <1>5 DEF StatusChange

LEMMA ReleaseStatusStep ==
  ASSUME IInv, NEW w \in Worker, NEW r \in Run, OwnedBy(w, r),
         NEW f \in (ReleaseStatus \cup {"none"}), NEW why \in Reason,
         SetRow(r, Released(r, f, why))
  PROVE  StatusChange
  <1>1. TypeOK /\ row[r] \in Row /\ RunInv(r) BY DEF IInv, TypeOK
  <1> DEFINE x == Released(r, f, why)
  <1>2. f \in Status \cup {"none"} BY ReleaseAssumption DEF Status, Waiting, Terminal
  <1>3. /\ x \in Row
        /\ x.status = IF row[r].status \in Terminal \/ f = "none" THEN row[r].status ELSE f
    BY <1>1, <1>2, ReleasedType
  <1>4. SetRow(r, x) OBVIOUS
  <1> HIDE DEF x
  <1>5. row[r].status \in {"running"} \cup Terminal
    BY <1>1, WorkerAssumption DEF RunInv, OwnerMeansRunning, OwnedBy
  <1>6. CASE x.status = row[r].status
    BY <1>1, <1>3, <1>4, <1>6, OneStatus DEF StatusChange
  <1>7. CASE row[r].status = "running" /\ x.status = f /\ f \in Waiting
    BY <1>1, <1>3, <1>4, <1>7, OneStatus DEF StatusChange, StatusMoved
  <1>8. CASE row[r].status = "running" /\ x.status = f /\ f = "failed"
    BY <1>1, <1>3, <1>4, <1>8, OneDecided DEF ActiveStatus, Terminal
  <1> QED BY <1>3, <1>5, <1>6, <1>7, <1>8, ReleaseAssumption DEF Waiting

LEMMA LeaseStatus ==
  ASSUME IInv, NEW w \in Worker, NEW r \in Run,
         AcquireLease(w, r) \/ RenewLease(w, r) \/ HandOff(w, r) \/ MarkRunning(w, r)
  PROVE  StatusChange
  <1>1. TypeOK /\ row[r] \in Row /\ RunInv(r) BY DEF IInv, TypeOK
  <1>2. CASE AcquireLease(w, r)
    <2> DEFINE y == Put(row[r], "running", w, LeaseTime, "busy", "other")
               x == [y EXCEPT !.tokenBy = w, !.ready = FALSE]
    <2>1. SetRow(r, x) /\ Acquirable(r) BY <1>2 DEF AcquireLease
    <2>2. y \in Row /\ y.status = "running"
      BY <1>1, ConstantTypes, PutType, Literals
    <2> HIDE DEF y
    <2>3. x \in Row /\ x.status = "running" BY <2>2 DEF Row
    <2> HIDE DEF x
    <2>4. row[r].status \in {"pending", "running"} /\ BlockersCleared(r)
      BY <2>1 DEF Acquirable, RecoverableHandoff
    <2> QED BY <1>1, <2>1, <2>3, <2>4, OneStatus DEF StatusChange, StatusMoved
  <1>3. CASE RenewLease(w, r)
    <2> QED BY <1>1, <1>3 DEF RenewLease, SetRow, StatusChange, TypeOK, Row
  <1>4. CASE HandOff(w, r)
    <2>1. CASE HandoffAllowed(w, r)
      <3> DEFINE y == Put(row[r], "running", NoWorker, NoLease, "none", "other")
                 x == [y EXCEPT !.ready = TRUE]
      <3>1. SetRow(r, x) /\ row[r].status = "running"
        BY <1>4, <2>1 DEF HandOff, HandoffAllowed
      <3>2. y \in Row /\ y.status = "running"
        BY <1>1, ConstantTypes, PutType, Literals
      <3> HIDE DEF y
      <3>3. x \in Row /\ x.status = "running" BY <3>2 DEF Row
      <3> HIDE DEF x
      <3> QED BY <1>1, <3>1, <3>3, OneStatus DEF StatusChange
    <2>2. CASE ~HandoffAllowed(w, r) BY <1>4, <2>2 DEF HandOff, StatusChange
    <2> QED BY <2>1, <2>2
  <1>5. CASE MarkRunning(w, r)
    <2>1. row[r].status \in {"running"} \cup Terminal
      BY <1>1, <1>5 DEF RunInv, ExecutingLoopOwnsRun, Executing, MarkRunning
    <2>2. CASE row[r].status \in Terminal BY <1>5, <2>2 DEF MarkRunning, StatusChange
    <2>3. CASE row[r].status \notin Terminal
      <3>1. Marked(r, "running") \in Row /\ Marked(r, "running").status = "running"
        BY <1>1, MarkedType, Literals
      <3>2. SetRow(r, Marked(r, "running")) BY <1>5, <2>3 DEF MarkRunning
      <3> QED BY <1>1, <2>1, <2>3, <3>1, <3>2, OneStatus DEF StatusChange
    <2> QED BY <2>2, <2>3
  <1> QED BY <1>2, <1>3, <1>4, <1>5

LEMMA LoopVerdictStatus ==
  ASSUME IInv, NEW w \in Worker, NEW r \in Run,
         \/ \E k \in Waiting : RequestInteraction(w, r, k)
         \/ \E s \in Terminal : Finish(w, r, s)
         \/ FailForWallClock(w, r)
  PROVE  StatusChange
  <1>1. TypeOK /\ row[r] \in Row /\ RunInv(r) BY DEF IInv, TypeOK
  <1>2. ASSUME NEW k \in Waiting, RequestInteraction(w, r, k) PROVE StatusChange
    <2>1. row[r].status \in {"running"} \cup Terminal
      BY <1>1, <1>2 DEF RunInv, ExecutingLoopOwnsRun, Executing, RequestInteraction
    <2>2. CASE row[r].status \in Terminal
      BY <1>2, <2>2 DEF RequestInteraction, StatusChange
    <2>3. CASE row[r].status \notin Terminal
      <3>1. Marked(r, k) \in Row /\ Marked(r, k).status = k
        BY <1>1, MarkedType, Literals
      <3>2. SetRow(r, Marked(r, k)) BY <1>2, <2>3 DEF RequestInteraction
      <3> QED BY <1>1, <2>1, <2>3, <3>1, <3>2, OneStatus DEF StatusChange, StatusMoved
    <2> QED BY <2>2, <2>3
  <1>3. ASSUME NEW s \in Terminal, Finish(w, r, s) PROVE StatusChange
    <2>1. CASE IsActive(r) BY <1>3, <2>1, MarkedStatus DEF Finish
    <2>2. CASE ~IsActive(r) BY <1>3, <2>2 DEF Finish, StatusChange
    <2> QED BY <2>1, <2>2
  <1>4. CASE FailForWallClock(w, r)
    BY <1>4, MarkedStatus DEF FailForWallClock, IsActive, Terminal
  <1> QED BY <1>2, <1>3, <1>4

LEMMA OutsideVerdictStatus ==
  ASSUME IInv,
         \/ \E r \in Run : CancelRun(r) \/ CancelStaleApproval(r)
         \/ CancelTenant
         \/ \E S \in SUBSET Run : Reap(S)
  PROVE  StatusChange
  <1>1. TypeOK /\ \A q \in Run : row[q] \in Row BY DEF IInv, TypeOK
  <1>2. ASSUME NEW r \in Run, CancelRun(r) PROVE StatusChange
    BY <1>2, MarkedStatus DEF CancelRun, Terminal
  <1>3. ASSUME NEW r \in Run, CancelStaleApproval(r) PROVE StatusChange
    <2> DEFINE x == [row[r] EXCEPT !.status = "cancelled", !.worker = NoWorker,
                                   !.lease = NoLease]
    <2>1. SetRow(r, x) /\ row[r].status = "waiting_approval"
      BY <1>3 DEF CancelStaleApproval
    <2>2. "cancelled" \in Status /\ NoLease \in NoLease .. LeaseTime
      BY ConstantTypes DEF Status, Terminal, LeaseLeft
    <2>3. x \in Row /\ x.status = "cancelled" BY <1>1, <2>2 DEF Row
    <2> HIDE DEF x
    <2> QED BY <1>1, <2>1, <2>3, OneDecided DEF ActiveStatus, Waiting, Terminal
  <1>4. CASE CancelTenant
    <2> DEFINE S == {q \in Run : IsActive(q)}
    <2>1. ASSUME NEW q \in Run PROVE [row[q] EXCEPT !.status = "cancelled"].status = "cancelled"
      BY <1>1 DEF Row
    <2>2. \A q \in Run : row'[q] = IF IsActive(q) THEN [row[q] EXCEPT !.status = "cancelled"]
                                                  ELSE row[q]
      BY <1>4 DEF CancelTenant
    <2>3. Decided(S, "cancelled") BY <2>1, <2>2 DEF Decided, IsActive, ActiveStatus
    <2> HIDE DEF S
    <2>4. S \in SUBSET Run BY DEF S
    <2>5. "cancelled" \in Terminal BY DEF Terminal
    <2> QED BY <2>3, <2>4, <2>5 DEF StatusChange
  <1>5. ASSUME NEW S \in SUBSET Run, Reap(S) PROVE StatusChange
    <2> DEFINE D == {q \in S : Reaped(q).status = "orphaned"}
    <2>1. \A q \in S : row[q].status = "running"
      BY <1>5 DEF Reap, ReapOrphan, ReapStale
    <2>2. \A q \in Run : row'[q] = IF q \in S THEN Reaped(q) ELSE row[q]
      BY <1>5 DEF Reap
    <2>3. \A q \in S : Reaped(q).status \in {"orphaned", "running"}
      BY <1>1, <2>1, ReapedType
    <2>4. Decided(D, "orphaned") BY <2>1, <2>2, <2>3 DEF Decided, ActiveStatus
    <2>5. D \in SUBSET Run OBVIOUS
    <2> HIDE DEF D
    <2>6. "orphaned" \in Terminal BY DEF Terminal
    <2> QED BY <2>4, <2>5, <2>6 DEF StatusChange
  <1> QED BY <1>2, <1>3, <1>4, <1>5

LEMMA StatusStep == IInv /\ [Next]_vars => StatusChange
  <1> SUFFICES ASSUME IInv, [Next]_vars PROVE StatusChange OBVIOUS
  <1>1. ASSUME NEW w \in Worker, NEW r \in Run, LoopStep(w, r) PROVE StatusChange
    <2>1. CASE AcquireLease(w, r) \/ RenewLease(w, r) \/ HandOff(w, r) \/ MarkRunning(w, r)
      BY <2>1, LeaseStatus
    <2>2. CASE FallbackRelease(w, r)
      BY <2>2, ReleaseStatusStep, Literals DEF FallbackRelease, StatusChange
    <2>3. ASSUME NEW f \in ReleaseStatus \cup {"none"}, NEW why \in {"other", "handoff"},
                 ReleaseLease(w, r, f, why)
          PROVE  StatusChange
      BY <2>3, ReleaseStatusStep, Literals DEF ReleaseLease, FencedBy, StatusChange
    <2>4. CASE \/ \E k \in Waiting : RequestInteraction(w, r, k)
               \/ \E s \in Terminal : Finish(w, r, s)
               \/ FailForWallClock(w, r)
      BY <2>4, LoopVerdictStatus
    <2>5. CASE AbortLoop(w, r) \/ ToolStart(w, r) \/ ToolInvoke(w, r) \/ ToolComplete(w, r)
      BY <2>5 DEF AbortLoop, ToolStart, ToolInvoke, ToolComplete, StatusChange
    <2> QED BY <1>1, <2>1, <2>2, <2>3, <2>4, <2>5 DEF LoopStep
  <1>2. CASE StoreStep
    BY <1>2, ProducerStatus, RetryStatus, OutsideVerdictStatus DEF StoreStep
  <1>3. CASE Tick
    <2>1. ASSUME NEW q \in Run PROVE row'[q].status = row[q].status
      BY <1>3 DEF Tick, IInv, TypeOK, Row
    <2> QED BY <2>1 DEF StatusChange
  <1>4. CASE (\E w \in Worker : Crash(w)) \/ UNCHANGED vars
    BY <1>4 DEF Crash, vars, StatusChange
  <1> QED BY <1>1, <1>2, <1>3, <1>4 DEF Next

\* No writer revises a verdict: terminal statuses are sinks.
THEOREM VerdictsAreFinal == Spec => TerminalIsFinal
  <1>1. IInv /\ [Next]_vars
          => [\A r \in Run : row[r].status \in Terminal => row'[r].status = row[r].status]_vars
    BY StatusStep DEF StatusChange, StatusMoved, Decided, ActiveStatus, Terminal, Waiting
  <1> QED BY <1>1, LeaseInvariant, PTL DEF Spec, TerminalIsFinal

-----------------------------------------------------------------------------
(* Refinement of RunLifecycle *)

LEMMA PhaseOf ==
  /\ Phase("absent") = "absent" /\ Phase("pending") = "queued"
  /\ Phase("running") = "executing" /\ \A s \in Waiting : Phase(s) = "parked"
  /\ \A s \in Terminal : Phase(s) = s
  BY DEF Phase, Waiting, Terminal

LEMMA PhaseInverse ==
  ASSUME NEW s \in Status
  PROVE  /\ Phase(s) = "executing" => s = "running"
         /\ Phase(s) = "queued" => s = "pending"
  BY DEF Phase, Status, Waiting, Terminal

\* Each step of the lease protocol is a step of the run queue or leaves it alone.
LEMMA LifecycleStep ==
  ASSUME IInv, StatusChange
  PROVE  [Lifecycle!Next]_[r \in Run |-> Phase(row[r].status)]
  <1> DEFINE ph == [r \in Run |-> Phase(row[r].status)]
             phN == [r \in Run |-> Phase(row'[r].status)]
  <1>1. \A r \in Run : row[r].status \in Status BY DEF IInv, TypeOK, Row
  <1>2. ASSUME NEW r \in Run, NEW a, NEW b, ph[r] = a, phN[r] = b,
               \A q \in Run : q # r => row'[q].status = row[q].status
        PROVE  ph[r] = a /\ phN = [ph EXCEPT ![r] = b]
    BY <1>2
  <1>3. CASE \A q \in Run : row'[q].status = row[q].status
    BY <1>3
  <1>4. ASSUME NEW r \in Run, StatusMoved(r, {"absent"}, {"pending"})
        PROVE  Lifecycle!Next
    <2>1. Lifecycle!Submit(r)
      BY <1>2, <1>4, PhaseOf DEF StatusMoved, Lifecycle!Submit, Lifecycle!Enter
    <2> QED BY <2>1 DEF Lifecycle!Next
  <1>5. ASSUME NEW r \in Run, StatusMoved(r, {"pending"}, {"running"}), BlockersCleared(r)
        PROVE  Lifecycle!Next
    <2>1. \A q \in Run \ {r} : SessionOf[q] = SessionOf[r] =>
             /\ ph[q] # "executing"
             /\ ph[q] = "queued" => r < q
      BY <1>1, <1>5, PhaseInverse DEF BlockersCleared, StatusMoved
    <2>2. Lifecycle!Start(r)
      BY <1>2, <1>5, <2>1, PhaseOf DEF StatusMoved, Lifecycle!Start, Lifecycle!Enter
    <2> QED BY <2>2 DEF Lifecycle!Next
  <1>6. ASSUME NEW r \in Run, StatusMoved(r, {"running"}, Waiting)
        PROVE  Lifecycle!Next
    <2>1. Lifecycle!Park(r)
      BY <1>2, <1>6, PhaseOf DEF StatusMoved, Lifecycle!Park, Lifecycle!Enter
    <2> QED BY <2>1 DEF Lifecycle!Next
  <1>7. ASSUME NEW r \in Run, StatusMoved(r, Waiting, {"pending"})
        PROVE  Lifecycle!Next
    <2>1. Lifecycle!Resume(r)
      BY <1>2, <1>7, PhaseOf DEF StatusMoved, Lifecycle!Resume, Lifecycle!Enter
    <2> QED BY <2>1 DEF Lifecycle!Next
  <1>8. ASSUME NEW r \in Run, StatusMoved(r, {"pending"}, Waiting)
        PROVE  Lifecycle!Next
    <2>1. Lifecycle!Revert(r)
      BY <1>2, <1>8, PhaseOf DEF StatusMoved, Lifecycle!Revert, Lifecycle!Enter
    <2> QED BY <2>1 DEF Lifecycle!Next
  <1>9. ASSUME NEW S \in SUBSET Run, NEW v \in Terminal, Decided(S, v)
        PROVE  Lifecycle!Next
    <2>1. \A r \in S : ph[r] \in {"queued", "executing", "parked"}
      BY <1>9, PhaseOf DEF Decided, ActiveStatus
    <2>2. phN = [r \in Run |-> IF r \in S THEN v ELSE ph[r]]
      BY <1>9, PhaseOf DEF Decided
    <2>3. Lifecycle!Conclude(S, v)
      BY <2>1, <2>2 DEF Lifecycle!Conclude, Lifecycle!Active
    <2>4. v \in Lifecycle!Verdict BY DEF Terminal, Lifecycle!Verdict
    <2> QED BY <2>3, <2>4 DEF Lifecycle!Next
  <1> QED BY <1>3, <1>4, <1>5, <1>6, <1>7, <1>8, <1>9 DEF StatusChange

\* The lease protocol implements the run queue its clients see.
THEOREM LeaseImplementsLifecycle == Spec => ImplementsLifecycle
  <1>1. Init => Lifecycle!Init
    BY AbsentRowType, PhaseOf DEF Init, Lifecycle!Init
  <1>2. IInv /\ [Next]_vars => [Lifecycle!Next]_[r \in Run |-> Phase(row[r].status)]
    BY StatusStep, LifecycleStep
  <1> QED BY <1>1, <1>2, LeaseInvariant, PTL DEF Spec, ImplementsLifecycle, Lifecycle!Spec

=============================================================================
