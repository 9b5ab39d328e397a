-------------------------- MODULE SessionLockProofs --------------------------
(***************************************************************************)
(* Safety of SessionLock for any number of dispatches in either mode, any  *)
(* lease time and any number of failures.                                  *)
(***************************************************************************)
EXTENDS SessionLock, TLAPS

\* The statements of tryAcquire belong to the mode of the process.
ModeOfPlace(p) ==
  /\ proc[p].at \in {"advisory", "unlocking"} => p \in Dual
  /\ proc[p].at = "asking" => p \notin Dual

\* The guard is held by the one statement that obtained it.
GuardHeld(p) == proc[p].at = "guarded" <=> guard = p

\* From pg_try_advisory_lock to the end of the dispatch the session-level lock is held,
\* unless its connection broke.
AdvisoryHeld(p) ==
  p \in Dual => /\ proc[p].at \in {"advisory", "guarded"} => advisory = p
                /\ Active(p) => advisory = p \/ proc[p].cut

\* The timer of a handle, and the expiry that a renewal on its way will set it to, are
\* backed by a row of the handle's own token.
HandleBacked(p) ==
  proc[p].at = "holding" =>
    /\ proc[p].left > 0 => Lease(p).owner = p /\ Lease(p).left >= proc[p].left
    /\ proc[p].renewed > 0 => Lease(p).owner = p /\ Lease(p).left >= proc[p].renewed

\* While the INSERT of mode dual is on its way no row of either table is valid.
GuardedIsFree(p) ==
  p \in Dual /\ proc[p].at = "guarded" => legacy.left = 0 /\ tenant.left = 0

ProcInv(p) ==
  /\ ModeOfPlace(p)
  /\ GuardHeld(p)
  /\ AdvisoryHeld(p)
  /\ HandleBacked(p)
  /\ GuardedIsFree(p)

IInv == TypeOK /\ \A p \in Process : ProcInv(p)

-----------------------------------------------------------------------------
(* What a step writes *)

Place == {"idle", "advisory", "asking", "guarded", "holding", "lost", "unlocking"}

LEMMA IdleType == Idle \in Proc
  BY TimeAssumption DEF Idle, Proc

\* A dispatch in a new place has nothing yet.
LEMMA FreshType ==
  ASSUME NEW a \in Place
  PROVE  /\ [Idle EXCEPT !.at = a] \in Proc
         /\ [Idle EXCEPT !.at = a].at = a
         /\ [Idle EXCEPT !.at = a].left = 0
         /\ [Idle EXCEPT !.at = a].renewed = 0
         /\ [Idle EXCEPT !.at = a].cut = FALSE
  <1>1. Idle.left = 0 /\ Idle.renewed = 0 /\ Idle.cut = FALSE BY DEF Idle
  <1> QED BY <1>1, IdleType DEF Proc, Place

\* A call that ends without a handle holds neither the guard nor a lease.
LEMMA WithoutType ==
  ASSUME NEW p \in Process
  PROVE  /\ Without(p) \in Proc
         /\ Without(p).at = IF p \in Dual THEN "unlocking" ELSE "idle"
  <1>1. Idle.at = "idle" BY DEF Idle
  <1> QED BY <1>1, IdleType, FreshType DEF Without, Place

\* A change of one dispatch leaves the others alone.
LEMMA BecomeType ==
  ASSUME proc \in [Process -> Proc], NEW p \in Process, NEW state \in Proc,
         Become(p, state)
  PROVE  /\ proc' \in [Process -> Proc]
         /\ proc'[p] = state
         /\ \A q \in Process : q # p => proc'[q] = proc[q]
  BY DEF Become

\* A lease of one mode is written, that of the other is not.
LEMMA SetLeaseType ==
  ASSUME TypeOK, NEW p \in Process, NEW row \in Row, SetLease(p, row)
  PROVE  /\ legacy' \in Row /\ tenant' \in Row
         /\ Lease(p)' = row
         /\ p \in Dual => tenant' = tenant
         /\ p \notin Dual => legacy' = legacy
  BY DEF SetLease, Lease, TypeOK

LEMMA FaultType ==
  ASSUME TypeOK, Fault
  PROVE  faults' \in 0 .. MaxFaults
  BY TimeAssumption DEF TypeOK, Fault

\* What a step of p owes the other dispatches: their guard and their advisory lock stay
\* theirs, a valid row of their token is not touched, and no row becomes valid while an
\* INSERT of theirs is on its way.
Spares(p, q) ==
  /\ proc'[q] = proc[q]
  /\ guard' = q <=> guard = q
  /\ advisory = q => advisory' = q
  /\ Owns(q) => Lease(q)' = Lease(q)
  /\ guard = q /\ q \in Dual /\ legacy.left = 0 /\ tenant.left = 0
       => legacy'.left = 0 /\ tenant'.left = 0

LEMMA SparedKeepsInv ==
  ASSUME IInv, NEW p \in Process, NEW q \in Process, Spares(p, q)
  PROVE  ProcInv(q)'
  <1>1. ProcInv(q) /\ TypeOK BY DEF IInv
  <1>2. ModeOfPlace(q)' BY <1>1 DEF ProcInv, ModeOfPlace, Spares
  <1>3. GuardHeld(q)' BY <1>1 DEF ProcInv, GuardHeld, Spares
  <1>4. AdvisoryHeld(q)' BY <1>1 DEF ProcInv, AdvisoryHeld, Spares, Active
  <1>5. HandleBacked(q)'
    <2>1. proc[q] \in Proc /\ Lease(q) \in Row BY <1>1 DEF TypeOK, Lease
    <2>2. Owns(q) => Lease(q)' = Lease(q) BY DEF Spares
    <2> QED BY <1>1, <2>1, <2>2 DEF ProcInv, HandleBacked, Spares, Owns, Proc, Row
  <1>6. GuardedIsFree(q)' BY <1>1 DEF ProcInv, GuardedIsFree, GuardHeld, Spares
  <1> QED BY <1>2, <1>3, <1>4, <1>5, <1>6 DEF ProcInv

\* An inductive step for one dispatch: its own part, and that the others are spared.
LEMMA OneMoves ==
  ASSUME IInv, NEW p \in Process, TypeOK', ProcInv(p)',
         \A q \in Process : q # p => Spares(p, q)
  PROVE  IInv'
  BY SparedKeepsInv DEF IInv

-----------------------------------------------------------------------------
(* tryAcquire *)

LEMMA InitInv == Init => IInv
  BY IdleType, ProcessAssumption, TimeAssumption
     DEF Init, IInv, TypeOK, Row, ProcInv, ModeOfPlace, GuardHeld, AdvisoryHeld,
         HandleBacked, GuardedIsFree, Active, Idle

LEMMA TryAdvisoryInv ==
  ASSUME IInv, NEW p \in Process, TryAdvisory(p)
  PROVE  IInv'
  <1> DEFINE new == [Idle EXCEPT !.at = "advisory"]
  <1>1. new \in Proc /\ new.at = "advisory" BY FreshType DEF Place
  <1>2. TypeOK /\ ProcInv(p) BY DEF IInv
  <1>3. /\ proc' \in [Process -> Proc] /\ proc'[p] = new
        /\ \A q \in Process : q # p => proc'[q] = proc[q]
    BY <1>1, <1>2, BecomeType DEF TryAdvisory, TypeOK
  <1>4. TypeOK' BY <1>2, <1>3 DEF TypeOK, TryAdvisory
  <1>5. ProcInv(p)'
    BY <1>1, <1>2, <1>3 DEF TryAdvisory, ProcInv, ModeOfPlace, GuardHeld, AdvisoryHeld,
         HandleBacked, GuardedIsFree, Active
  <1>6. ASSUME NEW q \in Process, q # p PROVE Spares(p, q)
    BY <1>3, <1>6, ProcessAssumption DEF TryAdvisory, Spares, Lease
  <1> QED BY <1>4, <1>5, <1>6, OneMoves

LEMMA InsertLegacyInv ==
  ASSUME IInv, NEW p \in Process, InsertLegacy(p)
  PROVE  IInv'
  <1>1. TypeOK /\ ProcInv(p) BY DEF IInv
  <1>2. p \in Dual /\ advisory = p
    BY <1>1 DEF ProcInv, ModeOfPlace, AdvisoryHeld, InsertLegacy
  <1>3. CASE GuardTrigger /\ legacy.left = 0
    <2> DEFINE new == [Idle EXCEPT !.at = "guarded"]
    <2>1. new \in Proc /\ new.at = "guarded" BY FreshType DEF Place
    <2>2. /\ proc' \in [Process -> Proc] /\ proc'[p] = new
          /\ \A q \in Process : q # p => proc'[q] = proc[q]
      BY <1>1, <1>3, <2>1, BecomeType DEF InsertLegacy, TypeOK
    <2>3. TypeOK' BY <1>1, <1>3, <2>2 DEF TypeOK, InsertLegacy
    <2>4. ProcInv(p)'
      BY <1>1, <1>2, <1>3, <2>1, <2>2 DEF InsertLegacy, ProcInv, ModeOfPlace, GuardHeld,
           AdvisoryHeld, HandleBacked, GuardedIsFree, GuardTrigger, Active
    <2>5. ASSUME NEW q \in Process, q # p PROVE Spares(p, q)
      BY <1>3, <2>2, <2>5, ProcessAssumption DEF InsertLegacy, Spares, Lease, GuardTrigger
    <2> QED BY <2>3, <2>4, <2>5, OneMoves
  <1>4. CASE ~(GuardTrigger /\ legacy.left = 0)
    <2>1. Without(p) \in Proc /\ Without(p).at = "unlocking" BY <1>2, WithoutType
    <2>2. /\ proc' \in [Process -> Proc] /\ proc'[p] = Without(p)
          /\ \A q \in Process : q # p => proc'[q] = proc[q]
      BY <1>1, <1>4, <2>1, BecomeType DEF InsertLegacy, TypeOK
    <2>3. TypeOK' BY <1>1, <1>4, <2>2 DEF TypeOK, InsertLegacy
    <2>4. ProcInv(p)'
      BY <1>1, <1>2, <1>4, <2>1, <2>2 DEF InsertLegacy, ProcInv, ModeOfPlace, GuardHeld,
           AdvisoryHeld, HandleBacked, GuardedIsFree, Active
    <2>5. ASSUME NEW q \in Process, q # p PROVE Spares(p, q)
      BY <1>4, <2>2, <2>5 DEF InsertLegacy, Spares, Lease
    <2> QED BY <2>3, <2>4, <2>5, OneMoves
  <1> QED BY <1>3, <1>4

LEMMA BeginInsertInv ==
  ASSUME IInv, NEW p \in Process, BeginInsert(p)
  PROVE  IInv'
  <1> DEFINE new == [Idle EXCEPT !.at = "asking", !.seen = legacy.left]
  <1>1. TypeOK /\ ProcInv(p) BY DEF IInv
  <1>2. new \in Proc /\ new.at = "asking"
    BY <1>1, IdleType DEF TypeOK, Row, Proc
  <1>3. /\ proc' \in [Process -> Proc] /\ proc'[p] = new
        /\ \A q \in Process : q # p => proc'[q] = proc[q]
    BY <1>1, <1>2, BecomeType DEF BeginInsert, TypeOK
  <1>4. TypeOK' BY <1>1, <1>3 DEF TypeOK, BeginInsert
  <1>5. ProcInv(p)'
    BY <1>1, <1>2, <1>3 DEF BeginInsert, ProcInv, ModeOfPlace, GuardHeld, AdvisoryHeld,
         HandleBacked, GuardedIsFree, Active
  <1>6. ASSUME NEW q \in Process, q # p PROVE Spares(p, q)
    BY <1>3, <1>6 DEF BeginInsert, Spares, Lease
  <1> QED BY <1>4, <1>5, <1>6, OneMoves

LEMMA TryGuardInv ==
  ASSUME IInv, NEW p \in Process, TryGuard(p)
  PROVE  IInv'
  <1>1. TypeOK /\ ProcInv(p) BY DEF IInv
  <1>2. p \notin Dual BY <1>1 DEF ProcInv, ModeOfPlace, TryGuard
  <1>3. CASE guard = Nobody
    <2>1. /\ proc' \in [Process -> Proc] /\ proc'[p].at = "guarded"
          /\ \A q \in Process : q # p => proc'[q] = proc[q]
      BY <1>1, <1>3 DEF TryGuard, TypeOK, Proc
    <2>2. TypeOK' BY <1>1, <1>3, <2>1 DEF TypeOK, TryGuard
    <2>3. ProcInv(p)'
      BY <1>1, <1>2, <1>3, <2>1 DEF TryGuard, ProcInv, ModeOfPlace, GuardHeld,
           AdvisoryHeld, HandleBacked, GuardedIsFree, Active
    <2>4. ASSUME NEW q \in Process, q # p PROVE Spares(p, q)
      BY <1>3, <2>1, <2>4, ProcessAssumption DEF TryGuard, Spares, Lease
    <2> QED BY <2>2, <2>3, <2>4, OneMoves
  <1>4. CASE guard # Nobody
    <2>1. /\ proc' \in [Process -> Proc] /\ proc'[p] = Idle
          /\ \A q \in Process : q # p => proc'[q] = proc[q]
      BY <1>1, <1>4, IdleType, BecomeType DEF TryGuard, TypeOK
    <2>2. TypeOK' BY <1>1, <1>4, <2>1 DEF TypeOK, TryGuard
    <2>3. ProcInv(p)'
      BY <1>1, <1>2, <1>4, <2>1 DEF TryGuard, ProcInv, ModeOfPlace, GuardHeld,
           AdvisoryHeld, HandleBacked, GuardedIsFree, Active, Idle
    <2>4. ASSUME NEW q \in Process, q # p PROVE Spares(p, q)
      BY <1>4, <2>1, <2>4 DEF TryGuard, Spares, Lease
    <2> QED BY <2>2, <2>3, <2>4, OneMoves
  <1> QED BY <1>3, <1>4

\* At the commit of an INSERT that is let pass no row of its table is valid, so no other
\* dispatch owns one; and no other INSERT is on its way.
LEMMA CommitSpares ==
  ASSUME IInv, NEW p \in Process, NEW q \in Process, q # p, NEW row \in Row,
         proc[p].at = "guarded", guard' = Nobody, UNCHANGED advisory,
         proc'[q] = proc[q],
         \/ Free(p) /\ SetLease(p, row)
         \/ UNCHANGED <<legacy, tenant>>
  PROVE  Spares(p, q)
  <1>1. TypeOK /\ ProcInv(p) BY DEF IInv
  <1>2. guard = p BY <1>1 DEF ProcInv, GuardHeld
  <1>3. CASE UNCHANGED <<legacy, tenant>>
    BY <1>2, <1>3, ProcessAssumption DEF Spares, Lease
  <1>4. CASE Free(p) /\ SetLease(p, row)
    <2>1. Lease(p).left = 0
      BY <1>1, <1>4 DEF Free, ProcInv, GuardedIsFree, Lease
    <2>2. Owns(q) => Lease(q)' = Lease(q)
      BY <1>4, <2>1 DEF Owns, SetLease, Lease
    <2> QED BY <1>2, <2>2, ProcessAssumption DEF Spares
  <1> QED BY <1>3, <1>4

LEMMA CommitInsertInv ==
  ASSUME IInv, NEW p \in Process, CommitInsert(p)
  PROVE  IInv'
  <1>1. TypeOK /\ ProcInv(p) BY DEF IInv
  <1>2. p \in Dual => advisory = p BY <1>1 DEF ProcInv, AdvisoryHeld, CommitInsert
  <1>3. ASSUME NEW o \in Process \cup {Nobody}
        PROVE  [owner |-> o, left |-> LeaseTime] \in Row
    BY TimeAssumption DEF Row
  <1>4. CASE /\ Free(p)
             /\ SetLease(p, [owner |-> p, left |-> LeaseTime])
             /\ Become(p, [Idle EXCEPT !.at = "holding", !.left = LeaseTime])
             /\ UNCHANGED faults
    <2> DEFINE new == [Idle EXCEPT !.at = "holding", !.left = LeaseTime]
    <2> DEFINE row == [owner |-> p, left |-> LeaseTime]
    <2>1. /\ new \in Proc /\ new.at = "holding" /\ new.left = LeaseTime /\ new.renewed = 0
      <3>1. Idle.renewed = 0 BY DEF Idle
      <3>2. LeaseTime \in 0 .. LeaseTime BY TimeAssumption
      <3> QED BY <3>1, <3>2, IdleType DEF Proc
    <2>2. /\ proc' \in [Process -> Proc] /\ proc'[p] = new
          /\ \A q \in Process : q # p => proc'[q] = proc[q]
      BY <1>1, <1>4, <2>1, BecomeType DEF TypeOK
    <2>3. row \in Row BY <1>3
    <2>4. legacy' \in Row /\ tenant' \in Row /\ Lease(p)' = row
      BY <1>1, <1>4, <2>3, SetLeaseType
    <2>5. TypeOK' BY <1>1, <1>4, <2>2, <2>4 DEF TypeOK, CommitInsert
    <2>6. ProcInv(p)'
      <3>1. HandleBacked(p)' BY <2>1, <2>2, <2>4, TimeAssumption DEF HandleBacked
      <3> QED
        BY <1>1, <1>2, <2>1, <2>2, <3>1, ProcessAssumption DEF CommitInsert, ProcInv,
             ModeOfPlace, GuardHeld, AdvisoryHeld, GuardedIsFree, Active
    <2>7. ASSUME NEW q \in Process, q # p PROVE Spares(p, q)
      BY <1>4, <2>2, <2>3, <2>7, CommitSpares DEF CommitInsert
    <2> QED BY <2>5, <2>6, <2>7, OneMoves
  <1>5. CASE /\ \/ UNCHANGED <<legacy, tenant>>
                \/ Free(p) /\ SetLease(p, [owner |-> Nobody, left |-> LeaseTime])
             /\ Become(p, Without(p))
             /\ faults' \in 0 .. MaxFaults
    <2> DEFINE row == [owner |-> Nobody, left |-> LeaseTime]
    <2>1. /\ Without(p) \in Proc
          /\ Without(p).at = IF p \in Dual THEN "unlocking" ELSE "idle"
      BY WithoutType
    <2>2. /\ proc' \in [Process -> Proc] /\ proc'[p] = Without(p)
          /\ \A q \in Process : q # p => proc'[q] = proc[q]
      BY <1>1, <1>5, <2>1, BecomeType DEF TypeOK
    <2>3. row \in Row BY <1>3
    <2>4. legacy' \in Row /\ tenant' \in Row
      BY <1>1, <1>5, <2>3, SetLeaseType DEF TypeOK
    <2>5. TypeOK' BY <1>1, <1>5, <2>2, <2>4 DEF TypeOK, CommitInsert
    <2>6. ProcInv(p)'
      BY <1>1, <1>2, <2>1, <2>2, ProcessAssumption DEF CommitInsert, ProcInv,
           ModeOfPlace, GuardHeld, AdvisoryHeld, HandleBacked, GuardedIsFree, Active
    <2>7. ASSUME NEW q \in Process, q # p PROVE Spares(p, q)
      BY <1>5, <2>2, <2>3, <2>7, CommitSpares DEF CommitInsert
    <2> QED BY <2>5, <2>6, <2>7, OneMoves
  <1>6. faults \in 0 .. MaxFaults BY <1>1 DEF TypeOK
  <1> QED BY <1>1, <1>4, <1>5, <1>6, FaultType DEF CommitInsert

-----------------------------------------------------------------------------
(* The handle *)

\* A dispatch that holds the session has no INSERT on its way.
LEMMA ActiveNotGuarded ==
  ASSUME IInv, NEW p \in Process, Active(p)
  PROVE  guard # p
  BY DEF IInv, ProcInv, GuardHeld, Active

\* A write to a row of p's own token, or a write that changes no valid row, spares the
\* others.
LEMMA OwnRowSpares ==
  ASSUME IInv, NEW p \in Process, NEW q \in Process, q # p, NEW row \in Row,
         SetLease(p, row), Lease(p).owner = p \/ row = Lease(p),
         guard = q => Lease(p).left > 0 \/ row.left = 0,
         proc'[q] = proc[q], guard' = q <=> guard = q, advisory = q => advisory' = q
  PROVE  Spares(p, q)
  <1>1. TypeOK BY DEF IInv
  <1>2. Owns(q) => Lease(q)' = Lease(q) BY DEF Owns, SetLease, Lease
  <1>3. legacy.left \in Nat /\ tenant.left \in Nat BY <1>1 DEF TypeOK, Row
  <1>4. guard = q /\ q \in Dual /\ legacy.left = 0 /\ tenant.left = 0
          => legacy'.left = 0 /\ tenant'.left = 0
    BY <1>3 DEF SetLease, Lease
  <1> QED BY <1>2, <1>4 DEF Spares

LEMMA RenewInv ==
  ASSUME IInv, NEW p \in Process, Renew(p)
  PROVE  IInv'
  <1>1. TypeOK /\ ProcInv(p) /\ proc[p] \in Proc BY DEF IInv, TypeOK
  <1>2. Active(p) /\ guard # p BY ActiveNotGuarded DEF Renew, Active
  <1>3. CASE Owns(p) /\ (p \in Dual => tenant.left = 0)
    <2> DEFINE row == [owner |-> p, left |-> LeaseTime]
    <2>1. row \in Row /\ LeaseTime \in 0 .. LeaseTime BY TimeAssumption DEF Row
    <2>2. SetLease(p, row) BY <1>3 DEF Renew
    <2>3. legacy' \in Row /\ tenant' \in Row /\ Lease(p)' = row
      BY <1>1, <2>1, <2>2, SetLeaseType
    <2>4. /\ proc' \in [Process -> Proc]
          /\ proc'[p].at = "holding" /\ proc'[p].left = proc[p].left
          /\ proc'[p].cut = proc[p].cut
          /\ \A q \in Process : q # p => proc'[q] = proc[q]
      BY <1>1, <1>3, <2>1 DEF Renew, TypeOK, Proc
    <2>5. TypeOK'
      BY <1>1, <1>3, <2>3, <2>4, FaultType DEF TypeOK, Renew
    <2>6. ProcInv(p)'
      <3>1. /\ proc'[p].left \in 0 .. LeaseTime
            /\ proc'[p].renewed \in 0 .. LeaseTime
        BY <2>4 DEF Proc
      <3>2. HandleBacked(p)' BY <2>3, <3>1, TimeAssumption DEF HandleBacked
      <3> QED
        BY <1>1, <1>2, <2>4, <3>2 DEF Renew, ProcInv, ModeOfPlace, GuardHeld,
             AdvisoryHeld, GuardedIsFree, Active
    <2>7. ASSUME NEW q \in Process, q # p PROVE Spares(p, q)
      <3>1. Lease(p).owner = p /\ Lease(p).left > 0 BY <1>3 DEF Owns
      <3> QED BY <2>1, <2>2, <2>4, <2>7, <3>1, OwnRowSpares DEF Renew
    <2> QED BY <2>5, <2>6, <2>7, OneMoves
  <1>4. CASE ~(Owns(p) /\ (p \in Dual => tenant.left = 0))
    <2>1. /\ proc' \in [Process -> Proc]
          /\ proc'[p] = [proc[p] EXCEPT !.reply = "gone"]
          /\ \A q \in Process : q # p => proc'[q] = proc[q]
      BY <1>1, <1>4 DEF Renew, TypeOK, Proc
    <2>2. /\ proc'[p].at = proc[p].at /\ proc'[p].left = proc[p].left
          /\ proc'[p].renewed = proc[p].renewed /\ proc'[p].cut = proc[p].cut
      BY <1>1, <2>1 DEF Proc
    <2>3. TypeOK' BY <1>1, <1>4, <2>1 DEF TypeOK, Renew
    <2>4. UNCHANGED <<legacy, tenant, advisory, guard>> BY <1>4 DEF Renew
    <2>5. ProcInv(p)'
      BY <1>1, <2>2, <2>4 DEF ProcInv, ModeOfPlace, GuardHeld, AdvisoryHeld,
           HandleBacked, GuardedIsFree, Active, Lease
    <2>6. ASSUME NEW q \in Process, q # p PROVE Spares(p, q)
      BY <2>1, <2>4, <2>6 DEF Spares, Lease
    <2> QED BY <2>3, <2>5, <2>6, OneMoves
  <1> QED BY <1>3, <1>4

LEMMA RenewReplyInv ==
  ASSUME IInv, NEW p \in Process, RenewReply(p)
  PROVE  IInv'
  <1>1. TypeOK /\ ProcInv(p) /\ proc[p] \in Proc BY DEF IInv, TypeOK
  <1>2. guard # p BY ActiveNotGuarded DEF RenewReply
  <1>3. UNCHANGED <<legacy, tenant, advisory, guard, faults>> BY DEF RenewReply
  <1>4. 0 \in 0 .. LeaseTime BY TimeAssumption
  <1>5. /\ proc' \in [Process -> Proc]
        /\ \A q \in Process : q # p => proc'[q] = proc[q]
        /\ proc'[p].cut = proc[p].cut
        /\ \/ /\ proc'[p].at = proc[p].at /\ proc'[p].left = proc[p].renewed
              /\ proc'[p].renewed = 0
           \/ proc'[p].at = "lost"
    BY <1>1, <1>4 DEF RenewReply, TypeOK, Proc
  <1>6. TypeOK' BY <1>1, <1>3, <1>5 DEF TypeOK
  <1>7. ProcInv(p)'
    BY <1>1, <1>2, <1>3, <1>5 DEF RenewReply, ProcInv, ModeOfPlace, GuardHeld,
         AdvisoryHeld, HandleBacked, GuardedIsFree, Active, Lease
  <1>8. ASSUME NEW q \in Process, q # p PROVE Spares(p, q)
    BY <1>3, <1>5, <1>8 DEF Spares, Lease
  <1> QED BY <1>6, <1>7, <1>8, OneMoves

LEMMA ExpireInv ==
  ASSUME IInv, NEW p \in Process, Expire(p)
  PROVE  IInv'
  <1>1. TypeOK /\ ProcInv(p) /\ proc[p] \in Proc BY DEF IInv, TypeOK
  <1>2. guard # p BY ActiveNotGuarded DEF Expire, Active
  <1>3. UNCHANGED <<legacy, tenant, advisory, guard, faults>> BY DEF Expire
  <1>4. /\ proc' \in [Process -> Proc]
        /\ \A q \in Process : q # p => proc'[q] = proc[q]
        /\ proc'[p].cut = proc[p].cut /\ proc'[p].at = "lost"
    BY <1>1 DEF Expire, TypeOK, Proc
  <1>5. TypeOK' BY <1>1, <1>3, <1>4 DEF TypeOK
  <1>6. ProcInv(p)'
    BY <1>1, <1>2, <1>3, <1>4 DEF Expire, ProcInv, ModeOfPlace, GuardHeld,
         AdvisoryHeld, HandleBacked, GuardedIsFree, Active
  <1>7. ASSUME NEW q \in Process, q # p PROVE Spares(p, q)
    BY <1>3, <1>4, <1>7 DEF Spares, Lease
  <1> QED BY <1>5, <1>6, <1>7, OneMoves

\* The DELETE, and the end of a process that leaves its row, make no row valid and
\* change only a row of p's own token.
LEMMA GivenUpRow ==
  ASSUME TypeOK, NEW p \in Process,
         NEW row \in {Dropped(p, Lease(p)), Orphaned(p, Lease(p))}
  PROVE  /\ row \in Row
         /\ Lease(p).owner = p \/ row = Lease(p)
         /\ Lease(p).left > 0 \/ row.left = 0
  <1>1. Lease(p) \in Row /\ 0 \in 0 .. LeaseTime
    BY TimeAssumption DEF TypeOK, Lease
  <1> QED BY <1>1 DEF Row, Dropped, Orphaned

LEMMA ReleaseInv ==
  ASSUME IInv, NEW p \in Process, Release(p)
  PROVE  IInv'
  <1>1. TypeOK /\ ProcInv(p) BY DEF IInv
  <1>2. guard # p BY ActiveNotGuarded DEF Release
  <1>3. PICK row \in {Dropped(p, Lease(p)), Orphaned(p, Lease(p))} : SetLease(p, row)
    BY DEF Release
  <1>4. /\ row \in Row
        /\ Lease(p).owner = p \/ row = Lease(p)
        /\ Lease(p).left > 0 \/ row.left = 0
    BY <1>1, GivenUpRow
  <1>5. legacy' \in Row /\ tenant' \in Row BY <1>1, <1>3, <1>4, SetLeaseType
  <1>6. /\ Without(p) \in Proc
        /\ Without(p).at = IF p \in Dual THEN "unlocking" ELSE "idle"
    BY WithoutType
  <1>7. /\ proc' \in [Process -> Proc] /\ proc'[p] = Without(p)
        /\ \A q \in Process : q # p => proc'[q] = proc[q]
    BY <1>1, <1>6, BecomeType DEF TypeOK, Release
  <1>8. TypeOK' BY <1>1, <1>5, <1>7, FaultType DEF TypeOK, Release
  <1>9. ProcInv(p)'
    BY <1>1, <1>2, <1>6, <1>7 DEF Release, ProcInv, ModeOfPlace, GuardHeld,
         AdvisoryHeld, HandleBacked, GuardedIsFree, Active
  <1>10. ASSUME NEW q \in Process, q # p PROVE Spares(p, q)
    BY <1>3, <1>4, <1>7, <1>10, OwnRowSpares DEF Release
  <1> QED BY <1>8, <1>9, <1>10, OneMoves

LEMMA UnlockInv ==
  ASSUME IInv, NEW p \in Process, Unlock(p)
  PROVE  IInv'
  <1>1. TypeOK /\ ProcInv(p) BY DEF IInv
  <1>2. guard # p BY <1>1 DEF Unlock, ProcInv, GuardHeld
  <1>3. /\ proc' \in [Process -> Proc] /\ proc'[p] = Idle
        /\ \A q \in Process : q # p => proc'[q] = proc[q]
    BY <1>1, IdleType, BecomeType DEF TypeOK, Unlock
  <1>4. TypeOK' BY <1>1, <1>3 DEF TypeOK, Unlock
  <1>5. ProcInv(p)'
    BY <1>1, <1>2, <1>3 DEF Unlock, ProcInv, ModeOfPlace, GuardHeld,
         AdvisoryHeld, HandleBacked, GuardedIsFree, Active, Idle
  <1>6. ASSUME NEW q \in Process, q # p PROVE Spares(p, q)
    BY <1>3, <1>6 DEF Unlock, Spares, Lease
  <1> QED BY <1>4, <1>5, <1>6, OneMoves

-----------------------------------------------------------------------------
(* Failures and time *)

LEMMA DisconnectInv ==
  ASSUME IInv, NEW p \in Process, Disconnect(p)
  PROVE  IInv'
  <1>1. TypeOK /\ ProcInv(p) /\ proc[p] \in Proc BY DEF IInv, TypeOK
  <1>2. guard # p BY ActiveNotGuarded DEF Disconnect
  <1>3. UNCHANGED <<legacy, tenant, guard>> BY DEF Disconnect
  <1>4. /\ proc' \in [Process -> Proc]
        /\ \A q \in Process : q # p => proc'[q] = proc[q]
        /\ proc'[p].cut = TRUE /\ proc'[p].at = proc[p].at
        /\ proc'[p].left = proc[p].left /\ proc'[p].renewed = proc[p].renewed
    BY <1>1 DEF Disconnect, TypeOK, Proc
  <1>5. TypeOK' BY <1>1, <1>3, <1>4, FaultType DEF TypeOK, Disconnect
  <1>6. ProcInv(p)'
    BY <1>1, <1>2, <1>3, <1>4 DEF Disconnect, ProcInv, ModeOfPlace, GuardHeld,
         AdvisoryHeld, HandleBacked, GuardedIsFree, Active, Lease
  <1>7. ASSUME NEW q \in Process, q # p PROVE Spares(p, q)
    BY <1>3, <1>4, <1>7 DEF Spares, Lease, Disconnect
  <1> QED BY <1>5, <1>6, <1>7, OneMoves

LEMMA CrashInv ==
  ASSUME IInv, NEW p \in Process, Crash(p)
  PROVE  IInv'
  <1> DEFINE row == Orphaned(p, Lease(p))
  <1>1. TypeOK /\ ProcInv(p) BY DEF IInv
  <1>2. /\ row \in Row
        /\ Lease(p).owner = p \/ row = Lease(p)
        /\ Lease(p).left > 0 \/ row.left = 0
    BY <1>1, GivenUpRow
  <1>3. SetLease(p, row) BY DEF Crash
  <1>4. legacy' \in Row /\ tenant' \in Row BY <1>1, <1>2, <1>3, SetLeaseType
  <1>5. /\ proc' \in [Process -> Proc] /\ proc'[p] = Idle
        /\ \A q \in Process : q # p => proc'[q] = proc[q]
    BY <1>1, IdleType, BecomeType DEF TypeOK, Crash
  <1>6. TypeOK' BY <1>1, <1>4, <1>5, FaultType DEF TypeOK, Crash
  <1>7. ProcInv(p)'
    BY <1>1, <1>5, ProcessAssumption DEF Crash, ProcInv, ModeOfPlace, GuardHeld,
         AdvisoryHeld, HandleBacked, GuardedIsFree, Active, Idle
  <1>8. ASSUME NEW q \in Process, q # p PROVE Spares(p, q)
    <2>1. guard' = q <=> guard = q BY <1>8, ProcessAssumption DEF Crash
    <2>2. advisory = q => advisory' = q BY <1>8 DEF Crash
    <2> HIDE DEF row
    <2> QED BY <1>2, <1>3, <1>5, <1>8, <2>1, <2>2, OwnRowSpares
  <1> QED BY <1>6, <1>7, <1>8, OneMoves

\* Every clock and every expiry lose the same unit: what covered a timer still does.
LEMMA LessType ==
  /\ \A n \in 0 .. LeaseTime : Less(n) \in 0 .. LeaseTime
  /\ \A n \in Nat : Less(n) \in Nat /\ (Less(n) > 0 => n > 0)
  /\ \A m, n \in Nat : m >= n => Less(m) >= Less(n)
  /\ Less(0) = 0
  BY TimeAssumption DEF Less

LEMMA TickInv ==
  ASSUME IInv, Tick
  PROVE  IInv'
  <1>1. TypeOK BY DEF IInv
  <1>2. /\ legacy' \in Row /\ tenant' \in Row
        /\ legacy'.owner = legacy.owner /\ legacy'.left = Less(legacy.left)
        /\ tenant'.owner = tenant.owner /\ tenant'.left = Less(tenant.left)
    BY <1>1, LessType DEF Tick, TypeOK, Row
  <1>3. proc' \in [Process -> Proc]
    BY <1>1, LessType DEF Tick, TypeOK, Proc
  <1>4. TypeOK' BY <1>1, <1>2, <1>3 DEF Tick, TypeOK
  <1>5. ASSUME NEW p \in Process PROVE ProcInv(p)'
    <2>1. ProcInv(p) /\ proc[p] \in Proc BY <1>1 DEF IInv, TypeOK
    <2>2. /\ proc'[p].at = proc[p].at /\ proc'[p].cut = proc[p].cut
          /\ proc'[p].left = Less(proc[p].left)
          /\ proc'[p].renewed = Less(proc[p].renewed)
      BY <2>1 DEF Tick, Proc
    <2>3. UNCHANGED <<advisory, guard>> BY DEF Tick
    <2>4. HandleBacked(p)'
      <3>1. /\ Lease(p)'.owner = Lease(p).owner
            /\ Lease(p)'.left = Less(Lease(p).left)
        BY <1>2 DEF Lease
      <3>2. Lease(p).left \in Nat /\ proc[p].left \in Nat /\ proc[p].renewed \in Nat
        BY <1>1, <2>1 DEF TypeOK, Row, Proc, Lease
      <3> QED BY <2>1, <2>2, <3>1, <3>2, LessType DEF ProcInv, HandleBacked
    <2>5. GuardedIsFree(p)' BY <1>2, <2>1, <2>2, LessType DEF ProcInv, GuardedIsFree
    <2> QED
      BY <2>1, <2>2, <2>3, <2>4, <2>5 DEF ProcInv, ModeOfPlace, GuardHeld, AdvisoryHeld,
           Active
  <1> QED BY <1>4, <1>5 DEF IInv

-----------------------------------------------------------------------------
(* Theorems *)

LEMMA NextInv ==
  ASSUME IInv, [Next]_vars
  PROVE  IInv'
  <1>1. CASE UNCHANGED vars
    BY <1>1 DEF vars, IInv, TypeOK, ProcInv, ModeOfPlace, GuardHeld, AdvisoryHeld,
         HandleBacked, GuardedIsFree, Active, Lease
  <1>2. CASE Tick BY <1>2, TickInv
  <1>3. ASSUME NEW p \in Process, Acquire(p) PROVE IInv'
    BY <1>3, TryAdvisoryInv, InsertLegacyInv, BeginInsertInv, TryGuardInv, CommitInsertInv
       DEF Acquire
  <1>4. ASSUME NEW p \in Process,
               \/ Renew(p) \/ RenewReply(p) \/ Expire(p) \/ Release(p) \/ Unlock(p)
               \/ Disconnect(p) \/ Crash(p)
        PROVE  IInv'
    BY <1>4, RenewInv, RenewReplyInv, ExpireInv, ReleaseInv, UnlockInv, DisconnectInv,
       CrashInv
  <1> QED BY <1>1, <1>2, <1>3, <1>4 DEF Next

\* The inductive invariant: who holds the guard, the advisory lock and the rows at every
\* statement of tryAcquire, of the timers and of release.
THEOREM LockInvariant == Spec => []IInv
  <1>1. Init => IInv BY InitInv
  <1>2. IInv /\ [Next]_vars => IInv' BY NextInv
  <1> QED BY <1>1, <1>2, PTL DEF Spec

\* The rows, the locks, the timers and the replies on their way stay in their types: no
\* timer and no expiry passes leaseMs or zero.
THEOREM TypeCorrect == Spec => []TypeOK
  <1>1. IInv => TypeOK BY DEF IInv
  <1> QED BY <1>1, LockInvariant, PTL

\* A dispatch whose expiryTimer has not run out owns its row, and the row outlives the
\* timer, whatever renewals were swallowed, failed or are late.
THEOREM BeliefBacked == Spec => []BeliefIsBacked
  <1>1. ASSUME IInv PROVE BeliefIsBacked
    <2> SUFFICES ASSUME NEW p \in Process, Believes(p)
                 PROVE  Owns(p) /\ Lease(p).left >= proc[p].left
      BY DEF BeliefIsBacked
    <2>1. HandleBacked(p) BY <1>1 DEF IInv, ProcInv
    <2>2. proc[p].left \in Nat /\ Lease(p).left \in Nat
      BY <1>1 DEF IInv, TypeOK, Proc, Row, Lease
    <2> QED BY <2>1, <2>2 DEF Believes, HandleBacked, Owns
  <1> QED BY <1>1, LockInvariant, PTL

\* Two dual dispatches run in a session only after the connection of one of them broke:
\* the advisory lock is given back after the dispatch has ended, never by a timer.
THEOREM DualSerial == Spec => []DualDispatchesAreSerial
  <1>1. ASSUME IInv PROVE DualDispatchesAreSerial
    <2> SUFFICES ASSUME NEW p \in Dual, NEW q \in Dual, p # q, Active(p), Active(q)
                 PROVE  proc[p].cut \/ proc[q].cut
      BY DEF DualDispatchesAreSerial
    <2>1. AdvisoryHeld(p) /\ AdvisoryHeld(q)
      BY <1>1, ProcessAssumption DEF IInv, ProcInv
    <2> QED BY <2>1 DEF AdvisoryHeld
  <1> QED BY <1>1, LockInvariant, PTL

\* A dual dispatch obtains its handle only by the commit of its INSERT, and its guard
\* has kept every lease row expired since the trigger looked.
LEMMA DualObtains ==
  ASSUME IInv, NEW p \in Dual, ~Active(p), Active(p)', [Next]_vars
  PROVE  proc[p].at = "guarded"
  <1>1. p \in Process /\ TypeOK /\ ModeOfPlace(p)
    BY ProcessAssumption DEF IInv, ProcInv
  <1>2. CASE UNCHANGED vars BY <1>2 DEF vars, Active
  <1>3. CASE Tick
    <2>1. proc'[p].at = proc[p].at BY <1>1, <1>3 DEF Tick, TypeOK, Proc
    <2> QED BY <2>1 DEF Active
  <1>4. ASSUME NEW q \in Process, q # p, proc'[p] = proc[p] PROVE FALSE
    BY <1>4 DEF Active
  <1>5. ASSUME NEW q \in Process, q # p,
               \/ Acquire(q) \/ Renew(q) \/ RenewReply(q) \/ Expire(q) \/ Release(q)
               \/ Unlock(q) \/ Disconnect(q) \/ Crash(q)
        PROVE  proc'[p] = proc[p]
    BY <1>1, <1>5 DEF Acquire, TryAdvisory, InsertLegacy, BeginInsert, TryGuard,
         CommitInsert, Renew, RenewReply, Expire, Release, Unlock, Disconnect, Crash,
         Become, TypeOK
  <1>6. ASSUME proc'[p] \in {Idle, Without(p)} PROVE FALSE
    <2>1. Idle.at = "idle" /\ Without(p).at = "unlocking"
      BY <1>1, WithoutType DEF Idle
    <2> QED BY <1>6, <2>1 DEF Active
  <1>7. CASE TryAdvisory(p)
    <2>1. proc'[p].at = "advisory"
      BY <1>1, <1>7, FreshType DEF TryAdvisory, Become, TypeOK, Place
    <2> QED BY <2>1 DEF Active
  <1>8. CASE InsertLegacy(p)
    <2>1. proc'[p].at = "guarded" \/ proc'[p] = Without(p)
      BY <1>1, <1>8, FreshType DEF InsertLegacy, Become, TypeOK, Place
    <2> QED BY <1>6, <2>1 DEF Active
  <1>9. CASE BeginInsert(p) \/ TryGuard(p)
    BY <1>1, <1>9 DEF BeginInsert, TryGuard, ModeOfPlace
  <1>10. CASE CommitInsert(p) BY <1>10 DEF CommitInsert
  <1>11. CASE Renew(p) \/ RenewReply(p) \/ Expire(p) \/ Release(p) \/ Disconnect(p)
    BY <1>11 DEF Renew, RenewReply, Expire, Release, Disconnect, Active
  <1>12. CASE Unlock(p) \/ Crash(p)
    BY <1>1, <1>6, <1>12 DEF Unlock, Crash, Become, TypeOK
  <1> QED
    BY <1>1, <1>2, <1>3, <1>4, <1>5, <1>7, <1>8, <1>9, <1>10, <1>11, <1>12
       DEF Next, Acquire

\* No dual dispatch obtains its handle while the timer of a lease dispatch runs.
THEOREM LeaseNotJoined == Spec => LeaseIsNotJoined
  <1>1. ASSUME IInv, [Next]_vars
        PROVE  \A p \in Dual, q \in Process \ Dual :
                 Believes(q) /\ ~Active(p) => ~Active(p)'
    <2> SUFFICES ASSUME NEW p \in Dual, NEW q \in Process \ Dual,
                        Believes(q), ~Active(p), Active(p)'
                 PROVE  FALSE
      OBVIOUS
    <2>1. proc[p].at = "guarded" BY <1>1, DualObtains
    <2>2. tenant.left = 0
      BY <1>1, <2>1, ProcessAssumption DEF IInv, ProcInv, GuardedIsFree
    <2>3. HandleBacked(q) /\ proc[q].left \in Nat
      BY <1>1 DEF IInv, ProcInv, TypeOK, Proc
    <2> QED BY <2>2, <2>3 DEF HandleBacked, Believes, Lease
  <1>2. IInv /\ [Next]_vars
          => [\A p \in Dual, q \in Process \ Dual :
                Believes(q) /\ ~Active(p) => ~Active(p)']_vars
    BY <1>1
  <1> QED BY <1>2, LockInvariant, PTL DEF Spec, LeaseIsNotJoined

=============================================================================
