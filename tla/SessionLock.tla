----------------------------- MODULE SessionLock -----------------------------
(***************************************************************************)
(* The single-writer lock of a session (server/src/runtime/pgSessionLock), *)
(* during the rolling deployment from mode "dual" to mode "lease".         *)
(*                                                                         *)
(* A dual dispatch takes the session's advisory lock on a connection of    *)
(* its own and then a row of the legacy lease table; a lease dispatch      *)
(* takes only a row of the tenant lease table.  What keeps the two apart   *)
(* is a transaction-level advisory lock (the guard), a trigger on the      *)
(* legacy table and a sub-query on it.  A holder renews its row, and       *)
(* aborts the dispatch when it learns, or must assume, that the row is no  *)
(* longer its own.                                                         *)
(*                                                                         *)
(* One session of one tenant.  A statement of the database is one step,    *)
(* except for an acquisition, whose snapshot, guard and commit are three.  *)
(* Time is the database's; a timer of a process may be arbitrarily late.   *)
(***************************************************************************)
EXTENDS Integers, FiniteSets

CONSTANTS
  Process,     \* dispatches that compete for the session
  Dual,        \* those of instances in mode dual; the others are in mode lease
  Nobody,
  LeaseTime,   \* leaseMs
  MaxFaults    \* bound: lost replies, lost connections and crashes

ASSUME ProcessAssumption == Dual \subseteq Process /\ Nobody \notin Process
ASSUME TimeAssumption == LeaseTime \in Nat \ {0} /\ MaxFaults \in Nat

VARIABLES
  legacy,    \* the row of _session_leases
  tenant,    \* the row of _tenant_session_leases
  advisory,  \* whose connection holds the session-level advisory lock
  guard,     \* whose statement holds the transaction-level advisory lock
  proc,      \* each dispatch
  faults     \* failures so far

vars == <<legacy, tenant, advisory, guard, proc, faults>>

\* owner: whose current token the row has (Nobody: of a handle that is gone); left: the
\* time until lease_expires_at (no row is an expired row: both are taken over)
Row == [owner : Process \cup {Nobody}, left : 0 .. LeaseTime]

\* advisory: holds the advisory lock; asking: its statement has a snapshot; guarded: its
\* statement holds the guard; holding: has the handle; lost: told to abort; unlocking:
\* about to give the advisory lock back.
\* seen: the legacy row in the snapshot; left: the expiry timer of the handle; reply: the
\* answer to a renewal that is on its way, and the expiry it tells; cut: the connection
\* of the advisory lock is broken
Proc == [at : {"idle", "advisory", "asking", "guarded", "holding", "lost", "unlocking"},
         seen : 0 .. LeaseTime,
         left : 0 .. LeaseTime,
         reply : {"none", "renewed", "gone"},
         renewed : 0 .. LeaseTime,
         cut : BOOLEAN]

Idle == [at |-> "idle", seen |-> 0, left |-> 0, reply |-> "none", renewed |-> 0, cut |-> FALSE]

\* Types; a dispatch in mode lease pins no connection for the advisory lock
TypeOK ==
  /\ legacy \in Row /\ tenant \in Row
  /\ advisory \in Dual \cup {Nobody} /\ guard \in Process \cup {Nobody}
  /\ proc \in [Process -> Proc]
  /\ faults \in 0 .. MaxFaults

Init ==
  /\ legacy = [owner |-> Nobody, left |-> 0]
  /\ tenant = [owner |-> Nobody, left |-> 0]
  /\ advisory = Nobody /\ guard = Nobody
  /\ proc = [p \in Process |-> Idle]
  /\ faults = 0

Lease(p) == IF p \in Dual THEN legacy ELSE tenant
SetLease(p, row) ==
  IF p \in Dual THEN legacy' = row /\ UNCHANGED tenant
                ELSE tenant' = row /\ UNCHANGED legacy

Become(p, state) == proc' = [proc EXCEPT ![p] = state]

\* What a call that ends without a handle leaves: the advisory lock to be given back
Without(p) == IF p \in Dual THEN [Idle EXCEPT !.at = "unlocking"] ELSE Idle

Fault == faults < MaxFaults /\ faults' = faults + 1

Active(p) == proc[p].at \in {"holding", "lost"}

\* A dispatch that goes on: it was not told to stop and its timer has not run out
Believes(p) == proc[p].at = "holding" /\ proc[p].left > 0

-----------------------------------------------------------------------------
(* tryAcquire *)

\* Mutant of TryAdvisory: the mode is not looked at
TryAdvisoryAlways(p) ==
  /\ proc[p].at = "idle"
  /\ advisory = Nobody
  /\ advisory' = p
  /\ Become(p, [Idle EXCEPT !.at = "advisory"])
  /\ UNCHANGED <<legacy, tenant, guard, faults>>

\* Mode dual: pg_try_advisory_lock on a connection of its own
TryAdvisory(p) ==
  /\ p \in Dual /\ proc[p].at = "idle"
  /\ advisory = Nobody
  /\ advisory' = p
  /\ Become(p, [Idle EXCEPT !.at = "advisory"])
  /\ UNCHANGED <<legacy, tenant, guard, faults>>

\* Mutant of GuardTrigger: the tenant table is not consulted
GuardOnly == guard = Nobody

\* The trigger of the legacy table lets an INSERT pass; its query has a fresh snapshot
GuardTrigger == guard = Nobody /\ tenant.left = 0

\* Mode dual: INSERT ... ON CONFLICT, up to its commit
InsertLegacy(p) ==
  /\ proc[p].at = "advisory"
  /\ IF GuardTrigger /\ legacy.left = 0
       THEN guard' = p /\ Become(p, [Idle EXCEPT !.at = "guarded"])
       ELSE Become(p, Without(p)) /\ UNCHANGED guard
  /\ UNCHANGED <<legacy, tenant, advisory, faults>>

\* Mode lease: the statement begins, and with it its snapshot
BeginInsert(p) ==
  /\ p \notin Dual /\ proc[p].at = "idle"
  /\ Become(p, [Idle EXCEPT !.at = "asking", !.seen = legacy.left])
  /\ UNCHANGED <<legacy, tenant, advisory, guard, faults>>

\* Mode lease: pg_try_advisory_xact_lock
TryGuard(p) ==
  /\ proc[p].at = "asking"
  /\ IF guard = Nobody
       THEN guard' = p /\ proc' = [proc EXCEPT ![p].at = "guarded"]
       ELSE Become(p, Idle) /\ UNCHANGED guard
  /\ UNCHANGED <<legacy, tenant, advisory, faults>>

\* The NOT EXISTS of mode lease and the WHERE of ON CONFLICT (dual: see InsertLegacy)
Free(p) == p \notin Dual => proc[p].seen = 0 /\ tenant.left = 0

\* Mutant of CommitInsert: the guard outlives the statement that finds the session taken
CommitKeepingGuard(p) ==
  /\ proc[p].at = "guarded"
  /\ \/ /\ Free(p)
        /\ SetLease(p, [owner |-> p, left |-> LeaseTime])
        /\ Become(p, [Idle EXCEPT !.at = "holding", !.left = LeaseTime])
        /\ guard' = Nobody
     \/ ~Free(p) /\ Become(p, Without(p)) /\ UNCHANGED <<legacy, tenant, guard>>
  /\ UNCHANGED <<advisory, faults>>

\* The statement commits and its guard is gone.  When the reply is lost the row stays,
\* with a token that no handle has.
CommitInsert(p) ==
  /\ proc[p].at = "guarded"
  /\ guard' = Nobody
  /\ \/ /\ Free(p)
        /\ SetLease(p, [owner |-> p, left |-> LeaseTime])
        /\ Become(p, [Idle EXCEPT !.at = "holding", !.left = LeaseTime])
        /\ UNCHANGED faults
     \/ ~Free(p) /\ Become(p, Without(p)) /\ UNCHANGED <<legacy, tenant, faults>>
     \/ /\ Fault
        /\ \/ Free(p) /\ SetLease(p, [owner |-> Nobody, left |-> LeaseTime])
           \/ UNCHANGED <<legacy, tenant>>
        /\ Become(p, Without(p))
  /\ UNCHANGED advisory

-----------------------------------------------------------------------------
(* The handle *)

\* The WHERE of the renewal
Owns(p) == Lease(p).owner = p /\ Lease(p).left > 0

\* renewTimer: one renewal at a time.  In mode dual the trigger raises while the guard is
\* busy (the attempt changes nothing) and swallows the UPDATE when a tenant lease is
\* valid.  A failed query leaves the timer as it was, whether or not it was executed.
Renew(p) ==
  /\ proc[p].at = "holding" /\ proc[p].reply = "none"
  /\ IF Owns(p) /\ (p \in Dual => tenant.left = 0)
       THEN /\ p \in Dual => guard = Nobody
            /\ SetLease(p, [owner |-> p, left |-> LeaseTime])
            /\ \/ /\ proc' = [proc EXCEPT ![p].reply = "renewed", ![p].renewed = LeaseTime]
                  /\ UNCHANGED faults
               \/ Fault /\ UNCHANGED proc
       ELSE /\ Owns(p) => guard = Nobody
            /\ proc' = [proc EXCEPT ![p].reply = "gone"]
            /\ UNCHANGED <<legacy, tenant, faults>>
  /\ UNCHANGED <<advisory, guard>>

\* The reply of a renewal: the timer is set anew, or the lease is lost
RenewReply(p) ==
  /\ Active(p) /\ proc[p].reply # "none"
  /\ IF proc[p].reply = "renewed"
       THEN proc' = [proc EXCEPT ![p].left = proc[p].renewed, ![p].reply = "none", ![p].renewed = 0]
       ELSE proc' = [proc EXCEPT ![p].at = "lost", ![p].reply = "none"]
  /\ UNCHANGED <<legacy, tenant, advisory, guard, faults>>

\* Mutant of Expire: the lost lease gives the advisory lock back at once
ExpireUnlocking(p) ==
  /\ proc[p].at = "holding" /\ proc[p].left = 0
  /\ proc' = [proc EXCEPT ![p].at = "lost"]
  /\ advisory' = IF advisory = p THEN Nobody ELSE advisory
  /\ UNCHANGED <<legacy, tenant, guard, faults>>

\* expiryTimer: onLost aborts the dispatch
Expire(p) ==
  /\ proc[p].at = "holding" /\ proc[p].left = 0
  /\ proc' = [proc EXCEPT ![p].at = "lost"]
  /\ UNCHANGED <<legacy, tenant, advisory, guard, faults>>

\* Mutant of Dropped: the DELETE does not name the owner token
DroppedAnyway(p, row) == [owner |-> Nobody, left |-> 0]

\* The row of p after its DELETE
Dropped(p, row) == IF row.owner = p THEN [owner |-> Nobody, left |-> 0] ELSE row

\* A row that p will not name again
Orphaned(p, row) == IF row.owner = p THEN [row EXCEPT !.owner = Nobody] ELSE row

\* release, at the end of the dispatch, by itself or aborted: the DELETE, and whether or
\* not it succeeds the advisory lock
Release(p) ==
  /\ Active(p)
  /\ \/ SetLease(p, Dropped(p, Lease(p))) /\ UNCHANGED faults
     \/ SetLease(p, Orphaned(p, Lease(p))) /\ Fault
  /\ Become(p, Without(p))
  /\ UNCHANGED <<advisory, guard>>

\* releaseLegacyLock; on a broken connection the lock is already gone
Unlock(p) ==
  /\ proc[p].at = "unlocking"
  /\ advisory' = IF advisory = p THEN Nobody ELSE advisory
  /\ Become(p, Idle)
  /\ UNCHANGED <<legacy, tenant, guard, faults>>

-----------------------------------------------------------------------------
(* Failures and time *)

\* The connection that holds the advisory lock breaks; nobody is told
Disconnect(p) ==
  /\ advisory = p /\ Active(p)
  /\ Fault
  /\ advisory' = Nobody
  /\ proc' = [proc EXCEPT ![p].cut = TRUE]
  /\ UNCHANGED <<legacy, tenant, guard>>

\* The process dies: its connections close, its rows stay, it may start again
Crash(p) ==
  /\ proc[p].at # "idle"
  /\ Fault
  /\ SetLease(p, Orphaned(p, Lease(p)))
  /\ advisory' = IF advisory = p THEN Nobody ELSE advisory
  /\ guard' = IF guard = p THEN Nobody ELSE guard
  /\ Become(p, Idle)

\* One unit of time less, down to "expired"
Less(n) == IF n = 0 THEN 0 ELSE n - 1

Tick ==
  /\ legacy' = [legacy EXCEPT !.left = Less(@)]
  /\ tenant' = [tenant EXCEPT !.left = Less(@)]
  /\ proc' = [p \in Process |-> [proc[p] EXCEPT !.seen = Less(@), !.left = Less(@),
                                                !.renewed = Less(@)]]
  /\ UNCHANGED <<advisory, guard, faults>>

Acquire(p) ==
  TryAdvisory(p) \/ InsertLegacy(p) \/ BeginInsert(p) \/ TryGuard(p) \/ CommitInsert(p)

Next ==
  \/ \E p \in Process :
       Acquire(p) \/ Renew(p) \/ RenewReply(p) \/ Expire(p) \/ Release(p) \/ Unlock(p)
         \/ Disconnect(p) \/ Crash(p)
  \/ Tick

Spec == Init /\ [][Next]_vars

\* The scheduler tries again, the timers run, a dispatch ends and is finalised
Fairness ==
  /\ WF_vars(Tick)
  /\ \A p \in Process : /\ WF_vars(Acquire(p)) /\ WF_vars(RenewReply(p))
                        /\ WF_vars(Expire(p)) /\ WF_vars(Release(p)) /\ WF_vars(Unlock(p))

FairSpec == Spec /\ Fairness

-----------------------------------------------------------------------------
(* Properties *)

\* A dispatch that goes on is backed by the database: it still owns its row, and the row
\* expires no earlier than its timer - whatever renewals failed, were swallowed or are
\* still on their way, and whoever took expired rows over.
BeliefIsBacked ==
  \A p \in Process :
    Believes(p) => Owns(p) /\ Lease(p).left >= proc[p].left

\* In mode dual a late timer does no harm: until a dispatch has released the session no
\* other dual dispatch runs in it, even when the row expired long ago.  Only a broken
\* connection gives the lock away early.
DualDispatchesAreSerial ==
  \A p, q \in Dual : p # q /\ Active(p) /\ Active(q) => proc[p].cut \/ proc[q].cut

\* A session that an instance in mode lease holds is not taken by one in mode dual: no
\* dual dispatch obtains its handle while a lease dispatch goes on.
LeaseIsNotJoined ==
  [][\A p \in Dual, q \in Process \ Dual :
       Believes(q) /\ ~Active(p) => ~Active(p)']_vars

\* The session never stays locked: whatever crashed, was lost or was left behind, it is
\* obtained again and again.
SessionIsServed == []<>(\E p \in Process : proc[p].at = "holding")

\* The header of pgSessionLock: both modes know the table leases, so that the overlap of
\* the second deployment is safe.  No two dispatches go on in the session.
OverlapIsSafe == \A p, q \in Process : Believes(p) /\ Believes(q) => p = q

=============================================================================
