-------------------------- MODULE AccountAllocator --------------------------
(***************************************************************************)
(* RuntimeAccountAllocator of the_hive/runtime_account_allocator.py:       *)
(* threads reserve capacity of accounts at a provider, bind the answers to *)
(* leases, and give them back.  The provider is called outside the         *)
(* allocator's lock, and may fail after it took effect.  A consumer (the   *)
(* spawn ledger, the registry planner) holds a verification guard while it *)
(* commits something that relies on the lease; a revoke that meets a guard *)
(* is deferred until the guard closes.                                     *)
(*                                                                         *)
(* A lease and a pending release are named by their reservation: each has  *)
(* one, and the provider does not use the id of a reservation again.       *)
(***************************************************************************)
EXTENDS Naturals, FiniteSets

CONSTANTS
  Threads,
  Reservations,     \* reservation ids of the provider
  Accounts,
  AccountOf,        \* the account of each reservation
  Units,            \* the smallest unit count a capacity evidence may state
  MaxRevision,      \* bound of evidence and lease revisions
  MaxFailures,      \* bound of the provider calls that fail
  None

ASSUME AllocatorAssumption ==
  /\ AccountOf \in [Reservations -> Accounts]
  /\ Units \subseteq Nat \ {0} /\ Units # {}
  /\ MaxRevision \in Nat /\ MaxFailures \in Nat
  /\ None \notin Threads

VARIABLES
  leases,      \* _records: reservation -> [state, receipt]
  pending,     \* _pending_releases: reservation -> [lease, counted]
  owners,      \* _reservation_owners: reservation -> phase
  active,      \* _active_by_account
  latest,      \* _latest_by_account
  guards,      \* _active_lease_binding_verifications, by lease
  deferred,    \* _deferred_lease_binding_revokes
  expired,     \* leases whose capacity evidence is no longer fresh
  releaseLock, \* the thread that holds _release_lock, or None
  thread,      \* what each thread is doing
  provider,    \* reservations the provider holds
  granted,     \* reservations it has ever granted
  released,    \* how often it confirmed the release of each
  revoked,     \* leases a caller was told are revoked: revoke has returned
  replayed,    \* reservations that a second answer named
  failures     \* provider calls that failed

vars == <<leases, pending, owners, active, latest, guards, deferred, expired,
          releaseLock, thread, provider, granted, released, revoked, replayed, failures>>
tables == <<leases, pending, owners, active, latest>>
binding == <<guards, deferred, expired>>
world == <<provider, granted, released, replayed, failures>>

Idle == [pc |-> "idle", reply |-> None, todo |-> {}]

Init ==
  /\ leases = <<>> /\ pending = <<>> /\ owners = <<>>
  /\ active = [a \in Accounts |-> {}]
  /\ latest = [a \in Accounts |-> [evidence |-> 0, lease |-> 0]]
  /\ guards = {} /\ deferred = {} /\ expired = {}
  /\ releaseLock = None
  /\ thread = [t \in Threads |-> Idle]
  /\ provider = {} /\ granted = {}
  /\ released = [r \in Reservations |-> 0]
  /\ revoked = {} /\ replayed = {} /\ failures = 0

Put(f, r, v) == [i \in DOMAIN f \cup {r} |-> IF i = r THEN v ELSE f[i]]
Drop(f, r) == [i \in DOMAIN f \ {r} |-> f[i]]

At(t, pc) == thread[t].pc = pc

(* The thread goes on to _retry_pending_release for each of rs.            *)
Retry(t, rs) ==
  thread' = [thread EXCEPT ![t] = IF rs = {} THEN Idle
                                  ELSE [pc |-> "retry", reply |-> None, todo |-> rs]]

-----------------------------------------------------------------------------
(* allocate: the provider's answer, outside the lock.  The reservation may *)
(* disagree with the evidence, or not even be well formed; its revisions   *)
(* matter only if it is good.                                              *)
Reply ==
  [r : Reservations, kind : {"good"},
   evidence : 1..MaxRevision, lease : 1..MaxRevision, units : Units]
  \cup [r : Reservations, kind : {"mismatch", "malformed"},
        evidence : {0}, lease : {0}, units : {0}]

ReserveCapability(t, reply) ==
  /\ At(t, "idle")
  /\ reply.r \notin granted
  /\ granted' = granted \cup {reply.r}
  /\ provider' = provider \cup {reply.r}
  /\ thread' = [thread EXCEPT ![t] = [pc |-> "bind", reply |-> reply, todo |-> {}]]
  /\ UNCHANGED <<tables, binding, releaseLock, released, replayed, revoked, failures>>

(* The provider answers with a reservation it has granted to another call  *)
(* and still holds; it carries that call's evidence object.                *)
ReserveReplayed(t, reply) ==
  /\ At(t, "idle")
  /\ reply.r \in DOMAIN owners /\ reply.r \in provider
  /\ reply.kind = "mismatch"
  /\ replayed' = replayed \cup {reply.r}
  /\ failures < MaxFailures
  /\ failures' = failures + 1
  /\ thread' = [thread EXCEPT ![t] = [pc |-> "bind", reply |-> reply, todo |-> {}]]
  /\ UNCHANGED <<tables, binding, releaseLock, provider, granted, released, revoked>>

(* Not after the last accepted revisions of the account, or no capacity.   *)
Exhausted_IgnoresPending(reply) ==
  LET a == AccountOf[reply.r] IN
  \/ reply.evidence <= latest[a].evidence \/ reply.lease <= latest[a].lease
  \/ LET bound == {r \in active[a] : owners[r] = "RESERVED"}
     IN  bound # {} /\ reply.units <= Cardinality(bound)

Exhausted(reply) ==
  LET a == AccountOf[reply.r] IN
  \/ reply.evidence <= latest[a].evidence \/ reply.lease <= latest[a].lease
  \/ active[a] # {} /\ reply.units <= Cardinality(active[a])

(* _queue_new_pending_release_locked: only a well-formed reservation       *)
(* counts against its account.                                             *)
QueuePendingRelease(r, wellFormed) ==
  /\ pending' = Put(pending, r, [lease |-> FALSE, counted |-> wellFormed])
  /\ owners' = Put(owners, r, "RELEASE_PENDING")
  /\ active' = IF wellFormed THEN [active EXCEPT ![AccountOf[r]] = @ \cup {r}] ELSE active
  /\ UNCHANGED <<leases, latest>>

(* _bind_reservation_locked.  Any answer may be turned down: the evidence  *)
(* may have run out since it was presented.                                *)
BindReservation(t) ==
  LET reply == thread[t].reply  r == reply.r IN
  /\ At(t, "bind")
  /\ \/ /\ r \in DOMAIN owners
        /\ Retry(t, {})
        /\ UNCHANGED tables
     \/ /\ r \notin DOMAIN owners
        /\ QueuePendingRelease(r, reply.kind # "malformed")
        /\ Retry(t, {r})
     \/ /\ r \notin DOMAIN owners
        /\ reply.kind = "good" /\ ~ Exhausted(reply)
        /\ leases' = Put(leases, r, [state |-> "RESERVED", receipt |-> FALSE])
        /\ owners' = Put(owners, r, "RESERVED")
        /\ active' = [active EXCEPT ![AccountOf[r]] = @ \cup {r}]
        /\ latest' = [latest EXCEPT ![AccountOf[r]] =
                        [evidence |-> reply.evidence, lease |-> reply.lease]]
        /\ Retry(t, {})
        /\ UNCHANGED pending
  /\ UNCHANGED <<binding, releaseLock, world, revoked>>

-----------------------------------------------------------------------------
(* Receipts and verification guards *)

(* _receipt_binding_invariant: a live lease, its owner entry, and evidence *)
(* that is still fresh.                                                    *)
ReceiptBinding(r) ==
  /\ r \in DOMAIN leases /\ leases[r].state = "RESERVED"
  /\ owners[r] = "RESERVED"
  /\ r \notin expired

(* issue_lease_binding_receipt; asked again, it returns the same receipt.  *)
IssueReceipt(r) ==
  /\ ReceiptBinding(r)
  /\ ~ leases[r].receipt
  /\ leases' = [leases EXCEPT ![r].receipt = TRUE]
  /\ UNCHANGED <<pending, owners, active, latest, binding, releaseLock, thread, world, revoked>>

VerifyReceipt(r) ==
  /\ ReceiptBinding(r)
  /\ leases[r].receipt
  /\ r \notin guards
  /\ guards' = guards \cup {r}
  /\ UNCHANGED <<tables, deferred, expired, releaseLock, thread, world, revoked>>

(* _transition_lease_release_locked; the lease keeps its place in active.  *)
TransitionLeaseRelease(r) ==
  /\ owners[r] = "RESERVED"
  /\ pending' = Put(pending, r, [lease |-> TRUE, counted |-> TRUE])
  /\ owners' = [owners EXCEPT ![r] = "RELEASE_PENDING"]
  /\ leases' = [leases EXCEPT ![r].state = "RELEASE_PENDING"]
  /\ UNCHANGED <<active, latest>>

CloseGuard_ForgetsDeferred(t, r) ==
  /\ At(t, "idle")
  /\ r \in guards
  /\ guards' = guards \ {r}
  /\ deferred' = deferred \ {r}
  /\ Retry(t, {})
  /\ UNCHANGED <<tables, expired, releaseLock, world, revoked>>

(* close_lease_binding_verification.  The guard is gone in any case; a     *)
(* deferred revoke is carried out, unless the binding is no longer current *)
(* - then it is dropped and the close is denied.                           *)
CloseGuard(t, r) ==
  /\ At(t, "idle")
  /\ r \in guards
  /\ guards' = guards \ {r}
  /\ deferred' = deferred \ {r}
  /\ \/ /\ r \in deferred /\ ReceiptBinding(r)
        /\ TransitionLeaseRelease(r)
        /\ Retry(t, {r})
     \/ /\ ~ (r \in deferred /\ ReceiptBinding(r))
        /\ Retry(t, {})
        /\ UNCHANGED tables
  /\ UNCHANGED <<expired, releaseLock, world, revoked>>

(* The clock passes expires_at_utc of the lease's evidence.                *)
Expire(r) ==
  /\ r \in DOMAIN leases /\ leases[r].state = "RESERVED" /\ r \notin expired
  /\ expired' = expired \cup {r}
  /\ UNCHANGED <<tables, guards, deferred, releaseLock, thread, world, revoked>>

-----------------------------------------------------------------------------
(* Release *)

Revoke_IgnoresGuard(t, r) ==
  /\ At(t, "idle")
  /\ r \in DOMAIN leases
  /\ revoked' = revoked \cup {r}
  /\ \/ /\ leases[r].state = "RESERVED"
        /\ TransitionLeaseRelease(r)
        /\ Retry(t, {r})
     \/ /\ leases[r].state = "RELEASE_PENDING"
        /\ Retry(t, {r})
        /\ UNCHANGED tables
  /\ UNCHANGED <<guards, deferred, expired, releaseLock, world>>

(* revoke: it returns nothing and never raises.  A revoked lease stays so. *)
Revoke(t, r) ==
  /\ At(t, "idle")
  /\ r \in DOMAIN leases
  /\ revoked' = revoked \cup {r}
  /\ \/ /\ leases[r].state = "RESERVED" /\ r \in guards
        /\ deferred' = deferred \cup {r}
        /\ UNCHANGED <<tables, thread>>
     \/ /\ leases[r].state = "RESERVED" /\ r \notin guards
        /\ TransitionLeaseRelease(r)
        /\ Retry(t, {r})
        /\ UNCHANGED deferred
     \/ /\ leases[r].state = "RELEASE_PENDING"
        /\ Retry(t, {r})
        /\ UNCHANGED <<tables, deferred>>
  /\ UNCHANGED <<guards, expired, releaseLock, world>>

(* recover_pending_releases, and recover of one lease that is pending.     *)
Recover(t, rs) ==
  /\ At(t, "idle")
  /\ rs # {}
  /\ \/ rs = DOMAIN pending
     \/ \E r \in DOMAIN pending : rs = {r} /\ pending[r].lease
  /\ Retry(t, rs)
  /\ UNCHANGED <<tables, binding, releaseLock, world, revoked>>

RetryBegin_NoLock(t, r) ==
  /\ At(t, "retry") /\ r \in thread[t].todo
  /\ IF r \in DOMAIN pending /\ owners[r] = "RELEASE_PENDING"
       THEN thread' = [thread EXCEPT ![t] = [pc |-> "release", reply |-> [r |-> r],
                                             todo |-> thread[t].todo]]
       ELSE Retry(t, thread[t].todo \ {r})
  /\ UNCHANGED <<tables, binding, releaseLock, world, revoked>>

(* _retry_pending_release: under the release lock, is it still pending?    *)
RetryBegin(t, r) ==
  /\ At(t, "retry") /\ r \in thread[t].todo
  /\ releaseLock = None
  /\ IF r \in DOMAIN pending /\ owners[r] = "RELEASE_PENDING"
       THEN /\ releaseLock' = t
            /\ thread' = [thread EXCEPT ![t] = [pc |-> "release", reply |-> [r |-> r],
                                                todo |-> thread[t].todo]]
       ELSE /\ Retry(t, thread[t].todo \ {r})
            /\ UNCHANGED releaseLock
  /\ UNCHANGED <<tables, binding, world, revoked>>

ReleaseReservation_KeepsLock(t) ==
  LET r == thread[t].reply.r IN
  /\ At(t, "release")
  /\ \/ /\ provider' = provider \ {r}
        /\ released' = [released EXCEPT ![r] = @ + 1]
        /\ thread' = [thread EXCEPT ![t].pc = "pop"]
        /\ UNCHANGED failures
     \/ /\ failures < MaxFailures
        /\ failures' = failures + 1
        /\ Retry(t, thread[t].todo \ {r})
        /\ UNCHANGED <<provider, released>>
  /\ UNCHANGED <<tables, binding, releaseLock, granted, replayed, revoked>>

(* _release_reservation: confirmed, or failed - with or without effect.    *)
ReleaseReservation(t) ==
  LET r == thread[t].reply.r IN
  /\ At(t, "release")
  /\ \/ /\ provider' = provider \ {r}
        /\ released' = [released EXCEPT ![r] = @ + 1]
        /\ thread' = [thread EXCEPT ![t].pc = "pop"]
        /\ UNCHANGED <<releaseLock, failures>>
     \/ /\ failures < MaxFailures
        /\ failures' = failures + 1
        /\ provider' \in {provider, provider \ {r}}
        /\ Retry(t, thread[t].todo \ {r})
        /\ releaseLock' = None
        /\ UNCHANGED released
  /\ UNCHANGED <<tables, binding, granted, replayed, revoked>>

(* The books after a confirmed release.                                    *)
PopPending(r) ==
  /\ pending' = Drop(pending, r)
  /\ owners' = Drop(owners, r)
  /\ active' = IF pending[r].counted
                 THEN [active EXCEPT ![AccountOf[r]] = @ \ {r}] ELSE active
  /\ leases' = IF pending[r].lease THEN [leases EXCEPT ![r].state = "REVOKED"] ELSE leases
  /\ UNCHANGED latest

RetryEnd(t) ==
  LET r == thread[t].reply.r IN
  /\ At(t, "pop")
  /\ IF r \in DOMAIN pending /\ owners[r] = "RELEASE_PENDING"
       THEN PopPending(r) ELSE UNCHANGED tables
  /\ releaseLock' = None
  /\ Retry(t, thread[t].todo \ {r})
  /\ UNCHANGED <<binding, world, revoked>>

-----------------------------------------------------------------------------
Step(t) ==
  \/ BindReservation(t)
  \/ \E r \in Reservations : RetryBegin(t, r)
  \/ ReleaseReservation(t)
  \/ RetryEnd(t)

Next ==
  \/ \E t \in Threads :
       \/ Step(t)
       \/ \E reply \in Reply : ReserveCapability(t, reply) \/ ReserveReplayed(t, reply)
       \/ \E r \in Reservations : CloseGuard(t, r) \/ Revoke(t, r)
       \/ \E rs \in SUBSET Reservations : Recover(t, rs)
  \/ \E r \in Reservations : IssueReceipt(r) \/ VerifyReceipt(r) \/ Expire(r)

(* A thread that is inside a call of the allocator goes on.                *)
Spec == Init /\ [][Next]_vars /\ \A t \in Threads : WF_vars(Step(t))

-----------------------------------------------------------------------------
(* Every table maps reservations to records of its kind; a thread is in    *)
(* one of the places named above.                                          *)
TypeOK ==
  /\ DOMAIN leases \cup DOMAIN pending \cup DOMAIN owners \subseteq Reservations
  /\ \A r \in DOMAIN leases :
       leases[r] \in [state : {"RESERVED", "RELEASE_PENDING", "REVOKED"}, receipt : BOOLEAN]
  /\ \A r \in DOMAIN pending : pending[r] \in [lease : BOOLEAN, counted : BOOLEAN]
  /\ \A r \in DOMAIN owners : owners[r] \in {"RESERVED", "RELEASE_PENDING"}
  /\ active \in [Accounts -> SUBSET Reservations]
  /\ guards \cup deferred \cup expired \cup revoked \subseteq Reservations
  /\ releaseLock \in Threads \cup {None}
  /\ \A t \in Threads : thread[t].pc \in {"idle", "bind", "retry", "release", "pop"}

(* The tables are well formed and tell one story: an owned reservation is  *)
(* a live lease or a pending release and never both, an account counts     *)
(* exactly the well-formed ones, what the provider holds is owned or in    *)
(* the hands of a thread that is about to bind it, and it confirms the     *)
(* release of a reservation at most once, unless it named the reservation  *)
(* in two answers.  So nothing the provider answered for leaks, no release *)
(* is given up silently, and two threads that retry one release do not     *)
(* both carry it out.  It rests on the contract of the port: a reserve     *)
(* that raised, or answered with something that is no AccountReservation,  *)
(* has reserved nothing, for allocate then releases nothing.               *)
BooksAgree ==
  /\ TypeOK
  /\ \A r \in Reservations :
       /\ r \in DOMAIN pending <=> r \in DOMAIN owners /\ owners[r] = "RELEASE_PENDING"
       /\ r \in DOMAIN leases =>
            /\ leases[r].state = "RESERVED" <=> r \in DOMAIN owners /\ owners[r] = "RESERVED"
            /\ leases[r].state = "RELEASE_PENDING" => r \in DOMAIN pending /\ pending[r].lease
  /\ \A a \in Accounts :
       active[a] = {r \in DOMAIN owners :
                      AccountOf[r] = a /\ (r \in DOMAIN pending => pending[r].counted)}
  /\ \A r \in provider :
       r \in DOMAIN owners \/ \E t \in Threads : At(t, "bind") /\ thread[t].reply.r = r
  /\ \A r \in Reservations \ replayed : released[r] <= 1

(* verify / revoke / close: as long as a consumer's guard is open, its     *)
(* lease is reserved and the provider still holds the reservation.         *)
GuardedLeaseIsLive ==
  \A r \in guards : leases[r].state = "RESERVED" /\ r \in provider

(* The leases of an account that have not been given back never exceed the *)
(* largest capacity that any evidence stated, even while releases are      *)
(* pending or failing.                                                     *)
LeasesWithinCapacity ==
  \A a \in Accounts :
    \E u \in Units :
      Cardinality({r \in DOMAIN leases : AccountOf[r] = a /\ leases[r].state # "REVOKED"}) <= u

(* Once revoke has returned, the lease does not stay reserved: the revoke  *)
(* took effect, or waits for the open guard, or the evidence of the lease  *)
(* has run out.                                                            *)
RevokeIsKept ==
  \A r \in revoked : leases[r].state = "RESERVED" => r \in deferred \cup expired

(* The two locks and the provider calls between them: every call of the    *)
(* allocator returns, with a provider that fails a bounded number of times.*)
CallsReturn == \A t \in Threads : ~ At(t, "idle") ~> At(t, "idle")
=============================================================================
