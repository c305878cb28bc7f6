----------------------- MODULE AccountAllocatorProofs -----------------------
(***************************************************************************)
(* IInv is inductive: for any threads, reservations and accounts, the      *)
(* tables of RuntimeAccountAllocator tell one story, a guarded lease is    *)
(* live, an account is not lent beyond its capacity, and a revoke is kept. *)
(***************************************************************************)
EXTENDS AccountAllocator, FiniteSetTheorems, TLAPS

(* Who owns a reservation and how it is released.                          *)
Owned(r) == r \in DOMAIN owners
Binds(t, r) == At(t, "bind") /\ thread[t].reply.r = r
Releases(t) == At(t, "release") \/ At(t, "pop")

(* What each thread holds in its hands.                                    *)
ThreadsOK ==
  /\ thread \in [Threads -> [pc : {"idle", "bind", "retry", "release", "pop"},
                             reply : Reply \cup [r : Reservations] \cup {None},
                             todo : SUBSET Reservations]]
  /\ \A t \in Threads :
       /\ At(t, "bind") => thread[t].reply \in Reply
       /\ Releases(t) => thread[t].reply \in [r : Reservations]

(* _release_lock: a thread between the two halves of a retry holds it, so  *)
(* the release it carries out is still pending when it comes back.         *)
ReleaseIsExclusive ==
  /\ releaseLock \in Threads \cup {None}
  /\ \A t \in Threads :
       /\ Releases(t) <=> releaseLock = t
       /\ Releases(t) => thread[t].reply.r \in DOMAIN pending
       /\ At(t, "pop") => thread[t].reply.r \notin provider

(* The three tables, by reservation.                                       *)
TablesOK ==
  /\ leases \in [DOMAIN leases -> [state : {"RESERVED", "RELEASE_PENDING", "REVOKED"},
                                   receipt : BOOLEAN]]
  /\ pending \in [DOMAIN pending -> [lease : BOOLEAN, counted : BOOLEAN]]
  /\ owners \in [DOMAIN owners -> {"RESERVED", "RELEASE_PENDING"}]
  /\ DOMAIN leases \subseteq granted
  /\ DOMAIN owners \subseteq granted
  /\ DOMAIN pending = {r \in DOMAIN owners : owners[r] = "RELEASE_PENDING"}
  /\ \A r \in DOMAIN owners :
       owners[r] = "RESERVED" => r \in DOMAIN leases /\ leases[r].state = "RESERVED"
  /\ \A r \in DOMAIN leases :
       leases[r].state = "RESERVED" => r \in DOMAIN owners /\ owners[r] = "RESERVED"
  /\ \A r \in DOMAIN pending :
       pending[r].lease => /\ pending[r].counted
                           /\ r \in DOMAIN leases /\ leases[r].state = "RELEASE_PENDING"
  /\ \A r \in DOMAIN leases :
       leases[r].state = "RELEASE_PENDING" => r \in DOMAIN pending /\ pending[r].lease

(* _active_by_account counts exactly the well-formed owned reservations.   *)
ActiveOK ==
  /\ active \in [Accounts -> SUBSET Reservations]
  /\ \A a \in Accounts :
       /\ IsFiniteSet(active[a])
       /\ \A r \in Reservations :
            r \in active[a] <=> /\ Owned(r) /\ AccountOf[r] = a
                                /\ r \in DOMAIN pending => pending[r].counted

(* The reservation of an answer that no second answer named is still new   *)
(* to the allocator, and in the hands of one thread only; a second answer  *)
(* never carries evidence that can be bound.                               *)
AnswersOK ==
  \A t \in Threads : At(t, "bind") =>
    LET r == thread[t].reply.r IN
    /\ r \in granted
    /\ thread[t].reply.kind # "mismatch" => r \notin replayed
    /\ r \notin replayed =>
         /\ ~ Owned(r) /\ r \notin DOMAIN leases /\ r \in provider
         /\ released[r] = 0
         /\ \A s \in Threads : Binds(s, r) => s = t

(* The provider: what it has granted, holds, and took back.                *)
ProviderOK ==
  /\ granted \subseteq Reservations /\ provider \subseteq granted /\ replayed \subseteq granted
  /\ released \in [Reservations -> Nat]
  /\ \A r \in provider : Owned(r) \/ \E t \in Threads : Binds(t, r)
  /\ \A r \in DOMAIN owners : owners[r] = "RESERVED" => r \in provider
  /\ \A r \in Reservations \ granted : released[r] = 0
  /\ \A r \in Reservations \ replayed :
       /\ released[r] <= 1
       /\ Owned(r) /\ (\A t \in Threads : ~ (At(t, "pop") /\ thread[t].reply.r = r))
            => released[r] = 0

(* Guards and deferred revokes stand on reserved leases.                   *)
GuardsOK ==
  /\ \A r \in guards : r \in DOMAIN leases /\ leases[r].state = "RESERVED"
  /\ deferred \subseteq guards
  /\ expired \subseteq Reservations
  /\ revoked \subseteq DOMAIN leases
  /\ RevokeIsKept

IInv ==
  /\ ThreadsOK /\ ReleaseIsExclusive
  /\ TablesOK /\ ActiveOK
  /\ AnswersOK /\ ProviderOK
  /\ GuardsOK /\ LeasesWithinCapacity

-----------------------------------------------------------------------------
LEMMA ReplyFacts ==
  ASSUME NEW x \in Reply
  PROVE  /\ x.r \in Reservations
         /\ x.kind \in {"good", "mismatch", "malformed"}
         /\ x.kind = "good" => x.units \in Units
  BY DEF Reply


-----------------------------------------------------------------------------
(* What the parts of an action do *)

(* A thread that goes on to retry, or is done, holds nothing any more.     *)
LEMMA RetryThread ==
  ASSUME ThreadsOK, NEW t \in Threads, NEW rs \in SUBSET Reservations, Retry(t, rs)
  PROVE  /\ ThreadsOK'
         /\ \A s \in Threads : s # t => thread'[s] = thread[s]
         /\ thread'[t].pc \in {"idle", "retry"}
  BY DEF ThreadsOK, Retry, Idle, At, Releases

LEMMA BindThread ==
  ASSUME ThreadsOK, NEW t \in Threads, NEW reply \in Reply,
         thread' = [thread EXCEPT ![t] = [pc |-> "bind", reply |-> reply, todo |-> {}]]
  PROVE  /\ ThreadsOK'
         /\ \A s \in Threads : s # t => thread'[s] = thread[s]
         /\ thread'[t].pc = "bind" /\ thread'[t].reply = reply
  BY DEF ThreadsOK, At, Releases

(* The leases of an account that count against its capacity.               *)
Outstanding(a) == {r \in DOMAIN leases : AccountOf[r] = a /\ leases[r].state # "REVOKED"}

LEMMA OutstandingIsActive ==
  ASSUME TablesOK, ActiveOK, ProviderOK, NEW a \in Accounts
  PROVE  /\ Outstanding(a) \subseteq active[a] /\ IsFiniteSet(Outstanding(a))
         /\ Cardinality(Outstanding(a)) \in Nat
         /\ Cardinality(Outstanding(a)) <= Cardinality(active[a])
<1>1. Outstanding(a) \subseteq active[a]
  BY DEF TablesOK, ActiveOK, ProviderOK, Outstanding, Owned
<1>2. IsFiniteSet(active[a])
  BY DEF ActiveOK
<1>. QED
  BY <1>1, <1>2, FS_Subset, FS_CardinalityType

LEMMA CapacityIsKept ==
  ASSUME TablesOK, ActiveOK, ProviderOK, LeasesWithinCapacity,
         \A a \in Accounts : Outstanding(a)' \subseteq Outstanding(a)
  PROVE  LeasesWithinCapacity'
<1> SUFFICES ASSUME NEW a \in Accounts
             PROVE  \E u \in Units : Cardinality(Outstanding(a)') <= u
  BY DEF LeasesWithinCapacity, Outstanding
<1>1. PICK u \in Units : Cardinality(Outstanding(a)) <= u
  BY DEF LeasesWithinCapacity, Outstanding
<1>2. /\ IsFiniteSet(Outstanding(a)) /\ Outstanding(a)' \subseteq Outstanding(a)
      /\ Cardinality(Outstanding(a)) \in Nat
  BY OutstandingIsActive
<1>3. /\ Cardinality(Outstanding(a)') <= Cardinality(Outstanding(a))
      /\ Cardinality(Outstanding(a)') \in Nat
  BY <1>2, FS_Subset, FS_CardinalityType
<1>. QED
  BY <1>1, <1>2, <1>3, AllocatorAssumption

LEMMA TransitionTables ==
  ASSUME TablesOK, ActiveOK, ProviderOK, LeasesWithinCapacity,
         NEW r \in DOMAIN leases, leases[r].state = "RESERVED",
         UNCHANGED granted, TransitionLeaseRelease(r)
  PROVE  /\ TablesOK' /\ ActiveOK'
         /\ DOMAIN owners' = DOMAIN owners /\ DOMAIN leases' = DOMAIN leases
         /\ DOMAIN pending' = DOMAIN pending \cup {r}
         /\ leases'[r].state = "RELEASE_PENDING" /\ owners'[r] = "RELEASE_PENDING"
         /\ \A i \in DOMAIN leases : i # r => leases'[i] = leases[i]
         /\ \A i \in DOMAIN owners : i # r => owners'[i] = owners[i]
         /\ LeasesWithinCapacity'
<1> USE DEF TransitionLeaseRelease, Put, TablesOK, ProviderOK
<1>1. TablesOK'
  OBVIOUS
<1>2. ActiveOK'
  BY DEF ActiveOK, Owned
<1>3. \A a \in Accounts : Outstanding(a)' \subseteq Outstanding(a)
  BY DEF Outstanding
<1>4. LeasesWithinCapacity'
  BY <1>3, CapacityIsKept
<1>. QED
  BY <1>1, <1>2, <1>4

LEMMA QueueTables ==
  ASSUME TablesOK, ActiveOK, ProviderOK, LeasesWithinCapacity, NEW r \in granted,
         NEW w \in BOOLEAN, r \notin DOMAIN owners,
         UNCHANGED granted, QueuePendingRelease(r, w)
  PROVE  /\ TablesOK' /\ ActiveOK' /\ LeasesWithinCapacity'
         /\ DOMAIN owners' = DOMAIN owners \cup {r} /\ owners'[r] = "RELEASE_PENDING"
         /\ DOMAIN pending' = DOMAIN pending \cup {r}
         /\ \A i \in DOMAIN owners : owners'[i] = owners[i]
         /\ leases' = leases
<1> USE AllocatorAssumption DEF QueuePendingRelease, Put, TablesOK, ProviderOK
<1>1. TablesOK'
  OBVIOUS
<1>2. ActiveOK'
  <2>1. active' \in [Accounts -> SUBSET Reservations]
    BY DEF ActiveOK
  <2>2. ASSUME NEW a \in Accounts PROVE IsFiniteSet(active'[a])
    BY FS_AddElement DEF ActiveOK
  <2>3. ASSUME NEW a \in Accounts, NEW i \in Reservations
        PROVE  i \in active'[a] <=> /\ Owned(i)' /\ AccountOf[i] = a
                                    /\ i \in DOMAIN pending' => pending'[i].counted
    BY DEF ActiveOK, Owned
  <2>. QED
    BY <2>1, <2>2, <2>3 DEF ActiveOK
<1>3. \A a \in Accounts : Outstanding(a)' \subseteq Outstanding(a)
  BY DEF Outstanding
<1>4. LeasesWithinCapacity'
  BY <1>3, CapacityIsKept
<1>. QED
  BY <1>1, <1>2, <1>4

LEMMA PopTables ==
  ASSUME TablesOK, ActiveOK, ProviderOK, LeasesWithinCapacity, NEW r \in DOMAIN pending,
         UNCHANGED granted, PopPending(r)
  PROVE  /\ TablesOK' /\ ActiveOK' /\ LeasesWithinCapacity'
         /\ DOMAIN owners' = DOMAIN owners \ {r}
         /\ DOMAIN pending' = DOMAIN pending \ {r}
         /\ DOMAIN leases' = DOMAIN leases
         /\ \A i \in DOMAIN owners' : owners'[i] = owners[i]
         /\ \A i \in DOMAIN leases : i # r => leases'[i] = leases[i]
         /\ r \in DOMAIN leases => leases'[r].state # "RESERVED"
<1> USE AllocatorAssumption DEF PopPending, Drop, TablesOK, ProviderOK
<1>1. TablesOK'
  OBVIOUS
<1>2. ActiveOK'
  <2>1. active' \in [Accounts -> SUBSET Reservations]
    BY DEF ActiveOK
  <2>2. ASSUME NEW a \in Accounts PROVE IsFiniteSet(active'[a])
    BY FS_RemoveElement DEF ActiveOK
  <2>3. ASSUME NEW a \in Accounts, NEW i \in Reservations
        PROVE  i \in active'[a] <=> /\ Owned(i)' /\ AccountOf[i] = a
                                    /\ i \in DOMAIN pending' => pending'[i].counted
    BY DEF ActiveOK, Owned
  <2>. QED
    BY <2>1, <2>2, <2>3 DEF ActiveOK
<1>3. \A a \in Accounts : Outstanding(a)' \subseteq Outstanding(a)
  BY DEF Outstanding
<1>4. LeasesWithinCapacity'
  BY <1>3, CapacityIsKept
<1>. QED
  BY <1>1, <1>2, <1>4

-----------------------------------------------------------------------------
(* Every action preserves IInv *)

LEMMA InitIInv == Init => IInv
<1> SUFFICES ASSUME Init PROVE IInv
  OBVIOUS
<1> USE AllocatorAssumption DEF Init, Owned, Binds, Releases, At, Idle
<1>1. ThreadsOK /\ ReleaseIsExclusive
  BY DEF ThreadsOK, ReleaseIsExclusive
<1>2. TablesOK /\ AnswersOK /\ ProviderOK
  BY DEF TablesOK, AnswersOK, ProviderOK
<1>3. ActiveOK
  BY FS_EmptySet DEF ActiveOK
<1>4. GuardsOK
  BY DEF GuardsOK, RevokeIsKept
<1>5. LeasesWithinCapacity
  <2> SUFFICES ASSUME NEW a \in Accounts
               PROVE  \E u \in Units : Cardinality(Outstanding(a)) <= u
    BY DEF LeasesWithinCapacity, Outstanding
  <2>1. Outstanding(a) = {}
    BY DEF Outstanding
  <2>2. Cardinality(Outstanding(a)) = 0
    BY <2>1, FS_EmptySet
  <2>3. PICK u \in Units : u \in Nat
    OBVIOUS
  <2>4. 0 <= u
    BY <2>3
  <2>. QED
    BY <2>2, <2>3, <2>4
<1>. QED
  BY <1>1, <1>2, <1>3, <1>4, <1>5 DEF IInv

LEMMA ReserveCapabilityIInv ==
  ASSUME IInv, NEW t \in Threads, NEW reply \in Reply, ReserveCapability(t, reply)
  PROVE  IInv'
<1> USE DEF IInv, ReserveCapability, tables, binding
<1>1. /\ ThreadsOK'
      /\ \A s \in Threads : s # t => thread'[s] = thread[s]
      /\ thread'[t].pc = "bind" /\ thread'[t].reply = reply
      /\ thread[t].pc = "idle" /\ reply.r \in Reservations
  BY BindThread, ReplyFacts DEF At
<1> HIDE DEF ReserveCapability
<1>2. /\ reply.r \notin granted /\ granted' = granted \cup {reply.r}
      /\ provider' = provider \cup {reply.r}
      /\ UNCHANGED <<tables, binding, releaseLock, released, replayed, revoked>>
  BY DEF ReserveCapability
<1>3. ReleaseIsExclusive'
  BY <1>1, <1>2 DEF ReleaseIsExclusive, At, Releases, ThreadsOK, TablesOK
<1>4. TablesOK'
  BY <1>2 DEF TablesOK
<1>5. ActiveOK'
  BY <1>2 DEF ActiveOK, Owned
<1>6. AnswersOK'
  BY <1>1, <1>2 DEF AnswersOK, ProviderOK, TablesOK, At, Owned, Binds
<1>7. ProviderOK'
  BY <1>1, <1>2 DEF ProviderOK, At, Owned, Binds
<1>8. GuardsOK' /\ LeasesWithinCapacity'
  BY <1>2 DEF GuardsOK, RevokeIsKept, LeasesWithinCapacity
<1>. QED
  BY <1>1, <1>3, <1>4, <1>5, <1>6, <1>7, <1>8

LEMMA ReserveReplayedIInv ==
  ASSUME IInv, NEW t \in Threads, NEW reply \in Reply, ReserveReplayed(t, reply)
  PROVE  IInv'
<1> USE DEF IInv, tables, binding
<1>1. /\ ThreadsOK'
      /\ \A s \in Threads : s # t => thread'[s] = thread[s]
      /\ thread'[t].pc = "bind" /\ thread'[t].reply = reply
      /\ thread[t].pc = "idle" /\ reply.r \in Reservations
  BY BindThread, ReplyFacts DEF At, ReserveReplayed
<1>2. /\ reply.r \in DOMAIN owners /\ reply.r \in provider /\ reply.kind = "mismatch"
      /\ replayed' = replayed \cup {reply.r}
      /\ UNCHANGED <<tables, binding, releaseLock, provider, granted, released, revoked>>
  BY DEF ReserveReplayed
<1>3. ReleaseIsExclusive'
  BY <1>1, <1>2 DEF ReleaseIsExclusive, At, Releases
<1>4. TablesOK'
  BY <1>2 DEF TablesOK
<1>5. ActiveOK'
  BY <1>2 DEF ActiveOK, Owned
<1>6. AnswersOK'
  BY <1>1, <1>2 DEF AnswersOK, TablesOK, At, Owned, Binds
<1>7. ProviderOK'
  BY <1>1, <1>2 DEF ProviderOK, TablesOK, At, Owned, Binds
<1>8. GuardsOK' /\ LeasesWithinCapacity'
  BY <1>2 DEF GuardsOK, RevokeIsKept, LeasesWithinCapacity
<1>. QED
  BY <1>1, <1>3, <1>4, <1>5, <1>6, <1>7, <1>8

(* _bind_reservation_locked takes a lease only below the stated capacity.  *)
LEMMA LeaseTables ==
  ASSUME TablesOK, ActiveOK, ProviderOK, LeasesWithinCapacity,
         NEW reply \in Reply, reply.kind = "good", NEW r \in granted, reply.r = r,
         r \notin DOMAIN owners, r \notin DOMAIN leases, ~ Exhausted(reply),
         leases' = Put(leases, r, [state |-> "RESERVED", receipt |-> FALSE]),
         owners' = Put(owners, r, "RESERVED"),
         active' = [active EXCEPT ![AccountOf[r]] = @ \cup {r}],
         UNCHANGED <<pending, granted>>
  PROVE  TablesOK' /\ ActiveOK' /\ LeasesWithinCapacity'
<1> USE AllocatorAssumption DEF Put
<1>1. r \in Reservations /\ reply.units \in Units /\ AccountOf[r] \in Accounts
  BY ReplyFacts
<1>2. TablesOK'
  <2> USE DEF TablesOK
  <2>1. leases' \in [DOMAIN leases' -> [state : {"RESERVED", "RELEASE_PENDING", "REVOKED"},
                                        receipt : BOOLEAN]]
    OBVIOUS
  <2>2. owners' \in [DOMAIN owners' -> {"RESERVED", "RELEASE_PENDING"}]
    OBVIOUS
  <2>3. DOMAIN pending' = {i \in DOMAIN owners' : owners'[i] = "RELEASE_PENDING"}
    <3>1. \A i \in DOMAIN owners : owners'[i] = owners[i]
      OBVIOUS
    <3>2. DOMAIN owners' = DOMAIN owners \cup {r} /\ owners'[r] = "RESERVED"
      OBVIOUS
    <3>. QED
      BY <3>1, <3>2
  <2>4. \A i \in DOMAIN owners' :
          owners'[i] = "RESERVED" => i \in DOMAIN leases' /\ leases'[i].state = "RESERVED"
    OBVIOUS
  <2>5. \A i \in DOMAIN leases' :
          leases'[i].state = "RESERVED" => i \in DOMAIN owners' /\ owners'[i] = "RESERVED"
    OBVIOUS
  <2>6. \A i \in DOMAIN pending' :
          pending'[i].lease => /\ pending'[i].counted
                               /\ i \in DOMAIN leases' /\ leases'[i].state = "RELEASE_PENDING"
    OBVIOUS
  <2>7. \A i \in DOMAIN leases' :
          leases'[i].state = "RELEASE_PENDING" => i \in DOMAIN pending' /\ pending'[i].lease
    OBVIOUS
  <2>. QED
    BY <2>1, <2>2, <2>4, <2>5, <2>6, <2>7, <2>3
<1>3. ActiveOK'
  <2>1. active' \in [Accounts -> SUBSET Reservations]
    BY <1>1 DEF ActiveOK
  <2>2. ASSUME NEW a \in Accounts PROVE IsFiniteSet(active'[a])
    BY <1>1, FS_AddElement DEF ActiveOK
  <2>3. ASSUME NEW a \in Accounts, NEW i \in Reservations
        PROVE  i \in active'[a] <=> /\ Owned(i)' /\ AccountOf[i] = a
                                    /\ i \in DOMAIN pending' => pending'[i].counted
    BY <1>1 DEF ActiveOK, Owned, TablesOK
  <2>. QED
    BY <2>1, <2>2, <2>3 DEF ActiveOK
<1>4. LeasesWithinCapacity'
  <2> SUFFICES ASSUME NEW a \in Accounts
               PROVE  \E u \in Units : Cardinality(Outstanding(a)') <= u
    BY DEF LeasesWithinCapacity, Outstanding
  <2>1. CASE a # AccountOf[r]
    <3>1. Outstanding(a)' = Outstanding(a)
      BY <2>1 DEF Outstanding
    <3>. QED
      BY <3>1 DEF LeasesWithinCapacity, Outstanding
  <2>2. CASE a = AccountOf[r]
    <3>1. Outstanding(a)' = Outstanding(a) \cup {r} /\ r \notin Outstanding(a)
      BY <2>2 DEF Outstanding
    <3>2. /\ Outstanding(a) \subseteq active[a] /\ IsFiniteSet(Outstanding(a))
          /\ Cardinality(Outstanding(a)) \in Nat
          /\ Cardinality(Outstanding(a)) <= Cardinality(active[a])
      BY OutstandingIsActive
    <3>3. Cardinality(Outstanding(a)') = Cardinality(Outstanding(a)) + 1
      BY <3>1, <3>2, FS_AddElement
    <3>4. Cardinality(active[a]) \in Nat /\ reply.units \in Nat \ {0}
      BY <1>1, FS_CardinalityType DEF ActiveOK
    <3>5. active[a] = {} \/ Cardinality(active[a]) < reply.units
      BY <2>2, <3>4 DEF Exhausted
    <3>6. CASE active[a] = {}
      <4>1. Cardinality(Outstanding(a)) = 0
        BY <3>2, <3>6, FS_EmptySet
      <4>. QED
        BY <4>1, <3>3, <3>4, <1>1
    <3>7. CASE Cardinality(active[a]) < reply.units
      BY <3>2, <3>3, <3>4, <3>7, <1>1
    <3>. QED
      BY <3>5, <3>6, <3>7
  <2>. QED
    BY <2>1, <2>2
<1>. QED
  BY <1>2, <1>3, <1>4

LEMMA BindReservationIInv ==
  ASSUME IInv, NEW t \in Threads, BindReservation(t)
  PROVE  IInv'
<1> DEFINE reply == thread[t].reply  r == thread[t].reply.r
<1> USE DEF IInv, tables, binding, world
<1>1. /\ thread[t].pc = "bind" /\ reply \in Reply /\ r \in Reservations /\ r \in granted
      /\ UNCHANGED <<binding, releaseLock, world, revoked>>
  BY ReplyFacts DEF BindReservation, ThreadsOK, AnswersOK, At
<1>2. /\ ThreadsOK'
      /\ \A s \in Threads : s # t => thread'[s] = thread[s]
      /\ thread'[t].pc \in {"idle", "retry"}
  BY <1>1, RetryThread DEF BindReservation
<1> HIDE DEF r
<1>3. CASE r \in DOMAIN owners /\ UNCHANGED tables
  <2>1. ReleaseIsExclusive'
    BY <1>1, <1>2, <1>3 DEF ReleaseIsExclusive, At, Releases
  <2>2. TablesOK' /\ ActiveOK'
    BY <1>1, <1>3 DEF TablesOK, ActiveOK, Owned
  <2>3. AnswersOK'
    BY <1>1, <1>2, <1>3 DEF AnswersOK, At, Owned, Binds
  <2>4. ProviderOK'
    BY <1>1, <1>2, <1>3 DEF ProviderOK, At, Owned, Binds, r
  <2>5. GuardsOK' /\ LeasesWithinCapacity'
    BY <1>1, <1>3 DEF GuardsOK, RevokeIsKept, LeasesWithinCapacity
  <2>. QED
    BY <1>2, <2>1, <2>2, <2>3, <2>4, <2>5
<1>4. CASE r \notin DOMAIN owners /\ QueuePendingRelease(r, reply.kind # "malformed")
  <2>1. /\ TablesOK' /\ ActiveOK' /\ LeasesWithinCapacity'
        /\ DOMAIN owners' = DOMAIN owners \cup {r} /\ owners'[r] = "RELEASE_PENDING"
        /\ DOMAIN pending' = DOMAIN pending \cup {r}
        /\ \A i \in DOMAIN owners : owners'[i] = owners[i]
        /\ leases' = leases
    BY <1>1, <1>4, QueueTables
  <2>2. ReleaseIsExclusive'
    BY <1>1, <1>2, <2>1 DEF ReleaseIsExclusive, At, Releases
  <2>3. AnswersOK'
    BY <1>1, <1>2, <2>1 DEF AnswersOK, At, Owned, Binds, r
  <2>4. ProviderOK'
    BY <1>1, <1>2, <1>4, <2>1 DEF ProviderOK, AnswersOK, At, Owned, Binds, r
  <2>5. GuardsOK'
    BY <1>1, <2>1 DEF GuardsOK, RevokeIsKept
  <2>. QED
    BY <1>2, <2>1, <2>2, <2>3, <2>4, <2>5
<1>5. CASE /\ r \notin DOMAIN owners
           /\ reply.kind = "good" /\ ~ Exhausted(reply)
           /\ leases' = Put(leases, r, [state |-> "RESERVED", receipt |-> FALSE])
           /\ owners' = Put(owners, r, "RESERVED")
           /\ active' = [active EXCEPT ![AccountOf[r]] = @ \cup {r}]
           /\ UNCHANGED pending
  <2>1. r \notin DOMAIN leases /\ r \in provider /\ r \notin replayed /\ released[r] = 0
    BY <1>1, <1>5 DEF AnswersOK, At, r
  <2>2. TablesOK' /\ ActiveOK' /\ LeasesWithinCapacity'
    BY <1>1, <1>5, <2>1, LeaseTables DEF r
  <2>3. ReleaseIsExclusive'
    BY <1>1, <1>2, <1>5 DEF ReleaseIsExclusive, At, Releases
  <2>4. AnswersOK'
    BY <1>1, <1>2, <1>5, <2>1 DEF AnswersOK, At, Owned, Binds, Put, r
  <2>5. ProviderOK'
    BY <1>1, <1>2, <1>5, <2>1 DEF ProviderOK, At, Owned, Binds, Put, r
  <2>6. GuardsOK'
    BY <1>1, <1>5, <2>1 DEF GuardsOK, RevokeIsKept, Put
  <2>. QED
    BY <1>2, <2>2, <2>3, <2>4, <2>5, <2>6
<1>. QED
  BY <1>3, <1>4, <1>5 DEF BindReservation, r

LEMMA ReceiptsIInv ==
  ASSUME IInv, NEW r \in Reservations, IssueReceipt(r) \/ VerifyReceipt(r) \/ Expire(r)
  PROVE  IInv'
<1> USE DEF IInv, tables, binding, world
<1>1. CASE VerifyReceipt(r)
  <2> USE <1>1 DEF VerifyReceipt, ReceiptBinding
  <2>1. ThreadsOK' /\ ReleaseIsExclusive' /\ AnswersOK' /\ ProviderOK'
    BY DEF ThreadsOK, ReleaseIsExclusive, AnswersOK, ProviderOK, At, Releases, Binds, Owned
  <2>2. TablesOK' /\ ActiveOK'
    BY DEF TablesOK, ActiveOK, Owned
  <2>3. GuardsOK' /\ LeasesWithinCapacity'
    BY DEF GuardsOK, RevokeIsKept, LeasesWithinCapacity
  <2>. QED
    BY <2>1, <2>2, <2>3
<1>2. CASE Expire(r)
  <2> USE <1>2 DEF Expire
  <2>1. ThreadsOK' /\ ReleaseIsExclusive' /\ AnswersOK' /\ ProviderOK'
    BY DEF ThreadsOK, ReleaseIsExclusive, AnswersOK, ProviderOK, At, Releases, Binds, Owned
  <2>2. TablesOK' /\ ActiveOK'
    BY DEF TablesOK, ActiveOK, Owned
  <2>3. GuardsOK' /\ LeasesWithinCapacity'
    BY DEF GuardsOK, RevokeIsKept, LeasesWithinCapacity
  <2>. QED
    BY <2>1, <2>2, <2>3
<1>3. CASE IssueReceipt(r)
  <2>1. /\ leases' = [leases EXCEPT ![r].receipt = TRUE] /\ r \in DOMAIN leases
        /\ UNCHANGED <<pending, owners, active, latest, binding, releaseLock, thread, world, revoked>>
    BY <1>3 DEF IssueReceipt, ReceiptBinding
  <2>2. /\ DOMAIN leases' = DOMAIN leases
        /\ leases' \in [DOMAIN leases -> [state : {"RESERVED", "RELEASE_PENDING", "REVOKED"},
                                          receipt : BOOLEAN]]
    <3>1. \A i \in DOMAIN leases : i # r => leases'[i] = leases[i]
      BY <2>1
    <3>2. leases[r] = [state |-> leases[r].state, receipt |-> leases[r].receipt]
      BY <2>1 DEF TablesOK
    <3>3. leases'[r] = [state |-> leases[r].state, receipt |-> TRUE]
      BY <2>1, <3>2
    <3>4. leases'[r] \in [state : {"RESERVED", "RELEASE_PENDING", "REVOKED"}, receipt : BOOLEAN]
      <4>1. leases[r].state \in {"RESERVED", "RELEASE_PENDING", "REVOKED"}
        BY <2>1 DEF TablesOK
      <4>. QED
        BY <3>3, <4>1
    <3>. QED
      BY <2>1, <3>1, <3>4 DEF TablesOK
  <2>3. \A i \in DOMAIN leases : leases'[i].state = leases[i].state
    BY <2>1 DEF TablesOK
  <2>4. ThreadsOK' /\ ReleaseIsExclusive' /\ AnswersOK' /\ ProviderOK'
    BY <2>1, <2>2, <2>3 DEF ThreadsOK, ReleaseIsExclusive, AnswersOK, ProviderOK, At, Releases, Binds, Owned
  <2>5. TablesOK'
    BY <2>1, <2>2, <2>3 DEF TablesOK
  <2>6. ActiveOK'
    BY <2>1, <2>2, <2>3 DEF ActiveOK, Owned
  <2>7. \A a \in Accounts : Outstanding(a)' \subseteq Outstanding(a)
    BY <2>1, <2>2, <2>3 DEF Outstanding
  <2>8. LeasesWithinCapacity'
    BY <2>7, CapacityIsKept
  <2>9. GuardsOK'
    BY <2>1, <2>2, <2>3 DEF GuardsOK, RevokeIsKept
  <2>. QED
    BY <2>4, <2>5, <2>6, <2>8, <2>9
<1>. QED
  BY <1>1, <1>2, <1>3

(* An idle thread carries out a revoke, on its own or for a closing guard. *)
LEMMA TransitionParts ==
  ASSUME IInv, NEW t \in Threads, NEW r \in DOMAIN leases, leases[r].state = "RESERVED",
         At(t, "idle"), TransitionLeaseRelease(r), Retry(t, {r}),
         UNCHANGED <<releaseLock, world>>
  PROVE  /\ ThreadsOK' /\ ReleaseIsExclusive' /\ TablesOK' /\ ActiveOK'
         /\ AnswersOK' /\ ProviderOK' /\ LeasesWithinCapacity'
<1> USE DEF IInv, world
<1>1. /\ ThreadsOK'
      /\ \A s \in Threads : s # t => thread'[s] = thread[s]
      /\ thread'[t].pc \in {"idle", "retry"} /\ thread[t].pc = "idle"
  BY RetryThread DEF At, TablesOK, ProviderOK
<1>2. /\ TablesOK' /\ ActiveOK' /\ LeasesWithinCapacity'
      /\ DOMAIN owners' = DOMAIN owners /\ DOMAIN leases' = DOMAIN leases
      /\ DOMAIN pending' = DOMAIN pending \cup {r}
      /\ owners'[r] = "RELEASE_PENDING"
      /\ \A i \in DOMAIN owners : i # r => owners'[i] = owners[i]
  BY TransitionTables
<1>3. ReleaseIsExclusive'
  BY <1>1, <1>2 DEF ReleaseIsExclusive, At, Releases
<1>4. AnswersOK'
  BY <1>1, <1>2 DEF AnswersOK, At, Owned, Binds
<1>5. ProviderOK'
  BY <1>1, <1>2 DEF ProviderOK, At, Owned, Binds
<1>. QED
  BY <1>1, <1>2, <1>3, <1>4, <1>5

(* A thread that only goes on to other retries disturbs nothing.           *)
LEMMA RetryParts ==
  ASSUME IInv, NEW t \in Threads, NEW rs \in SUBSET Reservations,
         At(t, "idle") \/ At(t, "retry"), Retry(t, rs),
         UNCHANGED <<tables, releaseLock, world>>
  PROVE  /\ ThreadsOK' /\ ReleaseIsExclusive' /\ TablesOK' /\ ActiveOK'
         /\ AnswersOK' /\ ProviderOK' /\ LeasesWithinCapacity'
<1> USE DEF IInv, tables, world
<1>1. /\ ThreadsOK'
      /\ \A s \in Threads : s # t => thread'[s] = thread[s]
      /\ thread'[t].pc \in {"idle", "retry"} /\ thread[t].pc \in {"idle", "retry"}
  BY RetryThread DEF At
<1>2. ReleaseIsExclusive'
  BY <1>1 DEF ReleaseIsExclusive, At, Releases
<1>3. TablesOK' /\ ActiveOK'
  BY DEF TablesOK, ActiveOK, Owned
<1>4. LeasesWithinCapacity'
  BY DEF LeasesWithinCapacity
<1>5. AnswersOK'
  BY <1>1 DEF AnswersOK, At, Owned, Binds
<1>6. ProviderOK'
  BY <1>1 DEF ProviderOK, At, Owned, Binds
<1>. QED
  BY <1>1, <1>2, <1>3, <1>5, <1>6, <1>4

LEMMA CloseGuardIInv ==
  ASSUME IInv, NEW t \in Threads, NEW r \in Reservations, CloseGuard(t, r)
  PROVE  IInv'
<1> USE DEF CloseGuard
<1>1. r \in DOMAIN leases /\ leases[r].state = "RESERVED"
  BY DEF IInv, GuardsOK
<1>2. owners[r] = "RESERVED"
  BY <1>1 DEF IInv, TablesOK
<1>3. CASE r \in deferred /\ TransitionLeaseRelease(r) /\ Retry(t, {r})
  <2>1. /\ ThreadsOK' /\ ReleaseIsExclusive' /\ TablesOK' /\ ActiveOK'
        /\ AnswersOK' /\ ProviderOK' /\ LeasesWithinCapacity'
    BY <1>1, <1>3, TransitionParts
  <2>2. /\ DOMAIN leases' = DOMAIN leases
        /\ leases'[r].state = "RELEASE_PENDING"
        /\ \A i \in DOMAIN leases : i # r => leases'[i] = leases[i]
    BY <1>1, <1>3, TransitionTables DEF IInv, world
  <2>3. GuardsOK'
    BY <2>2 DEF IInv, GuardsOK, RevokeIsKept
  <2>. QED
    BY <2>1, <2>3 DEF IInv
<1>4. CASE ~ (r \in deferred /\ ReceiptBinding(r)) /\ Retry(t, {}) /\ UNCHANGED tables
  <2>1. /\ ThreadsOK' /\ ReleaseIsExclusive' /\ TablesOK' /\ ActiveOK'
        /\ AnswersOK' /\ ProviderOK' /\ LeasesWithinCapacity'
    BY <1>4, RetryParts
  <2>2. GuardsOK'
    BY <1>1, <1>2, <1>4 DEF IInv, GuardsOK, RevokeIsKept, ReceiptBinding, tables
  <2>. QED
    BY <2>1, <2>2 DEF IInv
<1>. QED
  BY <1>3, <1>4

LEMMA RevokeIInv ==
  ASSUME IInv, NEW t \in Threads, NEW r \in Reservations, Revoke(t, r)
  PROVE  IInv'
<1> USE DEF Revoke
<1>1. CASE /\ leases[r].state = "RESERVED" /\ r \in guards
           /\ deferred' = deferred \cup {r} /\ UNCHANGED <<tables, thread>>
  <2> USE <1>1 DEF IInv, tables, world
  <2>1. ThreadsOK' /\ ReleaseIsExclusive' /\ AnswersOK' /\ ProviderOK'
    BY DEF ThreadsOK, ReleaseIsExclusive, AnswersOK, ProviderOK, At, Releases, Binds, Owned
  <2>2. TablesOK' /\ ActiveOK'
    BY DEF TablesOK, ActiveOK, Owned
  <2>3. GuardsOK' /\ LeasesWithinCapacity'
    BY DEF GuardsOK, RevokeIsKept, LeasesWithinCapacity
  <2>. QED
    BY <2>1, <2>2, <2>3
<1>2. CASE /\ leases[r].state = "RESERVED" /\ r \notin guards
           /\ TransitionLeaseRelease(r) /\ Retry(t, {r}) /\ UNCHANGED deferred
  <2>1. /\ ThreadsOK' /\ ReleaseIsExclusive' /\ TablesOK' /\ ActiveOK'
        /\ AnswersOK' /\ ProviderOK' /\ LeasesWithinCapacity'
    BY <1>2, TransitionParts
  <2>2. /\ DOMAIN leases' = DOMAIN leases
        /\ leases'[r].state = "RELEASE_PENDING"
        /\ \A i \in DOMAIN leases : i # r => leases'[i] = leases[i]
    BY <1>2, TransitionTables DEF IInv, world
  <2>3. GuardsOK'
    BY <1>2, <2>2 DEF IInv, GuardsOK, RevokeIsKept
  <2>. QED
    BY <2>1, <2>3 DEF IInv
<1>3. CASE leases[r].state = "RELEASE_PENDING" /\ Retry(t, {r}) /\ UNCHANGED <<tables, deferred>>
  <2>1. /\ ThreadsOK' /\ ReleaseIsExclusive' /\ TablesOK' /\ ActiveOK'
        /\ AnswersOK' /\ ProviderOK' /\ LeasesWithinCapacity'
    BY <1>3, RetryParts
  <2>2. GuardsOK'
    BY <1>3 DEF IInv, GuardsOK, RevokeIsKept, tables
  <2>. QED
    BY <2>1, <2>2 DEF IInv
<1>. QED
  BY <1>1, <1>2, <1>3

LEMMA RecoverIInv ==
  ASSUME IInv, NEW t \in Threads, NEW rs \in SUBSET Reservations, Recover(t, rs)
  PROVE  IInv'
<1>1. /\ ThreadsOK' /\ ReleaseIsExclusive' /\ TablesOK' /\ ActiveOK'
      /\ AnswersOK' /\ ProviderOK' /\ LeasesWithinCapacity'
  BY RetryParts DEF Recover
<1>2. GuardsOK'
  BY DEF IInv, GuardsOK, RevokeIsKept, Recover, tables, binding
<1>. QED
  BY <1>1, <1>2 DEF IInv

LEMMA RetryBeginIInv ==
  ASSUME IInv, NEW t \in Threads, NEW r \in Reservations, RetryBegin(t, r)
  PROVE  IInv'
<1>1. thread[t].pc = "retry" /\ thread[t].todo \in SUBSET Reservations /\ releaseLock = None
  BY DEF IInv, RetryBegin, ThreadsOK, At
<1>2. GuardsOK'
  BY DEF IInv, GuardsOK, RevokeIsKept, RetryBegin, tables, binding
<1>3. CASE ~ (r \in DOMAIN pending /\ owners[r] = "RELEASE_PENDING")
  <2>1. /\ ThreadsOK' /\ ReleaseIsExclusive' /\ TablesOK' /\ ActiveOK'
        /\ AnswersOK' /\ ProviderOK' /\ LeasesWithinCapacity'
    BY <1>1, <1>3, RetryParts DEF RetryBegin
  <2>. QED
    BY <1>2, <2>1 DEF IInv
<1>4. CASE r \in DOMAIN pending /\ owners[r] = "RELEASE_PENDING"
  <2> USE DEF IInv, tables, world
  <2>1. /\ releaseLock' = t
        /\ thread' = [thread EXCEPT ![t] = [pc |-> "release", reply |-> [r |-> r],
                                            todo |-> thread[t].todo]]
        /\ UNCHANGED <<tables, world>>
    BY <1>4 DEF RetryBegin
  <2>2. /\ \A s \in Threads : s # t => thread'[s] = thread[s]
        /\ thread'[t].pc = "release" /\ thread'[t].reply = [r |-> r]
        /\ ThreadsOK'
    BY <2>1 DEF ThreadsOK, At, Releases
  <2>3. ReleaseIsExclusive'
    BY <1>1, <1>4, <2>1, <2>2, AllocatorAssumption DEF ReleaseIsExclusive, At, Releases
  <2>4. TablesOK' /\ ActiveOK'
    BY <2>1 DEF TablesOK, ActiveOK, Owned
  <2>5. LeasesWithinCapacity'
    BY <2>1 DEF LeasesWithinCapacity
  <2>6. AnswersOK'
    BY <1>1, <2>1, <2>2 DEF AnswersOK, At, Owned, Binds
  <2>7. ProviderOK'
    BY <1>1, <2>1, <2>2 DEF ProviderOK, At, Owned, Binds
  <2>. QED
    BY <1>2, <2>2, <2>3, <2>4, <2>6, <2>7, <2>5
<1>. QED
  BY <1>3, <1>4

LEMMA ReleaseReservationIInv ==
  ASSUME IInv, NEW t \in Threads, ReleaseReservation(t)
  PROVE  IInv'
<1> DEFINE r == thread[t].reply.r
<1> USE DEF IInv, tables, binding
<1>1. /\ thread[t].pc = "release" /\ releaseLock = t
      /\ r \in Reservations /\ r \in DOMAIN pending
      /\ r \in DOMAIN owners /\ owners[r] = "RELEASE_PENDING"
      /\ thread[t].todo \in SUBSET Reservations
      /\ UNCHANGED <<tables, binding, granted, replayed, revoked>>
  BY DEF ReleaseReservation, ThreadsOK, ReleaseIsExclusive, TablesOK, At, Releases
<1>2. \A s \in Threads : s # t => thread[s].pc \notin {"release", "pop"}
  BY <1>1 DEF ReleaseIsExclusive, At, Releases
<1>3. GuardsOK'
  BY <1>1 DEF GuardsOK, RevokeIsKept
<1>4. TablesOK' /\ ActiveOK'
  BY <1>1 DEF TablesOK, ActiveOK, Owned
<1>5. LeasesWithinCapacity'
  BY <1>1 DEF LeasesWithinCapacity
<1>6. CASE /\ provider' = provider \ {r}
           /\ released' = [released EXCEPT ![r] = @ + 1]
           /\ thread' = [thread EXCEPT ![t].pc = "pop"]
           /\ UNCHANGED releaseLock
  <2>1. /\ \A s \in Threads : s # t => thread'[s] = thread[s]
        /\ thread'[t].pc = "pop" /\ thread'[t].reply = thread[t].reply
        /\ ThreadsOK'
    BY <1>1, <1>6 DEF ThreadsOK, At, Releases
  <2> HIDE DEF r
  <2>2. ReleaseIsExclusive'
    BY <1>1, <1>2, <1>6, <2>1 DEF ReleaseIsExclusive, At, Releases, r
  <2>3. AnswersOK'
    BY <1>1, <1>6, <2>1 DEF AnswersOK, ProviderOK, At, Owned, Binds
  <2>4. ProviderOK'
    <3>1. \A i \in Reservations : i # r => released'[i] = released[i]
      BY <1>1, <1>6 DEF ProviderOK
    <3>2. released'[r] = released[r] + 1 /\ released' \in [Reservations -> Nat]
      BY <1>1, <1>6 DEF ProviderOK
    <3>3. r \notin replayed => released[r] = 0
      BY <1>1, <1>2 DEF ProviderOK, Owned, At, r
    <3>4. \A i \in provider' : Owned(i)' \/ \E s \in Threads : Binds(s, i)'
      BY <1>1, <1>6, <2>1 DEF ProviderOK, Owned, Binds, At
    <3>5. \A i \in DOMAIN owners' : owners'[i] = "RESERVED" => i \in provider'
      BY <1>1, <1>6 DEF ProviderOK
    <3>6. ASSUME NEW i \in Reservations \ replayed
          PROVE  /\ released'[i] <= 1
                 /\ Owned(i)' /\ (\A s \in Threads : ~ (At(s, "pop")' /\ thread'[s].reply.r = i))
                      => released'[i] = 0
      <4>1. CASE i = r
        BY <4>1, <3>2, <3>3, <2>1 DEF At, r
      <4>2. CASE i # r
        BY <4>2, <1>1, <3>1, <2>1 DEF ProviderOK, Owned, At, r
      <4>. QED
        BY <4>1, <4>2
    <3>7. \A i \in Reservations \ granted : released'[i] = 0
      BY <1>1, <3>1 DEF ProviderOK, TablesOK
    <3>. QED
      BY <1>1, <1>6, <3>2, <3>4, <3>5, <3>6, <3>7 DEF ProviderOK
  <2>. QED
    BY <1>3, <1>4, <1>5, <2>1, <2>2, <2>3, <2>4
<1>7. CASE /\ provider' \in {provider, provider \ {r}}
           /\ Retry(t, thread[t].todo \ {r})
           /\ releaseLock' = None
           /\ UNCHANGED released
  <2>1. /\ ThreadsOK'
        /\ \A s \in Threads : s # t => thread'[s] = thread[s]
        /\ thread'[t].pc \in {"idle", "retry"}
    BY <1>1, <1>7, RetryThread
  <2> HIDE DEF r
  <2>2. ReleaseIsExclusive'
    BY <1>1, <1>2, <1>7, <2>1, AllocatorAssumption DEF ReleaseIsExclusive, At, Releases
  <2>3. AnswersOK'
    BY <1>1, <1>7, <2>1 DEF AnswersOK, At, Owned, Binds
  <2>4. ProviderOK'
    BY <1>1, <1>7, <2>1 DEF ProviderOK, At, Owned, Binds
  <2>. QED
    BY <1>3, <1>4, <1>5, <2>1, <2>2, <2>3, <2>4
<1>. QED
  BY <1>6, <1>7 DEF ReleaseReservation

LEMMA RetryEndIInv ==
  ASSUME IInv, NEW t \in Threads, RetryEnd(t)
  PROVE  IInv'
<1> DEFINE r == thread[t].reply.r
<1> USE DEF IInv, binding, world
<1>1. /\ thread[t].pc = "pop" /\ releaseLock = t
      /\ r \in Reservations /\ r \in DOMAIN pending /\ r \notin provider
      /\ r \in DOMAIN owners /\ owners[r] = "RELEASE_PENDING"
      /\ thread[t].todo \in SUBSET Reservations
      /\ releaseLock' = None
      /\ UNCHANGED <<binding, world, revoked>>
  BY DEF RetryEnd, ThreadsOK, ReleaseIsExclusive, TablesOK, At, Releases
<1>2. \A s \in Threads : s # t => thread[s].pc \notin {"release", "pop"}
  BY <1>1 DEF ReleaseIsExclusive, At, Releases
<1>3. /\ ThreadsOK'
      /\ \A s \in Threads : s # t => thread'[s] = thread[s]
      /\ thread'[t].pc \in {"idle", "retry"}
  BY <1>1, RetryThread DEF RetryEnd
<1>4. PopPending(r)
  BY <1>1 DEF RetryEnd
<1> HIDE DEF r
<1>5. /\ TablesOK' /\ ActiveOK' /\ LeasesWithinCapacity'
      /\ DOMAIN owners' = DOMAIN owners \ {r}
      /\ DOMAIN pending' = DOMAIN pending \ {r}
      /\ DOMAIN leases' = DOMAIN leases
      /\ \A i \in DOMAIN owners' : owners'[i] = owners[i]
      /\ \A i \in DOMAIN leases : i # r => leases'[i] = leases[i]
      /\ r \in DOMAIN leases => leases'[r].state # "RESERVED"
  BY <1>1, <1>4, PopTables
<1>6. r \in DOMAIN leases => leases[r].state # "RESERVED"
  BY <1>1 DEF TablesOK
<1>7. ReleaseIsExclusive'
  BY <1>1, <1>2, <1>3, AllocatorAssumption DEF ReleaseIsExclusive, At, Releases
<1>8. AnswersOK'
  BY <1>1, <1>3, <1>5 DEF AnswersOK, At, Owned, Binds
<1>9. ProviderOK'
  BY <1>1, <1>2, <1>3, <1>5 DEF ProviderOK, At, Owned, Binds, r
<1>10. GuardsOK'
  BY <1>1, <1>5, <1>6 DEF GuardsOK, RevokeIsKept
<1>. QED
  BY <1>3, <1>5, <1>7, <1>8, <1>9, <1>10

LEMMA NextIInv == IInv /\ [Next]_vars => IInv'
<1> SUFFICES ASSUME IInv, [Next]_vars PROVE IInv'
  OBVIOUS
<1>1. CASE UNCHANGED vars
  <2> USE <1>1 DEF IInv, vars
  <2>1. ThreadsOK' /\ ReleaseIsExclusive' /\ AnswersOK' /\ ProviderOK'
    BY DEF ThreadsOK, ReleaseIsExclusive, AnswersOK, ProviderOK, At, Releases, Binds, Owned
  <2>2. TablesOK' /\ ActiveOK'
    BY DEF TablesOK, ActiveOK, Owned
  <2>3. GuardsOK' /\ LeasesWithinCapacity'
    BY DEF GuardsOK, RevokeIsKept, LeasesWithinCapacity
  <2>. QED
    BY <2>1, <2>2, <2>3
<1>2. ASSUME NEW t \in Threads, Step(t) PROVE IInv'
  BY <1>2, BindReservationIInv, RetryBeginIInv, ReleaseReservationIInv, RetryEndIInv DEF Step
<1>3. ASSUME NEW t \in Threads, NEW reply \in Reply,
             ReserveCapability(t, reply) \/ ReserveReplayed(t, reply)
      PROVE  IInv'
  BY <1>3, ReserveCapabilityIInv, ReserveReplayedIInv
<1>4. ASSUME NEW t \in Threads, NEW r \in Reservations, CloseGuard(t, r) \/ Revoke(t, r)
      PROVE  IInv'
  BY <1>4, CloseGuardIInv, RevokeIInv
<1>5. ASSUME NEW t \in Threads, NEW rs \in SUBSET Reservations, Recover(t, rs)
      PROVE  IInv'
  BY <1>5, RecoverIInv
<1>6. ASSUME NEW r \in Reservations, IssueReceipt(r) \/ VerifyReceipt(r) \/ Expire(r)
      PROVE  IInv'
  BY <1>6, ReceiptsIInv
<1>. QED
  BY <1>1, <1>2, <1>3, <1>4, <1>5, <1>6 DEF Next

-----------------------------------------------------------------------------
(* The inductive invariant holds in every reachable state.                 *)
THEOREM AllocatorInvariant == Spec => []IInv
  BY InitIInv, NextIInv, PTL DEF Spec

(* _records, _pending_releases, _reservation_owners and _active_by_account *)
(* tell one story; the provider holds nothing that is neither owned nor in *)
(* the hands of a thread, and confirms a release at most once.  A reserve  *)
(* that raises is taken to have reserved nothing.                          *)
THEOREM AllocatorBooksAgree == Spec => []BooksAgree
<1>1. IInv => BooksAgree
  <2> SUFFICES ASSUME IInv PROVE BooksAgree
    OBVIOUS
  <2> USE DEF IInv
  <2>1. TypeOK
    <3>1. DOMAIN leases \cup DOMAIN pending \cup DOMAIN owners \subseteq Reservations
      BY DEF TablesOK, ProviderOK
    <3>2. guards \cup deferred \cup expired \cup revoked \subseteq Reservations
      BY <3>1 DEF GuardsOK
    <3>3. releaseLock \in Threads \cup {None}
      BY DEF ReleaseIsExclusive
    <3>. QED
      BY <3>1, <3>2, <3>3 DEF TypeOK, TablesOK, ActiveOK, ThreadsOK
  <2>2. \A a \in Accounts :
          active[a] = {r \in DOMAIN owners :
                         AccountOf[r] = a /\ (r \in DOMAIN pending => pending[r].counted)}
    BY <2>1 DEF TypeOK, ActiveOK, Owned
  <2>. QED
    BY <2>1, <2>2 DEF BooksAgree, TablesOK, ProviderOK, Owned, Binds
<1>. QED
  BY <1>1, AllocatorInvariant, PTL

(* As long as a verification guard is open, its lease is reserved and the  *)
(* provider still holds the reservation.                                   *)
THEOREM AllocatorGuardedLeaseIsLive == Spec => []GuardedLeaseIsLive
<1>1. IInv => GuardedLeaseIsLive
  BY DEF IInv, GuardsOK, TablesOK, ProviderOK, GuardedLeaseIsLive
<1>. QED
  BY <1>1, AllocatorInvariant, PTL

(* The leases of an account that have not been given back stay within a    *)
(* capacity that some evidence stated.                                     *)
THEOREM AllocatorLeasesWithinCapacity == Spec => []LeasesWithinCapacity
<1>1. IInv => LeasesWithinCapacity
  BY DEF IInv
<1>. QED
  BY <1>1, AllocatorInvariant, PTL

(* Once revoke has returned, the lease does not stay reserved, unless a    *)
(* guard defers it or its evidence has run out.                            *)
THEOREM AllocatorRevokeIsKept == Spec => []RevokeIsKept
<1>1. IInv => RevokeIsKept
  BY DEF IInv, GuardsOK
<1>. QED
  BY <1>1, AllocatorInvariant, PTL
=============================================================================
