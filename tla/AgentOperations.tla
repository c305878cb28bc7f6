-------------------------- MODULE AgentOperations --------------------------
(***************************************************************************)
(* agent_operations.py: the durable queue in which the master keeps the    *)
(* operations of a host until the host's agent polls for them.  A polled   *)
(* operation is leased for LeaseTime and goes back to the queue when the   *)
(* lease runs out; a receipt ends it only while its lease is current.  An  *)
(* operation whose deadline passed, or that used up its attempts, is ended *)
(* by a poll of its host: expire_leases collects it under the store's      *)
(* lock, asks its owner without the lock, and ends it under the lock.      *)
(*                                                                         *)
(* The module is the view of one host: operations of other hosts are       *)
(* passed over by its polls.  Every locked section is one step.            *)
(***************************************************************************)
EXTENDS Integers, Sequences, FiniteSets

CONSTANTS
  Ops,             \* operation ids, naturals: the journal of the agent sorts them
  Fenced,          \* operations of kind ollama.instance; the others are host.probe
  Mutating,        \* those of action apply or stop
  LeaseTime,       \* AGENT_OPERATION_LEASE
  Lifetime,        \* the time from enqueue to the operation's deadline
  MaxAttempts,     \* MAX_AGENT_OPERATION_ATTEMPTS
  MaxReconcile,    \* MAX_AGENT_EXHAUSTION_RECONCILIATIONS_PER_POLL
  MaxTime,         \* bound of the clock
  MaxGen,          \* bound of the registry generation
  MaxEpoch         \* bound of the host's lease epoch

ASSUME QueueAssumption ==
  /\ Ops \subseteq Nat \ {0} /\ Mutating \subseteq Fenced /\ Fenced \subseteq Ops
  /\ \E n \in Ops : \A o \in Ops : o <= n
  /\ LeaseTime \in Nat \ {0} /\ Lifetime \in Nat \ {0}
  /\ MaxAttempts \in Nat \ {0} /\ MaxReconcile \in Nat \ {0}
  /\ MaxTime \in Nat /\ MaxGen \in Nat /\ MaxEpoch \in Nat

VARIABLES
  now,      \* the clock
  gen,      \* generation of the host registry
  epoch,    \* lease epoch the registry binds to the host
  queue,    \* operation ids in the order of the document
  rec,      \* the record of each operation
  polling   \* _active_polls holds the host: what its poll has still to end

queueVars == <<now, gen, epoch, queue, rec, polling>>

(* uuid lease ids are new with every attempt: the attempt stands for both. *)
NoLease == [op |-> 0, attempt |-> 0, gen |-> 0, epoch |-> 0, deadline |-> 0]

Absent ==
  [state |-> "absent", attempt |-> 0, gen |-> 0, epoch |-> 0, deadline |-> 0,
   lease |-> NoLease, why |-> "none"]

Terminal == {"succeeded", "failed", "unknown", "cancelled"}

NoPoll == [active |-> FALSE, due |-> <<>>]

QueueInit ==
  /\ now = 0 /\ gen = 0 /\ epoch = 0
  /\ queue = <<>> /\ rec = [o \in Ops |-> Absent] /\ polling = NoPoll

Ended(r, state, why) ==
  [state |-> state, attempt |-> r.attempt, gen |-> r.gen, epoch |-> r.epoch,
   deadline |-> r.deadline, lease |-> r.lease, why |-> why]

-----------------------------------------------------------------------------
(* A request with a new key; the same request again returns the record, a  *)
(* different one under its key is refused.                                 *)
Enqueue(o) ==
  /\ rec[o].state = "absent" /\ now + Lifetime <= MaxTime
  /\ rec' = [rec EXCEPT ![o] =
               [state |-> "queued", attempt |-> 0, gen |-> gen, epoch |-> epoch,
                deadline |-> now + Lifetime, lease |-> NoLease, why |-> "none"]]
  /\ queue' = Append(queue, o)
  /\ UNCHANGED <<now, gen, epoch, polling>>

Cancel(o) ==
  /\ rec[o].state = "queued"
  /\ rec' = [rec EXCEPT ![o] = Ended(@, "cancelled", "cancelled")]
  /\ UNCHANGED <<now, gen, epoch, queue, polling>>

-----------------------------------------------------------------------------
(* expire_leases: which records a pass changes at once, and which it       *)
(* collects for the owner.                                                 *)
Overdue_LeasedOnly(o) == rec[o].state = "leased" /\ rec[o].deadline <= now

Overdue(o) == rec[o].state \in {"queued", "leased"} /\ rec[o].deadline <= now

LeaseRanOut(o) ==
  rec[o].state = "leased" /\ ~ Overdue(o) /\ rec[o].lease.deadline <= now

Exhausted(o) == LeaseRanOut(o) /\ rec[o].attempt >= MaxAttempts

Requeued(o) == LeaseRanOut(o) /\ rec[o].attempt < MaxAttempts

Leased(r, state, attempt, l) ==
  [state |-> state, attempt |-> attempt, gen |-> r.gen, epoch |-> r.epoch,
   deadline |-> r.deadline, lease |-> l, why |-> r.why]

RequeueExpired ==
  rec' = [o \in Ops |-> IF Requeued(o)
                        THEN Leased(rec[o], "queued", rec[o].attempt, NoLease)
                        ELSE rec[o]]

(* The first MaxReconcile of them, the deadlines before the exhaustions.   *)
(* Each is a copy of what the record was: its lease identifies it.  After  *)
(* a restart of the master, or when the acknowledgement of its owner       *)
(* raised, a record that has ended this way is collected once more and     *)
(* takes a place; nothing else comes of it, and it is left out here.       *)
Collected ==
  LET Due(o) == Overdue(o) \/ Exhausted(o)
      all == SelectSeq(queue, Due)
      few == SubSeq(all, 1, IF Len(all) < MaxReconcile THEN Len(all) ELSE MaxReconcile)
      Item(o) == [op |-> o, lease |-> rec[o].lease,
                  why |-> IF Overdue(o) THEN "expired" ELSE "exhausted"]
      items == [i \in 1 .. Len(few) |-> Item(few[i])]
      Of(why) == SelectSeq(items, LAMBDA i : i.why = why)
  IN  Of("expired") \o Of("exhausted")

(* poll: _begin_poll and the first locked section.  A second poll of the   *)
(* host is refused while one is active.                                    *)
BeginPoll ==
  /\ ~ polling.active
  /\ RequeueExpired
  /\ polling' = [active |-> TRUE, due |-> Collected]
  /\ UNCHANGED <<now, gen, epoch, queue>>

(* A poll of another host requeues too, and leaves what has to be ended.   *)
PollOfAnotherHost ==
  /\ \E o \in Ops : Requeued(o)
  /\ RequeueExpired
  /\ UNCHANGED <<now, gen, epoch, queue, polling>>

(* _finalize_operation_deadline, _finalize_attempt_exhaustion: the record  *)
(* must be what was collected.  The owner of an ollama operation claims    *)
(* nothing; a host probe's owner is the admin store.                       *)
Final_AnyState(item) == TRUE

Final(item) ==
  LET r == rec[item.op]
  IN  /\ r.lease = item.lease
      /\ \/ item.why = "expired" /\ Overdue(item.op)
         \/ item.why = "exhausted" /\ Exhausted(item.op)

FinalizeHead ==
  /\ polling.active /\ polling.due # <<>>
  /\ LET item == Head(polling.due) IN
       /\ Final(item)
       /\ rec' = [rec EXCEPT ![item.op] = Ended(@, "unknown", item.why)]
  /\ polling' = [active |-> TRUE, due |-> Tail(polling.due)]
  /\ UNCHANGED <<now, gen, epoch, queue>>

(* host.lease_stale out of _finalize_*, an owner that raises before its    *)
(* item ends or as it is told of the end, a record newer than the          *)
(* principal, or the master restarts: the poll ends without a lease.       *)
AbortPoll ==
  /\ polling.active
  /\ polling' = NoPoll
  /\ UNCHANGED <<now, gen, epoch, queue, rec>>

-----------------------------------------------------------------------------
(* poll, last locked section, for a principal p: what the registry said    *)
(* when the request came in.  The first record that may be leased is;      *)
(* records before it that were planned against another generation or epoch *)
(* fail; a record newer than p ends the poll before anything is written.   *)
FenceStale(o, p) == o \in Fenced /\ (rec[o].gen # p.gen \/ rec[o].epoch # p.epoch)

TooNew(o, p) == rec[o].state = "queued" /\ rec[o].gen > p.gen

Leasable(o, p) ==
  /\ rec[o].state = "queued" /\ ~ FenceStale(o, p)
  /\ now < rec[o].deadline /\ rec[o].attempt < MaxAttempts

Chosen(p) ==
  LET fit == {i \in 1 .. Len(queue) : Leasable(queue[i], p)}
  IN  IF fit = {} THEN Len(queue) + 1 ELSE CHOOSE i \in fit : \A k \in fit : i <= k

Before(o, p) == \E i \in 1 .. Chosen(p) - 1 : queue[i] = o

NextLease(p) ==
  IF Chosen(p) > Len(queue) THEN NoLease
  ELSE LET o == queue[Chosen(p)]
           end == now + LeaseTime
       IN  [op |-> o, attempt |-> rec[o].attempt + 1, gen |-> p.gen, epoch |-> p.epoch,
            deadline |-> IF end < rec[o].deadline THEN end ELSE rec[o].deadline]

(* host_epochs is left out: it refuses a poll that was let in before an    *)
(* epoch another one has used meanwhile; here such a poll may lease.  A    *)
(* queued record has an attempt left, so the branch of poll that ends one  *)
(* without is not reached.                                                 *)
LeaseNext(p) ==
  /\ polling.active /\ polling.due = <<>>
  /\ LET next == NextLease(p)
         Seen(o) == o = next.op \/ Before(o, p)
     IN  /\ \A o \in Ops : Seen(o) => ~ TooNew(o, p)
         /\ rec' = [o \in Ops |->
              CASE o = next.op ->
                     Leased(rec[o], "leased", rec[o].attempt + 1, next)
                [] rec[o].state = "queued" /\ Before(o, p) /\ FenceStale(o, p) ->
                     Ended(rec[o], "failed", "stale")
                [] OTHER -> rec[o]]
  /\ polling' = NoPoll
  /\ UNCHANGED <<now, gen, epoch, queue>>

-----------------------------------------------------------------------------
(* complete: _validate_binding_epoch and _validate_receipt_fences.  The    *)
(* principal was resolved between the sending of the report, at generation *)
(* r.gen, and now; at the lease's generation it has the lease's epoch.  A  *)
(* receipt for a terminal record is acknowledged when it repeats the       *)
(* completion and refused otherwise: neither changes the record.           *)
OfTheAttempt_Any(r) == TRUE

OfTheAttempt(r) == r.attempt = rec[r.op].attempt

FencesHold(r) ==
  LET l == rec[r.op].lease
  IN  OfTheAttempt(r) /\ r.gen <= l.gen /\ l.gen <= gen /\ r.epoch = l.epoch

Complete(r) ==
  /\ rec[r.op].state = "leased" /\ FencesHold(r)
  /\ now < rec[r.op].deadline /\ now < rec[r.op].lease.deadline
  /\ rec' = [rec EXCEPT ![r.op] = Ended(@, r.state, "receipt")]
  /\ UNCHANGED <<now, gen, epoch, queue, polling>>

-----------------------------------------------------------------------------
Tick == now < MaxTime /\ now' = now + 1 /\ UNCHANGED <<gen, epoch, queue, rec, polling>>

(* Every write of the host registry raises its generation: an accepted     *)
(* probe of any host does.                                                 *)
NewGeneration ==
  /\ gen < MaxGen /\ gen' = gen + 1
  /\ UNCHANGED <<now, epoch, queue, rec, polling>>

(* provision_agent_binding binds the host's agent anew.                    *)
NewEpoch ==
  /\ gen < MaxGen /\ gen' = gen + 1
  /\ epoch < MaxEpoch /\ epoch' = epoch + 1
  /\ UNCHANGED <<now, queue, rec, polling>>
=============================================================================
