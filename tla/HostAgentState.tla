--------------------------- MODULE HostAgentState ---------------------------
(***************************************************************************)
(* host_agent_state.py: the journal in which a host's agent records which  *)
(* leases it accepted, which of them it started to carry out, and the      *)
(* receipts it owes the master.  The journal is one document; an operation *)
(* reads it under a lock, decides, and replaces it.  An operation that the *)
(* code refuses raises HostAgentStateError.                                *)
(*                                                                         *)
(* An operator below maps the journal j, a lease l and the agent's clock t *)
(* to the operation's result: the journal it leaves and what it answers.   *)
(***************************************************************************)
EXTENDS AgentOperations

CONSTANTS
  Executors,       \* processes or threads that execute leases on the host
  MaxAccepted,     \* max_accepted
  MaxReceipts      \* max_receipts

ASSUME JournalAssumption ==
  /\ MaxAccepted \in Nat \ {0} /\ MaxReceipts \in Nat \ {0}
  /\ "none" \notin Executors /\ "dead" \notin Executors

(* A claim is none, its owner, or one whose owner no longer runs: what     *)
(* _claim_alive finds out from the boot id, the process and the thread.    *)
NotAccepted == [lease |-> NoLease, claim |-> "none", clock |-> 0]

NoReceipt == [lease |-> NoLease, state |-> "none"]

Journal(accepted, receipts, hiGen, hiEpoch) ==
  [accepted |-> accepted, receipts |-> receipts, hiGen |-> hiGen, hiEpoch |-> hiEpoch]

EmptyJournal ==
  Journal([o \in Ops |-> NotAccepted], [o \in Ops |-> NoReceipt], 0, 0)

Held(j) == {o \in Ops : j.accepted[o].lease # NoLease}

Saved(j) == {o \in Ops : j.receipts[o].lease # NoLease}

Larger(x, y) == IF x < y THEN y ELSE x

(* _read_locked refuses, for ever, a document over the limits or with work *)
(* above its high-water marks.                                             *)
Readable(j) ==
  /\ Cardinality(Held(j)) <= MaxAccepted /\ Cardinality(Saved(j)) <= MaxReceipts
  /\ \A o \in Ops : \A l \in {j.accepted[o].lease, j.receipts[o].lease} :
       l.gen <= j.hiGen /\ l.epoch <= j.hiEpoch

(* _check_epoch, _check_generation *)
Fresh_EpochOnly(j, l) == l.epoch >= j.hiEpoch

Fresh(j, l) == l.epoch >= j.hiEpoch /\ l.gen >= j.hiGen

(* _deadline_clock: at most the longest lease from now.                    *)
DeadlineClock(l, t) ==
  LET left == Larger(0, l.deadline - t)
  IN  t + (IF left < LeaseTime THEN left ELSE LeaseTime)

-----------------------------------------------------------------------------
(* _finish_locked once its checks passed.                                  *)
Receipted(j, l, state) ==
  Journal([j.accepted EXCEPT ![l.op] = NotAccepted],
          [j.receipts EXCEPT ![l.op] = [lease |-> l, state |-> state]], j.hiGen, j.hiEpoch)

(* _prune: makes room for one receipt, from older generations only and in  *)
(* the order of the operation ids.                                         *)
Prune(j, g) ==
  LET required == Cardinality(Saved(j)) - MaxReceipts + 1
      old == {o \in Saved(j) : j.receipts[o].lease.gen < g}
      gone == {o \in old : Cardinality({p \in old : p < o}) < required}
  IN  Journal(j.accepted, [o \in Ops |-> IF o \in gone THEN NoReceipt ELSE j.receipts[o]],
              j.hiGen, j.hiEpoch)

Full(j) == Cardinality(Saved(j)) >= MaxReceipts

(* _reclaim_expired_locked, in the order of the operation ids: accepted    *)
(* work that ran out is forgotten when nobody claimed it, and becomes      *)
(* unknown when the claim's owner is gone.  doc is the document in memory, *)
(* disk what was written: only a finish writes.                            *)
Forgotten(j, o) ==
  Journal([j.accepted EXCEPT ![o] = NotAccepted], j.receipts, j.hiGen, j.hiEpoch)

ReclaimStep(s, o, t) ==
  LET a == s.doc.accepted[o]
      pruned == Prune(s.doc, a.lease.gen)
      done == Receipted(pruned, a.lease, "unknown")
  IN  IF s.failed \/ o \notin Held(s.doc) \/ t < a.clock THEN s
      ELSE IF a.claim = "none"
           THEN [doc |-> Forgotten(s.doc, o), disk |-> s.disk, changed |-> TRUE, failed |-> FALSE]
      ELSE IF a.claim # "dead" THEN s
      ELSE IF Full(pruned)
           THEN [doc |-> s.doc, disk |-> s.disk, changed |-> s.changed, failed |-> TRUE]
      ELSE [doc |-> done, disk |-> done, changed |-> TRUE, failed |-> FALSE]

LastOp == CHOOSE n \in Ops : \A o \in Ops : o <= n

Reclaim(j, t) ==
  LET pass[n \in 0 .. LastOp] ==
        IF n = 0 THEN [doc |-> j, disk |-> j, changed |-> FALSE, failed |-> FALSE]
        ELSE IF n \in Ops THEN ReclaimStep(pass[n - 1], n, t) ELSE pass[n - 1]
  IN  pass[LastOp]

-----------------------------------------------------------------------------
Refused(j) == [j |-> j, answer |-> "refused"]

(* The lease of a redelivery that carries the same work on: _safe_rebind   *)
(* and _rebind_receipt_locked.                                             *)
Redelivers(l, old, t) ==
  /\ l.attempt > old.attempt /\ l.epoch = old.epoch /\ l.gen >= old.gen
  /\ l.deadline > t

WithLease(j, l, t) ==
  Journal([j.accepted EXCEPT ![l.op] =
             [lease |-> l, claim |-> "none", clock |-> DeadlineClock(l, t)]],
          j.receipts, Larger(j.hiGen, l.gen), Larger(j.hiEpoch, l.epoch))

Rebound(j, l) ==
  Journal(j.accepted,
          [j.receipts EXCEPT ![l.op] = [lease |-> l, state |-> j.receipts[l.op].state]],
          Larger(j.hiGen, l.gen), j.hiEpoch)

AcceptSaved(j, l, t) ==
  LET old == j.receipts[l.op].lease
  IN  IF old = l THEN [j |-> j, answer |-> "replay"]
      ELSE IF Redelivers(l, old, t)
           THEN [j |-> Rebound(j, l), answer |-> "replay"]
           ELSE Refused(j)

AcceptHeld(j, l, t) ==
  LET a == j.accepted[l.op]
  IN  IF a.claim = "none" /\ t >= a.clock /\ Redelivers(l, a.lease, t)
      THEN [j |-> WithLease(j, l, t), answer |-> "accepted"]
      ELSE IF a.lease = l THEN [j |-> j, answer |-> "accepted"]
      ELSE Refused(j)

AcceptNew(j, l, t) ==
  LET r == Reclaim(j, t)
      p == Prune(r.doc, l.gen)
  IN  IF r.failed \/ Full(p) THEN Refused(r.disk)
      ELSE IF Cardinality(Held(p)) >= MaxAccepted
           THEN Refused(IF r.changed THEN p ELSE r.disk)
           ELSE [j |-> WithLease(p, l, t), answer |-> "accepted"]

Accept(j, l, t) ==
  IF ~ Readable(j) \/ ~ Fresh(j, l) THEN Refused(j)
  ELSE IF l.op \in Saved(j) THEN AcceptSaved(j, l, t)
  ELSE IF l.op \in Held(j) THEN AcceptHeld(j, l, t)
  ELSE AcceptNew(j, l, t)

-----------------------------------------------------------------------------
(* recover, after accept: the locked body of its loop.                     *)
Recover(j, l, t) ==
  LET a == j.accepted[l.op]
  IN  IF ~ Readable(j) THEN Refused(j)
      ELSE IF l.op \in Saved(j)
           THEN IF j.receipts[l.op].lease = l THEN [j |-> j, answer |-> "replay"] ELSE Refused(j)
      ELSE IF a.lease # l THEN Refused(j)
      ELSE IF a.claim = "none" THEN [j |-> j, answer |-> "accepted"]
      ELSE IF a.claim = "dead" \/ t >= a.clock
           THEN [j |-> Receipted(j, l, "unknown"), answer |-> "replay"]
      ELSE [j |-> j, answer |-> "wait"]

Claimed(a, claim) == [lease |-> a.lease, claim |-> claim, clock |-> a.clock]

(* begin_effect: one claim for a lease.                                    *)
BeginEffect(j, l, e) ==
  LET a == j.accepted[l.op]
  IN  IF ~ Readable(j) \/ ~ Fresh(j, l) \/ a.lease # l THEN Refused(j)
      ELSE IF a.claim # "none" THEN [j |-> j, answer |-> "lost"]
      ELSE [j |-> Journal([j.accepted EXCEPT ![l.op] = Claimed(a, e)], j.receipts,
                          j.hiGen, j.hiEpoch),
            answer |-> "claimed"]

(* finish, with the claim's token if there is one: an effect's owner holds *)
(* the token of its claim, a probe has none.                               *)
Finish(j, l, claim, state) ==
  IF ~ Readable(j) THEN Refused(j)
  ELSE IF l.op \in Saved(j)
       THEN IF j.receipts[l.op].lease = l THEN [j |-> j, answer |-> "replay"] ELSE Refused(j)
  ELSE IF j.accepted[l.op].lease # l \/ j.accepted[l.op].claim # claim THEN Refused(j)
  ELSE [j |-> Receipted(j, l, state), answer |-> "replay"]

(* The process of e ends: nobody finds its claims alive any more.          *)
Abandoned(j, who) ==
  Journal([o \in Ops |-> IF j.accepted[o].claim \in who THEN Claimed(j.accepted[o], "dead")
                                                        ELSE j.accepted[o]],
          j.receipts, j.hiGen, j.hiEpoch)

(* The host boots: no deadline of an earlier boot is still to come.        *)
Rebooted(j) ==
  LET a == Abandoned(j, Executors).accepted
  IN  Journal([o \in Ops |-> [lease |-> a[o].lease, claim |-> a[o].claim, clock |-> 0]],
              j.receipts, j.hiGen, j.hiEpoch)
=============================================================================
