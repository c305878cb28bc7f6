-------------------------- MODULE HostAgentProofs --------------------------
(***************************************************************************)
(* Proofs about HostAgent, for every set of operations, every number of    *)
(* executors and every limit.  The journal holds one slot per operation:   *)
(* what accept wrote and the receipt.  An operation of the journal changes *)
(* each slot in one of a few ways (Swept, Turned); the invariants speak of *)
(* one slot, one record or one executor at a time, and their operators     *)
(* take that state as parameters.                                          *)
(***************************************************************************)
EXTENDS HostAgent, FiniteSetTheorems, NaturalsInduction, WellFoundedInduction, TLAPS

Labels ==
  {"idle", "connected", "polling", "leased", "recovering", "ready", "effect", "finishing",
   "report", "stopped"}

Working == {"leased", "recovering", "ready", "effect", "finishing"}

Known == {"succeeded", "failed", "unknown"}

Lease == [op : Ops, attempt : Nat \ {0}, gen : Nat, epoch : Nat, deadline : Nat]

Record ==
  [state : {"absent", "queued", "leased"} \cup Terminal, attempt : Nat, gen : Nat,
   epoch : Nat, deadline : Nat, lease : Lease \cup {NoLease},
   why : {"none", "cancelled", "expired", "exhausted", "stale", "receipt"}]

Accepted ==
  [lease : Lease \cup {NoLease}, claim : Executors \cup {"none", "dead"}, clock : Nat]

Receipts == [lease : Lease \cup {NoLease}, state : Known \cup {"none"}]

Reports == [op : Nat, attempt : Nat, epoch : Nat, gen : Nat, state : Known \cup {"none"}]

Journals ==
  [accepted : [Ops -> Accepted], receipts : [Ops -> Receipts], hiGen : Nat, hiEpoch : Nat]

TypeOK ==
  /\ now \in Nat /\ gen \in Nat /\ epoch \in Nat /\ agentEpoch \in Nat
  /\ queue \in Seq(Ops) /\ rec \in [Ops -> Record]
  /\ journal \in Journals
  /\ pc \in [Executors -> Labels]
  /\ principal \in [Executors -> [gen : Nat, epoch : Nat]]
  /\ lease \in [Executors -> Lease \cup {NoLease}]
  /\ receipt \in [Executors -> Reports]
  /\ sent \subseteq Reports
  /\ effects \in [Ops -> Nat]

-----------------------------------------------------------------------------
(* l is a lease the queue gave out for o: not newer than the record r, at  *)
(* the record's generation if o is fenced, and the record's own lease if   *)
(* it is of the record's attempt.                                          *)
Issued(l, o, r, g) ==
  /\ l \in Lease /\ l.op = o
  /\ l.attempt <= r.attempt /\ l.gen <= g
  /\ o \in Fenced => l.gen = r.gen
  /\ r.lease # NoLease /\ l.attempt = r.attempt => l = r.lease

RecordOK(o, r, g) ==
  /\ r.gen <= g
  /\ r.lease # NoLease => Issued(r.lease, o, r, g) /\ r.lease.attempt = r.attempt
  /\ r.state = "absent" => r.attempt = 0
  /\ r.state = "leased" => r.lease # NoLease
  /\ r.why = "receipt" => r.state \in Terminal /\ r.lease # NoLease

(* a is what accept wrote for o and c the receipt: never both.             *)
SlotOK(o, a, c, r, g) ==
  /\ a.lease # NoLease => Issued(a.lease, o, r, g)
  /\ a.lease = NoLease => a.claim = "none"
  /\ c.lease # NoLease => Issued(c.lease, o, r, g) /\ c.state \in Known
  /\ a.lease = NoLease \/ c.lease = NoLease

(* A state a receipt may carry when the effect happened n times.           *)
Truth(state, n) == (state = "succeeded" => n = 1) /\ (state = "failed" => n = 0)

(* An effect leaves a trace that no lease of o gets past: a claim, a       *)
(* receipt, or a high-water mark above the only generation o is leased at. *)
EffectOK(o, a, c, hi, r, n) ==
  o \in Mutating =>
    /\ n <= 1
    /\ n > 0 => /\ r.attempt > 0
                /\ a.claim # "none" \/ c.lease # NoLease \/ hi > r.gen
    /\ c.lease # NoLease => Truth(c.state, n)

(* No executor carries o out any more.                                     *)
Over(a, c, hi, r) == c.lease # NoLease \/ (a.lease = NoLease /\ hi > r.gen)

(* What is said of o (attempt and state of a report or a record) is true   *)
(* and stays true.                                                         *)
Said(o, attempt, state, a, c, hi, r, n) ==
  /\ attempt \in Nat \ {0} /\ attempt <= r.attempt /\ state \in Known
  /\ o \in Mutating => Over(a, c, hi, r) /\ Truth(state, n)

(* The journal's receipt of o is that of the record's lease, or was pruned *)
(* and cannot come back.                                                   *)
Settled(state, a, c, hi, r) ==
  \/ c.lease = r.lease /\ c.state = state
  \/ c.lease = NoLease /\ a.lease = NoLease /\ hi > r.lease.gen

(* No executor has a lease of o that is newer than g.                      *)
NoneNewer(o, ls, g) ==
  \A e \in Executors : ls[e] # NoLease /\ ls[e].op = o => ls[e].gen <= g

(* A report of state for the attempt, at generation g, that would pass the *)
(* fences of the master tells what the journal has settled.                *)
Stands(o, attempt, g, state, a, c, hi, r, ls) ==
  r.lease # NoLease /\ attempt = r.attempt /\ g <= r.lease.gen =>
    Settled(state, a, c, hi, r) /\ NoneNewer(o, ls, r.lease.gen)

-----------------------------------------------------------------------------
(* The parts of the invariant.                                             *)
RecordsOK(R, g) == \A o \in Ops : RecordOK(o, R[o], g)

JournalOK(j, R, g) == \A o \in Ops : SlotOK(o, j.accepted[o], j.receipts[o], R[o], g)

PrincipalsOK(ps, g) == \A e \in Executors : ps[e].gen <= g

LeasesOK(pcs, ls, R, g) ==
  \A e \in Executors :
    /\ (pcs[e] \in Working) <=> (ls[e] # NoLease)
    /\ ls[e] # NoLease => Issued(ls[e], ls[e].op, R[ls[e].op], g)

LeasesApart(ls) ==
  \A e, f \in Executors :
    ls[e] # NoLease /\ ls[f] # NoLease /\ ls[e].op = ls[f].op /\ ls[e].attempt = ls[f].attempt
      => e = f

(* The executor of a mutating operation holds the claim from before its    *)
(* effect until there is a receipt.                                        *)
ClaimOK(e, label, l, t, j, n) ==
  /\ label \in {"effect", "finishing"} /\ l.op \in Mutating =>
       j.accepted[l.op].lease = l /\ j.accepted[l.op].claim = e
  /\ label = "effect" /\ l.op \in Mutating => n[l.op] = 0
  /\ label = "finishing" => t.state \in Known /\ (l.op \in Mutating => Truth(t.state, n[l.op]))

ClaimsOK(pcs, ls, ts, j, n) == \A e \in Executors : ClaimOK(e, pcs[e], ls[e], ts[e], j, n)

EffectsOK(j, R, n) ==
  \A o \in Ops : EffectOK(o, j.accepted[o], j.receipts[o], j.hiGen, R[o], n[o])

SaidOK(t, j, R, n) ==
  /\ t.op \in Ops
  /\ Said(t.op, t.attempt, t.state, j.accepted[t.op], j.receipts[t.op], j.hiGen, R[t.op],
          n[t.op])

StandsOK(t, g, j, R, ls) ==
  Stands(t.op, t.attempt, g, t.state, j.accepted[t.op], j.receipts[t.op], j.hiGen, R[t.op], ls)

SentOK(s, ls, j, R, n) == \A t \in s : SaidOK(t, j, R, n) /\ StandsOK(t, t.gen, j, R, ls)

ToldOK(o, r, ls, a, c, hi, n) ==
  r.why = "receipt" =>
    /\ Said(o, r.attempt, r.state, a, c, hi, r, n)
    /\ Settled(r.state, a, c, hi, r) /\ NoneNewer(o, ls, r.lease.gen)

RecordsTold(ls, j, R, n) ==
  \A o \in Ops : ToldOK(o, R[o], ls, j.accepted[o], j.receipts[o], j.hiGen, n[o])

(* Everything that is said of the operations and that the journal must     *)
(* bear out: by executors in who that are about to report, by reports on   *)
(* their way, and by records.                                              *)
AllSaid(who, R, g, j, pcs, ls, ts, s, n) ==
  /\ \A f \in who : pcs[f] = "report" => SaidOK(ts[f], j, R, n) /\ StandsOK(ts[f], g, j, R, ls)
  /\ SentOK(s, ls, j, R, n)
  /\ RecordsTold(ls, j, R, n)

(* The records, the journal, the leases of the executors and the effects.  *)
Base(R, g, j, pcs, ls, n) ==
  /\ R \in [Ops -> Record] /\ g \in Nat /\ j \in Journals
  /\ ls \in [Executors -> Lease \cup {NoLease}] /\ n \in [Ops -> Nat]
  /\ RecordsOK(R, g) /\ JournalOK(j, R, g)
  /\ LeasesOK(pcs, ls, R, g) /\ LeasesApart(ls)
  /\ EffectsOK(j, R, n)

World(R, g, j, pcs, ls, ts, s, n) ==
  /\ Base(R, g, j, pcs, ls, n)
  /\ ClaimsOK(pcs, ls, ts, j, n)
  /\ AllSaid(Executors, R, g, j, pcs, ls, ts, s, n)

IInv ==
  /\ TypeOK /\ PrincipalsOK(principal, gen)
  /\ World(rec, gen, journal, pc, lease, receipt, sent, effects)

-----------------------------------------------------------------------------
(* What an operation of the journal does to the slot of an operation it is *)
(* not about: from (a, c) to (b, d), with hi the high-water mark after it. *)
Swept(a, c, b, d, hi) ==
  \/ b = a /\ d = c
  \/ a.lease # NoLease /\ a.claim = "none" /\ b = NotAccepted /\ d = c
  \/ /\ a.lease # NoLease /\ a.claim = "dead" /\ b = NotAccepted
     /\ \/ d = [lease |-> a.lease, state |-> "unknown"]
        \/ d = NoReceipt /\ a.lease.gen < hi
  \/ c.lease # NoLease /\ b = a /\ d = NoReceipt /\ c.lease.gen < hi

SweptSlots(j, k) ==
  \A o \in Ops : Swept(j.accepted[o], j.receipts[o], k.accepted[o], k.receipts[o], k.hiGen)

(* What _reclaim_expired_locked and _prune rely on.                        *)
Tidy(j) ==
  \A o \in Ops :
    /\ j.accepted[o].lease # NoLease =>
         j.accepted[o].lease.op = o /\ j.accepted[o].lease.gen <= j.hiGen
    /\ j.accepted[o].lease = NoLease \/ j.receipts[o].lease = NoLease

Sweeps(j, k) ==
  k \in Journals /\ k.hiGen = j.hiGen /\ k.hiEpoch = j.hiEpoch /\ SweptSlots(j, k)

Sweeping(j, s) ==
  /\ Sweeps(j, s.doc) /\ Sweeps(j, s.disk)
  /\ s.changed \in BOOLEAN
  /\ s.changed => \E o \in Held(j) : o \notin Held(s.doc)

LEMMA MinExists ==
  ASSUME NEW S, S \subseteq Nat, S # {}
  PROVE  \E x \in S : \A y \in S : x <= y
<1> DEFINE R == {ss \in Nat \X Nat : ss[1] < ss[2]}
<1>1. IsWellFoundedOn(R, Nat)
  BY NatLessThanWellFounded, Zenon DEF OpToRel
<1> HIDE DEF R
<1>2. PICK x \in S : \A y \in S : ~ (<<y, x>> \in R)
  BY <1>1, WFMin
<1>3. ASSUME NEW y \in S PROVE x <= y
  <2>1. \A m, n \in Nat : m < n => <<m, n>> \in R
    BY DEF R
  <2>2. y \in Nat /\ x \in Nat /\ ~ (<<y, x>> \in R)
    BY <1>2, Zenon
  <2>3. ~ (y < x)
    BY <2>1, <2>2, Zenon
  <2>. QED
    BY <2>2, <2>3
<1>. QED
  BY <1>3

LEMMA NoLeaseApart == NoLease \notin Lease /\ NoLease.op \notin Ops
BY QueueAssumption DEF NoLease, Lease

LEMMA LastOpOK == LastOp \in Ops /\ LastOp \in Nat /\ \A o \in Ops : o \in Nat /\ o <= LastOp
<1>1. \E n \in Ops : \A o \in Ops : o <= n
  BY QueueAssumption
<1>2. LastOp \in Ops /\ \A o \in Ops : o <= LastOp
  BY <1>1, Zenon DEF LastOp
<1>. QED
  BY <1>2, QueueAssumption

LEMMA OpsFinite == IsFiniteSet(Ops)
<1>1. IsFiniteSet(1 .. LastOp)
  BY LastOpOK, FS_Interval
<1>2. Ops \subseteq 1 .. LastOp
  BY LastOpOK, QueueAssumption
<1>. QED
  BY <1>1, <1>2, FS_Subset

-----------------------------------------------------------------------------
(* _prune and _reclaim_expired_locked                                      *)

(* The recursive function of Reclaim satisfies its equation.               *)
LEMMA ReclaimRuns ==
  ASSUME NEW j, NEW t
  PROVE  \E f : /\ Reclaim(j, t) = f[LastOp]
                /\ f[0] = [doc |-> j, disk |-> j, changed |-> FALSE, failed |-> FALSE]
                /\ \A n \in 1 .. LastOp :
                     f[n] = IF n \in Ops THEN ReclaimStep(f[n - 1], n, t) ELSE f[n - 1]
<1> DEFINE base == [doc |-> j, disk |-> j, changed |-> FALSE, failed |-> FALSE]
           H(x, n) == IF n \in Ops THEN ReclaimStep(x, n, t) ELSE x
           Eq(f, m) == f = [n \in 0 .. m |-> IF n = 0 THEN base ELSE H(f[n - 1], n)]
           pass == CHOOSE f : f = [n \in 0 .. LastOp |->
                     IF n = 0 THEN [doc |-> j, disk |-> j, changed |-> FALSE, failed |-> FALSE]
                     ELSE IF n \in Ops THEN ReclaimStep(f[n - 1], n, t) ELSE f[n - 1]]
<1>1. Reclaim(j, t) = pass[LastOp]
  BY Zenon DEF Reclaim
<1>2. pass = CHOOSE f : Eq(f, LastOp)
  BY Zenon
<1> HIDE DEF base, H, pass
<1>3. ASSUME NEW m \in Nat PROVE \E f : Eq(f, m)
  <2> DEFINE S == {k \in Nat : ~ \E f : Eq(f, k)}
  <2>1. SUFFICES ASSUME S # {} PROVE FALSE
    BY Zenon
  <2>2. PICK k \in S : \A y \in S : k <= y
    BY <2>1, MinExists
  <2>3. CASE k = 0
    <3>1. Eq([n \in 0 .. 0 |-> base], 0)
      OBVIOUS
    <3>. QED
      BY <2>2, <2>3, <3>1
  <2>4. CASE k # 0
    <3>1. k - 1 \in Nat /\ k \in Nat /\ k - 1 \notin S
      BY <2>2, <2>4
    <3>2. PICK g : Eq(g, k - 1)
      BY <3>1, Zenon
    <3> DEFINE f == [n \in 0 .. k |-> IF n = k THEN H(g[k - 1], k) ELSE g[n]]
    <3>3. DOMAIN f = 0 .. k /\ \A n \in 0 .. k : f[n] = IF n = k THEN H(g[k - 1], k) ELSE g[n]
      OBVIOUS
    <3>4. \A n \in 0 .. k - 1 : g[n] = IF n = 0 THEN base ELSE H(g[n - 1], n)
      BY <3>2
    <3> HIDE DEF f
    <3>5. ASSUME NEW n \in 0 .. k
          PROVE  f[n] = IF n = 0 THEN base ELSE H(f[n - 1], n)
      <4>1. CASE n = k
        <5>1. f[k - 1] = g[k - 1] /\ f[k] = H(g[k - 1], k)
          BY <3>1, <3>3
        <5>. QED
          BY <4>1, <5>1, <2>4
      <4>2. CASE n # k /\ n # 0
        <5>1. n \in 0 .. k - 1 /\ n - 1 \in 0 .. k /\ n - 1 # k
          BY <4>2, <3>1
        <5>2. f[n] = g[n] /\ f[n - 1] = g[n - 1]
          BY <3>3, <4>2, <5>1
        <5>. QED
          BY <3>4, <4>2, <5>1, <5>2
      <4>3. CASE n # k /\ n = 0
        BY <4>3, <3>3, <3>4, <3>1
      <4>. QED
        BY <4>1, <4>2, <4>3
    <3>6. f = [n \in 0 .. k |-> f[n]]
      BY DEF f
    <3>7. Eq(f, k)
      BY <3>5, <3>6
    <3>. QED
      BY <2>2, <3>7, Zenon
  <2>. QED
    BY <2>3, <2>4
<1>4. Eq(pass, LastOp)
  BY <1>2, <1>3, LastOpOK, Zenon
<1>5. pass[0] = base /\ \A n \in 1 .. LastOp : pass[n] = H(pass[n - 1], n)
  BY <1>4, LastOpOK
<1>. QED
  BY <1>1, <1>5, Zenon DEF base, H

LEMMA JournalFields ==
  ASSUME NEW j \in Journals
  PROVE  /\ j.accepted \in [Ops -> Accepted] /\ j.receipts \in [Ops -> Receipts]
         /\ j.hiGen \in Nat /\ j.hiEpoch \in Nat
BY DEF Journals

LEMMA JournalMade ==
  ASSUME NEW x \in [Ops -> Accepted], NEW y \in [Ops -> Receipts], NEW g \in Nat, NEW h \in Nat
  PROVE  /\ Journal(x, y, g, h) \in Journals
         /\ Journal(x, y, g, h).accepted = x /\ Journal(x, y, g, h).receipts = y
         /\ Journal(x, y, g, h).hiGen = g /\ Journal(x, y, g, h).hiEpoch = h
BY DEF Journal, Journals

LEMMA NothingTyped == NotAccepted \in Accepted /\ NoReceipt \in Receipts
BY DEF NotAccepted, NoReceipt, Accepted, Receipts

(* _prune takes receipts of older generations only.                        *)
LEMMA PruneTakes ==
  ASSUME NEW j \in Journals, NEW g
  PROVE  /\ Prune(j, g) \in Journals
         /\ Prune(j, g).accepted = j.accepted
         /\ Prune(j, g).hiGen = j.hiGen /\ Prune(j, g).hiEpoch = j.hiEpoch
         /\ \A o \in Ops :
              \/ Prune(j, g).receipts[o] = j.receipts[o]
              \/ /\ j.receipts[o].lease # NoLease /\ j.receipts[o].lease.gen < g
                 /\ Prune(j, g).receipts[o] = NoReceipt
<1> DEFINE required == Cardinality(Saved(j)) - MaxReceipts + 1
           old == {o \in Saved(j) : j.receipts[o].lease.gen < g}
           gone == {o \in old : Cardinality({p \in old : p < o}) < required}
           y == [o \in Ops |-> IF o \in gone THEN NoReceipt ELSE j.receipts[o]]
<1>1. Prune(j, g) = Journal(j.accepted, y, j.hiGen, j.hiEpoch)
  BY Zenon DEF Prune
<1>2. \A o \in gone : j.receipts[o].lease # NoLease /\ j.receipts[o].lease.gen < g
  BY Zenon DEF Saved
<1> HIDE DEF gone
<1>3. y \in [Ops -> Receipts]
  BY JournalFields, NothingTyped
<1>4. \A o \in Ops : y[o] = IF o \in gone THEN NoReceipt ELSE j.receipts[o]
  OBVIOUS
<1> HIDE DEF y
<1>5. /\ Prune(j, g) \in Journals
      /\ Prune(j, g).accepted = j.accepted /\ Prune(j, g).receipts = y
      /\ Prune(j, g).hiGen = j.hiGen /\ Prune(j, g).hiEpoch = j.hiEpoch
  BY <1>1, <1>3, JournalFields, JournalMade
<1>. QED
  BY <1>2, <1>4, <1>5

LEMMA ReceiptedIs ==
  ASSUME NEW j \in Journals, NEW l \in Lease, NEW state \in Known
  PROVE  /\ Receipted(j, l, state) \in Journals
         /\ Receipted(j, l, state).hiGen = j.hiGen /\ Receipted(j, l, state).hiEpoch = j.hiEpoch
         /\ \A o \in Ops :
              /\ Receipted(j, l, state).accepted[o] = IF o = l.op THEN NotAccepted
                                                                  ELSE j.accepted[o]
              /\ Receipted(j, l, state).receipts[o] = IF o = l.op
                                                      THEN [lease |-> l, state |-> state]
                                                      ELSE j.receipts[o]
<1> DEFINE x == [j.accepted EXCEPT ![l.op] = NotAccepted]
           y == [j.receipts EXCEPT ![l.op] = [lease |-> l, state |-> state]]
<1>1. [lease |-> l, state |-> state] \in Receipts
  BY DEF Receipts
<1>2. x \in [Ops -> Accepted] /\ \A o \in Ops : x[o] = IF o = l.op THEN NotAccepted
                                                                 ELSE j.accepted[o]
  BY JournalFields, NothingTyped
<1>3. /\ y \in [Ops -> Receipts]
      /\ \A o \in Ops : y[o] = IF o = l.op THEN [lease |-> l, state |-> state]
                                           ELSE j.receipts[o]
  BY <1>1, JournalFields
<1>4. Receipted(j, l, state) = Journal(x, y, j.hiGen, j.hiEpoch)
  BY DEF Receipted
<1> HIDE DEF x, y
<1>. QED
  BY <1>2, <1>3, <1>4, JournalFields, JournalMade

LEMMA ForgottenIs ==
  ASSUME NEW j \in Journals, NEW p \in Ops
  PROVE  /\ Forgotten(j, p) \in Journals
         /\ Forgotten(j, p).hiGen = j.hiGen /\ Forgotten(j, p).hiEpoch = j.hiEpoch
         /\ Forgotten(j, p).receipts = j.receipts
         /\ \A o \in Ops : Forgotten(j, p).accepted[o] = IF o = p THEN NotAccepted
                                                                  ELSE j.accepted[o]
<1> DEFINE x == [j.accepted EXCEPT ![p] = NotAccepted]
<1>1. x \in [Ops -> Accepted] /\ \A o \in Ops : x[o] = IF o = p THEN NotAccepted
                                                              ELSE j.accepted[o]
  BY JournalFields, NothingTyped
<1>2. Forgotten(j, p) = Journal(x, j.receipts, j.hiGen, j.hiEpoch)
  BY DEF Forgotten
<1> HIDE DEF x
<1>. QED
  BY <1>1, <1>2, JournalFields, JournalMade

LEMMA SweptDrop ==
  ASSUME NEW a, NEW c, NEW b, NEW d, NEW f, NEW hi,
         a.lease = NoLease \/ c.lease = NoLease,
         Swept(a, c, b, d, hi),
         f = d \/ (d.lease # NoLease /\ d.lease.gen < hi /\ f = NoReceipt)
  PROVE  Swept(a, c, b, f, hi)
BY DEF Swept, NoReceipt

LEMMA SweepPrune ==
  ASSUME NEW j \in Journals, Tidy(j), NEW k, Sweeps(j, k), NEW g \in Nat, g <= j.hiGen
  PROVE  Sweeps(j, Prune(k, g))
<1> DEFINE p == Prune(k, g)
<1>1. k \in Journals /\ k.hiGen = j.hiGen /\ k.hiEpoch = j.hiEpoch /\ SweptSlots(j, k)
  BY DEF Sweeps
<1>2. /\ p \in Journals /\ p.accepted = k.accepted /\ p.hiGen = k.hiGen /\ p.hiEpoch = k.hiEpoch
      /\ \A o \in Ops :
           \/ p.receipts[o] = k.receipts[o]
           \/ /\ k.receipts[o].lease # NoLease /\ k.receipts[o].lease.gen < g
              /\ p.receipts[o] = NoReceipt
  BY <1>1, PruneTakes
<1> HIDE DEF p
<1>3. ASSUME NEW o \in Ops
      PROVE  Swept(j.accepted[o], j.receipts[o], p.accepted[o], p.receipts[o], p.hiGen)
  <2>1. j.accepted[o].lease = NoLease \/ j.receipts[o].lease = NoLease
    BY DEF Tidy
  <2>2. Swept(j.accepted[o], j.receipts[o], k.accepted[o], k.receipts[o], j.hiGen)
    BY <1>1 DEF SweptSlots
  <2>3. k.receipts[o].lease \in Lease \cup {NoLease}
    BY <1>1, JournalFields DEF Receipts
  <2>4. k.receipts[o].lease # NoLease => k.receipts[o].lease.gen \in Nat
    BY <2>3 DEF Lease
  <2>5. \/ p.receipts[o] = k.receipts[o]
        \/ /\ k.receipts[o].lease # NoLease /\ k.receipts[o].lease.gen < j.hiGen
           /\ p.receipts[o] = NoReceipt
    BY <1>2, <2>4, JournalFields
  <2>. QED
    BY <1>1, <1>2, <2>1, <2>2, <2>5, SweptDrop
<1>. QED
  BY <1>1, <1>2, <1>3 DEF Sweeps, SweptSlots, p

LEMMA HeldKept ==
  ASSUME NEW a, NEW c, NEW b, NEW d, NEW hi,
         a.lease = NoLease \/ c.lease = NoLease,
         Swept(a, c, b, d, hi), b.lease # NoLease
  PROVE  b = a
BY DEF Swept, NotAccepted

LEMMA ReclaimStepSweeps ==
  ASSUME NEW j \in Journals, Tidy(j), NEW s, Sweeping(j, s), NEW o \in Ops, NEW t
  PROVE  Sweeping(j, ReclaimStep(s, o, t))
<1> DEFINE a == s.doc.accepted[o]
           pruned == Prune(s.doc, a.lease.gen)
           done == Receipted(pruned, a.lease, "unknown")
<1>1. /\ Sweeps(j, s.doc) /\ Sweeps(j, s.disk)
      /\ s.changed \in BOOLEAN
      /\ s.changed => \E p \in Held(j) : p \notin Held(s.doc)
  BY DEF Sweeping
<1>2. s.doc \in Journals /\ s.doc.hiGen = j.hiGen /\ s.doc.hiEpoch = j.hiEpoch
  BY <1>1 DEF Sweeps
<1>3. \A p \in Ops : /\ j.accepted[p].lease = NoLease \/ j.receipts[p].lease = NoLease
                     /\ Swept(j.accepted[p], j.receipts[p], s.doc.accepted[p],
                              s.doc.receipts[p], j.hiGen)
  BY <1>1, <1>2 DEF Tidy, Sweeps, SweptSlots
<1>4. CASE s.failed \/ o \notin Held(s.doc) \/ t < a.clock
  <2>1. ReclaimStep(s, o, t) = s
    BY <1>4 DEF ReclaimStep
  <2>. QED
    BY <2>1
<1>5. CASE ~ (s.failed \/ o \notin Held(s.doc) \/ t < a.clock)
  <2>1. a.lease # NoLease
    BY <1>5 DEF Held
  <2>2. a = j.accepted[o]
    BY <1>3, <2>1, HeldKept
  <2>3. o \in Held(j) /\ a.lease.op = o /\ a.lease.gen <= j.hiGen /\ a.lease \in Lease
    BY <2>1, <2>2, JournalFields DEF Held, Tidy, Accepted
  <2>4. a.lease.gen \in Nat
    BY <2>3 DEF Lease
  <2>5. Sweeps(j, pruned)
    BY <1>1, <2>3, <2>4, SweepPrune
  <2>6. Swept(j.accepted[o], j.receipts[o], NotAccepted, s.doc.receipts[o], j.hiGen)
          \/ a.claim # "none"
    BY <1>3, <2>1, <2>2 DEF Swept
  <2>7. CASE a.claim = "none"
    <3> DEFINE k == Forgotten(s.doc, o)
    <3>1. ReclaimStep(s, o, t) = [doc |-> k, disk |-> s.disk, changed |-> TRUE, failed |-> FALSE]
      BY <1>5, <2>7 DEF ReclaimStep
    <3>2. /\ k \in Journals /\ k.hiGen = j.hiGen /\ k.hiEpoch = j.hiEpoch
          /\ k.receipts = s.doc.receipts
          /\ \A p \in Ops : k.accepted[p] = IF p = o THEN NotAccepted ELSE s.doc.accepted[p]
      BY <1>2, ForgottenIs
    <3> HIDE DEF k
    <3>3. Sweeps(j, k)
      BY <1>3, <2>6, <2>7, <3>2 DEF Sweeps, SweptSlots
    <3>4. o \notin Held(k)
      BY <3>2 DEF Held, NotAccepted
    <3>. QED
      BY <1>1, <2>3, <3>1, <3>3, <3>4 DEF Sweeping
  <2>8. CASE a.claim # "none" /\ a.claim # "dead"
    <3>1. ReclaimStep(s, o, t) = s
      BY <1>5, <2>8 DEF ReclaimStep
    <3>. QED
      BY <3>1
  <2>9. CASE a.claim = "dead" /\ Full(pruned)
    <3>1. ReclaimStep(s, o, t) =
            [doc |-> s.doc, disk |-> s.disk, changed |-> s.changed, failed |-> TRUE]
      BY <1>5, <2>9 DEF ReclaimStep
    <3>. QED
      BY <1>1, <3>1 DEF Sweeping
  <2>10. CASE a.claim = "dead" /\ ~ Full(pruned)
    <3>1. ReclaimStep(s, o, t) = [doc |-> done, disk |-> done, changed |-> TRUE, failed |-> FALSE]
      BY <1>5, <2>10 DEF ReclaimStep
    <3>2. /\ pruned \in Journals /\ pruned.hiGen = j.hiGen /\ pruned.hiEpoch = j.hiEpoch
          /\ \A p \in Ops : Swept(j.accepted[p], j.receipts[p], pruned.accepted[p],
                                  pruned.receipts[p], j.hiGen)
      BY <2>5 DEF Sweeps, SweptSlots
    <3> HIDE DEF pruned
    <3>3. /\ done \in Journals /\ done.hiGen = j.hiGen /\ done.hiEpoch = j.hiEpoch
          /\ \A p \in Ops :
               /\ done.accepted[p] = IF p = o THEN NotAccepted ELSE pruned.accepted[p]
               /\ done.receipts[p] = IF p = o THEN [lease |-> a.lease, state |-> "unknown"]
                                              ELSE pruned.receipts[p]
      <4>1. "unknown" \in Known
        BY DEF Known
      <4>. QED
        BY <2>3, <3>2, <4>1, ReceiptedIs
    <3> HIDE DEF done
    <3>4. Swept(j.accepted[o], j.receipts[o], NotAccepted,
                [lease |-> a.lease, state |-> "unknown"], j.hiGen)
      BY <2>1, <2>2, <2>10 DEF Swept
    <3>5. Sweeps(j, done)
      BY <3>2, <3>3, <3>4 DEF Sweeps, SweptSlots
    <3>6. o \notin Held(done)
      BY <3>3 DEF Held, NotAccepted
    <3>. QED
      BY <2>3, <3>1, <3>5, <3>6 DEF Sweeping
  <2>. QED
    BY <2>7, <2>8, <2>9, <2>10
<1>. QED
  BY <1>4, <1>5

(* The loop keeps Sweeping, from the first operation id to the last.       *)
LEMMA ReclaimSweeps ==
  ASSUME NEW j \in Journals, Tidy(j), NEW t
  PROVE  Sweeping(j, Reclaim(j, t))
<1>1. PICK f : /\ Reclaim(j, t) = f[LastOp]
               /\ f[0] = [doc |-> j, disk |-> j, changed |-> FALSE, failed |-> FALSE]
               /\ \A n \in 1 .. LastOp :
                    f[n] = IF n \in Ops THEN ReclaimStep(f[n - 1], n, t) ELSE f[n - 1]
  BY ReclaimRuns
<1> DEFINE S == {n \in Nat : n <= LastOp /\ ~ Sweeping(j, f[n])}
<1>2. SUFFICES ASSUME S # {} PROVE FALSE
  BY <1>1, LastOpOK
<1>3. PICK k \in S : \A y \in S : k <= y
  BY <1>2, MinExists
<1>4. CASE k = 0
  <2>1. Sweeps(j, j)
    BY DEF Sweeps, SweptSlots, Swept
  <2>2. Sweeping(j, f[0])
    BY <1>1, <2>1 DEF Sweeping
  <2>. QED
    BY <1>3, <1>4, <2>2
<1>5. CASE k # 0
  <2>1. k - 1 \in Nat /\ k - 1 \notin S /\ k - 1 <= LastOp /\ k \in 1 .. LastOp
    BY <1>3, <1>5, LastOpOK
  <2>2. Sweeping(j, f[k - 1])
    BY <2>1
  <2>3. Sweeping(j, f[k])
    BY <1>1, <2>1, <2>2, ReclaimStepSweeps
  <2>. QED
    BY <1>3, <2>3
<1>. QED
  BY <1>4, <1>5

-----------------------------------------------------------------------------
(* The operations of the journal, slot by slot                             *)

(* What an operation of the journal with the lease l of executor e does to *)
(* the slot of l's operation, besides Swept; hi is the high-water mark     *)
(* before it, n how often the operation took effect.                       *)
Rebinds(a, c, b, d, l) ==
  /\ c.lease # NoLease /\ (c.lease = l \/ l.attempt > c.lease.attempt)
  /\ b = a /\ d = [lease |-> l, state |-> c.state]

Takes(a, c, b, d, hi, l) ==
  /\ c.lease = NoLease /\ a.claim = "none" /\ hi <= l.gen
  /\ b.lease = l /\ b.claim = "none" /\ d = c

Claims(a, c, b, d, hi, l, e) ==
  /\ c.lease = NoLease /\ a.lease = l /\ a.claim = "none" /\ hi <= l.gen
  /\ b.lease = l /\ b.claim = e /\ d = c

Finishes(a, c, b, d, l, n) ==
  /\ c.lease = NoLease /\ a.lease = l /\ b = NotAccepted
  /\ d.lease = l /\ d.state \in Known /\ (l.op \in Mutating => Truth(d.state, n))

Turned(o, a, c, b, d, h, hi, l, e, n) ==
  \/ Swept(a, c, b, d, hi)
  \/ /\ o = l.op
     /\ Rebinds(a, c, b, d, l) \/ Takes(a, c, b, d, h, l) \/ Claims(a, c, b, d, h, l, e)
          \/ Finishes(a, c, b, d, l, n)

Turns(j, k, l, e, n) ==
  /\ k \in Journals /\ j.hiGen <= k.hiGen
  /\ \A o \in Ops : Turned(o, j.accepted[o], j.receipts[o], k.accepted[o], k.receipts[o],
                           j.hiGen, k.hiGen, l, e, n[o])

LEMMA LeaseFields ==
  ASSUME NEW l \in Lease
  PROVE  l.op \in Ops /\ l.attempt \in Nat \ {0} /\ l.gen \in Nat /\ l.epoch \in Nat
           /\ l.deadline \in Nat
BY DEF Lease

LEMMA SlotFields ==
  ASSUME NEW j \in Journals, NEW o \in Ops
  PROVE  /\ j.accepted[o] \in Accepted /\ j.receipts[o] \in Receipts
         /\ j.accepted[o].lease \in Lease \cup {NoLease}
         /\ j.receipts[o].lease \in Lease \cup {NoLease}
         /\ j.accepted[o].lease # NoLease => j.accepted[o].lease.gen \in Nat
         /\ j.receipts[o].lease # NoLease => j.receipts[o].lease.gen \in Nat
<1>1. j.accepted[o] \in Accepted /\ j.receipts[o] \in Receipts
  BY JournalFields
<1>2. /\ j.accepted[o].lease \in Lease \cup {NoLease}
      /\ j.receipts[o].lease \in Lease \cup {NoLease}
  BY <1>1 DEF Accepted, Receipts
<1>. QED
  BY <1>1, <1>2, LeaseFields

LEMMA SweptLater ==
  ASSUME NEW a, NEW c, NEW b, NEW d, NEW h \in Nat, NEW hi \in Nat, h <= hi,
         a.lease # NoLease => a.lease.gen \in Nat, c.lease # NoLease => c.lease.gen \in Nat,
         Swept(a, c, b, d, h)
  PROVE  Swept(a, c, b, d, hi)
BY DEF Swept

LEMMA ReadableTidy ==
  ASSUME NEW j \in Journals, NEW R, NEW g, JournalOK(j, R, g), Readable(j)
  PROVE  Tidy(j)
BY DEF JournalOK, SlotOK, Readable, Tidy, Issued

(* With room for a receipt only as long as nothing was forgotten: accept   *)
(* writes back what it swept, and nothing more, when it refuses.           *)
LEMMA SweptHasRoom ==
  ASSUME NEW j \in Journals, Tidy(j), Readable(j), NEW k, Sweeps(j, k), NEW g,
         \E o \in Held(j) : o \notin Held(k)
  PROVE  ~ (Cardinality(Held(Prune(k, g))) >= MaxAccepted)
<1> DEFINE p == Prune(k, g)
<1>1. Held(p) = Held(k)
  BY PruneTakes DEF Held, Sweeps
<1>2. \A o \in Ops : k.accepted[o].lease # NoLease => k.accepted[o] = j.accepted[o]
  BY HeldKept DEF Sweeps, SweptSlots, Tidy
<1>3. Held(k) \subseteq Held(j) /\ Held(k) # Held(j)
  BY <1>2 DEF Held
<1>4. IsFiniteSet(Held(j))
  BY OpsFinite, FS_Subset DEF Held
<1>5. /\ Cardinality(Held(k)) < Cardinality(Held(j))
      /\ Cardinality(Held(k)) \in Nat /\ Cardinality(Held(j)) \in Nat
  <2>1. IsFiniteSet(Held(k)) /\ Cardinality(Held(k)) <= Cardinality(Held(j))
    BY <1>3, <1>4, FS_Subset
  <2>2. Cardinality(Held(k)) # Cardinality(Held(j))
    BY <1>3, <1>4, <2>1, FS_Subset
  <2>3. Cardinality(Held(k)) \in Nat /\ Cardinality(Held(j)) \in Nat
    BY <1>4, <2>1, FS_CardinalityType
  <2>. QED
    BY <2>1, <2>2, <2>3
<1>6. Cardinality(Held(j)) <= MaxAccepted
  BY DEF Readable
<1>. QED
  BY <1>1, <1>5, <1>6, JournalAssumption

LEMMA WithLeaseIs ==
  ASSUME NEW j \in Journals, NEW l \in Lease, NEW t \in Nat
  PROVE  /\ WithLease(j, l, t) \in Journals
         /\ WithLease(j, l, t).receipts = j.receipts
         /\ j.hiGen <= WithLease(j, l, t).hiGen /\ l.gen <= WithLease(j, l, t).hiGen
         /\ j.hiEpoch <= WithLease(j, l, t).hiEpoch /\ l.epoch <= WithLease(j, l, t).hiEpoch
         /\ WithLease(j, l, t).accepted[l.op].lease = l
         /\ WithLease(j, l, t).accepted[l.op].claim = "none"
         /\ \A o \in Ops \ {l.op} : WithLease(j, l, t).accepted[o] = j.accepted[o]
<1> DEFINE w == [lease |-> l, claim |-> "none", clock |-> DeadlineClock(l, t)]
           x == [j.accepted EXCEPT ![l.op] = w]
<1>1. DeadlineClock(l, t) \in Nat
  BY LeaseFields, QueueAssumption DEF DeadlineClock, Larger
<1>2. w \in Accepted /\ w.lease = l /\ w.claim = "none"
  BY <1>1 DEF Accepted
<1> HIDE DEF w
<1>3. x \in [Ops -> Accepted] /\ x[l.op] = w /\ \A o \in Ops \ {l.op} : x[o] = j.accepted[o]
  BY <1>2, JournalFields, LeaseFields
<1>4. WithLease(j, l, t) =
        Journal(x, j.receipts, Larger(j.hiGen, l.gen), Larger(j.hiEpoch, l.epoch))
  BY DEF WithLease, w
<1>5. /\ Larger(j.hiGen, l.gen) \in Nat /\ Larger(j.hiEpoch, l.epoch) \in Nat
      /\ j.hiGen <= Larger(j.hiGen, l.gen) /\ l.gen <= Larger(j.hiGen, l.gen)
      /\ j.hiEpoch <= Larger(j.hiEpoch, l.epoch) /\ l.epoch <= Larger(j.hiEpoch, l.epoch)
  BY JournalFields, LeaseFields DEF Larger
<1> HIDE DEF x
<1>6. /\ WithLease(j, l, t) \in Journals /\ WithLease(j, l, t).accepted = x
      /\ WithLease(j, l, t).receipts = j.receipts
      /\ WithLease(j, l, t).hiGen = Larger(j.hiGen, l.gen)
      /\ WithLease(j, l, t).hiEpoch = Larger(j.hiEpoch, l.epoch)
  BY <1>3, <1>4, <1>5, JournalFields, JournalMade
<1>. QED
  BY <1>2, <1>3, <1>5, <1>6

LEMMA ReboundIs ==
  ASSUME NEW j \in Journals, NEW l \in Lease
  PROVE  /\ Rebound(j, l) \in Journals
         /\ Rebound(j, l).accepted = j.accepted /\ j.hiGen <= Rebound(j, l).hiGen
         /\ l.gen <= Rebound(j, l).hiGen /\ Rebound(j, l).hiEpoch = j.hiEpoch
         /\ Rebound(j, l).receipts[l.op] = [lease |-> l, state |-> j.receipts[l.op].state]
         /\ \A o \in Ops \ {l.op} : Rebound(j, l).receipts[o] = j.receipts[o]
<1> DEFINE w == [lease |-> l, state |-> j.receipts[l.op].state]
           y == [j.receipts EXCEPT ![l.op] = w]
<1>1. w \in Receipts
  BY LeaseFields, SlotFields DEF Receipts
<1> HIDE DEF w
<1>2. y \in [Ops -> Receipts] /\ y[l.op] = w /\ \A o \in Ops \ {l.op} : y[o] = j.receipts[o]
  BY <1>1, JournalFields, LeaseFields
<1>3. Rebound(j, l) = Journal(j.accepted, y, Larger(j.hiGen, l.gen), j.hiEpoch)
  BY DEF Rebound, w
<1>4. /\ Larger(j.hiGen, l.gen) \in Nat /\ j.hiGen <= Larger(j.hiGen, l.gen)
      /\ l.gen <= Larger(j.hiGen, l.gen)
  BY JournalFields, LeaseFields DEF Larger
<1> HIDE DEF y
<1>. QED
  BY <1>2, <1>3, <1>4, JournalFields, JournalMade DEF w

LEMMA StayedTurns ==
  ASSUME NEW j \in Journals, NEW l, NEW e, NEW n
  PROVE  Turns(j, j, l, e, n)
BY JournalFields DEF Turns, Turned, Swept

LEMMA SweepTurns ==
  ASSUME NEW j \in Journals, NEW k, Sweeps(j, k), NEW l, NEW e, NEW n
  PROVE  Turns(j, k, l, e, n)
BY JournalFields DEF Turns, Turned, Sweeps, SweptSlots

(* What accept answers, and how the slot of the lease's operation comes    *)
(* out of it.                                                              *)
AcceptedAs(j, l, r) ==
  \/ r.answer = "refused"
  \/ r.answer = "replay" /\ r.j.receipts[l.op].lease = l
  \/ /\ r.answer = "accepted"
     /\ r.j.accepted[l.op].lease = l

LEMMA AcceptSavedTurns ==
  ASSUME NEW j \in Journals, NEW l \in Lease, NEW t \in Nat, NEW e, NEW n,
         l.op \in Saved(j)
  PROVE  /\ Turns(j, AcceptSaved(j, l, t).j, l, e, n)
         /\ AcceptedAs(j, l, AcceptSaved(j, l, t))
<1> DEFINE old == j.receipts[l.op].lease
           r == AcceptSaved(j, l, t)
<1>1. l.op \in Ops /\ old # NoLease
  BY LeaseFields DEF Saved
<1>2. CASE old = l
  <2>1. r = [j |-> j, answer |-> "replay"]
    BY <1>2 DEF AcceptSaved
  <2>. QED
    BY <1>2, <2>1, StayedTurns DEF AcceptedAs
<1>3. CASE old # l /\ Redelivers(l, old, t)
  <2>1. r = [j |-> Rebound(j, l), answer |-> "replay"]
    BY <1>3 DEF AcceptSaved
  <2> DEFINE k == Rebound(j, l)
  <2>2. /\ k \in Journals
        /\ k.accepted = j.accepted /\ j.hiGen <= k.hiGen
        /\ k.receipts[l.op] = [lease |-> l, state |-> j.receipts[l.op].state]
        /\ \A o \in Ops \ {l.op} : k.receipts[o] = j.receipts[o]
    BY ReboundIs
  <2> HIDE DEF k
  <2>3. Rebinds(j.accepted[l.op], j.receipts[l.op], k.accepted[l.op], k.receipts[l.op], l)
    BY <1>1, <1>3, <2>2 DEF Rebinds, Redelivers
  <2>4. \A o \in Ops \ {l.op} :
          Swept(j.accepted[o], j.receipts[o], k.accepted[o], k.receipts[o], k.hiGen)
    BY <2>2 DEF Swept
  <2>5. Turns(j, k, l, e, n)
    BY <2>2, <2>3, <2>4 DEF Turns, Turned
  <2>6. k.receipts[l.op].lease = l
    BY <2>2
  <2>. QED
    BY <2>1, <2>5, <2>6 DEF AcceptedAs, k
<1>4. CASE old # l /\ ~ Redelivers(l, old, t)
  <2>1. r = [j |-> j, answer |-> "refused"]
    BY <1>4 DEF AcceptSaved, Refused
  <2>. QED
    BY <2>1, StayedTurns DEF AcceptedAs
<1>. QED
  BY <1>2, <1>3, <1>4

LEMMA AcceptHeldTurns ==
  ASSUME NEW j \in Journals, NEW l \in Lease, NEW t \in Nat, NEW e, NEW n,
         l.op \notin Saved(j), Fresh(j, l)
  PROVE  /\ Turns(j, AcceptHeld(j, l, t).j, l, e, n)
         /\ AcceptedAs(j, l, AcceptHeld(j, l, t))
<1> DEFINE a == j.accepted[l.op]
           r == AcceptHeld(j, l, t)
           rebind == a.claim = "none" /\ t >= a.clock /\ Redelivers(l, a.lease, t)
<1>1. l.op \in Ops /\ j.receipts[l.op].lease = NoLease
  BY LeaseFields DEF Saved
<1>2. CASE rebind
  <2>1. r = [j |-> WithLease(j, l, t), answer |-> "accepted"]
    BY <1>2 DEF AcceptHeld
  <2> DEFINE k == WithLease(j, l, t)
  <2>2. /\ k \in Journals /\ k.receipts = j.receipts /\ j.hiGen <= k.hiGen
        /\ k.accepted[l.op].lease = l /\ k.accepted[l.op].claim = "none"
        /\ \A o \in Ops \ {l.op} : k.accepted[o] = j.accepted[o]
    BY WithLeaseIs
  <2> HIDE DEF k
  <2>3. j.hiGen <= l.gen
    BY JournalFields, LeaseFields DEF Fresh
  <2>4. Takes(j.accepted[l.op], j.receipts[l.op], k.accepted[l.op], k.receipts[l.op], j.hiGen, l)
    BY <1>1, <1>2, <2>2, <2>3 DEF Takes
  <2>5. \A o \in Ops \ {l.op} :
          Swept(j.accepted[o], j.receipts[o], k.accepted[o], k.receipts[o], k.hiGen)
    BY <2>2 DEF Swept
  <2>6. Turns(j, k, l, e, n)
    BY <2>2, <2>4, <2>5 DEF Turns, Turned
  <2>. QED
    BY <2>1, <2>2, <2>6 DEF AcceptedAs, k
<1>3. CASE ~ rebind /\ a.lease = l
  <2>1. r = [j |-> j, answer |-> "accepted"]
    BY <1>3 DEF AcceptHeld
  <2>. QED
    BY <1>3, <2>1, StayedTurns DEF AcceptedAs
<1>4. CASE ~ rebind /\ a.lease # l
  <2>1. r = [j |-> j, answer |-> "refused"]
    BY <1>4 DEF AcceptHeld, Refused
  <2>. QED
    BY <2>1, StayedTurns DEF AcceptedAs
<1>. QED
  BY <1>2, <1>3, <1>4

LEMMA AcceptNewTurns ==
  ASSUME NEW j \in Journals, NEW l \in Lease, NEW t \in Nat, NEW e, NEW n,
         l.op \notin Saved(j), l.op \notin Held(j), Fresh(j, l), Readable(j), Tidy(j),
         j.accepted[l.op].claim = "none"
  PROVE  /\ Turns(j, AcceptNew(j, l, t).j, l, e, n)
         /\ AcceptedAs(j, l, AcceptNew(j, l, t))
<1> DEFINE s == Reclaim(j, t)
           p == Prune(s.doc, l.gen)
           r == AcceptNew(j, l, t)
           k == WithLease(p, l, t)
<1>1. /\ Sweeps(j, s.doc) /\ Sweeps(j, s.disk)
      /\ s.changed \in BOOLEAN
      /\ s.changed => \E o \in Held(j) : o \notin Held(s.doc)
  BY ReclaimSweeps DEF Sweeping
<1>2. CASE s.failed \/ Full(p)
  <2>1. r = [j |-> s.disk, answer |-> "refused"]
    BY <1>2 DEF AcceptNew, Refused
  <2>. QED
    BY <1>1, <2>1, SweepTurns DEF AcceptedAs
<1>3. CASE ~ (s.failed \/ Full(p)) /\ Cardinality(Held(p)) >= MaxAccepted
  <2>1. ~ s.changed
    BY <1>1, <1>3, SweptHasRoom
  <2>2. r = [j |-> s.disk, answer |-> "refused"]
    BY <1>3, <2>1 DEF AcceptNew, Refused
  <2>. QED
    BY <1>1, <2>1, <2>2, SweepTurns DEF AcceptedAs
<1>4. CASE ~ (s.failed \/ Full(p)) /\ ~ (Cardinality(Held(p)) >= MaxAccepted)
  <2>1. r = [j |-> k, answer |-> "accepted"]
    BY <1>4 DEF AcceptNew
  <2>2. /\ s.doc \in Journals /\ s.doc.hiGen = j.hiGen
        /\ \A o \in Ops : Swept(j.accepted[o], j.receipts[o], s.doc.accepted[o],
                                s.doc.receipts[o], j.hiGen)
    BY <1>1 DEF Sweeps, SweptSlots
  <2>3. /\ p \in Journals /\ p.accepted = s.doc.accepted /\ p.hiGen = j.hiGen
        /\ \A o \in Ops :
             \/ p.receipts[o] = s.doc.receipts[o]
             \/ /\ s.doc.receipts[o].lease # NoLease /\ s.doc.receipts[o].lease.gen < l.gen
                /\ p.receipts[o] = NoReceipt
    BY <2>2, PruneTakes
  <2>4. /\ k \in Journals /\ k.receipts = p.receipts
        /\ p.hiGen <= k.hiGen /\ l.gen <= k.hiGen
        /\ k.accepted[l.op].lease = l /\ k.accepted[l.op].claim = "none"
        /\ \A o \in Ops \ {l.op} : k.accepted[o] = p.accepted[o]
    BY <2>3, WithLeaseIs
  <2>5. j.hiGen <= l.gen /\ j.hiGen \in Nat /\ k.hiGen \in Nat /\ l.gen \in Nat /\ l.op \in Ops
    BY <2>4, JournalFields, LeaseFields DEF Fresh
  <2> HIDE DEF s, p, r, k
  <2>6. ASSUME NEW o \in Ops
        PROVE  Swept(j.accepted[o], j.receipts[o], s.doc.accepted[o], p.receipts[o], k.hiGen)
    <3>1. j.accepted[o].lease = NoLease \/ j.receipts[o].lease = NoLease
      BY DEF Tidy
    <3>2. Swept(j.accepted[o], j.receipts[o], s.doc.accepted[o], s.doc.receipts[o], k.hiGen)
      BY <2>2, <2>3, <2>4, <2>5, SlotFields, SweptLater
    <3>3. s.doc.receipts[o].lease # NoLease => s.doc.receipts[o].lease.gen \in Nat
      BY <2>2, SlotFields
    <3>4. \/ p.receipts[o] = s.doc.receipts[o]
          \/ /\ s.doc.receipts[o].lease # NoLease /\ s.doc.receipts[o].lease.gen < k.hiGen
             /\ p.receipts[o] = NoReceipt
      BY <2>3, <2>4, <2>5, <3>3
    <3>. QED
      BY <3>1, <3>2, <3>4, SweptDrop
  <2>7. j.receipts[l.op].lease = NoLease /\ j.accepted[l.op].lease = NoLease
    BY <2>5 DEF Saved, Held
  <2>8. p.receipts[l.op] = j.receipts[l.op]
    BY <2>5, <2>6, <2>7 DEF Swept
  <2>9. Takes(j.accepted[l.op], j.receipts[l.op], k.accepted[l.op], k.receipts[l.op], j.hiGen, l)
    BY <2>4, <2>5, <2>7, <2>8 DEF Takes
  <2>10. Turns(j, k, l, e, n)
    BY <2>3, <2>4, <2>6, <2>9 DEF Turns, Turned
  <2>. QED
    BY <2>1, <2>4, <2>10 DEF AcceptedAs, r
<1>. QED
  BY <1>2, <1>3, <1>4

LEMMA AcceptTurns ==
  ASSUME NEW j \in Journals, NEW R, NEW g, JournalOK(j, R, g),
         NEW l \in Lease, NEW t \in Nat, NEW e, NEW n
  PROVE  Turns(j, Accept(j, l, t).j, l, e, n) /\ AcceptedAs(j, l, Accept(j, l, t))
<1>1. CASE ~ Readable(j) \/ ~ Fresh(j, l)
  <2>1. Accept(j, l, t) = [j |-> j, answer |-> "refused"]
    BY <1>1 DEF Accept, Refused
  <2>. QED
    BY <2>1, StayedTurns DEF AcceptedAs
<1>2. CASE Readable(j) /\ Fresh(j, l) /\ l.op \in Saved(j)
  <2>1. Accept(j, l, t) = AcceptSaved(j, l, t)
    BY <1>2 DEF Accept
  <2>. QED
    BY <1>2, <2>1, AcceptSavedTurns
<1>3. CASE Readable(j) /\ Fresh(j, l) /\ l.op \notin Saved(j) /\ l.op \in Held(j)
  <2>1. Accept(j, l, t) = AcceptHeld(j, l, t)
    BY <1>3 DEF Accept
  <2>. QED
    BY <1>3, <2>1, AcceptHeldTurns
<1>4. CASE Readable(j) /\ Fresh(j, l) /\ l.op \notin Saved(j) /\ l.op \notin Held(j)
  <2>1. Accept(j, l, t) = AcceptNew(j, l, t)
    BY <1>4 DEF Accept
  <2>2. Tidy(j)
    BY <1>4, ReadableTidy
  <2>3. j.accepted[l.op].claim = "none"
    BY <1>4, LeaseFields DEF JournalOK, SlotOK, Held
  <2>. QED
    BY <1>4, <2>1, <2>2, <2>3, AcceptNewTurns
<1>. QED
  BY <1>1, <1>2, <1>3, <1>4

LEMMA ReceiptedTurns ==
  ASSUME NEW j \in Journals, NEW l \in Lease, NEW e, NEW n, NEW state \in Known,
         l.op \notin Saved(j), j.accepted[l.op].lease = l,
         l.op \in Mutating => Truth(state, n[l.op])
  PROVE  /\ Turns(j, Receipted(j, l, state), l, e, n)
         /\ Receipted(j, l, state).receipts[l.op].lease = l
<1> DEFINE k == Receipted(j, l, state)
<1>1. /\ k \in Journals /\ k.hiGen = j.hiGen
      /\ \A o \in Ops :
           /\ k.accepted[o] = IF o = l.op THEN NotAccepted ELSE j.accepted[o]
           /\ k.receipts[o] = IF o = l.op THEN [lease |-> l, state |-> state] ELSE j.receipts[o]
  BY ReceiptedIs
<1>2. l.op \in Ops /\ j.receipts[l.op].lease = NoLease
  BY LeaseFields DEF Saved
<1> HIDE DEF k
<1>3. k.accepted[l.op] = NotAccepted /\ k.receipts[l.op] = [lease |-> l, state |-> state]
  BY <1>1, <1>2
<1>4. Finishes(j.accepted[l.op], j.receipts[l.op], k.accepted[l.op], k.receipts[l.op], l, n[l.op])
  BY <1>2, <1>3 DEF Finishes
<1>5. \A o \in Ops \ {l.op} :
        Swept(j.accepted[o], j.receipts[o], k.accepted[o], k.receipts[o], k.hiGen)
  BY <1>1 DEF Swept
<1>6. Turns(j, k, l, e, n)
  BY <1>1, <1>4, <1>5, JournalFields DEF Turns, Turned
<1>. QED
  BY <1>3, <1>6 DEF k

LEMMA RecoverTurns ==
  ASSUME NEW j \in Journals, NEW l \in Lease, NEW t, NEW e, NEW n
  PROVE  /\ Turns(j, Recover(j, l, t).j, l, e, n)
         /\ \/ Recover(j, l, t).answer \in {"refused", "wait"}
            \/ /\ Recover(j, l, t).answer = "replay"
               /\ Recover(j, l, t).j.receipts[l.op].lease = l
            \/ Recover(j, l, t).answer = "accepted"
<1> DEFINE a == j.accepted[l.op]
           r == Recover(j, l, t)
           refuse == ~ Readable(j) \/ (l.op \in Saved(j) /\ j.receipts[l.op].lease # l)
                       \/ (l.op \notin Saved(j) /\ a.lease # l)
<1>1. CASE refuse
  <2>1. r = [j |-> j, answer |-> "refused"]
    BY <1>1 DEF Recover, Refused
  <2>. QED
    BY <2>1, StayedTurns
<1>2. CASE ~ refuse /\ l.op \in Saved(j)
  <2>1. r = [j |-> j, answer |-> "replay"]
    BY <1>2 DEF Recover
  <2>. QED
    BY <1>2, <2>1, StayedTurns
<1>3. CASE ~ refuse /\ l.op \notin Saved(j) /\ a.claim = "none"
  <2>1. r = [j |-> j, answer |-> "accepted"]
    BY <1>3 DEF Recover
  <2>. QED
    BY <2>1, StayedTurns
<1>4. CASE /\ ~ refuse /\ l.op \notin Saved(j)
           /\ a.claim # "none" /\ (a.claim = "dead" \/ t >= a.clock)
  <2>1. r = [j |-> Receipted(j, l, "unknown"), answer |-> "replay"]
    BY <1>4 DEF Recover
  <2>2. "unknown" \in Known /\ Truth("unknown", n[l.op])
    BY DEF Known, Truth
  <2>3. /\ Turns(j, Receipted(j, l, "unknown"), l, e, n)
        /\ Receipted(j, l, "unknown").receipts[l.op].lease = l
    BY <1>4, <2>2, ReceiptedTurns
  <2>. QED
    BY <2>1, <2>3
<1>5. CASE ~ refuse /\ l.op \notin Saved(j) /\ a.claim # "none"
             /\ ~ (a.claim = "dead" \/ t >= a.clock)
  <2>1. r = [j |-> j, answer |-> "wait"]
    BY <1>5 DEF Recover
  <2>. QED
    BY <2>1, StayedTurns
<1>. QED
  BY <1>1, <1>2, <1>3, <1>4, <1>5

LEMMA BeginEffectTurns ==
  ASSUME NEW j \in Journals, NEW R, NEW g, JournalOK(j, R, g),
         NEW l \in Lease, NEW e \in Executors, NEW n
  PROVE  /\ Turns(j, BeginEffect(j, l, e).j, l, e, n)
         /\ \/ BeginEffect(j, l, e).answer \in {"refused", "lost"}
            \/ /\ BeginEffect(j, l, e).answer = "claimed"
               /\ Claims(j.accepted[l.op], j.receipts[l.op],
                         BeginEffect(j, l, e).j.accepted[l.op],
                         BeginEffect(j, l, e).j.receipts[l.op], j.hiGen, l, e)
<1> DEFINE a == j.accepted[l.op]
           r == BeginEffect(j, l, e)
           refuse == ~ Readable(j) \/ ~ Fresh(j, l) \/ a.lease # l
           x == [j.accepted EXCEPT ![l.op] = Claimed(a, e)]
           k == Journal(x, j.receipts, j.hiGen, j.hiEpoch)
<1>1. CASE refuse
  <2>1. r = [j |-> j, answer |-> "refused"]
    BY <1>1 DEF BeginEffect, Refused
  <2>. QED
    BY <2>1, StayedTurns
<1>2. CASE ~ refuse /\ a.claim # "none"
  <2>1. r = [j |-> j, answer |-> "lost"]
    BY <1>2 DEF BeginEffect
  <2>. QED
    BY <2>1, StayedTurns
<1>3. CASE ~ refuse /\ a.claim = "none"
  <2>1. r = [j |-> k, answer |-> "claimed"]
    BY <1>3 DEF BeginEffect
  <2>2. l.op \in Ops /\ a \in Accepted /\ l # NoLease
    BY LeaseFields, JournalFields, NoLeaseApart
  <2>3. Claimed(a, e) \in Accepted /\ Claimed(a, e).lease = a.lease /\ Claimed(a, e).claim = e
    BY <2>2 DEF Accepted, Claimed
  <2>4. /\ x \in [Ops -> Accepted] /\ x[l.op] = Claimed(a, e)
        /\ \A o \in Ops \ {l.op} : x[o] = j.accepted[o]
    BY <2>2, <2>3, JournalFields
  <2> HIDE DEF x
  <2>5. k \in Journals /\ k.accepted = x /\ k.receipts = j.receipts /\ k.hiGen = j.hiGen
    BY <2>4, JournalFields, JournalMade
  <2> HIDE DEF k
  <2>6. j.receipts[l.op].lease = NoLease
    BY <1>3, <2>2 DEF JournalOK, SlotOK
  <2>7. j.hiGen <= l.gen
    BY <1>3, JournalFields, LeaseFields DEF Fresh
  <2>8. Claims(j.accepted[l.op], j.receipts[l.op], k.accepted[l.op], k.receipts[l.op],
               j.hiGen, l, e)
    BY <1>3, <2>3, <2>4, <2>5, <2>6, <2>7 DEF Claims
  <2>9. \A o \in Ops \ {l.op} :
          Swept(j.accepted[o], j.receipts[o], k.accepted[o], k.receipts[o], k.hiGen)
    BY <2>4, <2>5 DEF Swept
  <2>10. Turns(j, k, l, e, n)
    BY <2>5, <2>8, <2>9, JournalFields DEF Turns, Turned
  <2>. QED
    BY <2>1, <2>8, <2>10
<1>. QED
  BY <1>1, <1>2, <1>3

(* The state is true of an operation that took effect n[l.op] times.       *)
Truthful(l, state, n) == state \in Known /\ (l.op \in Mutating => Truth(state, n[l.op]))

LEMMA FinishTurns ==
  ASSUME NEW j \in Journals, NEW l \in Lease, NEW claim, NEW state, NEW e, NEW n,
         Truthful(l, state, n)
  PROVE  /\ Turns(j, Finish(j, l, claim, state).j, l, e, n)
         /\ \/ Finish(j, l, claim, state).answer = "refused"
            \/ /\ Finish(j, l, claim, state).answer = "replay"
               /\ Finish(j, l, claim, state).j.receipts[l.op].lease = l
<1> DEFINE a == j.accepted[l.op]
           r == Finish(j, l, claim, state)
           refuse == ~ Readable(j) \/ (l.op \in Saved(j) /\ j.receipts[l.op].lease # l)
                       \/ (l.op \notin Saved(j) /\ (a.lease # l \/ a.claim # claim))
<1>1. CASE refuse
  <2>1. r = [j |-> j, answer |-> "refused"]
    BY <1>1 DEF Finish, Refused
  <2>. QED
    BY <2>1, StayedTurns
<1>2. CASE ~ refuse /\ l.op \in Saved(j)
  <2>1. r = [j |-> j, answer |-> "replay"]
    BY <1>2 DEF Finish
  <2>. QED
    BY <1>2, <2>1, StayedTurns
<1>3. CASE ~ refuse /\ l.op \notin Saved(j)
  <2>1. /\ r = [j |-> Receipted(j, l, state), answer |-> "replay"]
        /\ state \in Known /\ (l.op \in Mutating => Truth(state, n[l.op]))
    BY <1>3 DEF Finish, Truthful
  <2>2. /\ Turns(j, Receipted(j, l, state), l, e, n)
        /\ Receipted(j, l, state).receipts[l.op].lease = l
    BY <1>3, <2>1, ReceiptedTurns
  <2>. QED
    BY <2>1, <2>2
<1>. QED
  BY <1>1, <1>2, <1>3

(* The executors in who are gone: their claims are dead ones.              *)
Died(a, b, who) ==
  /\ b.lease = a.lease
  /\ b.claim = a.claim \/ (a.claim \in who /\ b.claim = "dead")

Orphans(j, k, who) ==
  /\ k \in Journals /\ k.receipts = j.receipts
  /\ k.hiGen = j.hiGen /\ k.hiEpoch = j.hiEpoch
  /\ \A o \in Ops : /\ Died(j.accepted[o], k.accepted[o], who)
                    /\ k.accepted[o].claim \notin who

LEMMA AbandonedOrphans ==
  ASSUME NEW j \in Journals, NEW who \in SUBSET Executors
  PROVE  Orphans(j, Abandoned(j, who), who)
<1> DEFINE x == [o \in Ops |-> IF j.accepted[o].claim \in who THEN Claimed(j.accepted[o], "dead")
                                                              ELSE j.accepted[o]]
           k == Journal(x, j.receipts, j.hiGen, j.hiEpoch)
<1>1. Abandoned(j, who) = k
  BY DEF Abandoned
<1>2. \A a \in Accepted : /\ Claimed(a, "dead") \in Accepted /\ Claimed(a, "dead").lease = a.lease
                          /\ Claimed(a, "dead").claim = "dead"
  BY DEF Accepted, Claimed
<1>3. "dead" \notin who
  BY JournalAssumption
<1>4. x \in [Ops -> Accepted]
  BY <1>2, JournalFields
<1>5. \A o \in Ops : x[o] = IF j.accepted[o].claim \in who THEN Claimed(j.accepted[o], "dead")
                                                          ELSE j.accepted[o]
  OBVIOUS
<1> HIDE DEF x
<1>6. /\ k \in Journals /\ k.accepted = x /\ k.receipts = j.receipts
      /\ k.hiGen = j.hiGen /\ k.hiEpoch = j.hiEpoch
  BY <1>4, JournalFields, JournalMade
<1> HIDE DEF k
<1>7. \A o \in Ops : Died(j.accepted[o], k.accepted[o], who) /\ k.accepted[o].claim \notin who
  BY <1>2, <1>3, <1>5, <1>6, JournalFields DEF Died
<1>. QED
  BY <1>1, <1>6, <1>7 DEF Orphans

LEMMA RebootedOrphans ==
  ASSUME NEW j \in Journals
  PROVE  Orphans(j, Rebooted(j), Executors)
<1> DEFINE q == Abandoned(j, Executors)
           a == q.accepted
           x == [o \in Ops |-> [lease |-> a[o].lease, claim |-> a[o].claim, clock |-> 0]]
           k == Journal(x, j.receipts, j.hiGen, j.hiEpoch)
<1>1. Rebooted(j) = k
  BY DEF Rebooted
<1>2. Orphans(j, q, Executors)
  BY AbandonedOrphans
<1> HIDE DEF q
<1>3. a \in [Ops -> Accepted]
  BY <1>2, JournalFields DEF Orphans
<1>4. \A b \in Accepted : [lease |-> b.lease, claim |-> b.claim, clock |-> 0] \in Accepted
  BY DEF Accepted
<1>5. x \in [Ops -> Accepted] /\ \A o \in Ops : x[o].lease = a[o].lease /\ x[o].claim = a[o].claim
  BY <1>3, <1>4
<1> HIDE DEF x
<1>6. /\ k \in Journals /\ k.accepted = x /\ k.receipts = j.receipts
      /\ k.hiGen = j.hiGen /\ k.hiEpoch = j.hiEpoch
  BY <1>5, JournalFields, JournalMade
<1> HIDE DEF k
<1>. QED
  BY <1>1, <1>2, <1>5, <1>6 DEF Orphans, Died

-----------------------------------------------------------------------------
(* What a turned slot keeps.  The slot is of o, its record r; l is the     *)
(* lease of the executor e whose operation of the journal this is.         *)
SlotState(o, a, c, r, g, l) ==
  /\ o \in Ops /\ r \in Record /\ g \in Nat
  /\ a \in Accepted /\ c \in Receipts
  /\ RecordOK(o, r, g) /\ SlotOK(o, a, c, r, g)
  /\ l \in Lease /\ (l.op = o => Issued(l, o, r, g))

LEMMA RecordFields ==
  ASSUME NEW r \in Record
  PROVE  /\ r.attempt \in Nat /\ r.gen \in Nat /\ r.epoch \in Nat /\ r.deadline \in Nat
         /\ r.lease \in Lease \cup {NoLease}
         /\ r.lease # NoLease => r.lease.gen \in Nat /\ r.lease.attempt \in Nat
BY DEF Record, Lease

LEMMA SlotKept ==
  ASSUME NEW o, NEW a, NEW c, NEW r, NEW g, NEW l, SlotState(o, a, c, r, g, l),
         NEW b, NEW d, NEW h \in Nat, NEW hi \in Nat, NEW e, NEW n,
         Turned(o, a, c, b, d, h, hi, l, e, n)
  PROVE  SlotOK(o, b, d, r, g)
<1>1. SlotOK(o, a, c, r, g) /\ l # NoLease /\ (l.op = o => Issued(l, o, r, g))
  BY NoLeaseApart DEF SlotState
<1>2. NotAccepted.lease = NoLease /\ NotAccepted.claim = "none" /\ NoReceipt.lease = NoLease
  BY DEF NotAccepted, NoReceipt
<1>3. "unknown" \in Known
  BY DEF Known
<1>4. CASE Swept(a, c, b, d, hi)
  BY <1>1, <1>2, <1>3, <1>4 DEF Swept, SlotOK
<1>5. CASE o = l.op /\ Rebinds(a, c, b, d, l)
  BY <1>1, <1>5 DEF Rebinds, SlotOK
<1>6. CASE o = l.op /\ Takes(a, c, b, d, h, l)
  BY <1>1, <1>6 DEF Takes, SlotOK
<1>7. CASE o = l.op /\ Claims(a, c, b, d, h, l, e)
  BY <1>1, <1>7 DEF Claims, SlotOK
<1>8. CASE o = l.op /\ Finishes(a, c, b, d, l, n)
  BY <1>1, <1>2, <1>8 DEF Finishes, SlotOK
<1>. QED
  BY <1>4, <1>5, <1>6, <1>7, <1>8 DEF Turned

(* The facts about generations that the lemmas below need.                 *)
LEMMA FencedGens ==
  ASSUME NEW o, NEW a, NEW c, NEW r, NEW g, NEW l, SlotState(o, a, c, r, g, l), o \in Mutating
  PROVE  /\ r.gen \in Nat
         /\ a.lease # NoLease => a.lease.gen = r.gen /\ r.attempt > 0
         /\ c.lease # NoLease => c.lease.gen = r.gen /\ r.attempt > 0
         /\ l.op = o => l.gen = r.gen /\ r.attempt > 0
         /\ l # NoLease
<1>1. o \in Fenced
  BY QueueAssumption
<1>2. r.gen \in Nat /\ r.attempt \in Nat
  BY RecordFields DEF SlotState
<1>3. \A q : Issued(q, o, r, g) => q.gen = r.gen /\ r.attempt > 0
  BY <1>1, <1>2 DEF Issued, Lease
<1>. QED
  BY <1>2, <1>3, NoLeaseApart DEF SlotState, SlotOK

LEMMA EffectKept ==
  ASSUME NEW o, NEW a, NEW c, NEW r, NEW g, NEW l, SlotState(o, a, c, r, g, l),
         NEW b, NEW d, NEW h \in Nat, NEW hi \in Nat, h <= hi, NEW e \in Executors, NEW n \in Nat,
         Turned(o, a, c, b, d, h, hi, l, e, n), EffectOK(o, a, c, h, r, n)
  PROVE  EffectOK(o, b, d, hi, r, n)
<1>1. SUFFICES ASSUME o \in Mutating PROVE EffectOK(o, b, d, hi, r, n)
  BY DEF EffectOK
<1>2. /\ r.gen \in Nat /\ l # NoLease
      /\ a.lease # NoLease => a.lease.gen = r.gen
      /\ c.lease # NoLease => c.lease.gen = r.gen
      /\ l.op = o => l.gen = r.gen
  BY <1>1, FencedGens
<1>3. /\ n <= 1
      /\ n > 0 => r.attempt > 0 /\ (a.claim # "none" \/ c.lease # NoLease \/ h > r.gen)
      /\ c.lease # NoLease => Truth(c.state, n)
      /\ a.lease = NoLease \/ c.lease = NoLease
  BY <1>1 DEF EffectOK, SlotState, SlotOK
<1>4. /\ NotAccepted.lease = NoLease /\ NotAccepted.claim = "none" /\ NoReceipt.lease = NoLease
      /\ Truth("unknown", n) /\ "none" # e
  BY JournalAssumption DEF NotAccepted, NoReceipt, Truth
<1>5. CASE Swept(a, c, b, d, hi)
  BY <1>2, <1>3, <1>4, <1>5 DEF Swept, EffectOK
<1>6. CASE o = l.op /\ Rebinds(a, c, b, d, l)
  BY <1>2, <1>3, <1>6 DEF Rebinds, EffectOK
<1>7. CASE o = l.op /\ Takes(a, c, b, d, h, l)
  BY <1>2, <1>3, <1>7 DEF Takes, EffectOK
<1>8. CASE o = l.op /\ Claims(a, c, b, d, h, l, e)
  BY <1>2, <1>3, <1>4, <1>8 DEF Claims, EffectOK
<1>9. CASE o = l.op /\ Finishes(a, c, b, d, l, n)
  BY <1>1, <1>2, <1>3, <1>4, <1>9 DEF Finishes, EffectOK
<1>. QED
  BY <1>5, <1>6, <1>7, <1>8, <1>9 DEF Turned

LEMMA SaidKept ==
  ASSUME NEW o, NEW a, NEW c, NEW r, NEW g, NEW l, SlotState(o, a, c, r, g, l),
         NEW b, NEW d, NEW h \in Nat, NEW hi \in Nat, h <= hi, NEW e, NEW n,
         Turned(o, a, c, b, d, h, hi, l, e, n), NEW at, NEW st,
         Said(o, at, st, a, c, h, r, n)
  PROVE  Said(o, at, st, b, d, hi, r, n)
<1>1. SUFFICES ASSUME o \in Mutating PROVE Over(b, d, hi, r)
  BY DEF Said
<1>2. /\ r.gen \in Nat /\ l # NoLease
      /\ a.lease # NoLease => a.lease.gen = r.gen
      /\ c.lease # NoLease => c.lease.gen = r.gen
      /\ l.op = o => l.gen = r.gen
  BY <1>1, FencedGens
<1>3. Over(a, c, h, r) /\ (a.lease = NoLease \/ c.lease = NoLease)
  BY <1>1 DEF Said, SlotState, SlotOK
<1>4. CASE Swept(a, c, b, d, hi)
  BY <1>2, <1>3, <1>4 DEF Swept, Over, NotAccepted, NoReceipt
<1>5. CASE o = l.op /\ Rebinds(a, c, b, d, l)
  BY <1>2, <1>3, <1>5 DEF Rebinds, Over
<1>6. CASE o = l.op /\ Takes(a, c, b, d, h, l)
  BY <1>2, <1>3, <1>6 DEF Takes, Over
<1>7. CASE o = l.op /\ Claims(a, c, b, d, h, l, e)
  BY <1>2, <1>3, <1>7 DEF Claims, Over
<1>8. CASE o = l.op /\ Finishes(a, c, b, d, l, n)
  BY <1>2, <1>3, <1>8 DEF Finishes, Over
<1>. QED
  BY <1>4, <1>5, <1>6, <1>7, <1>8 DEF Turned

LEMMA SettledKept ==
  ASSUME NEW o, NEW a, NEW c, NEW r, NEW g, NEW l, SlotState(o, a, c, r, g, l),
         NEW b, NEW d, NEW h \in Nat, NEW hi \in Nat, h <= hi, NEW e, NEW n,
         Turned(o, a, c, b, d, h, hi, l, e, n), NEW st,
         r.lease # NoLease, l.op = o => l.gen <= r.lease.gen,
         Settled(st, a, c, h, r)
  PROVE  Settled(st, b, d, hi, r)
<1>1. r.lease \in Lease /\ r.lease.gen \in Nat /\ r.lease.attempt = r.attempt /\ l # NoLease
        /\ r.attempt \in Nat /\ l.gen \in Nat /\ l.attempt \in Nat
        /\ (l.op = o => l.attempt <= r.attempt)
        /\ (a.lease = NoLease \/ c.lease = NoLease)
  BY RecordFields, LeaseFields, NoLeaseApart DEF SlotState, SlotOK, RecordOK, Issued
<1>2. CASE Swept(a, c, b, d, hi)
  BY <1>1, <1>2 DEF Swept, Settled, NotAccepted, NoReceipt
<1>3. CASE o = l.op /\ Rebinds(a, c, b, d, l)
  BY <1>1, <1>3 DEF Rebinds, Settled
<1>4. CASE o = l.op /\ Takes(a, c, b, d, h, l)
  BY <1>1, <1>4 DEF Takes, Settled
<1>5. CASE o = l.op /\ Claims(a, c, b, d, h, l, e)
  BY <1>1, <1>5 DEF Claims, Settled
<1>6. CASE o = l.op /\ Finishes(a, c, b, d, l, n)
  BY <1>1, <1>6 DEF Finishes, Settled
<1>. QED
  BY <1>2, <1>3, <1>4, <1>5, <1>6 DEF Turned

(* A claim that is neither none nor dead keeps its slot from everyone but  *)
(* the executor of the lease.                                              *)
LEMMA ClaimKept ==
  ASSUME NEW o, NEW a, NEW c, NEW r, NEW g, NEW l, SlotState(o, a, c, r, g, l),
         NEW b, NEW d, NEW h, NEW hi, NEW e, NEW n, Turned(o, a, c, b, d, h, hi, l, e, n),
         a.lease # NoLease, a.lease # l, a.claim # "none", a.claim # "dead"
  PROVE  b = a
BY DEF Turned, Swept, Rebinds, Takes, Claims, Finishes, SlotState, SlotOK

-----------------------------------------------------------------------------
(* What an operation of the journal keeps of the whole state               *)

LEMMA TurnSlots ==
  ASSUME NEW R, NEW g, NEW j, NEW pcs, NEW ls, NEW n, Base(R, g, j, pcs, ls, n),
         NEW e \in Executors, ls[e] # NoLease, NEW k, Turns(j, k, ls[e], e, n), NEW o \in Ops
  PROVE  /\ SlotState(o, j.accepted[o], j.receipts[o], R[o], g, ls[e])
         /\ j.hiGen \in Nat /\ k.hiGen \in Nat /\ j.hiGen <= k.hiGen
         /\ Turned(o, j.accepted[o], j.receipts[o], k.accepted[o], k.receipts[o],
                   j.hiGen, k.hiGen, ls[e], e, n[o])
         /\ n[o] \in Nat
<1>1. j \in Journals /\ k \in Journals /\ R[o] \in Record /\ g \in Nat /\ n[o] \in Nat
        /\ ls[e] \in Lease
  BY DEF Base, Turns
<1>2. RecordOK(o, R[o], g) /\ SlotOK(o, j.accepted[o], j.receipts[o], R[o], g)
  BY DEF Base, RecordsOK, JournalOK
<1>3. Issued(ls[e], ls[e].op, R[ls[e].op], g)
  BY DEF Base, LeasesOK
<1>4. SlotState(o, j.accepted[o], j.receipts[o], R[o], g, ls[e])
  BY <1>1, <1>2, <1>3, SlotFields DEF SlotState
<1>. QED
  BY <1>1, <1>4, JournalFields DEF Turns

LEMMA TurnJournal ==
  ASSUME NEW R, NEW g, NEW j, NEW pcs, NEW ls, NEW n, Base(R, g, j, pcs, ls, n),
         NEW e \in Executors, ls[e] # NoLease, NEW k, Turns(j, k, ls[e], e, n)
  PROVE  k \in Journals /\ JournalOK(k, R, g) /\ EffectsOK(k, R, n)
<1>1. k \in Journals
  BY DEF Turns
<1>2. ASSUME NEW o \in Ops
      PROVE  /\ SlotOK(o, k.accepted[o], k.receipts[o], R[o], g)
             /\ EffectOK(o, k.accepted[o], k.receipts[o], k.hiGen, R[o], n[o])
  <2>1. EffectOK(o, j.accepted[o], j.receipts[o], j.hiGen, R[o], n[o])
    BY DEF Base, EffectsOK
  <2>. QED
    BY <2>1, TurnSlots, SlotKept, EffectKept
<1>. QED
  BY <1>1, <1>2 DEF JournalOK, EffectsOK

LEMMA TurnClaim ==
  ASSUME NEW R, NEW g, NEW j, NEW pcs, NEW ls, NEW n, Base(R, g, j, pcs, ls, n),
         NEW e \in Executors, ls[e] # NoLease, NEW k, Turns(j, k, ls[e], e, n),
         NEW f \in Executors, f # e, NEW t, ClaimOK(f, pcs[f], ls[f], t, j, n)
  PROVE  ClaimOK(f, pcs[f], ls[f], t, k, n)
<1>1. SUFFICES ASSUME pcs[f] \in {"effect", "finishing"}, ls[f].op \in Mutating
               PROVE  k.accepted[ls[f].op] = j.accepted[ls[f].op]
  BY DEF ClaimOK
<1> DEFINE o == ls[f].op
<1>2. o \in Ops /\ ls[f] # NoLease /\ ls[e] \in Lease
  BY <1>1, QueueAssumption DEF Base, LeasesOK, Working
<1>3. j.accepted[o].lease = ls[f] /\ j.accepted[o].claim = f
  BY <1>1 DEF ClaimOK
<1>4. ls[f] # ls[e]
  BY <1>2 DEF Base, LeasesApart
<1>5. f # "none" /\ f # "dead"
  BY JournalAssumption
<1>. QED
  BY <1>2, <1>3, <1>4, <1>5, TurnSlots, ClaimKept

LEMMA TurnSaid ==
  ASSUME NEW R, NEW g, NEW j, NEW pcs, NEW ls, NEW n, Base(R, g, j, pcs, ls, n),
         NEW e \in Executors, ls[e] # NoLease, NEW k, Turns(j, k, ls[e], e, n),
         NEW t, SaidOK(t, j, R, n)
  PROVE  SaidOK(t, k, R, n)
BY TurnSlots, SaidKept DEF SaidOK

LEMMA TurnStands ==
  ASSUME NEW R, NEW g, NEW j, NEW pcs, NEW ls, NEW n, Base(R, g, j, pcs, ls, n),
         NEW e \in Executors, ls[e] # NoLease, NEW k, Turns(j, k, ls[e], e, n),
         NEW t, t.op \in Ops, NEW at, StandsOK(t, at, j, R, ls)
  PROVE  StandsOK(t, at, k, R, ls)
<1> DEFINE o == t.op
<1>1. SUFFICES ASSUME R[o].lease # NoLease, NoneNewer(o, ls, R[o].lease.gen),
                      Settled(t.state, j.accepted[o], j.receipts[o], j.hiGen, R[o])
               PROVE  Settled(t.state, k.accepted[o], k.receipts[o], k.hiGen, R[o])
  BY DEF StandsOK, Stands
<1>2. ls[e].op = o => ls[e].gen <= R[o].lease.gen
  BY <1>1 DEF NoneNewer
<1> HIDE DEF o
<1>3. o \in Ops
  BY DEF o
<1>. QED
  BY <1>1, <1>2, <1>3, TurnSlots, SettledKept

LEMMA TurnTold ==
  ASSUME NEW R, NEW g, NEW j, NEW pcs, NEW ls, NEW n, Base(R, g, j, pcs, ls, n),
         NEW e \in Executors, ls[e] # NoLease, NEW k, Turns(j, k, ls[e], e, n),
         RecordsTold(ls, j, R, n)
  PROVE  RecordsTold(ls, k, R, n)
<1> SUFFICES ASSUME NEW o \in Ops, R[o].why = "receipt"
             PROVE  ToldOK(o, R[o], ls, k.accepted[o], k.receipts[o], k.hiGen, n[o])
  BY DEF RecordsTold, ToldOK
<1>1. /\ Said(o, R[o].attempt, R[o].state, j.accepted[o], j.receipts[o], j.hiGen, R[o], n[o])
      /\ Settled(R[o].state, j.accepted[o], j.receipts[o], j.hiGen, R[o])
      /\ NoneNewer(o, ls, R[o].lease.gen)
  BY DEF RecordsTold, ToldOK
<1>2. R[o].lease # NoLease
  BY DEF Base, RecordsOK, RecordOK
<1>3. ls[e].op = o => ls[e].gen <= R[o].lease.gen
  BY <1>1 DEF NoneNewer
<1>4. Said(o, R[o].attempt, R[o].state, k.accepted[o], k.receipts[o], k.hiGen, R[o], n[o])
  BY <1>1, TurnSlots, SaidKept
<1>5. Settled(R[o].state, k.accepted[o], k.receipts[o], k.hiGen, R[o])
  BY <1>1, <1>2, <1>3, TurnSlots, SettledKept
<1>. QED
  BY <1>1, <1>4, <1>5 DEF ToldOK

(* A journal operation of e keeps what is said.                            *)
LEMMA TurnAllSaid ==
  ASSUME NEW R, NEW g, NEW j, NEW pcs, NEW ls, NEW n, Base(R, g, j, pcs, ls, n),
         NEW e \in Executors, ls[e] # NoLease, NEW k, Turns(j, k, ls[e], e, n),
         NEW who \in SUBSET Executors, NEW ts, NEW s,
         AllSaid(who, R, g, j, pcs, ls, ts, s, n)
  PROVE  AllSaid(who, R, g, k, pcs, ls, ts, s, n)
<1>1. ASSUME NEW f \in who, pcs[f] = "report"
      PROVE  SaidOK(ts[f], k, R, n) /\ StandsOK(ts[f], g, k, R, ls)
  <2>1. SaidOK(ts[f], j, R, n) /\ StandsOK(ts[f], g, j, R, ls) /\ ts[f].op \in Ops
    BY <1>1 DEF AllSaid, SaidOK
  <2>. QED
    BY <2>1, TurnSaid, TurnStands
<1>2. ASSUME NEW t \in s
      PROVE  SaidOK(t, k, R, n) /\ StandsOK(t, t.gen, k, R, ls)
  <2>1. SaidOK(t, j, R, n) /\ StandsOK(t, t.gen, j, R, ls) /\ t.op \in Ops
    BY <1>2 DEF AllSaid, SentOK, SaidOK
  <2>. QED
    BY <2>1, TurnSaid, TurnStands
<1>3. RecordsTold(ls, k, R, n)
  BY TurnTold DEF AllSaid
<1>. QED
  BY <1>1, <1>2, <1>3 DEF AllSaid, SentOK

-----------------------------------------------------------------------------
(* Executors end                                                           *)
LEMMA OrphanSlots ==
  ASSUME NEW R, NEW g, NEW j \in Journals, NEW n, JournalOK(j, R, g), EffectsOK(j, R, n),
         NEW who \in SUBSET Executors, NEW k, Orphans(j, k, who)
  PROVE  /\ k \in Journals /\ JournalOK(k, R, g) /\ EffectsOK(k, R, n)
         /\ k.hiGen = j.hiGen /\ k.receipts = j.receipts
         /\ \A o \in Ops : /\ k.accepted[o].lease = j.accepted[o].lease
                           /\ j.accepted[o].claim \notin who =>
                                k.accepted[o].claim = j.accepted[o].claim
<1>1. "none" \notin who
  BY JournalAssumption
<1>2. \A o \in Ops : /\ k.accepted[o].lease = j.accepted[o].lease
                     /\ j.accepted[o].claim \notin who =>
                          k.accepted[o].claim = j.accepted[o].claim
                     /\ (k.accepted[o].claim = "none") <=> (j.accepted[o].claim = "none")
  BY <1>1 DEF Orphans, Died
<1>3. k \in Journals /\ k.hiGen = j.hiGen /\ k.receipts = j.receipts
  BY DEF Orphans
<1>4. JournalOK(k, R, g)
  BY <1>2, <1>3 DEF JournalOK, SlotOK
<1>5. EffectsOK(k, R, n)
  BY <1>2, <1>3 DEF EffectsOK, EffectOK
<1>. QED
  BY <1>2, <1>3, <1>4, <1>5

(* What is said of the operations depends on neither the claims nor the    *)
(* clocks of the journal, and a lease that is given up disturbs nothing.   *)
LEMMA OrphanAllSaid ==
  ASSUME NEW R, NEW g, NEW j, NEW k, NEW pcs, NEW ls, NEW ts, NEW s, NEW n, NEW ms,
         NEW who, AllSaid(who, R, g, j, pcs, ls, ts, s, n),
         k.hiGen = j.hiGen, k.receipts = j.receipts,
         \A o \in Ops : k.accepted[o].lease = j.accepted[o].lease,
         \A e \in Executors : ms[e] = ls[e] \/ ms[e] = NoLease
  PROVE  AllSaid(who, R, g, k, pcs, ms, ts, s, n)
<1>1. \A o, h : NoneNewer(o, ls, h) => NoneNewer(o, ms, h)
  BY DEF NoneNewer
<1>2. ASSUME NEW t, SaidOK(t, j, R, n)
      PROVE  SaidOK(t, k, R, n)
  BY <1>2 DEF SaidOK, Said, Over
<1>3. ASSUME NEW t, NEW at, t.op \in Ops, StandsOK(t, at, j, R, ls)
      PROVE  StandsOK(t, at, k, R, ms)
  BY <1>1, <1>3 DEF StandsOK, Stands, Settled
<1>4. RecordsTold(ms, k, R, n)
  <2>1. RecordsTold(ls, j, R, n)
    BY DEF AllSaid
  <2>. QED
    BY <1>1, <2>1 DEF RecordsTold, ToldOK, Said, Over, Settled
<1>5. \A t : SaidOK(t, j, R, n) => t.op \in Ops
  BY DEF SaidOK
<1>6. \A f \in who : pcs[f] = "report" => SaidOK(ts[f], k, R, n) /\ StandsOK(ts[f], g, k, R, ms)
  BY <1>2, <1>3, <1>5 DEF AllSaid
<1>7. SentOK(s, ms, k, R, n)
  BY <1>2, <1>3, <1>5 DEF AllSaid, SentOK
<1>. QED
  BY <1>4, <1>6, <1>7 DEF AllSaid

-----------------------------------------------------------------------------
(* Steps of the master                                                     *)

(* The record of o goes from r to q.                                       *)
Rewritten(o, r, q, g, h) ==
  /\ q \in Record /\ RecordOK(o, q, h) /\ g \in Nat /\ h \in Nat /\ g <= h
  /\ r.attempt <= q.attempt
  /\ r.attempt > 0 => q.gen = r.gen
  /\ \/ q.lease = NoLease
     \/ q.lease = r.lease /\ q.attempt = r.attempt
     \/ q.attempt > r.attempt

LEMMA IssuedKept ==
  ASSUME NEW o, NEW r \in Record, NEW q, NEW g, NEW h, Rewritten(o, r, q, g, h),
         NEW l, Issued(l, o, r, g)
  PROVE  Issued(l, o, q, h)
<1>1. l \in Lease /\ l.op = o /\ l.attempt \in Nat \ {0} /\ l.gen \in Nat
  BY LeaseFields DEF Issued
<1>2. r.attempt \in Nat /\ q.attempt \in Nat /\ g \in Nat /\ h \in Nat
  BY RecordFields DEF Rewritten
<1>. QED
  BY <1>1, <1>2 DEF Issued, Rewritten

LEMMA RewriteSlot ==
  ASSUME NEW o, NEW r \in Record, NEW q, NEW g, NEW h, Rewritten(o, r, q, g, h),
         NEW a, NEW c, SlotOK(o, a, c, r, g)
  PROVE  SlotOK(o, a, c, q, h)
BY IssuedKept DEF SlotOK

LEMMA RewriteEffect ==
  ASSUME NEW o, NEW r \in Record, NEW q, NEW g, NEW h, Rewritten(o, r, q, g, h),
         NEW a, NEW c, NEW hi, NEW n \in Nat, EffectOK(o, a, c, hi, r, n)
  PROVE  EffectOK(o, a, c, hi, q, n)
BY RecordFields DEF EffectOK, Rewritten

LEMMA RewriteSaid ==
  ASSUME NEW o, NEW r \in Record, NEW q, NEW g, NEW h, Rewritten(o, r, q, g, h),
         NEW a, NEW c, NEW hi, NEW n, NEW at, NEW st, Said(o, at, st, a, c, hi, r, n)
  PROVE  Said(o, at, st, a, c, hi, q, n)
<1>1. r.attempt \in Nat /\ q.attempt \in Nat /\ r.attempt <= q.attempt /\ at \in Nat \ {0}
        /\ at <= r.attempt
  BY RecordFields DEF Rewritten, Said
<1>2. q.gen = r.gen
  BY <1>1 DEF Rewritten
<1>. QED
  BY <1>1, <1>2 DEF Said, Over

(* A report that would pass the fences of q would have passed those of r.  *)
LEMMA RewriteStands ==
  ASSUME NEW o, NEW r \in Record, NEW q, NEW g, NEW h, Rewritten(o, r, q, g, h),
         NEW a, NEW c, NEW hi, NEW at, NEW st, NEW x \in Nat, NEW y \in Nat, x <= y,
         at <= r.attempt, at \in Nat, NEW ls, NEW ms,
         q.lease = r.lease /\ q.attempt = r.attempt =>
           \A e \in Executors : ms[e] # NoLease /\ ms[e].op = o => ms[e] = ls[e],
         Stands(o, at, x, st, a, c, hi, r, ls)
  PROVE  Stands(o, at, y, st, a, c, hi, q, ms)
<1> SUFFICES ASSUME q.lease # NoLease, at = q.attempt, y <= q.lease.gen
             PROVE  Settled(st, a, c, hi, q) /\ NoneNewer(o, ms, q.lease.gen)
  BY DEF Stands
<1>1. r.attempt \in Nat /\ q.attempt \in Nat /\ q.lease.gen \in Nat
  BY RecordFields DEF Rewritten
<1>2. q.lease = r.lease /\ q.attempt = r.attempt
  BY <1>1 DEF Rewritten
<1>3. Settled(st, a, c, hi, r) /\ NoneNewer(o, ls, r.lease.gen)
  BY <1>1, <1>2 DEF Stands
<1>. QED
  BY <1>2, <1>3 DEF Settled, NoneNewer

(* Where executor e may be after a step of the master or its own: where it *)
(* was, without a lease, or with the lease it was just given.              *)
Placed(e, R, S, pcs, qcs, ls, ms, ts, us) ==
  \/ qcs[e] = pcs[e] /\ ms[e] = ls[e] /\ us[e] = ts[e]
  \/ qcs[e] \in {"idle", "connected", "polling"} /\ ms[e] = NoLease
  \/ /\ qcs[e] = "leased" /\ ms[e] \in Lease
     /\ ms[e] = S[ms[e].op].lease /\ S[ms[e].op].attempt > R[ms[e].op].attempt

LEMMA MasterWorld ==
  ASSUME NEW R, NEW g, NEW j, NEW pcs, NEW ls, NEW ts, NEW s, NEW n,
         World(R, g, j, pcs, ls, ts, s, n),
         NEW S \in [Ops -> Record], NEW h \in Nat,
         \A o \in Ops : Rewritten(o, R[o], S[o], g, h),
         NEW qcs, NEW ms \in [Executors -> Lease \cup {NoLease}], NEW us, NEW z \in SUBSET Reports,
         NEW e,
         \A f \in Executors \ {e} : qcs[f] = pcs[f] /\ ms[f] = ls[f] /\ us[f] = ts[f],
         e \in Executors => Placed(e, R, S, pcs, qcs, ls, ms, ts, us),
         SentOK(z, ls, j, R, n),
         \A o \in Ops : S[o].why = "receipt" =>
           \/ S[o] = R[o]
           \/ ToldOK(o, S[o], ms, j.accepted[o], j.receipts[o], j.hiGen, n[o])
  PROVE  World(S, h, j, qcs, ms, us, z, n)
<1>1. /\ R \in [Ops -> Record] /\ g \in Nat /\ j \in Journals
      /\ ls \in [Executors -> Lease \cup {NoLease}] /\ n \in [Ops -> Nat]
      /\ JournalOK(j, R, g) /\ LeasesOK(pcs, ls, R, g) /\ LeasesApart(ls) /\ EffectsOK(j, R, n)
  BY DEF World, Base
<1>2. RecordsOK(S, h) /\ g <= h
  <2>1. \E o \in Ops : TRUE
    BY QueueAssumption
  <2>. QED
    BY <2>1 DEF RecordsOK, Rewritten
<1>3. JournalOK(j, S, h)
  BY <1>1, RewriteSlot DEF JournalOK
<1>4. EffectsOK(j, S, n)
  BY <1>1, RewriteEffect DEF EffectsOK
<1>5. \A f \in Executors : ls[f] # NoLease =>
        /\ ls[f].op \in Ops /\ ls[f].attempt \in Nat /\ R[ls[f].op].attempt \in Nat
        /\ Issued(ls[f], ls[f].op, R[ls[f].op], g)
        /\ Issued(ls[f], ls[f].op, S[ls[f].op], h)
  <2> SUFFICES ASSUME NEW f \in Executors, ls[f] # NoLease
               PROVE  /\ ls[f].op \in Ops /\ ls[f].attempt \in Nat
                      /\ R[ls[f].op].attempt \in Nat
                      /\ Issued(ls[f], ls[f].op, R[ls[f].op], g)
                      /\ Issued(ls[f], ls[f].op, S[ls[f].op], h)
    OBVIOUS
  <2>1. ls[f] \in Lease
    BY <1>1
  <2>2. ls[f].op \in Ops /\ ls[f].attempt \in Nat
    BY <2>1, LeaseFields
  <2>3. Issued(ls[f], ls[f].op, R[ls[f].op], g)
    BY <1>1 DEF LeasesOK
  <2>4. R[ls[f].op] \in Record
    BY <1>1, <2>2
  <2>. QED
    BY <2>2, <2>3, <2>4, IssuedKept, RecordFields
<1> DEFINE New(f) == /\ f = e /\ qcs[f] = "leased" /\ ms[f] \in Lease
                     /\ ms[f] = S[ms[f].op].lease /\ S[ms[f].op].attempt > R[ms[f].op].attempt
<1>6. \A f \in Executors :
        \/ qcs[f] = pcs[f] /\ ms[f] = ls[f] /\ us[f] = ts[f]
        \/ qcs[f] \in {"idle", "connected", "polling"} /\ ms[f] = NoLease
        \/ New(f)
  BY DEF Placed
<1>7. \A f \in Executors : New(f) =>
        /\ ms[f] # NoLease /\ ms[f].op \in Ops /\ ms[f].attempt = S[ms[f].op].attempt
        /\ Issued(ms[f], ms[f].op, S[ms[f].op], h)
        /\ R[ms[f].op].attempt \in Nat /\ S[ms[f].op].attempt \in Nat
        /\ R[ms[f].op].attempt < S[ms[f].op].attempt
  <2> SUFFICES ASSUME NEW f \in Executors, New(f)
               PROVE  /\ ms[f] # NoLease /\ ms[f].op \in Ops
                      /\ ms[f].attempt = S[ms[f].op].attempt
                      /\ Issued(ms[f], ms[f].op, S[ms[f].op], h)
                      /\ R[ms[f].op].attempt \in Nat /\ S[ms[f].op].attempt \in Nat
                      /\ R[ms[f].op].attempt < S[ms[f].op].attempt
    OBVIOUS
  <2>1. ms[f] # NoLease /\ ms[f].op \in Ops
    BY NoLeaseApart, LeaseFields
  <2>2. S[ms[f].op].lease = ms[f] /\ RecordOK(ms[f].op, S[ms[f].op], h)
    BY <1>2, <2>1 DEF RecordsOK
  <2>3. R[ms[f].op].attempt \in Nat /\ S[ms[f].op].attempt \in Nat
    BY <1>1, <2>1, RecordFields
  <2>. QED
    BY <2>1, <2>2, <2>3 DEF RecordOK
<1> HIDE DEF New
<1>8. LeasesOK(qcs, ms, S, h)
  <2>1. {"idle", "connected", "polling"} \cap Working = {} /\ "leased" \in Working
    BY DEF Working
  <2>2. ASSUME NEW f \in Executors
        PROVE  /\ (qcs[f] \in Working) <=> (ms[f] # NoLease)
               /\ ms[f] # NoLease => Issued(ms[f], ms[f].op, S[ms[f].op], h)
    <3>1. CASE qcs[f] = pcs[f] /\ ms[f] = ls[f]
      BY <1>1, <1>5, <3>1 DEF LeasesOK
    <3>2. CASE qcs[f] \in {"idle", "connected", "polling"} /\ ms[f] = NoLease
      BY <2>1, <3>2
    <3>3. CASE New(f)
      BY <1>7, <2>1, <3>3 DEF New
    <3>. QED
      BY <1>6, <3>1, <3>2, <3>3
  <2>. QED
    BY <2>2 DEF LeasesOK
<1>9. LeasesApart(ms)
  <2> SUFFICES ASSUME NEW f \in Executors, NEW i \in Executors, ms[f] # NoLease, ms[i] # NoLease,
                      ms[f].op = ms[i].op, ms[f].attempt = ms[i].attempt
               PROVE  f = i
    BY DEF LeasesApart
  <2>1. CASE ms[f] = ls[f] /\ ms[i] = ls[i]
    BY <1>1, <2>1 DEF LeasesApart
  <2>2. CASE New(f) /\ ms[i] = ls[i]
    BY <1>5, <1>7, <2>2 DEF Issued
  <2>3. CASE New(i) /\ ms[f] = ls[f]
    BY <1>5, <1>7, <2>3 DEF Issued
  <2>4. CASE New(f) /\ New(i)
    BY <2>4 DEF New
  <2>. QED
    BY <1>6, <2>1, <2>2, <2>3, <2>4
<1>10. ClaimsOK(qcs, ms, us, j, n)
  <2>1. ClaimsOK(pcs, ls, ts, j, n)
    BY DEF World
  <2>2. ASSUME NEW f \in Executors PROVE ClaimOK(f, qcs[f], ms[f], us[f], j, n)
    <3>1. CASE qcs[f] = pcs[f] /\ ms[f] = ls[f] /\ us[f] = ts[f]
      BY <2>1, <3>1 DEF ClaimsOK
    <3>2. CASE qcs[f] \in {"idle", "connected", "polling", "leased"}
      BY <3>2 DEF ClaimOK
    <3>. QED
      BY <1>6, <3>1, <3>2 DEF New
  <2>. QED
    BY <2>2 DEF ClaimsOK
<1>11. ASSUME NEW t, SaidOK(t, j, R, n)
       PROVE  SaidOK(t, j, S, n) /\ t.op \in Ops /\ t.attempt \in Nat
                /\ t.attempt <= R[t.op].attempt
  <2>1. t.op \in Ops /\ R[t.op] \in Record /\ Rewritten(t.op, R[t.op], S[t.op], g, h)
    BY <1>1, <1>11 DEF SaidOK
  <2>2. SaidOK(t, j, S, n)
    BY <1>11, <2>1, RewriteSaid DEF SaidOK
  <2>. QED
    BY <1>11, <2>1, <2>2 DEF SaidOK, Said
<1>12. ASSUME NEW o \in Ops, S[o].attempt = R[o].attempt,
              NEW f \in Executors, ms[f] # NoLease, ms[f].op = o
       PROVE  ms[f] = ls[f]
  BY <1>6, <1>7, <1>12
<1>13. ASSUME NEW t, NEW x \in Nat, NEW y \in Nat, x <= y, SaidOK(t, j, R, n),
              StandsOK(t, x, j, R, ls)
       PROVE  StandsOK(t, y, j, S, ms)
  <2>1. t.op \in Ops /\ t.attempt \in Nat /\ t.attempt <= R[t.op].attempt
    BY <1>11, <1>13
  <2>2. R[t.op] \in Record /\ Rewritten(t.op, R[t.op], S[t.op], g, h)
    BY <1>1, <2>1
  <2>3. S[t.op].lease = R[t.op].lease /\ S[t.op].attempt = R[t.op].attempt =>
          \A f \in Executors : ms[f] # NoLease /\ ms[f].op = t.op => ms[f] = ls[f]
    BY <1>12, <2>1
  <2>. QED
    BY <1>13, <2>1, <2>2, <2>3, RewriteStands DEF StandsOK
<1>14. AllSaid(Executors, R, g, j, pcs, ls, ts, s, n)
  BY DEF World
<1>15. ASSUME NEW f \in Executors, qcs[f] = "report"
       PROVE  SaidOK(us[f], j, S, n) /\ StandsOK(us[f], h, j, S, ms)
  <2>1. pcs[f] = "report" /\ us[f] = ts[f]
    BY <1>6, <1>15 DEF New
  <2>2. SaidOK(us[f], j, R, n) /\ StandsOK(us[f], g, j, R, ls)
    BY <1>14, <2>1 DEF AllSaid
  <2>. QED
    BY <1>1, <1>2, <1>11, <1>13, <2>2
<1>16. SentOK(z, ms, j, S, n)
  <2> SUFFICES ASSUME NEW t \in z
               PROVE  SaidOK(t, j, S, n) /\ StandsOK(t, t.gen, j, S, ms)
    BY DEF SentOK
  <2>1. SaidOK(t, j, R, n) /\ StandsOK(t, t.gen, j, R, ls)
    BY DEF SentOK
  <2>2. t.gen \in Nat
    BY DEF Reports
  <2>. QED
    BY <1>11, <1>13, <2>1, <2>2
<1>17. RecordsTold(ms, j, S, n)
  <2> SUFFICES ASSUME NEW o \in Ops, S[o].why = "receipt", S[o] = R[o]
               PROVE  ToldOK(o, S[o], ms, j.accepted[o], j.receipts[o], j.hiGen, n[o])
    BY DEF RecordsTold, ToldOK
  <2>1. ToldOK(o, S[o], ls, j.accepted[o], j.receipts[o], j.hiGen, n[o])
    BY <1>14 DEF AllSaid, RecordsTold
  <2>2. \A f \in Executors : ms[f] # NoLease /\ ms[f].op = o => ms[f] = ls[f]
    BY <1>12
  <2>. QED
    BY <2>1, <2>2 DEF ToldOK, NoneNewer
<1>18. AllSaid(Executors, S, h, j, qcs, ms, us, z, n)
  BY <1>15, <1>16, <1>17 DEF AllSaid
<1>19. Base(S, h, j, qcs, ms, n)
  BY <1>1, <1>2, <1>3, <1>4, <1>8, <1>9 DEF Base
<1>. QED
  BY <1>10, <1>18, <1>19 DEF World

-----------------------------------------------------------------------------
(* Steps of an executor on the journal                                     *)

(* The state without what executor e itself is about to do.                *)
Others(e, R, g, j, pcs, ls, ts, s, n) ==
  /\ Base(R, g, j, pcs, ls, n)
  /\ \A f \in Executors \ {e} : ClaimOK(f, pcs[f], ls[f], ts[f], j, n)
  /\ AllSaid(Executors \ {e}, R, g, j, pcs, ls, ts, s, n)

LEMMA TurnOthers ==
  ASSUME NEW e \in Executors, NEW R, NEW g, NEW j, NEW pcs, NEW ls, NEW ts, NEW s, NEW n,
         Others(e, R, g, j, pcs, ls, ts, s, n), ls[e] # NoLease,
         NEW k, Turns(j, k, ls[e], e, n)
  PROVE  Others(e, R, g, k, pcs, ls, ts, s, n)
<1>1. Base(R, g, j, pcs, ls, n) /\ AllSaid(Executors \ {e}, R, g, j, pcs, ls, ts, s, n)
  BY DEF Others
<1>2. k \in Journals /\ JournalOK(k, R, g) /\ EffectsOK(k, R, n)
  BY <1>1, TurnJournal
<1>3. Base(R, g, k, pcs, ls, n)
  BY <1>1, <1>2 DEF Base
<1>4. ASSUME NEW f \in Executors \ {e} PROVE ClaimOK(f, pcs[f], ls[f], ts[f], k, n)
  <2>1. ClaimOK(f, pcs[f], ls[f], ts[f], j, n)
    BY DEF Others
  <2>. QED
    BY <1>1, <2>1, TurnClaim
<1>5. AllSaid(Executors \ {e}, R, g, k, pcs, ls, ts, s, n)
  <2>1. (Executors \ {e}) \in SUBSET Executors
    OBVIOUS
  <2>. QED
    BY <1>1, <2>1, TurnAllSaid
<1>. QED
  BY <1>3, <1>4, <1>5 DEF Others

LEMMA OrphanOthers ==
  ASSUME NEW e \in Executors, NEW R, NEW g, NEW j, NEW pcs, NEW ls, NEW ts, NEW s, NEW n,
         Others(e, R, g, j, pcs, ls, ts, s, n), NEW k, Orphans(j, k, {e})
  PROVE  Others(e, R, g, k, pcs, ls, ts, s, n)
<1>1. Base(R, g, j, pcs, ls, n) /\ AllSaid(Executors \ {e}, R, g, j, pcs, ls, ts, s, n)
  BY DEF Others
<1>2. j \in Journals /\ JournalOK(j, R, g) /\ EffectsOK(j, R, n)
  BY <1>1 DEF Base
<1>3. /\ k \in Journals /\ JournalOK(k, R, g) /\ EffectsOK(k, R, n)
      /\ k.hiGen = j.hiGen /\ k.receipts = j.receipts
      /\ \A o \in Ops : /\ k.accepted[o].lease = j.accepted[o].lease
                        /\ j.accepted[o].claim \notin {e} =>
                             k.accepted[o].claim = j.accepted[o].claim
  BY <1>2, OrphanSlots
<1>4. Base(R, g, k, pcs, ls, n)
  BY <1>1, <1>3 DEF Base
<1>5. ASSUME NEW f \in Executors \ {e} PROVE ClaimOK(f, pcs[f], ls[f], ts[f], k, n)
  <2>1. ClaimOK(f, pcs[f], ls[f], ts[f], j, n)
    BY DEF Others
  <2>2. Mutating \subseteq Ops
    BY QueueAssumption
  <2>. QED
    BY <1>3, <2>1, <2>2 DEF ClaimOK
<1>6. AllSaid(Executors \ {e}, R, g, k, pcs, ls, ts, s, n)
  BY <1>1, <1>3, OrphanAllSaid
<1>. QED
  BY <1>4, <1>5, <1>6 DEF Others

(* Executor e goes on at label, with its lease or without one.             *)
LEMMA MoveWorld ==
  ASSUME NEW e \in Executors, NEW R, NEW g, NEW j, NEW pcs, NEW ls, NEW ts, NEW s, NEW n,
         Others(e, R, g, j, pcs, ls, ts, s, n),
         NEW qcs, NEW ms \in [Executors -> Lease \cup {NoLease}], NEW us,
         \A f \in Executors \ {e} : qcs[f] = pcs[f] /\ ms[f] = ls[f] /\ us[f] = ts[f],
         ms[e] = ls[e] \/ ms[e] = NoLease,
         (qcs[e] \in Working) <=> (ms[e] # NoLease),
         ClaimOK(e, qcs[e], ms[e], us[e], j, n),
         qcs[e] = "report" => SaidOK(us[e], j, R, n) /\ StandsOK(us[e], g, j, R, ls)
  PROVE  World(R, g, j, qcs, ms, us, s, n)
<1>1. /\ Base(R, g, j, pcs, ls, n) /\ AllSaid(Executors \ {e}, R, g, j, pcs, ls, ts, s, n)
      /\ \A f \in Executors \ {e} : ClaimOK(f, pcs[f], ls[f], ts[f], j, n)
  BY DEF Others
<1>2. \A f \in Executors : ms[f] = ls[f] \/ ms[f] = NoLease
  OBVIOUS
<1>3. LeasesOK(qcs, ms, R, g) /\ LeasesApart(ms)
  BY <1>1, <1>2 DEF Base, LeasesOK, LeasesApart
<1>4. Base(R, g, j, qcs, ms, n)
  BY <1>1, <1>3 DEF Base
<1>5. ClaimsOK(qcs, ms, us, j, n)
  BY <1>1 DEF ClaimsOK
<1>6. AllSaid(Executors, R, g, j, qcs, ls, us, s, n)
  BY <1>1 DEF AllSaid
<1>7. AllSaid(Executors, R, g, j, qcs, ms, us, s, n)
  BY <1>2, <1>6, OrphanAllSaid
<1>. QED
  BY <1>4, <1>5, <1>7 DEF World

LEMMA WorldOthers ==
  ASSUME NEW e \in Executors, NEW R, NEW g, NEW j, NEW pcs, NEW ls, NEW ts, NEW s, NEW n,
         World(R, g, j, pcs, ls, ts, s, n)
  PROVE  Others(e, R, g, j, pcs, ls, ts, s, n)
BY DEF World, Others, ClaimsOK, AllSaid

(* The receipt of its lease that e finds in the journal.                   *)
LEMMA SavedReceiptSaid ==
  ASSUME NEW e \in Executors, NEW R, NEW g, NEW j, NEW pcs, NEW ls, NEW n,
         Base(R, g, j, pcs, ls, n), ls[e] # NoLease,
         j.receipts[ls[e].op].lease = ls[e]
  PROVE  /\ SavedReceipt(j, ls[e]) \in Reports
         /\ SaidOK(SavedReceipt(j, ls[e]), j, R, n)
         /\ StandsOK(SavedReceipt(j, ls[e]), g, j, R, ls)
<1> DEFINE l == ls[e]
           o == l.op
           t == SavedReceipt(j, l)
           c == j.receipts[o]
<1>1. l \in Lease /\ l \in Lease \cup {NoLease} /\ g \in Nat
  BY DEF Base
<1>2. o \in Ops /\ l.attempt \in Nat \ {0} /\ l.epoch \in Nat
  BY <1>1, LeaseFields
<1>3. t.op = o /\ t.attempt = l.attempt /\ t.epoch = l.epoch /\ t.gen = 0 /\ t.state = c.state
        /\ t = [op |-> o, attempt |-> l.attempt, epoch |-> l.epoch, gen |-> 0, state |-> c.state]
  BY DEF SavedReceipt
<1>4. Issued(l, o, R[o], g) /\ c.state \in Known /\ c.lease = l
  BY <1>2 DEF Base, LeasesOK, JournalOK, SlotOK
<1>5. t \in Reports
  BY <1>2, <1>3, <1>4, QueueAssumption DEF Reports
<1>6. EffectOK(o, j.accepted[o], c, j.hiGen, R[o], n[o])
  BY <1>2 DEF Base, EffectsOK
<1>7. Said(o, l.attempt, c.state, j.accepted[o], c, j.hiGen, R[o], n[o])
  BY <1>2, <1>4, <1>6 DEF Said, EffectOK, Over, Issued
<1>8. \A f \in Executors : ls[f] # NoLease => ls[f].gen <= g /\ ls[f].gen \in Nat
  BY LeaseFields DEF Base, LeasesOK, Issued
<1>9. R[o].lease # NoLease => R[o].lease.gen \in Nat
  BY <1>2, RecordFields DEF Base
<1>10. Stands(o, l.attempt, g, c.state, j.accepted[o], c, j.hiGen, R[o], ls)
  BY <1>1, <1>4, <1>8, <1>9 DEF Stands, Settled, Issued, NoneNewer
<1> HIDE DEF t
<1>11. SaidOK(t, j, R, n) /\ StandsOK(t, g, j, R, ls)
  BY <1>2, <1>3, <1>7, <1>10 DEF SaidOK, StandsOK
<1>. QED
  BY <1>5, <1>11 DEF t

Adds(n, m, o, st, d) == <<st, d>> \in Outcomes(o) /\ m = [n EXCEPT ![o] = @ + d]

Dispatched(e, pcs, ts, qcs, us, st) ==
  /\ pcs[e] = "effect" /\ qcs[e] = "finishing" /\ us[e].state = st
  /\ \A f \in Executors \ {e} : qcs[f] = pcs[f] /\ us[f] = ts[f]

(* The operation takes effect, or not: nothing has been said of it yet.    *)
LEMMA EffectWorld ==
  ASSUME NEW e \in Executors, NEW R, NEW g, NEW j, NEW pcs, NEW ls, NEW ts, NEW s, NEW n,
         World(R, g, j, pcs, ls, ts, s, n),
         NEW st, NEW d, NEW m, Adds(n, m, ls[e].op, st, d),
         NEW qcs, NEW us, Dispatched(e, pcs, ts, qcs, us, st)
  PROVE  World(R, g, j, qcs, ls, us, s, m)
<1> DEFINE l == ls[e]
           o == l.op
<1>1. /\ Base(R, g, j, pcs, ls, n) /\ ClaimsOK(pcs, ls, ts, j, n)
      /\ AllSaid(Executors, R, g, j, pcs, ls, ts, s, n)
      /\ pcs[e] = "effect" /\ qcs[e] = "finishing" /\ us[e].state = st
      /\ \A f \in Executors \ {e} : qcs[f] = pcs[f] /\ us[f] = ts[f]
  BY DEF World, Dispatched
<1>2. /\ R \in [Ops -> Record] /\ n \in [Ops -> Nat] /\ l \in Lease /\ l # NoLease /\ o \in Ops
      /\ Issued(l, o, R[o], g)
  BY <1>1, LeaseFields DEF Base, LeasesOK, Working
<1>3. /\ d \in {0, 1} /\ st \in Known
      /\ (o \notin Mutating => d = 0) /\ (o \in Mutating => Truth(st, d))
  BY DEF Adds, Outcomes, Known, Truth
<1>4. m \in [Ops -> Nat] /\ m[o] = n[o] + d /\ \A q \in Ops \ {o} : m[q] = n[q]
  BY <1>2, <1>3 DEF Adds
<1>5. o \in Mutating => /\ n[o] = 0 /\ m[o] = d
                        /\ j.accepted[o].lease = l /\ j.accepted[o].claim = e
                        /\ j.receipts[o].lease = NoLease
  BY <1>1, <1>2, <1>3, <1>4 DEF ClaimsOK, ClaimOK, Base, JournalOK, SlotOK
<1>6. o \notin Mutating => m[o] = n[o]
  BY <1>2, <1>3, <1>4
<1>7. EffectsOK(j, R, m)
  <2> SUFFICES ASSUME NEW q \in Ops
               PROVE  EffectOK(q, j.accepted[q], j.receipts[q], j.hiGen, R[q], m[q])
    BY DEF EffectsOK
  <2>1. EffectOK(q, j.accepted[q], j.receipts[q], j.hiGen, R[q], n[q])
    BY <1>1 DEF Base, EffectsOK
  <2>2. CASE q # o \/ o \notin Mutating
    BY <1>4, <1>6, <2>1, <2>2
  <2>3. CASE q = o /\ o \in Mutating
    <3>1. R[o].attempt > 0 /\ e # "none"
      BY <1>2, LeaseFields, RecordFields, JournalAssumption DEF Issued
    <3>. QED
      BY <1>3, <1>5, <2>3, <3>1 DEF EffectOK
  <2>. QED
    BY <2>2, <2>3
<1>8. LeasesOK(qcs, ls, R, g)
  <2>1. "finishing" \in Working /\ "effect" \in Working
    BY DEF Working
  <2>. QED
    BY <1>1, <2>1 DEF Base, LeasesOK
<1>9. Base(R, g, j, qcs, ls, m)
  BY <1>1, <1>4, <1>7, <1>8 DEF Base
<1>10. ASSUME NEW f \in Executors PROVE ClaimOK(f, qcs[f], ls[f], us[f], j, m)
  <2>1. CASE f = e
    BY <1>1, <1>3, <1>5, <2>1 DEF ClaimOK
  <2>2. CASE f # e
    <3>1. ClaimOK(f, pcs[f], ls[f], ts[f], j, n) /\ qcs[f] = pcs[f] /\ us[f] = ts[f]
      BY <1>1, <2>2 DEF ClaimsOK
    <3>2. CASE pcs[f] \in {"effect", "finishing"} /\ ls[f].op \in Mutating
      <4>1. j.accepted[ls[f].op].claim = f /\ ls[f].op \in Ops
        BY <3>1, <3>2, QueueAssumption DEF ClaimOK
      <4>2. ls[f].op # o
        BY <1>5, <2>2, <3>2, <4>1
      <4>3. m[ls[f].op] = n[ls[f].op]
        BY <1>4, <4>1, <4>2
      <4>. QED
        BY <3>1, <4>3 DEF ClaimOK
    <3>3. CASE ~ (pcs[f] \in {"effect", "finishing"} /\ ls[f].op \in Mutating)
      BY <3>1, <3>3 DEF ClaimOK
    <3>. QED
      BY <3>2, <3>3
  <2>. QED
    BY <2>1, <2>2
<1>11. ASSUME NEW q \in Ops, NEW at, NEW state,
              Said(q, at, state, j.accepted[q], j.receipts[q], j.hiGen, R[q], n[q])
       PROVE  Said(q, at, state, j.accepted[q], j.receipts[q], j.hiGen, R[q], m[q])
  <2>1. CASE q # o \/ o \notin Mutating
    BY <1>4, <1>6, <1>11, <2>1
  <2>2. CASE q = o /\ o \in Mutating
    BY <1>2, <1>5, <1>11, <2>2 DEF Said, Over
  <2>. QED
    BY <2>1, <2>2
<1>12. \A t : SaidOK(t, j, R, n) => SaidOK(t, j, R, m)
  BY <1>11 DEF SaidOK
<1>13. AllSaid(Executors, R, g, j, qcs, ls, us, s, m)
  <2>1. \A f \in Executors :
          qcs[f] = "report" => SaidOK(us[f], j, R, m) /\ StandsOK(us[f], g, j, R, ls)
    BY <1>1, <1>12 DEF AllSaid
  <2>2. SentOK(s, ls, j, R, m)
    BY <1>1, <1>12 DEF AllSaid, SentOK
  <2>3. RecordsTold(ls, j, R, m)
    BY <1>1, <1>11 DEF AllSaid, RecordsTold, ToldOK
  <2>. QED
    BY <2>1, <2>2, <2>3 DEF AllSaid
<1>14. ClaimsOK(qcs, ls, us, j, m)
  BY <1>10 DEF ClaimsOK
<1>. QED
  BY <1>9, <1>13, <1>14 DEF World

(* Every executor ends.                                                    *)
LEMMA BootWorld ==
  ASSUME NEW R, NEW g, NEW j, NEW pcs, NEW ls, NEW ts, NEW s, NEW n,
         World(R, g, j, pcs, ls, ts, s, n), NEW k, NEW i,
         Orphans(j, k, Executors), Orphans(k, i, Executors),
         NEW qcs, NEW ms \in [Executors -> Lease \cup {NoLease}], NEW us,
         \A f \in Executors : qcs[f] = "idle" /\ ms[f] = NoLease
  PROVE  World(R, g, i, qcs, ms, us, s, n)
<1>1. Base(R, g, j, pcs, ls, n) /\ AllSaid(Executors, R, g, j, pcs, ls, ts, s, n)
  BY DEF World
<1>2. j \in Journals /\ JournalOK(j, R, g) /\ EffectsOK(j, R, n)
  BY <1>1 DEF Base
<1>3. /\ k \in Journals /\ JournalOK(k, R, g) /\ EffectsOK(k, R, n)
      /\ k.hiGen = j.hiGen /\ k.receipts = j.receipts
      /\ \A o \in Ops : k.accepted[o].lease = j.accepted[o].lease
  BY <1>2, OrphanSlots
<1>4. /\ i \in Journals /\ JournalOK(i, R, g) /\ EffectsOK(i, R, n)
      /\ i.hiGen = k.hiGen /\ i.receipts = k.receipts
      /\ \A o \in Ops : i.accepted[o].lease = k.accepted[o].lease
  BY <1>3, OrphanSlots
<1>5. LeasesOK(qcs, ms, R, g) /\ LeasesApart(ms)
  BY DEF LeasesOK, LeasesApart, Working
<1>6. Base(R, g, i, qcs, ms, n)
  BY <1>1, <1>4, <1>5 DEF Base
<1>7. ClaimsOK(qcs, ms, us, i, n)
  BY DEF ClaimsOK, ClaimOK
<1>8. AllSaid(Executors, R, g, i, pcs, ms, ts, s, n)
  BY <1>1, <1>3, <1>4, OrphanAllSaid
<1>9. AllSaid(Executors, R, g, i, qcs, ms, us, s, n)
  BY <1>8 DEF AllSaid
<1>. QED
  BY <1>6, <1>7, <1>9 DEF World

-----------------------------------------------------------------------------
(* The records under each operation of the queue                           *)
LEMMA SameRecord ==
  ASSUME NEW o \in Ops, NEW r \in Record, NEW g \in Nat, NEW h \in Nat, g <= h, RecordOK(o, r, g)
  PROVE  Rewritten(o, r, r, g, h)
<1>1. r.gen \in Nat /\ r.attempt \in Nat /\ (r.lease # NoLease => r.lease.gen \in Nat)
  BY RecordFields
<1>2. RecordOK(o, r, h)
  BY <1>1 DEF RecordOK, Issued
<1>. QED
  BY <1>1, <1>2 DEF Rewritten

LEMMA EndedRecord ==
  ASSUME NEW o \in Ops, NEW r \in Record, NEW g \in Nat, RecordOK(o, r, g),
         NEW state \in Terminal,
         NEW why \in {"cancelled", "expired", "exhausted", "stale", "receipt"},
         why = "receipt" => r.lease # NoLease
  PROVE  Rewritten(o, r, Ended(r, state, why), g, g)
<1> DEFINE q == Ended(r, state, why)
<1>1. /\ q.state = state /\ q.why = why /\ q.attempt = r.attempt /\ q.gen = r.gen
      /\ q.lease = r.lease /\ q \in Record
  BY DEF Ended, Record
<1> HIDE DEF q
<1>2. r.attempt \in Nat /\ state # "absent" /\ state # "leased"
  BY RecordFields DEF Terminal
<1>3. RecordOK(o, q, g)
  BY <1>1, <1>2 DEF RecordOK, Issued
<1>. QED
  BY <1>1, <1>2, <1>3 DEF Rewritten, q

LEMMA RequeuedRecord ==
  ASSUME NEW o \in Ops, NEW r \in Record, NEW g \in Nat, RecordOK(o, r, g), r.state = "leased"
  PROVE  /\ Rewritten(o, r, Leased(r, "queued", r.attempt, NoLease), g, g)
         /\ Leased(r, "queued", r.attempt, NoLease).why # "receipt"
<1> DEFINE q == Leased(r, "queued", r.attempt, NoLease)
<1>1. /\ q.state = "queued" /\ q.why = r.why /\ q.attempt = r.attempt /\ q.gen = r.gen
      /\ q.lease = NoLease /\ q \in Record
  BY DEF Leased, Record
<1> HIDE DEF q
<1>2. r.attempt \in Nat /\ r.why # "receipt"
  BY RecordFields DEF RecordOK, Terminal
<1>3. RecordOK(o, q, g)
  BY <1>1, <1>2 DEF RecordOK
<1>. QED
  BY <1>1, <1>2, <1>3 DEF Rewritten, q

LEMMA LeasedRecord ==
  ASSUME NEW o \in Ops, NEW r \in Record, NEW g \in Nat, RecordOK(o, r, g), r.state = "queued",
         NEW l \in Lease, l.op = o, l.attempt = r.attempt + 1, l.gen <= g,
         o \in Fenced => l.gen = r.gen
  PROVE  /\ Rewritten(o, r, Leased(r, "leased", r.attempt + 1, l), g, g)
         /\ Leased(r, "leased", r.attempt + 1, l).why # "receipt"
         /\ Leased(r, "leased", r.attempt + 1, l).lease = l
         /\ Leased(r, "leased", r.attempt + 1, l).attempt > r.attempt
<1> DEFINE q == Leased(r, "leased", r.attempt + 1, l)
<1>1. r.attempt \in Nat /\ r.why # "receipt" /\ l # NoLease
  BY RecordFields, NoLeaseApart DEF RecordOK, Terminal
<1>2. /\ q.state = "leased" /\ q.why = r.why /\ q.attempt = r.attempt + 1 /\ q.gen = r.gen
      /\ q.lease = l /\ q \in Record
  BY <1>1 DEF Leased, Record
<1> HIDE DEF q
<1>3. Issued(l, o, q, g)
  BY <1>1, <1>2 DEF Issued
<1>4. RecordOK(o, q, g)
  BY <1>1, <1>2, <1>3 DEF RecordOK, Terminal
<1>. QED
  BY <1>1, <1>2, <1>4 DEF Rewritten, q

Rewrites(R, S, g, h) ==
  /\ S \in [Ops -> Record] /\ h \in Nat
  /\ \A o \in Ops : /\ Rewritten(o, R[o], S[o], g, h)
                    /\ S[o].why = "receipt" => S[o] = R[o]

(* One record is replaced.                                                 *)
LEMMA OneRewritten ==
  ASSUME NEW R \in [Ops -> Record], NEW g \in Nat, RecordsOK(R, g), NEW o, NEW q,
         o \in Ops => Rewritten(o, R[o], q, g, g) /\ q.why # "receipt"
  PROVE  Rewrites(R, [R EXCEPT ![o] = q], g, g)
<1> DEFINE S == [R EXCEPT ![o] = q]
<1>1. /\ o \in Ops => q \in Record
      /\ \A p \in Ops : S[p] = IF p = o THEN q ELSE R[p]
  BY DEF Rewritten
<1>2. S \in [Ops -> Record]
  BY <1>1
<1> HIDE DEF S
<1>3. ASSUME NEW p \in Ops
      PROVE  Rewritten(p, R[p], S[p], g, g) /\ (S[p].why = "receipt" => S[p] = R[p])
  <2>1. CASE p = o
    BY <1>1, <2>1
  <2>2. CASE p # o
    <3>1. Rewritten(p, R[p], R[p], g, g)
      BY SameRecord DEF RecordsOK
    <3>. QED
      BY <1>1, <2>2, <3>1
  <2>. QED
    BY <2>1, <2>2
<1>. QED
  BY <1>2, <1>3 DEF Rewrites, S

LEMMA NoneRewritten ==
  ASSUME NEW R \in [Ops -> Record], NEW g \in Nat, RecordsOK(R, g), NEW h \in Nat, g <= h
  PROVE  Rewrites(R, R, g, h)
BY SameRecord DEF RecordsOK, Rewrites

QueueOK ==
  /\ now \in Nat /\ gen \in Nat /\ epoch \in Nat
  /\ queue \in Seq(Ops) /\ rec \in [Ops -> Record] /\ RecordsOK(rec, gen)

LEMMA RequeueRewrites ==
  ASSUME QueueOK, RequeueExpired
  PROVE  Rewrites(rec, rec', gen, gen)
<1>1. rec \in [Ops -> Record] /\ gen \in Nat /\ RecordsOK(rec, gen)
  BY DEF QueueOK
<1>2. ASSUME NEW o \in Ops
      PROVE  /\ Rewritten(o, rec[o], rec'[o], gen, gen)
             /\ rec'[o].why = "receipt" => rec'[o] = rec[o]
  <2>1. RecordOK(o, rec[o], gen) /\ rec[o] \in Record
    BY <1>1 DEF RecordsOK
  <2>2. CASE Requeued(o)
    <3>1. rec'[o] = Leased(rec[o], "queued", rec[o].attempt, NoLease) /\ rec[o].state = "leased"
      BY <2>2 DEF RequeueExpired, Requeued, LeaseRanOut
    <3>. QED
      BY <1>1, <2>1, <3>1, RequeuedRecord
  <2>3. CASE ~ Requeued(o)
    <3>1. rec'[o] = rec[o]
      BY <2>3 DEF RequeueExpired
    <3>. QED
      BY <1>1, <2>1, <3>1, SameRecord
  <2>. QED
    BY <2>2, <2>3
<1>3. rec' = [o \in Ops |-> rec'[o]]
  BY DEF RequeueExpired
<1>4. rec' \in [Ops -> Record]
  BY <1>2, <1>3 DEF Rewritten
<1>. QED
  BY <1>1, <1>2, <1>4 DEF Rewrites

LEMMA EnqueueRewrites ==
  ASSUME QueueOK, NEW o \in Ops, Enqueue(o)
  PROVE  Rewrites(rec, rec', gen, gen') /\ queue' \in Seq(Ops)
<1> DEFINE q == [state |-> "queued", attempt |-> 0, gen |-> gen, epoch |-> epoch,
                 deadline |-> now + Lifetime, lease |-> NoLease, why |-> "none"]
<1>1. /\ rec[o].state = "absent" /\ rec' = [rec EXCEPT ![o] = q] /\ gen' = gen
      /\ queue' = Append(queue, o)
  BY DEF Enqueue
<1>2. rec \in [Ops -> Record] /\ gen \in Nat /\ RecordsOK(rec, gen) /\ rec[o].attempt = 0
  BY <1>1 DEF QueueOK, RecordsOK, RecordOK
<1>3. /\ q \in Record /\ q.state = "queued" /\ q.attempt = 0 /\ q.gen = gen /\ q.lease = NoLease
      /\ q.why = "none"
  BY QueueAssumption DEF QueueOK, Record
<1> HIDE DEF q
<1>4. Rewritten(o, rec[o], q, gen, gen) /\ q.why # "receipt"
  BY <1>2, <1>3 DEF Rewritten, RecordOK
<1>5. Rewrites(rec, rec', gen, gen')
  BY <1>1, <1>2, <1>4, OneRewritten
<1>. QED
  BY <1>1, <1>5 DEF QueueOK

LEMMA CancelRewrites ==
  ASSUME QueueOK, NEW o \in Ops, Cancel(o)
  PROVE  Rewrites(rec, rec', gen, gen')
<1>1. /\ rec' = [rec EXCEPT ![o] = Ended(rec[o], "cancelled", "cancelled")] /\ gen' = gen
      /\ rec \in [Ops -> Record] /\ gen \in Nat /\ RecordsOK(rec, gen)
  BY DEF Cancel, QueueOK
<1>2. RecordOK(o, rec[o], gen) /\ rec[o] \in Record /\ "cancelled" \in Terminal
  BY <1>1 DEF RecordsOK, Terminal
<1>3. Ended(rec[o], "cancelled", "cancelled").why # "receipt"
  BY DEF Ended
<1>. QED
  BY <1>1, <1>2, <1>3, EndedRecord, OneRewritten

LEMMA FinalizeRewrites ==
  ASSUME QueueOK, FinalizeHead
  PROVE  Rewrites(rec, rec', gen, gen')
<1> DEFINE item == Head(polling.due)
           o == item.op
           q == Ended(rec[o], "unknown", item.why)
<1>1. /\ rec' = [rec EXCEPT ![o] = q] /\ gen' = gen /\ Final(item)
      /\ rec \in [Ops -> Record] /\ gen \in Nat /\ RecordsOK(rec, gen)
  BY DEF FinalizeHead, QueueOK
<1>2. item.why = "expired" \/ item.why = "exhausted"
  BY <1>1 DEF Final
<1> HIDE DEF item
<1>3. q.why # "receipt"
  BY <1>2 DEF Ended
<1>4. o \in Ops => Rewritten(o, rec[o], q, gen, gen)
  <2>1. "unknown" \in Terminal
    BY DEF Terminal
  <2>. QED
    BY <1>1, <1>2, <2>1, EndedRecord DEF RecordsOK
<1>. QED
  BY <1>1, <1>3, <1>4, OneRewritten

(* What the last locked section of poll leases.                            *)
LEMMA NextLeaseIs ==
  ASSUME QueueOK, NEW p, p.gen \in Nat, p.epoch \in Nat, p.gen <= gen
  PROVE  \/ NextLease(p) = NoLease
         \/ /\ NextLease(p) \in Lease /\ NextLease(p).op \in Ops
            /\ Leasable(NextLease(p).op, p)
            /\ NextLease(p).attempt = rec[NextLease(p).op].attempt + 1
            /\ NextLease(p).gen = p.gen
<1> DEFINE fit == {i \in 1 .. Len(queue) : Leasable(queue[i], p)}
<1>1. Len(queue) \in Nat
  BY DEF QueueOK
<1>2. CASE fit = {}
  <2>1. Chosen(p) = Len(queue) + 1
    BY <1>2 DEF Chosen
  <2>. QED
    BY <1>1, <2>1 DEF NextLease
<1>3. CASE fit # {}
  <2>1. Chosen(p) = CHOOSE i \in fit : \A k \in fit : i <= k
    BY <1>3, Zenon DEF Chosen
  <2>2. \E i \in fit : \A k \in fit : i <= k
    <3>1. fit \subseteq Nat
      BY <1>1
    <3>. QED
      BY <1>3, <3>1, MinExists
  <2>3. Chosen(p) \in fit
    BY <2>1, <2>2, Zenon
  <2>4. Chosen(p) \in 1 .. Len(queue) /\ Leasable(queue[Chosen(p)], p)
    BY <2>3
  <2> HIDE DEF fit
  <2> DEFINE o == queue[Chosen(p)]
             end == now + LeaseTime
             dl == IF end < rec[o].deadline THEN end ELSE rec[o].deadline
             l == [op |-> o, attempt |-> rec[o].attempt + 1, gen |-> p.gen, epoch |-> p.epoch,
                   deadline |-> dl]
  <2>5. NextLease(p) = l
    BY <1>1, <2>4 DEF NextLease
  <2>6. o \in Ops
    BY <1>1, <2>4 DEF QueueOK
  <2>7. rec[o].attempt \in Nat /\ rec[o].deadline \in Nat
    BY <2>6, RecordFields DEF QueueOK
  <2>8. dl \in Nat
    BY <2>7, QueueAssumption DEF QueueOK
  <2> HIDE DEF o, dl
  <2>9. l \in Lease /\ l.op = o /\ l.attempt = rec[o].attempt + 1 /\ l.gen = p.gen
    BY <2>6, <2>7, <2>8 DEF Lease
  <2>. QED
    BY <2>4, <2>5, <2>6, <2>9 DEF o
<1>. QED
  BY <1>2, <1>3

LEMMA LeaseNextRewrites ==
  ASSUME QueueOK, NEW p, p.gen \in Nat, p.epoch \in Nat, p.gen <= gen, LeaseNext(p)
  PROVE  /\ Rewrites(rec, rec', gen, gen')
         /\ \/ NextLease(p) = NoLease
            \/ /\ NextLease(p) \in Lease /\ NextLease(p) # NoLease
               /\ NextLease(p) = rec'[NextLease(p).op].lease
               /\ rec'[NextLease(p).op].attempt > rec[NextLease(p).op].attempt
<1> DEFINE next == NextLease(p)
           Stale(o) == rec[o].state = "queued" /\ Before(o, p) /\ FenceStale(o, p)
<1>1. rec \in [Ops -> Record] /\ gen \in Nat /\ RecordsOK(rec, gen) /\ gen' = gen
  BY DEF QueueOK, LeaseNext
<1>2. rec' = [o \in Ops |->
        CASE o = next.op -> Leased(rec[o], "leased", rec[o].attempt + 1, next)
          [] Stale(o) -> Ended(rec[o], "failed", "stale")
          [] OTHER -> rec[o]]
  BY DEF LeaseNext
<1>3. \/ next = NoLease
      \/ /\ next \in Lease /\ next.op \in Ops /\ Leasable(next.op, p)
         /\ next.attempt = rec[next.op].attempt + 1 /\ next.gen = p.gen
  BY NextLeaseIs
<1> HIDE DEF next, Stale
<1>4. next.op \in Ops => next # NoLease
  BY NoLeaseApart
<1>5. next.op \in Ops => ~ Stale(next.op)
  BY <1>3, <1>4 DEF Leasable, Stale
<1>6. ASSUME NEW o \in Ops
      PROVE  /\ o = next.op => rec'[o] = Leased(rec[o], "leased", rec[o].attempt + 1, next)
             /\ o # next.op /\ Stale(o) => rec'[o] = Ended(rec[o], "failed", "stale")
             /\ o # next.op /\ ~ Stale(o) => rec'[o] = rec[o]
  BY <1>2, <1>5
<1>7. ASSUME NEW o \in Ops
      PROVE  /\ Rewritten(o, rec[o], rec'[o], gen, gen)
             /\ rec'[o].why = "receipt" => rec'[o] = rec[o]
             /\ o = next.op => rec'[o].lease = next /\ rec'[o].attempt > rec[o].attempt
  <2>1. RecordOK(o, rec[o], gen) /\ rec[o] \in Record
    BY <1>1 DEF RecordsOK
  <2>2. CASE o = next.op
    <3>1. /\ next \in Lease /\ next.attempt = rec[o].attempt + 1 /\ next.gen <= gen
          /\ rec[o].state = "queued" /\ (o \in Fenced => next.gen = rec[o].gen)
      BY <1>3, <1>4, <2>2 DEF Leasable, FenceStale
    <3>. QED
      BY <1>1, <1>6, <2>1, <2>2, <3>1, LeasedRecord
  <2>3. CASE o # next.op /\ Stale(o)
    <3>1. "failed" \in Terminal /\ Ended(rec[o], "failed", "stale").why = "stale"
      BY DEF Terminal, Ended
    <3>. QED
      BY <1>1, <1>6, <2>1, <2>3, <3>1, EndedRecord
  <2>4. CASE o # next.op /\ ~ Stale(o)
    BY <1>1, <1>6, <2>1, <2>4, SameRecord
  <2>. QED
    BY <2>2, <2>3, <2>4
<1>8. rec' = [o \in Ops |-> rec'[o]]
  BY <1>2
<1>9. rec' \in [Ops -> Record]
  BY <1>7, <1>8 DEF Rewritten
<1>10. Rewrites(rec, rec', gen, gen')
  BY <1>1, <1>7, <1>9 DEF Rewrites
<1>. QED
  BY <1>3, <1>4, <1>7, <1>10 DEF next

-----------------------------------------------------------------------------
(* Every step keeps the invariant                                          *)
LEMMA IInvQueue ==
  ASSUME IInv
  PROVE  /\ QueueOK
         /\ Base(rec, gen, journal, pc, lease, effects)
         /\ SentOK(sent, lease, journal, rec, effects)
BY DEF IInv, TypeOK, QueueOK, World, Base, AllSaid

LEMMA InitIInv == Init => IInv
<1> SUFFICES ASSUME Init PROVE IInv
  OBVIOUS
<1>1. /\ NoLease \in Lease \cup {NoLease} /\ "idle" \in Labels /\ "idle" \notin Working
      /\ Absent \in Record /\ Absent.lease = NoLease /\ Absent.state = "absent"
      /\ Absent.attempt = 0 /\ Absent.gen = 0 /\ Absent.why = "none"
      /\ Nobody \in [gen : Nat, epoch : Nat] /\ NothingToReport \in Reports
      /\ Nobody.gen = 0
  BY DEF Labels, Working, Absent, Record, Nobody, NothingToReport, Reports
<1>2. /\ NotAccepted.lease = NoLease /\ NotAccepted.claim = "none" /\ NoReceipt.lease = NoLease
  BY DEF NotAccepted, NoReceipt
<1> DEFINE x == [o \in Ops |-> NotAccepted]
           y == [o \in Ops |-> NoReceipt]
<1>3. /\ journal \in Journals /\ journal.accepted = x /\ journal.receipts = y
  <2>1. x \in [Ops -> Accepted] /\ y \in [Ops -> Receipts]
    BY NothingTyped
  <2>2. journal = Journal(x, y, 0, 0)
    BY DEF Init, EmptyJournal
  <2> HIDE DEF x, y
  <2>. QED
    BY <2>1, <2>2, JournalMade
<1>4. \A o \in Ops : journal.accepted[o] = NotAccepted /\ journal.receipts[o] = NoReceipt
  BY <1>3
<1>5. TypeOK
  BY <1>1, <1>3 DEF Init, QueueInit, TypeOK
<1>6. \A o \in Ops : rec[o] = Absent /\ effects[o] = 0
  BY DEF Init, QueueInit
<1>7. \A e \in Executors : pc[e] = "idle" /\ lease[e] = NoLease /\ principal[e].gen = 0
  BY <1>1 DEF Init
<1>8. gen = 0 /\ sent = {}
  BY DEF Init, QueueInit
<1>9. RecordsOK(rec, gen) /\ JournalOK(journal, rec, gen) /\ EffectsOK(journal, rec, effects)
  BY <1>1, <1>2, <1>4, <1>6, <1>8
     DEF RecordsOK, RecordOK, JournalOK, SlotOK, EffectsOK, EffectOK
<1>10. LeasesOK(pc, lease, rec, gen) /\ LeasesApart(lease) /\ PrincipalsOK(principal, gen)
  BY <1>1, <1>7, <1>8 DEF LeasesOK, LeasesApart, PrincipalsOK
<1>11. ClaimsOK(pc, lease, receipt, journal, effects)
  BY <1>7 DEF ClaimsOK, ClaimOK
<1>12. AllSaid(Executors, rec, gen, journal, pc, lease, receipt, sent, effects)
  BY <1>1, <1>6, <1>7, <1>8 DEF AllSaid, SentOK, RecordsTold, ToldOK
<1>13. Base(rec, gen, journal, pc, lease, effects)
  BY <1>5, <1>9, <1>10 DEF Base, TypeOK
<1>. QED
  BY <1>5, <1>10, <1>11, <1>12, <1>13 DEF IInv, World

(* Reports that are left out of sent are missed by nobody.                 *)
LEMMA DeliverableKept ==
  ASSUME NEW s, SentOK(s, lease, journal, rec, effects), s \subseteq Reports,
         sent' = Deliverable(s)
  PROVE  sent' \in SUBSET Reports /\ SentOK(sent', lease, journal, rec, effects)
<1>1. sent' \subseteq s
  BY DEF Deliverable
<1>. QED
  BY <1>1 DEF SentOK

(* A step of the master, or of an executor that leaves the journal alone.  *)
LEMMA PlaceKeeps ==
  ASSUME IInv, NEW e,
         Rewrites(rec, rec', gen, gen'), journal' = journal, effects' = effects,
         sent' \in SUBSET Reports, SentOK(sent', lease, journal, rec, effects),
         lease' \in [Executors -> Lease \cup {NoLease}],
         \A f \in Executors \ {e} :
           pc'[f] = pc[f] /\ lease'[f] = lease[f] /\ receipt'[f] = receipt[f],
         e \in Executors => Placed(e, rec, rec', pc, pc', lease, lease', receipt, receipt')
  PROVE  World(rec', gen', journal', pc', lease', receipt', sent', effects')
<1>1. World(rec, gen, journal, pc, lease, receipt, sent, effects)
  BY DEF IInv
<1>2. /\ rec' \in [Ops -> Record] /\ gen' \in Nat
      /\ \A o \in Ops : Rewritten(o, rec[o], rec'[o], gen, gen')
      /\ \A o \in Ops : rec'[o].why = "receipt" => rec'[o] = rec[o]
  BY DEF Rewrites
<1>3. World(rec', gen', journal, pc', lease', receipt', sent', effects)
  BY <1>1, <1>2, MasterWorld
<1>. QED
  BY <1>3

LEMMA GenGrows ==
  ASSUME IInv, Rewrites(rec, rec', gen, gen')
  PROVE  gen <= gen' /\ gen \in Nat /\ gen' \in Nat
<1>1. \E o \in Ops : TRUE
  BY QueueAssumption
<1>. QED
  BY <1>1 DEF Rewrites, Rewritten

(* A completion is accepted: its report stands.                            *)
LEMMA CompleteKeeps ==
  ASSUME IInv, NEW r \in sent, Complete(r), AtTheMaster, UNCHANGED <<pc, principal, lease, receipt>>
  PROVE  IInv'
<1> DEFINE o == r.op
           q == Ended(rec[o], r.state, "receipt")
<1>1. /\ TypeOK /\ PrincipalsOK(principal, gen)
      /\ World(rec, gen, journal, pc, lease, receipt, sent, effects)
      /\ SentOK(sent, lease, journal, rec, effects) /\ QueueOK
  BY IInvQueue DEF IInv
<1>2. /\ rec[o].state = "leased" /\ r.attempt = rec[o].attempt /\ r.gen <= rec[o].lease.gen
      /\ rec' = [rec EXCEPT ![o] = q]
      /\ now' = now /\ gen' = gen /\ epoch' = epoch /\ queue' = queue
  BY DEF Complete, FencesHold, OfTheAttempt
<1>3. /\ sent' = Deliverable(sent) /\ agentEpoch' = agentEpoch /\ journal' = journal
      /\ effects' = effects /\ pc' = pc /\ principal' = principal /\ lease' = lease
      /\ receipt' = receipt
  BY DEF AtTheMaster
<1>4. SaidOK(r, journal, rec, effects) /\ StandsOK(r, r.gen, journal, rec, lease) /\ o \in Ops
  BY <1>1 DEF SentOK, SaidOK
<1>5. /\ rec \in [Ops -> Record] /\ rec[o] \in Record /\ gen \in Nat
      /\ RecordOK(o, rec[o], gen) /\ RecordsOK(rec, gen) /\ rec[o].lease # NoLease
  BY <1>1, <1>2, <1>4 DEF QueueOK, RecordsOK, RecordOK
<1>6. r.state \in Known /\ r.state \in Terminal
  BY <1>4 DEF SaidOK, Said, Known, Terminal
<1>7. Rewritten(o, rec[o], q, gen, gen)
  BY <1>4, <1>5, <1>6, EndedRecord
<1>8. /\ q.attempt = rec[o].attempt /\ q.lease = rec[o].lease /\ q.gen = rec[o].gen
      /\ q.state = r.state /\ q.why = "receipt" /\ q \in Record
  BY <1>7 DEF Ended, Rewritten
<1> HIDE DEF q
<1>9. ToldOK(o, q, lease, journal.accepted[o], journal.receipts[o], journal.hiGen, effects[o])
  BY <1>2, <1>4, <1>5, <1>8
     DEF SaidOK, StandsOK, Stands, ToldOK, Said, Over, Settled
<1>10. rec' \in [Ops -> Record] /\ rec'[o] = q /\ \A p \in Ops \ {o} : rec'[p] = rec[p]
  BY <1>2, <1>4, <1>5, <1>8
<1>11. \A p \in Ops : Rewritten(p, rec[p], rec'[p], gen, gen)
  <2>1. \A p \in Ops : Rewritten(p, rec[p], rec[p], gen, gen)
    BY <1>5, SameRecord DEF RecordsOK
  <2>. QED
    BY <1>7, <1>10, <2>1
<1>12. sent' \in SUBSET Reports /\ SentOK(sent', lease, journal, rec, effects)
  BY <1>1, <1>3, DeliverableKept DEF TypeOK
<1>13. \A p \in Ops : rec'[p].why = "receipt" =>
         \/ rec'[p] = rec[p]
         \/ ToldOK(p, rec'[p], lease, journal.accepted[p], journal.receipts[p], journal.hiGen,
                   effects[p])
  BY <1>9, <1>10
<1>14. lease \in [Executors -> Lease \cup {NoLease}]
  BY <1>1 DEF TypeOK
<1>15. World(rec', gen, journal, pc, lease, receipt, sent', effects)
  <2>1. ~ ("none" \in Executors)
    BY JournalAssumption
  <2>2. \A f \in Executors \ {"none"} :
          pc[f] = pc[f] /\ lease[f] = lease[f] /\ receipt[f] = receipt[f]
    OBVIOUS
  <2>. QED
    BY <1>1, <1>5, <1>10, <1>11, <1>12, <1>13, <1>14, <2>1, <2>2, MasterWorld
<1>16. TypeOK'
  BY <1>1, <1>2, <1>3, <1>10, <1>12 DEF TypeOK
<1>. QED
  BY <1>1, <1>2, <1>3, <1>15, <1>16 DEF IInv

LEMMA MasterKeeps ==
  ASSUME IInv, Master
  PROVE  IInv'
<1>1. /\ AtTheMaster /\ UNCHANGED <<pc, principal, lease, receipt>>
      /\ TypeOK /\ QueueOK /\ PrincipalsOK(principal, gen)
      /\ SentOK(sent, lease, journal, rec, effects)
  BY IInvQueue DEF Master, IInv
<1>2. /\ sent' = Deliverable(sent) /\ agentEpoch' = agentEpoch /\ journal' = journal
      /\ effects' = effects /\ pc' = pc /\ principal' = principal /\ lease' = lease
      /\ receipt' = receipt
  BY <1>1 DEF AtTheMaster
<1>3. sent' \in SUBSET Reports /\ SentOK(sent', lease, journal, rec, effects)
  BY <1>1, <1>2, DeliverableKept DEF TypeOK
<1>4. ASSUME Rewrites(rec, rec', gen, gen'), now' \in Nat, epoch' \in Nat, queue' \in Seq(Ops)
      PROVE  IInv'
  <2>1. World(rec', gen', journal', pc', lease', receipt', sent', effects')
    <3>1. lease' \in [Executors -> Lease \cup {NoLease}]
      BY <1>1, <1>2 DEF TypeOK
    <3>2. ~ ("none" \in Executors)
      BY JournalAssumption
    <3>3. \A f \in Executors \ {"none"} :
            pc'[f] = pc[f] /\ lease'[f] = lease[f] /\ receipt'[f] = receipt[f]
      BY <1>2
    <3>. QED
      BY <1>2, <1>3, <1>4, <3>1, <3>2, <3>3, PlaceKeeps
  <2>2. rec' \in [Ops -> Record] /\ gen' \in Nat /\ gen <= gen' /\ gen \in Nat
    BY <1>4, GenGrows DEF Rewrites
  <2>3. TypeOK'
    BY <1>1, <1>2, <1>3, <1>4, <2>2 DEF TypeOK
  <2>4. PrincipalsOK(principal', gen')
    <3>1. \A f \in Executors : principal[f].gen \in Nat
      BY <1>1 DEF TypeOK
    <3>. QED
      BY <1>1, <1>2, <2>2, <3>1 DEF PrincipalsOK
  <2>. QED
    BY <2>1, <2>3, <2>4 DEF IInv
<1>5. now \in Nat /\ gen \in Nat /\ epoch \in Nat /\ queue \in Seq(Ops)
        /\ rec \in [Ops -> Record] /\ RecordsOK(rec, gen)
  BY <1>1 DEF QueueOK
<1>6. ASSUME NEW o \in Ops, Enqueue(o) PROVE IInv'
  <2>1. Rewrites(rec, rec', gen, gen') /\ queue' \in Seq(Ops)
    BY <1>1, <1>6, EnqueueRewrites
  <2>2. now' = now /\ epoch' = epoch
    BY <1>6 DEF Enqueue
  <2>. QED
    BY <1>4, <1>5, <2>1, <2>2
<1>7. ASSUME NEW o \in Ops, Cancel(o) PROVE IInv'
  <2>1. Rewrites(rec, rec', gen, gen')
    BY <1>1, <1>7, CancelRewrites
  <2>2. now' = now /\ epoch' = epoch /\ queue' = queue
    BY <1>7 DEF Cancel
  <2>. QED
    BY <1>4, <1>5, <2>1, <2>2
<1>8. ASSUME NEW r \in sent, Complete(r) PROVE IInv'
  BY <1>1, <1>8, CompleteKeeps
<1>9. CASE PollOfAnotherHost
  <2>1. RequeueExpired /\ now' = now /\ epoch' = epoch /\ queue' = queue /\ gen' = gen
    BY <1>9 DEF PollOfAnotherHost
  <2>2. Rewrites(rec, rec', gen, gen')
    BY <1>1, <2>1, RequeueRewrites
  <2>. QED
    BY <1>4, <1>5, <2>1, <2>2
<1>10. CASE FinalizeHead
  <2>1. Rewrites(rec, rec', gen, gen')
    BY <1>1, <1>10, FinalizeRewrites
  <2>2. now' = now /\ epoch' = epoch /\ queue' = queue
    BY <1>10 DEF FinalizeHead
  <2>. QED
    BY <1>4, <1>5, <2>1, <2>2
<1>11. CASE Tick \/ NewGeneration \/ NewEpoch
  <2>1. /\ now' \in Nat /\ epoch' \in Nat /\ queue' = queue /\ gen' \in Nat /\ gen <= gen'
        /\ rec' = rec
    BY <1>5, <1>11 DEF Tick, NewGeneration, NewEpoch
  <2>2. Rewrites(rec, rec', gen, gen')
    BY <1>5, <2>1, NoneRewritten
  <2>. QED
    BY <1>4, <1>5, <2>1, <2>2
<1>. QED
  BY <1>6, <1>7, <1>8, <1>9, <1>10, <1>11 DEF Master

-----------------------------------------------------------------------------
(* Steps of an executor                                                    *)
LEMMA IdleIs ==
  ASSUME TypeOK, NEW e \in Executors, Idle(e)
  PROVE  /\ pc' \in [Executors -> Labels] /\ pc'[e] = "idle"
         /\ principal' \in [Executors -> [gen : Nat, epoch : Nat]] /\ principal'[e].gen = 0
         /\ lease' \in [Executors -> Lease \cup {NoLease}] /\ lease'[e] = NoLease
         /\ receipt' \in [Executors -> Reports]
         /\ \A f \in Executors \ {e} :
              /\ pc'[f] = pc[f] /\ principal'[f] = principal[f] /\ lease'[f] = lease[f]
              /\ receipt'[f] = receipt[f]
<1>1. /\ "idle" \in Labels /\ Nobody \in [gen : Nat, epoch : Nat] /\ Nobody.gen = 0
      /\ NothingToReport \in Reports
  BY DEF Labels, Nobody, NothingToReport, Reports
<1>. QED
  BY <1>1 DEF TypeOK, Idle, Goto

(* e is placed without a lease or with a new one; it leaves the journal    *)
(* and the effects alone.                                                  *)
LEMMA PlacedKeeps ==
  ASSUME IInv, NEW e \in Executors, Rewrites(rec, rec', gen, gen'),
         now' \in Nat, epoch' \in Nat, queue' \in Seq(Ops),
         agentEpoch' = agentEpoch, journal' = journal, effects' = effects,
         sent' \in SUBSET Reports, SentOK(sent', lease, journal, rec, effects),
         pc' \in [Executors -> Labels],
         principal' \in [Executors -> [gen : Nat, epoch : Nat]],
         lease' \in [Executors -> Lease \cup {NoLease}], receipt' \in [Executors -> Reports],
         \A f \in Executors \ {e} :
           /\ pc'[f] = pc[f] /\ principal'[f] = principal[f] /\ lease'[f] = lease[f]
           /\ receipt'[f] = receipt[f],
         principal'[e].gen <= gen,
         Placed(e, rec, rec', pc, pc', lease, lease', receipt, receipt')
  PROVE  IInv'
<1>1. World(rec', gen', journal', pc', lease', receipt', sent', effects')
  BY PlaceKeeps
<1>2. gen <= gen' /\ gen \in Nat /\ gen' \in Nat /\ rec' \in [Ops -> Record]
  BY GenGrows DEF Rewrites
<1>3. TypeOK'
  BY <1>2 DEF IInv, TypeOK
<1>4. PrincipalsOK(principal', gen')
  <2>1. \A f \in Executors : principal'[f].gen \in Nat /\ principal'[f].gen <= gen
    BY DEF IInv, PrincipalsOK
  <2>. QED
    BY <1>2, <2>1 DEF PrincipalsOK
<1>. QED
  BY <1>1, <1>3, <1>4 DEF IInv

LEMMA UnchangedQueue ==
  ASSUME IInv, UNCHANGED queueVars
  PROVE  Rewrites(rec, rec', gen, gen') /\ now' \in Nat /\ epoch' \in Nat /\ queue' \in Seq(Ops)
<1>1. /\ rec' = rec /\ gen' = gen /\ now' = now /\ epoch' = epoch /\ queue' = queue
  BY DEF queueVars
<1>2. QueueOK
  BY IInvQueue
<1>. QED
  BY <1>1, <1>2, NoneRewritten DEF QueueOK

LEMMA IdleKeeps ==
  ASSUME IInv, NEW e \in Executors, Idle(e), UNCHANGED queueVars,
         agentEpoch' = agentEpoch, journal' = journal, effects' = effects,
         sent' \in SUBSET Reports, SentOK(sent', lease, journal, rec, effects)
  PROVE  IInv'
<1>1. Rewrites(rec, rec', gen, gen') /\ now' \in Nat /\ epoch' \in Nat /\ queue' \in Seq(Ops)
  BY UnchangedQueue
<1>2. /\ pc' \in [Executors -> Labels] /\ pc'[e] = "idle"
      /\ principal' \in [Executors -> [gen : Nat, epoch : Nat]] /\ principal'[e].gen = 0
      /\ lease' \in [Executors -> Lease \cup {NoLease}] /\ lease'[e] = NoLease
      /\ receipt' \in [Executors -> Reports]
      /\ \A f \in Executors \ {e} :
           /\ pc'[f] = pc[f] /\ principal'[f] = principal[f] /\ lease'[f] = lease[f]
           /\ receipt'[f] = receipt[f]
  BY IdleIs DEF IInv
<1>3. principal'[e].gen <= gen
  BY <1>2 DEF IInv, TypeOK
<1>4. Placed(e, rec, rec', pc, pc', lease, lease', receipt, receipt')
  BY <1>2 DEF Placed
<1>. QED
  BY <1>1, <1>2, <1>3, <1>4, PlacedKeeps

LEMMA ConnectKeeps ==
  ASSUME IInv, NEW e \in Executors, Connect(e)
  PROVE  IInv'
<1>1. /\ TypeOK /\ UNCHANGED queueVars /\ agentEpoch' = agentEpoch /\ sent' = sent
      /\ effects' = effects /\ lease' = lease /\ receipt' = receipt /\ journal' = journal
      /\ pc[e] = "idle" /\ pc' = [pc EXCEPT ![e] = "connected"]
      /\ principal' = [principal EXCEPT ![e] = [gen |-> gen, epoch |-> epoch]]
  BY DEF IInv, Connect, OfThisAgent, Goto
<1>2. Rewrites(rec, rec', gen, gen') /\ now' \in Nat /\ epoch' \in Nat /\ queue' \in Seq(Ops)
  BY <1>1, UnchangedQueue
<1>3. /\ pc' \in [Executors -> Labels] /\ pc'[e] = "connected"
      /\ principal' \in [Executors -> [gen : Nat, epoch : Nat]] /\ principal'[e].gen = gen
      /\ \A f \in Executors \ {e} : pc'[f] = pc[f] /\ principal'[f] = principal[f]
  BY <1>1 DEF TypeOK, Labels
<1>4. lease[e] = NoLease
  BY <1>1, IInvQueue DEF Base, LeasesOK, Working
<1>5. Placed(e, rec, rec', pc, pc', lease, lease', receipt, receipt')
  BY <1>1, <1>3, <1>4 DEF Placed
<1>6. sent' \in SUBSET Reports /\ SentOK(sent', lease, journal, rec, effects)
  BY <1>1, IInvQueue DEF TypeOK
<1>7. lease' \in [Executors -> Lease \cup {NoLease}] /\ receipt' \in [Executors -> Reports]
        /\ principal'[e].gen <= gen
  BY <1>1, <1>3 DEF TypeOK
<1>. QED
  BY <1>1, <1>2, <1>3, <1>5, <1>6, <1>7, PlacedKeeps

LEMMA PollKeeps ==
  ASSUME IInv, NEW e \in Executors, Poll(e)
  PROVE  IInv'
<1>1. /\ TypeOK /\ QueueOK /\ agentEpoch' = agentEpoch /\ sent' = Deliverable(sent)
      /\ effects' = effects /\ lease' = lease /\ receipt' = receipt /\ journal' = journal
      /\ principal' = principal
      /\ pc[e] = "connected" /\ pc' = [pc EXCEPT ![e] = "polling"]
      /\ RequeueExpired /\ now' = now /\ gen' = gen /\ epoch' = epoch /\ queue' = queue
  BY IInvQueue DEF IInv, Poll, AtTheMaster, Goto, BeginPoll
<1>2. Rewrites(rec, rec', gen, gen')
  BY <1>1, RequeueRewrites
<1>3. /\ pc' \in [Executors -> Labels] /\ pc'[e] = "polling"
      /\ \A f \in Executors \ {e} : pc'[f] = pc[f]
  BY <1>1 DEF TypeOK, Labels
<1>4. lease[e] = NoLease
  BY <1>1, IInvQueue DEF Base, LeasesOK, Working
<1>5. Placed(e, rec, rec', pc, pc', lease, lease', receipt, receipt')
  BY <1>1, <1>3, <1>4 DEF Placed
<1>6. sent' \in SUBSET Reports /\ SentOK(sent', lease, journal, rec, effects)
  BY <1>1, IInvQueue, DeliverableKept DEF TypeOK
<1>7. /\ lease' \in [Executors -> Lease \cup {NoLease}] /\ receipt' \in [Executors -> Reports]
      /\ principal' \in [Executors -> [gen : Nat, epoch : Nat]] /\ principal'[e].gen <= gen
      /\ now' \in Nat /\ epoch' \in Nat /\ queue' \in Seq(Ops)
  BY <1>1 DEF IInv, TypeOK, PrincipalsOK
<1>. QED
  BY <1>1, <1>2, <1>3, <1>5, <1>6, <1>7, PlacedKeeps

LEMMA PollAnsweredKeeps ==
  ASSUME IInv, NEW e \in Executors, pc[e] = "polling", LeaseNext(principal[e]), AtTheMaster,
         \/ Idle(e)
         \/ /\ NextLease(principal[e]) # NoLease
            /\ lease' = [lease EXCEPT ![e] = NextLease(principal[e])]
            /\ principal' = [principal EXCEPT ![e] = Nobody]
            /\ pc' = [pc EXCEPT ![e] = "leased"] /\ receipt' = receipt
  PROVE  IInv'
<1> DEFINE p == principal[e]
           next == NextLease(p)
<1>1. /\ TypeOK /\ QueueOK /\ agentEpoch' = agentEpoch /\ sent' = Deliverable(sent)
      /\ effects' = effects /\ journal' = journal
      /\ now' = now /\ gen' = gen /\ epoch' = epoch /\ queue' = queue
  BY IInvQueue DEF IInv, AtTheMaster, LeaseNext
<1>2. p.gen \in Nat /\ p.epoch \in Nat /\ p.gen <= gen
  BY <1>1 DEF IInv, TypeOK, PrincipalsOK
<1>3. /\ Rewrites(rec, rec', gen, gen')
      /\ \/ next = NoLease
         \/ /\ next \in Lease /\ next # NoLease /\ next = rec'[next.op].lease
            /\ rec'[next.op].attempt > rec[next.op].attempt
  BY <1>1, <1>2, LeaseNextRewrites
<1> HIDE DEF next
<1>4. sent' \in SUBSET Reports /\ SentOK(sent', lease, journal, rec, effects)
  BY <1>1, IInvQueue, DeliverableKept DEF TypeOK
<1>5. now' \in Nat /\ epoch' \in Nat /\ queue' \in Seq(Ops) /\ gen \in Nat
  BY <1>1 DEF TypeOK
<1>6. CASE Idle(e)
  <2>1. /\ pc' \in [Executors -> Labels] /\ pc'[e] = "idle"
        /\ principal' \in [Executors -> [gen : Nat, epoch : Nat]] /\ principal'[e].gen = 0
        /\ lease' \in [Executors -> Lease \cup {NoLease}] /\ lease'[e] = NoLease
        /\ receipt' \in [Executors -> Reports]
        /\ \A f \in Executors \ {e} :
             /\ pc'[f] = pc[f] /\ principal'[f] = principal[f] /\ lease'[f] = lease[f]
             /\ receipt'[f] = receipt[f]
    BY <1>1, <1>6, IdleIs
  <2>2. principal'[e].gen <= gen
    BY <1>5, <2>1
  <2>3. Placed(e, rec, rec', pc, pc', lease, lease', receipt, receipt')
    BY <2>1 DEF Placed
  <2>. QED
    BY <1>1, <1>3, <1>4, <1>5, <2>1, <2>2, <2>3, PlacedKeeps
<1>7. CASE /\ next # NoLease
           /\ lease' = [lease EXCEPT ![e] = next]
           /\ principal' = [principal EXCEPT ![e] = Nobody]
           /\ pc' = [pc EXCEPT ![e] = "leased"] /\ receipt' = receipt
  <2>1. Nobody \in [gen : Nat, epoch : Nat] /\ Nobody.gen = 0 /\ "leased" \in Labels
    BY DEF Nobody, Labels
  <2>2. /\ pc' \in [Executors -> Labels] /\ pc'[e] = "leased"
        /\ principal' \in [Executors -> [gen : Nat, epoch : Nat]] /\ principal'[e].gen = 0
        /\ lease' \in [Executors -> Lease \cup {NoLease}] /\ lease'[e] = next
        /\ receipt' \in [Executors -> Reports]
        /\ \A f \in Executors \ {e} :
             /\ pc'[f] = pc[f] /\ principal'[f] = principal[f] /\ lease'[f] = lease[f]
             /\ receipt'[f] = receipt[f]
    BY <1>1, <1>3, <1>7, <2>1 DEF TypeOK
  <2>3. principal'[e].gen <= gen
    BY <1>5, <2>2
  <2>4. Placed(e, rec, rec', pc, pc', lease, lease', receipt, receipt')
    BY <1>3, <1>7, <2>2 DEF Placed
  <2>. QED
    BY <1>1, <1>3, <1>4, <1>5, <2>2, <2>3, <2>4, PlacedKeeps
<1>. QED
  BY <1>6, <1>7 DEF next

LEMMA ReportKeeps ==
  ASSUME IInv, NEW e \in Executors, Report(e)
  PROVE  IInv'
<1> DEFINE t == Reported(receipt[e], gen, receipt[e].state)
<1>1. /\ TypeOK /\ Idle(e) /\ UNCHANGED queueVars /\ agentEpoch' = agentEpoch
      /\ journal' = journal /\ effects' = effects /\ pc[e] = "report"
      /\ sent' = Deliverable(sent \cup {t})
  BY DEF IInv, Report
<1>2. /\ SaidOK(receipt[e], journal, rec, effects)
      /\ StandsOK(receipt[e], gen, journal, rec, lease)
      /\ SentOK(sent, lease, journal, rec, effects)
  BY <1>1 DEF IInv, World, AllSaid
<1>3. /\ t.op = receipt[e].op /\ t.attempt = receipt[e].attempt /\ t.state = receipt[e].state
      /\ t.gen = gen /\ t \in Reports
  BY <1>1 DEF Reported, TypeOK, Reports
<1> HIDE DEF t
<1>4. SaidOK(t, journal, rec, effects) /\ StandsOK(t, t.gen, journal, rec, lease)
  BY <1>2, <1>3 DEF SaidOK, StandsOK
<1>5. SentOK(sent \cup {t}, lease, journal, rec, effects) /\ sent \cup {t} \subseteq Reports
  BY <1>1, <1>2, <1>3, <1>4 DEF SentOK, TypeOK
<1>6. sent' \in SUBSET Reports /\ SentOK(sent', lease, journal, rec, effects)
  BY <1>1, <1>5, DeliverableKept
<1>. QED
  BY <1>1, <1>6, IdleKeeps

(* The journal may change; the queue, sent and effects do not.             *)
LEMMA AgentKeeps ==
  ASSUME IInv, OfThisAgent,
         World(rec, gen, journal', pc', lease', receipt', sent, effects),
         pc' \in [Executors -> Labels],
         principal' \in [Executors -> [gen : Nat, epoch : Nat]], PrincipalsOK(principal', gen),
         receipt' \in [Executors -> Reports]
  PROVE  IInv'
<1>1. /\ rec' = rec /\ gen' = gen /\ now' = now /\ epoch' = epoch /\ queue' = queue
      /\ agentEpoch' = agentEpoch /\ sent' = sent /\ effects' = effects
  BY DEF OfThisAgent, queueVars
<1>2. journal' \in Journals /\ lease' \in [Executors -> Lease \cup {NoLease}]
  BY DEF World, Base
<1>3. TypeOK'
  BY <1>1, <1>2 DEF IInv, TypeOK
<1>. QED
  BY <1>1, <1>3 DEF IInv

LEMMA DownIs ==
  ASSUME TypeOK, PrincipalsOK(principal, gen), NEW who \in SUBSET Executors, NEW j,
         NEW label \in Labels, Down(who, j, label)
  PROVE  /\ pc' \in [Executors -> Labels]
         /\ principal' \in [Executors -> [gen : Nat, epoch : Nat]]
         /\ PrincipalsOK(principal', gen)
         /\ lease' \in [Executors -> Lease \cup {NoLease}]
         /\ receipt' \in [Executors -> Reports]
         /\ \A f \in who : pc'[f] = label /\ lease'[f] = NoLease
         /\ \A f \in Executors \ who :
              pc'[f] = pc[f] /\ lease'[f] = lease[f] /\ receipt'[f] = receipt[f]
         /\ journal' = Abandoned(j, who)
<1>1. /\ Nobody \in [gen : Nat, epoch : Nat] /\ Nobody.gen = 0
      /\ NothingToReport \in Reports /\ 0 <= gen
  BY DEF Nobody, NothingToReport, Reports, TypeOK
<1>2. /\ pc' = [e \in Executors |-> IF e \in who THEN label ELSE pc[e]]
      /\ principal' = [e \in Executors |-> IF e \in who THEN Nobody ELSE principal[e]]
      /\ lease' = [e \in Executors |-> IF e \in who THEN NoLease ELSE lease[e]]
      /\ receipt' = [e \in Executors |-> IF e \in who THEN NothingToReport ELSE receipt[e]]
      /\ journal' = Abandoned(j, who)
  BY DEF Down
<1>. QED
  BY <1>1, <1>2 DEF TypeOK, PrincipalsOK

LEMMA DiesKeeps ==
  ASSUME IInv, OfThisAgent, NEW e \in Executors, NEW j, Dies(e, j),
         Others(e, rec, gen, j, pc, lease, receipt, sent, effects)
  PROVE  IInv'
<1>1. PICK label \in {"idle", "stopped"} : Down({e}, j, label)
  BY DEF Dies
<1>2. label \in Labels /\ label \notin Working /\ label # "report"
  BY DEF Labels, Working
<1>3. /\ pc' \in [Executors -> Labels]
      /\ principal' \in [Executors -> [gen : Nat, epoch : Nat]]
      /\ PrincipalsOK(principal', gen)
      /\ lease' \in [Executors -> Lease \cup {NoLease}]
      /\ receipt' \in [Executors -> Reports]
      /\ pc'[e] = label /\ lease'[e] = NoLease
      /\ \A f \in Executors \ {e} :
           pc'[f] = pc[f] /\ lease'[f] = lease[f] /\ receipt'[f] = receipt[f]
      /\ journal' = Abandoned(j, {e})
  <2>1. {e} \in SUBSET Executors /\ TypeOK /\ PrincipalsOK(principal, gen)
    BY DEF IInv
  <2>. QED
    BY <1>1, <1>2, <2>1, DownIs
<1>4. j \in Journals
  BY DEF Others, Base
<1>5. Others(e, rec, gen, journal', pc, lease, receipt, sent, effects)
  BY <1>3, <1>4, AbandonedOrphans, OrphanOthers
<1>6. ClaimOK(e, pc'[e], lease'[e], receipt'[e], journal', effects)
  BY <1>3 DEF ClaimOK
<1>7. (pc'[e] \in Working) <=> (lease'[e] # NoLease)
  BY <1>2, <1>3
<1>8. /\ pc'[e] # "report" /\ (lease'[e] = lease[e] \/ lease'[e] = NoLease)
      /\ lease' \in [Executors -> Lease \cup {NoLease}]
      /\ \A f \in Executors \ {e} :
           pc'[f] = pc[f] /\ lease'[f] = lease[f] /\ receipt'[f] = receipt[f]
  BY <1>2, <1>3
<1>9. World(rec, gen, journal', pc', lease', receipt', sent, effects)
  BY <1>5, <1>6, <1>7, <1>8, MoveWorld
<1>. QED
  BY <1>3, <1>9, AgentKeeps

(* What e does with the answer r of the journal to its lease.              *)
LEMMA AnsweredKeeps ==
  ASSUME IInv, OfThisAgent, NEW e \in Executors, lease[e] # NoLease, NEW r, NEW label \in Labels,
         Answered(e, r, label), Turns(journal, r.j, lease[e], e, effects),
         r.answer = "replay" => r.j.receipts[lease[e].op].lease = lease[e],
         r.answer \in {"accepted", "claimed"} =>
           label \in Working /\ ClaimOK(e, label, lease[e], receipt[e], r.j, effects)
  PROVE  IInv'
<1>1. /\ TypeOK /\ PrincipalsOK(principal, gen)
      /\ World(rec, gen, journal, pc, lease, receipt, sent, effects)
  BY DEF IInv
<1>2. Others(e, rec, gen, r.j, pc, lease, receipt, sent, effects)
  BY <1>1, WorldOthers, TurnOthers
<1>3. CASE r.answer = "refused" /\ Dies(e, r.j)
  BY <1>2, <1>3, DiesKeeps
<1>4. CASE /\ r.answer = "replay"
           /\ journal' = r.j
           /\ receipt' = [receipt EXCEPT ![e] = SavedReceipt(r.j, lease[e])]
           /\ lease' = [lease EXCEPT ![e] = NoLease] /\ Goto(e, "report")
           /\ UNCHANGED principal
  <2> DEFINE t == SavedReceipt(r.j, lease[e])
  <2>1. Base(rec, gen, r.j, pc, lease, effects)
    BY <1>2 DEF Others
  <2>2. /\ t \in Reports /\ SaidOK(t, r.j, rec, effects) /\ StandsOK(t, gen, r.j, rec, lease)
    BY <1>4, <2>1, SavedReceiptSaid
  <2> HIDE DEF t
  <2>3. "report" \in Labels /\ "report" \notin Working
    BY DEF Labels, Working
  <2>4. /\ receipt' \in [Executors -> Reports] /\ receipt'[e] = t
        /\ lease' \in [Executors -> Lease \cup {NoLease}] /\ lease'[e] = NoLease
        /\ pc' \in [Executors -> Labels] /\ pc'[e] = "report"
        /\ \A f \in Executors \ {e} :
             pc'[f] = pc[f] /\ lease'[f] = lease[f] /\ receipt'[f] = receipt[f]
        /\ principal' = principal /\ journal' = r.j
    BY <1>1, <1>4, <2>2, <2>3 DEF TypeOK, Goto, t
  <2>5. ClaimOK(e, pc'[e], lease'[e], receipt'[e], journal', effects)
    BY <2>4 DEF ClaimOK
  <2>6. World(rec, gen, journal', pc', lease', receipt', sent, effects)
    BY <1>2, <2>2, <2>3, <2>4, <2>5, MoveWorld
  <2>. QED
    BY <1>1, <2>4, <2>6, AgentKeeps DEF TypeOK
<1>5. CASE /\ r.answer \in {"accepted", "claimed"}
           /\ journal' = r.j /\ Goto(e, label) /\ UNCHANGED <<principal, lease, receipt>>
  <2>1. "report" \notin Working
    BY DEF Working
  <2>2. /\ receipt' = receipt /\ lease' = lease /\ principal' = principal /\ journal' = r.j
        /\ receipt \in [Executors -> Reports]
        /\ lease \in [Executors -> Lease \cup {NoLease}]
        /\ pc' \in [Executors -> Labels] /\ pc'[e] = label
        /\ \A f \in Executors \ {e} : pc'[f] = pc[f]
    BY <1>1, <1>5 DEF TypeOK, Goto
  <2>3. label \in Working /\ ClaimOK(e, label, lease[e], receipt[e], r.j, effects)
    BY <1>5
  <2>4. World(rec, gen, journal', pc', lease', receipt', sent, effects)
    BY <1>2, <2>1, <2>2, <2>3, MoveWorld
  <2>. QED
    BY <1>1, <2>2, <2>4, AgentKeeps DEF TypeOK
<1>. QED
  BY <1>3, <1>4, <1>5 DEF Answered

LEMMA WorkingLease ==
  ASSUME IInv, NEW e \in Executors, pc[e] \in Working
  PROVE  /\ lease[e] # NoLease /\ lease[e] \in Lease /\ journal \in Journals /\ now \in Nat
         /\ JournalOK(journal, rec, gen)
<1>1. Base(rec, gen, journal, pc, lease, effects) /\ QueueOK
  BY IInvQueue
<1>2. lease[e] # NoLease
  BY <1>1 DEF Base, LeasesOK
<1>. QED
  BY <1>1, <1>2 DEF Base, QueueOK

LEMMA AcceptLeaseKeeps ==
  ASSUME IInv, NEW e \in Executors, AcceptLease(e)
  PROVE  IInv'
<1> DEFINE r == Accept(journal, lease[e], now)
<1>1. pc[e] = "leased" /\ Answered(e, r, "recovering") /\ OfThisAgent
  BY DEF AcceptLease
<1>2. "recovering" \in Labels /\ "recovering" \in Working /\ "leased" \in Working
  BY DEF Labels, Working
<1>3. /\ lease[e] # NoLease /\ lease[e] \in Lease /\ journal \in Journals /\ now \in Nat
      /\ JournalOK(journal, rec, gen)
  BY <1>1, <1>2, WorkingLease
<1>4. Turns(journal, r.j, lease[e], e, effects) /\ AcceptedAs(journal, lease[e], r)
  BY <1>3, AcceptTurns
<1> HIDE DEF r
<1>5. r.answer = "replay" => r.j.receipts[lease[e].op].lease = lease[e]
  BY <1>4 DEF AcceptedAs
<1>6. ClaimOK(e, "recovering", lease[e], receipt[e], r.j, effects)
  BY DEF ClaimOK
<1>. QED
  BY <1>1, <1>2, <1>3, <1>4, <1>5, <1>6, AnsweredKeeps

LEMMA RecoverLeaseKeeps ==
  ASSUME IInv, NEW e \in Executors, RecoverLease(e)
  PROVE  IInv'
<1> DEFINE r == Recover(journal, lease[e], now)
           label == IF lease[e].op \in Mutating THEN "ready" ELSE "effect"
<1>1. pc[e] = "recovering" /\ Answered(e, r, label) /\ OfThisAgent
  BY DEF RecoverLease
<1>2. label \in Labels /\ label \in Working /\ "recovering" \in Working
  BY DEF Labels, Working
<1>3. lease[e] # NoLease /\ lease[e] \in Lease /\ journal \in Journals
  BY <1>1, <1>2, WorkingLease
<1>4. /\ Turns(journal, r.j, lease[e], e, effects)
      /\ \/ r.answer \in {"refused", "wait"}
         \/ r.answer = "replay" /\ r.j.receipts[lease[e].op].lease = lease[e]
         \/ r.answer = "accepted"
  BY <1>3, RecoverTurns
<1> HIDE DEF r
<1>5. ClaimOK(e, label, lease[e], receipt[e], r.j, effects)
  BY DEF ClaimOK
<1> HIDE DEF label
<1>6. r.answer = "replay" => r.j.receipts[lease[e].op].lease = lease[e]
  BY <1>4
<1>. QED
  BY <1>1, <1>2, <1>3, <1>4, <1>5, <1>6, AnsweredKeeps

(* A claim that is granted is granted before any effect.                   *)
LEMMA ClaimKeeps ==
  ASSUME IInv, NEW e \in Executors, Claim(e)
  PROVE  IInv'
<1> DEFINE l == lease[e]
           o == l.op
           r == BeginEffect(journal, l, e)
<1>1. pc[e] = "ready" /\ Answered(e, r, "effect") /\ OfThisAgent
  BY DEF Claim
<1>2. "effect" \in Labels /\ "effect" \in Working /\ "ready" \in Working
  BY DEF Labels, Working
<1>3. l # NoLease /\ l \in Lease /\ journal \in Journals /\ JournalOK(journal, rec, gen)
  BY <1>1, <1>2, WorkingLease
<1>4. /\ Turns(journal, r.j, l, e, effects)
      /\ \/ r.answer \in {"refused", "lost"}
         \/ /\ r.answer = "claimed"
            /\ Claims(journal.accepted[o], journal.receipts[o], r.j.accepted[o], r.j.receipts[o],
                      journal.hiGen, l, e)
  BY <1>3, BeginEffectTurns
<1> HIDE DEF r
<1>5. ASSUME r.answer \in {"accepted", "claimed"}
      PROVE  ClaimOK(e, "effect", l, receipt[e], r.j, effects)
  <2>1. Claims(journal.accepted[o], journal.receipts[o], r.j.accepted[o], r.j.receipts[o],
               journal.hiGen, l, e)
    BY <1>4, <1>5
  <2>2. ASSUME o \in Mutating PROVE effects[o] = 0
    <3>1. Base(rec, gen, journal, pc, lease, effects)
      BY IInvQueue
    <3>2. o \in Ops /\ o \in Fenced
      BY <2>2, QueueAssumption
    <3>3. /\ EffectOK(o, journal.accepted[o], journal.receipts[o], journal.hiGen, rec[o],
                      effects[o])
          /\ effects[o] \in Nat /\ rec[o].gen \in Nat /\ journal.hiGen \in Nat
      BY <3>1, <3>2, RecordFields, JournalFields DEF Base, EffectsOK
    <3>4. l.gen = rec[o].gen
      BY <1>3, <3>1, <3>2 DEF Base, LeasesOK, Issued
    <3>. QED
      BY <2>1, <2>2, <3>3, <3>4 DEF Claims, EffectOK
  <2>. QED
    BY <2>1, <2>2 DEF ClaimOK, Claims
<1>6. r.answer = "replay" => r.j.receipts[l.op].lease = l
  BY <1>4
<1>. QED
  BY <1>1, <1>2, <1>3, <1>4, <1>5, <1>6, AnsweredKeeps

LEMMA FinishLeaseKeeps ==
  ASSUME IInv, NEW e \in Executors, FinishLease(e)
  PROVE  IInv'
<1> DEFINE l == lease[e]
           claim == IF l.op \in Mutating THEN e ELSE "none"
           st == receipt[e].state
           r == Finish(journal, l, claim, st)
<1>1. pc[e] = "finishing" /\ Answered(e, r, "report") /\ OfThisAgent
  BY DEF FinishLease
<1>2. "report" \in Labels /\ "finishing" \in Working
  BY DEF Labels, Working
<1>3. l # NoLease /\ l \in Lease /\ journal \in Journals
  BY <1>1, <1>2, WorkingLease
<1>4. Truthful(l, st, effects)
  BY <1>1 DEF IInv, World, ClaimsOK, ClaimOK, Truthful
<1> HIDE DEF claim, st, l
<1>5. /\ Turns(journal, r.j, l, e, effects)
      /\ \/ r.answer = "refused"
         \/ r.answer = "replay" /\ r.j.receipts[l.op].lease = l
  BY <1>3, <1>4, FinishTurns
<1> HIDE DEF r
<1>. QED
  BY <1>1, <1>2, <1>3, <1>5, AnsweredKeeps DEF l

LEMMA DispatchKeeps ==
  ASSUME IInv, NEW e \in Executors, Dispatch(e)
  PROVE  IInv'
<1>1. PICK outcome \in Outcomes(lease[e].op) :
        /\ receipt' = [receipt EXCEPT ![e] = Reported(receipt[e], 0, outcome[1])]
        /\ effects' = [effects EXCEPT ![lease[e].op] = @ + outcome[2]]
  BY DEF Dispatch
<1>2. /\ pc[e] = "effect" /\ pc' = [pc EXCEPT ![e] = "finishing"]
      /\ rec' = rec /\ gen' = gen /\ now' = now /\ epoch' = epoch /\ queue' = queue
      /\ agentEpoch' = agentEpoch /\ journal' = journal /\ principal' = principal
      /\ lease' = lease /\ sent' = sent
  BY DEF Dispatch, queueVars, Goto
<1>3. /\ TypeOK /\ PrincipalsOK(principal, gen)
      /\ World(rec, gen, journal, pc, lease, receipt, sent, effects)
  BY DEF IInv
<1>4. /\ outcome[1] \in Known /\ outcome[2] \in {0, 1} /\ outcome = <<outcome[1], outcome[2]>>
  BY DEF Outcomes, Known
<1> DEFINE t == Reported(receipt[e], 0, outcome[1])
<1>5. t \in Reports /\ t.state = outcome[1]
  BY <1>3, <1>4 DEF Reported, TypeOK, Reports
<1> HIDE DEF t
<1>6. /\ receipt' \in [Executors -> Reports] /\ receipt'[e].state = outcome[1]
      /\ pc' \in [Executors -> Labels] /\ pc'[e] = "finishing"
      /\ \A f \in Executors \ {e} : pc'[f] = pc[f] /\ receipt'[f] = receipt[f]
  BY <1>1, <1>2, <1>3, <1>5 DEF TypeOK, Labels, t
<1>7. <<outcome[1], outcome[2]>> \in Outcomes(lease[e].op)
  BY <1>1, <1>4
<1>8. World(rec, gen, journal, pc', lease, receipt', sent, effects')
  <2> DEFINE st == outcome[1]
             d == outcome[2]
  <2>1. Adds(effects, effects', lease[e].op, st, d)
    BY <1>1, <1>7 DEF Adds
  <2>2. World(rec, gen, journal, pc, lease, receipt, sent, effects)
    BY <1>3
  <2>3. Dispatched(e, pc, receipt, pc', receipt', st)
    BY <1>2, <1>6 DEF Dispatched
  <2> HIDE DEF st, d
  <2>. QED
    BY <2>1, <2>2, <2>3, EffectWorld
<1>9. effects' \in [Ops -> Nat]
  BY <1>8 DEF World, Base
<1>10. TypeOK'
  BY <1>2, <1>3, <1>6, <1>9 DEF TypeOK
<1>. QED
  BY <1>2, <1>3, <1>8, <1>10 DEF IInv

LEMMA CrashKeeps ==
  ASSUME IInv, NEW e \in Executors, Crash(e)
  PROVE  IInv'
<1>1. Dies(e, journal) /\ OfThisAgent
  BY DEF Crash
<1>2. Others(e, rec, gen, journal, pc, lease, receipt, sent, effects)
  BY WorldOthers DEF IInv
<1>. QED
  BY <1>1, <1>2, DiesKeeps

LEMMA StartKeeps ==
  ASSUME IInv, NEW e \in Executors, Start(e)
  PROVE  IInv'
<1>1. /\ TypeOK /\ UNCHANGED queueVars /\ agentEpoch' = agentEpoch /\ sent' = sent
      /\ effects' = effects /\ lease' = lease /\ receipt' = receipt /\ journal' = journal
      /\ pc[e] = "stopped" /\ pc' = [pc EXCEPT ![e] = "idle"] /\ principal' = principal
  BY DEF IInv, Start, OfThisAgent, Goto
<1>2. Rewrites(rec, rec', gen, gen') /\ now' \in Nat /\ epoch' \in Nat /\ queue' \in Seq(Ops)
  BY <1>1, UnchangedQueue
<1>3. /\ pc' \in [Executors -> Labels] /\ pc'[e] = "idle"
      /\ \A f \in Executors \ {e} : pc'[f] = pc[f] /\ principal'[f] = principal[f]
  BY <1>1 DEF TypeOK, Labels
<1>4. lease[e] = NoLease
  BY <1>1, IInvQueue DEF Base, LeasesOK, Working
<1>5. Placed(e, rec, rec', pc, pc', lease, lease', receipt, receipt')
  BY <1>1, <1>3, <1>4 DEF Placed
<1>6. sent' \in SUBSET Reports /\ SentOK(sent', lease, journal, rec, effects)
  BY <1>1, IInvQueue DEF TypeOK
<1>7. /\ lease' \in [Executors -> Lease \cup {NoLease}] /\ receipt' \in [Executors -> Reports]
      /\ principal' \in [Executors -> [gen : Nat, epoch : Nat]] /\ principal'[e].gen <= gen
  BY <1>1 DEF IInv, TypeOK, PrincipalsOK
<1>. QED
  BY <1>1, <1>2, <1>3, <1>5, <1>6, <1>7, PlacedKeeps

LEMMA BootKeeps ==
  ASSUME IInv, Boot
  PROVE  IInv'
<1>1. Down(Executors, Rebooted(journal), "idle") /\ OfThisAgent /\ "idle" \in Labels
  BY DEF Boot, Labels
<1>2. /\ pc' \in [Executors -> Labels]
      /\ principal' \in [Executors -> [gen : Nat, epoch : Nat]]
      /\ PrincipalsOK(principal', gen)
      /\ lease' \in [Executors -> Lease \cup {NoLease}]
      /\ receipt' \in [Executors -> Reports]
      /\ \A f \in Executors : pc'[f] = "idle" /\ lease'[f] = NoLease
      /\ journal' = Abandoned(Rebooted(journal), Executors)
  BY <1>1, DownIs DEF IInv
<1>3. Orphans(journal, Rebooted(journal), Executors) /\ Rebooted(journal) \in Journals
  BY RebootedOrphans DEF IInv, TypeOK, Orphans
<1>4. Orphans(Rebooted(journal), journal', Executors)
  BY <1>2, <1>3, AbandonedOrphans
<1>5. World(rec, gen, journal', pc', lease', receipt', sent, effects)
  BY <1>2, <1>3, <1>4, BootWorld DEF IInv
<1>. QED
  BY <1>1, <1>2, <1>5, AgentKeeps

LEMMA PollRefusedKeeps ==
  ASSUME IInv, NEW e \in Executors, PollRefused(e) \/ LeaseIsOver(e)
  PROVE  IInv'
<1>1. /\ Idle(e) /\ UNCHANGED queueVars /\ agentEpoch' = agentEpoch /\ journal' = journal
      /\ effects' = effects /\ sent' = sent
  BY DEF PollRefused, LeaseIsOver, OfThisAgent
<1>2. sent' \in SUBSET Reports /\ SentOK(sent', lease, journal, rec, effects)
  <2>1. sent \subseteq Reports /\ SentOK(sent, lease, journal, rec, effects)
    BY IInvQueue DEF IInv, TypeOK
  <2>. QED
    BY <1>1, <2>1
<1>. QED
  BY <1>1, <1>2, IdleKeeps

LEMMA PollFailsKeeps ==
  ASSUME IInv, NEW e \in Executors, PollFails(e)
  PROVE  IInv'
<1>1. /\ Idle(e) /\ agentEpoch' = agentEpoch /\ journal' = journal /\ effects' = effects
      /\ sent' = Deliverable(sent)
      /\ rec' = rec /\ gen' = gen /\ now' = now /\ epoch' = epoch /\ queue' = queue
  BY DEF PollFails, AbortPoll, AtTheMaster
<1>2. TypeOK /\ QueueOK /\ SentOK(sent, lease, journal, rec, effects) /\ sent \subseteq Reports
  BY IInvQueue DEF IInv, TypeOK
<1>3. sent' \in SUBSET Reports /\ SentOK(sent', lease, journal, rec, effects)
  BY <1>1, <1>2, DeliverableKept
<1>4. /\ Rewrites(rec, rec', gen, gen') /\ now' \in Nat /\ epoch' \in Nat
      /\ queue' \in Seq(Ops)
  BY <1>1, <1>2, NoneRewritten DEF QueueOK
<1>5. /\ pc' \in [Executors -> Labels] /\ pc'[e] = "idle"
      /\ principal' \in [Executors -> [gen : Nat, epoch : Nat]] /\ principal'[e].gen = 0
      /\ lease' \in [Executors -> Lease \cup {NoLease}] /\ lease'[e] = NoLease
      /\ receipt' \in [Executors -> Reports]
      /\ \A f \in Executors \ {e} :
           /\ pc'[f] = pc[f] /\ principal'[f] = principal[f] /\ lease'[f] = lease[f]
           /\ receipt'[f] = receipt[f]
  BY <1>1, <1>2, IdleIs
<1>6. Placed(e, rec, rec', pc, pc', lease, lease', receipt, receipt')
  BY <1>5 DEF Placed
<1>7. principal'[e].gen <= gen
  BY <1>2, <1>5 DEF QueueOK
<1>8. agentEpoch' = agentEpoch /\ journal' = journal /\ effects' = effects
  BY <1>1
<1>. QED
  BY <1>3, <1>4, <1>5, <1>6, <1>7, <1>8, PlacedKeeps

LEMMA ConfigureKeeps ==
  ASSUME IInv, Configure
  PROVE  IInv'
<1>1. /\ agentEpoch' = epoch /\ rec' = rec /\ gen' = gen /\ now' = now /\ epoch' = epoch
      /\ queue' = queue /\ journal' = journal /\ pc' = pc /\ principal' = principal
      /\ lease' = lease /\ receipt' = receipt /\ sent' = sent /\ effects' = effects
  BY DEF Configure, queueVars
<1>. QED
  BY <1>1 DEF IInv, TypeOK

LEMMA ExecutorKeeps ==
  ASSUME IInv, NEW e \in Executors, Executor(e)
  PROVE  IInv'
<1>1. CASE PollAnswered(e)
  BY <1>1, PollAnsweredKeeps DEF PollAnswered, Goto
<1>2. CASE PollAnswerLost(e)
  BY <1>2, PollAnsweredKeeps DEF PollAnswerLost
<1>3. CASE Connect(e) \/ Poll(e) \/ PollRefused(e) \/ PollFails(e) \/ LeaseIsOver(e)
  BY <1>3, ConnectKeeps, PollKeeps, PollRefusedKeeps, PollFailsKeeps
<1>4. CASE AcceptLease(e) \/ RecoverLease(e) \/ Claim(e) \/ Dispatch(e) \/ FinishLease(e)
  BY <1>4, AcceptLeaseKeeps, RecoverLeaseKeeps, ClaimKeeps, DispatchKeeps, FinishLeaseKeeps
<1>5. CASE Report(e) \/ Crash(e) \/ Start(e)
  BY <1>5, ReportKeeps, CrashKeeps, StartKeeps
<1>. QED
  BY <1>1, <1>2, <1>3, <1>4, <1>5 DEF Executor

LEMMA Inductive == IInv /\ [Next]_vars => IInv'
<1> SUFFICES ASSUME IInv, [Next]_vars PROVE IInv'
  OBVIOUS
<1>1. CASE Master
  BY <1>1, MasterKeeps
<1>2. CASE \E e \in Executors : Executor(e)
  BY <1>2, ExecutorKeeps
<1>3. CASE Boot \/ Configure
  BY <1>3, BootKeeps, ConfigureKeeps
<1>4. CASE UNCHANGED vars
  BY <1>4 DEF vars, queueVars, agentVars, IInv, TypeOK
<1>. QED
  BY <1>1, <1>2, <1>3, <1>4 DEF Next

-----------------------------------------------------------------------------
(* The invariant: besides the types, every lease an executor, the journal  *)
(* or a record holds was given out by a poll at the record's fences;       *)
(* an executor that is about to mutate the host holds the claim that       *)
(* begin_effect wrote; an effect leaves a claim, a receipt or a high-water *)
(* mark behind; and every report is borne out by the journal.              *)
THEOREM HostInvariant == Spec => []IInv
<1>1. Init => IInv
  BY InitIInv
<1>2. IInv /\ [Next]_vars => IInv'
  BY Inductive
<1>. QED
  BY <1>1, <1>2, PTL DEF Spec

(* The queue, the journal, the executors and the reports keep their types. *)
THEOREM TypeCorrect == Spec => []TypeOK
<1>1. IInv => TypeOK
  BY DEF IInv
<1>. QED
  BY <1>1, HostInvariant, PTL

(* execute and HostAgentState let a mutating operation take effect on the  *)
(* host at most once, for every number of operations and executors and     *)
(* every limit of the journal.                                             *)
THEOREM EffectOnce == Spec => []EffectAtMostOnce
<1>1. IInv => EffectAtMostOnce
  BY QueueAssumption DEF IInv, World, Base, EffectsOK, EffectOK, EffectAtMostOnce
<1>. QED
  BY <1>1, HostInvariant, PTL

(* A receipt that complete recorded tells what happened on the host, and   *)
(* what the journal would answer to another lease of the operation.        *)
THEOREM RecordTrue == Spec => []RecordIsTrue
<1>1. ASSUME IInv PROVE RecordIsTrue
  <2> SUFFICES ASSUME NEW o \in Ops, rec[o].why = "receipt"
               PROVE  /\ o \in Mutating /\ rec[o].state = "succeeded" => effects[o] = 1
                      /\ o \in Mutating /\ rec[o].state = "failed" => effects[o] = 0
                      /\ o \in Saved(journal) => journal.receipts[o].state = rec[o].state
    BY DEF RecordIsTrue
  <2> DEFINE a == journal.accepted[o]
             c == journal.receipts[o]
             hi == journal.hiGen
             r == rec[o]
  <2>1. RecordsTold(lease, journal, rec, effects)
    BY <1>1 DEF IInv, World, AllSaid
  <2>2. Said(o, r.attempt, r.state, a, c, hi, r, effects[o]) /\ Settled(r.state, a, c, hi, r)
    BY <2>1 DEF RecordsTold, ToldOK
  <2>3. o \in Saved(journal) => c.lease # NoLease
    BY DEF Saved
  <2>4. o \in Saved(journal) => c.state = r.state
    BY <2>2, <2>3 DEF Settled
  <2>5. o \in Mutating => Truth(r.state, effects[o])
    BY <2>2 DEF Said
  <2>. QED
    BY <2>4, <2>5 DEF Truth
<1>. QED
  BY <1>1, HostInvariant, PTL

-----------------------------------------------------------------------------
(* No step changes a record that is terminal.                              *)
LEMMA MasterEndsOnce ==
  ASSUME IInv, Master, NEW o \in Ops, rec[o].state \in Terminal
  PROVE  rec'[o] = rec[o]
<1>1. /\ rec \in [Ops -> Record] /\ rec[o].state # "absent" /\ rec[o].state # "queued"
      /\ rec[o].state # "leased"
  BY DEF IInv, TypeOK, Terminal
<1>2. CASE \E p \in Ops : Enqueue(p) \/ Cancel(p)
  BY <1>1, <1>2 DEF Enqueue, Cancel
<1>3. CASE \E r \in sent : Complete(r)
  BY <1>1, <1>3 DEF Complete
<1>4. CASE PollOfAnotherHost
  BY <1>1, <1>4 DEF PollOfAnotherHost, RequeueExpired, Requeued, LeaseRanOut
<1>5. CASE FinalizeHead
  <2>1. PICK item : /\ rec' = [rec EXCEPT ![item.op] = Ended(rec[item.op], "unknown", item.why)]
                    /\ Final(item)
    BY <1>5 DEF FinalizeHead
  <2>2. item.op # o
    BY <1>1, <2>1 DEF Final, Overdue, Exhausted, LeaseRanOut
  <2>. QED
    BY <1>1, <2>1, <2>2
<1>6. CASE Tick \/ NewGeneration \/ NewEpoch
  BY <1>6 DEF Tick, NewGeneration, NewEpoch
<1>. QED
  BY <1>2, <1>3, <1>4, <1>5, <1>6 DEF Master

LEMMA LeaseNextEndsOnce ==
  ASSUME IInv, NEW e \in Executors, LeaseNext(principal[e]), NEW o \in Ops,
         rec[o].state \in Terminal
  PROVE  rec'[o] = rec[o]
<1> DEFINE p == principal[e]
<1>1. QueueOK /\ p.gen \in Nat /\ p.epoch \in Nat /\ p.gen <= gen /\ rec[o].state # "queued"
  BY IInvQueue DEF IInv, TypeOK, PrincipalsOK, Terminal
<1>2. NextLease(p) = NoLease \/ Leasable(NextLease(p).op, p)
  BY <1>1, NextLeaseIs
<1>3. o # NextLease(p).op
  BY <1>1, <1>2, NoLeaseApart DEF Leasable
<1>4. rec'[o] = CASE o = NextLease(p).op ->
                       Leased(rec[o], "leased", rec[o].attempt + 1, NextLease(p))
                  [] rec[o].state = "queued" /\ Before(o, p) /\ FenceStale(o, p) ->
                       Ended(rec[o], "failed", "stale")
                  [] OTHER -> rec[o]
  BY DEF LeaseNext
<1>. QED
  BY <1>1, <1>3, <1>4

LEMMA ExecutorEndsOnce ==
  ASSUME IInv, NEW e \in Executors, Executor(e), NEW o \in Ops, rec[o].state \in Terminal
  PROVE  rec'[o] = rec[o]
<1>1. CASE Poll(e)
  <2>1. rec[o].state # "leased" /\ RequeueExpired
    BY <1>1 DEF Terminal, Poll, BeginPoll
  <2>. QED
    BY <2>1 DEF RequeueExpired, Requeued, LeaseRanOut
<1>2. CASE PollAnswered(e) \/ PollAnswerLost(e)
  BY <1>2, LeaseNextEndsOnce DEF PollAnswered, PollAnswerLost
<1>3. CASE Connect(e) \/ PollRefused(e) \/ PollFails(e) \/ LeaseIsOver(e)
  BY <1>3 DEF Connect, PollRefused, PollFails, LeaseIsOver, AbortPoll, OfThisAgent, queueVars
<1>4. CASE \/ AcceptLease(e) \/ RecoverLease(e) \/ Claim(e) \/ FinishLease(e)
           \/ Crash(e) \/ Start(e)
  BY <1>4 DEF AcceptLease, RecoverLease, Claim, FinishLease, Crash, Start, OfThisAgent, queueVars
<1>5. CASE Dispatch(e) \/ Report(e)
  BY <1>5 DEF Dispatch, Report, queueVars
<1>. QED
  BY <1>1, <1>2, <1>3, <1>4, <1>5 DEF Executor

(* An operation of the queue ends once: complete, cancel and _finalize_*   *)
(* test the record they change, and a poll leases what is queued.          *)
THEOREM QueueEndsOnce == Spec => EndsOnce
<1>1. ASSUME IInv, [Next]_vars
      PROVE  [\A o \in Ops : rec[o].state \in Terminal => rec'[o] = rec[o]]_vars
  <2>1. ASSUME NEW o \in Ops, rec[o].state \in Terminal PROVE rec'[o] = rec[o]
    <3>1. CASE Boot \/ Configure
      BY <3>1 DEF Boot, Configure, OfThisAgent, queueVars
    <3>2. CASE UNCHANGED vars
      BY <3>2 DEF vars, queueVars
    <3>. QED
      BY <1>1, <2>1, <3>1, <3>2, MasterEndsOnce, ExecutorEndsOnce DEF Next
  <2>. QED
    BY <2>1
<1>. QED
  BY <1>1, HostInvariant, PTL DEF Spec, EndsOnce

-----------------------------------------------------------------------------
Claiming(e) == pc[e] \in {"effect", "finishing"} /\ lease[e].op \in Mutating

(* The claim of begin_effect excludes: two executors are never between     *)
(* their claim and their receipt for one operation.                        *)
THEOREM ClaimExcludes ==
  Spec => []\A e, f \in Executors :
              Claiming(e) /\ Claiming(f) /\ lease[e].op = lease[f].op => e = f
<1>1. IInv => \A e, f \in Executors :
                Claiming(e) /\ Claiming(f) /\ lease[e].op = lease[f].op => e = f
  BY DEF IInv, World, ClaimsOK, ClaimOK, Claiming
<1>. QED
  BY <1>1, HostInvariant, PTL

-----------------------------------------------------------------------------
(* The limits of the journal                                               *)

(* No lease in the journal is above its high-water marks.                  *)
Marked(j) ==
  \A o \in Ops : \A l \in {j.accepted[o].lease, j.receipts[o].lease} :
    l.gen <= j.hiGen /\ l.epoch <= j.hiEpoch

(* A journal that _read_locked accepts, but for one receipt.               *)
OneTooMany(j) ==
  /\ Cardinality(Held(j)) <= MaxAccepted /\ Cardinality(Saved(j)) <= MaxReceipts + 1
  /\ Marked(j)

(* The journal k has the leases of j, or fewer, and perhaps l.             *)
Below(j, k, l) ==
  /\ j.hiGen <= k.hiGen /\ j.hiEpoch <= k.hiEpoch
  /\ l.gen <= k.hiGen /\ l.epoch <= k.hiEpoch
  /\ \A o \in Ops : /\ k.accepted[o].lease \in {j.accepted[o].lease, l, NoLease}
                    /\ k.receipts[o].lease \in {j.receipts[o].lease, l, NoLease}

LEMMA MarkedBelow ==
  ASSUME NEW j \in Journals, NEW k \in Journals, Marked(j), NEW l, Below(j, k, l)
  PROVE  Marked(k)
<1> SUFFICES ASSUME NEW o \in Ops, NEW m \in {k.accepted[o].lease, k.receipts[o].lease}
             PROVE  m.gen <= k.hiGen /\ m.epoch <= k.hiEpoch
  BY DEF Marked
<1>1. m = j.accepted[o].lease \/ m = j.receipts[o].lease \/ m = l \/ m = NoLease
  BY DEF Below
<1>2. k.hiGen \in Nat /\ k.hiEpoch \in Nat /\ j.hiGen \in Nat /\ j.hiEpoch \in Nat
  BY JournalFields
<1>3. NoLease.gen = 0 /\ NoLease.epoch = 0
  BY DEF NoLease
<1>4. CASE m = l \/ m = NoLease
  BY <1>2, <1>3, <1>4 DEF Below
<1>5. CASE m = j.accepted[o].lease \/ m = j.receipts[o].lease
  <2>1. m.gen <= j.hiGen /\ m.epoch <= j.hiEpoch
    BY <1>5 DEF Marked
  <2>2. m \in Lease \cup {NoLease}
    BY <1>5, SlotFields
  <2>3. m.gen \in Nat /\ m.epoch \in Nat
    BY <1>3, <2>2, LeaseFields
  <2>. QED
    BY <1>2, <2>1, <2>3 DEF Below
<1>. QED
  BY <1>1, <1>4, <1>5

LEMMA JournalFinite ==
  ASSUME NEW j
  PROVE  /\ IsFiniteSet(Held(j)) /\ Cardinality(Held(j)) \in Nat
         /\ IsFiniteSet(Saved(j)) /\ Cardinality(Saved(j)) \in Nat
BY OpsFinite, FS_Subset, FS_CardinalityType DEF Held, Saved

LEMMA ReadableIs ==
  ASSUME NEW j
  PROVE  Readable(j) <=> /\ Cardinality(Held(j)) <= MaxAccepted
                         /\ Cardinality(Saved(j)) <= MaxReceipts /\ Marked(j)
BY DEF Readable, Marked

(* With no more work and no more receipts the limits are kept.             *)
LEMMA ReadableBelow ==
  ASSUME NEW j \in Journals, NEW k \in Journals, Readable(j), NEW l, Below(j, k, l),
         Held(k) \subseteq Held(j), Saved(k) \subseteq Saved(j)
  PROVE  Readable(k)
<1>1. Marked(j) /\ Cardinality(Held(j)) <= MaxAccepted /\ Cardinality(Saved(j)) <= MaxReceipts
  BY ReadableIs
<1>2. Marked(k)
  BY <1>1, MarkedBelow
<1>3. /\ Cardinality(Held(k)) <= Cardinality(Held(j))
      /\ Cardinality(Saved(k)) <= Cardinality(Saved(j))
  BY JournalFinite, FS_Subset
<1>4. /\ Cardinality(Held(k)) \in Nat /\ Cardinality(Saved(k)) \in Nat
      /\ Cardinality(Held(j)) \in Nat /\ Cardinality(Saved(j)) \in Nat
  BY JournalFinite
<1>5. Cardinality(Held(k)) <= MaxAccepted /\ Cardinality(Saved(k)) <= MaxReceipts
  BY <1>1, <1>3, <1>4, JournalAssumption
<1>. QED
  BY <1>2, <1>5, ReadableIs

LEMMA PruneReadable ==
  ASSUME NEW j \in Journals, Readable(j), NEW g
  PROVE  Prune(j, g) \in Journals /\ Readable(Prune(j, g)) /\ Below(j, Prune(j, g), NoLease)
<1> DEFINE k == Prune(j, g)
<1>1. /\ k \in Journals /\ k.accepted = j.accepted /\ k.hiGen = j.hiGen /\ k.hiEpoch = j.hiEpoch
      /\ \A o \in Ops : k.receipts[o] = j.receipts[o] \/ k.receipts[o] = NoReceipt
  BY PruneTakes
<1> HIDE DEF k
<1>2. NoReceipt.lease = NoLease /\ NoLease.gen = 0 /\ NoLease.epoch = 0
  BY DEF NoReceipt, NoLease
<1>3. Below(j, k, NoLease)
  BY <1>1, <1>2, JournalFields DEF Below
<1>4. Held(k) \subseteq Held(j) /\ Saved(k) \subseteq Saved(j)
  BY <1>1, <1>2 DEF Held, Saved
<1>. QED
  BY <1>1, <1>3, <1>4, ReadableBelow DEF k

LEMMA ForgottenReadable ==
  ASSUME NEW j \in Journals, Readable(j), NEW p \in Ops
  PROVE  Forgotten(j, p) \in Journals /\ Readable(Forgotten(j, p))
<1> DEFINE k == Forgotten(j, p)
<1>1. /\ k \in Journals /\ k.hiGen = j.hiGen /\ k.hiEpoch = j.hiEpoch /\ k.receipts = j.receipts
      /\ \A o \in Ops : k.accepted[o] = j.accepted[o] \/ k.accepted[o] = NotAccepted
  BY ForgottenIs
<1> HIDE DEF k
<1>2. NotAccepted.lease = NoLease /\ NoLease.gen = 0 /\ NoLease.epoch = 0
  BY DEF NotAccepted, NoLease
<1>3. Below(j, k, NoLease)
  BY <1>1, <1>2, JournalFields DEF Below
<1>4. Held(k) \subseteq Held(j) /\ Saved(k) \subseteq Saved(j)
  BY <1>1, <1>2 DEF Held, Saved
<1>. QED
  BY <1>1, <1>3, <1>4, ReadableBelow DEF k

(* _finish_locked adds at most one receipt.                                *)
LEMMA ReceiptedOne ==
  ASSUME NEW j \in Journals, Readable(j), NEW l \in Lease, NEW state \in Known,
         l.gen <= j.hiGen, l.epoch <= j.hiEpoch
  PROVE  /\ Receipted(j, l, state) \in Journals /\ OneTooMany(Receipted(j, l, state))
         /\ ~ Full(j) => Readable(Receipted(j, l, state))
<1> DEFINE k == Receipted(j, l, state)
<1>1. /\ k \in Journals /\ k.hiGen = j.hiGen /\ k.hiEpoch = j.hiEpoch
      /\ \A o \in Ops : /\ k.accepted[o] = j.accepted[o] \/ k.accepted[o] = NotAccepted
                        /\ \/ k.receipts[o] = j.receipts[o]
                           \/ o = l.op /\ k.receipts[o] = [lease |-> l, state |-> state]
  BY ReceiptedIs
<1> HIDE DEF k
<1>2. NotAccepted.lease = NoLease
  BY DEF NotAccepted
<1>3. Below(j, k, l)
  BY <1>1, <1>2, JournalFields DEF Below
<1>4. Held(k) \subseteq Held(j) /\ Saved(k) \subseteq Saved(j) \cup {l.op}
  BY <1>1, <1>2 DEF Held, Saved
<1>5. Marked(j) /\ Cardinality(Held(j)) <= MaxAccepted /\ Cardinality(Saved(j)) <= MaxReceipts
  BY ReadableIs
<1>6. Marked(k)
  BY <1>1, <1>3, <1>5, MarkedBelow
<1>7. Cardinality(Held(k)) <= Cardinality(Held(j))
  BY <1>4, JournalFinite, FS_Subset
<1>8. Cardinality(Saved(k)) <= Cardinality(Saved(j)) + 1
  <2>1. /\ IsFiniteSet(Saved(j) \cup {l.op})
        /\ \/ Cardinality(Saved(j) \cup {l.op}) = Cardinality(Saved(j))
           \/ Cardinality(Saved(j) \cup {l.op}) = Cardinality(Saved(j)) + 1
    BY JournalFinite, FS_AddElement
  <2>2. Cardinality(Saved(k)) <= Cardinality(Saved(j) \cup {l.op})
    BY <1>4, <2>1, FS_Subset
  <2>3. Cardinality(Saved(k)) \in Nat /\ Cardinality(Saved(j)) \in Nat
    BY JournalFinite
  <2>. QED
    BY <2>1, <2>2, <2>3
<1>9. /\ Cardinality(Held(k)) \in Nat /\ Cardinality(Saved(k)) \in Nat
      /\ Cardinality(Held(j)) \in Nat /\ Cardinality(Saved(j)) \in Nat
      /\ MaxAccepted \in Nat /\ MaxReceipts \in Nat
  BY JournalFinite, JournalAssumption
<1>10. Cardinality(Held(k)) <= MaxAccepted /\ Cardinality(Saved(k)) <= MaxReceipts + 1
  BY <1>5, <1>7, <1>8, <1>9
<1>11. ~ Full(j) => Cardinality(Saved(k)) <= MaxReceipts
  BY <1>8, <1>9 DEF Full
<1>. QED
  BY <1>1, <1>6, <1>10, <1>11, ReadableIs DEF OneTooMany, k

-----------------------------------------------------------------------------
(* accept keeps the limits: it looks at both before it adds anything.      *)
Legible(s) ==
  s.doc \in Journals /\ Readable(s.doc) /\ s.disk \in Journals /\ Readable(s.disk)

LEMMA ReclaimStepLegible ==
  ASSUME NEW s, Legible(s), NEW o \in Ops, NEW t
  PROVE  Legible(ReclaimStep(s, o, t))
<1> DEFINE a == s.doc.accepted[o]
           pruned == Prune(s.doc, a.lease.gen)
           done == Receipted(pruned, a.lease, "unknown")
           gone == Forgotten(s.doc, o)
<1>1. s.doc \in Journals /\ Readable(s.doc) /\ s.disk \in Journals /\ Readable(s.disk)
  BY DEF Legible
<1>2. gone \in Journals /\ Readable(gone)
  BY <1>1, ForgottenReadable
<1>3. pruned \in Journals /\ Readable(pruned) /\ Below(s.doc, pruned, NoLease)
  BY <1>1, PruneReadable
<1>4. ASSUME o \in Held(s.doc), ~ Full(pruned) PROVE done \in Journals /\ Readable(done)
  <2>1. a.lease \in Lease
    BY <1>1, <1>4, SlotFields DEF Held
  <2>2. a.lease.gen <= s.doc.hiGen /\ a.lease.epoch <= s.doc.hiEpoch
    BY <1>1, ReadableIs DEF Marked
  <2>3. /\ a.lease.gen \in Nat /\ a.lease.epoch \in Nat
        /\ s.doc.hiGen \in Nat /\ s.doc.hiEpoch \in Nat
        /\ pruned.hiGen \in Nat /\ pruned.hiEpoch \in Nat
    BY <1>1, <1>3, <2>1, LeaseFields, JournalFields
  <2> HIDE DEF pruned, a
  <2>4. a.lease.gen <= pruned.hiGen /\ a.lease.epoch <= pruned.hiEpoch
    BY <1>3, <2>2, <2>3 DEF Below
  <2>5. "unknown" \in Known
    BY DEF Known
  <2>. QED
    BY <1>3, <1>4, <2>1, <2>4, <2>5, ReceiptedOne
<1>5. \/ ReclaimStep(s, o, t) = s
      \/ ReclaimStep(s, o, t) = [doc |-> gone, disk |-> s.disk, changed |-> TRUE, failed |-> FALSE]
      \/ ReclaimStep(s, o, t) =
           [doc |-> s.doc, disk |-> s.disk, changed |-> s.changed, failed |-> TRUE]
      \/ /\ o \in Held(s.doc) /\ ~ Full(pruned)
         /\ ReclaimStep(s, o, t) = [doc |-> done, disk |-> done, changed |-> TRUE, failed |-> FALSE]
  BY Zenon DEF ReclaimStep
<1> HIDE DEF gone, pruned, done, a
<1>. QED
  BY <1>1, <1>2, <1>4, <1>5 DEF Legible

LEMMA ReclaimLegible ==
  ASSUME NEW j \in Journals, Readable(j), NEW t
  PROVE  Legible(Reclaim(j, t))
<1>1. PICK f : /\ Reclaim(j, t) = f[LastOp]
               /\ f[0] = [doc |-> j, disk |-> j, changed |-> FALSE, failed |-> FALSE]
               /\ \A n \in 1 .. LastOp :
                    f[n] = IF n \in Ops THEN ReclaimStep(f[n - 1], n, t) ELSE f[n - 1]
  BY ReclaimRuns
<1> DEFINE S == {n \in Nat : n <= LastOp /\ ~ Legible(f[n])}
<1>2. SUFFICES ASSUME S # {} PROVE FALSE
  BY <1>1, LastOpOK
<1>3. PICK k \in S : \A y \in S : k <= y
  BY <1>2, MinExists
<1>4. CASE k = 0
  <2>1. Legible(f[0])
    BY <1>1 DEF Legible
  <2>. QED
    BY <1>3, <1>4, <2>1
<1>5. CASE k # 0
  <2>1. k - 1 \in Nat /\ k - 1 \notin S /\ k - 1 <= LastOp /\ k \in 1 .. LastOp
    BY <1>3, <1>5, LastOpOK
  <2>2. Legible(f[k - 1])
    BY <2>1
  <2>3. Legible(f[k])
    BY <1>1, <2>1, <2>2, ReclaimStepLegible
  <2>. QED
    BY <1>3, <2>3
<1>. QED
  BY <1>4, <1>5

LEMMA WithLeaseReadable ==
  ASSUME NEW j \in Journals, Readable(j), NEW l \in Lease, NEW t \in Nat,
         l.op \in Held(j) \/ Cardinality(Held(j)) < MaxAccepted
  PROVE  Readable(WithLease(j, l, t))
<1> DEFINE k == WithLease(j, l, t)
<1>1. /\ k \in Journals /\ k.receipts = j.receipts
      /\ j.hiGen <= k.hiGen /\ l.gen <= k.hiGen /\ j.hiEpoch <= k.hiEpoch /\ l.epoch <= k.hiEpoch
      /\ k.accepted[l.op].lease = l
      /\ \A o \in Ops \ {l.op} : k.accepted[o] = j.accepted[o]
  BY WithLeaseIs
<1> HIDE DEF k
<1>2. Below(j, k, l)
  BY <1>1 DEF Below
<1>3. Marked(j) /\ Cardinality(Held(j)) <= MaxAccepted /\ Cardinality(Saved(j)) <= MaxReceipts
  BY ReadableIs
<1>4. Marked(k)
  BY <1>1, <1>2, <1>3, MarkedBelow
<1>5. Saved(k) = Saved(j) /\ Held(k) \subseteq Held(j) \cup {l.op}
  BY <1>1 DEF Saved, Held
<1>6. /\ IsFiniteSet(Held(j) \cup {l.op})
      /\ \/ Cardinality(Held(j) \cup {l.op}) = Cardinality(Held(j))
         \/ /\ l.op \notin Held(j)
            /\ Cardinality(Held(j) \cup {l.op}) = Cardinality(Held(j)) + 1
  BY JournalFinite, FS_AddElement
<1>7. Cardinality(Held(k)) <= Cardinality(Held(j) \cup {l.op})
  BY <1>5, <1>6, FS_Subset
<1>8. Cardinality(Held(k)) \in Nat /\ Cardinality(Held(j)) \in Nat /\ MaxAccepted \in Nat
  BY JournalFinite, JournalAssumption
<1>9. Cardinality(Held(k)) <= MaxAccepted
  BY <1>3, <1>6, <1>7, <1>8
<1>. QED
  BY <1>3, <1>4, <1>5, <1>9, ReadableIs DEF k

LEMMA ReboundReadable ==
  ASSUME NEW j \in Journals, Readable(j), NEW l \in Lease, l.op \in Saved(j),
         l.epoch = j.receipts[l.op].lease.epoch
  PROVE  Readable(Rebound(j, l))
<1> DEFINE k == Rebound(j, l)
<1>1. /\ k \in Journals /\ k.accepted = j.accepted /\ j.hiGen <= k.hiGen /\ l.gen <= k.hiGen
      /\ k.hiEpoch = j.hiEpoch
      /\ k.receipts[l.op] = [lease |-> l, state |-> j.receipts[l.op].state]
      /\ \A o \in Ops \ {l.op} : k.receipts[o] = j.receipts[o]
  BY ReboundIs
<1> HIDE DEF k
<1>2. l.epoch <= j.hiEpoch
  BY LeaseFields, ReadableIs DEF Marked
<1>3. Below(j, k, l)
  BY <1>1, <1>2, JournalFields DEF Below
<1>4. Held(k) \subseteq Held(j) /\ Saved(k) \subseteq Saved(j)
  BY <1>1 DEF Held, Saved
<1>. QED
  BY <1>1, <1>3, <1>4, ReadableBelow DEF k

LEMMA AcceptReadable ==
  ASSUME NEW j \in Journals, Readable(j), NEW l \in Lease, NEW t \in Nat
  PROVE  Readable(Accept(j, l, t).j)
<1>1. CASE ~ Fresh(j, l)
  BY <1>1 DEF Accept, Refused
<1>2. CASE Fresh(j, l) /\ l.op \in Saved(j)
  <2>1. Accept(j, l, t) = AcceptSaved(j, l, t)
    BY <1>2 DEF Accept
  <2>2. \/ AcceptSaved(j, l, t).j = j
        \/ /\ AcceptSaved(j, l, t).j = Rebound(j, l)
           /\ l.epoch = j.receipts[l.op].lease.epoch
    BY DEF AcceptSaved, Redelivers, Refused
  <2>. QED
    BY <1>2, <2>1, <2>2, ReboundReadable
<1>3. CASE Fresh(j, l) /\ l.op \notin Saved(j) /\ l.op \in Held(j)
  <2>1. Accept(j, l, t) = AcceptHeld(j, l, t)
    BY <1>3 DEF Accept
  <2>2. AcceptHeld(j, l, t).j \in {j, WithLease(j, l, t)}
    BY DEF AcceptHeld, Refused
  <2>. QED
    BY <1>3, <2>1, <2>2, WithLeaseReadable
<1>4. CASE Fresh(j, l) /\ l.op \notin Saved(j) /\ l.op \notin Held(j)
  <2> DEFINE r == Reclaim(j, t)
             p == Prune(r.doc, l.gen)
  <2>1. Accept(j, l, t) = AcceptNew(j, l, t)
    BY <1>4 DEF Accept
  <2>2. r.doc \in Journals /\ Readable(r.doc) /\ Readable(r.disk)
    BY ReclaimLegible DEF Legible
  <2>3. p \in Journals /\ Readable(p)
    BY <2>2, PruneReadable
  <2>4. \/ AcceptNew(j, l, t).j \in {p, r.disk}
        \/ /\ ~ (Cardinality(Held(p)) >= MaxAccepted)
           /\ AcceptNew(j, l, t).j = WithLease(p, l, t)
    BY DEF AcceptNew, Refused
  <2> HIDE DEF r, p
  <2>5. ~ (Cardinality(Held(p)) >= MaxAccepted) => Cardinality(Held(p)) < MaxAccepted
    BY JournalFinite, JournalAssumption
  <2>. QED
    BY <2>1, <2>2, <2>3, <2>4, <2>5, WithLeaseReadable
<1>. QED
  BY <1>1, <1>2, <1>3, <1>4

LEMMA RecoverOne ==
  ASSUME NEW j \in Journals, Readable(j), NEW l \in Lease, NEW t
  PROVE  Readable(Recover(j, l, t).j) \/ OneTooMany(Recover(j, l, t).j)
<1>1. \/ Recover(j, l, t).j = j
      \/ j.accepted[l.op].lease = l /\ Recover(j, l, t).j = Receipted(j, l, "unknown")
  BY DEF Recover, Refused
<1>2. ASSUME j.accepted[l.op].lease = l PROVE l.gen <= j.hiGen /\ l.epoch <= j.hiEpoch
  BY <1>2, LeaseFields, ReadableIs DEF Marked
<1>3. "unknown" \in Known
  BY DEF Known
<1>. QED
  BY <1>1, <1>2, <1>3, ReceiptedOne

LEMMA FinishOne ==
  ASSUME NEW j \in Journals, Readable(j), NEW l \in Lease, NEW claim, NEW state \in Known
  PROVE  Readable(Finish(j, l, claim, state).j) \/ OneTooMany(Finish(j, l, claim, state).j)
<1>1. \/ Finish(j, l, claim, state).j = j
      \/ /\ j.accepted[l.op].lease = l
         /\ Finish(j, l, claim, state).j = Receipted(j, l, state)
  BY DEF Finish, Refused
<1>2. ASSUME j.accepted[l.op].lease = l PROVE l.gen <= j.hiGen /\ l.epoch <= j.hiEpoch
  BY <1>2, LeaseFields, ReadableIs DEF Marked
<1>. QED
  BY <1>1, <1>2, ReceiptedOne

(* Only the accepted work and its claims change, not its leases.           *)
SameLeases(j, k) ==
  /\ k.receipts = j.receipts /\ k.hiGen = j.hiGen /\ k.hiEpoch = j.hiEpoch
  /\ \A o \in Ops : k.accepted[o].lease = j.accepted[o].lease

LEMMA SameLeasesLimits ==
  ASSUME NEW j, NEW k, SameLeases(j, k)
  PROVE  (Readable(k) <=> Readable(j)) /\ (OneTooMany(k) <=> OneTooMany(j))
<1>1. Held(k) = Held(j) /\ Saved(k) = Saved(j)
  BY DEF SameLeases, Held, Saved
<1>2. Marked(k) <=> Marked(j)
  BY DEF SameLeases, Marked
<1>. QED
  BY <1>1, <1>2, ReadableIs DEF OneTooMany

LEMMA BeginEffectLimits ==
  ASSUME NEW j \in Journals, NEW l \in Lease, NEW e \in Executors
  PROVE  SameLeases(j, BeginEffect(j, l, e).j)
<1> DEFINE w == Claimed(j.accepted[l.op], e)
           x == [j.accepted EXCEPT ![l.op] = w]
           k == Journal(x, j.receipts, j.hiGen, j.hiEpoch)
<1>1. BeginEffect(j, l, e).j \in {j, k}
  BY DEF BeginEffect, Refused
<1>2. w.lease = j.accepted[l.op].lease /\ w \in Accepted
  BY JournalFields, LeaseFields DEF Claimed, Accepted
<1> HIDE DEF w
<1>3. x \in [Ops -> Accepted] /\ \A o \in Ops : x[o].lease = j.accepted[o].lease
  BY <1>2, JournalFields, LeaseFields
<1> HIDE DEF x
<1>4. SameLeases(j, k)
  BY <1>3, JournalFields, JournalMade DEF SameLeases
<1>. QED
  BY <1>1, <1>4 DEF SameLeases

LEMMA OrphansLimits ==
  ASSUME NEW j, NEW k, NEW who, Orphans(j, k, who)
  PROVE  SameLeases(j, k)
BY DEF Orphans, Died, SameLeases

(* What an answer of the journal leaves there.                             *)
LEMMA AnsweredJournal ==
  ASSUME NEW e \in Executors, NEW r, NEW label, Answered(e, r, label), r.j \in Journals
  PROVE  SameLeases(r.j, journal')
<1>1. journal' = r.j \/ journal' = Abandoned(r.j, {e})
  BY DEF Answered, Dies, Down
<1>2. Orphans(r.j, Abandoned(r.j, {e}), {e})
  BY AbandonedOrphans
<1>. QED
  BY <1>1, <1>2, OrphansLimits DEF SameLeases

(* host-agent.json is within the limits of its reader, but for one receipt. *)
JournalFits == OneTooMany(journal)

LEMMA ReadableFits == ASSUME NEW j, Readable(j) PROVE OneTooMany(j)
<1>1. Cardinality(Held(j)) <= MaxAccepted /\ Cardinality(Saved(j)) <= MaxReceipts /\ Marked(j)
  BY ReadableIs
<1>2. Cardinality(Saved(j)) <= MaxReceipts + 1
  BY <1>1, JournalFinite, JournalAssumption
<1>. QED
  BY <1>1, <1>2 DEF OneTooMany

LEMMA ExecutorJournal ==
  ASSUME IInv, NEW e \in Executors, Executor(e)
  PROVE  \/ SameLeases(journal, journal')
         \/ Readable(journal) /\ Readable(journal')
         \/ Readable(journal) /\ OneTooMany(journal') /\ (FinishLease(e) \/ RecoverLease(e))
<1> DEFINE l == lease[e]
<1>1. ASSUME NEW r, NEW label, Answered(e, r, label), r.j \in Journals
      PROVE  /\ r.j = journal => SameLeases(journal, journal')
             /\ Readable(r.j) => Readable(journal')
             /\ OneTooMany(r.j) => OneTooMany(journal')
  BY <1>1, AnsweredJournal, SameLeasesLimits
<1>2. journal' = journal => SameLeases(journal, journal')
  BY DEF SameLeases
<1>3. pc[e] \in Working => /\ l # NoLease /\ l \in Lease /\ journal \in Journals /\ now \in Nat
                           /\ JournalOK(journal, rec, gen)
  BY WorkingLease
<1>4. {"leased", "recovering", "ready", "effect", "finishing"} \subseteq Working
  BY DEF Working
<1>5. CASE AcceptLease(e)
  <2> DEFINE r == Accept(journal, l, now)
  <2>1. Answered(e, r, "recovering") /\ pc[e] = "leased"
    BY <1>5 DEF AcceptLease
  <2>2. r.j \in Journals
    BY <1>3, <1>4, <2>1, AcceptTurns DEF Turns
  <2>3. Readable(journal) => Readable(r.j)
    BY <1>3, <1>4, <2>1, AcceptReadable
  <2>4. ~ Readable(journal) => r.j = journal
    BY DEF Accept, Refused
  <2> HIDE DEF r
  <2>. QED
    BY <1>1, <2>1, <2>2, <2>3, <2>4
<1>6. CASE RecoverLease(e)
  <2> DEFINE r == Recover(journal, l, now)
             label == IF l.op \in Mutating THEN "ready" ELSE "effect"
  <2>1. Answered(e, r, label) /\ pc[e] = "recovering"
    BY <1>6 DEF RecoverLease
  <2>2. r.j \in Journals
    BY <1>3, <1>4, <2>1, RecoverTurns DEF Turns
  <2>3. Readable(journal) => Readable(r.j) \/ OneTooMany(r.j)
    BY <1>3, <1>4, <2>1, RecoverOne
  <2>4. ~ Readable(journal) => r.j = journal
    BY DEF Recover, Refused
  <2> HIDE DEF r, label
  <2>. QED
    BY <1>1, <1>6, <2>1, <2>2, <2>3, <2>4
<1>7. CASE Claim(e)
  <2> DEFINE r == BeginEffect(journal, l, e)
  <2>1. Answered(e, r, "effect") /\ pc[e] = "ready"
    BY <1>7 DEF Claim
  <2>2. r.j \in Journals
    BY <1>3, <1>4, <2>1, BeginEffectTurns DEF Turns
  <2>3. SameLeases(journal, r.j) /\ SameLeases(r.j, journal')
    BY <1>3, <1>4, <2>1, <2>2, BeginEffectLimits, AnsweredJournal
  <2> HIDE DEF r
  <2>. QED
    BY <2>3 DEF SameLeases
<1>8. CASE FinishLease(e)
  <2> DEFINE claim == IF l.op \in Mutating THEN e ELSE "none"
             st == receipt[e].state
             r == Finish(journal, l, claim, st)
  <2>1. Answered(e, r, "report") /\ pc[e] = "finishing"
    BY <1>8 DEF FinishLease
  <2>2. Truthful(l, st, effects) /\ st \in Known
    BY <2>1 DEF IInv, World, ClaimsOK, ClaimOK, Truthful
  <2>3. r.j \in Journals
    <3> HIDE DEF claim, st, l
    <3>. QED
      BY <1>3, <1>4, <2>1, <2>2, FinishTurns DEF Turns
  <2>4. Readable(journal) => Readable(r.j) \/ OneTooMany(r.j)
    BY <1>3, <1>4, <2>1, <2>2, FinishOne
  <2>5. ~ Readable(journal) => r.j = journal
    BY DEF Finish, Refused
  <2> HIDE DEF r, st, claim
  <2>. QED
    BY <1>1, <1>8, <2>1, <2>3, <2>4, <2>5
<1>9. CASE Crash(e)
  <2>1. journal' = Abandoned(journal, {e}) /\ journal \in Journals
    BY <1>9 DEF Crash, Dies, Down, IInv, TypeOK
  <2>. QED
    BY <2>1, AbandonedOrphans, OrphansLimits
<1>10. CASE ~ (AcceptLease(e) \/ RecoverLease(e) \/ Claim(e) \/ FinishLease(e) \/ Crash(e))
  <2>1. journal' = journal
    BY <1>10 DEF Executor, Connect, Poll, PollRefused, PollAnswered, PollAnswerLost, PollFails,
                 LeaseIsOver, Dispatch, Report, Start, AtTheMaster
  <2>. QED
    BY <1>2, <2>1
<1>. QED
  BY <1>5, <1>6, <1>7, <1>8, <1>9, <1>10

LEMMA JournalStep ==
  ASSUME IInv, [Next]_vars
  PROVE  \/ SameLeases(journal, journal')
         \/ Readable(journal) /\ Readable(journal')
         \/ /\ Readable(journal) /\ OneTooMany(journal')
            /\ \E e \in Executors : FinishLease(e) \/ RecoverLease(e)
<1>1. CASE \E e \in Executors : Executor(e)
  BY <1>1, ExecutorJournal
<1>2. CASE Boot
  <2>1. journal \in Journals /\ journal' = Abandoned(Rebooted(journal), Executors)
    BY <1>2 DEF Boot, Down, IInv, TypeOK
  <2>2. Orphans(journal, Rebooted(journal), Executors) /\ Rebooted(journal) \in Journals
    BY <2>1, RebootedOrphans DEF Orphans
  <2>3. Orphans(Rebooted(journal), journal', Executors)
    BY <2>1, <2>2, AbandonedOrphans
  <2>4. SameLeases(journal, Rebooted(journal)) /\ SameLeases(Rebooted(journal), journal')
    BY <2>2, <2>3, OrphansLimits
  <2>. QED
    BY <2>4 DEF SameLeases
<1>3. CASE Master \/ Configure \/ UNCHANGED vars
  <2>1. journal' = journal
    BY <1>3 DEF Master, AtTheMaster, Configure, vars, agentVars
  <2>. QED
    BY <2>1 DEF SameLeases
<1>. QED
  BY <1>1, <1>2, <1>3 DEF Next

(* How far the journal can leave what its reader accepts: by one receipt.  *)
(* accept keeps max_accepted, and no lease gets above the high-water marks *)
(* by any operation of the journal.                                        *)
THEOREM JournalLimits == Spec => []JournalFits
<1>1. Init => JournalFits
  <2> SUFFICES ASSUME Init PROVE Readable(journal)
    BY ReadableFits DEF JournalFits
  <2>1. /\ journal.accepted = [o \in Ops |-> NotAccepted]
        /\ journal.receipts = [o \in Ops |-> NoReceipt]
        /\ journal.hiGen = 0 /\ journal.hiEpoch = 0
    BY DEF Init, EmptyJournal, Journal
  <2>2. NotAccepted.lease = NoLease /\ NoReceipt.lease = NoLease
    BY DEF NotAccepted, NoReceipt
  <2>3. Held(journal) = {} /\ Saved(journal) = {}
    BY <2>1, <2>2 DEF Held, Saved
  <2>4. Marked(journal)
    BY <2>1, <2>2 DEF Marked, NoLease
  <2>. QED
    BY <2>3, <2>4, ReadableIs, FS_EmptySet, JournalAssumption
<1>2. JournalFits /\ IInv /\ [Next]_vars => JournalFits'
  BY JournalStep, SameLeasesLimits, ReadableFits DEF JournalFits
<1>. QED
  BY <1>1, <1>2, HostInvariant, PTL DEF Spec

(* The only steps that leave the journal unreadable: a receipt written by  *)
(* finish, or by recover for a claim found abandoned.                      *)
BreaksAtAReceipt ==
  [][Readable(journal) /\ ~ Readable(journal') =>
       \E e \in Executors : FinishLease(e) \/ RecoverLease(e)]_vars

(* Of all operations of the journal only _finish_locked, called by finish  *)
(* or recover, makes it one that _read_locked refuses: accept with its     *)
(* reclaiming and pruning, begin_effect, crashes and boots never do.       *)
THEOREM JournalBreaksAtAReceipt == Spec => BreaksAtAReceipt
<1>1. ASSUME IInv, [Next]_vars
      PROVE  [Readable(journal) /\ ~ Readable(journal') =>
                \E e \in Executors : FinishLease(e) \/ RecoverLease(e)]_vars
  BY <1>1, JournalStep, SameLeasesLimits
<1>. QED
  BY <1>1, HostInvariant, PTL DEF Spec, BreaksAtAReceipt
=============================================================================
