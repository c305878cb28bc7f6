--------------------------- MODULE BusStoreProofs ---------------------------
(***************************************************************************)
(* IInv is inductive: for any producers, groups, partitions and retention  *)
(* runs, no cursor of the bus store passes an event silently, effects are  *)
(* applied in order and a bounded number of times, the cursor that lags    *)
(* behind a compaction knows its gap, bodies follow their events, and the  *)
(* producers' order is kept.                                               *)
(***************************************************************************)
EXTENDS BusStore, FiniteSetTheorems, WellFoundedInduction, TLAPS

Row == [req : Requests, at : Nat]
Gap == [from : Nat, through : Nat]
Cursor == [gen : Generations, acked : Nat, gap : Gap \cup {None}, opened : Nat]
Lease == [tok : Nat, from : Nat, through : Nat, expires : Nat]
Effect == [state : {"none", "pending", "committed", "dead"}, digest : Digests \cup {None},
           attempts : Nat, retry : Nat, tok : Nat]

(* The tables of the store, with the rows their columns may hold.          *)
TypeOK ==
  /\ now \in Nat /\ tokens \in Nat
  /\ log \in [Partitions -> Seq(Row)]
  /\ first \in [Partitions -> Nat \ {0}]
  /\ last \in [Producers -> Nat]
  /\ payloads \in [Payloads -> {"absent", "present", "reference", "expired"}]
  /\ cursors \in [Groups \X Partitions -> Cursor \cup {None}]
  /\ leases \in [Groups \X Partitions -> Lease \cup {None}]
  /\ effects \in [Groups \X Requests -> Effect]
  /\ applied \in [Groups \X Requests -> Nat]
  /\ snapshots \in [Partitions -> SUBSET [through : Nat, body : Bodies]]
  /\ checkpoints \in [Partitions -> SUBSET Runs]
  /\ \A p \in Partitions : IsFiniteSet(checkpoints[p])

LogOK ==
  \A p \in Partitions :
    /\ first[p] <= Len(log[p]) + 1
    /\ \A i \in 1 .. Len(log[p]) : Event(p, i).part = p

(* A cursor stands within the log. If it stands before the retained rows,  *)
(* it knows the gap, or was opened since they last moved.                  *)
CursorOK(g, p) ==
  LET r == cursors[<<g, p>>] IN
  r # None =>
    /\ r.acked <= Len(log[p])
    /\ (r.acked + 1 < first[p] /\ r.gap = None) =>
         r.opened = first[p] /\ r.acked = 0 /\ leases[<<g, p>>] = None
    /\ r.gap # None =>
         /\ leases[<<g, p>>] = None
         /\ r.gap.from = r.acked + 1 /\ r.gap.from <= r.gap.through /\ r.gap.through + 1 = first[p]
         /\ \E s \in snapshots[p] : s.through = r.gap.through

(* A lease covers retained rows right behind its cursor.                   *)
LeaseOK(g, p) ==
  LET l == leases[<<g, p>>] IN
  l # None =>
    /\ cursors[<<g, p>>] # None
    /\ l.tok \in 1 .. tokens
    /\ l.from = cursors[<<g, p>>].acked + 1
    /\ first[p] <= l.from /\ l.from <= l.through /\ l.through <= Len(log[p])

(* Behind a cursor.                                                        *)
SkipOK(g, p, i) ==
  \/ effects[<<g, Event(p, i)>>].state = "committed"
  \/ effects[<<g, Event(p, i)>>].state = "dead" /\ ~ Event(p, i).blocking
  \/ i < first[p] /\ \E s \in snapshots[p] : s.through >= i

ConsumerOK(g, p) ==
  /\ CursorOK(g, p) /\ LeaseOK(g, p)
  /\ cursors[<<g, p>>] # None => \A i \in 1 .. cursors[<<g, p>>].acked : SkipOK(g, p, i)

ConsumersOK == \A g \in Groups, p \in Partitions : ConsumerOK(g, p)

EffectOK(g, e) ==
  LET f == effects[<<g, e>>] IN
  /\ f.tok <= tokens
  /\ f.state = "none" => f.attempts = 0 /\ f.tok = 0
  /\ f.state \in {"pending", "committed"} => f.attempts < MaxAttempts
  /\ f.state = "dead" => f.attempts = MaxAttempts /\ <<g, e>> \in letters

EffectsOK == \A g \in Groups, e \in Requests : EffectOK(g, e)

(* The event at i is bound to the lease of g: begun with its token.        *)
Bound(g, p, e) ==
  /\ leases[<<g, p>>] # None /\ e.part = p
  /\ effects[<<g, e>>].state = "pending" /\ effects[<<g, e>>].tok = leases[<<g, p>>].tok

Settled(g, e) == effects[<<g, e>>].state \in {"committed", "dead"}

(* What is bound to a lease, expired or not, lies in it, and everything    *)
(* before it in the lease is settled; so it is one effect at most.         *)
BoundInLease(g, p, e) ==
  \E i \in leases[<<g, p>>].from .. leases[<<g, p>>].through :
    /\ Event(p, i) = e
    /\ \A j \in leases[<<g, p>>].from .. i - 1 : Settled(g, Event(p, j))

BoundAt(g, p) ==
  \A e \in Requests : Bound(g, p, e) =>
    /\ BoundInLease(g, p, e)
    /\ \A d \in Requests : Bound(g, p, d) => d = e

BoundOK == \A g \in Groups, p \in Partitions : BoundAt(g, p)

(* A pending effect whose lease was taken away by a compaction: the next   *)
(* begin_effect hands it out again, and no attempt was counted.            *)
Lost(g, e) ==
  /\ effects[<<g, e>>].state = "pending" /\ effects[<<g, e>>].tok # 0
  /\ ~ Bound(g, e.part, e)

Open(g, e) ==
  \/ effects[<<g, e>>].state = "committed"
  \/ effects[<<g, e>>].state = "pending" /\ effects[<<g, e>>].tok # 0

LostCount(g, e) == IF Lost(g, e) THEN 1 ELSE 0
OpenCount(g, e) == IF Open(g, e) THEN 1 ELSE 0

(* Every answer "apply" is an attempt, or is open, or was lost with a      *)
(* compaction.                                                             *)
AttemptsOf(g, e) ==
  /\ applied[<<g, e>>] + LostCount(g, e)
       <= effects[<<g, e>>].attempts + OpenCount(g, e) + Cardinality(checkpoints[e.part])
  /\ checkpoints[e.part] = {} =>
       applied[<<g, e>>] = effects[<<g, e>>].attempts + OpenCount(g, e) /\ LostCount(g, e) = 0

AttemptsOK == \A g \in Groups, e \in Requests : AttemptsOf(g, e)

BodyOK(b) ==
  /\ \A q \in Partitions : \A i \in Rows(q) :
       Event(q, i).payload = b /\ ~ Elapsed(log[q][i], PayloadKeep) => payloads[b] = "present"
  /\ payloads[b] = "present" =>
       \E q \in Partitions : \E i \in Rows(q) : Event(q, i).payload = b

BodiesOK == \A b \in Payloads \cap Managed : BodyOK(b)

IInv ==
  /\ TypeOK /\ LogOK /\ ProducerOrder
  /\ ConsumersOK
  /\ EffectsOK /\ BoundOK /\ AttemptsOK
  /\ BodiesOK

-----------------------------------------------------------------------------
(* Bounded sets of numbers have a least and a greatest element *)

LEMMA MinExists ==
  ASSUME NEW S, S \subseteq Nat, S # {}
  PROVE  \E x \in S : \A y \in S : x <= y
<1> DEFINE R == {ss \in Nat \X Nat : ss[1] < ss[2]}
<1>1. IsWellFoundedOn(R, Nat)
  BY NatLessThanWellFounded, Zenon DEF OpToRel
<1> HIDE DEF R
<1>2. PICK x \in S : \A y \in S : ~ (<<y, x>> \in R)
  BY <1>1, WFMin
<1>3. ASSUME NEW y \in S PROVE x <= y
  <2>1. \A m, n \in Nat : m < n => <<m, n>> \in R
    BY DEF R
  <2>2. y \in Nat /\ x \in Nat /\ ~ (<<y, x>> \in R)
    BY <1>2, Zenon
  <2>3. ~ (y < x)
    BY <2>1, <2>2, Zenon
  <2>. QED
    BY <2>2, <2>3
<1>. QED
  BY <1>3

LEMMA MaxExists ==
  ASSUME NEW b \in Nat, NEW S, S \subseteq 0 .. b, S # {}
  PROVE  Max(S) \in S /\ \A y \in S : Max(S) >= y
<1> DEFINE T == {n \in Nat : b - n \in S}
<1>1. T \subseteq Nat /\ T # {}
  <2>1. PICK x \in S : TRUE
    OBVIOUS
  <2>2. b - x \in T
    BY <2>1
  <2>. QED
    BY <2>2
<1> HIDE DEF T
<1>2. PICK m \in T : \A y \in T : m <= y
  BY <1>1, MinExists
<1>3. b - m \in S
  BY <1>2 DEF T
<1>4. ASSUME NEW y \in S PROVE b - m >= y
  <2>1. b - y \in T
    BY <1>4 DEF T
  <2>. QED
    BY <1>2, <1>3, <2>1 DEF T
<1>. QED
  BY <1>3, <1>4 DEF Max

-----------------------------------------------------------------------------
(* The operators of the model *)

LEMMA NoneFacts ==
  /\ None \notin Lease /\ None \notin Cursor /\ None \notin Gap
  BY DEF None, Lease, Cursor, Gap

LEMMA CursorUpdates ==
  ASSUME NEW r \in Cursor, NEW n, NEW x
  PROVE  /\ [r EXCEPT !.acked = n] =
              [gen |-> r.gen, acked |-> n, gap |-> r.gap, opened |-> r.opened]
         /\ [r EXCEPT !.gap = x] =
              [gen |-> r.gen, acked |-> r.acked, gap |-> x, opened |-> r.opened]
<1>1. r = [gen |-> r.gen, acked |-> r.acked, gap |-> r.gap, opened |-> r.opened]
  BY DEF Cursor
<1>2. [r EXCEPT !.acked = n] =
        [gen |-> r.gen, acked |-> n, gap |-> r.gap, opened |-> r.opened]
  BY <1>1
<1>3. [r EXCEPT !.gap = x] =
        [gen |-> r.gen, acked |-> r.acked, gap |-> x, opened |-> r.opened]
  BY <1>1
<1>. QED
  BY <1>2, <1>3

LEMMA EffectUpdates ==
  ASSUME NEW f \in Effect, NEW tok \in Nat
  PROVE  /\ LET x == [f EXCEPT !.state = "committed", !.retry = 0]
            IN  /\ x \in Effect /\ x.state = "committed" /\ x.digest = f.digest
                /\ x.attempts = f.attempts /\ x.tok = f.tok
         /\ LET x == [f EXCEPT !.retry = 0, !.tok = tok]
            IN  /\ x \in Effect /\ x.state = f.state /\ x.digest = f.digest
                /\ x.attempts = f.attempts /\ x.tok = tok
  BY DEF Effect

LEMMA AttemptedFacts ==
  ASSUME NEW f \in Effect, f.attempts < MaxAttempts, NEW tok \in Nat, now \in Nat
  PROVE  LET a == Attempted(f, tok) IN
         /\ a \in Effect /\ a.digest = f.digest /\ a.attempts = f.attempts + 1
         /\ \/ a.state = f.state /\ a.tok = 0 /\ a.attempts < MaxAttempts
            \/ a.state = "dead" /\ a.tok = tok /\ a.attempts = MaxAttempts
<1> USE BusAssumption
<1>1. f = [state |-> f.state, digest |-> f.digest, attempts |-> f.attempts,
           retry |-> f.retry, tok |-> f.tok]
  BY DEF Effect
<1>2. CASE f.attempts + 1 < MaxAttempts
  <2>1. Attempted(f, tok) =
          [state |-> f.state, digest |-> f.digest, attempts |-> f.attempts + 1,
           retry |-> now + Backoff[f.attempts + 1], tok |-> 0]
    BY <1>1, <1>2 DEF Attempted
  <2>2. Backoff[f.attempts + 1] \in Nat
    BY <1>2 DEF Effect
  <2>. QED
    BY <1>2, <2>1, <2>2 DEF Effect
<1>3. CASE ~ (f.attempts + 1 < MaxAttempts)
  <2>1. Attempted(f, tok) =
          [state |-> "dead", digest |-> f.digest, attempts |-> MaxAttempts,
           retry |-> 0, tok |-> tok]
    BY <1>1, <1>3 DEF Attempted
  <2>. QED
    BY <1>3, <2>1 DEF Effect
<1>. QED
  BY <1>2, <1>3

LEMMA DueThroughFacts ==
  ASSUME TypeOK, NEW p \in Partitions, NEW watermark \in Nat
  PROVE  LET through == DueThrough(p, watermark) IN
         \/ through = first[p] - 1
         \/ /\ through \in first[p] .. watermark
            /\ \A i \in first[p] .. through : Elapsed(log[p][i], HeaderKeep)
<1> DEFINE S == {first[p] - 1} \cup
                {n \in first[p] .. watermark :
                   \A i \in first[p] .. n : Elapsed(log[p][i], HeaderKeep)}
           b == first[p] + watermark
<1>1. first[p] \in Nat \ {0}
  BY DEF TypeOK
<1>2. b \in Nat /\ S \subseteq 0 .. b /\ S # {}
  BY <1>1
<1>3. Max(S) \in S
  BY <1>2, MaxExists
<1>. QED
  BY <1>3 DEF DueThrough

LEMMA BatchFacts ==
  ASSUME NEW g, NEW p, NEW from \in Nat, NEW eff, NEW n \in BatchLengths(g, p, from, eff)
  PROVE  n \in 0 .. MaxBatch /\ \A i \in from .. from + n - 1 : i \in Rows(p)
<1> DEFINE ok(m) == \A i \in from .. from + m - 1 :
                      /\ i \in Rows(p)
                      /\ LET f == eff[<<g, Event(p, i)>>]
                         IN  ~ (f.state = "pending" /\ now < f.retry)
           S == {m \in 0 .. MaxBatch : ok(m)}
<1>1. S \subseteq 0 .. MaxBatch
  OBVIOUS
<1>2. n \in IF Max(S) = 0 THEN {0} ELSE 1 .. Max(S)
  BY DEF BatchLengths
<1>3. ok(0)
  <2>1. from .. from + 0 - 1 = {}
    OBVIOUS
  <2>. QED
    BY <2>1
<1>4. 0 \in S
  BY <1>3, BusAssumption
<1> HIDE DEF S
<1>5. Max(S) \in S
  BY <1>1, <1>4, MaxExists, BusAssumption
<1>6. n \in 0 .. MaxBatch /\ n <= Max(S) /\ Max(S) \in Nat
  <2>1. Max(S) \in 0 .. MaxBatch /\ MaxBatch \in Nat
    BY <1>1, <1>5, BusAssumption
  <2> DEFINE m == Max(S)
  <2>2. m \in 0 .. MaxBatch /\ n \in IF m = 0 THEN {0} ELSE 1 .. m
    BY <1>2, <2>1
  <2> HIDE DEF m
  <2>3. n \in 0 .. MaxBatch /\ n <= m /\ m \in Nat
    BY <2>1, <2>2
  <2>. QED
    BY <2>3 DEF m
<1>7. \A i \in from .. from + Max(S) - 1 : i \in Rows(p)
  BY <1>5 DEF S
<1>. QED
  BY <1>6, <1>7

LEMMA InitIInv == Init => IInv
<1> SUFFICES ASSUME Init PROVE IInv
  OBVIOUS
<1> USE BusAssumption DEF Init
<1>1. TypeOK
  <2>1. NoEffect \in Effect
    BY DEF NoEffect, Effect
  <2>. QED
    BY <2>1, FS_EmptySet DEF TypeOK
<1>2. LogOK /\ ConsumersOK
  BY DEF LogOK, ConsumersOK, ConsumerOK, CursorOK, LeaseOK
<1>3. ProducerOrder
  <2>1. Accepted = {}
    BY DEF Accepted
  <2>. QED
    BY <2>1 DEF ProducerOrder
<1>4. EffectsOK /\ BoundOK
  BY DEF EffectsOK, EffectOK, BoundOK, BoundAt, Bound, NoEffect
<1>5. AttemptsOK
  <2> SUFFICES ASSUME NEW g \in Groups, NEW e \in Requests
               PROVE  AttemptsOf(g, e)
    BY DEF AttemptsOK
  <2>1. /\ OpenCount(g, e) = 0 /\ LostCount(g, e) = 0
        /\ applied[<<g, e>>] = 0 /\ effects[<<g, e>>].attempts = 0
        /\ Cardinality(checkpoints[e.part]) = 0
    BY FS_EmptySet DEF Open, Lost, NoEffect, OpenCount, LostCount
  <2> HIDE DEF Init
  <2>. QED
    BY <2>1 DEF AttemptsOf
<1>6. BodiesOK
  BY DEF BodiesOK, BodyOK, Rows
<1>. QED
  BY <1>1, <1>2, <1>3, <1>4, <1>5, <1>6 DEF IInv

-----------------------------------------------------------------------------
(* Every action preserves IInv *)

(* What the parts of IInv other than BodiesOK depend on.                   *)
core == <<log, last, first, payloads, cursors, leases, effects, letters, tokens, applied,
          snapshots, checkpoints>>

LEMMA CoreUnchanged ==
  ASSUME IInv, now' \in Nat, UNCHANGED core
  PROVE  /\ TypeOK' /\ LogOK' /\ ProducerOrder' /\ ConsumersOK'
         /\ EffectsOK' /\ BoundOK' /\ AttemptsOK'
<1> USE DEF IInv, core
<1>1. TypeOK'
  BY DEF TypeOK
<1>2. LogOK' /\ ConsumersOK'
  <2>1. LogOK'
    BY DEF LogOK, Event
  <2>2. ASSUME NEW g \in Groups, NEW p \in Partitions
        PROVE  ConsumerOK(g, p)' <=> ConsumerOK(g, p)
    BY DEF ConsumerOK, CursorOK, LeaseOK, SkipOK, Event
  <2>. QED
    BY <2>1, <2>2 DEF ConsumersOK
<1>3. ProducerOrder'
  BY DEF ProducerOrder, Accepted, Event
<1>4. EffectsOK'
  BY DEF EffectsOK, EffectOK
<1>5. BoundOK'
  <2>1. ASSUME NEW g \in Groups, NEW p \in Partitions, NEW e \in Requests
        PROVE  /\ Bound(g, p, e)' <=> Bound(g, p, e)
               /\ BoundInLease(g, p, e)' <=> BoundInLease(g, p, e)
    BY DEF Bound, BoundInLease, Settled, Event
  <2>. QED
    BY <2>1 DEF BoundOK, BoundAt
<1>6. AttemptsOK'
  <2>1. ASSUME NEW g \in Groups, NEW e \in Requests
        PROVE  AttemptsOf(g, e)' <=> AttemptsOf(g, e)
    BY DEF AttemptsOf, OpenCount, LostCount, Open, Lost, Bound
  <2>. QED
    BY <2>1 DEF AttemptsOK
<1>. QED
  BY <1>1, <1>2, <1>3, <1>4, <1>5, <1>6

LEMMA StutterIInv ==
  ASSUME IInv, UNCHANGED core, now' = now
  PROVE  IInv'
<1>1. BodiesOK'
  BY DEF IInv, core, BodiesOK, BodyOK, Rows, Event, Elapsed
<1>. QED
  BY <1>1, CoreUnchanged DEF IInv, TypeOK

LEMMA TickIInv ==
  ASSUME IInv, Tick
  PROVE  IInv'
<1>1. UNCHANGED core /\ now' = now + 1 /\ now \in Nat
  BY DEF IInv, TypeOK, Tick, core, producerVars, consumerVars, retentionVars
<1>2. \A p \in Partitions : \A i \in Rows(p) :
        Elapsed(log[p][i], PayloadKeep) => Elapsed(log[p][i], PayloadKeep)'
  <2> SUFFICES ASSUME NEW p \in Partitions, NEW i \in Rows(p), Elapsed(log[p][i], PayloadKeep)
               PROVE  Elapsed(log[p][i], PayloadKeep)'
    OBVIOUS
  <2>1. log[p][i] \in Row
    BY DEF IInv, TypeOK, LogOK, Rows
  <2>2. log[p][i].at \in Nat /\ PayloadKeep[log[p][i].req.class] \in Nat
    BY <2>1, BusAssumption DEF Row, Elapsed
  <2>. QED
    BY <1>1, <2>2 DEF Elapsed, core
<1>3. BodiesOK'
  BY <1>1, <1>2 DEF IInv, BodiesOK, BodyOK, core, Rows, Event
<1>. QED
  BY <1>1, <1>3, CoreUnchanged DEF IInv

(* append: the row comes behind the others, which stay where they are.     *)
LEMMA AppendFacts ==
  ASSUME IInv, NEW r \in Requests, AppendEvent(r)
  PROVE  /\ log' \in [Partitions -> Seq(Row)]
         /\ \A p \in Partitions : \A i \in 1 .. Len(log[p]) : log'[p][i] = log[p][i]
         /\ \A p \in Partitions : p # r.part => log'[p] = log[p]
         /\ Len(log'[r.part]) = Len(log[r.part]) + 1
         /\ log'[r.part][Len(log[r.part]) + 1] = [req |-> r, at |-> now]
<1>1. log \in [Partitions -> Seq(Row)] /\ r.part \in Partitions /\ [req |-> r, at |-> now] \in Row
  BY BusAssumption DEF IInv, TypeOK, Row
<1>2. log' = [log EXCEPT ![r.part] = Append(@, [req |-> r, at |-> now])]
  BY DEF AppendEvent
<1>. QED
  BY <1>1, <1>2

LEMMA AppendEventIInv ==
  ASSUME IInv, NEW r \in Requests, AppendEvent(r)
  PROVE  IInv'
<1> DEFINE k == Len(log[r.part]) + 1
<1>1. /\ log' \in [Partitions -> Seq(Row)]
      /\ \A p \in Partitions : \A i \in 1 .. Len(log[p]) : log'[p][i] = log[p][i]
      /\ \A p \in Partitions : p # r.part => log'[p] = log[p]
      /\ Len(log'[r.part]) = k
      /\ log'[r.part][k] = [req |-> r, at |-> now]
  BY AppendFacts
<1> HIDE DEF k
<1>2. /\ log' \in [Partitions -> Seq(Row)] /\ log \in [Partitions -> Seq(Row)]
      /\ r.part \in Partitions /\ r.seq \in Nat
      /\ \A p \in Partitions : Len(log[p]) \in Nat /\ DOMAIN log[p] = 1 .. Len(log[p])
      /\ \A p \in Partitions : Len(log'[p]) \in Nat /\ DOMAIN log'[p] = 1 .. Len(log'[p])
      /\ \A p \in Partitions : p # r.part => Len(log'[p]) = Len(log[p])
      /\ Len(log'[r.part]) = k /\ k = Len(log[r.part]) + 1
  BY <1>1, BusAssumption DEF IInv, TypeOK, k
<1>3. /\ \A p \in Partitions : \A i \in 1 .. Len(log[p]) :
           Event(p, i)' = Event(p, i) /\ log'[p][i].req = log[p][i].req
      /\ log'[r.part][k].req = r
      /\ \A p \in Partitions : Len(log[p]) <= Len(log'[p])
      /\ \A p \in Partitions : \A i \in 1 .. Len(log'[p]) :
           i \in 1 .. Len(log[p]) \/ (p = r.part /\ i = k)
  <2>1. \A p \in Partitions : \A i \in 1 .. Len(log[p]) :
           Event(p, i)' = Event(p, i) /\ log'[p][i].req = log[p][i].req
    BY <1>1 DEF Event
  <2>2. log'[r.part][k].req = r
    BY <1>1
  <2>3. \A p \in Partitions : Len(log[p]) <= Len(log'[p])
    BY <1>2
  <2>4. ASSUME NEW p \in Partitions, NEW i \in 1 .. Len(log'[p])
        PROVE  i \in 1 .. Len(log[p]) \/ (p = r.part /\ i = k)
    BY <1>2
  <2>. QED
    BY <2>1, <2>2, <2>3, <2>4
<1>4. /\ r.seq = last[r.prod] + 1 /\ last' = [last EXCEPT ![r.prod] = r.seq]
      /\ payloads' = [payloads EXCEPT ![r.payload] = Stored(r.payload)]
      /\ UNCHANGED <<now, cursors, leases, effects, letters, tokens, applied,
                     first, snapshots, checkpoints>>
  BY DEF AppendEvent, CanAppend, consumerVars, retentionVars
<1>5. TypeOK'
  BY <1>2, <1>4 DEF IInv, TypeOK, Stored
<1>6. LogOK'
  <2> SUFFICES ASSUME NEW p \in Partitions
               PROVE  /\ first'[p] <= Len(log'[p]) + 1
                      /\ \A i \in 1 .. Len(log'[p]) : log'[p][i].req.part = p
    BY DEF LogOK, Event
  <2>1. first'[p] <= Len(log'[p]) + 1
    BY <1>2, <1>3, <1>4 DEF IInv, TypeOK, LogOK
  <2>2. ASSUME NEW i \in 1 .. Len(log'[p]) PROVE log'[p][i].req.part = p
    BY <1>3 DEF IInv, LogOK, Event
  <2>. QED
    BY <2>1, <2>2
<1>7. ProducerOrder'
  <2>1. \A q : q \in Accepted' <=> q \in Accepted \/ q = r
    <3>1. ASSUME NEW q \in Accepted'
          PROVE  q \in Accepted \/ q = r
      <4>1. PICK p \in Partitions : \E i \in 1 .. Len(log'[p]) : log'[p][i].req = q
        BY <1>2 DEF Accepted, Event
      <4>2. PICK i \in 1 .. Len(log'[p]) : log'[p][i].req = q
        BY <4>1
      <4>3. CASE i \in 1 .. Len(log[p])
        <5>1. log[p][i].req = q
          BY <1>3, <4>2, <4>3
        <5>. QED
          BY <1>2, <4>3, <5>1 DEF Accepted, Event
      <4>4. CASE p = r.part /\ i = k
        BY <1>3, <4>2, <4>4
      <4>. QED
        BY <1>3, <4>3, <4>4
    <3>2. ASSUME NEW q \in Accepted
          PROVE  q \in Accepted'
      <4>1. PICK p \in Partitions : \E i \in 1 .. Len(log[p]) : log[p][i].req = q
        BY <1>2 DEF Accepted, Event
      <4>2. PICK i \in 1 .. Len(log[p]) : log[p][i].req = q
        BY <4>1
      <4>3. i \in 1 .. Len(log'[p]) /\ log'[p][i].req = q
        BY <1>2, <1>3, <4>2
      <4>. QED
        BY <1>2, <4>3 DEF Accepted, Event
    <3>3. r \in Accepted'
      <4>1. k \in 1 .. Len(log'[r.part])
        BY <1>2
      <4>. QED
        BY <1>2, <1>3, <4>1 DEF Accepted, Event
    <3>. QED
      BY <3>1, <3>2, <3>3
  <2>2. ASSUME NEW a \in Producers
        PROVE  {q.seq : q \in {x \in Accepted' : x.prod = a}} = 1 .. last'[a]
    <3>1. {q.seq : q \in {x \in Accepted : x.prod = a}} = 1 .. last[a]
      BY DEF IInv, ProducerOrder
    <3>2. last[a] \in Nat /\ last \in [Producers -> Nat]
      BY DEF IInv, TypeOK
    <3>3. CASE a = r.prod
      <4>1. {q.seq : q \in {x \in Accepted' : x.prod = a}}
              = {q.seq : q \in {x \in Accepted : x.prod = a}} \cup {r.seq}
        BY <2>1, <3>3
      <4>2. last'[a] = last[a] + 1 /\ r.seq = last[a] + 1
        BY <1>4, <3>2, <3>3
      <4>3. 1 .. (last[a] + 1) = (1 .. last[a]) \cup {last[a] + 1}
        BY <3>2
      <4>. QED
        BY <3>1, <4>1, <4>2, <4>3
    <3>4. CASE a # r.prod
      BY <1>4, <2>1, <3>1, <3>4 DEF IInv, TypeOK
    <3>. QED
      BY <3>3, <3>4
  <2>3. ASSUME NEW p \in Partitions, NEW i \in DOMAIN log'[p], NEW j \in DOMAIN log'[p],
               i < j, log'[p][i].req.prod = log'[p][j].req.prod
        PROVE  log'[p][i].req.seq < log'[p][j].req.seq
    <3>1. i \in 1 .. Len(log[p])
      BY <1>2, <1>3, <2>3
    <3>2. CASE j \in 1 .. Len(log[p])
      BY <1>2, <1>3, <2>3, <3>1, <3>2 DEF IInv, ProducerOrder, Event
    <3>3. CASE j = k /\ p = r.part
      <4>1. Event(p, i) \in Accepted /\ Event(p, i).prod = r.prod /\ r.prod \in Producers
        <5>1. Event(p, i) \in Accepted
          BY <1>2, <3>1 DEF Accepted
        <5>2. Event(p, i).prod = r.prod
          BY <1>3, <2>3, <3>1, <3>3 DEF Event
        <5>. QED
          BY <5>1, <5>2 DEF Producers
      <4>2. Event(p, i).seq \in 1 .. last[r.prod]
        BY <4>1 DEF IInv, ProducerOrder
      <4>3. last[r.prod] \in Nat
        BY <4>1 DEF IInv, TypeOK
      <4>4. Event(p, i).seq < r.seq
        BY <1>4, <4>2, <4>3
      <4>. QED
        BY <1>3, <3>1, <3>3, <4>4 DEF Event
    <3>. QED
      BY <1>2, <1>3, <2>3, <3>2, <3>3
  <2>. QED
    BY <2>2, <2>3 DEF ProducerOrder, Event
<1>8. ConsumersOK'
  <2> SUFFICES ASSUME NEW g \in Groups, NEW p \in Partitions
               PROVE  /\ CursorOK(g, p)' /\ LeaseOK(g, p)'
                      /\ cursors'[<<g, p>>] # None =>
                           \A i \in 1 .. cursors'[<<g, p>>].acked : SkipOK(g, p, i)'
    BY DEF ConsumersOK, ConsumerOK
  <2>1. /\ CursorOK(g, p) /\ LeaseOK(g, p)
        /\ Len(log[p]) <= Len(log'[p]) /\ Len(log[p]) \in Nat /\ Len(log'[p]) \in Nat
    BY <1>2, <1>3 DEF IInv, ConsumersOK, ConsumerOK
  <2>2. cursors[<<g, p>>] # None => cursors[<<g, p>>] \in Cursor
    BY DEF IInv, TypeOK
  <2>3. leases[<<g, p>>] # None => leases[<<g, p>>] \in Lease
    BY DEF IInv, TypeOK
  <2>4. CursorOK(g, p)'
    BY <1>4, <2>1, <2>2 DEF CursorOK, Cursor
  <2>5. LeaseOK(g, p)'
    BY <1>2, <1>4, <2>1, <2>3 DEF LeaseOK, Lease
  <2>6. ASSUME cursors'[<<g, p>>] # None, NEW i \in 1 .. cursors'[<<g, p>>].acked
        PROVE  SkipOK(g, p, i)'
    <3>1. cursors[<<g, p>>] # None /\ i \in 1 .. cursors[<<g, p>>].acked
      BY <1>4, <2>6
    <3>2. SkipOK(g, p, i)
      BY <3>1 DEF IInv, ConsumersOK, ConsumerOK
    <3>3. i \in 1 .. Len(log[p])
      BY <2>1, <2>2, <3>1 DEF CursorOK, Cursor
    <3>. QED
      BY <1>3, <1>4, <3>2, <3>3 DEF SkipOK
  <2>. QED
    BY <2>4, <2>5, <2>6
<1>9. EffectsOK'
  BY <1>4 DEF IInv, EffectsOK, EffectOK
<1>10. BoundOK'
  <2> SUFFICES ASSUME NEW g \in Groups, NEW p \in Partitions, NEW e \in Requests, Bound(g, p, e)'
               PROVE  BoundInLease(g, p, e)' /\ \A d \in Requests : Bound(g, p, d)' => d = e
    BY DEF BoundOK, BoundAt
  <2>1. \A d \in Requests : Bound(g, p, d)' <=> Bound(g, p, d)
    BY <1>4 DEF Bound
  <2>2. BoundInLease(g, p, e) /\ \A d \in Requests : Bound(g, p, d) => d = e
    BY <2>1 DEF IInv, BoundOK, BoundAt
  <2>3. LeaseOK(g, p) /\ leases[<<g, p>>] \in Lease /\ leases[<<g, p>>] # None
    BY <2>1 DEF IInv, TypeOK, ConsumersOK, ConsumerOK, Bound
  <2>4. leases[<<g, p>>].from .. leases[<<g, p>>].through \subseteq 1 .. Len(log[p])
    BY <1>2, <2>3 DEF LeaseOK, Lease, IInv, TypeOK
  <2>5. PICK i \in leases[<<g, p>>].from .. leases[<<g, p>>].through :
          /\ Event(p, i) = e
          /\ \A j \in leases[<<g, p>>].from .. i - 1 : Settled(g, Event(p, j))
    BY <2>2 DEF BoundInLease
  <2>6. Event(p, i)' = e
    BY <1>3, <2>4, <2>5
  <2>7. ASSUME NEW j \in leases[<<g, p>>].from .. i - 1
        PROVE  Settled(g, Event(p, j))'
    <3>1. j \in 1 .. Len(log[p])
      BY <2>3, <2>4, <2>5 DEF Lease
    <3>. QED
      BY <1>3, <1>4, <2>5, <3>1 DEF Settled
  <2>8. BoundInLease(g, p, e)'
    BY <1>4, <2>5, <2>6, <2>7 DEF BoundInLease
  <2>. QED
    BY <2>1, <2>2, <2>8
<1>11. AttemptsOK'
  <2>1. ASSUME NEW g \in Groups, NEW e \in Requests
        PROVE  AttemptsOf(g, e)' <=> AttemptsOf(g, e)
    BY <1>4 DEF AttemptsOf, OpenCount, LostCount, Open, Lost, Bound
  <2>. QED
    BY <2>1 DEF IInv, AttemptsOK
<1>12. BodiesOK'
  <2> SUFFICES ASSUME NEW b \in Payloads \cap Managed PROVE BodyOK(b)'
    BY DEF BodiesOK
  <2>1. BodyOK(b)
    BY DEF IInv, BodiesOK
  <2>2. \A q \in Partitions : \A i \in 1 .. Len(log[q]) : log'[q][i] = log[q][i]
    BY <1>1
  <2>3. CASE b = r.payload
    <3>1. payloads'[b] = "present"
      BY <1>4, <2>3 DEF Stored, IInv, TypeOK
    <3>2. k \in first'[r.part] .. Len(log'[r.part])
      BY <1>2, <1>4 DEF IInv, TypeOK, LogOK
    <3>. QED
      BY <1>2, <1>3, <2>3, <3>1, <3>2 DEF BodyOK, Event, Rows
  <2>4. CASE b # r.payload
    <3>1. payloads'[b] = payloads[b]
      BY <1>4, <2>4 DEF IInv, TypeOK
    <3>2. ASSUME NEW q \in Partitions, NEW i \in Rows(q)', log'[q][i].req.payload = b
          PROVE  i \in Rows(q) /\ log'[q][i] = log[q][i] /\ Event(q, i)' = Event(q, i)
      <4>1. ~ (q = r.part /\ i = k)
        BY <1>3, <2>4, <3>2
      <4>2. i \in 1 .. Len(log[q]) /\ i \in Rows(q)
        BY <1>2, <1>3, <1>4, <3>2, <4>1 DEF Rows, IInv, TypeOK
      <4>. QED
        BY <1>3, <2>2, <4>2
    <3>3. ASSUME NEW q \in Partitions, NEW i \in Rows(q)
          PROVE  i \in Rows(q)' /\ Event(q, i)' = Event(q, i)
      BY <1>2, <1>3, <1>4 DEF Rows, IInv, TypeOK
    <3>4. ASSUME NEW q \in Partitions, NEW i \in Rows(q)', log'[q][i].req.payload = b,
                 ~ Elapsed(log[q][i], PayloadKeep)'
          PROVE  payloads'[b] = "present"
      BY <1>4, <2>1, <3>1, <3>2, <3>4 DEF BodyOK, Elapsed, Event
    <3>5. ASSUME payloads'[b] = "present"
          PROVE  \E q \in Partitions : \E i \in Rows(q)' : log'[q][i].req.payload = b
      <4>1. PICK q \in Partitions : \E i \in Rows(q) : Event(q, i).payload = b
        BY <2>1, <3>1, <3>5 DEF BodyOK
      <4>2. PICK i \in Rows(q) : Event(q, i).payload = b
        BY <4>1
      <4>. QED
        BY <3>3, <4>2 DEF Event
    <3>. QED
      BY <3>4, <3>5 DEF BodyOK, Event
  <2>. QED
    BY <2>3, <2>4
<1>. QED
  BY <1>5, <1>6, <1>7, <1>8, <1>9, <1>10, <1>11, <1>12 DEF IInv

-----------------------------------------------------------------------------
(* Frames: what a step of a consumer or of retention leaves alone *)

LEMMA LogFrame ==
  ASSUME IInv, UNCHANGED <<now, log, last, first, payloads>>
  PROVE  LogOK' /\ ProducerOrder' /\ BodiesOK'
<1>1. LogOK'
  BY DEF IInv, LogOK, Event
<1>2. ProducerOrder'
  BY DEF IInv, ProducerOrder, Accepted, Event
<1>3. BodiesOK'
  BY DEF IInv, BodiesOK, BodyOK, Rows, Event, Elapsed
<1>. QED
  BY <1>1, <1>2, <1>3

LEMMA EffectFrame ==
  ASSUME IInv, UNCHANGED <<log, leases, effects, letters, tokens, applied, checkpoints>>
  PROVE  EffectsOK' /\ BoundOK' /\ AttemptsOK'
<1>1. EffectsOK'
  BY DEF IInv, EffectsOK, EffectOK
<1>2. BoundOK'
  <2>1. ASSUME NEW g \in Groups, NEW p \in Partitions, NEW e \in Requests
        PROVE  /\ Bound(g, p, e)' <=> Bound(g, p, e)
               /\ BoundInLease(g, p, e)' <=> BoundInLease(g, p, e)
    BY DEF Bound, BoundInLease, Settled, Event
  <2>. QED
    BY <2>1 DEF IInv, BoundOK, BoundAt
<1>3. AttemptsOK'
  <2>1. ASSUME NEW g \in Groups, NEW e \in Requests
        PROVE  AttemptsOf(g, e)' <=> AttemptsOf(g, e)
    BY DEF AttemptsOf, OpenCount, LostCount, Open, Lost, Bound
  <2>. QED
    BY <2>1 DEF IInv, AttemptsOK
<1>. QED
  BY <1>1, <1>2, <1>3

LEMMA EventFacts ==
  ASSUME TypeOK, NEW p \in Partitions, NEW i \in 1 .. Len(log[p])
  PROVE  Event(p, i) \in Requests /\ log[p][i] \in Row
<1>1. log[p] \in Seq(Row)
  BY DEF TypeOK
<1>2. log[p][i] \in Row
  BY <1>1
<1>. QED
  BY <1>2 DEF Event, Row

(* A consumer whose cursor is left alone; its lease is, too, or is gone.   *)
LEMMA ConsumerFrame ==
  ASSUME TypeOK, TypeOK', NEW g \in Groups, NEW p \in Partitions, ConsumerOK(g, p),
         cursors'[<<g, p>>] = cursors[<<g, p>>], leases'[<<g, p>>] \in {leases[<<g, p>>], None},
         log' = log, first'[p] = first[p], snapshots[p] \subseteq snapshots'[p],
         tokens <= tokens',
         \A e \in Requests : Settled(g, e) =>
           effects'[<<g, e>>].state = effects[<<g, e>>].state
  PROVE  ConsumerOK(g, p)'
<1>1. CursorOK(g, p)'
  BY DEF ConsumerOK, CursorOK
<1>2. LeaseOK(g, p)'
  <2>1. leases[<<g, p>>] # None => leases[<<g, p>>] \in Lease
    BY DEF TypeOK
  <2>. QED
    BY <2>1 DEF ConsumerOK, LeaseOK, Lease, TypeOK
<1>3. ASSUME cursors'[<<g, p>>] # None, NEW i \in 1 .. cursors'[<<g, p>>].acked
      PROVE  SkipOK(g, p, i)'
  <2>1. cursors[<<g, p>>] \in Cursor /\ SkipOK(g, p, i)
    BY <1>3 DEF TypeOK, ConsumerOK
  <2>2. i \in 1 .. Len(log[p])
    BY <1>3, <2>1 DEF ConsumerOK, CursorOK, Cursor, TypeOK
  <2>3. Event(p, i) \in Requests /\ Event(p, i)' = Event(p, i)
    BY <2>2, EventFacts DEF Event
  <2>. QED
    BY <2>1, <2>3 DEF SkipOK, Settled
<1>. QED
  BY <1>1, <1>2, <1>3 DEF ConsumerOK

-----------------------------------------------------------------------------
(* Cursors and snapshots *)

LEMMA OpenCursorIInv ==
  ASSUME IInv, NEW g \in Groups, NEW p \in Partitions, NEW gen \in Generations,
         OpenCursor(g, p, gen)
  PROVE  IInv'
<1> DEFINE d == [gen |-> gen, acked |-> 0, gap |-> None, opened |-> first[p]]
<1>1. /\ cursors[<<g, p>>] = None
      /\ cursors' = [cursors EXCEPT ![<<g, p>>] = d]
      /\ UNCHANGED <<now, log, last, first, payloads, leases, effects, letters, tokens, applied,
                     snapshots, checkpoints>>
  BY DEF OpenCursor, producerVars, retentionVars
<1>2. TypeOK'
  <2>1. d \in Cursor
    BY DEF Cursor, IInv, TypeOK
  <2>. QED
    BY <1>1, <2>1 DEF IInv, TypeOK
<1>3. ConsumersOK'
  <2> SUFFICES ASSUME NEW h \in Groups, NEW q \in Partitions PROVE ConsumerOK(h, q)'
    BY DEF ConsumersOK
  <2>1. ConsumerOK(h, q) /\ TypeOK
    BY DEF IInv, ConsumersOK
  <2>2. CASE <<h, q>> = <<g, p>>
    <3>1. cursors'[<<h, q>>] = d /\ leases[<<h, q>>] = None
      BY <1>1, <2>1, <2>2 DEF ConsumerOK, LeaseOK, TypeOK
    <3>2. Len(log[q]) \in Nat /\ first'[q] = first[p]
      BY <1>1, <2>1, <2>2 DEF TypeOK
    <3>. QED
      BY <1>1, <3>1, <3>2 DEF ConsumerOK, CursorOK, LeaseOK
  <2>3. CASE <<h, q>> # <<g, p>>
    <3>1. cursors'[<<h, q>>] = cursors[<<h, q>>]
      BY <1>1, <2>1, <2>3 DEF TypeOK
    <3>2. tokens <= tokens'
      BY <1>1, <2>1 DEF TypeOK
    <3>. QED
      BY <1>1, <1>2, <2>1, <3>1, <3>2, ConsumerFrame
  <2>. QED
    BY <2>2, <2>3
<1>. QED
  BY <1>1, <1>2, <1>3, LogFrame, EffectFrame DEF IInv

LEMMA RecordSnapshotIInv ==
  ASSUME IInv, NEW p \in Partitions, NEW through \in 1 .. Len(log[p]), NEW b \in Bodies,
         RecordSnapshot(p, through, b)
  PROVE  IInv'
<1>1. /\ snapshots' = [snapshots EXCEPT ![p] = @ \cup {[through |-> through, body |-> b]}]
      /\ UNCHANGED <<now, log, last, first, payloads, cursors, leases, effects, letters, tokens,
                     applied, checkpoints>>
  BY DEF RecordSnapshot, producerVars, consumerVars
<1>2. TypeOK'
  <2>1. through \in Nat
    BY DEF IInv, TypeOK
  <2>. QED
    BY <1>1, <2>1 DEF IInv, TypeOK
<1>3. ConsumersOK'
  <2> SUFFICES ASSUME NEW h \in Groups, NEW q \in Partitions PROVE ConsumerOK(h, q)'
    BY DEF ConsumersOK
  <2>1. ConsumerOK(h, q) /\ TypeOK
    BY DEF IInv, ConsumersOK
  <2>2. snapshots[q] \subseteq snapshots'[q] /\ tokens <= tokens'
    BY <1>1, <2>1 DEF TypeOK
  <2>. QED
    BY <1>1, <1>2, <2>1, <2>2, ConsumerFrame
<1>. QED
  BY <1>1, <1>2, <1>3, LogFrame, EffectFrame DEF IInv

LEMMA AckCursorGapIInv ==
  ASSUME IInv, NEW g \in Groups, NEW p \in Partitions, NEW gen \in Generations,
         NEW s \in snapshots[p], AckCursorGap(g, p, gen, s)
  PROVE  IInv'
<1> DEFINE c == cursors[<<g, p>>]
           d == [gen |-> gen, acked |-> c.gap.through, gap |-> None, opened |-> c.opened]
<1>1. /\ c # None /\ c.gap # None
      /\ cursors' = [cursors EXCEPT ![<<g, p>>] = d]
      /\ UNCHANGED <<now, log, last, first, payloads, leases, effects, letters, tokens, applied,
                     snapshots, checkpoints>>
  BY DEF AckCursorGap, HasCursor, producerVars, retentionVars
<1>2. c \in Cursor /\ c.gap \in Gap /\ first[p] \in Nat /\ Len(log[p]) \in Nat
  BY <1>1 DEF IInv, TypeOK, Cursor
<1>3. d \in Cursor
  BY <1>2 DEF Cursor, Gap
<1>4. cursors' = [cursors EXCEPT ![<<g, p>>] = d]
  BY <1>1
<1>5. TypeOK'
  BY <1>1, <1>3, <1>4 DEF IInv, TypeOK
<1>6. ConsumersOK'
  <2> SUFFICES ASSUME NEW h \in Groups, NEW q \in Partitions PROVE ConsumerOK(h, q)'
    BY DEF ConsumersOK
  <2>1. ConsumerOK(h, q) /\ TypeOK
    BY DEF IInv, ConsumersOK
  <2>2. CASE <<h, q>> = <<g, p>>
    <3>1. h = g /\ q = p
      BY <2>2
    <3>2. /\ leases[<<g, p>>] = None
          /\ c.gap.from = c.acked + 1 /\ c.gap.from <= c.gap.through /\ c.gap.through + 1 = first[p]
          /\ \E x \in snapshots[p] : x.through = c.gap.through
          /\ \A i \in 1 .. c.acked : SkipOK(g, p, i)
      BY <1>1, <2>1, <3>1 DEF ConsumerOK, CursorOK
    <3>3. first[p] <= Len(log[p]) + 1
      BY DEF IInv, LogOK
    <3>4. cursors'[<<g, p>>] = d
      BY <1>4 DEF IInv, TypeOK
    <3>5. CursorOK(g, p)'
      <4>1. d.acked <= Len(log[p]) /\ d.gap = None /\ ~ (d.acked + 1 < first[p])
        BY <1>2, <3>2, <3>3 DEF Gap, Cursor
      <4>. QED
        BY <1>1, <3>2, <3>4, <4>1 DEF CursorOK
    <3>6. LeaseOK(g, p)'
      BY <1>1, <3>2 DEF LeaseOK
    <3>7. ASSUME NEW i \in 1 .. d.acked PROVE SkipOK(g, p, i)'
      <4>1. CASE i \in 1 .. c.acked
        BY <1>1, <3>2, <4>1 DEF SkipOK, Event
      <4>2. CASE i \notin 1 .. c.acked
        BY <1>1, <1>2, <3>2, <3>7, <4>2 DEF SkipOK, Cursor, Gap
      <4>. QED
        BY <4>1, <4>2
    <3>. QED
      BY <3>1, <3>4, <3>5, <3>6, <3>7 DEF ConsumerOK
  <2>3. CASE <<h, q>> # <<g, p>>
    <3>1. cursors'[<<h, q>>] = cursors[<<h, q>>]
      BY <1>1, <2>1, <2>3 DEF TypeOK
    <3>2. tokens <= tokens'
      BY <1>1, <2>1 DEF TypeOK
    <3>. QED
      BY <1>1, <1>5, <2>1, <3>1, <3>2, ConsumerFrame
  <2>. QED
    BY <2>2, <2>3
<1>. QED
  BY <1>1, <1>5, <1>6, LogFrame, EffectFrame DEF IInv

-----------------------------------------------------------------------------
(* Leases *)

(* What is bound to a lease that is kept stays in order.                   *)
LEMMA BoundFrame ==
  ASSUME IInv, NEW g \in Groups, NEW p \in Partitions,
         log' = log, leases'[<<g, p>>] = leases[<<g, p>>],
         \A e \in Requests : Settled(g, e) => Settled(g, e)',
         \A e \in Requests : Bound(g, p, e)' => Bound(g, p, e)
  PROVE  BoundAt(g, p)'
<1> SUFFICES ASSUME NEW e \in Requests, Bound(g, p, e)'
             PROVE  BoundInLease(g, p, e)' /\ \A d \in Requests : Bound(g, p, d)' => d = e
  BY DEF BoundAt
<1>1. /\ Bound(g, p, e) /\ BoundInLease(g, p, e)
      /\ \A d \in Requests : Bound(g, p, d) => d = e
  BY DEF IInv, BoundOK, BoundAt
<1>2. LeaseOK(g, p) /\ leases[<<g, p>>] \in Lease /\ leases[<<g, p>>] # None
  BY <1>1 DEF IInv, TypeOK, ConsumersOK, ConsumerOK, Bound
<1>3. PICK i \in leases[<<g, p>>].from .. leases[<<g, p>>].through :
        /\ Event(p, i) = e
        /\ \A j \in leases[<<g, p>>].from .. i - 1 : Settled(g, Event(p, j))
  BY <1>1 DEF BoundInLease
<1>4. ASSUME NEW j \in leases[<<g, p>>].from .. i - 1
      PROVE  Settled(g, Event(p, j))'
  <2>1. j \in 1 .. Len(log[p])
    BY <1>2, <1>3 DEF LeaseOK, Lease, IInv, TypeOK
  <2>2. Event(p, j) \in Requests /\ Event(p, j)' = Event(p, j)
    BY <2>1, EventFacts DEF IInv, Event
  <2>. QED
    BY <1>3, <2>2 DEF Settled
<1>5. BoundInLease(g, p, e)'
  BY <1>3, <1>4 DEF BoundInLease, Event
<1>. QED
  BY <1>1, <1>5

(* The lease is gone.                                                      *)
LEMMA BoundNone ==
  ASSUME NEW g \in Groups, NEW p \in Partitions, leases'[<<g, p>>] = None
  PROVE  BoundAt(g, p)'
  BY DEF BoundAt, Bound

LEMMA AttemptsFrame ==
  ASSUME IInv, NEW g \in Groups, NEW e \in Requests,
         effects'[<<g, e>>] = effects[<<g, e>>], applied'[<<g, e>>] = applied[<<g, e>>],
         checkpoints'[e.part] = checkpoints[e.part],
         Bound(g, e.part, e)' <=> Bound(g, e.part, e)
  PROVE  AttemptsOf(g, e)'
<1>1. AttemptsOf(g, e)
  BY DEF IInv, AttemptsOK
<1>2. LostCount(g, e)' = LostCount(g, e) /\ OpenCount(g, e)' = OpenCount(g, e)
  BY DEF LostCount, OpenCount, Lost, Open
<1>. QED
  BY <1>1, <1>2 DEF AttemptsOf

LEMMA AckIInv ==
  ASSUME IInv, NEW g \in Groups, NEW p \in Partitions, NEW gen \in Generations, NEW tok,
         Ack(g, p, gen, tok)
  PROVE  IInv'
<1> DEFINE c == cursors[<<g, p>>]
           l == leases[<<g, p>>]
           d == [gen |-> c.gen, acked |-> l.through, gap |-> c.gap, opened |-> c.opened]
<1>1. /\ c # None /\ l # None
      /\ \A i \in l.from .. l.through : AckableEffect(g, Event(p, i))
      /\ cursors' = [cursors EXCEPT ![<<g, p>>] = [c EXCEPT !.acked = l.through]]
      /\ leases' = [leases EXCEPT ![<<g, p>>] = None]
      /\ UNCHANGED <<now, log, last, first, payloads, effects, letters, tokens, applied,
                     snapshots, checkpoints>>
  BY DEF Ack, ValidLease, HasCursor, Live, producerVars, retentionVars
<1>2. c \in Cursor /\ l \in Lease /\ first[p] \in Nat /\ Len(log[p]) \in Nat
  BY <1>1 DEF IInv, TypeOK, Cursor
<1>3. d \in Cursor
  BY <1>2 DEF Cursor, Lease
<1>4. cursors' = [cursors EXCEPT ![<<g, p>>] = d]
  BY <1>1, <1>2, CursorUpdates
<1>5. TypeOK'
  BY <1>1, <1>3, <1>4 DEF IInv, TypeOK
<1>6. /\ cursors'[<<g, p>>] = d /\ leases'[<<g, p>>] = None
      /\ \A h \in Groups, q \in Partitions : <<h, q>> # <<g, p>> =>
           cursors'[<<h, q>>] = cursors[<<h, q>>] /\ leases'[<<h, q>>] = leases[<<h, q>>]
  BY <1>1, <1>4 DEF IInv, TypeOK
<1>7. ConsumersOK'
  <2> SUFFICES ASSUME NEW h \in Groups, NEW q \in Partitions PROVE ConsumerOK(h, q)'
    BY DEF ConsumersOK
  <2>1. ConsumerOK(h, q) /\ TypeOK
    BY DEF IInv, ConsumersOK
  <2>2. CASE h = g /\ q = p
    <3>1. /\ l.from = c.acked + 1 /\ first[p] <= l.from
          /\ l.from <= l.through /\ l.through <= Len(log[p])
          /\ c.gap = None
          /\ \A i \in 1 .. c.acked : SkipOK(g, p, i)
      BY <1>1, <2>1, <2>2 DEF ConsumerOK, CursorOK, LeaseOK
    <3>2. CursorOK(g, p)'
      <4>1. d.acked <= Len(log[p]) /\ d.gap = None /\ ~ (d.acked + 1 < first[p])
        BY <1>2, <3>1 DEF Cursor, Lease
      <4>. QED
        BY <1>1, <1>6, <4>1 DEF CursorOK
    <3>3. LeaseOK(g, p)'
      BY <1>6 DEF LeaseOK
    <3>4. ASSUME NEW i \in 1 .. d.acked PROVE SkipOK(g, p, i)'
      <4>1. CASE i \in 1 .. c.acked
        BY <1>1, <3>1, <4>1 DEF SkipOK, Event
      <4>2. CASE i \notin 1 .. c.acked
        <5>1. i \in l.from .. l.through
          BY <1>2, <3>1, <4>2 DEF Cursor, Lease
        <5>2. AckableEffect(g, Event(p, i))
          BY <1>1, <5>1
        <5>. QED
          BY <1>1, <5>2 DEF SkipOK, Event, AckableEffect
      <4>. QED
        BY <4>1, <4>2
    <3>. QED
      BY <1>6, <2>2, <3>2, <3>3, <3>4 DEF ConsumerOK
  <2>3. CASE ~ (h = g /\ q = p)
    <3>1. tokens <= tokens'
      BY <1>1, <2>1 DEF TypeOK
    <3>2. cursors'[<<h, q>>] = cursors[<<h, q>>] /\ leases'[<<h, q>>] = leases[<<h, q>>]
      BY <1>6, <2>3
    <3>. QED
      BY <1>1, <1>5, <2>1, <3>1, <3>2, ConsumerFrame
  <2>. QED
    BY <2>2, <2>3
<1>8. ASSUME NEW e \in Requests PROVE ~ Bound(g, p, e)
  <2>1. SUFFICES ASSUME Bound(g, p, e) PROVE FALSE
    OBVIOUS
  <2>2. PICK i \in l.from .. l.through : Event(p, i) = e
    BY <2>1 DEF IInv, BoundOK, BoundAt, BoundInLease
  <2>. QED
    BY <1>1, <2>1, <2>2 DEF Bound, AckableEffect
<1>9. EffectsOK'
  BY <1>1 DEF IInv, EffectsOK, EffectOK
<1>10. BoundOK'
  <2> SUFFICES ASSUME NEW h \in Groups, NEW q \in Partitions PROVE BoundAt(h, q)'
    BY DEF BoundOK
  <2>1. CASE h = g /\ q = p
    BY <1>6, <2>1, BoundNone
  <2>2. CASE ~ (h = g /\ q = p)
    <3>1. leases'[<<h, q>>] = leases[<<h, q>>]
      BY <1>6, <2>2
    <3>2. \A e \in Requests : Bound(h, q, e)' => Bound(h, q, e)
      BY <1>1, <3>1 DEF Bound
    <3>3. \A e \in Requests : Settled(h, e) => Settled(h, e)'
      BY <1>1 DEF Settled
    <3>. QED
      BY <1>1, <3>1, <3>2, <3>3, BoundFrame
  <2>. QED
    BY <2>1, <2>2
<1>11. AttemptsOK'
  <2> SUFFICES ASSUME NEW h \in Groups, NEW e \in Requests PROVE AttemptsOf(h, e)'
    BY DEF AttemptsOK
  <2>1. e.part \in Partitions
    BY BusAssumption
  <2>2. Bound(h, e.part, e)' <=> Bound(h, e.part, e)
    <3>1. CASE h = g /\ e.part = p
      BY <1>6, <1>8, <3>1 DEF Bound
    <3>2. CASE ~ (h = g /\ e.part = p)
      BY <1>1, <1>6, <2>1, <3>2 DEF Bound
    <3>. QED
      BY <3>1, <3>2
  <2>. QED
    BY <1>1, <2>2, AttemptsFrame
<1>. QED
  BY <1>1, <1>5, <1>7, <1>9, <1>10, <1>11, LogFrame DEF IInv

-----------------------------------------------------------------------------
(* Effects *)

(* A request is at one place of its partition.                             *)
LEMMA UniqueRow ==
  ASSUME IInv, NEW p \in Partitions, NEW i \in 1 .. Len(log[p]), NEW j \in 1 .. Len(log[p]),
         Event(p, i) = Event(p, j)
  PROVE  i = j
<1>1. DOMAIN log[p] = 1 .. Len(log[p]) /\ Len(log[p]) \in Nat
  BY DEF IInv, TypeOK
<1>2. Event(p, i) \in Requests
  BY EventFacts DEF IInv
<1>3. Event(p, i).seq \in Nat
  BY <1>2, BusAssumption
<1>4. \A x, y \in 1 .. Len(log[p]) :
        (x < y /\ Event(p, x).prod = Event(p, y).prod) => Event(p, x).seq < Event(p, y).seq
  BY <1>1 DEF IInv, ProducerOrder
<1>5. ~ (i < j)
  BY <1>3, <1>4
<1>6. ~ (j < i)
  BY <1>3, <1>4
<1>. QED
  BY <1>1, <1>5, <1>6

LEMMA SeqOfFacts ==
  ASSUME IInv, NEW p \in Partitions, NEW i \in 1 .. Len(log[p])
  PROVE  SeqOf(p, Event(p, i)) = i
<1> DEFINE k == SeqOf(p, Event(p, i))
<1>1. DOMAIN log[p] = 1 .. Len(log[p])
  BY DEF IInv, TypeOK
<1>2. k \in 1 .. Len(log[p]) /\ Event(p, k) = Event(p, i)
  BY <1>1 DEF SeqOf
<1> HIDE DEF k
<1>3. k = i
  BY <1>2, UniqueRow
<1>. QED
  BY <1>3 DEF k

(* The lease of g on p is a valid one of tok and covers the event e.       *)
HoldsEvent(g, p, tok, e) ==
  LET l == leases[<<g, p>>] IN
  /\ l \in Lease /\ l # None /\ LeaseOK(g, p) /\ l.tok = tok /\ e.part = p
  /\ l.from .. l.through \subseteq 1 .. Len(log[p])
  /\ \E i \in l.from .. l.through : Event(p, i) = e

LEMMA InLease ==
  ASSUME IInv, NEW g \in Groups, NEW p \in Partitions, NEW gen, NEW tok, NEW e \in Requests,
         ValidLease(g, p, gen, tok), EventInLease(g, p, e)
  PROVE  HoldsEvent(g, p, tok, e)
<1> DEFINE l == leases[<<g, p>>]
<1>1. l \in Lease /\ l # None /\ LeaseOK(g, p) /\ l.tok = tok
  BY DEF IInv, TypeOK, ConsumersOK, ConsumerOK, ValidLease, Live
<1>2. Len(log[p]) \in Nat /\ DOMAIN log[p] = 1 .. Len(log[p]) /\ first[p] \in Nat \ {0}
  BY DEF IInv, TypeOK
<1>3. l.from .. l.through \subseteq 1 .. Len(log[p])
  BY <1>1, <1>2 DEF LeaseOK, Lease
<1>4. PICK i \in l.from .. l.through : Event(p, i) = e
  BY DEF EventInLease
<1>5. i \in 1 .. Len(log[p])
  BY <1>3
<1>6. e.part = p
  BY <1>4, <1>5 DEF IInv, LogOK
<1>. QED
  BY <1>1, <1>3, <1>4, <1>6 DEF HoldsEvent

(* A step of the bearer at effect e of group g: nothing else changes but   *)
(* its lease, which may go.                                                *)
LEMMA BearerStep ==
  ASSUME IInv, TypeOK', NEW g \in Groups, NEW p \in Partitions, NEW e \in Requests, e.part = p,
         UNCHANGED <<now, log, last, first, payloads, cursors, tokens, snapshots, checkpoints>>,
         ~ Settled(g, e),
         \A h \in Groups, q \in Partitions : <<h, q>> # <<g, p>> =>
           leases'[<<h, q>>] = leases[<<h, q>>],
         leases'[<<g, p>>] \in {leases[<<g, p>>], None},
         \A h \in Groups, d \in Requests : <<h, d>> # <<g, e>> =>
           /\ effects'[<<h, d>>] = effects[<<h, d>>] /\ applied'[<<h, d>>] = applied[<<h, d>>]
           /\ Bound(h, d.part, d)' <=> Bound(h, d.part, d),
         letters \subseteq letters',
         EffectOK(g, e)', BoundAt(g, p)', AttemptsOf(g, e)'
  PROVE  IInv'
<1>1. \A h \in Groups, d \in Requests : Settled(h, d) =>
        effects'[<<h, d>>] = effects[<<h, d>>] /\ Settled(h, d)'
  BY DEF Settled
<1>2. ConsumersOK'
  <2> SUFFICES ASSUME NEW h \in Groups, NEW q \in Partitions PROVE ConsumerOK(h, q)'
    BY DEF ConsumersOK
  <2>1. ConsumerOK(h, q) /\ TypeOK /\ tokens <= tokens'
    BY DEF IInv, ConsumersOK, TypeOK
  <2>2. leases'[<<h, q>>] \in {leases[<<h, q>>], None}
    OBVIOUS
  <2>. QED
    BY <1>1, <2>1, <2>2, ConsumerFrame
<1>3. EffectsOK'
  <2> SUFFICES ASSUME NEW h \in Groups, NEW d \in Requests PROVE EffectOK(h, d)'
    BY DEF EffectsOK
  <2>1. EffectOK(h, d)
    BY DEF IInv, EffectsOK
  <2>2. CASE <<h, d>> = <<g, e>>
    BY <2>2
  <2>3. CASE <<h, d>> # <<g, e>>
    BY <2>1, <2>3 DEF EffectOK
  <2>. QED
    BY <2>2, <2>3
<1>4. BoundOK'
  <2> SUFFICES ASSUME NEW h \in Groups, NEW q \in Partitions PROVE BoundAt(h, q)'
    BY DEF BoundOK
  <2>1. CASE <<h, q>> = <<g, p>>
    BY <2>1
  <2>2. CASE <<h, q>> # <<g, p>>
    <3>1. \A d \in Requests : Bound(h, q, d)' => Bound(h, q, d)
      <4> SUFFICES ASSUME NEW d \in Requests, Bound(h, q, d)' PROVE Bound(h, q, d)
        OBVIOUS
      <4>1. d.part = q
        BY DEF Bound
      <4>. QED
        BY <2>2, <4>1
    <3>2. leases'[<<h, q>>] = leases[<<h, q>>] /\ \A d \in Requests : Settled(h, d) => Settled(h, d)'
      BY <1>1, <2>2
    <3>. QED
      BY <3>1, <3>2, BoundFrame
  <2>. QED
    BY <2>1, <2>2
<1>5. AttemptsOK'
  <2> SUFFICES ASSUME NEW h \in Groups, NEW d \in Requests PROVE AttemptsOf(h, d)'
    BY DEF AttemptsOK
  <2>1. CASE <<h, d>> = <<g, e>>
    BY <2>1
  <2>2. CASE <<h, d>> # <<g, e>>
    BY <2>2, AttemptsFrame
  <2>. QED
    BY <2>1, <2>2
<1>. QED
  BY <1>2, <1>3, <1>4, <1>5, LogFrame DEF IInv

LEMMA CommitEffectIInv ==
  ASSUME IInv, NEW g \in Groups, NEW p \in Partitions, NEW gen \in Generations,
         NEW tok \in 1 .. tokens, NEW e \in Requests, NEW d \in Digests, CommitEffect(g, p, gen, tok, e, d)
  PROVE  IInv'
<1> DEFINE f == effects[<<g, e>>]
           x == [f EXCEPT !.state = "committed", !.retry = 0]
<1>1. /\ f.state = "pending" /\ f.tok = tok
      /\ ValidLease(g, p, gen, tok) /\ EventInLease(g, p, e)
      /\ effects' = [effects EXCEPT ![<<g, e>>] = x]
      /\ UNCHANGED <<now, log, last, first, payloads, cursors, leases, letters, tokens, applied,
                     snapshots, checkpoints>>
  BY DEF CommitEffect, OwnPending, producerVars, retentionVars
<1>2. leases[<<g, p>>] # None /\ leases[<<g, p>>].tok = tok /\ e.part = p
  <2>1. ValidLease(g, p, gen, tok) /\ EventInLease(g, p, e)
    BY <1>1
  <2>2. HoldsEvent(g, p, tok, e)
    BY <2>1, InLease
  <2>. QED
    BY <2>2 DEF HoldsEvent
<1>3. f \in Effect /\ f.tok \in Nat \ {0}
  BY <1>1 DEF IInv, TypeOK
<1>4. /\ x \in Effect /\ x.state = "committed" /\ x.attempts = f.attempts /\ x.tok = f.tok
  BY <1>3, EffectUpdates
<1> HIDE DEF x
<1>5. TypeOK'
  BY <1>1, <1>4 DEF IInv, TypeOK
<1>6. effects'[<<g, e>>] = x
  BY <1>1 DEF IInv, TypeOK
<1>7. ASSUME NEW h \in Groups, NEW q \in Requests, <<h, q>> # <<g, e>>
      PROVE  /\ effects'[<<h, q>>] = effects[<<h, q>>] /\ applied'[<<h, q>>] = applied[<<h, q>>]
             /\ Bound(h, q.part, q)' <=> Bound(h, q.part, q)
  <2>1. effects'[<<h, q>>] = effects[<<h, q>>]
    BY <1>1, <1>7 DEF IInv, TypeOK
  <2>. QED
    BY <1>1, <2>1 DEF Bound
<1>8. EffectOK(g, e)'
  <2>1. EffectOK(g, e)
    BY DEF IInv, EffectsOK
  <2>. QED
    BY <1>1, <1>4, <1>6, <2>1 DEF EffectOK
<1>9. BoundAt(g, p)'
  <2>1. \A q \in Requests : Bound(g, p, q)' => Bound(g, p, q)
    <3> SUFFICES ASSUME NEW q \in Requests, Bound(g, p, q)' PROVE Bound(g, p, q)
      OBVIOUS
    <3>1. q # e /\ q.part = p
      BY <1>4, <1>6 DEF Bound
    <3>. QED
      BY <1>7, <3>1
  <2>2. \A q \in Requests : Settled(g, q) => Settled(g, q)'
    <3> SUFFICES ASSUME NEW q \in Requests, Settled(g, q) PROVE Settled(g, q)'
      OBVIOUS
    <3>1. q # e
      BY <1>1 DEF Settled
    <3>. QED
      BY <1>7, <3>1 DEF Settled
  <2>. QED
    BY <1>1, <2>1, <2>2, BoundFrame
<1>10. AttemptsOf(g, e)'
  <2>1. AttemptsOf(g, e)
    BY DEF IInv, AttemptsOK
  <2>2. LostCount(g, e) = 0 /\ OpenCount(g, e) = 1
    BY <1>1, <1>2, <1>3 DEF LostCount, OpenCount, Lost, Open, Bound
  <2>3. LostCount(g, e)' = 0 /\ OpenCount(g, e)' = 1
    BY <1>4, <1>6 DEF LostCount, OpenCount, Lost, Open
  <2>4. effects'[<<g, e>>].attempts = f.attempts
    BY <1>4, <1>6
  <2>. QED
    BY <1>1, <2>1, <2>2, <2>3, <2>4 DEF AttemptsOf
<1>11. ~ Settled(g, e)
  BY <1>1 DEF Settled
<1>. QED
  BY <1>1, <1>2, <1>5, <1>7, <1>8, <1>9, <1>10, <1>11, BearerStep

LEMMA FailEffectIInv ==
  ASSUME IInv, NEW g \in Groups, NEW p \in Partitions, NEW gen \in Generations,
         NEW tok \in 1 .. tokens, NEW e \in Requests, NEW d \in Digests, FailEffect(g, p, gen, tok, e, d)
  PROVE  IInv'
<1> DEFINE f == effects[<<g, e>>]
           x == Attempted(f, tok)
<1>1. /\ f.state = "pending" /\ f.tok = tok
      /\ ValidLease(g, p, gen, tok) /\ EventInLease(g, p, e)
      /\ effects' = [effects EXCEPT ![<<g, e>>] = x]
      /\ letters' = letters \cup NewlyDead(effects, effects')
      /\ leases' = IF effects'[<<g, e>>].state = "dead" THEN leases
                   ELSE [leases EXCEPT ![<<g, p>>] = None]
      /\ UNCHANGED <<now, log, last, first, payloads, cursors, tokens, applied,
                     snapshots, checkpoints>>
  BY DEF FailEffect, OwnPending, producerVars, retentionVars
<1>2. leases[<<g, p>>] # None /\ leases[<<g, p>>].tok = tok /\ e.part = p
  <2>1. ValidLease(g, p, gen, tok) /\ EventInLease(g, p, e)
    BY <1>1
  <2>2. HoldsEvent(g, p, tok, e)
    BY <2>1, InLease
  <2>. QED
    BY <2>2 DEF HoldsEvent
<1>3. f \in Effect /\ f.tok \in Nat \ {0} /\ now \in Nat /\ tok \in Nat /\ tok <= tokens
  BY <1>1 DEF IInv, TypeOK
<1>4. f.attempts < MaxAttempts
  BY <1>1 DEF IInv, EffectsOK, EffectOK
<1>5. /\ x \in Effect /\ x.attempts = f.attempts + 1
      /\ \/ x.state = "pending" /\ x.tok = 0 /\ x.attempts < MaxAttempts
         \/ x.state = "dead" /\ x.tok = tok /\ x.attempts = MaxAttempts
  BY <1>1, <1>3, <1>4, AttemptedFacts
<1> HIDE DEF x
<1>6. TypeOK'
  <2>1. effects' \in [Groups \X Requests -> Effect]
    BY <1>1, <1>5 DEF IInv, TypeOK
  <2>2. leases' \in [Groups \X Partitions -> Lease \cup {None}]
    BY <1>1 DEF IInv, TypeOK
  <2>. QED
    BY <1>1, <2>1, <2>2 DEF IInv, TypeOK
<1>7. effects'[<<g, e>>] = x
  BY <1>1 DEF IInv, TypeOK
<1>8. /\ leases'[<<g, p>>] \in {leases[<<g, p>>], None}
      /\ x.state # "dead" => leases'[<<g, p>>] = None
      /\ \A h \in Groups, q \in Partitions : <<h, q>> # <<g, p>> =>
           leases'[<<h, q>>] = leases[<<h, q>>]
  BY <1>1, <1>7 DEF IInv, TypeOK
<1>9. \A q \in Requests : Bound(g, p, q) => q = e
  <2>1. Bound(g, p, e)
    BY <1>1, <1>2 DEF Bound
  <2>. QED
    BY <2>1 DEF IInv, BoundOK, BoundAt
<1>10. ASSUME NEW h \in Groups, NEW q \in Requests, <<h, q>> # <<g, e>>
       PROVE  /\ effects'[<<h, q>>] = effects[<<h, q>>] /\ applied'[<<h, q>>] = applied[<<h, q>>]
              /\ Bound(h, q.part, q)' <=> Bound(h, q.part, q)
  <2>1. effects'[<<h, q>>] = effects[<<h, q>>] /\ q.part \in Partitions
    BY <1>1, <1>10, BusAssumption DEF IInv, TypeOK
  <2>2. CASE <<h, q.part>> = <<g, p>>
    <3>1. ~ Bound(h, q.part, q)
      BY <1>9, <1>10, <2>2
    <3>2. ~ Bound(h, q.part, q)'
      BY <1>8, <2>1, <2>2, <3>1 DEF Bound
    <3>. QED
      BY <1>1, <2>1, <3>1, <3>2
  <2>3. CASE <<h, q.part>> # <<g, p>>
    BY <1>1, <1>8, <2>1, <2>3 DEF Bound
  <2>. QED
    BY <2>2, <2>3
<1>11. EffectOK(g, e)'
  <2>1. <<g, e>> \in letters' \/ x.state # "dead"
    BY <1>1, <1>7 DEF NewlyDead
  <2>. QED
    BY <1>1, <1>3, <1>5, <1>7, <2>1 DEF EffectOK, IInv, TypeOK
<1>12. BoundAt(g, p)'
  <2>1. ASSUME NEW q \in Requests PROVE ~ Bound(g, p, q)'
    <3>1. CASE q = e
      BY <1>5, <1>7, <1>8, <3>1 DEF Bound
    <3>2. CASE q # e
      <4>1. effects'[<<g, q>>] = effects[<<g, q>>] /\ ~ Bound(g, p, q)
        BY <1>9, <1>10, <3>2
      <4>. QED
        BY <1>8, <4>1 DEF Bound
    <3>. QED
      BY <3>1, <3>2
  <2>. QED
    BY <2>1 DEF BoundAt
<1>13. AttemptsOf(g, e)'
  <2>1. AttemptsOf(g, e)
    BY DEF IInv, AttemptsOK
  <2>2. LostCount(g, e) = 0 /\ OpenCount(g, e) = 1
    BY <1>1, <1>2, <1>3 DEF LostCount, OpenCount, Lost, Open, Bound
  <2>3. LostCount(g, e)' = 0 /\ OpenCount(g, e)' = 0
    BY <1>5, <1>7 DEF LostCount, OpenCount, Lost, Open
  <2>4. effects'[<<g, e>>].attempts = f.attempts + 1 /\ f.attempts \in Nat
    BY <1>3, <1>5, <1>7 DEF Effect
  <2>. QED
    BY <1>1, <2>1, <2>2, <2>3, <2>4 DEF AttemptsOf
<1>14. ~ Settled(g, e) /\ letters \subseteq letters'
  BY <1>1 DEF Settled
<1>. QED
  BY <1>1, <1>2, <1>6, <1>8, <1>10, <1>11, <1>12, <1>13, <1>14, BearerStep

LEMMA BeginEffectIInv ==
  ASSUME IInv, NEW g \in Groups, NEW p \in Partitions, NEW gen \in Generations,
         NEW tok \in 1 .. tokens, NEW e \in Requests, NEW d \in Digests, BeginEffect(g, p, gen, tok, e, d)
  PROVE  IInv'
<1> DEFINE f == effects[<<g, e>>]
           l == leases[<<g, p>>]
<1>1. /\ ValidLease(g, p, gen, tok) /\ EventInLease(g, p, e)
      /\ \A i \in l.from .. SeqOf(p, e) - 1 : AckableEffect(g, Event(p, i))
      /\ f.state = "none" \/ (f.state = "pending" /\ f.tok # tok)
      /\ applied' = [applied EXCEPT ![<<g, e>>] = @ + 1]
      /\ UNCHANGED <<now, log, last, first, payloads, cursors, leases, letters, tokens,
                     snapshots, checkpoints>>
  BY DEF BeginEffect, EarlierSettled, producerVars, retentionVars
<1>2. /\ l \in Lease /\ l # None /\ LeaseOK(g, p) /\ l.tok = tok /\ e.part = p
      /\ l.from .. l.through \subseteq 1 .. Len(log[p])
      /\ \E i \in l.from .. l.through : Event(p, i) = e
  <2>1. ValidLease(g, p, gen, tok) /\ EventInLease(g, p, e)
    BY <1>1
  <2>2. HoldsEvent(g, p, tok, e)
    BY <2>1, InLease
  <2>. QED
    BY <2>2 DEF HoldsEvent
<1>3. PICK k \in l.from .. l.through :
         Event(p, k) = e /\ \A i \in l.from .. k - 1 : AckableEffect(g, Event(p, i))
  <2>1. PICK k \in l.from .. l.through : Event(p, k) = e
    BY <1>2
  <2>2. k \in 1 .. Len(log[p])
    BY <1>2
  <2>3. SeqOf(p, e) = k
    BY <2>1, <2>2, SeqOfFacts
  <2>. QED
    BY <1>1, <2>1, <2>3
<1>4. f \in Effect /\ tok \in Nat \ {0} /\ tok <= tokens /\ EffectOK(g, e)
  BY DEF IInv, TypeOK, EffectsOK
<1>5. PICK x : /\ effects' = [effects EXCEPT ![<<g, e>>] = x]
               /\ x \in Effect /\ x.state = "pending" /\ x.attempts = f.attempts /\ x.tok = tok
  <2>1. CASE f.state = "none"
    <3> DEFINE y == [NoEffect EXCEPT !.state = "pending", !.digest = d, !.tok = tok]
    <3>1. effects' = [effects EXCEPT ![<<g, e>>] = y]
      BY <2>1 DEF BeginEffect
    <3>2. y \in Effect /\ y.state = "pending" /\ y.attempts = 0 /\ y.tok = tok
      BY <1>4 DEF NoEffect, Effect
    <3>3. f.attempts = 0
      BY <1>4, <2>1 DEF EffectOK
    <3>. QED
      BY <3>1, <3>2, <3>3
  <2>2. CASE f.state = "pending"
    <3> DEFINE y == [f EXCEPT !.retry = 0, !.tok = tok]
    <3>1. effects' = [effects EXCEPT ![<<g, e>>] = y]
      BY <2>2 DEF BeginEffect
    <3>2. y \in Effect /\ y.state = f.state /\ y.attempts = f.attempts /\ y.tok = tok
      BY <1>4, EffectUpdates
    <3>. QED
      BY <2>2, <3>1, <3>2
  <2>. QED
    BY <1>1, <2>1, <2>2
<1>6. TypeOK'
  <2>1. effects' \in [Groups \X Requests -> Effect]
    BY <1>5 DEF IInv, TypeOK
  <2>2. applied' \in [Groups \X Requests -> Nat]
    BY <1>1 DEF IInv, TypeOK
  <2>. QED
    BY <1>1, <2>1, <2>2 DEF IInv, TypeOK
<1>7. effects'[<<g, e>>] = x /\ applied'[<<g, e>>] = applied[<<g, e>>] + 1
  BY <1>1, <1>5 DEF IInv, TypeOK
<1>8. ASSUME NEW h \in Groups, NEW q \in Requests, <<h, q>> # <<g, e>>
      PROVE  /\ effects'[<<h, q>>] = effects[<<h, q>>] /\ applied'[<<h, q>>] = applied[<<h, q>>]
             /\ Bound(h, q.part, q)' <=> Bound(h, q.part, q)
  <2>1. effects'[<<h, q>>] = effects[<<h, q>>] /\ applied'[<<h, q>>] = applied[<<h, q>>]
    BY <1>1, <1>5, <1>8 DEF IInv, TypeOK
  <2>. QED
    BY <1>1, <2>1 DEF Bound
<1>9. ~ Settled(g, e) /\ ~ Bound(g, p, e)
  BY <1>1, <1>2 DEF Settled, Bound
<1>10. \A i \in l.from .. k - 1 : Settled(g, Event(p, i))
  BY <1>3 DEF Settled, AckableEffect
\* What was bound before it would lie before e, and be settled, or behind e, and
\* e be settled.
<1>11. ASSUME NEW q \in Requests PROVE ~ Bound(g, p, q)
  <2>1. SUFFICES ASSUME Bound(g, p, q) PROVE FALSE
    OBVIOUS
  <2>2. PICK i \in l.from .. l.through :
          Event(p, i) = q /\ \A j \in l.from .. i - 1 : Settled(g, Event(p, j))
    BY <2>1 DEF IInv, BoundOK, BoundAt, BoundInLease
  <2>3. ~ Settled(g, q) /\ q # e
    BY <1>9, <2>1 DEF Bound, Settled
  <2>4. i \in Int /\ k \in Int /\ l.from \in Int
    BY <1>2, <1>3 DEF Lease
  <2>5. CASE i < k
    <3>1. i \in l.from .. k - 1
      BY <2>2, <2>4, <2>5
    <3>. QED
      BY <1>10, <2>2, <2>3, <3>1
  <2>6. CASE k < i
    <3>1. k \in l.from .. i - 1
      BY <1>3, <2>4, <2>6
    <3>. QED
      BY <1>9, <1>3, <2>2, <3>1
  <2>7. CASE i = k
    BY <1>3, <2>2, <2>3, <2>7
  <2>. QED
    BY <2>4, <2>5, <2>6, <2>7
<1>12. EffectOK(g, e)'
  BY <1>1, <1>4, <1>5, <1>7, BusAssumption DEF EffectOK
<1>13. BoundAt(g, p)'
  <2>1. \A q \in Requests : Bound(g, p, q)' => q = e
    <3> SUFFICES ASSUME NEW q \in Requests, Bound(g, p, q)' PROVE q = e
      OBVIOUS
    <3>1. q.part = p
      BY DEF Bound
    <3>. QED
      BY <1>8, <1>11, <3>1
  <2>2. ASSUME NEW i \in l.from .. k - 1 PROVE Settled(g, Event(p, i))'
    <3>1. i \in 1 .. Len(log[p])
      BY <1>2, <1>3 DEF Lease
    <3>2. Event(p, i) \in Requests /\ Event(p, i)' = Event(p, i) /\ Settled(g, Event(p, i))
      BY <1>1, <1>10, <3>1, EventFacts DEF IInv, Event
    <3>. QED
      BY <1>8, <1>9, <3>2 DEF Settled
  <2>3. BoundInLease(g, p, e)'
    <3>1. Event(p, k)' = e
      BY <1>1, <1>3 DEF Event
    <3>. QED
      BY <1>1, <1>3, <2>2, <3>1 DEF BoundInLease
  <2>. QED
    BY <2>1, <2>3 DEF BoundAt
<1>14. AttemptsOf(g, e)'
  <2>1. AttemptsOf(g, e) /\ applied[<<g, e>>] \in Nat /\ f.attempts \in Nat
    BY <1>4 DEF IInv, AttemptsOK, TypeOK, Effect
  <2>2. OpenCount(g, e) = LostCount(g, e) /\ OpenCount(g, e) \in {0, 1}
    BY <1>1, <1>2, <1>4 DEF LostCount, OpenCount, Lost, Open, Bound, EffectOK
  <2>3. LostCount(g, e)' = 0 /\ OpenCount(g, e)' = 1
    BY <1>1, <1>2, <1>4, <1>5, <1>7 DEF LostCount, OpenCount, Lost, Open, Bound
  <2>4. effects'[<<g, e>>].attempts = f.attempts
    BY <1>5, <1>7
  <2>5. Cardinality(checkpoints[e.part]) \in Nat
    BY BusAssumption, FS_CardinalityType DEF IInv, TypeOK
  <2>. QED
    BY <1>1, <1>7, <2>1, <2>2, <2>3, <2>4, <2>5 DEF AttemptsOf
<1>15. leases'[<<g, p>>] \in {leases[<<g, p>>], None} /\ letters \subseteq letters'
  BY <1>1
<1>. QED
  BY <1>1, <1>2, <1>6, <1>8, <1>9, <1>12, <1>13, <1>14, <1>15, BearerStep

-----------------------------------------------------------------------------
(* poll_headers *)

(* The attempts of the lease are counted, whatever else is pending is not. *)
LEMMA MaterializedFacts ==
  ASSUME IInv, NEW g \in Groups, NEW p \in Partitions
  PROVE  LET eff == Materialized(g, p) IN
         /\ eff \in [Groups \X Requests -> Effect]
         /\ \A h \in Groups, e \in Requests :
              ~ (h = g /\ Bound(g, p, e)) => eff[<<h, e>>] = effects[<<h, e>>]
         /\ \A e \in Requests : Bound(g, p, e) =>
              /\ eff[<<g, e>>].attempts = effects[<<g, e>>].attempts + 1
              /\ eff[<<g, e>>].tok = 0 /\ eff[<<g, e>>].digest = effects[<<g, e>>].digest
              /\ \/ eff[<<g, e>>].state = "pending" /\ eff[<<g, e>>].attempts < MaxAttempts
                 \/ eff[<<g, e>>].state = "dead" /\ eff[<<g, e>>].attempts = MaxAttempts
<1> DEFINE eff == Materialized(g, p)
           F(x) == IF x[1] = g /\ Bound(g, p, x[2]) THEN Attempted(effects[x], 0) ELSE effects[x]
<1>1. eff = [x \in Groups \X Requests |-> F(x)]
  <2>1. \A e \in Requests : e \in (IF leases[<<g, p>>] = None THEN {}
                                    ELSE BoundTo(g, p, leases[<<g, p>>].tok)) <=> Bound(g, p, e)
    BY DEF BoundTo, Bound
  <2>2. \A x \in Groups \X Requests : x[2] \in Requests
    OBVIOUS
  <2>. QED
    BY <2>1, <2>2 DEF Materialized
<1>2. ASSUME NEW h \in Groups, NEW e \in Requests
      PROVE  /\ eff[<<h, e>>] \in Effect
             /\ ~ (h = g /\ Bound(g, p, e)) => eff[<<h, e>>] = effects[<<h, e>>]
             /\ h = g /\ Bound(g, p, e) =>
                 /\ eff[<<g, e>>].attempts = effects[<<g, e>>].attempts + 1
                 /\ eff[<<g, e>>].tok = 0 /\ eff[<<g, e>>].digest = effects[<<g, e>>].digest
                 /\ \/ eff[<<g, e>>].state = "pending" /\ eff[<<g, e>>].attempts < MaxAttempts
                    \/ eff[<<g, e>>].state = "dead" /\ eff[<<g, e>>].attempts = MaxAttempts
  <2>1. effects[<<h, e>>] \in Effect /\ now \in Nat
    BY DEF IInv, TypeOK
  <2>2. eff[<<h, e>>] = IF h = g /\ Bound(g, p, e) THEN Attempted(effects[<<h, e>>], 0)
                        ELSE effects[<<h, e>>]
    BY <1>1
  <2>3. CASE h = g /\ Bound(g, p, e)
    <3>1. eff[<<g, e>>] = Attempted(effects[<<g, e>>], 0)
      BY <2>2, <2>3
    <3>2. effects[<<g, e>>].attempts < MaxAttempts /\ effects[<<g, e>>].state = "pending"
      BY <2>3 DEF IInv, EffectsOK, EffectOK, Bound
    <3> HIDE DEF eff
    <3>. QED
      BY <2>1, <2>3, <3>1, <3>2, AttemptedFacts
  <2>4. CASE ~ (h = g /\ Bound(g, p, e))
    BY <2>1, <2>2, <2>4
  <2>. QED
    BY <2>3, <2>4
<1>3. eff \in [Groups \X Requests -> Effect]
  <2> HIDE DEF F, eff
  <2>1. \A x \in Groups \X Requests : eff[x] \in Effect
    <3>1. \A h \in Groups, e \in Requests : eff[<<h, e>>] \in Effect
      BY <1>2
    <3>2. \A x \in Groups \X Requests : \E h \in Groups, e \in Requests : x = <<h, e>>
      OBVIOUS
    <3>. QED
      BY <3>1, <3>2
  <2>. QED
    BY <1>1, <2>1
<1>. QED
  BY <1>2, <1>3

LEMMA PollIInv ==
  ASSUME IInv, NEW g \in Groups, NEW p \in Partitions, NEW gen \in Generations, Poll(g, p, gen)
  PROVE  IInv'
<1> DEFINE c == cursors[<<g, p>>]
           eff == Materialized(g, p)
           grant(n) == [tok |-> tokens + 1, from |-> c.acked + 1,
                        through |-> c.acked + 1 + n - 1, expires |-> now + LeaseTime]
<1>0. PICK n \in BatchLengths(g, p, c.acked + 1, eff) :
        \/ leases' = [leases EXCEPT ![<<g, p>>] = None] /\ tokens' = tokens
        \/ n > 0 /\ leases' = [leases EXCEPT ![<<g, p>>] = grant(n)] /\ tokens' = tokens + 1
  BY DEF Poll
<1> DEFINE new == grant(n)
<1>1. /\ c # None /\ c.gap = None
      /\ effects' = eff
      /\ letters' = letters \cup NewlyDead(effects, eff)
      /\ \/ leases' = [leases EXCEPT ![<<g, p>>] = None] /\ tokens' = tokens
         \/ /\ n > 0 /\ leases' = [leases EXCEPT ![<<g, p>>] = new] /\ tokens' = tokens + 1
      /\ UNCHANGED <<now, log, last, first, payloads, cursors, applied, snapshots, checkpoints>>
  BY <1>0 DEF Poll, HasCursor, producerVars, retentionVars
<1>2. /\ eff \in [Groups \X Requests -> Effect]
      /\ \A h \in Groups, e \in Requests :
           ~ (h = g /\ Bound(g, p, e)) => eff[<<h, e>>] = effects[<<h, e>>]
      /\ \A e \in Requests : Bound(g, p, e) =>
           /\ eff[<<g, e>>].attempts = effects[<<g, e>>].attempts + 1
           /\ eff[<<g, e>>].tok = 0
           /\ \/ eff[<<g, e>>].state = "pending" /\ eff[<<g, e>>].attempts < MaxAttempts
              \/ eff[<<g, e>>].state = "dead" /\ eff[<<g, e>>].attempts = MaxAttempts
  BY MaterializedFacts
<1>3. /\ c \in Cursor /\ c.acked \in Nat /\ tokens \in Nat /\ now \in Nat
      /\ first[p] \in Nat \ {0} /\ Len(log[p]) \in Nat
  BY <1>1 DEF IInv, TypeOK, Cursor
<1>4. n \in 0 .. MaxBatch /\ \A i \in c.acked + 1 .. c.acked + 1 + n - 1 : i \in Rows(p)
  <2>1. c.acked + 1 \in Nat
    BY <1>3
  <2> HIDE DEF c, eff
  <2>. QED
    BY <1>0, <2>1, BatchFacts
<1> HIDE DEF eff
<1>5. n \in Nat
  BY <1>4, BusAssumption
<1>6. new \in Lease
  <2> HIDE DEF c
  <2>1. now + LeaseTime \in Nat /\ c.acked + 1 + n - 1 \in Nat
    BY <1>3, <1>5, BusAssumption
  <2>. QED
    BY <1>3, <2>1 DEF Lease
<1>7. tokens' \in Nat /\ tokens <= tokens'
  BY <1>1, <1>3
<1>8. TypeOK'
  <2>1. leases' \in [Groups \X Partitions -> Lease \cup {None}]
    BY <1>1, <1>6 DEF IInv, TypeOK
  <2>. QED
    BY <1>1, <1>2, <1>7, <2>1 DEF IInv, TypeOK
<1>9. /\ \A h \in Groups, q \in Partitions : <<h, q>> # <<g, p>> =>
           leases'[<<h, q>>] = leases[<<h, q>>]
      /\ \/ leases'[<<g, p>>] = None
         \/ n > 0 /\ leases'[<<g, p>>] = new /\ tokens' = tokens + 1
  BY <1>1 DEF IInv, TypeOK
<1>10. ASSUME NEW h \in Groups, NEW e \in Requests, Settled(h, e)
       PROVE  effects'[<<h, e>>] = effects[<<h, e>>]
  <2>1. ~ (h = g /\ Bound(g, p, e))
    BY <1>10 DEF Settled, Bound
  <2>. QED
    BY <1>1, <1>2, <2>1
<1>11. ConsumersOK'
  <2> SUFFICES ASSUME NEW h \in Groups, NEW q \in Partitions PROVE ConsumerOK(h, q)'
    BY DEF ConsumersOK
  <2>1. ConsumerOK(h, q) /\ TypeOK
    BY DEF IInv, ConsumersOK
  <2>2. \A e \in Requests : Settled(h, e) => effects'[<<h, e>>].state = effects[<<h, e>>].state
    BY <1>10
  <2>3. CASE leases'[<<h, q>>] \in {leases[<<h, q>>], None}
    BY <1>1, <1>7, <1>8, <2>1, <2>2, <2>3, ConsumerFrame
  <2>4. CASE h = g /\ q = p /\ n > 0 /\ leases'[<<g, p>>] = new /\ tokens' = tokens + 1
    <3>1. c.acked + 1 \in Rows(p) /\ c.acked + 1 + n - 1 \in Rows(p)
      <4>1. /\ c.acked + 1 \in c.acked + 1 .. c.acked + 1 + n - 1
            /\ c.acked + 1 + n - 1 \in c.acked + 1 .. c.acked + 1 + n - 1
        BY <1>3, <1>5, <2>4
      <4>. QED
        BY <1>4, <4>1
    <3>2. CursorOK(g, p)'
      <4>1. ~ (c.acked + 1 < first[p]) /\ c.acked <= Len(log[p])
        BY <1>3, <3>1 DEF Rows
      <4>. QED
        BY <1>1, <4>1 DEF CursorOK
    <3>3. LeaseOK(g, p)'
      <4>1. /\ new.tok = tokens + 1 /\ new.from = c.acked + 1 /\ new.through = c.acked + 1 + n - 1
            /\ new.tok \in 1 .. tokens + 1
            /\ first[p] <= new.from /\ new.from <= new.through /\ new.through <= Len(log[p])
        BY <1>3, <1>5, <2>4, <3>1 DEF Rows
      <4> HIDE DEF new
      <4>. QED
        BY <1>1, <2>4, <4>1 DEF LeaseOK
    <3>4. ASSUME NEW i \in 1 .. c.acked PROVE SkipOK(g, p, i)'
      <4>1. SkipOK(g, p, i)
        BY <1>1, <2>1, <2>4, <3>4 DEF ConsumerOK
      <4>2. i \in 1 .. Len(log[p])
        BY <1>3, <3>1 DEF Rows
      <4>3. Event(p, i) \in Requests /\ Event(p, i)' = Event(p, i)
        BY <1>1, <2>1, <4>2, EventFacts DEF Event
      <4>. QED
        BY <1>1, <2>2, <2>4, <4>1, <4>3 DEF SkipOK, Settled
    <3>. QED
      BY <1>1, <2>4, <3>2, <3>3, <3>4 DEF ConsumerOK
  <2>. QED
    BY <1>9, <2>3, <2>4
<1>12. EffectsOK'
  <2> SUFFICES ASSUME NEW h \in Groups, NEW e \in Requests PROVE EffectOK(h, e)'
    BY DEF EffectsOK
  <2>1. EffectOK(h, e) /\ effects[<<h, e>>] \in Effect
    BY DEF IInv, EffectsOK, TypeOK
  <2>2. CASE h = g /\ Bound(g, p, e)
    <3>1. effects[<<g, e>>].state = "pending"
      BY <2>2 DEF Bound
    <3>2. <<g, e>> \in letters' \/ eff[<<g, e>>].state # "dead"
      BY <1>1, <3>1 DEF NewlyDead
    <3>. QED
      BY <1>1, <1>2, <1>7, <2>2, <3>2 DEF EffectOK
  <2>3. CASE ~ (h = g /\ Bound(g, p, e))
    <3>1. effects'[<<h, e>>] = effects[<<h, e>>]
      BY <1>1, <1>2, <2>3
    <3>. QED
      BY <1>1, <1>3, <1>7, <2>1, <3>1 DEF EffectOK, Effect
  <2>. QED
    BY <2>2, <2>3
\* No effect knows the new token, and the old one is forgotten.
<1>13. ASSUME NEW e \in Requests PROVE ~ Bound(g, p, e)'
  <2>1. EffectOK(g, e) /\ effects[<<g, e>>] \in Effect
    BY DEF IInv, EffectsOK, TypeOK
  <2>2. effects'[<<g, e>>].tok \in Nat /\ effects'[<<g, e>>].tok <= tokens
    BY <1>1, <1>2, <1>3, <2>1 DEF EffectOK, Effect
  <2>3. new.tok = tokens + 1
    OBVIOUS
  <2> HIDE DEF new
  <2>. QED
    BY <1>3, <1>9, <2>2, <2>3 DEF Bound
<1>14. BoundOK'
  <2> SUFFICES ASSUME NEW h \in Groups, NEW q \in Partitions PROVE BoundAt(h, q)'
    BY DEF BoundOK
  <2>1. CASE h = g /\ q = p
    BY <1>13, <2>1 DEF BoundAt
  <2>2. CASE ~ (h = g /\ q = p)
    <3>1. leases'[<<h, q>>] = leases[<<h, q>>]
      BY <1>9, <2>2
    <3>2. ASSUME NEW e \in Requests, Bound(h, q, e)' PROVE Bound(h, q, e)
      <4>1. e.part = q
        BY <3>2 DEF Bound
      <4>2. ~ (h = g /\ Bound(g, p, e))
        BY <2>2, <4>1 DEF Bound
      <4>3. effects'[<<h, e>>] = effects[<<h, e>>]
        BY <1>1, <1>2, <4>2
      <4>. QED
        BY <3>1, <3>2, <4>3 DEF Bound
    <3>3. \A e \in Requests : Settled(h, e) => Settled(h, e)'
      BY <1>10 DEF Settled
    <3>. QED
      BY <1>1, <3>1, <3>2, <3>3, BoundFrame
  <2>. QED
    BY <2>1, <2>2
<1>15. AttemptsOK'
  <2> SUFFICES ASSUME NEW h \in Groups, NEW e \in Requests PROVE AttemptsOf(h, e)'
    BY DEF AttemptsOK
  <2>1. e.part \in Partitions
    BY BusAssumption
  <2>2. CASE h = g /\ Bound(g, p, e)
    <3>1. AttemptsOf(g, e) /\ effects[<<g, e>>] \in Effect
      BY DEF IInv, AttemptsOK, TypeOK
    <3>2. e.part = p /\ effects[<<g, e>>].tok \in 1 .. tokens
      BY <2>2 DEF Bound, IInv, ConsumersOK, ConsumerOK, LeaseOK
    <3>3. LostCount(g, e) = 0 /\ OpenCount(g, e) = 1
      BY <1>3, <2>2, <3>2 DEF LostCount, OpenCount, Lost, Open, Bound
    <3>4. LostCount(g, e)' = 0 /\ OpenCount(g, e)' = 0
      BY <1>1, <1>2, <2>2 DEF LostCount, OpenCount, Lost, Open
    <3>5. effects'[<<g, e>>].attempts = effects[<<g, e>>].attempts + 1
      BY <1>1, <1>2, <2>2
    <3>6. effects[<<g, e>>].attempts \in Nat
      BY <3>1 DEF Effect
    <3>. QED
      BY <1>1, <2>2, <3>1, <3>3, <3>4, <3>5, <3>6 DEF AttemptsOf
  <2>3. CASE ~ (h = g /\ Bound(g, p, e))
    <3>1. effects'[<<h, e>>] = effects[<<h, e>>]
      BY <1>1, <1>2, <2>3
    <3>2. Bound(h, e.part, e)' <=> Bound(h, e.part, e)
      <4>1. CASE h = g /\ e.part = p
        BY <1>13, <2>3, <4>1
      <4>2. CASE ~ (h = g /\ e.part = p)
        BY <1>9, <2>1, <3>1, <4>2 DEF Bound
      <4>. QED
        BY <4>1, <4>2
    <3>. QED
      BY <1>1, <3>1, <3>2, AttemptsFrame
  <2>. QED
    BY <2>2, <2>3
<1>. QED
  BY <1>1, <1>8, <1>11, <1>12, <1>14, <1>15, LogFrame DEF IInv

-----------------------------------------------------------------------------
(* compact_retention *)

(* A run that compacts nothing leaves a checkpoint.                        *)
LEMMA CheckpointAttempts ==
  ASSUME IInv, NEW p \in Partitions, NEW run \in Runs, run \notin checkpoints[p],
         checkpoints' = [checkpoints EXCEPT ![p] = @ \cup {run}],
         UNCHANGED <<effects, applied>>,
         \A h \in Groups, q \in Partitions : q # p => leases'[<<h, q>>] = leases[<<h, q>>]
  PROVE  /\ checkpoints' \in [Partitions -> SUBSET Runs]
         /\ \A q \in Partitions : IsFiniteSet(checkpoints'[q])
         /\ AttemptsOK'
<1>1. /\ checkpoints \in [Partitions -> SUBSET Runs]
      /\ \A q \in Partitions : IsFiniteSet(checkpoints[q])
  BY DEF IInv, TypeOK
<1>2. checkpoints'[p] = checkpoints[p] \cup {run}
      /\ \A q \in Partitions : q # p => checkpoints'[q] = checkpoints[q]
  BY <1>1
<1>3. /\ IsFiniteSet(checkpoints'[p]) /\ Cardinality(checkpoints[p]) \in Nat
      /\ Cardinality(checkpoints'[p]) = Cardinality(checkpoints[p]) + 1
  BY <1>1, <1>2, FS_AddElement, FS_CardinalityType
<1>4. \A q \in Partitions : IsFiniteSet(checkpoints'[q])
  BY <1>1, <1>2, <1>3
<1>5. checkpoints' \in [Partitions -> SUBSET Runs]
  BY <1>1
<1>6. AttemptsOK'
  <2> SUFFICES ASSUME NEW h \in Groups, NEW e \in Requests PROVE AttemptsOf(h, e)'
    BY DEF AttemptsOK
  <2>1. e.part \in Partitions
    BY BusAssumption
  <2>2. CASE e.part = p
    <3>1. AttemptsOf(h, e) /\ applied[<<h, e>>] \in Nat /\ effects[<<h, e>>].attempts \in Nat
      BY DEF IInv, AttemptsOK, TypeOK, Effect
    <3>2. OpenCount(h, e)' = OpenCount(h, e) /\ OpenCount(h, e) \in {0, 1}
      BY DEF OpenCount, Open
    <3>3. LostCount(h, e)' \in {0, 1} /\ LostCount(h, e) \in {0, 1}
      BY DEF LostCount
    <3>4. checkpoints'[e.part] # {}
      BY <1>2, <2>2
    <3>5. applied[<<h, e>>] + LostCount(h, e)
            <= effects[<<h, e>>].attempts + OpenCount(h, e) + Cardinality(checkpoints[p])
      BY <2>2, <3>1 DEF AttemptsOf
    <3>6. applied[<<h, e>>] + LostCount(h, e)'
            <= effects[<<h, e>>].attempts + OpenCount(h, e) + Cardinality(checkpoints'[p])
      BY <1>3, <3>1, <3>2, <3>3, <3>5
    <3>. QED
      BY <2>2, <3>2, <3>4, <3>6 DEF AttemptsOf
  <2>3. CASE e.part # p
    <3>1. leases'[<<h, e.part>>] = leases[<<h, e.part>>]
      BY <2>1, <2>3
    <3>2. Bound(h, e.part, e)' <=> Bound(h, e.part, e)
      BY <3>1 DEF Bound
    <3>. QED
      BY <1>2, <2>1, <2>3, <3>2, AttemptsFrame
  <2>. QED
    BY <2>2, <2>3
<1>. QED
  BY <1>4, <1>5, <1>6

(* A header goes only when its payload is due, too.                        *)
LEMMA HeaderAfterPayload ==
  ASSUME NEW row \in Row, now \in Nat, Elapsed(row, HeaderKeep)
  PROVE  Elapsed(row, PayloadKeep)
<1>1. row.req \in Requests /\ row.at \in Nat
  BY DEF Row
<1>2. \/ HeaderKeep[row.req.class] = Never
      \/ /\ HeaderKeep[row.req.class] \in Nat /\ PayloadKeep[row.req.class] # Never
         /\ PayloadKeep[row.req.class] <= HeaderKeep[row.req.class]
  BY <1>1, BusAssumption
<1>3. PayloadKeep[row.req.class] = Never \/ PayloadKeep[row.req.class] \in Nat
  BY <1>1, BusAssumption
<1>. QED
  BY <1>1, <1>2, <1>3 DEF Elapsed

LEMMA CompactRetentionIInv ==
  ASSUME IInv, NEW p \in Partitions, NEW run \in Runs, NEW watermark \in 0 .. Len(log[p]),
         NEW s \in snapshots[p] \cup {None}, CompactRetention(p, run, watermark, s)
  PROVE  IInv'
<1> DEFINE thru == DueThrough(p, watermark)
<1>1. /\ run \notin checkpoints[p]
      /\ checkpoints' = [checkpoints EXCEPT ![p] = @ \cup {run}]
      /\ UNCHANGED <<now, log, last, effects, letters, tokens, applied, snapshots>>
  BY DEF CompactRetention, producerVars
<1>2. /\ first \in [Partitions -> Nat \ {0}] /\ first[p] \in Nat \ {0}
      /\ Len(log[p]) \in Nat /\ watermark \in Nat /\ watermark <= Len(log[p]) /\ now \in Nat
  BY DEF IInv, TypeOK
<1>3. \/ thru = first[p] - 1
      \/ /\ thru \in first[p] .. watermark
         /\ \A i \in first[p] .. thru : Elapsed(log[p][i], HeaderKeep)
  BY <1>2, DueThroughFacts DEF IInv
<1>4. PICK through : through = thru
  OBVIOUS
<1> HIDE DEF thru
<1>5. EffectsOK'
  BY <1>1 DEF IInv, EffectsOK, EffectOK
<1>6. CASE ~ (through >= first[p])
  <2>1. UNCHANGED <<leases, cursors, first, payloads>>
    BY <1>4, <1>6 DEF CompactRetention, thru
  <2>2. /\ checkpoints' \in [Partitions -> SUBSET Runs]
        /\ \A q \in Partitions : IsFiniteSet(checkpoints'[q])
        /\ AttemptsOK'
    BY <1>1, <2>1, CheckpointAttempts
  <2>3. TypeOK'
    BY <1>1, <2>1, <2>2 DEF IInv, TypeOK
  <2>4. ConsumersOK'
    <3> SUFFICES ASSUME NEW h \in Groups, NEW q \in Partitions PROVE ConsumerOK(h, q)'
      BY DEF ConsumersOK
    <3>1. ConsumerOK(h, q) /\ TypeOK /\ tokens <= tokens'
      BY <1>1 DEF IInv, ConsumersOK, TypeOK
    <3>. QED
      BY <1>1, <2>1, <2>3, <3>1, ConsumerFrame
  <2>5. BoundOK'
    <3> SUFFICES ASSUME NEW h \in Groups, NEW q \in Partitions PROVE BoundAt(h, q)'
      BY DEF BoundOK
    <3>1. \A e \in Requests : Bound(h, q, e)' => Bound(h, q, e)
      BY <1>1, <2>1 DEF Bound
    <3>2. \A e \in Requests : Settled(h, e) => Settled(h, e)'
      BY <1>1 DEF Settled
    <3>. QED
      BY <1>1, <2>1, <3>1, <3>2, BoundFrame
  <2>. QED
    BY <1>1, <1>5, <2>1, <2>2, <2>3, <2>4, <2>5, LogFrame DEF IInv
<1>7. CASE through >= first[p]
  <2> DEFINE lagging == Lagging(p, through)
             gapOf(x) == [from |-> cursors[x].acked + 1, through |-> through]
  <2>1. /\ through \in Nat /\ first[p] <= through /\ through <= Len(log[p])
        /\ \A i \in first[p] .. through : Elapsed(log[p][i], HeaderKeep)
    BY <1>2, <1>3, <1>4, <1>7
  <2>2. /\ s # None => s.through = through
        /\ lagging # {} => s # None
        /\ leases' = [c \in Groups \X Partitions |->
                        IF c[2] = p /\ c[1] \in lagging THEN None ELSE leases[c]]
        /\ cursors' = [c \in Groups \X Partitions |->
                        IF c[2] = p /\ c[1] \in lagging
                        THEN [cursors[c] EXCEPT !.gap = gapOf(c)]
                        ELSE cursors[c]]
        /\ first' = [first EXCEPT ![p] = through + 1]
        /\ payloads' = [b \in Payloads |->
                         IF b \in ExpiredWith(p, through) THEN "expired" ELSE payloads[b]]
    BY <1>4, <1>7 DEF CompactRetention, thru
  <2>3. /\ first'[p] = through + 1 /\ \A q \in Partitions : q # p => first'[q] = first[q]
        /\ first' \in [Partitions -> Nat \ {0}]
        /\ \A q \in Partitions : first[q] <= first'[q] /\ first[q] \in Nat /\ first'[q] \in Nat
    BY <1>2, <2>1, <2>2
  <2>4. ASSUME NEW h \in Groups, NEW q \in Partitions
        PROVE  IF q = p /\ h \in lagging
               THEN /\ cursors'[<<h, q>>] = [gen |-> cursors[<<h, p>>].gen,
                           acked |-> cursors[<<h, p>>].acked, gap |-> gapOf(<<h, p>>),
                           opened |-> cursors[<<h, p>>].opened]
                    /\ cursors'[<<h, q>>] \in Cursor
                    /\ leases'[<<h, q>>] = None
               ELSE /\ cursors'[<<h, q>>] = cursors[<<h, q>>]
                    /\ leases'[<<h, q>>] = leases[<<h, q>>]
    <3>1. CASE q = p /\ h \in lagging
      <4>1. cursors[<<h, p>>] \in Cursor /\ cursors[<<h, p>>].acked \in Nat
        BY <3>1 DEF Lagging, IInv, TypeOK, Cursor
      <4>2. cursors'[<<h, q>>] = [cursors[<<h, p>>] EXCEPT !.gap = gapOf(<<h, p>>)]
        BY <2>2, <3>1
      <4>3. gapOf(<<h, p>>) \in Gap
        BY <2>1, <4>1 DEF Gap
      <4> HIDE DEF gapOf, lagging
      <4>4. cursors'[<<h, q>>] = [gen |-> cursors[<<h, p>>].gen,
                           acked |-> cursors[<<h, p>>].acked, gap |-> gapOf(<<h, p>>),
                           opened |-> cursors[<<h, p>>].opened]
        BY <4>1, <4>2, CursorUpdates
      <4>5. cursors'[<<h, q>>] \in Cursor
        BY <4>1, <4>3, <4>4 DEF Cursor
      <4>. QED
        BY <2>2, <3>1, <4>4, <4>5
    <3>2. CASE ~ (q = p /\ h \in lagging)
      BY <2>2, <3>2
    <3>. QED
      BY <3>1, <3>2
  <2>5. \A h \in Groups : h \in lagging <=>
          cursors[<<h, p>>] # None /\ cursors[<<h, p>>].acked < through
    BY DEF Lagging
  <2>6. lagging # {} => \E x \in snapshots[p] : x.through = through
    BY <2>2
  <2> HIDE DEF lagging
  <2>7. /\ checkpoints' \in [Partitions -> SUBSET Runs]
        /\ \A q \in Partitions : IsFiniteSet(checkpoints'[q])
        /\ AttemptsOK'
    <3>1. \A h \in Groups, q \in Partitions : q # p => leases'[<<h, q>>] = leases[<<h, q>>]
      BY <2>4
    <3>. QED
      BY <1>1, <3>1, CheckpointAttempts
  <2>8. TypeOK'
    <3>1. cursors' \in [Groups \X Partitions -> Cursor \cup {None}]
      <4>1. \A h \in Groups, q \in Partitions : cursors'[<<h, q>>] \in Cursor \cup {None}
        BY <2>4 DEF IInv, TypeOK
      <4>2. \A x \in Groups \X Partitions : \E h \in Groups, q \in Partitions : x = <<h, q>>
        OBVIOUS
      <4>3. \A x \in Groups \X Partitions : cursors'[x] \in Cursor \cup {None}
        BY <4>1, <4>2
      <4>. QED
        BY <2>2, <4>3
    <3>2. leases' \in [Groups \X Partitions -> Lease \cup {None}]
      BY <2>2 DEF IInv, TypeOK
    <3>3. payloads' \in [Payloads -> {"absent", "present", "reference", "expired"}]
      BY <2>2 DEF IInv, TypeOK
    <3>. QED
      BY <1>1, <2>3, <2>7, <3>1, <3>2, <3>3 DEF IInv, TypeOK
  <2>9. LogOK'
    <3> SUFFICES ASSUME NEW q \in Partitions
                 PROVE  /\ first'[q] <= Len(log'[q]) + 1
                        /\ \A i \in 1 .. Len(log'[q]) : Event(q, i)'.part = q
      BY DEF LogOK
    <3>1. first[q] <= Len(log[q]) + 1 /\ \A i \in 1 .. Len(log[q]) : Event(q, i).part = q
      BY DEF IInv, LogOK
    <3>. QED
      BY <1>1, <2>1, <2>3, <3>1 DEF Event
  <2>10. ProducerOrder'
    BY <1>1 DEF IInv, ProducerOrder, Accepted, Event
  <2>11. ConsumersOK'
    <3> SUFFICES ASSUME NEW h \in Groups, NEW q \in Partitions PROVE ConsumerOK(h, q)'
      BY DEF ConsumersOK
    <3>1. ConsumerOK(h, q) /\ TypeOK /\ tokens <= tokens'
      BY <1>1 DEF IInv, ConsumersOK, TypeOK
    <3>2. CASE q # p
      <4>1. /\ cursors'[<<h, q>>] = cursors[<<h, q>>] /\ leases'[<<h, q>>] = leases[<<h, q>>]
            /\ first'[q] = first[q]
        BY <2>3, <2>4, <3>2
      <4>. QED
        BY <1>1, <2>8, <3>1, <4>1, ConsumerFrame
    <3>3. ASSUME NEW i, SkipOK(h, p, i), i \in Nat PROVE SkipOK(h, p, i)'
      BY <1>1, <2>3, <3>3 DEF SkipOK, Event
    <3>4. CASE q = p /\ h \in lagging
      <4> DEFINE c == cursors[<<h, p>>]
                 d == [gen |-> c.gen, acked |-> c.acked, gap |-> gapOf(<<h, p>>),
                       opened |-> c.opened]
      <4>1. /\ c # None /\ c \in Cursor /\ c.acked < through /\ c.acked \in Nat
            /\ c.acked <= Len(log[p])
            /\ \A i \in 1 .. c.acked : SkipOK(h, p, i)
        BY <2>5, <3>1, <3>4 DEF ConsumerOK, CursorOK, TypeOK, Cursor
      <4>2. cursors'[<<h, p>>] = d /\ leases'[<<h, p>>] = None
        BY <2>4, <3>4
      <4>3. /\ d.acked = c.acked /\ d.gap.from = c.acked + 1 /\ d.gap.through = through
            /\ d.gap # None
        <5>1. d.gap \in Gap
          BY <2>1, <4>1 DEF Gap
        <5>. QED
          BY <5>1, NoneFacts
      <4>4. \E x \in snapshots'[p] : x.through = through
        BY <1>1, <2>6, <3>4
      <4> HIDE DEF c, d
      <4>5. CursorOK(h, p)'
        <5>1. d.gap.from <= d.gap.through /\ d.gap.through + 1 = first'[p]
          BY <2>1, <2>3, <4>1, <4>3
        <5>. QED
          BY <1>1, <4>1, <4>2, <4>3, <4>4, <5>1 DEF CursorOK
      <4>6. LeaseOK(h, p)'
        BY <4>2 DEF LeaseOK
      <4>. QED
        BY <3>3, <3>4, <4>1, <4>2, <4>3, <4>5, <4>6 DEF ConsumerOK
    <3>5. CASE q = p /\ h \notin lagging
      <4> DEFINE c == cursors[<<h, p>>]
                 l == leases[<<h, p>>]
      <4>1. cursors'[<<h, p>>] = c /\ leases'[<<h, p>>] = l
        BY <2>4, <3>5
      <4>2. CASE c = None
        BY <3>1, <3>5, <4>1, <4>2 DEF ConsumerOK, CursorOK, LeaseOK
      <4>3. CASE c # None
        <5>1. c \in Cursor /\ c.acked \in Nat /\ ~ (c.acked < through)
          BY <2>5, <3>1, <3>5, <4>3 DEF TypeOK, Cursor
        <5>2. /\ c.acked <= Len(log[p])
              /\ c.gap # None => c.gap.from = c.acked + 1 /\ c.gap.from <= c.gap.through
                                 /\ c.gap.through + 1 = first[p]
              /\ l # None => /\ l.tok \in 1 .. tokens /\ l.from = c.acked + 1
                             /\ l.from <= l.through /\ l.through <= Len(log[p])
              /\ \A i \in 1 .. c.acked : SkipOK(h, p, i)
          BY <3>1, <3>5, <4>3 DEF ConsumerOK, CursorOK, LeaseOK
        <5>3. c.gap = None
          <6>1. SUFFICES ASSUME c.gap # None PROVE FALSE
            OBVIOUS
          <6>2. c.gap.through \in Nat
            BY <5>1, <6>1 DEF Cursor, Gap
          <6>. QED
            BY <1>2, <2>1, <5>1, <5>2, <6>1, <6>2
        <5>4. ~ (c.acked + 1 < first'[p]) /\ first'[p] <= c.acked + 1
          BY <2>1, <2>3, <5>1
        <5> HIDE DEF c, l
        <5>5. CursorOK(h, p)'
          BY <1>1, <4>1, <5>2, <5>3, <5>4 DEF CursorOK
        <5>6. LeaseOK(h, p)'
          BY <1>1, <4>1, <4>3, <5>2, <5>4 DEF LeaseOK
        <5>. QED
          BY <3>3, <3>5, <4>1, <5>1, <5>2, <5>5, <5>6 DEF ConsumerOK
      <4>. QED
        BY <4>2, <4>3
    <3>. QED
      BY <3>2, <3>4, <3>5
  <2>12. BoundOK'
    <3> SUFFICES ASSUME NEW h \in Groups, NEW q \in Partitions PROVE BoundAt(h, q)'
      BY DEF BoundOK
    <3>1. CASE leases'[<<h, q>>] = None
      BY <3>1, BoundNone
    <3>2. CASE leases'[<<h, q>>] = leases[<<h, q>>]
      <4>1. \A e \in Requests : Bound(h, q, e)' => Bound(h, q, e)
        BY <1>1, <3>2 DEF Bound
      <4>2. \A e \in Requests : Settled(h, e) => Settled(h, e)'
        BY <1>1 DEF Settled
      <4>. QED
        BY <1>1, <3>2, <4>1, <4>2, BoundFrame
    <3>. QED
      BY <2>4, <3>1, <3>2
  <2>13. BodiesOK'
    <3> SUFFICES ASSUME NEW b \in Payloads \cap Managed PROVE BodyOK(b)'
      BY DEF BodiesOK
    <3>1. BodyOK(b)
      BY DEF IInv, BodiesOK
    <3>2. payloads'[b] = IF b \in ExpiredWith(p, through) THEN "expired" ELSE payloads[b]
      BY <2>2
    <3>3. ASSUME NEW q \in Partitions, NEW i
          PROVE  /\ i \in Rows(q)' => i \in Rows(q)
                 /\ Event(q, i)' = Event(q, i)
                 /\ i \in Rows(q) /\ ~ (q = p /\ i \in first[p] .. through) => i \in Rows(q)'
                 /\ Elapsed(log[q][i], PayloadKeep)' <=> Elapsed(log[q][i], PayloadKeep)
      <4>1. Len(log[q]) \in Nat
        BY DEF IInv, TypeOK
      <4>2. i \in Rows(q)' => i \in Rows(q)
        BY <1>1, <2>3, <4>1 DEF Rows
      <4>3. i \in Rows(q) /\ ~ (q = p /\ i \in first[p] .. through) => i \in Rows(q)'
        BY <1>1, <2>1, <2>3, <4>1 DEF Rows
      <4>. QED
        BY <1>1, <4>2, <4>3 DEF Event, Elapsed
    <3>4. ASSUME NEW q \in Partitions, NEW i \in Rows(q)', Event(q, i)'.payload = b,
                 ~ Elapsed(log[q][i], PayloadKeep)'
          PROVE  payloads'[b] = "present"
      <4>1. i \in Rows(q) /\ Event(q, i).payload = b /\ ~ Elapsed(log[q][i], PayloadKeep)
        BY <3>3, <3>4
      <4>2. payloads[b] = "present"
        BY <3>1, <4>1 DEF BodyOK
      <4>3. b \notin ExpiredWith(p, through)
        BY <4>1 DEF ExpiredWith
      <4>. QED
        BY <3>2, <4>2, <4>3
    <3>5. ASSUME payloads'[b] = "present"
          PROVE  \E q \in Partitions : \E i \in Rows(q)' : Event(q, i)'.payload = b
      <4>1. payloads[b] = "present" /\ b \notin ExpiredWith(p, through)
        BY <3>2, <3>5
      <4>2. PICK q \in Partitions : \E i \in Rows(q) : Event(q, i).payload = b
        BY <3>1, <4>1 DEF BodyOK
      <4>3. PICK i \in Rows(q) : Event(q, i).payload = b
        BY <4>2
      <4>4. CASE i \in Rows(q)'
        BY <3>3, <4>3, <4>4
      \* The row goes, but another one still needs the body, and is not due.
      <4>5. CASE i \notin Rows(q)'
        <5>1. q = p /\ i \in first[p] .. through
          BY <3>3, <4>5
        <5>2. PICK r \in Partitions : \E j \in Rows(r) :
                Event(r, j).payload = b /\ ~ Elapsed(log[r][j], PayloadKeep)
          BY <4>1, <4>3, <5>1 DEF ExpiredWith
        <5>3. PICK j \in Rows(r) :
                Event(r, j).payload = b /\ ~ Elapsed(log[r][j], PayloadKeep)
          BY <5>2
        <5>4. ~ (r = p /\ j \in first[p] .. through)
          <6>1. SUFFICES ASSUME r = p, j \in first[p] .. through PROVE FALSE
            OBVIOUS
          <6>2. j \in 1 .. Len(log[p])
            BY <1>2, <2>1, <6>1
          <6>3. log[p][j] \in Row /\ Elapsed(log[p][j], HeaderKeep)
            BY <2>1, <6>1, <6>2, EventFacts DEF IInv
          <6>4. Elapsed(log[p][j], PayloadKeep)
            BY <1>2, <6>3, HeaderAfterPayload
          <6>. QED
            BY <5>3, <6>1, <6>4
        <5>5. j \in Rows(r)' /\ Event(r, j)'.payload = b
          BY <3>3, <5>3, <5>4
        <5>. QED
          BY <5>5
      <4>. QED
        BY <4>4, <4>5
    <3>. QED
      BY <3>4, <3>5 DEF BodyOK
  <2>. QED
    BY <1>5, <2>7, <2>8, <2>9, <2>10, <2>11, <2>12, <2>13 DEF IInv
<1>. QED
  BY <1>6, <1>7

-----------------------------------------------------------------------------
(* The invariant *)

LEMMA NextIInv ==
  ASSUME IInv, [Next]_vars
  PROVE  IInv'
<1>1. CASE UNCHANGED vars
  BY <1>1, StutterIInv DEF vars, core, producerVars, consumerVars, retentionVars
<1>2. CASE Tick
  BY <1>2, TickIInv
<1>3. CASE Produce
  BY <1>3, AppendEventIInv DEF Produce
<1>4. CASE Consume
  <2>1. PICK g \in Groups, p \in Partitions, gen \in Generations :
          \/ RecordManifest(g, gen)
          \/ OpenCursor(g, p, gen)
          \/ Poll(g, p, gen)
          \/ \E s \in snapshots[p] : AckCursorGap(g, p, gen, s)
          \/ \E tok \in 1 .. tokens : Ack(g, p, gen, tok)
          \/ \E tok \in 1 .. tokens, e \in Requests, d \in Digests :
               \/ BeginEffect(g, p, gen, tok, e, d)
               \/ CommitEffect(g, p, gen, tok, e, d)
               \/ FailEffect(g, p, gen, tok, e, d)
    BY <1>4 DEF Consume
  <2>2. CASE RecordManifest(g, gen)
    BY <2>2, StutterIInv DEF RecordManifest, core, producerVars, retentionVars
  <2>3. CASE OpenCursor(g, p, gen)
    BY <2>3, OpenCursorIInv
  <2>4. CASE Poll(g, p, gen)
    BY <2>4, PollIInv
  <2>5. CASE \E s \in snapshots[p] : AckCursorGap(g, p, gen, s)
    BY <2>5, AckCursorGapIInv
  <2>6. CASE \E tok \in 1 .. tokens : Ack(g, p, gen, tok)
    BY <2>6, AckIInv
  <2>7. CASE \E tok \in 1 .. tokens, e \in Requests, d \in Digests :
               \/ BeginEffect(g, p, gen, tok, e, d)
               \/ CommitEffect(g, p, gen, tok, e, d)
               \/ FailEffect(g, p, gen, tok, e, d)
    BY <2>7, BeginEffectIInv, CommitEffectIInv, FailEffectIInv
  <2>. QED
    BY <2>1, <2>2, <2>3, <2>4, <2>5, <2>6, <2>7
<1>5. CASE Retain
  <2>1. PICK p \in Partitions :
          \/ \E through \in 1 .. Len(log[p]) : MaterializeDigest(p, through)
          \/ \E through \in 1 .. Len(log[p]), b \in Bodies : RecordSnapshot(p, through, b)
          \/ \E run \in Runs, watermark \in 0 .. Len(log[p]), s \in snapshots[p] \cup {None} :
               CompactRetention(p, run, watermark, s)
    BY <1>5 DEF Retain
  <2>2. CASE \E through \in 1 .. Len(log[p]) : MaterializeDigest(p, through)
    BY <2>2, StutterIInv DEF MaterializeDigest, core, producerVars, consumerVars
  <2>3. CASE \E through \in 1 .. Len(log[p]), b \in Bodies : RecordSnapshot(p, through, b)
    BY <2>3, RecordSnapshotIInv
  <2>4. CASE \E run \in Runs, watermark \in 0 .. Len(log[p]), s \in snapshots[p] \cup {None} :
               CompactRetention(p, run, watermark, s)
    BY <2>4, CompactRetentionIInv
  <2>. QED
    BY <2>1, <2>2, <2>3, <2>4
<1>. QED
  BY <1>1, <1>2, <1>3, <1>4, <1>5 DEF Next

(* In every reachable state of the bus store IInv holds.                   *)
THEOREM BusInvariant == Spec => []IInv
<1>1. Init => IInv
  BY InitIInv
<1>2. IInv /\ [Next]_vars => IInv'
  BY NextIInv
<1>. QED
  BY <1>1, <1>2, PTL DEF Spec

-----------------------------------------------------------------------------
(* What it says *)

(* append: whatever producers send and however often, every request is in  *)
(* the log once, without holes and in order.                               *)
THEOREM BusProducerOrder == Spec => []ProducerOrder
<1>1. IInv => ProducerOrder
  BY DEF IInv
<1>. QED
  BY <1>1, BusInvariant, PTL

LEMMA SettledBehind == IInv => NothingSkipped
<1> SUFFICES ASSUME IInv, NEW g \in Groups, NEW p \in Partitions, cursors[<<g, p>>] # None,
                    NEW i \in 1 .. cursors[<<g, p>>].acked
             PROVE  \/ effects[<<g, Event(p, i)>>].state = "committed"
                    \/ /\ effects[<<g, Event(p, i)>>].state = "dead"
                       /\ <<g, Event(p, i)>> \in letters /\ ~ Event(p, i).blocking
                    \/ i < first[p] /\ \E s \in snapshots[p] : s.through >= i
  BY DEF NothingSkipped, CursorsOpen
<1>1. /\ cursors[<<g, p>>] \in Cursor /\ ConsumerOK(g, p) /\ SkipOK(g, p, i)
      /\ Len(log[p]) \in Nat /\ TypeOK
  BY DEF IInv, TypeOK, ConsumersOK, ConsumerOK
<1>2. i \in 1 .. Len(log[p])
  BY <1>1 DEF ConsumerOK, CursorOK, Cursor
<1>3. Event(p, i) \in Requests
  BY <1>1, <1>2, EventFacts
<1>4. EffectOK(g, Event(p, i))
  BY <1>3 DEF IInv, EffectsOK
<1>. QED
  BY <1>1, <1>4 DEF SkipOK, EffectOK

(* ack, ack_cursor_gap: no cursor of any group passes an event that was    *)
(* neither committed, nor given up with a dead letter, nor compacted with  *)
(* a snapshot.                                                             *)
THEOREM BusNothingSkipped == Spec => []NothingSkipped
  BY BusInvariant, SettledBehind, PTL

LEMMA OneAtATime == IInv => AppliedInOrder
<1> SUFFICES ASSUME IInv, NEW g \in Groups, NEW p \in Partitions, Live(leases[<<g, p>>])
             PROVE  LET mine == BoundTo(g, p, leases[<<g, p>>].tok) IN
                    /\ Cardinality(mine) <= 1
                    /\ \A e \in mine : \A i \in leases[<<g, p>>].from .. SeqOf(p, e) - 1 :
                         effects[<<g, Event(p, i)>>].state \in {"committed", "dead"}
  BY DEF AppliedInOrder
<1> DEFINE mine == BoundTo(g, p, leases[<<g, p>>].tok)
<1>1. \A e : e \in mine <=> e \in Requests /\ Bound(g, p, e)
  BY DEF BoundTo, Bound, Live
<1> HIDE DEF mine
<1>2. BoundAt(g, p)
  BY DEF IInv, BoundOK
<1>3. Cardinality(mine) <= 1
  <2>1. CASE mine = {}
    BY <2>1, FS_EmptySet
  <2>2. CASE mine # {}
    <3>1. PICK e : e \in mine
      BY <2>2
    <3>2. mine = {e}
      BY <1>1, <1>2, <3>1 DEF BoundAt
    <3>3. Cardinality({e}) = 1
      BY FS_Singleton
    <3>. QED
      BY <3>2, <3>3
  <2>. QED
    BY <2>1, <2>2
<1>4. ASSUME NEW e \in mine, NEW i \in leases[<<g, p>>].from .. SeqOf(p, e) - 1
      PROVE  effects[<<g, Event(p, i)>>].state \in {"committed", "dead"}
  <2>1. e \in Requests /\ Bound(g, p, e) /\ BoundInLease(g, p, e)
    BY <1>1, <1>2, <1>4 DEF BoundAt
  <2>2. PICK k \in leases[<<g, p>>].from .. leases[<<g, p>>].through :
          /\ Event(p, k) = e
          /\ \A j \in leases[<<g, p>>].from .. k - 1 : Settled(g, Event(p, j))
    BY <2>1 DEF BoundInLease
  <2>3. leases[<<g, p>>] \in Lease /\ LeaseOK(g, p) /\ leases[<<g, p>>] # None
    BY <2>1 DEF Bound, IInv, TypeOK, ConsumersOK, ConsumerOK
  <2>4. k \in 1 .. Len(log[p])
    BY <2>2, <2>3 DEF LeaseOK, Lease, IInv, TypeOK
  <2>5. SeqOf(p, e) = k
    BY <2>2, <2>4, SeqOfFacts
  <2>. QED
    BY <1>4, <2>2, <2>5 DEF Settled
<1>. QED
  BY <1>3, <1>4 DEF mine

(* begin_effect: the bearer of a lease has one effect in hand at most, and *)
(* everything before it in the lease is settled.                           *)
THEOREM BusAppliedInOrder == Spec => []AppliedInOrder
  BY BusInvariant, OneAtATime, PTL

LEMMA AttemptsBound == IInv => HandedOutBounded
<1> SUFFICES ASSUME IInv, NEW g \in Groups, NEW e \in Requests
             PROVE  /\ applied[<<g, e>>] <= MaxAttempts + Cardinality(checkpoints[e.part])
                    /\ checkpoints[e.part] = {} =>
                         applied[<<g, e>>] = effects[<<g, e>>].attempts + OpenCount(g, e)
  BY DEF HandedOutBounded, OpenCount, Open
<1>1. AttemptsOf(g, e) /\ EffectOK(g, e)
  BY DEF IInv, AttemptsOK, EffectsOK
<1>2. /\ applied[<<g, e>>] \in Nat /\ effects[<<g, e>>] \in Effect
      /\ Cardinality(checkpoints[e.part]) \in Nat /\ MaxAttempts \in Nat
  BY BusAssumption, FS_CardinalityType DEF IInv, TypeOK
<1>3. effects[<<g, e>>].attempts + OpenCount(g, e) <= MaxAttempts
  BY <1>1, <1>2 DEF EffectOK, OpenCount, Open, Effect
<1>4. LostCount(g, e) \in {0, 1} /\ OpenCount(g, e) \in {0, 1}
      /\ effects[<<g, e>>].attempts \in Nat
  BY <1>2 DEF LostCount, OpenCount, Effect
<1>. QED
  BY <1>1, <1>2, <1>3, <1>4 DEF AttemptsOf

(* materialize_expired_lease, fail_effect, compact_retention: no effect is *)
(* handed out more often than the attempts allow, compactions apart.       *)
THEOREM BusHandedOutBounded == Spec => []HandedOutBounded
  BY BusInvariant, AttemptsBound, PTL

LEMMA GapsKnown == IInv => GapIsKnown
<1> SUFFICES ASSUME IInv, NEW g \in Groups, NEW p \in Partitions, cursors[<<g, p>>] # None
             PROVE  LET r == cursors[<<g, p>>] IN
                    /\ (r.acked + 1 < first[p] /\ r.gap = None)
                         => r.opened = first[p] /\ r.acked = 0 /\ leases[<<g, p>>] = None
                    /\ r.gap # None =>
                         /\ leases[<<g, p>>] = None
                         /\ r.gap.from = r.acked + 1 /\ r.gap.through < first[p]
                         /\ \E s \in snapshots[p] : s.through = r.gap.through
  BY DEF GapIsKnown, CursorsOpen
<1> DEFINE r == cursors[<<g, p>>]
<1>1. CursorOK(g, p)
  BY DEF IInv, ConsumersOK, ConsumerOK
<1>2. r.gap # None => r.gap.through \in Nat /\ first[p] \in Nat
  BY DEF IInv, TypeOK, Cursor, Gap
<1>3. r.gap # None => r.gap.through < first[p]
  BY <1>1, <1>2 DEF CursorOK
<1>. QED
  BY <1>1, <1>3 DEF CursorOK

(* compact_retention: every cursor that was open and that it leaves behind *)
(* knows its gap, has a snapshot for it and has lost its lease.  Behind    *)
(* the rows without a gap are only cursors at 0 that were opened since the *)
(* last compaction of their partition, and they hold no lease.             *)
THEOREM BusGapIsKnown == Spec => []GapIsKnown
  BY BusInvariant, GapsKnown, PTL

LEMMA BodiesFollow == IInv => BodyFollowsEvents
<1> SUFFICES ASSUME IInv, NEW b \in Payloads \cap Managed
             PROVE  LET users == {row \in UNION {{log[q][i] : i \in Rows(q)} : q \in Partitions} :
                                    row.req.payload = b} IN
                    /\ (\E row \in users : ~ Elapsed(row, PayloadKeep)) => payloads[b] = "present"
                    /\ payloads[b] = "present" => users # {}
  BY DEF BodyFollowsEvents
<1> DEFINE users == {row \in UNION {{log[q][i] : i \in Rows(q)} : q \in Partitions} :
                       row.req.payload = b}
<1>1. BodyOK(b)
  BY DEF IInv, BodiesOK
<1>2. ASSUME NEW row \in users, ~ Elapsed(row, PayloadKeep) PROVE payloads[b] = "present"
  <2>1. PICK q \in Partitions : \E i \in Rows(q) : row = log[q][i]
    OBVIOUS
  <2>. QED
    BY <1>1, <1>2, <2>1 DEF BodyOK, Event
<1>3. ASSUME payloads[b] = "present" PROVE users # {}
  <2>1. PICK q \in Partitions : \E i \in Rows(q) : Event(q, i).payload = b
    BY <1>1, <1>3 DEF BodyOK
  <2>2. PICK i \in Rows(q) : Event(q, i).payload = b
    BY <2>1
  <2>3. log[q][i] \in users
    BY <2>2 DEF Event
  <2>. QED
    BY <2>3
<1>. QED
  BY <1>2, <1>3

(* compact_retention, append: a body is there while a retained event in    *)
(* any partition needs it, and no longer.                                  *)
THEOREM BusBodyFollowsEvents == Spec => []BodyFollowsEvents
  BY BusInvariant, BodiesFollow, PTL

(* The steps that write effects, those that move a cursor, and the one     *)
(* that moves the head of a partition.                                     *)
LEMMA WriteFrames ==
  /\ Tick => UNCHANGED <<effects, cursors, first>>
  /\ \A r \in Requests : AppendEvent(r) => UNCHANGED <<effects, cursors, first>>
  /\ \A g \in Groups, p \in Partitions, gen \in Generations :
       /\ RecordManifest(g, gen) => UNCHANGED <<effects, cursors, first>>
       /\ OpenCursor(g, p, gen) => UNCHANGED <<effects, first>>
       /\ Poll(g, p, gen) => UNCHANGED <<cursors, first>>
       /\ \A s : AckCursorGap(g, p, gen, s) => UNCHANGED <<effects, first>>
       /\ \A tok : Ack(g, p, gen, tok) => UNCHANGED <<effects, first>>
       /\ \A tok, e, d : BeginEffect(g, p, gen, tok, e, d) \/ CommitEffect(g, p, gen, tok, e, d)
                          \/ FailEffect(g, p, gen, tok, e, d) => UNCHANGED <<cursors, first>>
  /\ \A p \in Partitions : \A through :
       /\ MaterializeDigest(p, through) => UNCHANGED <<effects, cursors, first>>
       /\ \A b : RecordSnapshot(p, through, b) => UNCHANGED <<effects, cursors, first>>
  /\ \A p \in Partitions : \A run, watermark, s :
       CompactRetention(p, run, watermark, s) => UNCHANGED effects
<1> USE DEF producerVars, consumerVars, retentionVars
<1>1. Tick => UNCHANGED <<effects, cursors, first>>
  BY DEF Tick
<1>2. \A r \in Requests : AppendEvent(r) => UNCHANGED <<effects, cursors, first>>
  BY DEF AppendEvent
<1>3. ASSUME NEW g \in Groups, NEW p \in Partitions, NEW gen \in Generations
      PROVE  /\ RecordManifest(g, gen) => UNCHANGED <<effects, cursors, first>>
             /\ OpenCursor(g, p, gen) => UNCHANGED <<effects, first>>
             /\ Poll(g, p, gen) => UNCHANGED <<cursors, first>>
             /\ \A s : AckCursorGap(g, p, gen, s) => UNCHANGED <<effects, first>>
             /\ \A tok : Ack(g, p, gen, tok) => UNCHANGED <<effects, first>>
  <2>1. RecordManifest(g, gen) => UNCHANGED <<effects, cursors, first>>
    BY DEF RecordManifest
  <2>2. OpenCursor(g, p, gen) => UNCHANGED <<effects, first>>
    BY DEF OpenCursor
  <2>3. Poll(g, p, gen) => UNCHANGED <<cursors, first>>
    BY DEF Poll
  <2>4. \A s : AckCursorGap(g, p, gen, s) => UNCHANGED <<effects, first>>
    BY DEF AckCursorGap
  <2>5. \A tok : Ack(g, p, gen, tok) => UNCHANGED <<effects, first>>
    BY DEF Ack
  <2>. QED
    BY <2>1, <2>2, <2>3, <2>4, <2>5
<1>4. ASSUME NEW g \in Groups, NEW p \in Partitions, NEW gen \in Generations,
             NEW tok, NEW e, NEW d
      PROVE  BeginEffect(g, p, gen, tok, e, d) \/ CommitEffect(g, p, gen, tok, e, d)
             \/ FailEffect(g, p, gen, tok, e, d) => UNCHANGED <<cursors, first>>
  <2>1. BeginEffect(g, p, gen, tok, e, d) => UNCHANGED <<cursors, first>>
    BY DEF BeginEffect
  <2>2. CommitEffect(g, p, gen, tok, e, d) => UNCHANGED <<cursors, first>>
    BY DEF CommitEffect
  <2>3. FailEffect(g, p, gen, tok, e, d) => UNCHANGED <<cursors, first>>
    BY DEF FailEffect
  <2>. QED
    BY <2>1, <2>2, <2>3
<1>5. ASSUME NEW p \in Partitions, NEW through
      PROVE  /\ MaterializeDigest(p, through) => UNCHANGED <<effects, cursors, first>>
             /\ \A b : RecordSnapshot(p, through, b) => UNCHANGED <<effects, cursors, first>>
  <2>1. MaterializeDigest(p, through) => UNCHANGED <<effects, cursors, first>>
    BY DEF MaterializeDigest
  <2>2. \A b : RecordSnapshot(p, through, b) => UNCHANGED <<effects, cursors, first>>
    BY DEF RecordSnapshot
  <2>. QED
    BY <2>1, <2>2
<1>6. \A p \in Partitions : \A run, watermark, s :
        CompactRetention(p, run, watermark, s) => UNCHANGED effects
  BY DEF CompactRetention
<1>. QED
  BY <1>1, <1>2, <1>3, <1>4, <1>5, <1>6, Zenon

LEMMA EffectsFinal ==
  ASSUME IInv, Next, NEW h \in Groups, NEW r \in Requests
  PROVE  /\ effects[<<h, r>>].state \in {"committed", "dead"} =>
              effects'[<<h, r>>] = effects[<<h, r>>]
         /\ effects[<<h, r>>].state # "none" =>
              effects'[<<h, r>>].digest = effects[<<h, r>>].digest
<1>1. \/ UNCHANGED effects
      \/ \E g \in Groups, p \in Partitions, gen \in Generations : Poll(g, p, gen)
      \/ \E g \in Groups, p \in Partitions, gen \in Generations, tok \in 1 .. tokens,
            e \in Requests, d \in Digests :
           \/ BeginEffect(g, p, gen, tok, e, d)
           \/ CommitEffect(g, p, gen, tok, e, d)
           \/ FailEffect(g, p, gen, tok, e, d)
  BY WriteFrames DEF Next, Produce, Consume, Retain
<1>2. CASE UNCHANGED effects
  BY <1>2
<1>3. ASSUME NEW g \in Groups, NEW p \in Partitions, NEW gen \in Generations, Poll(g, p, gen)
      PROVE  /\ Settled(h, r) => effects'[<<h, r>>] = effects[<<h, r>>]
             /\ effects'[<<h, r>>].digest = effects[<<h, r>>].digest
  <2>1. effects' = Materialized(g, p)
    BY <1>3 DEF Poll
  <2>2. CASE h = g /\ Bound(g, p, r)
    <3>1. effects'[<<g, r>>].digest = effects[<<g, r>>].digest
      BY <2>1, <2>2, MaterializedFacts
    <3>. QED
      BY <2>2, <3>1 DEF Settled, Bound
  <2>3. CASE ~ (h = g /\ Bound(g, p, r))
    BY <2>1, <2>3, MaterializedFacts
  <2>. QED
    BY <2>2, <2>3
<1>4. ASSUME NEW g \in Groups, NEW p \in Partitions, NEW gen \in Generations,
             NEW tok \in 1 .. tokens, NEW e \in Requests, NEW d \in Digests,
             \/ BeginEffect(g, p, gen, tok, e, d)
             \/ CommitEffect(g, p, gen, tok, e, d)
             \/ FailEffect(g, p, gen, tok, e, d)
      PROVE  /\ Settled(h, r) => effects'[<<h, r>>] = effects[<<h, r>>]
             /\ effects[<<h, r>>].state # "none" =>
                  effects'[<<h, r>>].digest = effects[<<h, r>>].digest
  <2> DEFINE f == effects[<<g, e>>]
  <2>1. /\ f \in Effect /\ effects \in [Groups \X Requests -> Effect] /\ now \in Nat
        /\ tok \in Nat /\ EffectOK(g, e)
    BY DEF IInv, TypeOK, EffectsOK
  <2>2. /\ ~ Settled(g, e)
        /\ \E x : /\ effects' = [effects EXCEPT ![<<g, e>>] = x]
                  /\ f.state # "none" => x.digest = f.digest
    <3>1. CASE CommitEffect(g, p, gen, tok, e, d)
      <4>1. [f EXCEPT !.state = "committed", !.retry = 0].digest = f.digest
        BY <2>1, EffectUpdates
      <4>. QED
        BY <3>1, <4>1 DEF CommitEffect, OwnPending, Settled
    <3>2. CASE FailEffect(g, p, gen, tok, e, d)
      <4>1. f.state = "pending" /\ effects' = [effects EXCEPT ![<<g, e>>] = Attempted(f, tok)]
        BY <3>2 DEF FailEffect, OwnPending
      <4>2. f.attempts < MaxAttempts
        BY <2>1, <4>1 DEF EffectOK
      <4>3. Attempted(f, tok).digest = f.digest
        BY <2>1, <4>2, AttemptedFacts
      <4>. QED
        BY <4>1, <4>3 DEF Settled
    <3>3. CASE BeginEffect(g, p, gen, tok, e, d)
      <4>1. CASE f.state = "none"
        BY <3>3, <4>1 DEF BeginEffect, Settled
      <4>2. CASE f.state = "pending"
        <5>1. [f EXCEPT !.retry = 0, !.tok = tok].digest = f.digest
          BY <2>1, EffectUpdates
        <5>. QED
          BY <3>3, <4>2, <5>1 DEF BeginEffect, Settled
      <4>. QED
        BY <3>3, <4>1, <4>2 DEF BeginEffect
    <3>. QED
      BY <1>4, <3>1, <3>2, <3>3
  <2>3. PICK x : /\ effects' = [effects EXCEPT ![<<g, e>>] = x]
                 /\ f.state # "none" => x.digest = f.digest
    BY <2>2
  <2>4. CASE <<h, r>> = <<g, e>>
    BY <2>1, <2>2, <2>3, <2>4
  <2>5. CASE <<h, r>> # <<g, e>>
    BY <2>1, <2>3, <2>5
  <2>. QED
    BY <2>4, <2>5
<1>. QED
  BY <1>1, <1>2, <1>3, <1>4 DEF Settled

LEMMA CursorsFinal ==
  ASSUME IInv, Next, NEW h \in Groups, NEW q \in Partitions, cursors[<<h, q>>] # None
  PROVE  cursors'[<<h, q>>].acked >= cursors[<<h, q>>].acked
<1>1. \/ UNCHANGED cursors
      \/ \E g \in Groups, p \in Partitions, gen \in Generations :
           \/ OpenCursor(g, p, gen)
           \/ \E s \in snapshots[p] : AckCursorGap(g, p, gen, s)
           \/ \E tok \in 1 .. tokens : Ack(g, p, gen, tok)
      \/ \E p \in Partitions :
           \E run \in Runs, watermark \in 0 .. Len(log[p]), s \in snapshots[p] \cup {None} :
             CompactRetention(p, run, watermark, s)
  <2>1. CASE Tick \/ Produce
    BY <2>1, WriteFrames DEF Produce
  <2>2. CASE Consume
    BY <2>2, WriteFrames DEF Consume
  <2>3. CASE Retain
    BY <2>3, WriteFrames DEF Retain
  <2>. QED
    BY <2>1, <2>2, <2>3 DEF Next
<1>2. /\ cursors[<<h, q>>] \in Cursor /\ cursors[<<h, q>>].acked \in Nat
      /\ cursors \in [Groups \X Partitions -> Cursor \cup {None}]
      /\ CursorOK(h, q) /\ LeaseOK(h, q)
  BY DEF IInv, TypeOK, Cursor, ConsumersOK, ConsumerOK
<1>3. CASE UNCHANGED cursors
  BY <1>2, <1>3
<1>4. ASSUME NEW g \in Groups, NEW p \in Partitions, NEW gen \in Generations, OpenCursor(g, p, gen)
      PROVE  cursors'[<<h, q>>] = cursors[<<h, q>>]
  BY <1>2, <1>4 DEF OpenCursor
<1>5. ASSUME NEW g \in Groups, NEW p \in Partitions, NEW gen \in Generations, NEW s \in snapshots[p],
             AckCursorGap(g, p, gen, s)
      PROVE  cursors'[<<h, q>>].acked >= cursors[<<h, q>>].acked
  <2>1. /\ cursors[<<g, p>>].gap # None
        /\ cursors' = [cursors EXCEPT ![<<g, p>>] =
                         [gen |-> gen, acked |-> cursors[<<g, p>>].gap.through, gap |-> None,
                          opened |-> cursors[<<g, p>>].opened]]
    BY <1>5 DEF AckCursorGap
  <2>2. CASE <<h, q>> = <<g, p>>
    <3>1. cursors[<<h, q>>].gap \in Gap
      BY <1>2, <2>1, <2>2 DEF Cursor
    <3>2. cursors[<<h, q>>].acked + 1 <= cursors[<<h, q>>].gap.through
      BY <1>2, <2>1, <2>2 DEF CursorOK
    <3>3. cursors'[<<h, q>>].acked = cursors[<<h, q>>].gap.through
      BY <1>2, <2>1, <2>2
    <3>. QED
      BY <1>2, <3>1, <3>2, <3>3 DEF Gap
  <2>3. CASE <<h, q>> # <<g, p>>
    BY <1>2, <2>1, <2>3
  <2>. QED
    BY <2>2, <2>3
<1>6. ASSUME NEW g \in Groups, NEW p \in Partitions, NEW gen \in Generations, NEW tok \in 1 .. tokens,
             Ack(g, p, gen, tok)
      PROVE  cursors'[<<h, q>>].acked >= cursors[<<h, q>>].acked
  <2>1. /\ leases[<<g, p>>] # None
        /\ cursors' = [cursors EXCEPT ![<<g, p>>] =
                         [cursors[<<g, p>>] EXCEPT !.acked = leases[<<g, p>>].through]]
    BY <1>6 DEF Ack, ValidLease, Live
  <2>2. CASE <<h, q>> = <<g, p>>
    <3>1. leases[<<h, q>>] \in Lease /\ leases[<<h, q>>] # None
      BY <2>1, <2>2 DEF IInv, TypeOK
    <3>2. cursors[<<h, q>>].acked + 1 <= leases[<<h, q>>].through
      BY <1>2, <3>1 DEF LeaseOK, Lease
    <3>3. cursors'[<<h, q>>] = [cursors[<<h, q>>] EXCEPT !.acked = leases[<<h, q>>].through]
      BY <1>2, <2>1, <2>2
    <3>4. cursors'[<<h, q>>].acked = leases[<<h, q>>].through
      BY <1>2, <3>3 DEF Cursor
    <3>. QED
      BY <1>2, <3>1, <3>2, <3>4 DEF Lease
  <2>3. CASE <<h, q>> # <<g, p>>
    BY <1>2, <2>1, <2>3
  <2>. QED
    BY <2>2, <2>3
<1>7. ASSUME NEW p \in Partitions, NEW run \in Runs, NEW watermark \in 0 .. Len(log[p]),
             NEW s \in snapshots[p] \cup {None}, CompactRetention(p, run, watermark, s)
      PROVE  cursors'[<<h, q>>].acked >= cursors[<<h, q>>].acked
  <2>1. \/ cursors'[<<h, q>>] = cursors[<<h, q>>]
        \/ \E x : cursors'[<<h, q>>] = [cursors[<<h, q>>] EXCEPT !.gap = x]
    <3>1. \/ cursors' = cursors
          \/ cursors' = [c \in Groups \X Partitions |->
                          IF c[2] = p /\ c[1] \in Lagging(p, DueThrough(p, watermark))
                          THEN [cursors[c] EXCEPT !.gap =
                                  [from |-> cursors[c].acked + 1,
                                   through |-> DueThrough(p, watermark)]]
                          ELSE cursors[c]]
      BY <1>7 DEF CompactRetention
    <3>. QED
      BY <3>1
  <2>2. cursors'[<<h, q>>].acked = cursors[<<h, q>>].acked
    BY <1>2, <2>1 DEF Cursor
  <2>. QED
    BY <1>2, <2>2
<1>. QED
  BY <1>1, <1>2, <1>3, <1>4, <1>5, <1>6, <1>7

LEMMA HeadFinal ==
  ASSUME IInv, Next, NEW q \in Partitions
  PROVE  first'[q] >= first[q]
<1>1. \/ UNCHANGED first
      \/ \E p \in Partitions :
           \E run \in Runs, watermark \in 0 .. Len(log[p]), s \in snapshots[p] \cup {None} :
             CompactRetention(p, run, watermark, s)
  <2>1. CASE Tick \/ Produce
    BY <2>1, WriteFrames DEF Produce
  <2>2. CASE Consume
    BY <2>2, WriteFrames DEF Consume
  <2>3. CASE Retain
    BY <2>3, WriteFrames DEF Retain
  <2>. QED
    BY <2>1, <2>2, <2>3 DEF Next
<1>2. first \in [Partitions -> Nat \ {0}]
  BY DEF IInv, TypeOK
<1>3. CASE UNCHANGED first
  BY <1>2, <1>3
<1>4. ASSUME NEW p \in Partitions, NEW run \in Runs, NEW watermark \in 0 .. Len(log[p]),
             NEW s \in snapshots[p] \cup {None}, CompactRetention(p, run, watermark, s)
      PROVE  first'[q] >= first[q]
  <2>1. \/ UNCHANGED first
        \/ /\ DueThrough(p, watermark) >= first[p]
           /\ first' = [first EXCEPT ![p] = DueThrough(p, watermark) + 1]
    BY <1>4 DEF CompactRetention
  <2>2. watermark \in Nat /\ TypeOK
    BY DEF IInv, TypeOK
  <2>3. DueThrough(p, watermark) \in Int
    <3>1. \/ DueThrough(p, watermark) = first[p] - 1
          \/ DueThrough(p, watermark) \in first[p] .. watermark
      BY <2>2, DueThroughFacts
    <3>. QED
      BY <1>2, <3>1
  <2>. QED
    BY <1>2, <2>1, <2>3
<1>. QED
  BY <1>1, <1>3, <1>4

(* commit_effect, fail_effect, poll_headers, compact_retention: a settled  *)
(* effect is final, and cursors and partition heads only move forward.     *)
THEOREM BusSettledIsFinal == Spec => SettledIsFinal
<1> DEFINE Final ==
      /\ \A c \in Groups \X Requests :
            /\ effects[c].state \in {"committed", "dead"} => effects'[c] = effects[c]
            /\ effects[c].state # "none" => effects'[c].digest = effects[c].digest
      /\ \A c \in CursorsOpen : cursors'[c].acked >= cursors[c].acked
      /\ \A p \in Partitions : first'[p] >= first[p]
<1>1. IInv /\ [Next]_vars => [Final]_vars
  <2> SUFFICES ASSUME IInv, Next PROVE Final
    OBVIOUS
  <2>1. ASSUME NEW c \in Groups \X Requests
        PROVE  /\ effects[c].state \in {"committed", "dead"} => effects'[c] = effects[c]
               /\ effects[c].state # "none" => effects'[c].digest = effects[c].digest
    <3>1. PICK g \in Groups, e \in Requests : c = <<g, e>>
      OBVIOUS
    <3>. QED
      BY <3>1, EffectsFinal
  <2>2. ASSUME NEW c \in CursorsOpen
        PROVE  cursors'[c].acked >= cursors[c].acked
    <3>1. PICK g \in Groups, p \in Partitions : c = <<g, p>>
      BY DEF CursorsOpen
    <3>2. cursors[<<g, p>>] # None
      BY <3>1 DEF CursorsOpen
    <3>. QED
      BY <3>1, <3>2, CursorsFinal
  <2>. QED
    BY <2>1, <2>2, HeadFinal
<1>. QED
  BY <1>1, BusInvariant, PTL DEF Spec, SettledIsFinal
=============================================================================
