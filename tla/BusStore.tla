------------------------------ MODULE BusStore ------------------------------
(* The durable message bus of the Hive (hive/bus_store.py). Producers append *)
(* events to partitions; consumer groups read a partition through a cursor,  *)
(* under a lease that one bearer token stands for; each event has an effect  *)
(* per group that is begun, then committed or failed, and is dead-lettered   *)
(* after MaxAttempts; retention compacts the front of a partition and leaves *)
(* the cursors that lag behind it a gap that a snapshot covers.              *)
(*                                                                           *)
(* Every public method is one SQLite transaction (BEGIN IMMEDIATE) under the *)
(* lock of the store, so it is one action. A call that is refused rolls back *)
(* and changes nothing: it is a step in which the action is not taken. A     *)
(* crash rolls the open transaction back, and nothing but the database       *)
(* outlives a call, so a restart is not a step of its own either.            *)
EXTENDS Integers, Sequences, FiniteSets, FiniteSetsExt

CONSTANTS
    Partitions, Groups, Generations,
    Requests,     \* publish requests: [prod, key, seq, part, blocking, exempt,
                  \*                    class, payload]; one is its own event id
    Managed,      \* the payloads kept in the store; the others are artifacts
    Digests,      \* what consumers say an effect of theirs consists of
    Bodies,       \* contents of snapshots
    Runs,         \* identifiers of retention runs
    HardHeaders, MaxBatch, MaxAttempts, LeaseTime,
    Backoff,      \* [1 .. MaxAttempts - 1 -> Nat]
    HeaderKeep, PayloadKeep,   \* retention by class; Never in class "manifest"
    Never,
    MaxTime

\* _BACKOFF_SECONDS has a delay for every attempt but the last; in no class does a
\* header go before its payload is due (_GEN1_RETENTION_POLICY).
ASSUME BusAssumption ==
    /\ MaxAttempts \in Nat \ {0} /\ MaxBatch \in Nat
    /\ LeaseTime \in Nat /\ HardHeaders \in Nat /\ MaxTime \in Nat
    /\ Backoff \in [1 .. MaxAttempts - 1 -> Nat]
    /\ \A r \in Requests :
          /\ r.part \in Partitions /\ r.seq \in Nat
          /\ PayloadKeep[r.class] = Never \/ PayloadKeep[r.class] \in Nat
          /\ \/ HeaderKeep[r.class] = Never
             \/ /\ HeaderKeep[r.class] \in Nat /\ PayloadKeep[r.class] # Never
                /\ PayloadKeep[r.class] <= HeaderKeep[r.class]

VARIABLES
    now,
    log,        \* per partition, every event accepted, with its time: the rows of
                \* events from `first` on, before that what idempotency remembers
    first,      \* first_retained_seq
    last,       \* producer_epochs.last_seq
    payloads,   \* body_state of the payload rows
    manifests,  \* subscription manifests: <<group, generation>>
    cursors,    \* with a history of where the retained rows began when it was opened
    leases, effects,
    letters,    \* dead_letters
    anchors, snapshots, checkpoints,
    tokens,     \* number of lease tokens issued
    applied     \* history: how often begin_effect has answered "apply"

producerVars == <<log, last>>
consumerVars == <<manifests, cursors, leases, effects, letters, tokens, applied>>
retentionVars == <<first, anchors, snapshots, checkpoints>>
vars == <<now, payloads, producerVars, consumerVars, retentionVars>>

None == [none |-> TRUE]
Producers == {r.prod : r \in Requests}
Payloads == {r.payload : r \in Requests}
Rows(p) == first[p] .. Len(log[p])
Event(p, i) == log[p][i].req
Accepted == UNION {{Event(p, i) : i \in DOMAIN log[p]} : p \in Partitions}
SeqOf(p, e) == CHOOSE i \in DOMAIN log[p] : Event(p, i) = e

NoEffect == [state |-> "none", digest |-> None, attempts |-> 0, retry |-> 0, tok |-> 0]

Init ==
    /\ now = 0
    /\ log = [p \in Partitions |-> <<>>]
    /\ first = [p \in Partitions |-> 1]
    /\ last = [a \in Producers |-> 0]
    /\ payloads = [b \in Payloads |-> "absent"]
    /\ manifests = {}
    /\ cursors = [c \in Groups \X Partitions |-> None]
    /\ leases = [c \in Groups \X Partitions |-> None]
    /\ effects = [c \in Groups \X Requests |-> NoEffect]
    /\ letters = {}
    /\ anchors = [p \in Partitions |-> {}]
    /\ snapshots = [p \in Partitions |-> {}]
    /\ checkpoints = [p \in Partitions |-> {}]
    /\ tokens = 0
    /\ applied = [c \in Groups \X Requests |-> 0]

Tick ==
    /\ now < MaxTime
    /\ now' = now + 1
    /\ UNCHANGED <<payloads, producerVars, consumerVars, retentionVars>>

-----------------------------------------------------------------------------
(* Producers *)

Stored(b) == IF b \in Managed THEN "present" ELSE "reference"

\* Any later number will do.
CanAppend_Holes(r) ==
    /\ \A q \in Accepted : ~(q.prod = r.prod /\ q.key = r.key)
    /\ r.exempt \/ Cardinality(Rows(r.part)) + 1 < HardHeaders
    /\ r.seq > last[r.prod]

\* A request is accepted once, below the hard limit of its partition, at the next
\* number of its producer. The limit on managed bytes and a partition that is not
\* active only refuse more.
CanAppend(r) ==
    /\ \A q \in Accepted : ~(q.prod = r.prod /\ q.key = r.key)
    /\ r.exempt \/ Cardinality(Rows(r.part)) + 1 < HardHeaders
    /\ r.seq = last[r.prod] + 1

\* A payload row that exists must be as it would be stored: a body that retention
\* has expired refuses the request for good.
AppendEvent(r) ==
    /\ CanAppend(r)
    /\ payloads[r.payload] \in {"absent", Stored(r.payload)}
    /\ log' = [log EXCEPT ![r.part] = Append(@, [req |-> r, at |-> now])]
    /\ last' = [last EXCEPT ![r.prod] = r.seq]
    /\ payloads' = [payloads EXCEPT ![r.payload] = Stored(r.payload)]
    /\ UNCHANGED <<now, consumerVars, retentionVars>>

-----------------------------------------------------------------------------
(* Subscriptions *)

RecordManifest(g, gen) ==
    /\ manifests' = manifests \cup {<<g, gen>>}
    /\ UNCHANGED <<now, payloads, producerVars, retentionVars, cursors, leases,
                   effects, letters, tokens, applied>>

\* A new cursor starts before the first event ever, compacted or not.
OpenCursor(g, p, gen) ==
    /\ <<g, gen>> \in manifests
    /\ log[p] # <<>>
    /\ cursors[<<g, p>>] = None
    /\ cursors' = [cursors EXCEPT ![<<g, p>>] =
                      [gen |-> gen, acked |-> 0, gap |-> None, opened |-> first[p]]]
    /\ UNCHANGED <<now, payloads, producerVars, retentionVars, manifests, leases,
                   effects, letters, tokens, applied>>

HasCursor(g, p, gen) == cursors[<<g, p>>] # None /\ cursors[<<g, p>>].gen = gen

-----------------------------------------------------------------------------
(* Leases *)

Live(l) == l # None /\ now < l.expires

\* One more attempt at a pending effect has come to nothing. The token stays with
\* a dead-lettered effect only when it was failed by its bearer.
Attempted(f, tok) ==
    IF f.attempts + 1 < MaxAttempts
    THEN [f EXCEPT !.attempts = @ + 1, !.retry = now + Backoff[f.attempts + 1], !.tok = 0]
    ELSE [f EXCEPT !.state = "dead", !.attempts = MaxAttempts, !.retry = 0, !.tok = tok]

BoundTo(g, p, tok) ==
    {e \in Requests : /\ e.part = p
                      /\ effects[<<g, e>>].state = "pending"
                      /\ effects[<<g, e>>].tok = tok}

\* The lease is dropped, its attempts are not counted.
Materialized_Forgets(g, p) == effects

\* The effects once the attempts of an expired lease are counted.
Materialized(g, p) ==
    LET l == leases[<<g, p>>]
        open == IF l = None THEN {} ELSE BoundTo(g, p, l.tok)
    IN [c \in Groups \X Requests |->
           IF c[1] = g /\ c[2] \in open THEN Attempted(effects[c], 0) ELSE effects[c]]

NewlyDead(before, after) ==
    {c \in Groups \X Requests : before[c].state # "dead" /\ after[c].state = "dead"}

\* How many headers a poll may lease from sequence number `from` on: it stops at
\* the batch limit, the end, an effect whose backoff has not elapsed, and, anywhere
\* after the first header, at the limit on their bytes.
BatchLengths(g, p, from, eff) ==
    LET waits(i) == LET f == eff[<<g, Event(p, i)>>]
                    IN f.state = "pending" /\ now < f.retry
        ok(n) == \A i \in from .. from + n - 1 : i \in Rows(p) /\ ~waits(i)
        longest == Max({n \in 0 .. MaxBatch : ok(n)})
    IN IF longest = 0 THEN {0} ELSE 1 .. longest

\* The rows that a poll reads do not start where the cursor stands: it reports
\* BUS_E_STORE_INTEGRITY and rolls back.
BehindTheRows(g, p) == cursors[<<g, p>>].acked + 1 < first[p] /\ Rows(p) # {}

Poll(g, p, gen) ==
    LET from == cursors[<<g, p>>].acked + 1
        eff == Materialized(g, p)
        poison == NewlyDead(effects, eff)
    IN
    /\ HasCursor(g, p, gen)
    /\ cursors[<<g, p>>].gap = None
    /\ ~Live(leases[<<g, p>>])
    /\ ~(poison = {} /\ BehindTheRows(g, p))
    /\ effects' = eff
    /\ letters' = letters \cup poison
    /\ \E n \in BatchLengths(g, p, from, eff) :
          LET grants == poison = {} /\ n > 0 IN
          /\ leases[<<g, p>>] # None \/ grants
          /\ leases' = [leases EXCEPT ![<<g, p>>] =
                           IF grants
                           THEN [tok |-> tokens + 1, from |-> from, through |-> from + n - 1,
                                 expires |-> now + LeaseTime]
                           ELSE None]
          /\ tokens' = IF grants THEN tokens + 1 ELSE tokens
    /\ UNCHANGED <<now, payloads, producerVars, retentionVars, manifests, cursors, applied>>

-----------------------------------------------------------------------------
(* Effects, by whoever has a token *)

ValidLease(g, p, gen, tok) ==
    HasCursor(g, p, gen) /\ Live(leases[<<g, p>>]) /\ leases[<<g, p>>].tok = tok

EventInLease(g, p, e) ==
    \E i \in leases[<<g, p>>].from .. leases[<<g, p>>].through :
        i \in Rows(p) /\ Event(p, i) = e

\* Blocking types are passed too.
AckableEffect_AnyDead(g, e) == effects[<<g, e>>].state \in {"committed", "dead"}

\* An ack may pass the effect: committed, or given up and not of a blocking type.
AckableEffect(g, e) ==
    \/ effects[<<g, e>>].state = "committed"
    \/ /\ effects[<<g, e>>].state = "dead" /\ effects[<<g, e>>].attempts = MaxAttempts
       /\ ~e.blocking

\* Effects of a lease in any order.
EarlierSettled_AnyOrder(g, p, e) == TRUE

EarlierSettled(g, p, e) ==
    \A i \in leases[<<g, p>>].from .. SeqOf(p, e) - 1 : AckableEffect(g, Event(p, i))

BeginEffect(g, p, gen, tok, e, d) ==
    LET f == effects[<<g, e>>] IN
    /\ ValidLease(g, p, gen, tok)
    /\ EventInLease(g, p, e)
    /\ EarlierSettled(g, p, e)
    /\ \/ /\ f.state = "none"
          /\ effects' = [effects EXCEPT ![<<g, e>>] =
                            [NoEffect EXCEPT !.state = "pending", !.digest = d, !.tok = tok]]
       \/ /\ f.state = "pending"
          /\ f.digest = d
          /\ f.tok # tok
          /\ now >= f.retry
          /\ effects' = [effects EXCEPT ![<<g, e>>] = [f EXCEPT !.retry = 0, !.tok = tok]]
    /\ applied' = [applied EXCEPT ![<<g, e>>] = @ + 1]
    /\ UNCHANGED <<now, payloads, producerVars, retentionVars, manifests, cursors,
                   leases, letters, tokens>>

\* The token is enough, whatever has become of the effect.
OwnPending_AnyState(g, p, gen, tok, e, d) ==
    /\ ValidLease(g, p, gen, tok)
    /\ EventInLease(g, p, e)
    /\ effects[<<g, e>>].digest = d
    /\ effects[<<g, e>>].tok = tok

\* The token's own pending effect, as commit_effect and fail_effect require it.
OwnPending(g, p, gen, tok, e, d) ==
    /\ ValidLease(g, p, gen, tok)
    /\ EventInLease(g, p, e)
    /\ effects[<<g, e>>].state = "pending"
    /\ effects[<<g, e>>].digest = d
    /\ effects[<<g, e>>].tok = tok

CommitEffect(g, p, gen, tok, e, d) ==
    /\ OwnPending(g, p, gen, tok, e, d)
    /\ effects' = [effects EXCEPT ![<<g, e>>] = [@ EXCEPT !.state = "committed", !.retry = 0]]
    /\ UNCHANGED <<now, payloads, producerVars, retentionVars, manifests, cursors,
                   leases, letters, tokens, applied>>

FailEffect(g, p, gen, tok, e, d) ==
    /\ OwnPending(g, p, gen, tok, e, d)
    /\ effects' = [effects EXCEPT ![<<g, e>>] = Attempted(@, tok)]
    /\ letters' = letters \cup NewlyDead(effects, effects')
    /\ leases' = IF effects'[<<g, e>>].state = "dead" THEN leases
                 ELSE [leases EXCEPT ![<<g, p>>] = None]
    /\ UNCHANGED <<now, payloads, producerVars, retentionVars, manifests, cursors,
                   tokens, applied>>

Ack(g, p, gen, tok) ==
    LET l == leases[<<g, p>>] IN
    /\ ValidLease(g, p, gen, tok)
    /\ l.from = cursors[<<g, p>>].acked + 1
    /\ l.from .. l.through \subseteq Rows(p)
    /\ \A i \in l.from .. l.through : AckableEffect(g, Event(p, i))
    /\ cursors' = [cursors EXCEPT ![<<g, p>>] = [@ EXCEPT !.acked = l.through]]
    /\ leases' = [leases EXCEPT ![<<g, p>>] = None]
    /\ UNCHANGED <<now, payloads, producerVars, retentionVars, manifests, effects,
                   letters, tokens, applied>>

AckCursorGap(g, p, gen, s) ==
    LET gap == cursors[<<g, p>>].gap IN
    /\ HasCursor(g, p, gen)
    /\ gap # None
    /\ gap.from = cursors[<<g, p>>].acked + 1
    /\ s \in snapshots[p] /\ s.through = gap.through
    /\ cursors' = [cursors EXCEPT ![<<g, p>>] =
                      [gen |-> gen, acked |-> gap.through, gap |-> None,
                       opened |-> cursors[<<g, p>>].opened]]
    /\ UNCHANGED <<now, payloads, producerVars, retentionVars, manifests, leases,
                   effects, letters, tokens, applied>>

-----------------------------------------------------------------------------
(* Retention *)

\* The next interval after the last anchor, as far as it and the limit on the
\* bytes of its headers go.
MaterializeDigest(p, through) ==
    LET from == Max({0} \cup {a.through : a \in anchors[p]}) + 1
        most == Min({through, Len(log[p]), from + MaxBatch - 1})
    IN
    /\ from <= through
    /\ from \in Rows(p)
    /\ \E upTo \in from .. most :
          anchors' = [anchors EXCEPT ![p] = @ \cup {[from |-> from, through |-> upTo]}]
    /\ UNCHANGED <<now, payloads, producerVars, consumerVars, first, snapshots, checkpoints>>

\* One snapshot for a sequence number, and no two with the same contents.
RecordSnapshot(p, through, b) ==
    /\ through \in Rows(p)
    /\ \A s \in snapshots[p] : s.through # through
    /\ \A q \in Partitions : \A s \in snapshots[q] : s.body # b
    /\ snapshots' = [snapshots EXCEPT ![p] = @ \cup {[through |-> through, body |-> b]}]
    /\ UNCHANGED <<now, payloads, producerVars, consumerVars, first, anchors, checkpoints>>

Elapsed(row, keep) == keep[row.req.class] # Never /\ row.at + keep[row.req.class] <= now

\* The longest prefix of the rows up to the watermark whose headers are due.
DueThrough(p, watermark) ==
    Max({first[p] - 1} \cup
        {n \in first[p] .. watermark :
            \A i \in first[p] .. n : Elapsed(log[p][i], HeaderKeep)})

\* Only cursors that miss more than the next event.
Lagging_OffByOne(p, through) ==
    {g \in Groups : cursors[<<g, p>>] # None /\ cursors[<<g, p>>].acked + 1 < through}

Lagging(p, through) ==
    {g \in Groups : cursors[<<g, p>>] # None /\ cursors[<<g, p>>].acked < through}

\* Only the rows that go are looked at.
ExpiredWith_OwnRows(p, through) ==
    {b \in Managed :
        /\ payloads[b] = "present"
        /\ \E i \in first[p] .. through : Event(p, i).payload = b
        /\ \A i \in first[p] .. through :
              Event(p, i).payload = b => Elapsed(log[p][i], PayloadKeep)}

\* Bodies whose last use is over: every row that refers to them, in any partition
\* and compacted by this very run or not, is past the payload's retention.
ExpiredWith(p, through) ==
    {b \in Managed :
        /\ payloads[b] = "present"
        /\ \E i \in first[p] .. through : Event(p, i).payload = b
        /\ \A q \in Partitions : \A i \in Rows(q) :
              Event(q, i).payload = b => Elapsed(log[q][i], PayloadKeep)}

CompactRetention(p, run, watermark, s) ==
    LET through == DueThrough(p, watermark)
        compacts == through >= first[p]
        lagging == Lagging(p, through)
    IN
    /\ run \notin checkpoints[p]
    /\ log[p] # <<>>
    /\ watermark <= Len(log[p])
    /\ s # None => s \in snapshots[p]
    /\ IF compacts
       THEN /\ [from |-> first[p], through |-> through] \in anchors[p]
            /\ s # None => s.through = through
            /\ lagging # {} => s # None
            /\ leases' = [c \in Groups \X Partitions |->
                             IF c[2] = p /\ c[1] \in lagging THEN None ELSE leases[c]]
            /\ cursors' = [c \in Groups \X Partitions |->
                             IF c[2] = p /\ c[1] \in lagging
                             THEN [cursors[c] EXCEPT !.gap =
                                     [from |-> cursors[c].acked + 1, through |-> through]]
                             ELSE cursors[c]]
            /\ first' = [first EXCEPT ![p] = through + 1]
            /\ payloads' = [b \in Payloads |->
                             IF b \in ExpiredWith(p, through) THEN "expired" ELSE payloads[b]]
       ELSE /\ s = None
            /\ UNCHANGED <<leases, cursors, first, payloads>>
    /\ checkpoints' = [checkpoints EXCEPT ![p] = @ \cup {run}]
    /\ UNCHANGED <<now, producerVars, manifests, effects, letters, tokens, applied,
                   anchors, snapshots>>

-----------------------------------------------------------------------------
Produce == \E r \in Requests : AppendEvent(r)

Consume ==
    \E g \in Groups, p \in Partitions, gen \in Generations :
        \/ RecordManifest(g, gen)
        \/ OpenCursor(g, p, gen)
        \/ Poll(g, p, gen)
        \/ \E s \in snapshots[p] : AckCursorGap(g, p, gen, s)
        \/ \E tok \in 1 .. tokens :
              \/ Ack(g, p, gen, tok)
              \/ \E e \in Requests, d \in Digests :
                    \/ BeginEffect(g, p, gen, tok, e, d)
                    \/ CommitEffect(g, p, gen, tok, e, d)
                    \/ FailEffect(g, p, gen, tok, e, d)

Retain ==
    \E p \in Partitions :
        \/ \E through \in 1 .. Len(log[p]) :
              \/ MaterializeDigest(p, through)
              \/ \E b \in Bodies : RecordSnapshot(p, through, b)
        \/ \E run \in Runs, watermark \in 0 .. Len(log[p]), s \in snapshots[p] \cup {None} :
              CompactRetention(p, run, watermark, s)

Next == Tick \/ Produce \/ Consume \/ Retain

Spec == Init /\ [][Next]_vars

-----------------------------------------------------------------------------
(* Properties *)

CursorsOpen == {c \in Groups \X Partitions : cursors[c] # None}

\* ack, ack_cursor_gap. A cursor never passes an event silently: behind it, every
\* event was committed by the group, or given up with a dead letter and not of a
\* blocking type, or compacted and covered by a snapshot.
NothingSkipped ==
    \A c \in CursorsOpen : \A i \in 1 .. cursors[c].acked :
        LET e == Event(c[2], i) IN
        \/ effects[<<c[1], e>>].state = "committed"
        \/ effects[<<c[1], e>>].state = "dead" /\ <<c[1], e>> \in letters /\ ~e.blocking
        \/ i < first[c[2]] /\ \E s \in snapshots[c[2]] : s.through >= i

\* begin_effect, poll_headers. Of the effects of a group in a partition at most one
\* is in the hands of the bearer of the live lease, and the events before it in the
\* lease are settled: effects are applied one after the other, in the order of the log.
AppliedInOrder ==
    \A c \in Groups \X Partitions : Live(leases[c]) =>
        LET mine == BoundTo(c[1], c[2], leases[c].tok) IN
        /\ Cardinality(mine) <= 1
        /\ \A e \in mine : \A i \in leases[c].from .. SeqOf(c[2], e) - 1 :
              effects[<<c[1], Event(c[2], i)>>].state \in {"committed", "dead"}

\* materialize_expired_lease, fail_effect, compact_retention. However its bearers
\* fail, time out or lose the lease, an effect is handed out at most MaxAttempts
\* times; a compaction that takes the lease away is an attempt that is not counted.
HandedOutBounded ==
    \A c \in Groups \X Requests :
        LET f == effects[c]
            runs == checkpoints[c[2].part]
            open == IF f.state = "committed" \/ (f.state = "pending" /\ f.tok # 0) THEN 1 ELSE 0
        IN /\ applied[c] <= MaxAttempts + Cardinality(runs)
           /\ runs = {} => applied[c] = f.attempts + open

\* compact_retention, open_cursor_once. No compaction misses a cursor: one that was
\* open when the retained rows moved past it, wherever it stood, knows the gap and
\* has the snapshot for it, and holds no lease meanwhile. The only cursors behind
\* the rows without a gap are those opened since the last compaction, which
\* open_cursor_once puts at 0 whatever was compacted; they hold no lease either.
GapIsKnown ==
    \A c \in CursorsOpen :
        LET r == cursors[c] IN
        /\ (r.acked + 1 < first[c[2]] /\ r.gap = None) =>
              r.opened = first[c[2]] /\ r.acked = 0 /\ leases[c] = None
        /\ r.gap # None =>
              /\ leases[c] = None
              /\ r.gap.from = r.acked + 1 /\ r.gap.through < first[c[2]]
              /\ \E s \in snapshots[c[2]] : s.through = r.gap.through

\* compact_retention, append. The body of a payload is there as long as a retained
\* event needs it, in whatever partition, and is not kept without one.
BodyFollowsEvents ==
    \A b \in Payloads \cap Managed :
        LET users == {row \in UNION {{log[q][i] : i \in Rows(q)} : q \in Partitions} :
                         row.req.payload = b}
        IN /\ (\E row \in users : ~Elapsed(row, PayloadKeep)) => payloads[b] = "present"
           /\ payloads[b] = "present" => users # {}

\* append. Every request is in the log at most once, and the requests of a producer
\* are there without a hole, in their order within a partition.
ProducerOrder ==
    /\ \A a \in Producers :
          {r.seq : r \in {q \in Accepted : q.prod = a}} = 1 .. last[a]
    /\ \A p \in Partitions : \A i, j \in DOMAIN log[p] :
          (i < j /\ Event(p, i).prod = Event(p, j).prod) => Event(p, i).seq < Event(p, j).seq

\* commit_effect, fail_effect, poll_headers. What is settled stays settled, whoever
\* comes late with an old token; cursors and the retained head never go back.
SettledIsFinal ==
    [][/\ \A c \in Groups \X Requests :
             /\ effects[c].state \in {"committed", "dead"} => effects'[c] = effects[c]
             /\ effects[c].state # "none" => effects'[c].digest = effects[c].digest
       /\ \A c \in CursorsOpen : cursors'[c].acked >= cursors[c].acked
       /\ \A p \in Partitions : first'[p] >= first[p]]_vars
=============================================================================
