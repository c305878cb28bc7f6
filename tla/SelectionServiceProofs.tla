----------------------- MODULE SelectionServiceProofs -----------------------
(***************************************************************************)
(* The safety of SelectionService for any number of workers, requests,     *)
(* attempts and faults.  The argument follows one admission id:            *)
(*   - whoever reserved it owns it until its call moves on, and nobody     *)
(*     else can (OwnersApart);                                             *)
(*   - what the owner last got from the store is the record, unless expiry *)
(*     or a reconciliation pass moved it on, which they do only from       *)
(*     states in which no operation can be running (MovedOn);              *)
(*   - the journal has the id only from begin_execution on, says started   *)
(*     while the operation runs, and completed only after it (StageOK).    *)
(***************************************************************************)
EXTENDS SelectionService, TLAPS

(* The labels at which a call works with the record it reserved.           *)
Before == {"begin_revalidation", "revalidate", "deny", "admit", "pool_check",
           "pool_cancel", "begin_execution"}

Running == {"record_started", "consume", "perform", "record_completed",
            "finalize_get", "finalize"}

Leaving == {"compensate_denied", "cleanup_cancel", "cleanup_compensate",
            "cleanup_mark", "cleanup_begin", "cleanup_finish"}

Holding == Before \cup Running \cup Leaving

Labels == Holding \cup Ended \cup {"idle", "plan", "reserve"}

(* The states in which an admission has not begun to execute, or ended     *)
(* without having begun.                                                   *)
Waiting == {"RESERVED", "REVALIDATING", "ADMITTED"}

GivenUp == {"EXPIRED", "DENIED", "CANCELLED", "COMPENSATED", "CONFLICT"}

Early == Waiting \cup GivenUp \cup {"PLANNED", "PAUSED"}

Done == {"RECOVERED_AFTER_CRASH", "FINALIZED"}

Curs == [state : AdmissionState \cup {"none"}, revision : Nat]

Local == [pc : Labels, attempt : 1..MaxAttempts, cur : Curs, clock : Nat,
          revalidated : Nat, after : {"none", "raise", "retry"}]

Entry == [state : {"started", "completed"}, revision : Nat]

Stored(recs) == DOMAIN recs \subseteq Ids /\ \A i \in DOMAIN recs : recs[i] \in Record

Journals(jrn) == \A i \in DOMAIN jrn : jrn[i] \in Entry

TypeOK ==
  /\ Stored(records)
  /\ DOMAIN journal \subseteq Ids /\ Journals(journal)
  /\ performed \in [Ids -> {0, 1}]
  /\ worker \in [Workers -> Local]
  /\ now \in Nat

-----------------------------------------------------------------------------
(* What is true of an admission that is stored: it is bound as its request *)
(* says, and its state agrees with the journal.                            *)
RecordOK(i, recs, jrn) ==
  /\ recs[i].binding = BindingOf[i[1]]
  /\ recs[i].state \in Early => i \notin DOMAIN jrn
  /\ recs[i].state = "EXECUTING" /\ i \in DOMAIN jrn
       => jrn[i].revision = recs[i].revision
  /\ recs[i].state \in Done => i \in DOMAIN jrn /\ jrn[i].state = "completed"

RecordsOK == \A i \in DOMAIN records : RecordOK(i, records, journal)

(* The journal, the store and what happened.                               *)
EntryOK(i, recs, jrn, perf) ==
  /\ i \in DOMAIN jrn => i \in DOMAIN recs
  /\ perf[i] = 1 => i \in DOMAIN jrn
  /\ i \in DOMAIN jrn /\ jrn[i].state = "completed" => perf[i] = 1

JournalOK == \A i \in Ids : EntryOK(i, records, journal, performed)

(* The state of the local variable current, by label.                      *)
CurOK(l) ==
  /\ l.pc = "begin_revalidation" => l.cur.state = "RESERVED"
  /\ l.pc \in {"revalidate", "deny", "admit"} => l.cur.state = "REVALIDATING"
  /\ l.pc \in {"pool_check", "pool_cancel", "begin_execution"} => l.cur.state = "ADMITTED"
  /\ l.pc \in Running \cup {"cleanup_mark"} => l.cur.state = "EXECUTING"
  /\ l.pc \in {"compensate_denied", "cleanup_compensate"} =>
       l.cur.state \in {"DENIED", "CANCELLED"}
  /\ l.pc = "cleanup_cancel" => l.cur.state \in Waiting
  /\ l.pc = "cleanup_begin" => l.cur.state = "EXECUTION_FAILED"
  /\ l.pc = "cleanup_finish" => l.cur.state = "COMPENSATING"

(* Where expiry and reconciliation may have brought a record since its     *)
(* owner saw it in a state.                                                *)
MovedOn(seen, state) ==
  \/ seen \in Waiting /\ state \in {"EXPIRED", "COMPENSATED"}
  \/ seen \in {"DENIED", "CANCELLED"} /\ state = "COMPENSATED"
  \/ seen = "EXECUTING" /\ state \in Done

(* The owner's copy and the record.                                        *)
UpToDate(l, r) == r.revision = l.cur.revision /\ r.state = l.cur.state

Overtaken(l, r) == r.revision > l.cur.revision /\ MovedOn(l.cur.state, r.state)

OwnerOK(l, i, recs) ==
  l.pc \in Holding =>
    i \in DOMAIN recs /\ (UpToDate(l, recs[i]) \/ Overtaken(l, recs[i]))

(* How far the owner's operation has come.                                 *)
Started(l, i, jrn) ==
  i \in DOMAIN jrn /\ jrn[i].state = "started" /\ jrn[i].revision = l.cur.revision

StageOK(l, i, jrn, perf) ==
  /\ l.pc = "record_started" => i \notin DOMAIN jrn
  /\ l.pc \in {"consume", "perform"} => Started(l, i, jrn) /\ perf[i] = 0
  /\ l.pc = "record_completed" => Started(l, i, jrn) /\ perf[i] = 1
  /\ l.pc \in {"finalize_get", "finalize"} =>
       i \in DOMAIN jrn /\ jrn[i].state = "completed"

AnswerOK(l, i, recs) ==
  /\ l.pc = "ok" => i \in DOMAIN recs /\ recs[i].state = "FINALIZED"
  /\ l.pc = "denied" => i \in DOMAIN recs /\ recs[i].state = "COMPENSATED"

LocalOK(l, i, recs, jrn, perf) ==
  CurOK(l) /\ OwnerOK(l, i, recs) /\ StageOK(l, i, jrn, perf) /\ AnswerOK(l, i, recs)

WorkersOK ==
  \A w \in Workers : LocalOK(worker[w], Id(w), records, journal, performed)

(* No two calls work with the same admission.                              *)
OwnersApart ==
  \A v, w \in Workers :
    v # w /\ worker[v].pc \in Holding /\ worker[w].pc \in Holding => Id(v) # Id(w)

(* A snapshot the pass still has to look at is the record, or older.       *)
Shows(s, r) ==
  r.state = IF s.state = "recovered" THEN "RECOVERED_AFTER_CRASH" ELSE s.state

SnapshotOK(s, recs) ==
  /\ s.id \in DOMAIN recs /\ s.revision \in Nat
  /\ s.revision <= recs[s.id].revision
  /\ s.revision = recs[s.id].revision => Shows(s, recs[s.id])

TodoOK == \A s \in todo : SnapshotOK(s, records)

Apart(recs) == AgentsApart(recs) /\ ScopesApart(recs)

(* The inductive invariant.                                                *)
IInv ==
  /\ TypeOK /\ RecordsOK /\ JournalOK /\ WorkersOK
  /\ OwnersApart /\ TodoOK /\ Apart(records)

-----------------------------------------------------------------------------
(* What a step may do to a stored record: nothing, or one transition.      *)
Advanced(r, new) ==
  /\ new \in Record
  /\ new.state \in AllowedTransitions[r.state]
  /\ new.revision = r.revision + 1
  /\ new.binding = r.binding

Moved(r, new) == new = r \/ Advanced(r, new)

(* The transitions of those who do not own the record: the expiry sweep    *)
(* and the reconciliation pass.                                            *)
ByOthers(from, to) ==
  \/ from \in ExpirableStates /\ to = "EXPIRED"
  \/ from \in {"CONFLICT", "EXPIRED", "DENIED", "CANCELLED"} /\ to = "COMPENSATED"
  \/ from = "EXECUTING" /\ to = "RECOVERED_AFTER_CRASH"
  \/ from = "RECOVERED_AFTER_CRASH" /\ to = "FINALIZED"

MovedByOthers(r, new) == new = r \/ (Advanced(r, new) /\ ByOthers(r.state, new.state))

(* The journal and the count of one admission are left alone.              *)
SameBooks(i, jrn, perf, jrn2, perf2) ==
  /\ i \in DOMAIN jrn2 <=> i \in DOMAIN jrn
  /\ i \in DOMAIN jrn => jrn2[i] = jrn[i]
  /\ perf2[i] = perf[i]

-----------------------------------------------------------------------------
(* The transition graph: where a transition leads, and where it may come   *)
(* from.                                                                   *)
LEMMA TransitionGraph ==
  ASSUME NEW s \in AdmissionState, NEW target \in AllowedTransitions[s]
  PROVE  /\ target \in AdmissionState
         /\ target \in ActiveStates => s \in ActiveStates
         /\ target \in Early \cup {"EXECUTING"} /\ target # "PAUSED" => s \in Early
         /\ target = "RECOVERED_AFTER_CRASH" => s = "EXECUTING"
         /\ target = "FINALIZED" => s \in {"EXECUTING", "RECOVERED_AFTER_CRASH"}
         /\ target = "COMPENSATED" => s \in {"CONFLICT", "EXPIRED", "DENIED", "CANCELLED"}
         /\ s \notin {"FINALIZED", "COMPENSATED"}
<1>1. /\ target \in AdmissionState
      /\ target \in ActiveStates => s \in ActiveStates
      /\ s \notin {"FINALIZED", "COMPENSATED"}
  BY DEF AllowedTransitions, AdmissionState, ActiveStates
<1>2. target \in Early \cup {"EXECUTING"} /\ target # "PAUSED" => s \in Early
  BY DEF AllowedTransitions, AdmissionState, Early, Waiting, GivenUp
<1>3. /\ target = "RECOVERED_AFTER_CRASH" => s = "EXECUTING"
      /\ target = "FINALIZED" => s \in {"EXECUTING", "RECOVERED_AFTER_CRASH"}
      /\ target = "COMPENSATED" => s \in {"CONFLICT", "EXPIRED", "DENIED", "CANCELLED"}
  BY DEF AllowedTransitions, AdmissionState
<1> QED
  BY <1>1, <1>2, <1>3

(* An advanced record.                                                     *)
LEMMA AdvanceRecord ==
  ASSUME NEW r \in Record, NEW target \in AllowedTransitions[r.state]
  PROVE  /\ Advanced(r, Advance(r, target))
         /\ Advance(r, target).state = target
<1>1. r.state \in AdmissionState
  BY DEF Record
<1>2. target \in AdmissionState
  BY <1>1, TransitionGraph
<1> QED
  BY <1>2 DEF Advanced, Advance, Record

(* The sweep.                                                              *)
LEMMA SweepMoves ==
  ASSUME NEW recs, Stored(recs), NEW t
  PROVE  /\ Stored(ExpireAll(recs, t))
         /\ DOMAIN ExpireAll(recs, t) = DOMAIN recs
         /\ \A i \in DOMAIN recs : MovedByOthers(recs[i], ExpireAll(recs, t)[i])
<1> DEFINE swept == ExpireAll(recs, t)
<1>1. DOMAIN swept = DOMAIN recs
  BY DEF ExpireAll
<1>2. ASSUME NEW i \in DOMAIN recs
      PROVE  swept[i] \in Record /\ MovedByOthers(recs[i], swept[i])
  <2>1. recs[i] \in Record
    BY DEF Stored
  <2>2. CASE Overdue(recs[i], t)
    <3>1. swept[i] = Advance(recs[i], "EXPIRED")
      BY <2>2 DEF ExpireAll
    <3>2. "EXPIRED" \in AllowedTransitions[recs[i].state]
          /\ recs[i].state \in ExpirableStates
      BY <2>2 DEF Overdue, ExpirableStates, AllowedTransitions, AdmissionState
    <3>3. Advanced(recs[i], swept[i]) /\ swept[i].state = "EXPIRED"
      BY <2>1, <3>1, <3>2, AdvanceRecord
    <3> QED
      BY <3>2, <3>3 DEF MovedByOthers, ByOthers, Advanced
  <2>3. CASE ~ Overdue(recs[i], t)
    BY <2>1, <2>3 DEF ExpireAll, MovedByOthers
  <2> QED
    BY <2>2, <2>3
<1> QED
  BY <1>1, <1>2 DEF Stored

(* The compare-and-set.                                                    *)
LEMMA TransitionMoves ==
  ASSUME NEW recs, Stored(recs), NEW id, NEW target, NEW expected, NEW t,
         CanTransition(recs, id, target, expected, t)
  PROVE  LET new == Transitioned(recs, id, target) IN
         /\ id \in DOMAIN recs /\ recs[id].revision = expected
         /\ Stored(new) /\ DOMAIN new = DOMAIN recs
         /\ Advanced(recs[id], new[id]) /\ new[id].state = target
         /\ \A i \in DOMAIN recs : i # id => new[i] = recs[i]
<1> DEFINE new == Transitioned(recs, id, target)
<1>1. /\ id \in DOMAIN recs /\ recs[id].revision = expected /\ recs[id] \in Record
      /\ target \in AllowedTransitions[recs[id].state]
  BY DEF CanTransition, CanAdvance, Stored
<1>2. /\ DOMAIN new = DOMAIN recs
      /\ new[id] = Advance(recs[id], target)
      /\ \A i \in DOMAIN recs : i # id => new[i] = recs[i]
  BY <1>1 DEF Transitioned
<1>3. Advanced(recs[id], new[id]) /\ new[id].state = target
  BY <1>1, <1>2, AdvanceRecord
<1> HIDE DEF new
<1>4. Stored(new)
  BY <1>2, <1>3 DEF Stored, Advanced
<1> QED
  BY <1>1, <1>2, <1>3, <1>4 DEF new

(* Records that move on keep the active ones apart.                        *)
LEMMA MovesKeepApart ==
  ASSUME NEW recs, NEW new, Stored(recs), Apart(recs), DOMAIN new = DOMAIN recs,
         \A i \in DOMAIN recs : Moved(recs[i], new[i])
  PROVE  Apart(new)
<1>1. ASSUME NEW i \in ActiveIds(new)
      PROVE  i \in ActiveIds(recs) /\ new[i].binding = recs[i].binding
  <2>1. i \in DOMAIN recs /\ Active(new[i]) /\ Moved(recs[i], new[i])
    BY DEF ActiveIds
  <2>2. recs[i].state \in AdmissionState
    BY <2>1 DEF Stored, Record
  <2> QED
    BY <2>1, <2>2, TransitionGraph DEF Moved, Advanced, Active, ActiveIds
<1> QED
  BY <1>1 DEF Apart, AgentsApart, ScopesApart

(* A record that reserve found no conflict for may join them.              *)
LEMMA ReserveKeepsApart ==
  ASSUME NEW recs, Apart(recs), NEW id, id \notin DOMAIN recs,
         NEW r, ~ ReservationConflict(recs, r.binding)
  PROVE  Apart(Put(recs, id, r))
<1> DEFINE new == Put(recs, id, r)
<1>1. /\ DOMAIN new = DOMAIN recs \cup {id}
      /\ new[id] = r
      /\ \A i \in DOMAIN recs : new[i] = recs[i]
  BY DEF Put
<1> HIDE DEF new
<1>2. /\ ActiveIds(recs) \subseteq DOMAIN recs
      /\ ActiveIds(new) \subseteq ActiveIds(recs) \cup {id}
  BY <1>1 DEF ActiveIds
<1>3. \A i \in ActiveIds(recs) : /\ recs[i].binding.agent # r.binding.agent
                                  /\ ~ ScopeConflicts(recs[i].binding, r.binding)
  BY DEF ReservationConflict
<1>4. AgentsApart(new)
  BY <1>1, <1>2, <1>3 DEF Apart, AgentsApart
<1>5. \A b, c : ScopeConflicts(b, c) <=> ScopeConflicts(c, b)
  BY DEF ScopeConflicts, ScopePathsOverlap
<1>6. ScopesApart(new)
  BY <1>1, <1>2, <1>3, <1>5 DEF Apart, ScopesApart
<1> QED
  BY <1>4, <1>6 DEF Apart, new

-----------------------------------------------------------------------------
(* A call of which only others moved the record, and nobody the journal.   *)
LEMMA LocalKept ==
  ASSUME NEW l \in Local, NEW i, NEW recs, NEW jrn, NEW perf,
         NEW recs2, NEW jrn2, NEW perf2,
         Stored(recs), LocalOK(l, i, recs, jrn, perf),
         i \in DOMAIN recs => i \in DOMAIN recs2 /\ Moved(recs[i], recs2[i]),
         l.pc \in Holding => /\ MovedByOthers(recs[i], recs2[i])
                             /\ SameBooks(i, jrn, perf, jrn2, perf2)
  PROVE  LocalOK(l, i, recs2, jrn2, perf2)
<1>1. CurOK(l)
  BY DEF LocalOK
<1>2. i \in DOMAIN recs => recs[i].state \in AdmissionState /\ recs[i].revision \in Nat
  BY DEF Stored, Record
<1>3. l.cur.revision \in Nat
  BY DEF Local, Curs
<1>4. OwnerOK(l, i, recs2)
  <2> SUFFICES ASSUME l.pc \in Holding
               PROVE  i \in DOMAIN recs2 /\ (UpToDate(l, recs2[i]) \/ Overtaken(l, recs2[i]))
    BY DEF OwnerOK
  <2>1. /\ i \in DOMAIN recs /\ i \in DOMAIN recs2
        /\ UpToDate(l, recs[i]) \/ Overtaken(l, recs[i])
        /\ MovedByOthers(recs[i], recs2[i])
    BY DEF LocalOK, OwnerOK
  <2>2. CASE recs2[i] = recs[i]
    BY <2>1, <2>2
  <2>3. CASE Advanced(recs[i], recs2[i]) /\ ByOthers(recs[i].state, recs2[i].state)
    <3>1. recs2[i].revision > l.cur.revision
      BY <2>1, <2>3, <1>2, <1>3 DEF Advanced, UpToDate, Overtaken
    <3>2. CASE UpToDate(l, recs[i])
      <4>1. l.cur.state \in Waiting \cup {"EXECUTING", "DENIED", "CANCELLED",
                                       "EXECUTION_FAILED", "COMPENSATING"}
        BY <1>1 DEF CurOK, Holding, Before, Running, Leaving, Waiting
      <4>2. MovedOn(l.cur.state, recs2[i].state)
        BY <2>3, <3>2, <4>1 DEF UpToDate, ByOthers, MovedOn, ExpirableStates, Waiting, Done
      <4> QED
        BY <2>1, <3>1, <4>2 DEF Overtaken
    <3>3. CASE Overtaken(l, recs[i])
      <4>1. MovedOn(l.cur.state, recs2[i].state)
        BY <2>3, <3>3 DEF Overtaken, ByOthers, MovedOn, ExpirableStates, Waiting, Done
      <4> QED
        BY <2>1, <3>1, <4>1 DEF Overtaken
    <3> QED
      BY <2>1, <3>2, <3>3
  <2> QED
    BY <2>1, <2>2, <2>3 DEF MovedByOthers
<1>5. StageOK(l, i, jrn2, perf2)
  BY DEF LocalOK, StageOK, Started, SameBooks, Holding, Running
<1>6. AnswerOK(l, i, recs2)
  BY <1>2, TransitionGraph DEF LocalOK, AnswerOK, Moved, Advanced
<1> QED
  BY <1>1, <1>4, <1>5, <1>6 DEF LocalOK

(* A snapshot of a record that moves on.                                   *)
LEMMA SnapshotKept ==
  ASSUME NEW s, NEW recs, NEW recs2, Stored(recs), SnapshotOK(s, recs),
         s.id \in DOMAIN recs2, Moved(recs[s.id], recs2[s.id])
  PROVE  SnapshotOK(s, recs2)
<1>1. recs[s.id].revision \in Nat
  BY DEF SnapshotOK, Stored, Record
<1> QED
  BY <1>1 DEF SnapshotOK, Moved, Advanced

(* A record that moves on without touching the journal.                    *)
LEMMA RecordKept ==
  ASSUME NEW i, NEW recs, NEW recs2, NEW jrn, Stored(recs), i \in DOMAIN recs,
         RecordOK(i, recs, jrn), Moved(recs[i], recs2[i]),
         recs2[i].state = "PAUSED" => recs2[i] = recs[i],
         recs2[i].state \in Done => recs[i].state \in Done
                                    \/ (i \in DOMAIN jrn /\ jrn[i].state = "completed")
  PROVE  RecordOK(i, recs2, jrn)
<1>1. CASE recs2[i] = recs[i]
  BY <1>1 DEF RecordOK
<1>2. CASE Advanced(recs[i], recs2[i])
  <2>1. recs[i].state \in AdmissionState /\ recs[i].revision \in Nat
    BY DEF Stored, Record
  <2>2. recs2[i].state # "PAUSED"
    BY <1>2, <2>1 DEF Advanced
  <2>3. recs2[i].state \in Early \cup {"EXECUTING"} => recs[i].state \in Early
    BY <1>2, <2>1, <2>2, TransitionGraph DEF Advanced
  <2> QED
    BY <1>2, <2>3 DEF RecordOK, Advanced
<1> QED
  BY <1>1, <1>2 DEF Moved

-----------------------------------------------------------------------------
(* What a step of one worker must show for the invariant to hold after it. *)
LEMMA StepKeeps ==
  ASSUME IInv, NEW w \in Workers,
         TypeOK', RecordsOK', JournalOK', TodoOK', Apart(records)',
         \A v \in Workers : v # w => worker'[v] = worker[v],
         \A i \in DOMAIN records :
           i \in DOMAIN records' /\ Moved(records[i], records'[i]),
         \A v \in Workers : v # w /\ worker[v].pc \in Holding =>
           /\ MovedByOthers(records[Id(v)], records'[Id(v)])
           /\ SameBooks(Id(v), journal, performed, journal', performed'),
         LocalOK(worker'[w], Id(w)', records', journal', performed'),
         worker'[w].pc \in Holding =>
           \/ worker[w].pc \in Holding /\ worker'[w].attempt = worker[w].attempt
           \/ Id(w)' \notin DOMAIN records
  PROVE  IInv'
<1>1. WorkersOK'
  <2> SUFFICES ASSUME NEW v \in Workers, v # w
               PROVE  LocalOK(worker'[v], Id(v)', records', journal', performed')
    BY DEF WorkersOK
  <2>1. worker'[v] = worker[v] /\ Id(v)' = Id(v)
    BY DEF Id
  <2>2. /\ worker[v] \in Local /\ Stored(records)
        /\ LocalOK(worker[v], Id(v), records, journal, performed)
    BY DEF IInv, TypeOK, WorkersOK
  <2>3. LocalOK(worker[v], Id(v), records', journal', performed')
    BY <2>2, LocalKept
  <2> QED
    BY <2>1, <2>3
<1>2. OwnersApart'
  <2>1. \A v \in Workers : v # w => Id(v)' = Id(v) /\ worker'[v].pc = worker[v].pc
    BY DEF Id
  <2>2. \A v \in Workers : worker[v].pc \in Holding => Id(v) \in DOMAIN records
    BY DEF IInv, WorkersOK, LocalOK, OwnerOK
  <2>3. worker[w].pc \in Holding /\ worker'[w].attempt = worker[w].attempt
          => Id(w)' = Id(w)
    BY DEF Id
  <2>4. \A v \in Workers : v # w /\ worker'[v].pc \in Holding /\ worker'[w].pc \in Holding
          => Id(v)' # Id(w)'
    BY <2>1, <2>2, <2>3 DEF IInv, OwnersApart
  <2>5. \A u, v \in Workers : u # w /\ v # w /\ u # v /\ worker'[u].pc \in Holding
          /\ worker'[v].pc \in Holding => Id(u)' # Id(v)'
    BY <2>1 DEF IInv, OwnersApart
  <2> QED
    BY <2>4, <2>5 DEF OwnersApart
<1> QED
  BY <1>1, <1>2 DEF IInv

(* Nothing but the worker's own variables changes.                         *)
LEMMA LocalStep ==
  ASSUME IInv, NEW w \in Workers, worker' \in [Workers -> Local],
         UNCHANGED <<records, journal, performed, todo, now>>,
         \A v \in Workers : v # w => worker'[v] = worker[v],
         LocalOK(worker'[w], Id(w)', records, journal, performed),
         worker'[w].pc \in Holding =>
           worker[w].pc \in Holding /\ worker'[w].attempt = worker[w].attempt
  PROVE  IInv'
<1>1. TypeOK' /\ RecordsOK' /\ JournalOK' /\ TodoOK' /\ Apart(records)'
  BY DEF IInv, TypeOK, Stored, Journals, RecordsOK, RecordOK, JournalOK, EntryOK, TodoOK,
     SnapshotOK, Shows, Apart, AgentsApart, ScopesApart, ActiveIds
<1>2. \A i \in DOMAIN records : i \in DOMAIN records' /\ Moved(records[i], records'[i])
  BY DEF Moved
<1>3. \A v \in Workers : v # w /\ worker[v].pc \in Holding =>
        /\ MovedByOthers(records[Id(v)], records'[Id(v)])
        /\ SameBooks(Id(v), journal, performed, journal', performed')
  BY DEF MovedByOthers, SameBooks
<1> QED
  BY <1>1, <1>2, <1>3, StepKeeps

(* Resume and End as assignments to the fields.                            *)
LEMMA ResumeShape ==
  ASSUME TypeOK, NEW w \in Workers, NEW label \in Labels, NEW attempt \in 1..MaxAttempts,
         NEW cur \in Curs, NEW revalidated \in Nat,
         NEW after \in {"none", "raise", "retry"},
         Resume(w, label, attempt, cur, revalidated, after)
  PROVE  /\ worker' \in [Workers -> Local]
         /\ \A v \in Workers : v # w => worker'[v] = worker[v]
         /\ worker'[w].pc = label /\ worker'[w].attempt = attempt /\ worker'[w].cur = cur
         /\ Id(w)' = <<RequestOf[w], attempt>>
<1> DEFINE l == [pc |-> label, attempt |-> attempt, cur |-> cur, clock |-> now,
                 revalidated |-> revalidated, after |-> after]
<1>1. worker' = [worker EXCEPT ![w] = l] /\ worker \in [Workers -> Local]
  BY DEF Resume, TypeOK
<1>2. l \in Local /\ l.pc = label /\ l.attempt = attempt /\ l.cur = cur
  BY DEF Local, TypeOK
<1> HIDE DEF l
<1> QED
  BY <1>1, <1>2 DEF Id

LEMMA EndShape ==
  ASSUME TypeOK, NEW w \in Workers, NEW answer \in Ended, End(w, answer)
  PROVE  /\ worker' \in [Workers -> Local]
         /\ \A v \in Workers : v # w => worker'[v] = worker[v]
         /\ worker'[w].pc = answer /\ Id(w)' = Id(w)
<1> DEFINE l == [pc |-> answer, attempt |-> worker[w].attempt, cur |-> NoCur,
                 clock |-> 0, revalidated |-> 0, after |-> "none"]
<1>1. /\ worker' = [worker EXCEPT ![w] = l] /\ worker \in [Workers -> Local]
      /\ worker[w].attempt \in 1..MaxAttempts
  BY DEF End, TypeOK, Local
<1>2. l \in Local /\ l.pc = answer /\ l.attempt = worker[w].attempt
  BY <1>1 DEF Local, Labels, Curs, NoCur
<1> HIDE DEF l
<1> QED
  BY <1>1, <1>2 DEF Id

(* The types of a worker's variables.                                      *)
LEMMA LocalTypes ==
  ASSUME TypeOK, NEW w \in Workers
  PROVE  /\ worker[w] \in Local /\ worker[w].attempt \in 1..MaxAttempts
         /\ worker[w].cur \in Curs /\ worker[w].cur.revision \in Nat
         /\ worker[w].revalidated \in Nat
         /\ worker[w].clock \in Nat
         /\ worker[w].after \in {"none", "raise", "retry"}
         /\ Id(w) \in Ids
<1>1. /\ worker[w] \in Local /\ worker[w].attempt \in 1..MaxAttempts
      /\ worker[w].cur \in Curs /\ worker[w].revalidated \in Nat
      /\ worker[w].clock \in Nat
      /\ worker[w].after \in {"none", "raise", "retry"}
  BY DEF TypeOK, Local
<1>2. RequestOf[w] \in Requests
  BY DEF Requests
<1> QED
  BY <1>1, <1>2, SelectionAssumption DEF Id, Curs

(* A call that holds nothing has nothing to be wrong about.                *)
LEMMA IdleOK ==
  ASSUME NEW l, NEW i, NEW recs, NEW jrn, NEW perf,
         l.pc \in {"idle", "plan", "reserve", "failed"}
  PROVE  LocalOK(l, i, recs, jrn, perf) /\ l.pc \notin Holding
<1>1. l.pc \notin Holding
  BY DEF Holding, Before, Running, Leaving
<1>2. CurOK(l)
  BY DEF CurOK, Running
<1>3. StageOK(l, i, jrn, perf) /\ AnswerOK(l, i, recs)
  BY DEF StageOK, AnswerOK
<1> QED
  BY <1>1, <1>2, <1>3 DEF LocalOK, OwnerOK

(* A call that goes on with the same record.                               *)
LEMMA SameCurOK ==
  ASSUME NEW l, NEW m, NEW i, NEW recs, NEW jrn, NEW perf, NEW jrn2, NEW perf2,
         LocalOK(l, i, recs, jrn, perf), l.pc \in Holding,
         m.pc \in Holding, m.cur = l.cur, CurOK(m), StageOK(m, i, jrn2, perf2)
  PROVE  LocalOK(m, i, recs, jrn2, perf2)
<1>1. m.pc \notin {"ok", "denied"}
  BY DEF Holding, Before, Running, Leaving
<1> QED
  BY <1>1 DEF LocalOK, OwnerOK, AnswerOK, UpToDate, Overtaken

(* Into the cleanup.                                                       *)
Cleanable == Waiting \cup {"DENIED", "CANCELLED", "EXECUTING"}

LEMMA CleanupShape ==
  ASSUME IInv, NEW w \in Workers, worker[w].pc \in Holding,
         worker[w].cur.state \in Cleanable, NEW revalidated \in Nat,
         NEW after \in {"none", "raise", "retry"},
         Resume(w, CleanupLabel(worker[w].cur.state), worker[w].attempt, worker[w].cur,
                revalidated, after)
  PROVE  /\ worker' \in [Workers -> Local]
         /\ \A v \in Workers : v # w => worker'[v] = worker[v]
         /\ worker'[w].attempt = worker[w].attempt /\ Id(w)' = Id(w)
         /\ \A jrn, perf : LocalOK(worker'[w], Id(w), records, jrn, perf)
<1> DEFINE label == CleanupLabel(worker[w].cur.state)
<1>1. /\ label \in {"cleanup_cancel", "cleanup_compensate", "cleanup_mark"}
      /\ label = "cleanup_cancel" => worker[w].cur.state \in Waiting
      /\ label = "cleanup_compensate" => worker[w].cur.state \in {"DENIED", "CANCELLED"}
      /\ label = "cleanup_mark" => worker[w].cur.state = "EXECUTING"
  BY DEF CleanupLabel, Cleanable, Waiting
<1>2. label \in Holding /\ label \in Labels
  BY <1>1 DEF Holding, Leaving, Labels
<1>3. TypeOK /\ LocalOK(worker[w], Id(w), records, journal, performed)
  BY DEF IInv, WorkersOK
<1> HIDE DEF label
<1>4. /\ worker' \in [Workers -> Local]
      /\ \A v \in Workers : v # w => worker'[v] = worker[v]
      /\ worker'[w].pc = label /\ worker'[w].attempt = worker[w].attempt
      /\ worker'[w].cur = worker[w].cur
      /\ Id(w)' = Id(w)
  BY <1>2, <1>3, LocalTypes, ResumeShape DEF label, Id
<1>5. CurOK(worker'[w])
  BY <1>1, <1>4 DEF CurOK, Running
<1>6. ASSUME NEW jrn, NEW perf PROVE LocalOK(worker'[w], Id(w), records, jrn, perf)
  <2>1. StageOK(worker'[w], Id(w), jrn, perf)
    BY <1>1, <1>4 DEF StageOK
  <2> QED
    BY <1>2, <1>3, <1>4, <1>5, <2>1, SameCurOK
<1> QED
  BY <1>4, <1>6

-----------------------------------------------------------------------------
(* The steps that change nothing but the call itself.                      *)

(* Facts at hand in every step.                                            *)
LEMMA AtHand ==
  ASSUME IInv, NEW w \in Workers
  PROVE  TypeOK /\ LocalOK(worker[w], Id(w), records, journal, performed)
  BY DEF IInv, WorkersOK

LEMMA FailsKeeps ==
  ASSUME IInv, NEW w \in Workers, End(w, "failed"),
         UNCHANGED <<records, journal, performed, todo, now>>
  PROVE  IInv'
<1>1. TypeOK
  BY DEF IInv
<1>2. /\ worker' \in [Workers -> Local]
      /\ \A v \in Workers : v # w => worker'[v] = worker[v]
      /\ worker'[w].pc = "failed" /\ Id(w)' = Id(w)
  BY <1>1, EndShape DEF Ended
<1> QED
  BY <1>2, IdleOK, LocalStep

LEMMA NextAttemptKeeps ==
  ASSUME IInv, NEW w \in Workers, NextAttempt(w),
         UNCHANGED <<records, journal, performed, todo, now>>
  PROVE  IInv'
<1>1. TypeOK
  BY DEF IInv
<1>2. CASE /\ worker[w].attempt < MaxAttempts
           /\ Resume(w, "plan", worker[w].attempt + 1, NoCur, 0, "none")
  <2>1. worker[w].attempt + 1 \in 1..MaxAttempts
    BY <1>1, <1>2, LocalTypes, SelectionAssumption
  <2>2. NoCur \in Curs /\ "plan" \in Labels
    BY DEF NoCur, Curs, Labels
  <2>3. /\ worker' \in [Workers -> Local]
        /\ \A v \in Workers : v # w => worker'[v] = worker[v]
        /\ worker'[w].pc = "plan"
    BY <1>1, <1>2, <2>1, <2>2, ResumeShape
  <2> QED
    BY <2>3, IdleOK, LocalStep
<1>3. CASE End(w, "failed")
  BY <1>3, FailsKeeps
<1> QED
  BY <1>2, <1>3 DEF NextAttempt

LEMMA AfterCleanupKeeps ==
  ASSUME IInv, NEW w \in Workers, AfterCleanup(w),
         UNCHANGED <<records, journal, performed, todo, now>>
  PROVE  IInv'
  BY NextAttemptKeeps, FailsKeeps DEF AfterCleanup

LEMMA CleanupKeeps ==
  ASSUME IInv, NEW w \in Workers, worker[w].pc \in Holding,
         worker[w].cur.state \in Cleanable,
         NEW after \in {"raise", "retry"}, Cleanup(w, after),
         UNCHANGED <<records, journal, performed, todo, now>>
  PROVE  IInv'
<1>1. worker[w].revalidated \in Nat
  BY LocalTypes DEF IInv
<1>2. /\ worker' \in [Workers -> Local]
      /\ \A v \in Workers : v # w => worker'[v] = worker[v]
      /\ worker'[w].attempt = worker[w].attempt /\ Id(w)' = Id(w)
      /\ \A jrn, perf : LocalOK(worker'[w], Id(w), records, jrn, perf)
  BY <1>1, CleanupShape DEF Cleanup
<1> QED
  BY <1>2, LocalStep

(* Goto and Remember between two labels of the same record.                *)
LEMMA GotoShape ==
  ASSUME TypeOK, NEW w \in Workers, NEW label \in Labels, NEW revision \in Nat,
         Goto(w, label) \/ Remember(w, label, revision)
  PROVE  /\ worker' \in [Workers -> Local]
         /\ \A v \in Workers : v # w => worker'[v] = worker[v]
         /\ worker'[w].pc = label /\ worker'[w].attempt = worker[w].attempt
         /\ worker'[w].cur = worker[w].cur
         /\ Id(w)' = Id(w)
<1>1. /\ worker[w].attempt \in 1..MaxAttempts /\ worker[w].cur \in Curs
      /\ worker[w].revalidated \in Nat /\ worker[w].after \in {"none", "raise", "retry"}
  BY LocalTypes
<1>2. PICK r \in Nat : Resume(w, label, worker[w].attempt, worker[w].cur, r, worker[w].after)
  BY <1>1 DEF Goto, Remember
<1> QED
  BY <1>1, <1>2, ResumeShape DEF Id

LEMMA GotoKeeps ==
  ASSUME IInv, NEW w \in Workers, worker[w].pc \in Holding,
         NEW label \in Holding, NEW revision \in Nat,
         Goto(w, label) \/ Remember(w, label, revision),
         UNCHANGED <<records, journal, performed, todo, now>>,
         CurOK(worker'[w]), StageOK(worker'[w], Id(w), journal, performed)
  PROVE  IInv'
<1>1. TypeOK /\ LocalOK(worker[w], Id(w), records, journal, performed)
  BY AtHand
<1>2. label \in Labels
  BY DEF Labels
<1>3. /\ worker' \in [Workers -> Local]
      /\ \A v \in Workers : v # w => worker'[v] = worker[v]
      /\ worker'[w].pc = label /\ worker'[w].attempt = worker[w].attempt
      /\ worker'[w].cur = worker[w].cur
      /\ Id(w)' = Id(w)
  BY <1>1, <1>2, GotoShape
<1>4. LocalOK(worker'[w], Id(w), records, journal, performed)
  BY <1>1, <1>3, SameCurOK
<1> QED
  BY <1>3, <1>4, LocalStep

LEMMA CallKeeps == ASSUME IInv, NEW w \in Workers, Call(w) PROVE IInv'
<1>1. /\ worker' \in [Workers -> Local]
      /\ \A v \in Workers : v # w => worker'[v] = worker[v]
      /\ worker'[w].pc = "plan"
  BY GotoShape DEF IInv, Call, Labels
<1> QED
  BY <1>1, IdleOK, LocalStep DEF Call

LEMMA PlanKeeps == ASSUME IInv, NEW w \in Workers, PlanAdmission(w) PROVE IInv'
<1>1. CASE Goto(w, "reserve")
  <2>1. /\ worker' \in [Workers -> Local]
        /\ \A v \in Workers : v # w => worker'[v] = worker[v]
        /\ worker'[w].pc = "reserve"
    BY <1>1, GotoShape DEF IInv, Labels
  <2> QED
    BY <2>1, IdleOK, LocalStep DEF PlanAdmission
<1>2. CASE End(w, "failed")
  BY <1>2, FailsKeeps DEF PlanAdmission
<1> QED
  BY <1>1, <1>2 DEF PlanAdmission

LEMMA CrashKeeps == ASSUME IInv, NEW w \in Workers, Crash(w) PROVE IInv'
<1>1. Fresh \in Local
  BY SelectionAssumption DEF Fresh, Local, Labels, Curs, NoCur
<1>2. /\ worker' \in [Workers -> Local]
      /\ \A v \in Workers : v # w => worker'[v] = worker[v]
      /\ worker'[w].pc = "idle"
  BY <1>1 DEF IInv, TypeOK, Crash, Fresh
<1> QED
  BY <1>2, IdleOK, LocalStep DEF Crash

LEMMA RevalidateKeeps == ASSUME IInv, NEW w \in Workers, Revalidate(w) PROVE IInv'
<1>1. TypeOK /\ CurOK(worker[w]) /\ worker[w].pc = "revalidate"
  BY AtHand DEF LocalOK, Revalidate, At
<1>2. PICK label \in {"admit", "deny"}, r \in Nat : Goto(w, label) \/ Remember(w, label, r)
  BY <1>1, LocalTypes DEF Revalidate
<1>3. label \in Holding /\ label \in Labels /\ worker[w].pc \in Holding
  BY <1>1 DEF Holding, Before, Labels
<1>4. worker'[w].pc = label /\ worker'[w].cur = worker[w].cur
  BY <1>1, <1>2, <1>3, GotoShape
<1>5. CurOK(worker'[w]) /\ StageOK(worker'[w], Id(w), journal, performed)
  BY <1>1, <1>4 DEF CurOK, StageOK, Running
<1> QED
  BY <1>2, <1>3, <1>5, GotoKeeps DEF Revalidate

LEMMA PoolCheckKeeps == ASSUME IInv, NEW w \in Workers, PoolCheck(w) PROVE IInv'
<1>1. TypeOK /\ CurOK(worker[w]) /\ worker[w].pc = "pool_check"
  BY AtHand DEF LocalOK, PoolCheck, At
<1>2. PICK label \in {"begin_execution", "pool_cancel"} : Goto(w, label)
  BY DEF PoolCheck
<1>3. label \in Holding /\ label \in Labels /\ worker[w].pc \in Holding
  BY <1>1 DEF Holding, Before, Labels
<1>4. worker'[w].pc = label /\ worker'[w].cur = worker[w].cur
  BY <1>1, <1>2, <1>3, GotoShape
<1>5. CurOK(worker'[w]) /\ StageOK(worker'[w], Id(w), journal, performed)
  BY <1>1, <1>4 DEF CurOK, StageOK, Running
<1> QED
  BY <1>2, <1>3, <1>5, GotoKeeps DEF PoolCheck

LEMMA ConsumeKeeps == ASSUME IInv, NEW w \in Workers, ConsumeRevalidation(w) PROVE IInv'
<1>1. /\ TypeOK /\ CurOK(worker[w]) /\ worker[w].pc = "consume"
      /\ StageOK(worker[w], Id(w), journal, performed)
  BY AtHand DEF LocalOK, ConsumeRevalidation, At
<1>2. worker[w].pc \in Holding /\ worker[w].cur.state = "EXECUTING"
  BY <1>1 DEF Holding, Running, CurOK
<1>3. CASE Remember(w, "perform", 0)
  <2>1. "perform" \in Holding /\ "perform" \in Labels
    BY DEF Holding, Running, Labels
  <2>2. worker'[w].pc = "perform" /\ worker'[w].cur = worker[w].cur
    BY <1>1, <1>3, <2>1, GotoShape
  <2>3. CurOK(worker'[w]) /\ StageOK(worker'[w], Id(w), journal, performed)
    BY <1>1, <1>2, <2>2 DEF CurOK, StageOK, Started, Running
  <2> QED
    BY <1>2, <1>3, <2>1, <2>3, GotoKeeps DEF ConsumeRevalidation
<1>4. CASE Resume(w, CleanupLabel(worker[w].cur.state), worker[w].attempt,
                  worker[w].cur, 0, "raise")
  <2>1. /\ worker' \in [Workers -> Local]
        /\ \A v \in Workers : v # w => worker'[v] = worker[v]
        /\ worker'[w].attempt = worker[w].attempt /\ Id(w)' = Id(w)
        /\ \A jrn, perf : LocalOK(worker'[w], Id(w), records, jrn, perf)
    BY <1>2, <1>4, CleanupShape DEF Cleanable
  <2> QED
    BY <1>2, <2>1, LocalStep DEF ConsumeRevalidation
<1> QED
  BY <1>3, <1>4 DEF ConsumeRevalidation

LEMMA FinalizeGetKeeps == ASSUME IInv, NEW w \in Workers, FinalizeGet(w) PROVE IInv'
<1>1. /\ TypeOK /\ LocalOK(worker[w], Id(w), records, journal, performed)
      /\ worker[w].pc = "finalize_get"
  BY AtHand DEF FinalizeGet, At
<1>2. worker[w].pc \in Holding /\ Id(w) \in DOMAIN records
  BY <1>1 DEF Holding, Running, LocalOK, OwnerOK
<1>3. CASE records[Id(w)].state = "FINALIZED" /\ End(w, "ok")
  <2>1. /\ worker' \in [Workers -> Local]
        /\ \A v \in Workers : v # w => worker'[v] = worker[v]
        /\ worker'[w].pc = "ok" /\ Id(w)' = Id(w)
    BY <1>1, <1>3, EndShape DEF Ended
  <2>2. worker'[w].pc \notin Holding
    BY <2>1 DEF Holding, Before, Running, Leaving
  <2>3. LocalOK(worker'[w], Id(w), records, journal, performed)
    BY <1>2, <1>3, <2>1, <2>2 DEF LocalOK, CurOK, Running, OwnerOK, StageOK, AnswerOK
  <2> QED
    BY <2>1, <2>2, <2>3, LocalStep DEF FinalizeGet
<1>4. CASE Goto(w, "finalize")
  <2>1. "finalize" \in Holding /\ "finalize" \in Labels
    BY DEF Holding, Running, Labels
  <2>2. worker'[w].pc = "finalize" /\ worker'[w].cur = worker[w].cur
    BY <1>1, <1>4, <2>1, GotoShape
  <2>3. CurOK(worker'[w]) /\ StageOK(worker'[w], Id(w), journal, performed)
    BY <1>1, <2>2 DEF LocalOK, CurOK, StageOK, Running
  <2> QED
    BY <1>2, <1>4, <2>1, <2>3, GotoKeeps DEF FinalizeGet
<1> QED
  BY <1>3, <1>4 DEF FinalizeGet

-----------------------------------------------------------------------------
(* The steps in which a call moves its record.                             *)
LEMMA CommitKeeps ==
  ASSUME IInv, NEW w \in Workers, worker[w].pc \in Holding, NEW target, NEW t,
         Commit(w, target, t), worker' \in [Workers -> Local],
         UNCHANGED <<journal, performed, todo, now>>,
         \A v \in Workers : v # w => worker'[v] = worker[v],
         LocalOK(worker'[w], Id(w)', records', journal, performed),
         worker'[w].pc \in Holding => worker'[w].attempt = worker[w].attempt,
         target # "PAUSED",
         target \in Done => Id(w) \in DOMAIN journal /\ journal[Id(w)].state = "completed"
  PROVE  IInv'
<1> DEFINE i == Id(w)
<1>1. /\ i \in DOMAIN records
      /\ Stored(records') /\ DOMAIN records' = DOMAIN records
      /\ Advanced(records[i], records'[i]) /\ records'[i].state = target
      /\ \A j \in DOMAIN records : j # i => records'[j] = records[j]
  BY TransitionMoves DEF IInv, TypeOK, Commit
<1> HIDE DEF i
<1>2. \A j \in DOMAIN records : Moved(records[j], records'[j])
  BY <1>1 DEF Moved
<1>3. TypeOK'
  BY <1>1 DEF IInv, TypeOK, Stored, Journals
<1>4. RecordsOK'
  <2> SUFFICES ASSUME NEW j \in DOMAIN records PROVE RecordOK(j, records', journal)
    BY <1>1 DEF RecordsOK, RecordOK
  <2>1. RecordOK(j, records, journal) /\ Stored(records)
    BY DEF IInv, RecordsOK, TypeOK
  <2>2. CASE j = i
    BY <1>1, <1>2, <2>1, <2>2, RecordKept DEF i
  <2>3. CASE j # i
    BY <1>1, <2>1, <2>3 DEF RecordOK
  <2> QED
    BY <2>2, <2>3
<1>5. JournalOK'
  BY <1>1 DEF IInv, JournalOK, EntryOK
<1>6. TodoOK'
  <2> SUFFICES ASSUME NEW s \in todo PROVE SnapshotOK(s, records')
    BY DEF TodoOK, SnapshotOK, Shows
  <2>1. SnapshotOK(s, records) /\ Stored(records) /\ s.id \in DOMAIN records
    BY DEF IInv, TodoOK, TypeOK, SnapshotOK
  <2> QED
    BY <1>1, <1>2, <2>1, SnapshotKept
<1>7. Apart(records')
  BY <1>1, <1>2, MovesKeepApart DEF IInv, TypeOK
<1>8. \A v \in Workers : v # w /\ worker[v].pc \in Holding =>
        /\ MovedByOthers(records[Id(v)], records'[Id(v)])
        /\ SameBooks(Id(v), journal, performed, journal', performed')
  <2> SUFFICES ASSUME NEW v \in Workers, v # w, worker[v].pc \in Holding
               PROVE  /\ MovedByOthers(records[Id(v)], records'[Id(v)])
                      /\ SameBooks(Id(v), journal, performed, journal', performed')
    OBVIOUS
  <2>1. Id(v) # i /\ Id(v) \in DOMAIN records
    BY DEF IInv, OwnersApart, WorkersOK, LocalOK, OwnerOK, i
  <2> QED
    BY <1>1, <2>1 DEF MovedByOthers, SameBooks
<1>9. Apart(records)'
  BY <1>7 DEF Apart, AgentsApart, ScopesApart, ActiveIds
<1>10. LocalOK(worker'[w], Id(w)', records', journal', performed')
  OBVIOUS
<1> QED
  BY <1>1, <1>2, <1>3, <1>4, <1>5, <1>6, <1>8, <1>9, <1>10, StepKeeps

(* What the call has after a commit.                                       *)
LEMMA CommittedShape ==
  ASSUME IInv, NEW w \in Workers, worker[w].pc \in Holding,
         NEW target \in AdmissionState, NEW t, Commit(w, target, t),
         NEW label \in Holding, Committed(w, label, target)
  PROVE  /\ worker' \in [Workers -> Local]
         /\ \A v \in Workers : v # w => worker'[v] = worker[v]
         /\ worker'[w].pc = label /\ worker'[w].attempt = worker[w].attempt
         /\ worker'[w].cur.state = target
         /\ Id(w)' = Id(w)
         /\ OwnerOK(worker'[w], Id(w), records')
<1> DEFINE cur == [state |-> target, revision |-> worker[w].cur.revision + 1]
<1>1. TypeOK
  BY DEF IInv
<1>2. /\ worker[w].attempt \in 1..MaxAttempts /\ worker[w].cur.revision \in Nat
      /\ worker[w].revalidated \in Nat /\ worker[w].after \in {"none", "raise", "retry"}
  BY <1>1, LocalTypes
<1>3. /\ cur \in Curs /\ label \in Labels /\ cur.state = target
      /\ cur.revision = worker[w].cur.revision + 1
  BY <1>2 DEF Curs, Labels
<1>4. Resume(w, label, worker[w].attempt, cur, worker[w].revalidated, worker[w].after)
  BY DEF Committed, Got
<1> HIDE DEF cur
<1>5. /\ worker' \in [Workers -> Local]
      /\ \A v \in Workers : v # w => worker'[v] = worker[v]
      /\ worker'[w].pc = label /\ worker'[w].attempt = worker[w].attempt
      /\ worker'[w].cur = cur
      /\ Id(w)' = Id(w)
  BY <1>1, <1>2, <1>3, <1>4, ResumeShape DEF Id
<1>6. /\ Id(w) \in DOMAIN records' /\ records'[Id(w)].state = target
      /\ records'[Id(w)].revision = worker[w].cur.revision + 1
  BY <1>1, TransitionMoves DEF TypeOK, Commit, Advanced
<1> QED
  BY <1>3, <1>5, <1>6 DEF OwnerOK, UpToDate

(* The store calls of execute_with_retry: label, target, next label.       *)
CallsOfRetry(label, target, next) ==
  \/ label = "begin_revalidation" /\ target = "REVALIDATING" /\ next = "revalidate"
  \/ label = "deny" /\ target = "DENIED" /\ next = "compensate_denied"
  \/ label = "admit" /\ target = "ADMITTED" /\ next = "pool_check"
  \/ label = "pool_cancel" /\ target = "CANCELLED" /\ next = "compensate_denied"
  \/ label = "compensate_denied" /\ target = "COMPENSATED" /\ next = "denied"
  \/ label = "begin_execution" /\ target = "EXECUTING" /\ next = "record_started"
  \/ label = "finalize" /\ target = "FINALIZED" /\ next = "ok"

(* What is known where they start.                                         *)
LEMMA RetryStart ==
  ASSUME IInv, NEW w \in Workers, NEW label, NEW target, NEW next,
         CallsOfRetry(label, target, next), At(w, label)
  PROVE  /\ worker[w].pc \in Holding /\ worker[w].cur.state \in Cleanable
         /\ target \in AdmissionState /\ target # "PAUSED"
         /\ target \in Done => Id(w) \in DOMAIN journal
                               /\ journal[Id(w)].state = "completed"
<1>1. LocalOK(worker[w], Id(w), records, journal, performed) /\ worker[w].pc = label
  BY AtHand DEF At
<1>2. CurOK(worker[w]) /\ StageOK(worker[w], Id(w), journal, performed)
  BY <1>1 DEF LocalOK
<1>3. worker[w].pc \in Holding /\ worker[w].cur.state \in Cleanable
  BY <1>1, <1>2 DEF CallsOfRetry, Holding, Before, Running, Leaving, CurOK, Cleanable, Waiting
<1>4. target \in AdmissionState /\ target # "PAUSED"
  BY DEF CallsOfRetry, AdmissionState
<1>5. target \in Done => label = "finalize"
  BY DEF CallsOfRetry, Done
<1> QED
  BY <1>1, <1>2, <1>3, <1>4, <1>5 DEF StageOK

(* A commit that ends the call with its answer.                            *)
LEMMA AnswerKeeps ==
  ASSUME IInv, NEW w \in Workers, NEW label, NEW target, NEW next,
         CallsOfRetry(label, target, next), At(w, label), next \in Ended,
         NEW t, Commit(w, target, t), End(w, next),
         UNCHANGED <<journal, performed, todo, now>>
  PROVE  IInv'
<1>1. /\ TypeOK
      /\ worker[w].pc \in Holding
      /\ target \in AdmissionState /\ target # "PAUSED"
      /\ target \in Done => Id(w) \in DOMAIN journal /\ journal[Id(w)].state = "completed"
  BY RetryStart DEF IInv
<1>2. /\ worker' \in [Workers -> Local]
      /\ \A v \in Workers : v # w => worker'[v] = worker[v]
      /\ worker'[w].pc = next /\ Id(w)' = Id(w)
  BY <1>1, EndShape
<1>3. Id(w) \in DOMAIN records' /\ records'[Id(w)].state = target
  BY <1>1, TransitionMoves DEF TypeOK, Commit
<1>4. \/ next = "ok" /\ target = "FINALIZED"
      \/ next = "denied" /\ target = "COMPENSATED"
  BY DEF CallsOfRetry, Ended
<1>5. next \notin Holding
  BY <1>4 DEF Holding, Before, Running, Leaving
<1>6. LocalOK(worker'[w], Id(w)', records', journal, performed)
  BY <1>2, <1>3, <1>4, <1>5 DEF LocalOK, CurOK, Running, OwnerOK, StageOK, AnswerOK
<1> QED
  BY <1>1, <1>2, <1>5, <1>6, CommitKeeps

(* A commit after which the call goes on.                                  *)
LEMMA AdvanceKeeps ==
  ASSUME IInv, NEW w \in Workers, NEW label, NEW target, NEW next,
         CallsOfRetry(label, target, next), At(w, label), next \notin Ended,
         NEW t, Commit(w, target, t), Committed(w, next, target),
         UNCHANGED <<journal, performed, todo, now>>
  PROVE  IInv'
<1>1. /\ TypeOK /\ RecordsOK
      /\ worker[w].pc \in Holding
      /\ target \in AdmissionState /\ target # "PAUSED"
      /\ target \in Done => Id(w) \in DOMAIN journal /\ journal[Id(w)].state = "completed"
  BY RetryStart DEF IInv
<1>2. next \in Holding
  BY DEF CallsOfRetry, Ended, Holding, Before, Running, Leaving
<1>3. /\ worker' \in [Workers -> Local]
      /\ \A v \in Workers : v # w => worker'[v] = worker[v]
      /\ worker'[w].pc = next /\ worker'[w].attempt = worker[w].attempt
      /\ worker'[w].cur.state = target
      /\ Id(w)' = Id(w)
      /\ OwnerOK(worker'[w], Id(w), records')
  BY <1>1, <1>2, CommittedShape
<1>4. CurOK(worker'[w]) /\ next \notin {"ok", "denied"}
  BY <1>3 DEF CallsOfRetry, CurOK, Running, Ended
<1>5. next = "record_started" => Id(w) \notin DOMAIN journal
  <2>1. /\ Id(w) \in DOMAIN records
        /\ target \in AllowedTransitions[records[Id(w)].state]
        /\ records[Id(w)].state \in AdmissionState
    BY <1>1 DEF TypeOK, Stored, Record, Commit, CanTransition, CanAdvance
  <2>2. target = "EXECUTING" => records[Id(w)].state \in Early
    BY <2>1, TransitionGraph
  <2>3. next = "record_started" => target = "EXECUTING"
    BY DEF CallsOfRetry
  <2> QED
    BY <1>1, <2>1, <2>2, <2>3 DEF RecordsOK, RecordOK
<1>6. next \notin {"consume", "perform", "record_completed", "finalize_get", "finalize"}
  BY DEF CallsOfRetry
<1>7. LocalOK(worker'[w], Id(w)', records', journal, performed)
  BY <1>3, <1>4, <1>5, <1>6 DEF LocalOK, StageOK, AnswerOK
<1> QED
  BY <1>1, <1>3, <1>7, CommitKeeps

LEMMA StoreCallKeeps ==
  ASSUME IInv, NEW w \in Workers, NEW label, NEW target, NEW next,
         CallsOfRetry(label, target, next), StoreCall(w, label, target, next)
  PROVE  IInv'
<1>1. At(w, label) /\ UNCHANGED <<journal, performed, todo, now>>
  BY DEF StoreCall
<1>2. ASSUME NEW t, Commit(w, target, t), next \in Ended, End(w, next) PROVE IInv'
  BY <1>1, <1>2, AnswerKeeps
<1>3. ASSUME NEW t, Commit(w, target, t), next \notin Ended, Committed(w, next, target)
      PROVE  IInv'
  BY <1>1, <1>3, AdvanceKeeps
<1>4. CASE Cleanup(w, "raise") /\ UNCHANGED records
  BY <1>1, <1>4, RetryStart, CleanupKeeps
<1> QED
  BY <1>2, <1>3, <1>4 DEF StoreCall

(* The store calls of _compensate.                                         *)
CallsOfCleanup(label, target, next) ==
  \/ label = "cleanup_cancel" /\ target = "CANCELLED" /\ next = "cleanup_compensate"
  \/ label = "cleanup_compensate" /\ target = "COMPENSATED" /\ next = "end"
  \/ label = "cleanup_mark" /\ target = "EXECUTION_FAILED" /\ next = "cleanup_begin"
  \/ label = "cleanup_begin" /\ target = "COMPENSATING" /\ next = "cleanup_finish"
  \/ label = "cleanup_finish" /\ target = "FAILED_FINAL" /\ next = "end"

(* After the last of them: another attempt, or the end.                    *)
LEMMA AfterCleanupShape ==
  ASSUME TypeOK, NEW w \in Workers, AfterCleanup(w)
  PROVE  /\ worker' \in [Workers -> Local]
         /\ \A v \in Workers : v # w => worker'[v] = worker[v]
         /\ worker'[w].pc \in {"plan", "failed"}
<1>1. CASE /\ worker[w].attempt < MaxAttempts
           /\ Resume(w, "plan", worker[w].attempt + 1, NoCur, 0, "none")
  <2>1. worker[w].attempt + 1 \in 1..MaxAttempts
    BY <1>1, LocalTypes, SelectionAssumption
  <2>2. NoCur \in Curs /\ "plan" \in Labels
    BY DEF NoCur, Curs, Labels
  <2> QED
    BY <1>1, <2>1, <2>2, ResumeShape
<1>2. CASE End(w, "failed")
  BY <1>2, EndShape DEF Ended
<1> QED
  BY <1>1, <1>2 DEF AfterCleanup, NextAttempt

LEMMA CleanupCallKeeps ==
  ASSUME IInv, NEW w \in Workers, NEW label, NEW target, NEW next,
         CallsOfCleanup(label, target, next), CleanupCall(w, label, target, next)
  PROVE  IInv'
<1>1. /\ TypeOK /\ worker[w].pc = label /\ UNCHANGED <<journal, performed, todo, now>>
  BY DEF IInv, CleanupCall, At
<1>2. worker[w].pc \in Holding
  BY <1>1 DEF CallsOfCleanup, Holding, Leaving
<1>3. target \in AdmissionState /\ target # "PAUSED" /\ target \notin Done
  BY DEF CallsOfCleanup, AdmissionState, Done
<1>4. ASSUME NEW t, Commit(w, target, t), next = "end", AfterCleanup(w) PROVE IInv'
  <2>1. /\ worker' \in [Workers -> Local]
        /\ \A v \in Workers : v # w => worker'[v] = worker[v]
        /\ worker'[w].pc \in {"plan", "failed"}
    BY <1>1, <1>4, AfterCleanupShape
  <2>2. /\ LocalOK(worker'[w], Id(w)', records', journal, performed)
        /\ worker'[w].pc \notin Holding
    BY <2>1, IdleOK
  <2> QED
    BY <1>1, <1>2, <1>3, <1>4, <2>1, <2>2, CommitKeeps
<1>5. ASSUME NEW t, Commit(w, target, t), next # "end", Committed(w, next, target)
      PROVE  IInv'
  <2>1. next \in Holding /\ next \notin {"ok", "denied"} /\ next \notin Running
    BY <1>5 DEF CallsOfCleanup, Holding, Leaving, Running
  <2>2. /\ worker' \in [Workers -> Local]
        /\ \A v \in Workers : v # w => worker'[v] = worker[v]
        /\ worker'[w].pc = next /\ worker'[w].attempt = worker[w].attempt
        /\ worker'[w].cur.state = target
        /\ Id(w)' = Id(w)
        /\ OwnerOK(worker'[w], Id(w), records')
    BY <1>2, <1>3, <1>5, <2>1, CommittedShape
  <2>3. CurOK(worker'[w])
    BY <2>2, <1>5 DEF CallsOfCleanup, CurOK, Running
  <2>4. LocalOK(worker'[w], Id(w)', records', journal, performed)
    BY <2>1, <2>2, <2>3 DEF LocalOK, StageOK, AnswerOK, Running
  <2> QED
    BY <1>1, <1>2, <1>3, <1>5, <2>2, <2>4, CommitKeeps
<1>6. CASE AfterCleanup(w) /\ UNCHANGED records
  BY <1>1, <1>6, AfterCleanupKeeps
<1> QED
  BY <1>4, <1>5, <1>6 DEF CleanupCall

-----------------------------------------------------------------------------
(* reserve, with its sweep.                                                *)
LEMMA ReservedKeeps ==
  ASSUME IInv, NEW w \in Workers, At(w, "reserve"), NEW t \in Times(w),
         CanReserve(records, Id(w), Planned(w), t),
         records' = Reserved(records, Id(w), Planned(w), t),
         Got(w, "begin_revalidation", "RESERVED", 1),
         UNCHANGED <<journal, performed, todo, now>>
  PROVE  IInv'
<1> DEFINE i == Id(w)
           planned == Planned(w)
           swept == ExpireAll(records, t)
           new == Advance(planned, "RESERVED")
           cur == [state |-> "RESERVED", revision |-> 1]
<1>1. TypeOK /\ Stored(records) /\ i \in Ids /\ worker[w].clock \in Nat
  BY LocalTypes DEF IInv, TypeOK
<1>2. /\ planned \in Record /\ planned.state = "PLANNED" /\ planned.revision = 0
      /\ planned.binding = BindingOf[i[1]]
  <2>1. RequestOf[w] \in Requests /\ i[1] = RequestOf[w]
    BY DEF Requests, Id
  <2>2. BindingOf[RequestOf[w]] \in Bindings
    BY <2>1, SelectionAssumption
  <2> QED
    BY <1>1, <2>1, <2>2, NumberAssumption
       DEF Planned, CreateAdmission, Record, AdmissionState
<1>3. /\ new \in Record /\ new.state = "RESERVED" /\ new.revision = 1
      /\ new.binding = planned.binding
  BY <1>2 DEF Advance, Record, AdmissionState
<1>4. i \notin DOMAIN records /\ ~ ReservationConflict(swept, planned.binding)
      /\ records' = Put(swept, i, new)
  BY DEF CanReserve, Reserved
<1>5. /\ Stored(swept) /\ DOMAIN swept = DOMAIN records
      /\ \A j \in DOMAIN records : MovedByOthers(records[j], swept[j])
  BY <1>1, SweepMoves
<1> HIDE DEF i, planned, swept, new
<1>6. /\ DOMAIN records' = DOMAIN records \cup {i}
      /\ records'[i] = new
      /\ \A j \in DOMAIN records : records'[j] = swept[j]
  BY <1>4, <1>5 DEF Put
<1>7. \A j \in DOMAIN records : /\ MovedByOthers(records[j], records'[j])
                                /\ Moved(records[j], records'[j])
  BY <1>5, <1>6 DEF MovedByOthers, Moved
<1>8. /\ worker' \in [Workers -> Local]
      /\ \A v \in Workers : v # w => worker'[v] = worker[v]
      /\ worker'[w].pc = "begin_revalidation"
      /\ worker'[w].cur = cur
      /\ Id(w)' = i
  <2>1. cur \in Curs /\ "begin_revalidation" \in Labels
    BY DEF Curs, AdmissionState, Labels, Holding, Before
  <2>2. Resume(w, "begin_revalidation", worker[w].attempt, cur, worker[w].revalidated,
               worker[w].after)
    BY DEF Got
  <2> QED
    BY <1>1, <2>1, <2>2, LocalTypes, ResumeShape DEF Id, i
<1>9. TypeOK'
  <2>1. Stored(records')
    BY <1>1, <1>3, <1>5, <1>6 DEF Stored
  <2> QED
    BY <1>8, <2>1 DEF IInv, TypeOK, Stored, Journals
<1>10. RecordsOK'
  <2> SUFFICES ASSUME NEW j \in DOMAIN records' PROVE RecordOK(j, records', journal)
    BY DEF RecordsOK, RecordOK
  <2>1. CASE j = i
    <3>1. i \notin DOMAIN journal
      BY <1>1, <1>4 DEF IInv, JournalOK, EntryOK
    <3> QED
      BY <1>2, <1>3, <1>6, <2>1, <3>1 DEF RecordOK, Done
  <2>2. CASE j # i
    <3>1. j \in DOMAIN records /\ RecordOK(j, records, journal)
      BY <1>6, <2>2 DEF IInv, RecordsOK
    <3>2. records[j].state \in AdmissionState /\ MovedByOthers(records[j], records'[j])
      BY <1>1, <1>7, <3>1 DEF Stored, Record
    <3>3. records'[j] = records[j] \/ records'[j].state = "EXPIRED"
      BY <1>5, <1>6, <3>1 DEF swept, ExpireAll, Advance
    <3> QED
      BY <1>1, <1>7, <3>1, <3>3, RecordKept DEF Done
  <2> QED
    BY <2>1, <2>2
<1>11. JournalOK'
  BY <1>6 DEF IInv, JournalOK, EntryOK
<1>12. TodoOK'
  <2> SUFFICES ASSUME NEW s \in todo PROVE SnapshotOK(s, records')
    BY DEF TodoOK, SnapshotOK, Shows
  <2>1. SnapshotOK(s, records) /\ s.id \in DOMAIN records
    BY DEF IInv, TodoOK, SnapshotOK
  <2> QED
    BY <1>1, <1>6, <1>7, <2>1, SnapshotKept
<1>13. Apart(records')
  <2>1. \A j \in DOMAIN records : Moved(records[j], swept[j])
    BY <1>6, <1>7
  <2>2. Apart(swept)
    BY <1>1, <1>5, <2>1, MovesKeepApart DEF IInv
  <2>3. i \notin DOMAIN swept /\ ~ ReservationConflict(swept, new.binding)
    BY <1>3, <1>4, <1>5
  <2>4. Apart(Put(swept, i, new))
    BY <2>2, <2>3, ReserveKeepsApart
  <2> QED
    BY <1>4, <2>4
<1>14. Apart(records)'
  BY <1>13 DEF Apart, AgentsApart, ScopesApart, ActiveIds
<1>15. LocalOK(worker'[w], Id(w)', records', journal', performed')
  <2>1. CurOK(worker'[w])
    BY <1>8 DEF CurOK, Running
  <2>2. OwnerOK(worker'[w], i, records')
    BY <1>3, <1>6, <1>8 DEF OwnerOK, UpToDate
  <2> QED
    BY <1>8, <2>1, <2>2 DEF LocalOK, StageOK, AnswerOK
<1>16. \A v \in Workers : v # w /\ worker[v].pc \in Holding =>
         /\ MovedByOthers(records[Id(v)], records'[Id(v)])
         /\ SameBooks(Id(v), journal, performed, journal', performed')
  <2>1. \A v \in Workers : worker[v].pc \in Holding => Id(v) \in DOMAIN records
    BY DEF IInv, WorkersOK, LocalOK, OwnerOK
  <2> QED
    BY <1>7, <2>1 DEF SameBooks
<1>17. Id(w)' \notin DOMAIN records
  BY <1>4, <1>8
<1>18. \A j \in DOMAIN records : j \in DOMAIN records' /\ Moved(records[j], records'[j])
  BY <1>6, <1>7
<1> QED
  BY <1>8, <1>9, <1>10, <1>11, <1>12, <1>14, <1>15, <1>16, <1>17, <1>18, StepKeeps

LEMMA ReserveKeeps == ASSUME IInv, NEW w \in Workers, ReserveAdmission(w) PROVE IInv'
<1>1. At(w, "reserve") /\ UNCHANGED <<journal, performed, todo, now>>
  BY DEF ReserveAdmission
<1>2. ASSUME NEW t \in Times(w), CanReserve(records, Id(w), Planned(w), t),
             records' = Reserved(records, Id(w), Planned(w), t),
             Got(w, "begin_revalidation", "RESERVED", 1)
      PROVE  IInv'
  BY <1>1, <1>2, ReservedKeeps
<1>3. CASE NextAttempt(w) /\ UNCHANGED records
  BY <1>1, <1>3, NextAttemptKeeps
<1>4. CASE End(w, "failed") /\ UNCHANGED records
  BY <1>1, <1>4, FailsKeeps
<1> QED
  BY <1>2, <1>3, <1>4 DEF ReserveAdmission

-----------------------------------------------------------------------------
(* The steps in which a call writes the journal or performs its operation. *)
LEMMA BooksKeep ==
  ASSUME IInv, NEW w \in Workers, worker[w].pc \in Holding,
         worker' \in [Workers -> Local], UNCHANGED <<records, todo, now>>,
         \A v \in Workers : v # w => worker'[v] = worker[v],
         worker'[w].attempt = worker[w].attempt,
         DOMAIN journal' \subseteq Ids, Journals(journal'),
         performed' \in [Ids -> {0, 1}],
         \A j \in Ids : j # Id(w) => SameBooks(j, journal, performed, journal', performed'),
         RecordOK(Id(w), records, journal'),
         EntryOK(Id(w), records, journal', performed'),
         LocalOK(worker'[w], Id(w), records, journal', performed')
  PROVE  IInv'
<1> DEFINE i == Id(w)
<1>1. i \in Ids /\ Id(w)' = i /\ TypeOK
  BY LocalTypes DEF IInv, Id
<1> HIDE DEF i
<1>2. TypeOK'
  BY DEF IInv, TypeOK, Stored, Journals
<1>3. RecordsOK'
  <2> SUFFICES ASSUME NEW j \in DOMAIN records PROVE RecordOK(j, records, journal')
    BY DEF RecordsOK, RecordOK
  <2>1. RecordOK(j, records, journal) /\ j \in Ids
    BY DEF IInv, RecordsOK, TypeOK, Stored
  <2>2. CASE j # i
    BY <2>1, <2>2 DEF RecordOK, SameBooks, i
  <2> QED
    BY <2>2 DEF i
<1>4. JournalOK'
  <2> SUFFICES ASSUME NEW j \in Ids PROVE EntryOK(j, records, journal', performed')
    BY DEF JournalOK, EntryOK
  <2>1. EntryOK(j, records, journal, performed)
    BY DEF IInv, JournalOK
  <2>2. CASE j # i
    BY <2>1, <2>2 DEF EntryOK, SameBooks, i
  <2> QED
    BY <2>2 DEF i
<1>5. TodoOK' /\ Apart(records)'
  BY DEF IInv, TodoOK, SnapshotOK, Shows, Apart, AgentsApart, ScopesApart, ActiveIds
<1>6. \A j \in DOMAIN records : j \in DOMAIN records' /\ Moved(records[j], records'[j])
  BY DEF Moved
<1>7. \A v \in Workers : v # w /\ worker[v].pc \in Holding =>
        /\ MovedByOthers(records[Id(v)], records'[Id(v)])
        /\ SameBooks(Id(v), journal, performed, journal', performed')
  <2> SUFFICES ASSUME NEW v \in Workers, v # w, worker[v].pc \in Holding
               PROVE  /\ MovedByOthers(records[Id(v)], records'[Id(v)])
                      /\ SameBooks(Id(v), journal, performed, journal', performed')
    OBVIOUS
  <2>1. Id(v) # Id(w) /\ Id(v) \in Ids
    BY <1>1, LocalTypes DEF IInv, OwnersApart
  <2> QED
    BY <2>1 DEF MovedByOthers
<1>8. LocalOK(worker'[w], Id(w)', records', journal', performed')
  BY <1>1 DEF i
<1> QED
  BY <1>2, <1>3, <1>4, <1>5, <1>6, <1>7, <1>8, StepKeeps

(* What a write of the journal leaves.                                     *)
LEMMA JournaledShape ==
  ASSUME TypeOK, NEW w \in Workers, NEW state \in {"started", "completed"},
         journal' = Journaled(w, state)
  PROVE  /\ DOMAIN journal' = DOMAIN journal \cup {Id(w)}
         /\ DOMAIN journal' \subseteq Ids /\ Journals(journal')
         /\ journal'[Id(w)].state = state
         /\ journal'[Id(w)].revision = worker[w].cur.revision
         /\ \A j \in DOMAIN journal : j # Id(w) => journal'[j] = journal[j]
<1> DEFINE e == [state |-> state, revision |-> worker[w].cur.revision]
<1>1. Id(w) \in Ids /\ worker[w].cur.revision \in Nat
  BY LocalTypes
<1>2. e \in Entry /\ e.state = state /\ e.revision = worker[w].cur.revision
  BY <1>1 DEF Entry
<1>3. journal' = [j \in DOMAIN journal \cup {Id(w)} |-> IF j = Id(w) THEN e ELSE journal[j]]
  BY DEF Journaled
<1> HIDE DEF e
<1> QED
  BY <1>1, <1>2, <1>3 DEF TypeOK, Journals

(* Where an operation is under way the record is EXECUTING and the         *)
(* revision is the owner's.                                                *)
LEMMA UnderWay ==
  ASSUME IInv, NEW w \in Workers, worker[w].pc \in Running
  PROVE  /\ worker[w].pc \in Holding /\ worker[w].cur.state = "EXECUTING"
         /\ Id(w) \in DOMAIN records /\ Id(w) \in Ids
         /\ RecordOK(Id(w), records, journal)
         /\ EntryOK(Id(w), records, journal, performed)
         /\ \/ /\ records[Id(w)].state = "EXECUTING"
               /\ records[Id(w)].revision = worker[w].cur.revision
            \/ /\ records[Id(w)].state \in Done
               /\ Id(w) \in DOMAIN journal /\ journal[Id(w)].state = "completed"
<1>1. /\ TypeOK /\ CurOK(worker[w]) /\ OwnerOK(worker[w], Id(w), records)
      /\ Id(w) \in Ids
  BY AtHand, LocalTypes DEF LocalOK
<1>2. worker[w].pc \in Holding /\ worker[w].cur.state = "EXECUTING"
  BY <1>1 DEF Holding, CurOK
<1>3. /\ Id(w) \in DOMAIN records
      /\ UpToDate(worker[w], records[Id(w)]) \/ Overtaken(worker[w], records[Id(w)])
  BY <1>1, <1>2 DEF OwnerOK
<1>4. RecordOK(Id(w), records, journal) /\ EntryOK(Id(w), records, journal, performed)
  BY <1>1, <1>3 DEF IInv, RecordsOK, JournalOK
<1>5. \/ /\ records[Id(w)].state = "EXECUTING"
         /\ records[Id(w)].revision = worker[w].cur.revision
      \/ records[Id(w)].state \in Done
  BY <1>2, <1>3 DEF UpToDate, Overtaken, MovedOn, Waiting
<1> QED
  BY <1>1, <1>2, <1>3, <1>4, <1>5 DEF RecordOK

(* After a step of a running operation: on to the next label, or cleanup.  *)
LEMMA RunningShape ==
  ASSUME IInv, NEW w \in Workers, worker[w].pc \in Running, NEW label \in Running,
         NEW after \in {"raise", "retry"},
         Goto(w, label) \/ Cleanup(w, after)
  PROVE  /\ worker' \in [Workers -> Local]
         /\ \A v \in Workers : v # w => worker'[v] = worker[v]
         /\ worker'[w].attempt = worker[w].attempt
         /\ \A jrn, perf :
              LocalOK(worker'[w], Id(w), records, jrn, perf)
              \/ (worker'[w].pc = label /\ worker'[w].cur = worker[w].cur
                  /\ (StageOK(worker'[w], Id(w), jrn, perf)
                        => LocalOK(worker'[w], Id(w), records, jrn, perf)))
<1>1. /\ TypeOK /\ LocalOK(worker[w], Id(w), records, journal, performed)
      /\ worker[w].pc \in Holding /\ worker[w].cur.state = "EXECUTING"
      /\ worker[w].revalidated \in Nat
  BY AtHand, UnderWay, LocalTypes
<1>2. CASE Goto(w, label)
  <2>1. label \in Holding /\ label \in Labels
    BY DEF Holding, Labels
  <2>2. /\ worker' \in [Workers -> Local]
        /\ \A v \in Workers : v # w => worker'[v] = worker[v]
        /\ worker'[w].pc = label /\ worker'[w].attempt = worker[w].attempt
        /\ worker'[w].cur = worker[w].cur
    BY <1>1, <1>2, <2>1, GotoShape
  <2>3. CurOK(worker'[w])
    BY <1>1, <2>2 DEF CurOK, Running
  <2>4. ASSUME NEW jrn, NEW perf, StageOK(worker'[w], Id(w), jrn, perf)
        PROVE  LocalOK(worker'[w], Id(w), records, jrn, perf)
    BY <1>1, <2>1, <2>2, <2>3, <2>4, SameCurOK
  <2> QED
    BY <2>2, <2>4
<1>3. CASE Cleanup(w, after)
  BY <1>1, <1>3, CleanupShape DEF Cleanup, Cleanable
<1> QED
  BY <1>2, <1>3

LEMMA RecordStartedKeeps == ASSUME IInv, NEW w \in Workers, RecordStarted(w) PROVE IInv'
<1>1. /\ TypeOK /\ worker[w].pc = "record_started"
      /\ StageOK(worker[w], Id(w), journal, performed)
  BY AtHand DEF LocalOK, RecordStarted, At
<1>2. worker[w].pc \in Running /\ Id(w) \notin DOMAIN journal
  BY <1>1 DEF Running, StageOK
<1>3. /\ worker[w].pc \in Holding /\ worker[w].cur.state \in Cleanable
      /\ Id(w) \in DOMAIN records /\ Id(w) \in Ids
      /\ records[Id(w)].state = "EXECUTING"
      /\ records[Id(w)].revision = worker[w].cur.revision
      /\ RecordOK(Id(w), records, journal) /\ EntryOK(Id(w), records, journal, performed)
  BY <1>2, UnderWay DEF Cleanable
<1>4. UNCHANGED <<records, performed, todo, now>>
  BY DEF RecordStarted
<1>5. CASE /\ journal' = Journaled(w, "started")
           /\ Goto(w, "consume") \/ Cleanup(w, "raise")
  <2>1. /\ DOMAIN journal' = DOMAIN journal \cup {Id(w)}
        /\ DOMAIN journal' \subseteq Ids /\ Journals(journal')
        /\ journal'[Id(w)].state = "started"
        /\ journal'[Id(w)].revision = worker[w].cur.revision
        /\ \A j \in DOMAIN journal : j # Id(w) => journal'[j] = journal[j]
    BY <1>1, <1>5, JournaledShape
  <2>2. performed[Id(w)] = 0 /\ performed' \in [Ids -> {0, 1}] /\ performed' = performed
    BY <1>1, <1>2, <1>3, <1>4 DEF TypeOK, EntryOK
  <2>3. RecordOK(Id(w), records, journal') /\ EntryOK(Id(w), records, journal', performed')
    BY <1>3, <2>1, <2>2 DEF RecordOK, EntryOK, Early, Waiting, GivenUp, Done
  <2>4. \A j \in Ids : j # Id(w) => SameBooks(j, journal, performed, journal', performed')
    BY <2>1, <2>2 DEF SameBooks
  <2>5. "consume" \in Running
    BY DEF Running
  <2>6. /\ worker' \in [Workers -> Local]
        /\ \A v \in Workers : v # w => worker'[v] = worker[v]
        /\ worker'[w].attempt = worker[w].attempt
        /\ LocalOK(worker'[w], Id(w), records, journal', performed')
           \/ (worker'[w].pc = "consume" /\ worker'[w].cur = worker[w].cur
               /\ (StageOK(worker'[w], Id(w), journal', performed')
                     => LocalOK(worker'[w], Id(w), records, journal', performed')))
    BY <1>2, <1>5, <2>5, RunningShape
  <2>7. LocalOK(worker'[w], Id(w), records, journal', performed')
    BY <2>1, <2>2, <2>6 DEF StageOK, Started
  <2> QED
    BY <1>3, <1>4, <2>1, <2>2, <2>3, <2>4, <2>6, <2>7, BooksKeep
<1>6. CASE Cleanup(w, "raise") /\ UNCHANGED journal
  BY <1>3, <1>4, <1>6, CleanupKeeps
<1> QED
  BY <1>5, <1>6 DEF RecordStarted

LEMMA PerformKeeps == ASSUME IInv, NEW w \in Workers, Perform(w) PROVE IInv'
<1>1. /\ TypeOK /\ worker[w].pc = "perform"
      /\ StageOK(worker[w], Id(w), journal, performed)
  BY AtHand DEF LocalOK, Perform, At
<1>2. worker[w].pc \in Running /\ Started(worker[w], Id(w), journal) /\ performed[Id(w)] = 0
  BY <1>1 DEF Running, StageOK
<1>3. /\ worker[w].pc \in Holding /\ worker[w].cur.state \in Cleanable
      /\ Id(w) \in Ids
      /\ RecordOK(Id(w), records, journal) /\ EntryOK(Id(w), records, journal, performed)
  BY <1>2, UnderWay DEF Cleanable
<1>4. UNCHANGED <<records, journal, todo, now>>
  BY DEF Perform
<1>5. CASE /\ performed' = [performed EXCEPT ![Id(w)] = @ + 1]
           /\ Goto(w, "record_completed") \/ Cleanup(w, "raise")
  <2>1. /\ performed' \in [Ids -> {0, 1}] /\ performed'[Id(w)] = 1
        /\ \A j \in Ids : j # Id(w) => performed'[j] = performed[j]
    BY <1>1, <1>2, <1>3, <1>5 DEF TypeOK
  <2>2. /\ RecordOK(Id(w), records, journal')
        /\ EntryOK(Id(w), records, journal', performed')
        /\ DOMAIN journal' \subseteq Ids /\ Journals(journal')
    BY <1>1, <1>2, <1>3, <1>4, <2>1 DEF TypeOK, RecordOK, EntryOK, Started, Journals
  <2>3. \A j \in Ids : j # Id(w) => SameBooks(j, journal, performed, journal', performed')
    BY <1>4, <2>1 DEF SameBooks
  <2>4. "record_completed" \in Running
    BY DEF Running
  <2>5. /\ worker' \in [Workers -> Local]
        /\ \A v \in Workers : v # w => worker'[v] = worker[v]
        /\ worker'[w].attempt = worker[w].attempt
        /\ LocalOK(worker'[w], Id(w), records, journal', performed')
           \/ (worker'[w].pc = "record_completed" /\ worker'[w].cur = worker[w].cur
               /\ (StageOK(worker'[w], Id(w), journal', performed')
                     => LocalOK(worker'[w], Id(w), records, journal', performed')))
    BY <1>2, <1>5, <2>4, RunningShape
  <2>6. LocalOK(worker'[w], Id(w), records, journal', performed')
    BY <1>2, <1>4, <2>1, <2>5 DEF StageOK, Started
  <2> QED
    BY <1>3, <1>4, <2>1, <2>2, <2>3, <2>5, <2>6, BooksKeep
<1>6. ASSUME NEW after \in {"raise", "retry"}, UNCHANGED performed, Cleanup(w, after)
      PROVE  IInv'
  BY <1>3, <1>4, <1>6, CleanupKeeps
<1> QED
  BY <1>5, <1>6 DEF Perform

LEMMA RecordCompletedKeeps ==
  ASSUME IInv, NEW w \in Workers, RecordCompleted(w)
  PROVE  IInv'
<1>1. /\ TypeOK /\ worker[w].pc = "record_completed"
      /\ StageOK(worker[w], Id(w), journal, performed)
  BY AtHand DEF LocalOK, RecordCompleted, At
<1>2. worker[w].pc \in Running /\ Started(worker[w], Id(w), journal) /\ performed[Id(w)] = 1
  BY <1>1 DEF Running, StageOK
<1>3. /\ worker[w].pc \in Holding /\ worker[w].cur.state \in Cleanable
      /\ Id(w) \in DOMAIN records /\ Id(w) \in Ids
      /\ records[Id(w)].state = "EXECUTING"
      /\ records[Id(w)].revision = worker[w].cur.revision
      /\ RecordOK(Id(w), records, journal) /\ EntryOK(Id(w), records, journal, performed)
  BY <1>2, UnderWay DEF Cleanable, Started
<1>4. UNCHANGED <<records, performed, todo, now>>
  BY DEF RecordCompleted
<1>5. CASE /\ journal' = Journaled(w, "completed")
           /\ Goto(w, "finalize_get") \/ Cleanup(w, "raise")
  <2>1. /\ DOMAIN journal' = DOMAIN journal \cup {Id(w)}
        /\ DOMAIN journal' \subseteq Ids /\ Journals(journal')
        /\ journal'[Id(w)].state = "completed"
        /\ journal'[Id(w)].revision = worker[w].cur.revision
        /\ \A j \in DOMAIN journal : j # Id(w) => journal'[j] = journal[j]
    BY <1>1, <1>5, JournaledShape
  <2>2. performed' \in [Ids -> {0, 1}] /\ performed' = performed
    BY <1>1, <1>4 DEF TypeOK
  <2>3. RecordOK(Id(w), records, journal') /\ EntryOK(Id(w), records, journal', performed')
    BY <1>2, <1>3, <2>1, <2>2 DEF RecordOK, EntryOK, Early, Waiting, GivenUp, Done
  <2>4. \A j \in Ids : j # Id(w) => SameBooks(j, journal, performed, journal', performed')
    BY <2>1, <2>2 DEF SameBooks
  <2>5. "finalize_get" \in Running
    BY DEF Running
  <2>6. /\ worker' \in [Workers -> Local]
        /\ \A v \in Workers : v # w => worker'[v] = worker[v]
        /\ worker'[w].attempt = worker[w].attempt
        /\ LocalOK(worker'[w], Id(w), records, journal', performed')
           \/ (worker'[w].pc = "finalize_get" /\ worker'[w].cur = worker[w].cur
               /\ (StageOK(worker'[w], Id(w), journal', performed')
                     => LocalOK(worker'[w], Id(w), records, journal', performed')))
    BY <1>2, <1>5, <2>5, RunningShape
  <2>7. LocalOK(worker'[w], Id(w), records, journal', performed')
    BY <2>1, <2>6 DEF StageOK
  <2> QED
    BY <1>3, <1>4, <2>1, <2>2, <2>3, <2>4, <2>6, <2>7, BooksKeep
<1>6. CASE Cleanup(w, "raise") /\ UNCHANGED journal
  BY <1>3, <1>4, <1>6, CleanupKeeps
<1> QED
  BY <1>5, <1>6 DEF RecordCompleted

-----------------------------------------------------------------------------
(* The sweep, the reconciliation pass and the clock.                       *)
LEMMA OutsideKeeps ==
  ASSUME IInv, UNCHANGED <<journal, performed, worker>>, now' \in Nat,
         Stored(records'), DOMAIN records' = DOMAIN records,
         \A i \in DOMAIN records : MovedByOthers(records[i], records'[i]),
         \A i \in DOMAIN records : records'[i].state \in Done =>
           \/ records[i].state \in Done
           \/ i \in DOMAIN journal /\ journal[i].state = "completed",
         TodoOK'
  PROVE  IInv'
<1>1. \A i \in DOMAIN records : Moved(records[i], records'[i])
  BY DEF MovedByOthers, Moved
<1>2. TypeOK'
  BY DEF IInv, TypeOK, Stored, Journals
<1>3. RecordsOK'
  <2> SUFFICES ASSUME NEW i \in DOMAIN records PROVE RecordOK(i, records', journal)
    BY DEF RecordsOK, RecordOK
  <2>1. RecordOK(i, records, journal) /\ Stored(records)
    BY DEF IInv, RecordsOK, TypeOK
  <2>2. records'[i].state = "PAUSED" => records'[i] = records[i]
    BY DEF MovedByOthers, ByOthers
  <2> QED
    BY <1>1, <2>1, <2>2, RecordKept
<1>4. JournalOK'
  BY DEF IInv, JournalOK, EntryOK
<1>5. WorkersOK'
  <2> SUFFICES ASSUME NEW w \in Workers
               PROVE  LocalOK(worker[w], Id(w), records', journal, performed)
    BY DEF WorkersOK, LocalOK, OwnerOK, StageOK, AnswerOK, Started, UpToDate, Overtaken, Id
  <2>1. /\ worker[w] \in Local /\ Stored(records)
        /\ LocalOK(worker[w], Id(w), records, journal, performed)
    BY DEF IInv, TypeOK, WorkersOK
  <2>2. worker[w].pc \in Holding => Id(w) \in DOMAIN records
    BY <2>1 DEF LocalOK, OwnerOK
  <2>3. SameBooks(Id(w), journal, performed, journal, performed)
    BY DEF SameBooks
  <2> QED
    BY <1>1, <2>1, <2>2, <2>3, LocalKept
<1>6. OwnersApart'
  BY DEF IInv, OwnersApart, Id
<1>7. Apart(records')
  BY <1>1, MovesKeepApart DEF IInv, TypeOK
<1>8. Apart(records)'
  BY <1>7 DEF Apart, AgentsApart, ScopesApart, ActiveIds
<1> QED
  BY <1>2, <1>3, <1>4, <1>5, <1>6, <1>8 DEF IInv

LEMMA SameRecords ==
  ASSUME IInv, UNCHANGED <<records, journal, performed, worker>>, now' \in Nat, TodoOK'
  PROVE  IInv'
<1>1. Stored(records')
  BY DEF IInv, TypeOK, Stored
<1>2. \A i \in DOMAIN records : MovedByOthers(records[i], records'[i])
  BY DEF MovedByOthers
<1> QED
  BY <1>1, <1>2, OutsideKeeps

LEMMA ExpireKeeps == ASSUME IInv, ExpireRecords PROVE IInv'
<1>1. /\ Stored(records') /\ DOMAIN records' = DOMAIN records
      /\ \A i \in DOMAIN records : MovedByOthers(records[i], records'[i])
      /\ UNCHANGED <<journal, performed, worker, todo, now>>
  BY SweepMoves DEF IInv, TypeOK, ExpireRecords
<1>2. \A i \in DOMAIN records : records'[i] = records[i] \/ records'[i].state = "EXPIRED"
  BY DEF ExpireRecords, ExpireAll, Advance
<1>3. TodoOK'
  <2> SUFFICES ASSUME NEW s \in todo PROVE SnapshotOK(s, records')
    BY <1>1 DEF TodoOK, SnapshotOK, Shows
  <2>1. SnapshotOK(s, records) /\ s.id \in DOMAIN records /\ Stored(records)
    BY DEF IInv, TodoOK, TypeOK, SnapshotOK
  <2>2. Moved(records[s.id], records'[s.id])
    BY <1>1, <2>1 DEF MovedByOthers, Moved
  <2> QED
    BY <1>1, <2>1, <2>2, SnapshotKept
<1>4. now' \in Nat
  BY <1>1 DEF IInv, TypeOK
<1> QED
  BY <1>1, <1>2, <1>3, <1>4, OutsideKeeps DEF Done

LEMMA StartPassKeeps == ASSUME IInv, StartPass PROVE IInv'
<1>1. UNCHANGED <<records, journal, performed, worker, now>> /\ now' \in Nat
  BY DEF IInv, TypeOK, StartPass
<1>2. TodoOK'
  <2> SUFFICES ASSUME NEW s \in todo' PROVE SnapshotOK(s, records)
    BY <1>1 DEF TodoOK, SnapshotOK, Shows
  <2>1. PICK i \in DOMAIN records : s = Snapshot(i)
    BY DEF StartPass
  <2>2. records[i].state \in AdmissionState /\ records[i].revision \in Nat
    BY DEF IInv, TypeOK, Stored, Record
  <2>3. s.id = i /\ s.state = records[i].state /\ s.revision = records[i].revision
    BY <2>1 DEF Snapshot
  <2>4. records[i].state # "recovered"
    BY <2>2 DEF AdmissionState
  <2> QED
    BY <2>2, <2>3, <2>4 DEF SnapshotOK, Shows
<1> QED
  BY <1>1, <1>2, SameRecords

(* The targets of a pass, and what they rest on.                           *)
LEMMA PassTargets ==
  ASSUME NEW s, PassTarget(s) # "none"
  PROVE  \/ PassTarget(s) = "RECOVERED_AFTER_CRASH" /\ ExecutionCompleted(s)
         \/ PassTarget(s) = "FINALIZED" /\ s.state = "recovered"
         \/ PassTarget(s) = "COMPENSATED"
  BY DEF PassTarget

(* A store call of the pass that commits.                                  *)
LEMMA PassCommits ==
  ASSUME IInv, NEW s \in todo, NEW target, target = PassTarget(s), target # "none",
         CanTransition(records, s.id, target, s.revision, now),
         records' = Transitioned(records, s.id, target),
         todo' = (todo \ {s}) \cup
                   IF target = "RECOVERED_AFTER_CRASH" THEN {Recovered(s)} ELSE {},
         UNCHANGED <<journal, performed, worker, now>>
  PROVE  IInv'
<1> DEFINE i == s.id
<1>1. /\ Stored(records) /\ now \in Nat /\ SnapshotOK(s, records)
  BY DEF IInv, TypeOK, TodoOK
<1>2. /\ i \in DOMAIN records /\ records[i].revision = s.revision
      /\ Stored(records') /\ DOMAIN records' = DOMAIN records
      /\ Advanced(records[i], records'[i]) /\ records'[i].state = target
      /\ \A j \in DOMAIN records : j # i => records'[j] = records[j]
  BY <1>1, TransitionMoves
<1>3. records[i].state \in AdmissionState /\ records[i].revision \in Nat
      /\ target \in AllowedTransitions[records[i].state]
  BY <1>1, <1>2 DEF Stored, Record, Advanced
<1>4. Shows(s, records[i])
  BY <1>1, <1>2 DEF SnapshotOK
<1>5. /\ target = "RECOVERED_AFTER_CRASH" => records[i].state = "EXECUTING"
      /\ target = "COMPENSATED" =>
           records[i].state \in {"CONFLICT", "EXPIRED", "DENIED", "CANCELLED"}
      /\ target = "FINALIZED" => records[i].state = "RECOVERED_AFTER_CRASH"
  BY <1>3, <1>4, TransitionGraph, PassTargets DEF Shows
<1>6. ByOthers(records[i].state, target)
  BY <1>5, PassTargets DEF ByOthers
<1> HIDE DEF i
<1>7. \A j \in DOMAIN records : /\ MovedByOthers(records[j], records'[j])
                                /\ Moved(records[j], records'[j])
  BY <1>2, <1>6 DEF MovedByOthers, Moved
<1>8. \A j \in DOMAIN records : records'[j].state \in Done =>
        \/ records[j].state \in Done
        \/ j \in DOMAIN journal /\ journal[j].state = "completed"
  <2>1. target = "RECOVERED_AFTER_CRASH" =>
          i \in DOMAIN journal /\ journal[i].state = "completed"
    <3>1. target = "RECOVERED_AFTER_CRASH" => ExecutionCompleted(s)
      BY PassTargets
    <3> QED
      BY <3>1 DEF ExecutionCompleted, i
  <2>2. target \in Done => \/ target = "RECOVERED_AFTER_CRASH"
                           \/ records[i].state \in Done
    BY <1>5 DEF Done
  <2> QED
    BY <1>2, <2>1, <2>2
<1>9. TodoOK'
  <2> SUFFICES ASSUME NEW r \in todo' PROVE SnapshotOK(r, records')
    BY DEF TodoOK, SnapshotOK, Shows
  <2>1. CASE r \in todo
    <3>1. SnapshotOK(r, records) /\ r.id \in DOMAIN records
      BY <2>1 DEF IInv, TodoOK, SnapshotOK
    <3> QED
      BY <1>1, <1>2, <1>7, <3>1, SnapshotKept
  <2>2. CASE target = "RECOVERED_AFTER_CRASH" /\ r = Recovered(s)
    <3>1. r.id = i /\ r.state = "recovered" /\ r.revision = s.revision + 1
      BY <2>2 DEF Recovered, i
    <3>2. records'[i].revision = s.revision + 1 /\ s.revision \in Nat
      BY <1>1, <1>2, <1>3 DEF Advanced, SnapshotOK
    <3> QED
      BY <1>2, <2>2, <3>1, <3>2 DEF SnapshotOK, Shows
  <2> QED
    BY <2>1, <2>2
<1> QED
  BY <1>1, <1>2, <1>7, <1>8, <1>9, OutsideKeeps

LEMMA PassStepKeeps == ASSUME IInv, NEW s \in todo, PassStep(s) PROVE IInv'
<1>1. UNCHANGED <<journal, performed, worker, now>> /\ now' \in Nat
  BY DEF IInv, TypeOK, PassStep
<1>2. CASE todo' \subseteq todo /\ UNCHANGED records
  <2>1. TodoOK'
    BY <1>2 DEF IInv, TodoOK, SnapshotOK, Shows
  <2> QED
    BY <1>1, <1>2, <2>1, SameRecords
<1>3. CASE /\ PassTarget(s) # "none"
           /\ CanTransition(records, s.id, PassTarget(s), s.revision, now)
           /\ records' = Transitioned(records, s.id, PassTarget(s))
           /\ todo' = (todo \ {s}) \cup
                IF PassTarget(s) = "RECOVERED_AFTER_CRASH" THEN {Recovered(s)} ELSE {}
  BY <1>1, <1>3, PassCommits
<1> QED
  BY <1>2, <1>3 DEF PassStep

LEMMA CrashPassKeeps == ASSUME IInv, CrashPass PROVE IInv'
<1>1. UNCHANGED <<records, journal, performed, worker, now>> /\ now' \in Nat /\ TodoOK'
  BY DEF IInv, TypeOK, CrashPass, TodoOK
<1> QED
  BY <1>1, SameRecords

LEMMA TickKeeps == ASSUME IInv, Tick PROVE IInv'
<1>1. UNCHANGED <<records, journal, performed, worker, todo>> /\ now' \in Nat
  BY DEF IInv, TypeOK, Tick
<1>2. TodoOK'
  BY <1>1 DEF IInv, TodoOK, SnapshotOK, Shows
<1> QED
  BY <1>1, <1>2, SameRecords

-----------------------------------------------------------------------------
LEMMA InitIInv == Init => IInv
<1> SUFFICES ASSUME Init PROVE IInv
  OBVIOUS
<1>1. Fresh \in Local /\ Fresh.pc = "idle"
  BY SelectionAssumption DEF Fresh, Local, Labels, Curs, NoCur
<1>2. TypeOK
  BY <1>1 DEF Init, TypeOK, Stored, Journals
<1>3. \A w \in Workers : worker[w].pc = "idle"
  BY <1>1 DEF Init
<1>4. WorkersOK /\ OwnersApart
  BY <1>3, IdleOK DEF WorkersOK, OwnersApart
<1>5. RecordsOK /\ TodoOK /\ Apart(records)
  BY DEF Init, RecordsOK, TodoOK, Apart, AgentsApart, ScopesApart, ActiveIds
<1>6. JournalOK
  BY DEF Init, JournalOK, EntryOK
<1> QED
  BY <1>2, <1>4, <1>5, <1>6 DEF IInv

LEMMA StepOfWorkerKeeps == ASSUME IInv, NEW w \in Workers, Step(w) PROVE IInv'
<1>1. CASE PlanAdmission(w) \/ ReserveAdmission(w) \/ Revalidate(w) \/ PoolCheck(w)
  BY <1>1, PlanKeeps, ReserveKeeps, RevalidateKeeps, PoolCheckKeeps
<1>2. CASE \/ BeginRevalidation(w) \/ Deny(w) \/ Admit(w) \/ PoolCancel(w)
           \/ CompensateDenied(w) \/ BeginExecution(w) \/ Finalize(w)
  <2>1. PICK label, target, next : /\ CallsOfRetry(label, target, next)
                                   /\ StoreCall(w, label, target, next)
    BY <1>2 DEF BeginRevalidation, Deny, Admit, PoolCancel, CompensateDenied,
       BeginExecution, Finalize, CallsOfRetry
  <2> QED
    BY <2>1, StoreCallKeeps
<1>3. CASE \/ RecordStarted(w) \/ ConsumeRevalidation(w) \/ Perform(w)
           \/ RecordCompleted(w) \/ FinalizeGet(w)
  BY <1>3, RecordStartedKeeps, ConsumeKeeps, PerformKeeps, RecordCompletedKeeps,
     FinalizeGetKeeps
<1>4. CASE \/ CleanupCancel(w) \/ CleanupCompensate(w) \/ CleanupMark(w)
           \/ CleanupBegin(w) \/ CleanupFinish(w)
  <2>1. PICK label, target, next : /\ CallsOfCleanup(label, target, next)
                                   /\ CleanupCall(w, label, target, next)
    BY <1>4 DEF CleanupCancel, CleanupCompensate, CleanupMark, CleanupBegin,
       CleanupFinish, CallsOfCleanup
  <2> QED
    BY <2>1, CleanupCallKeeps
<1> QED
  BY <1>1, <1>2, <1>3, <1>4 DEF Step

(* Every step of a worker, of the pass, of the sweep and of the clock      *)
(* keeps the invariant.                                                    *)
LEMMA NextIInv == IInv /\ [Next]_vars => IInv'
<1> SUFFICES ASSUME IInv, [Next]_vars PROVE IInv'
  OBVIOUS
<1>1. ASSUME NEW w \in Workers, Call(w) \/ Step(w) \/ Crash(w) PROVE IInv'
  BY <1>1, CallKeeps, StepOfWorkerKeeps, CrashKeeps
<1>2. CASE UNCHANGED vars
  <2>1. UNCHANGED <<records, journal, performed, worker, todo>> /\ now' \in Nat
    BY <1>2 DEF vars, IInv, TypeOK
  <2>2. TodoOK'
    BY <2>1 DEF IInv, TodoOK, SnapshotOK, Shows
  <2> QED
    BY <2>1, <2>2, SameRecords
<1> QED
  BY <1>1, <1>2, StartPassKeeps, CrashPassKeeps, PassStepKeeps, ExpireKeeps, TickKeeps
     DEF Next

(* execute_with_retry, reconcile_incomplete and the store together: an     *)
(* admission has one owner at a time, whose copy is stale only where no    *)
(* operation can be running, and record, journal and operation agree.      *)
THEOREM SelectionInvariant == Spec => []IInv
  BY InitIInv, NextIInv, PTL DEF Spec

(* A performing worker's admission is EXECUTING and journaled as started.  *)
LEMMA PerformingHolds ==
  ASSUME IInv, NEW w \in Workers, Performing(w)
  PROVE  /\ Id(w) \in DOMAIN records /\ records[Id(w)].state = "EXECUTING"
         /\ Id(w) \in DOMAIN journal
         /\ journal[Id(w)] = [state |-> "started", revision |-> records[Id(w)].revision]
         /\ worker[w].pc \in Holding
<1>1. worker[w].pc = "perform" /\ StageOK(worker[w], Id(w), journal, performed)
  BY AtHand DEF LocalOK, Performing, At
<1>2. worker[w].pc \in Running /\ Started(worker[w], Id(w), journal)
  BY <1>1 DEF StageOK, Running
<1>3. /\ Id(w) \in DOMAIN records /\ records[Id(w)].state = "EXECUTING"
      /\ worker[w].pc \in Holding
      /\ records[Id(w)].revision = worker[w].cur.revision
  BY <1>2, UnderWay DEF Started
<1>4. journal[Id(w)] \in Entry
  BY <1>2 DEF IInv, TypeOK, Journals, Started
<1> QED
  BY <1>2, <1>3, <1>4 DEF Started, Entry

(* execute: the operation runs only under an EXECUTING admission that the  *)
(* journal knows as started, never two of them on one agent or on          *)
(* overlapping scopes, and at most once for each admission id - for any    *)
(* number of workers, deliveries, crashes and reconciliation passes.       *)
THEOREM SelectionWorkIsReserved == Spec => []WorkIsReserved
<1>1. IInv => WorkIsReserved
  <2> SUFFICES ASSUME IInv PROVE WorkIsReserved
    OBVIOUS
  <2>1. \A i \in Ids : performed[i] <= 1
    BY DEF IInv, TypeOK
  <2>2. ASSUME NEW v \in Workers, NEW w \in Workers, v # w, Performing(v), Performing(w)
        PROVE  /\ BindingOf[RequestOf[v]].agent # BindingOf[RequestOf[w]].agent
               /\ ~ ScopeConflicts(BindingOf[RequestOf[v]], BindingOf[RequestOf[w]])
    <3>1. Id(v) # Id(w) /\ Id(v) \in ActiveIds(records) /\ Id(w) \in ActiveIds(records)
      BY <2>2, PerformingHolds DEF IInv, OwnersApart, ActiveIds, Active, ActiveStates
    <3>2. /\ records[Id(v)].binding = BindingOf[Id(v)[1]]
          /\ records[Id(w)].binding = BindingOf[Id(w)[1]]
      BY <3>1 DEF IInv, RecordsOK, RecordOK, ActiveIds
    <3>3. Id(v)[1] = RequestOf[v] /\ Id(w)[1] = RequestOf[w]
      BY DEF Id
    <3> QED
      BY <3>1, <3>2, <3>3 DEF IInv, Apart, AgentsApart, ScopesApart
  <2> QED
    BY <2>1, <2>2, PerformingHolds DEF WorkIsReserved
<1> QED
  BY <1>1, SelectionInvariant, PTL

(* record_started and record_completed: the journal claims no more than    *)
(* happened, and nothing happens without a trace in it.                    *)
THEOREM SelectionJournalIsTruthful == Spec => []JournalIsTruthful
<1>1. IInv => JournalIsTruthful
  <2> SUFFICES ASSUME IInv, NEW i \in Ids
               PROVE  /\ performed[i] > 0 => i \in DOMAIN journal
                      /\ i \in DOMAIN journal /\ journal[i].state = "completed"
                           => performed[i] = 1
    BY DEF JournalIsTruthful
  <2>1. performed[i] \in {0, 1} /\ EntryOK(i, records, journal, performed)
    BY DEF IInv, TypeOK, JournalOK
  <2> QED
    BY <2>1 DEF EntryOK
<1> QED
  BY <1>1, SelectionInvariant, PTL

(* finalize, recover_after_crash and compensate: an admission is closed as *)
(* done only with an operation that ran and a journal that proves it, and  *)
(* given up only when its operation never ran and is not running.          *)
THEOREM SelectionClosedTruly == Spec => []ClosedTruly
<1>1. IInv => ClosedTruly
  <2> SUFFICES ASSUME IInv, NEW i \in DOMAIN records
               PROVE  /\ records[i].state \in {"RECOVERED_AFTER_CRASH", "FINALIZED"} =>
                           performed[i] = 1 /\ journal[i].state = "completed"
                      /\ records[i].state \in {"EXPIRED", "DENIED", "CANCELLED",
                                               "COMPENSATED"} =>
                           /\ performed[i] = 0
                           /\ \A w \in Workers : Performing(w) => Id(w) # i
    BY DEF ClosedTruly
  <2>1. i \in Ids /\ RecordOK(i, records, journal)
    BY DEF IInv, TypeOK, Stored, RecordsOK
  <2>2. performed[i] \in {0, 1} /\ EntryOK(i, records, journal, performed)
    BY <2>1 DEF IInv, TypeOK, JournalOK
  <2>3. \A w \in Workers : Performing(w) => records[Id(w)].state = "EXECUTING"
    BY PerformingHolds
  <2> QED
    BY <2>1, <2>2, <2>3 DEF RecordOK, EntryOK, Done, Early, GivenUp
<1> QED
  BY <1>1, SelectionInvariant, PTL

(* execute_with_retry's answer: a result only for a finalized admission, a *)
(* denial only for one that is compensated and never ran.                  *)
THEOREM SelectionAnswerIsTrue == Spec => []AnswerIsTrue
<1>1. IInv => AnswerIsTrue
  <2> SUFFICES ASSUME IInv, NEW w \in Workers
               PROVE  /\ At(w, "ok") => records[Id(w)].state = "FINALIZED"
                      /\ At(w, "denied") => /\ records[Id(w)].state = "COMPENSATED"
                                            /\ performed[Id(w)] = 0
    BY DEF AnswerIsTrue
  <2>1. /\ AnswerOK(worker[w], Id(w), records) /\ Id(w) \in Ids
    BY AtHand, LocalTypes DEF LocalOK
  <2>2. performed[Id(w)] \in {0, 1} /\ EntryOK(Id(w), records, journal, performed)
    BY <2>1 DEF IInv, TypeOK, JournalOK
  <2> QED
    BY <2>1, <2>2 DEF At, AnswerOK, IInv, RecordsOK, RecordOK, EntryOK, Early, GivenUp
<1> QED
  BY <1>1, SelectionInvariant, PTL
=============================================================================
