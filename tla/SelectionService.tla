-------------------------- MODULE SelectionService --------------------------
(***************************************************************************)
(* Selection orchestration: the_hive/selection_service.py driving the      *)
(* admission store (admission.py), the fail-closed runtime                 *)
(* (admission_runtime.py) and the completion journal                       *)
(* (admission_journal.py).                                                 *)
(*                                                                         *)
(* Each worker is a process inside execute_with_retry; every store call,   *)
(* journal write and external operation is a step of its own, so workers,  *)
(* a reconciliation pass, the clock, crashes and I/O failures interleave   *)
(* between any two of them.                                                *)
(***************************************************************************)
EXTENDS AdmissionRecord

CONSTANTS
  Workers,          \* processes that call execute_with_retry
  RequestOf,        \* the request (admission_id base) each worker carries
  BindingOf,        \* what each request's admissions are bound to
  MaxAttempts,      \* MAX_EXECUTION_ATTEMPTS
  MaxJournal,       \* MAX_JOURNAL_RECORDS
  MaxNow,           \* bound of the clock
  MaxFaults         \* bound of the number of crashes and I/O failures

Requests == {RequestOf[w] : w \in Workers}

ASSUME SelectionAssumption ==
  /\ MaxAttempts \in Nat \ {0} /\ MaxNow \in Nat /\ MaxFaults \in Nat
  /\ \A q \in Requests : BindingOf[q] \in Bindings
  /\ Ids = Requests \X (1..MaxAttempts)

VARIABLES
  records,          \* the admission store
  journal,          \* the completion journal, a function on journaled ids
  performed,        \* how often the external operation ran for each id
  worker,           \* the state of each execute_with_retry call
  todo,             \* what reconcile_incomplete still has to look at
  now,              \* the wall clock
  faults            \* crashes and I/O failures so far

vars == <<records, journal, performed, worker, todo, now, faults>>

(* "cur" is the local variable current (state and revision of the copy the *)
(* last store call returned), "clock" the time at which the worker's last  *)
(* step ended, "revalidated" the runtime's entry for the current id.       *)
NoCur == [state |-> "none", revision |-> 0]

Fresh == [pc |-> "idle", attempt |-> 1, cur |-> NoCur, clock |-> 0,
          revalidated |-> 0, after |-> "none"]

(* How a call of execute_with_retry ends: a result, SelectionDeniedError,  *)
(* or another exception.                                                   *)
Ended == {"ok", "denied", "failed"}

Init ==
  /\ records = <<>>
  /\ journal = <<>>
  /\ performed = [i \in Ids |-> 0]
  /\ worker = [w \in Workers |-> Fresh]
  /\ todo = {}
  /\ now = 0
  /\ faults = 0

-----------------------------------------------------------------------------
Id(w) == <<RequestOf[w], worker[w].attempt>>

At(w, label) == worker[w].pc = label

(* The clock readings a call made after the worker's last step may carry.  *)
Times(w) == worker[w].clock..now

(* A step of execute_with_retry that ends now: where the call goes on, and *)
(* what it then knows.                                                     *)
Resume(w, label, attempt, cur, revalidated, after) ==
  worker' = [worker EXCEPT ![w] =
    [pc |-> label, attempt |-> attempt, cur |-> cur, clock |-> now,
     revalidated |-> revalidated, after |-> after]]

Goto(w, label) ==
  Resume(w, label, worker[w].attempt, worker[w].cur, worker[w].revalidated,
         worker[w].after)

(* A store call has returned the record in a new state.                    *)
Got(w, label, state, revision) ==
  Resume(w, label, worker[w].attempt, [state |-> state, revision |-> revision],
         worker[w].revalidated, worker[w].after)

(* The runtime remembers or forgets a revalidation.                        *)
Remember(w, label, revision) ==
  Resume(w, label, worker[w].attempt, worker[w].cur, revision, worker[w].after)

End(w, answer) ==
  worker' = [worker EXCEPT ![w] =
    [pc |-> answer, attempt |-> worker[w].attempt, cur |-> NoCur, clock |-> 0,
     revalidated |-> 0, after |-> "none"]]

(* The end of a failed attempt: the next attempt after the backoff, or     *)
(* "admission retry exhausted".                                            *)
NextAttempt(w) ==
  IF worker[w].attempt < MaxAttempts
    THEN Resume(w, "plan", worker[w].attempt + 1, NoCur, 0, "none")
    ELSE End(w, "failed")

AfterCleanup(w) ==
  IF worker[w].after = "retry" THEN NextAttempt(w) ELSE End(w, "failed")

(* _compensate(current): where the cleanup starts, and what follows it.    *)
CleanupLabel(state) ==
  CASE state \in {"RESERVED", "REVALIDATING", "ADMITTED"} -> "cleanup_cancel"
    [] state \in {"CANCELLED", "CONFLICT", "EXPIRED", "DENIED"} -> "cleanup_compensate"
    [] state = "EXECUTING" -> "cleanup_mark"

Cleanup(w, after) ==
  Resume(w, CleanupLabel(worker[w].cur.state), worker[w].attempt, worker[w].cur,
         worker[w].revalidated, after)

-----------------------------------------------------------------------------
(* Calls of the store.  A call commits, is refused by the store's rules,   *)
(* or fails in the file system; the last two raise AdmissionError and      *)
(* leave the file as it was.                                               *)
Commit(w, target, t) ==
  /\ CanTransition(records, Id(w), target, worker[w].cur.revision, t)
  /\ records' = Transitioned(records, Id(w), target)

Committed(w, label, target) == Got(w, label, target, worker[w].cur.revision + 1)

IOFailure == faults < MaxFaults /\ faults' = faults + 1

Refused(w, target) ==
  \/ /\ \E t \in Times(w) :
          ~ CanTransition(records, Id(w), target, worker[w].cur.revision, t)
     /\ UNCHANGED faults
  \/ IOFailure

(* A transition of the happy path or of a denial: on an error the          *)
(* exception handler of execute_with_retry cleans up and raises.           *)
StoreCall(w, label, target, next) ==
  /\ At(w, label)
  /\ \/ /\ \E t \in Times(w) : Commit(w, target, t)
        /\ IF next \in Ended THEN End(w, next) ELSE Committed(w, next, target)
        /\ UNCHANGED faults
     \/ /\ Refused(w, target)
        /\ Cleanup(w, "raise")
        /\ UNCHANGED records
  /\ UNCHANGED <<journal, performed, todo, now>>

CleanupCall_Insists(w, label, target, next) ==
  /\ At(w, label)
  /\ \/ /\ \E t \in Times(w) : Commit(w, target, t)
        /\ IF next = "end" THEN AfterCleanup(w) ELSE Committed(w, next, target)
        /\ UNCHANGED faults
     \/ Refused(w, target) /\ UNCHANGED <<worker, records>>
  /\ UNCHANGED <<journal, performed, todo, now>>

(* A transition inside _compensate: an error is swallowed there.           *)
CleanupCall(w, label, target, next) ==
  /\ At(w, label)
  /\ \/ /\ \E t \in Times(w) : Commit(w, target, t)
        /\ IF next = "end" THEN AfterCleanup(w) ELSE Committed(w, next, target)
        /\ UNCHANGED faults
     \/ /\ Refused(w, target)
        /\ AfterCleanup(w)
        /\ UNCHANGED records
  /\ UNCHANGED <<journal, performed, todo, now>>

-----------------------------------------------------------------------------
(* execute_with_retry *)

Call(w) ==
  /\ At(w, "idle")
  /\ Goto(w, "plan")
  /\ UNCHANGED <<records, journal, performed, todo, now, faults>>

(* plan_factory creates the attempt's record, or raises. *)
PlanAdmission(w) ==
  /\ At(w, "plan")
  /\ Goto(w, "reserve") \/ End(w, "failed")
  /\ UNCHANGED <<records, journal, performed, todo, now, faults>>

(* The record was created when the planning step ended.                    *)
Planned(w) == CreateAdmission(BindingOf[RequestOf[w]], worker[w].clock)

(* The refusals that _is_retryable_admission_error recognizes.  A          *)
(* duplicate id is found before them and is not one of them.               *)
RetryableRefusal(w, t) ==
  /\ Id(w) \notin DOMAIN records
  /\ ~ CanReserve(records, Id(w), Planned(w), t)

ReserveAdmission(w) ==
  /\ At(w, "reserve")
  /\ \/ /\ \E t \in Times(w) :
             /\ CanReserve(records, Id(w), Planned(w), t)
             /\ records' = Reserved(records, Id(w), Planned(w), t)
        /\ Got(w, "begin_revalidation", "RESERVED", 1)
        /\ UNCHANGED faults
     \/ /\ \E t \in Times(w) : RetryableRefusal(w, t)
        /\ NextAttempt(w)
        /\ UNCHANGED <<records, faults>>
     \/ /\ \/ Id(w) \in DOMAIN records /\ UNCHANGED faults
           \/ IOFailure
        /\ End(w, "failed")
        /\ UNCHANGED records
  /\ UNCHANGED <<journal, performed, todo, now>>

BeginRevalidation(w) == StoreCall(w, "begin_revalidation", "REVALIDATING", "revalidate")

(* ServerAdmissionRuntime.revalidate: the clock, then every gate.  The     *)
(* gates' answers are external; only a full pass is remembered.            *)
Revalidate(w) ==
  /\ At(w, "revalidate")
  /\ \/ /\ \E t \in Times(w) : ~ IsExpired(records[Id(w)], t)
        /\ Remember(w, "admit", worker[w].cur.revision)
     \/ Goto(w, "deny")
  /\ UNCHANGED <<records, journal, performed, todo, now, faults>>

Deny(w) == StoreCall(w, "deny", "DENIED", "compensate_denied")

Admit(w) == StoreCall(w, "admit", "ADMITTED", "pool_check")

(* revalidate_before_begin_execution: the pool authority is external. *)
PoolCheck(w) ==
  /\ At(w, "pool_check")
  /\ Goto(w, "begin_execution") \/ Goto(w, "pool_cancel")
  /\ UNCHANGED <<records, journal, performed, todo, now, faults>>

PoolCancel(w) == StoreCall(w, "pool_cancel", "CANCELLED", "compensate_denied")

(* The compensation of a denied admission, then SelectionDeniedError. *)
CompensateDenied(w) == StoreCall(w, "compensate_denied", "COMPENSATED", "denied")

BeginExecution(w) == StoreCall(w, "begin_execution", "EXECUTING", "record_started")

-----------------------------------------------------------------------------
(* ServerAdmissionRuntime.execute and FileCompletionJournal *)

Journaled(w, state) ==
  [i \in DOMAIN journal \cup {Id(w)} |->
     IF i = Id(w) THEN [state |-> state, revision |-> worker[w].cur.revision]
                  ELSE journal[i]]

(* record_started: a new entry while there is room, or the same one again. *)
StartAccepted(w) ==
  /\ worker[w].revalidated \in 1..(worker[w].cur.revision - 1)
  /\ IF Id(w) \in DOMAIN journal
       THEN journal[Id(w)] = [state |-> "started", revision |-> worker[w].cur.revision]
       ELSE Cardinality(DOMAIN journal) < MaxJournal

RecordStarted_BestEffort(w) ==
  /\ At(w, "record_started")
  /\ Goto(w, "consume")
  /\ \/ journal' = Journaled(w, "started") /\ UNCHANGED faults
     \/ IOFailure /\ UNCHANGED journal
  /\ UNCHANGED <<records, performed, todo, now>>

(* The journal entry is durable before the event is appended, and the      *)
(* event may fail.                                                         *)
RecordStarted(w) ==
  /\ At(w, "record_started")
  /\ \/ /\ StartAccepted(w)
        /\ journal' = Journaled(w, "started")
        /\ \/ Goto(w, "consume") /\ UNCHANGED faults
           \/ Cleanup(w, "raise") /\ IOFailure
     \/ /\ \/ ~ StartAccepted(w) /\ UNCHANGED faults
           \/ IOFailure
        /\ Cleanup(w, "raise")
        /\ UNCHANGED journal
  /\ UNCHANGED <<records, performed, todo, now>>

(* The single use of the revalidation, and the pool authority once more. *)
ConsumeRevalidation(w) ==
  /\ At(w, "consume")
  /\ \/ Remember(w, "perform", 0)
     \/ Resume(w, CleanupLabel(worker[w].cur.state), worker[w].attempt, worker[w].cur,
               0, "raise")
  /\ UNCHANGED <<records, journal, performed, todo, now, faults>>

(* The injected executor ran.  It may raise with the operation done or     *)
(* not; RetryableSelectionError says that it was not.                      *)
Perform(w) ==
  /\ At(w, "perform")
  /\ \/ /\ performed' = [performed EXCEPT ![Id(w)] = @ + 1]
        /\ Goto(w, "record_completed") \/ Cleanup(w, "raise")
     \/ /\ UNCHANGED performed
        /\ Cleanup(w, "raise") \/ Cleanup(w, "retry")
  /\ UNCHANGED <<records, journal, todo, now, faults>>

RecordCompleted_BestEffort(w) ==
  /\ At(w, "record_completed")
  /\ Goto(w, "finalize_get")
  /\ \/ journal' = Journaled(w, "completed") /\ UNCHANGED faults
     \/ IOFailure /\ UNCHANGED journal
  /\ UNCHANGED <<records, performed, todo, now>>

(* record_completed: again the entry first, the event after it. *)
RecordCompleted(w) ==
  /\ At(w, "record_completed")
  /\ \/ /\ Id(w) \in DOMAIN journal
        /\ journal[Id(w)].revision = worker[w].cur.revision
        /\ journal' = Journaled(w, "completed")
        /\ \/ Goto(w, "finalize_get") /\ UNCHANGED faults
           \/ Cleanup(w, "raise") /\ IOFailure
     \/ IOFailure /\ Cleanup(w, "raise") /\ UNCHANGED journal
  /\ UNCHANGED <<records, performed, todo, now>>

-----------------------------------------------------------------------------
FinalizeGet_Recovered(w) ==
  /\ At(w, "finalize_get")
  /\ IF records[Id(w)].state \in {"RECOVERED_AFTER_CRASH", "FINALIZED"}
       THEN End(w, "ok")
       ELSE Goto(w, "finalize")
  /\ UNCHANGED <<records, journal, performed, todo, now, faults>>

(* finalize reads the record first, in a critical section of its own. *)
FinalizeGet(w) ==
  /\ At(w, "finalize_get")
  /\ IF records[Id(w)].state = "FINALIZED"
       THEN End(w, "ok")
       ELSE Goto(w, "finalize")
  /\ UNCHANGED <<records, journal, performed, todo, now, faults>>

Finalize(w) == StoreCall(w, "finalize", "FINALIZED", "ok")

(* _compensate *)
CleanupCancel(w) == CleanupCall(w, "cleanup_cancel", "CANCELLED", "cleanup_compensate")
CleanupCompensate(w) == CleanupCall(w, "cleanup_compensate", "COMPENSATED", "end")
CleanupMark(w) == CleanupCall(w, "cleanup_mark", "EXECUTION_FAILED", "cleanup_begin")
CleanupBegin(w) == CleanupCall(w, "cleanup_begin", "COMPENSATING", "cleanup_finish")
CleanupFinish(w) == CleanupCall(w, "cleanup_finish", "FAILED_FINAL", "end")

(* The process dies.  Its caller may call again with the same ids. *)
Crash(w) ==
  /\ worker[w].pc \notin {"idle"} \cup Ended
  /\ IOFailure
  /\ worker' = [worker EXCEPT ![w] = Fresh]
  /\ UNCHANGED <<records, journal, performed, todo, now>>

-----------------------------------------------------------------------------
(* reconcile_incomplete, run by hand or by a fresh process. *)

Closed == {"FINALIZED", "COMPENSATED", "FAILED_FINAL"}

Snapshot(i) == [id |-> i, state |-> records[i].state, revision |-> records[i].revision]

(* records_snapshot.  The closed records, which the pass has nothing to do *)
(* with, are left out.                                                     *)
StartPass ==
  /\ todo = {}
  /\ todo' = {Snapshot(i) : i \in {j \in DOMAIN records : records[j].state \notin Closed}}
  /\ UNCHANGED <<records, journal, performed, worker, now, faults>>

(* execution_completed: the evidence for exactly this revision. *)
ExecutionCompleted(s) ==
  s.id \in DOMAIN journal /\ journal[s.id] = [state |-> "completed", revision |-> s.revision]

PassTarget_NoEvidence(s) ==
  CASE s.state = "EXECUTING" -> "RECOVERED_AFTER_CRASH"
    [] s.state = "recovered" -> "FINALIZED"
    [] s.state \in {"CONFLICT", "EXPIRED", "DENIED", "CANCELLED"} -> "COMPENSATED"
    [] OTHER -> "none"

(* The store call a snapshot record asks for; none for the other states,   *)
(* nor for an execution without evidence, which is counted as unresolved.  *)
PassTarget(s) ==
  CASE s.state = "EXECUTING" /\ ExecutionCompleted(s) -> "RECOVERED_AFTER_CRASH"
    [] s.state = "recovered" -> "FINALIZED"
    [] s.state \in {"CONFLICT", "EXPIRED", "DENIED", "CANCELLED"} -> "COMPENSATED"
    [] OTHER -> "none"

(* A record that the pass has recovered is finalized next. *)
Recovered(s) == [id |-> s.id, state |-> "recovered", revision |-> s.revision + 1]

PassStep(s) ==
  /\ s \in todo
  /\ \A r \in todo : r.state = "recovered" => r = s
  /\ LET target == PassTarget(s) IN
     \/ /\ target = "none"
        /\ todo' = todo \ {s}
        /\ UNCHANGED <<records, faults>>
     \/ /\ target # "none"
        /\ CanTransition(records, s.id, target, s.revision, now)
        /\ records' = Transitioned(records, s.id, target)
        /\ todo' = (todo \ {s}) \cup
                     IF target = "RECOVERED_AFTER_CRASH" THEN {Recovered(s)} ELSE {}
        /\ UNCHANGED faults
     \/ (* an AdmissionError ends the whole pass *)
        /\ target # "none"
        /\ \/ ~ CanTransition(records, s.id, target, s.revision, now) /\ UNCHANGED faults
           \/ IOFailure
        /\ todo' = {}
        /\ UNCHANGED records
  /\ UNCHANGED <<journal, performed, worker, now>>

(* The process that runs the pass dies. *)
CrashPass ==
  /\ todo # {}
  /\ IOFailure
  /\ todo' = {}
  /\ UNCHANGED <<records, journal, performed, worker, now>>

(* Another user of the store calls expire (or reserve, which sweeps). *)
ExpireRecords ==
  /\ records' = ExpireAll(records, now)
  /\ records' # records
  /\ UNCHANGED <<journal, performed, worker, todo, now, faults>>

Tick ==
  /\ now < MaxNow
  /\ now' = now + 1
  /\ UNCHANGED <<records, journal, performed, worker, todo, faults>>

Step(w) ==
  \/ PlanAdmission(w) \/ ReserveAdmission(w) \/ BeginRevalidation(w)
  \/ Revalidate(w) \/ Deny(w) \/ Admit(w) \/ PoolCheck(w) \/ PoolCancel(w)
  \/ CompensateDenied(w) \/ BeginExecution(w)
  \/ RecordStarted(w) \/ ConsumeRevalidation(w) \/ Perform(w) \/ RecordCompleted(w)
  \/ FinalizeGet(w) \/ Finalize(w)
  \/ CleanupCancel(w) \/ CleanupCompensate(w)
  \/ CleanupMark(w) \/ CleanupBegin(w) \/ CleanupFinish(w)

Next ==
  \/ \E w \in Workers : Call(w) \/ Step(w) \/ Crash(w)
  \/ StartPass \/ CrashPass
  \/ \E s \in todo : PassStep(s)
  \/ ExpireRecords
  \/ Tick

(* A worker that is running keeps running: its steps return.               *)
Spec == Init /\ [][Next]_vars /\ \A w \in Workers : WF_vars(Step(w))

-----------------------------------------------------------------------------
Performing(w) == At(w, "perform")

(* execute: a worker runs the external operation only while its admission  *)
(* is EXECUTING at the revision it holds and the journal says it started;  *)
(* so no reconciliation, expiry or other worker takes the resources away   *)
(* under a running operation, and two running operations never share an    *)
(* agent or a scope.  Over retries, crashes, repeated calls and            *)
(* reconciliation, the operation runs at most once for each admission.     *)
WorkIsReserved ==
  /\ \A w \in Workers : Performing(w) =>
       /\ Id(w) \in DOMAIN records
       /\ records[Id(w)].state = "EXECUTING"
       /\ journal[Id(w)] = [state |-> "started", revision |-> records[Id(w)].revision]
  /\ \A v, w \in Workers : v # w /\ Performing(v) /\ Performing(w) =>
       /\ BindingOf[RequestOf[v]].agent # BindingOf[RequestOf[w]].agent
       /\ ~ ScopeConflicts(BindingOf[RequestOf[v]], BindingOf[RequestOf[w]])
  /\ \A i \in Ids : performed[i] <= 1

(* record_started is durable before the executor is called, and            *)
(* record_completed is written only after it: the journal never claims     *)
(* more than happened, and nothing happens without a trace in it.          *)
JournalIsTruthful ==
  \A i \in Ids :
    /\ performed[i] > 0 => i \in DOMAIN journal
    /\ i \in DOMAIN journal /\ journal[i].state = "completed" => performed[i] = 1

(* finalize, recover_after_crash and compensate: an admission is closed as *)
(* done only if its operation ran and the journal proves it, and given up  *)
(* only if its operation never ran and never will.                         *)
ClosedTruly ==
  \A i \in DOMAIN records :
    /\ records[i].state \in {"RECOVERED_AFTER_CRASH", "FINALIZED"} =>
         performed[i] = 1 /\ journal[i].state = "completed"
    /\ records[i].state \in {"EXPIRED", "DENIED", "CANCELLED", "COMPENSATED"} =>
         performed[i] = 0 /\ \A w \in Workers : Performing(w) => Id(w) # i

(* execute_with_retry's answer: a result is only returned for a finalized  *)
(* admission, a denial only for one that is compensated and never ran.     *)
AnswerIsTrue ==
  \A w \in Workers :
    /\ At(w, "ok") => records[Id(w)].state = "FINALIZED"
    /\ At(w, "denied") => /\ records[Id(w)].state = "COMPENSATED"
                          /\ performed[Id(w)] = 0

(* execute_with_retry is bounded: every call that is not killed ends.      *)
EveryCallEnds ==
  \A w \in Workers :
    worker[w].pc \notin {"idle"} \cup Ended ~> worker[w].pc \in {"idle"} \cup Ended
=============================================================================
