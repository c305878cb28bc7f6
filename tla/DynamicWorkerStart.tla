------------------------- MODULE DynamicWorkerStart -------------------------
(***************************************************************************)
(* dynamic_worker_start of the_hive/dynamic_worker_start.py: the holder of *)
(* a pre-start receipt starts the worker (step A3).  Several threads may   *)
(* call it with the same port, at once or again later.  What the port does *)
(* (prepare, record_start_granted, execute, record_running, compensate,    *)
(* quarantine) is injected; a call of it says yes, says no, or raises or   *)
(* answers anything else, and then it may or may not have taken effect.    *)
(*                                                                         *)
(* The port's _state set is only ever tested for being empty.  Of its      *)
(* marks, "entered" is kept and the one that alone tells a compensation    *)
(* that raised; a quarantine that raised changes no answer either.         *)
(***************************************************************************)
EXTENDS Naturals

CONSTANTS Threads, None

ASSUME ThreadsAssumption == None \notin Threads

VARIABLES
  pc,            \* where each thread is in dynamic_worker_start
  answer,        \* the status its last call returned
  claimLock,     \* the thread that holds _claim_lock, or None
  entered,       \* "entered" is in _state: the set is not empty
  granted,       \* START_GRANTED is on record
  executions,    \* entries into A3
  running,       \* RUNNING is on record
  compensations, \* calls of compensate_not_started, those that raised too
  released,      \* the receipt's resources have been given back
  failed,        \* "compensation_failed" is in _state
  quarantines    \* calls of quarantine_unknown_or_started, those that raised too

vars == <<pc, answer, claimLock, entered, granted, executions, running,
          compensations, released, failed, quarantines>>
claim == <<claimLock, entered>>
resources == <<released, failed>>
effects == <<granted, executions, running, compensations, resources, quarantines>>

Init ==
  /\ pc = [t \in Threads |-> "idle"]
  /\ answer = [t \in Threads |-> "none"]
  /\ claimLock = None /\ entered = FALSE
  /\ granted = FALSE /\ executions = 0 /\ running = FALSE
  /\ compensations = 0 /\ released = FALSE /\ failed = FALSE /\ quarantines = 0

At(t, label) == pc[t] = label
Goto(t, label) == pc' = [pc EXCEPT ![t] = label] /\ UNCHANGED answer
Return(t, status) ==
  /\ pc' = [pc EXCEPT ![t] = "idle"]
  /\ answer' = [answer EXCEPT ![t] = status]

(* The claim, without waiting for the lock. *)
Claim_Unlocked(t) ==
  /\ At(t, "idle")
  /\ Goto(t, "check")
  /\ UNCHANGED <<claim, effects>>

Claim(t) ==
  /\ At(t, "idle")
  /\ \/ /\ claimLock = None
        /\ claimLock' = t
        /\ Goto(t, "check")
     \/ /\ claimLock # None
        /\ Return(t, "quarantined")
        /\ UNCHANGED claimLock
  /\ UNCHANGED <<entered, effects>>

CheckState(t) ==
  /\ At(t, "check")
  /\ \/ entered /\ claimLock' = None /\ Return(t, "quarantined")
     \/ ~ entered /\ Goto(t, "enter") /\ UNCHANGED claimLock
  /\ UNCHANGED <<entered, effects>>

Enter(t) ==
  /\ At(t, "enter")
  /\ entered' = TRUE /\ claimLock' = None
  /\ Goto(t, "prepare")
  /\ UNCHANGED effects

(* Denied or raised: never started.  Any other answer: in doubt. *)
Prepare(t) ==
  /\ At(t, "prepare")
  /\ \E next \in {"grant", "compensate", "quarantine"} : Goto(t, next)
  /\ UNCHANGED <<claim, effects>>

RecordStartGranted_Denies(t) ==
  /\ At(t, "grant")
  /\ \/ granted' = TRUE /\ Goto(t, "execute")
     \/ granted' \in {granted, TRUE} /\ Goto(t, "compensate")
  /\ UNCHANGED <<claim, executions, running, compensations, resources, quarantines>>

(* Here a raise is in doubt. *)
RecordStartGranted(t) ==
  /\ At(t, "grant")
  /\ \/ granted' = TRUE /\ Goto(t, "execute")
     \/ UNCHANGED granted /\ Goto(t, "compensate")
     \/ granted' \in {granted, TRUE} /\ Goto(t, "quarantine")
  /\ UNCHANGED <<claim, executions, running, compensations, resources, quarantines>>

Execute(t) ==
  /\ At(t, "execute")
  /\ executions' = executions + 1
  /\ Goto(t, "running") \/ Goto(t, "quarantine")
  /\ UNCHANGED <<claim, granted, running, compensations, resources, quarantines>>

RecordRunning_Trusts(t) ==
  /\ At(t, "running")
  /\ running' \in {running, TRUE} /\ Return(t, "started")
  /\ UNCHANGED <<claim, granted, executions, compensations, resources, quarantines>>

RecordRunning(t) ==
  /\ At(t, "running")
  /\ \/ running' = TRUE /\ Return(t, "started")
     \/ running' \in {running, TRUE} /\ Goto(t, "quarantine")
  /\ UNCHANGED <<claim, granted, executions, compensations, resources, quarantines>>

(* An error of the compensation is recorded in _state and not retried; the *)
(* resources may be back or not, and the answer is the same.               *)
CompensateNotStarted(t) ==
  /\ At(t, "compensate")
  /\ compensations' = compensations + 1
  /\ \/ released' = TRUE /\ UNCHANGED failed
     \/ released' \in {released, TRUE} /\ failed' = TRUE
  /\ Return(t, "not_started")
  /\ UNCHANGED <<claim, granted, executions, running, quarantines>>

QuarantineUnknownOrStarted(t) ==
  /\ At(t, "quarantine")
  /\ quarantines' = quarantines + 1
  /\ Return(t, "quarantined")
  /\ UNCHANGED <<claim, granted, executions, running, compensations, resources>>

Next ==
  \E t \in Threads :
    \/ Claim(t) \/ CheckState(t) \/ Enter(t) \/ Prepare(t) \/ RecordStartGranted(t)
    \/ Execute(t) \/ RecordRunning(t) \/ CompensateNotStarted(t)
    \/ QuarantineUnknownOrStarted(t)

Spec == Init /\ [][Next]_vars

-----------------------------------------------------------------------------
(* The places of a thread that has not claimed the start, and of the one   *)
(* that has.                                                               *)
Claiming == {"idle", "check", "enter"}
Starting == {"prepare", "grant", "execute", "running", "compensate", "quarantine"}

TypeOK ==
  /\ pc \in [Threads -> Claiming \cup Starting]
  /\ answer \in [Threads -> {"none", "started", "not_started", "quarantined"}]
  /\ claimLock \in Threads \cup {None}
  /\ entered \in BOOLEAN /\ granted \in BOOLEAN /\ running \in BOOLEAN
  /\ released \in BOOLEAN /\ failed \in BOOLEAN
  /\ executions \in Nat /\ compensations \in Nat /\ quarantines \in Nat

(* The claim under _claim_lock ("replay_denied"): however many threads     *)
(* call, and however often, A3 is entered at most once, and only with the  *)
(* grant on record.                                                        *)
StartedOnce == executions <= 1 /\ (executions = 1 => granted)

(* Compensation is for a start "proven never started": it is tried at most *)
(* once, and then nothing was granted, executed or quarantined, and        *)
(* nothing will be.                                                        *)
ReleasedOnlyUnstarted ==
  compensations > 0 =>
    compensations = 1 /\ ~ granted /\ executions = 0 /\ quarantines = 0

(* The answers hold for as long as the callers keep them: "started" is a   *)
(* worker that runs, is on record as running and keeps its resources,      *)
(* "not_started" one that never runs and whose compensation was tried      *)
(* once.  It need not have succeeded: the answer does not say that the     *)
(* resources are back, only that they are unless the compensation raised,  *)
(* and then "compensation_failed" in the port's _state is what is left.    *)
AnswersAreTrue ==
  \A t \in Threads :
    /\ answer[t] = "started" =>
         executions = 1 /\ running /\ quarantines = 0 /\ ~ released
    /\ answer[t] = "not_started" =>
         executions = 0 /\ compensations = 1 /\ (released \/ failed)

-----------------------------------------------------------------------------
(* The inductive invariant behind the three.                               *)

(* Only the holder of the lock is between the claim and "entered".         *)
LockIsHeld == \A t \in Threads : pc[t] \in {"check", "enter"} <=> claimLock = t

NotEnteredYet ==
  /\ \A t \in Threads : At(t, "enter") => ~ entered
  /\ ~ entered => /\ \A t \in Threads : pc[t] \notin Starting /\ answer[t] \in {"none", "quarantined"}
                  /\ ~ granted /\ executions = 0 /\ ~ running
                  /\ compensations = 0 /\ quarantines = 0 /\ ~ released

OneStarter == \A t, u \in Threads : pc[t] \in Starting /\ pc[u] \in Starting => t = u

(* What the starter has done so far; after it has returned, the outcome.   *)
StarterProgress ==
  /\ \A t \in Threads :
       /\ pc[t] \in Starting =>
            /\ compensations = 0 /\ quarantines = 0 /\ ~ released
            /\ \A u \in Threads : answer[u] \in {"none", "quarantined"}
       /\ pc[t] \in {"prepare", "grant", "compensate"} => ~ granted
       /\ pc[t] \in {"prepare", "grant", "compensate", "execute"} => executions = 0
       /\ pc[t] = "execute" => granted
       /\ pc[t] = "running" => executions = 1
       /\ pc[t] \in Starting => ~ running \/ executions = 1

IInv ==
  /\ TypeOK /\ LockIsHeld /\ NotEnteredYet /\ OneStarter /\ StarterProgress
  /\ StartedOnce /\ ReleasedOnlyUnstarted /\ AnswersAreTrue
=============================================================================
