---------------------- MODULE DynamicWorkerStartProofs ----------------------
(***************************************************************************)
(* IInv is inductive: for any number of threads, a worker is started at    *)
(* most once, released only when it was never started, and the answers of  *)
(* dynamic_worker_start mean what AnswersAreTrue says.                     *)
(***************************************************************************)
EXTENDS DynamicWorkerStart, TLAPS

LEMMA InitIInv == Init => IInv
<1> SUFFICES ASSUME Init PROVE IInv
  OBVIOUS
<1> USE ThreadsAssumption DEF Init, Claiming, Starting, At
<1>1. TypeOK
  BY DEF TypeOK
<1>2. LockIsHeld /\ NotEnteredYet /\ OneStarter /\ StarterProgress
  BY DEF LockIsHeld, NotEnteredYet, OneStarter, StarterProgress
<1>3. StartedOnce /\ ReleasedOnlyUnstarted /\ AnswersAreTrue
  BY DEF StartedOnce, ReleasedOnlyUnstarted, AnswersAreTrue
<1>. QED
  BY <1>1, <1>2, <1>3 DEF IInv

LEMMA NextIInv == IInv /\ [Next]_vars => IInv'
<1> SUFFICES ASSUME IInv, [Next]_vars PROVE IInv'
  OBVIOUS
<1> USE ThreadsAssumption
    DEF IInv, TypeOK, LockIsHeld, NotEnteredYet, OneStarter, StarterProgress,
        StartedOnce, ReleasedOnlyUnstarted, AnswersAreTrue, At, Claiming, Starting,
        Goto, Return, claim, effects, resources
<1>1. ASSUME NEW t \in Threads, Claim(t) PROVE IInv'
  BY <1>1 DEF Claim
<1>2. ASSUME NEW t \in Threads, CheckState(t) PROVE IInv'
  BY <1>2 DEF CheckState
<1>3. ASSUME NEW t \in Threads, Enter(t) PROVE IInv'
  BY <1>3 DEF Enter
<1>4. ASSUME NEW t \in Threads, Prepare(t) PROVE IInv'
  BY <1>4 DEF Prepare
<1>5. ASSUME NEW t \in Threads, RecordStartGranted(t) PROVE IInv'
  <2>1. CASE granted' = TRUE /\ Goto(t, "execute")
    BY <1>5, <2>1 DEF RecordStartGranted
  <2>2. CASE UNCHANGED granted /\ Goto(t, "compensate")
    BY <1>5, <2>2 DEF RecordStartGranted
  <2>3. CASE UNCHANGED granted /\ Goto(t, "quarantine")
    BY <1>5, <2>3 DEF RecordStartGranted
  <2>4. CASE granted' = TRUE /\ Goto(t, "quarantine")
    BY <1>5, <2>4 DEF RecordStartGranted
  <2>. QED
    BY <1>5, <2>1, <2>2, <2>3, <2>4 DEF RecordStartGranted
<1>6. ASSUME NEW t \in Threads, Execute(t) PROVE IInv'
  BY <1>6 DEF Execute
<1>7. ASSUME NEW t \in Threads, RecordRunning(t) PROVE IInv'
  <2>1. CASE running' = TRUE /\ Return(t, "started")
    BY <1>7, <2>1 DEF RecordRunning
  <2>2. CASE running' = running /\ Goto(t, "quarantine")
    BY <1>7, <2>2 DEF RecordRunning
  <2>3. CASE running' = TRUE /\ Goto(t, "quarantine")
    BY <1>7, <2>3 DEF RecordRunning
  <2>. QED
    BY <1>7, <2>1, <2>2, <2>3 DEF RecordRunning
<1>8. ASSUME NEW t \in Threads, CompensateNotStarted(t) PROVE IInv'
  <2>1. CASE released' = TRUE /\ UNCHANGED failed
    BY <1>8, <2>1 DEF CompensateNotStarted
  <2>2. CASE released' = released /\ failed' = TRUE
    BY <1>8, <2>2 DEF CompensateNotStarted
  <2>3. CASE released' = TRUE /\ failed' = TRUE
    BY <1>8, <2>3 DEF CompensateNotStarted
  <2>. QED
    BY <1>8, <2>1, <2>2, <2>3 DEF CompensateNotStarted
<1>9. ASSUME NEW t \in Threads, QuarantineUnknownOrStarted(t) PROVE IInv'
  BY <1>9 DEF QuarantineUnknownOrStarted
<1>10. CASE UNCHANGED vars
  BY <1>10 DEF vars
<1>. QED
  BY <1>1, <1>2, <1>3, <1>4, <1>5, <1>6, <1>7, <1>8, <1>9, <1>10 DEF Next

(* The inductive invariant holds in every reachable state.                 *)
THEOREM StartInvariant == Spec => []IInv
  BY InitIInv, NextIInv, PTL DEF Spec

(* A3 is entered at most once, and only with START_GRANTED on record.      *)
THEOREM StartStartedOnce == Spec => []StartedOnce
<1>1. IInv => StartedOnce
  BY DEF IInv
<1>. QED
  BY <1>1, StartInvariant, PTL

(* compensate_not_started is called at most once, and only for a worker    *)
(* that was not and will not be granted, executed or quarantined.          *)
THEOREM StartReleasedOnlyUnstarted == Spec => []ReleasedOnlyUnstarted
<1>1. IInv => ReleasedOnlyUnstarted
  BY DEF IInv
<1>. QED
  BY <1>1, StartInvariant, PTL

(* A "started" worker runs and keeps its resources.  A "not_started" one   *)
(* never runs; its compensation was tried once, and its resources are back *)
(* unless that call raised, which the port's _state then says.             *)
THEOREM StartAnswersAreTrue == Spec => []AnswersAreTrue
<1>1. IInv => AnswersAreTrue
  BY DEF IInv
<1>. QED
  BY <1>1, StartInvariant, PTL
=============================================================================
