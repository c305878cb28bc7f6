------------------------ MODULE FileAdmissionStore ------------------------
(***************************************************************************)
(* FileAdmissionStore of the_hive/admission.py: the reservation store      *)
(* shared by processes through one file.  A mutating call takes an flock,  *)
(* loads the whole file into its own copy of _records, applies the         *)
(* in-memory operation to the copy, replaces the file atomically, and      *)
(* unlocks.  A process may die at any of these points; the kernel then     *)
(* drops its flock.  The clock a call works with is read before it waits   *)
(* for the lock.                                                           *)
(***************************************************************************)
EXTENDS AdmissionRecord

CONSTANTS
  Procs,            \* processes (or threads: each call opens its own lock file)
  NoProc,           \* nobody holds the lock
  Requests,         \* the <<target, expected revision>> callers ask for
  MaxStored,        \* MAX_STORED_ADMISSIONS
  MaxNow,           \* bound of the clock
  MaxRevision,      \* bound of the revision a caller presents
  MaxCrashes        \* bound of the number of crashes

ASSUME FileStoreAssumption ==
  /\ NoProc \notin Procs
  /\ MaxNow \in Nat /\ MaxRevision \in Nat
  /\ Requests \subseteq AdmissionState \X (0..MaxRevision)

VARIABLES
  file,             \* the records in the state file
  lock,             \* holder of the flock
  pc,               \* where each process is inside its call
  op,               \* the call each process is making
  copy,             \* each process's _records
  now,              \* the wall clock
  crashes           \* crashes so far

vars == <<file, lock, pc, op, copy, now, crashes>>

(* The calls of the store's interface, with the time the caller read.      *)
Calls(t) ==
  [kind : {"reserve"}, id : Ids, binding : Bindings, created : 0..t, time : {t}]
    \cup [kind : {"transition"}, id : Ids, request : Requests, time : {t}]
    \cup [kind : {"expire"}, time : {t}]
    \cup [kind : {"read"}, time : {t}]

NoCall == [kind |-> "none"]

Init ==
  /\ file = <<>>
  /\ lock = NoProc
  /\ pc = [p \in Procs |-> "idle"]
  /\ op = [p \in Procs |-> NoCall]
  /\ copy = [p \in Procs |-> <<>>]
  /\ now = 0
  /\ crashes = 0

(* What the in-memory operation requires, and what it makes of the copy.   *)
Accepted(c, recs) ==
  CASE c.kind = "reserve" ->
         CanReserve(recs, c.id, CreateAdmission(c.binding, c.created), c.time)
    [] c.kind = "transition" ->
         CanTransition(recs, c.id, c.request[1], c.request[2], c.time)
    [] c.kind = "expire" -> TRUE

Applied(c, recs) ==
  CASE c.kind = "reserve" ->
         Reserved(recs, c.id, CreateAdmission(c.binding, c.created), c.time)
    [] c.kind = "transition" -> Transitioned(recs, c.id, c.request[1])
    [] c.kind = "expire" -> ExpireAll(recs, c.time)

(* The end of a call: the context manager unlocks, the caller has its      *)
(* result or its AdmissionError.                                           *)
Leave(p) ==
  /\ lock' = NoProc
  /\ pc' = [pc EXCEPT ![p] = "idle"]
  /\ op' = [op EXCEPT ![p] = NoCall]
  /\ copy' = [copy EXCEPT ![p] = <<>>]

Call(p) ==
  /\ pc[p] = "idle"
  /\ \E c \in Calls(now) : op' = [op EXCEPT ![p] = c]
  /\ pc' = [pc EXCEPT ![p] = "waiting"]
  /\ UNCHANGED <<file, lock, copy, now, crashes>>

(* _file_lock: flock(LOCK_EX). *)
Acquire_Shared(p) ==
  /\ pc[p] = "waiting"
  /\ lock' = p
  /\ pc' = [pc EXCEPT ![p] = "locked"]
  /\ UNCHANGED <<file, op, copy, now, crashes>>

Acquire(p) ==
  /\ pc[p] = "waiting"
  /\ lock = NoProc
  /\ lock' = p
  /\ pc' = [pc EXCEPT ![p] = "locked"]
  /\ UNCHANGED <<file, op, copy, now, crashes>>

Readable == Cardinality(DOMAIN file) <= MaxStored

(* _load_records, when the file is acceptable. *)
Load(p) ==
  /\ pc[p] = "locked"
  /\ Readable
  /\ copy' = [copy EXCEPT ![p] = file]
  /\ pc' = [pc EXCEPT ![p] = "loaded"]
  /\ UNCHANGED <<file, lock, op, now, crashes>>

(* _load_records refuses the file: invalid_admission_state_records. *)
LoadRefused(p) ==
  /\ pc[p] = "locked"
  /\ ~ Readable
  /\ Leave(p)
  /\ UNCHANGED <<file, now, crashes>>

(* get, records_snapshot and public_snapshot return without writing. *)
Read(p) ==
  /\ pc[p] = "loaded"
  /\ op[p].kind = "read"
  /\ Leave(p)
  /\ UNCHANGED <<file, now, crashes>>

(* The operation on the copy succeeds. *)
Apply(p) ==
  /\ pc[p] = "loaded"
  /\ op[p].kind # "read"
  /\ Accepted(op[p], copy[p])
  /\ copy' = [copy EXCEPT ![p] = Applied(op[p], @)]
  /\ pc' = [pc EXCEPT ![p] = "applied"]
  /\ UNCHANGED <<file, lock, op, now, crashes>>

Refuse_Retries(p) ==
  /\ pc[p] = "loaded"
  /\ op[p].kind # "read"
  /\ ~ Accepted(op[p], copy[p])
  /\ pc' = [pc EXCEPT ![p] = "locked"]
  /\ UNCHANGED <<file, lock, op, copy, now, crashes>>

(* It raises: nothing is written, not even reserve's expiry sweep. *)
Refuse(p) ==
  /\ pc[p] = "loaded"
  /\ op[p].kind # "read"
  /\ ~ Accepted(op[p], copy[p])
  /\ Leave(p)
  /\ UNCHANGED <<file, now, crashes>>

(* _write_records: the temporary file, then os.replace. *)
Write(p) ==
  /\ pc[p] = "applied"
  /\ file' = copy[p]
  /\ pc' = [pc EXCEPT ![p] = "written"]
  /\ UNCHANGED <<lock, op, copy, now, crashes>>

(* The document is too large or the file system refuses: an error before   *)
(* os.replace, so the file is as it was.                                   *)
WriteFails(p) ==
  /\ pc[p] = "applied"
  /\ Leave(p)
  /\ UNCHANGED <<file, now, crashes>>

Return(p) ==
  /\ pc[p] = "written"
  /\ Leave(p)
  /\ UNCHANGED <<file, now, crashes>>

(* The process dies inside a call; its flock goes with its descriptors. *)
Crash(p) ==
  /\ pc[p] # "idle"
  /\ crashes < MaxCrashes
  /\ crashes' = crashes + 1
  /\ lock' = IF lock = p THEN NoProc ELSE lock
  /\ pc' = [pc EXCEPT ![p] = "idle"]
  /\ op' = [op EXCEPT ![p] = NoCall]
  /\ copy' = [copy EXCEPT ![p] = <<>>]
  /\ UNCHANGED <<file, now>>

Tick ==
  /\ now < MaxNow
  /\ now' = now + 1
  /\ UNCHANGED <<file, lock, pc, op, copy, crashes>>

(* The steps of a call that is under way. *)
Step(p) ==
  \/ Acquire(p) \/ Load(p) \/ LoadRefused(p) \/ Read(p) \/ Apply(p)
  \/ Refuse(p) \/ Write(p) \/ WriteFails(p) \/ Return(p)

Next ==
  \/ \E p \in Procs : Call(p) \/ Step(p) \/ Crash(p)
  \/ Tick

(* A process that runs keeps running: weak fairness of each call's steps.  *)
Spec == Init /\ [][Next]_vars /\ \A p \in Procs : WF_vars(Step(p))

-----------------------------------------------------------------------------
(* _mutate over flock and os.replace: whatever the interleaving of the     *)
(* processes and wherever they die, the file goes through the states of    *)
(* one atomic AdmissionStore.                                              *)
Atomic == INSTANCE AdmissionStore WITH records <- file

ImplementsStore == Atomic!Init /\ [][Atomic!Next]_(Atomic!vars)

(* advance, with the clock the caller read before waiting for the lock: an *)
(* admission starts executing, or resumes, only on a call made before its  *)
(* deadline.                                                               *)
NoLateStart ==
  [][\A i \in DOMAIN file :
       file[i].state # "EXECUTING" /\ file'[i].state = "EXECUTING"
         => \E p \in Procs : lock = p /\ op[p].time < file[i].expires]_vars

(* The flock does not outlive a call, whether it succeeds, is refused,     *)
(* fails to write or dies: a taken lock is always freed.                   *)
LockIsFreed == (lock # NoProc) ~> (lock = NoProc)
=============================================================================
