---------------------- MODULE FileAdmissionStoreProofs ----------------------
(***************************************************************************)
(* FileAdmissionStore implements AdmissionStore, for any set of processes, *)
(* calls and bounds.  The argument is the one behind _mutate: the flock is *)
(* held from the load to the replacement of the file, so the copy a        *)
(* process works on is the file until it writes (CopyOK), and the step     *)
(* that writes is the whole operation at once.  What AdmissionStore was    *)
(* shown to promise then holds of the file.                                *)
(***************************************************************************)
EXTENDS FileAdmissionStore, TLAPS

(* The points of a call at which its process holds the flock.              *)
Inside == {"locked", "loaded", "applied", "written"}

Stored(recs) ==
  /\ DOMAIN recs \subseteq Ids
  /\ \A i \in DOMAIN recs : recs[i] \in Record

TypeOK ==
  /\ Stored(file)
  /\ lock \in Procs \cup {NoProc}
  /\ pc \in [Procs -> Inside \cup {"idle", "waiting"}]
  /\ DOMAIN op = Procs
  /\ DOMAIN copy = Procs
  /\ now \in Nat

(* The flock excludes: exactly its holder is between locking and leaving.  *)
LockOK == \A p \in Procs : pc[p] \in Inside <=> lock = p

(* A call under way was made at a time that has come.                      *)
OpOK == \A p \in Procs : pc[p] # "idle" => \E t \in 0..now : op[p] \in Calls(t)

(* What a process has in its copy, between loading and writing.            *)
CopyOf(p) ==
  /\ pc[p] = "loaded" => copy[p] = file
  /\ pc[p] = "applied" =>
       /\ op[p].kind # "read"
       /\ Accepted(op[p], file)
       /\ copy[p] = Applied(op[p], file)

CopyOK == \A p \in Procs : CopyOf(p)

(* The lock, the calls and the copies, as every step keeps them.           *)
IInv == TypeOK /\ LockOK /\ OpOK /\ CopyOK

-----------------------------------------------------------------------------
(* What a call carries.                                                    *)
LEMMA CallShape ==
  ASSUME NEW t, NEW c \in Calls(t)
  PROVE  /\ c.time = t
         /\ c.kind \in {"reserve", "transition", "expire", "read"}
         /\ c.kind = "reserve" =>
              c.id \in Ids /\ c.binding \in Bindings /\ c.created \in 0..t
         /\ c.kind = "transition" =>
              /\ c.id \in Ids
              /\ c.request[1] \in AdmissionState
              /\ c.request[2] \in 0..MaxRevision
<1>1. CASE c \in [kind : {"reserve"}, id : Ids, binding : Bindings, created : 0..t,
                  time : {t}]
  BY <1>1
<1>2. CASE c \in [kind : {"transition"}, id : Ids, request : Requests, time : {t}]
  <2>1. c.request \in AdmissionState \X (0..MaxRevision)
    BY <1>2, FileStoreAssumption
  <2> QED
    BY <1>2, <2>1
<1>3. CASE c \in [kind : {"expire"}, time : {t}]
  BY <1>3
<1>4. CASE c \in [kind : {"read"}, time : {t}]
  BY <1>4
<1> QED
  BY <1>1, <1>2, <1>3, <1>4 DEF Calls

(* Only a state that time can end leads to execution.                      *)
LEMMA TransitionGraph ==
  ASSUME NEW s \in AdmissionState, NEW target \in AllowedTransitions[s]
  PROVE  target \in AdmissionState /\ (target = "EXECUTING" => s \in ExpirableStates)
  BY DEF AllowedTransitions, AdmissionState, ExpirableStates

(* An advanced record is a record in the new state.                        *)
LEMMA AdvanceRecord ==
  ASSUME NEW r \in Record, NEW target \in AdmissionState
  PROVE  Advance(r, target) \in Record /\ Advance(r, target).state = target
  BY DEF Advance, Record

(* The sweep keeps the records and starts none of them.                    *)
LEMMA SweepKeeps ==
  ASSUME NEW recs, Stored(recs), NEW t
  PROVE  /\ Stored(ExpireAll(recs, t))
         /\ DOMAIN ExpireAll(recs, t) = DOMAIN recs
         /\ \A i \in DOMAIN recs : ExpireAll(recs, t)[i].state = "EXECUTING"
                                     => recs[i].state = "EXECUTING"
<1> DEFINE swept == ExpireAll(recs, t)
<1>1. DOMAIN swept = DOMAIN recs
  BY DEF ExpireAll
<1>2. ASSUME NEW i \in DOMAIN recs
      PROVE  /\ swept[i] \in Record
             /\ swept[i].state = "EXECUTING" => recs[i].state = "EXECUTING"
  <2>1. recs[i] \in Record
    BY DEF Stored
  <2>2. CASE Overdue(recs[i], t)
    <3>1. swept[i] = Advance(recs[i], "EXPIRED")
      BY <2>2 DEF ExpireAll
    <3> QED
      BY <2>1, <3>1, AdvanceRecord DEF AdmissionState
  <2>3. CASE ~ Overdue(recs[i], t)
    BY <2>1, <2>3 DEF ExpireAll
  <2> QED
    BY <2>2, <2>3
<1> QED
  BY <1>1, <1>2 DEF Stored

(* What an accepted call makes of stored records: stored records, in which *)
(* an admission starts executing only if its deadline is after the call.   *)
LEMMA AppliedKeeps ==
  ASSUME NEW recs, Stored(recs), NEW t \in Nat, NEW c \in Calls(t),
         c.kind # "read", Accepted(c, recs)
  PROVE  /\ Stored(Applied(c, recs))
         /\ \A i \in DOMAIN recs :
              recs[i].state # "EXECUTING" /\ Applied(c, recs)[i].state = "EXECUTING"
                => c.time < recs[i].expires
<1> DEFINE new == Applied(c, recs)
<1>0. c.time = t /\ c.kind \in {"reserve", "transition", "expire"}
  BY CallShape
<1>1. CASE c.kind = "reserve"
  <2> DEFINE planned == CreateAdmission(c.binding, c.created)
             swept == ExpireAll(recs, t)
             r == Advance(planned, "RESERVED")
  <2>1. c.id \in Ids /\ c.binding \in Bindings /\ c.created \in Nat
    BY <1>1, CallShape
  <2>2. planned \in Record
    BY <2>1, NumberAssumption DEF CreateAdmission, Record, AdmissionState
  <2>3. r \in Record
    BY <2>2, AdvanceRecord DEF AdmissionState
  <2>4. new = Put(swept, c.id, r) /\ c.id \notin DOMAIN recs
    BY <1>0, <1>1 DEF Applied, Reserved, Accepted, CanReserve
  <2> HIDE DEF planned, swept, r, new
  <2>5. /\ Stored(swept) /\ DOMAIN swept = DOMAIN recs
        /\ \A i \in DOMAIN recs : swept[i].state = "EXECUTING"
                                    => recs[i].state = "EXECUTING"
    BY SweepKeeps DEF swept
  <2>6. Stored(new) /\ \A i \in DOMAIN recs : new[i] = swept[i]
    BY <2>1, <2>3, <2>4, <2>5 DEF Put, Stored
  <2> QED
    BY <2>5, <2>6 DEF new
<1>2. CASE c.kind = "transition"
  <2> DEFINE id == c.id
             target == c.request[1]
  <2>1. /\ id \in DOMAIN recs /\ CanAdvance(recs[id], target, t)
        /\ new = [recs EXCEPT ![id] = Advance(recs[id], target)]
    BY <1>0, <1>2 DEF Accepted, CanTransition, Applied, Transitioned
  <2>2. recs[id] \in Record /\ recs[id].state \in AdmissionState
        /\ recs[id].expires \in Nat
    BY <2>1 DEF Stored, Record
  <2>3. target \in AdmissionState
        /\ (target = "EXECUTING" => recs[id].state \in ExpirableStates)
    BY <2>1, <2>2, TransitionGraph DEF CanAdvance
  <2>4. /\ Advance(recs[id], target) \in Record
        /\ Advance(recs[id], target).state = target
    BY <2>2, <2>3, AdvanceRecord
  <2>5. target = "EXECUTING" => t < recs[id].expires
    BY <2>1, <2>2, <2>3 DEF CanAdvance, Overdue, IsExpired
  <2> HIDE DEF new, id, target
  <2>6. Stored(new)
    BY <2>1, <2>4 DEF Stored
  <2>7. \A i \in DOMAIN recs :
          recs[i].state # "EXECUTING" /\ new[i].state = "EXECUTING" => t < recs[i].expires
    BY <2>1, <2>4, <2>5
  <2> QED
    BY <1>0, <2>6, <2>7 DEF new
<1>3. CASE c.kind = "expire"
  <2>1. new = ExpireAll(recs, t)
    BY <1>0, <1>3 DEF Applied
  <2> QED
    BY <2>1, SweepKeeps
<1> QED
  BY <1>0, <1>1, <1>2, <1>3

(* The instance has the operators of AdmissionRecord as its own: they are  *)
(* the ones the file's store uses.                                         *)
LEMMA SameSweep ==
  ASSUME NEW recs, NEW t
  PROVE  Atomic!ExpireAll(recs, t) = ExpireAll(recs, t)
  BY DEF ExpireAll, Atomic!ExpireAll, Advance, Atomic!Advance, Overdue,
     Atomic!Overdue, IsExpired, Atomic!IsExpired, ExpirableStates,
     Atomic!ExpirableStates

LEMMA SameTransition ==
  ASSUME NEW recs, NEW id, NEW target, NEW expected, NEW t
  PROVE  /\ Atomic!AdmissionState = AdmissionState
         /\ Atomic!CanTransition(recs, id, target, expected, t)
              <=> CanTransition(recs, id, target, expected, t)
         /\ Atomic!Transitioned(recs, id, target) = Transitioned(recs, id, target)
  BY DEF AdmissionState, Atomic!AdmissionState, CanTransition,
     Atomic!CanTransition, Transitioned, Atomic!Transitioned, CanAdvance,
     Atomic!CanAdvance, AllowedTransitions, Atomic!AllowedTransitions,
     Advance, Atomic!Advance, Overdue, Atomic!Overdue, IsExpired,
     Atomic!IsExpired, ExpirableStates, Atomic!ExpirableStates

LEMMA SameReserve ==
  ASSUME NEW recs, NEW id, NEW b, NEW created, NEW t
  PROVE  /\ Atomic!CanReserve(recs, id, Atomic!CreateAdmission(b, created), t)
              <=> CanReserve(recs, id, CreateAdmission(b, created), t)
         /\ Atomic!Reserved(recs, id, Atomic!CreateAdmission(b, created), t)
              = Reserved(recs, id, CreateAdmission(b, created), t)
  BY Zenon DEF CanReserve, Atomic!CanReserve, Reserved, Atomic!Reserved,
     CreateAdmission, Atomic!CreateAdmission, ReservationConflict,
     Atomic!ReservationConflict, ExpireAll, Atomic!ExpireAll, Put,
     Atomic!Put, CanAdvance, Atomic!CanAdvance, Advance, Atomic!Advance,
     Overdue, Atomic!Overdue, IsExpired, Atomic!IsExpired, ActiveIds,
     Atomic!ActiveIds, Active, Atomic!Active, OnAccount, Atomic!OnAccount,
     OnModel, Atomic!OnModel, ScopeConflicts, Atomic!ScopeConflicts,
     ScopePathsOverlap, Atomic!ScopePathsOverlap, PathWithin,
     Atomic!PathWithin, ActiveStates, Atomic!ActiveStates, ExpirableStates,
     Atomic!ExpirableStates, AllowedTransitions, Atomic!AllowedTransitions,
     AdmissionState, Atomic!AdmissionState, Cardinality, Atomic!Cardinality

(* An accepted call, carried out at once, is a step of the atomic store.   *)
LEMMA AppliedIsAtomic ==
  ASSUME now \in Nat, NEW t \in 0..now, NEW c \in Calls(t), c.kind # "read",
         Accepted(c, file), file' = Applied(c, file), now' = now
  PROVE  Atomic!Next
<1>0. c.time = t /\ c.kind \in {"reserve", "transition", "expire"}
  BY CallShape
<1>1. CASE c.kind = "reserve"
  <2>1. c.id \in Ids /\ c.binding \in Bindings /\ c.created \in 0..t
    BY <1>1, CallShape
  <2>2. Atomic!Reserve(c.id, c.binding, c.created, t)
    BY <1>0, <1>1, SameReserve DEF Atomic!Reserve, Accepted, Applied
  <2> QED
    BY <2>1, <2>2 DEF Atomic!Next
<1>2. CASE c.kind = "transition"
  <2>1. /\ c.id \in Ids /\ c.request[1] \in AdmissionState
        /\ c.request[2] \in 0..MaxRevision
    BY <1>2, CallShape
  <2>2. Atomic!Transition(c.id, c.request[1], c.request[2], t)
    BY <1>0, <1>2, SameTransition DEF Atomic!Transition, Accepted, Applied
  <2> QED
    BY <2>1, <2>2, SameTransition DEF Atomic!Next
<1>3. CASE c.kind = "expire"
  <2>1. Atomic!Expire(t)
    BY <1>0, <1>3, SameSweep DEF Atomic!Expire, Applied
  <2> QED
    BY <2>1 DEF Atomic!Next
<1> QED
  BY <1>0, <1>1, <1>2, <1>3

-----------------------------------------------------------------------------
LEMMA InitIInv == Init => IInv
  BY FileStoreAssumption
     DEF Init, IInv, TypeOK, Stored, LockOK, OpOK, CopyOK, CopyOf, Inside

(* The end of a call: its process leaves and frees the flock it held.      *)
LEMMA LeaveKeeps ==
  ASSUME IInv, NEW p \in Procs, lock = p, Leave(p), UNCHANGED <<file, now>>
  PROVE  IInv'
<1>1. TypeOK'
  BY DEF IInv, TypeOK, Leave, Stored
<1>2. LockOK'
  BY FileStoreAssumption DEF IInv, TypeOK, LockOK, Leave, Inside
<1>3. OpOK'
  BY DEF IInv, TypeOK, OpOK, Leave
<1>4. CopyOK'
  BY DEF IInv, TypeOK, LockOK, CopyOK, CopyOf, Leave, Inside
<1> QED
  BY <1>1, <1>2, <1>3, <1>4 DEF IInv

LEMMA CallKeeps == ASSUME IInv, NEW p \in Procs, Call(p) PROVE IInv'
<1>1. TypeOK'
  BY DEF IInv, TypeOK, Call, Stored
<1>2. LockOK'
  BY DEF IInv, TypeOK, LockOK, Call, Inside
<1>3. OpOK'
  <2>1. PICK c \in Calls(now) : op' = [op EXCEPT ![p] = c]
    BY DEF Call
  <2>2. now \in 0..now /\ now' = now
    BY DEF IInv, TypeOK, Call
  <2> QED
    BY <2>1, <2>2 DEF IInv, TypeOK, OpOK, Call
<1>4. CopyOK'
  BY DEF IInv, TypeOK, CopyOK, CopyOf, Call
<1> QED
  BY <1>1, <1>2, <1>3, <1>4 DEF IInv

LEMMA AcquireKeeps == ASSUME IInv, NEW p \in Procs, Acquire(p) PROVE IInv'
<1>1. TypeOK'
  BY DEF IInv, TypeOK, Acquire, Stored, Inside
<1>2. LockOK'
  BY FileStoreAssumption DEF IInv, TypeOK, LockOK, Acquire, Inside
<1>3. OpOK'
  BY DEF IInv, TypeOK, OpOK, Acquire
<1>4. CopyOK'
  BY DEF IInv, TypeOK, CopyOK, CopyOf, Acquire
<1> QED
  BY <1>1, <1>2, <1>3, <1>4 DEF IInv

LEMMA LoadKeeps == ASSUME IInv, NEW p \in Procs, Load(p) PROVE IInv'
<1>1. TypeOK'
  BY DEF IInv, TypeOK, Load, Stored, Inside
<1>2. LockOK'
  BY DEF IInv, TypeOK, LockOK, Load, Inside
<1>3. OpOK'
  BY DEF IInv, TypeOK, OpOK, Load
<1>4. CopyOK'
  BY DEF IInv, TypeOK, CopyOK, CopyOf, Load
<1> QED
  BY <1>1, <1>2, <1>3, <1>4 DEF IInv

LEMMA ApplyKeeps == ASSUME IInv, NEW p \in Procs, Apply(p) PROVE IInv'
<1>1. TypeOK'
  BY DEF IInv, TypeOK, Apply, Stored, Inside
<1>2. LockOK'
  BY DEF IInv, TypeOK, LockOK, Apply, Inside
<1>3. OpOK'
  BY DEF IInv, TypeOK, OpOK, Apply
<1>4. CopyOK'
  <2> SUFFICES ASSUME NEW q \in Procs PROVE CopyOf(q)'
    BY DEF CopyOK
  <2>1. CASE q = p
    <3>1. /\ op[p].kind # "read" /\ Accepted(op[p], file)
          /\ copy'[p] = Applied(op[p], file)
          /\ pc'[p] = "applied" /\ op' = op /\ file' = file
      BY DEF IInv, TypeOK, CopyOK, CopyOf, Apply
    <3> HIDE DEF Accepted, Applied
    <3> QED
      BY <2>1, <3>1 DEF CopyOf, Accepted, Applied
  <2>2. CASE q # p
    <3>1. /\ copy'[q] = copy[q] /\ pc'[q] = pc[q] /\ op' = op /\ file' = file
      BY <2>2 DEF IInv, TypeOK, Apply
    <3>2. CopyOf(q)
      BY DEF IInv, CopyOK
    <3> QED
      BY <3>1, <3>2 DEF CopyOf, Accepted, Applied
  <2> QED
    BY <2>1, <2>2
<1> QED
  BY <1>1, <1>2, <1>3, <1>4 DEF IInv

(* The write: the operation the call was accepted for, on the file.        *)
LEMMA WriteIsApplied ==
  ASSUME IInv, NEW p \in Procs, Write(p)
  PROVE  \E t \in 0..now :
           /\ op[p] \in Calls(t) /\ op[p].kind # "read"
           /\ Accepted(op[p], file)
           /\ file' = Applied(op[p], file)
           /\ now' = now /\ lock = p
<1>1. CopyOf(p) /\ pc[p] = "applied" /\ lock = p
  BY DEF IInv, CopyOK, LockOK, Write, Inside
<1>2. PICK t \in 0..now : op[p] \in Calls(t)
  BY <1>1 DEF IInv, OpOK
<1> QED
  BY <1>1, <1>2 DEF CopyOf, Write

LEMMA WriteKeeps == ASSUME IInv, NEW p \in Procs, Write(p) PROVE IInv'
<1>1. TypeOK'
  <2>1. PICK t \in 0..now : /\ op[p] \in Calls(t) /\ op[p].kind # "read"
                            /\ Accepted(op[p], file)
                            /\ file' = Applied(op[p], file)
    BY WriteIsApplied
  <2>2. Stored(file) /\ t \in Nat
    BY DEF IInv, TypeOK
  <2>3. Stored(file')
    BY <2>1, <2>2, AppliedKeeps
  <2> QED
    BY <2>3 DEF IInv, TypeOK, Write, Stored, Inside
<1>2. LockOK'
  BY DEF IInv, TypeOK, LockOK, Write, Inside
<1>3. OpOK'
  BY DEF IInv, TypeOK, OpOK, Write
<1>4. CopyOK'
  BY DEF IInv, TypeOK, LockOK, CopyOK, CopyOf, Write, Inside
<1> QED
  BY <1>1, <1>2, <1>3, <1>4 DEF IInv

LEMMA CrashKeeps == ASSUME IInv, NEW p \in Procs, Crash(p) PROVE IInv'
<1>1. TypeOK'
  BY DEF IInv, TypeOK, Crash, Stored
<1>2. LockOK'
  BY FileStoreAssumption DEF IInv, TypeOK, LockOK, Crash, Inside
<1>3. OpOK'
  BY DEF IInv, TypeOK, OpOK, Crash
<1>4. CopyOK'
  <2> SUFFICES ASSUME NEW q \in Procs PROVE CopyOf(q)'
    BY DEF CopyOK
  <2>1. CopyOf(q)
    BY DEF IInv, CopyOK
  <2>2. pc'[q] = "idle" \/ (pc'[q] = pc[q] /\ copy'[q] = copy[q] /\ op'[q] = op[q])
    BY DEF IInv, TypeOK, Crash
  <2>3. file' = file
    BY DEF Crash
  <2> QED
    BY <2>1, <2>2, <2>3 DEF CopyOf, Accepted, Applied
<1> QED
  BY <1>1, <1>2, <1>3, <1>4 DEF IInv

LEMMA TickKeeps == ASSUME IInv, Tick PROVE IInv'
<1>1. TypeOK'
  BY DEF IInv, TypeOK, Tick, Stored
<1>2. OpOK'
  <2>1. 0..now \subseteq 0..now'
    BY DEF IInv, TypeOK, Tick
  <2> QED
    BY <2>1 DEF IInv, OpOK, Tick
<1> QED
  BY <1>1, <1>2 DEF IInv, LockOK, CopyOK, CopyOf, Tick

(* Every step keeps the lock, the calls and the copies in order.           *)
LEMMA NextIInv == IInv /\ [Next]_vars => IInv'
<1> SUFFICES ASSUME IInv, [Next]_vars PROVE IInv'
  OBVIOUS
<1>1. ASSUME NEW p \in Procs, Step(p) PROVE IInv'
  <2>1. CASE Acquire(p)
    BY <2>1, AcquireKeeps
  <2>2. CASE Load(p)
    BY <2>2, LoadKeeps
  <2>3. CASE Apply(p)
    BY <2>3, ApplyKeeps
  <2>4. CASE Write(p)
    BY <2>4, WriteKeeps
  <2>5. CASE LoadRefused(p) \/ Read(p) \/ Refuse(p) \/ WriteFails(p) \/ Return(p)
    <3>1. lock = p /\ Leave(p) /\ UNCHANGED <<file, now>>
      BY <2>5 DEF IInv, LockOK, Inside, LoadRefused, Read, Refuse, WriteFails, Return
    <3> QED
      BY <3>1, LeaveKeeps
  <2> QED
    BY <1>1, <2>1, <2>2, <2>3, <2>4, <2>5 DEF Step
<1>2. CASE UNCHANGED vars
  BY <1>2 DEF vars, IInv, TypeOK, Stored, LockOK, OpOK, CopyOK, CopyOf
<1> QED
  BY <1>1, <1>2, CallKeeps, CrashKeeps, TickKeeps DEF Next

(* flock, _load_records and os.replace in that order: at every moment at   *)
(* most one process is inside, and what it applied its call to is the file *)
(* it will replace.                                                        *)
THEOREM FileStoreInvariant == Spec => []IInv
  BY InitIInv, NextIInv, PTL DEF Spec

(* A step writes the file, ticks, or leaves both alone.                    *)
LEMMA WhatChangesTheFile ==
  ASSUME IInv, [Next]_vars
  PROVE  \/ \E p \in Procs : Write(p)
         \/ Tick
         \/ UNCHANGED <<file, now>>
  BY DEF Next, vars, Step, Call, Acquire, Load, LoadRefused, Read, Apply, Refuse,
     WriteFails, Return, Crash, Leave

(* The step of the file is a step of the atomic store.                     *)
LEMMA StepRefines == IInv /\ [Next]_vars => [Atomic!Next]_(Atomic!vars)
<1> SUFFICES ASSUME IInv, [Next]_vars PROVE [Atomic!Next]_(Atomic!vars)
  OBVIOUS
<1>1. ASSUME NEW p \in Procs, Write(p) PROVE Atomic!Next
  <2>1. PICK t \in 0..now : /\ op[p] \in Calls(t) /\ op[p].kind # "read"
                            /\ Accepted(op[p], file)
                            /\ file' = Applied(op[p], file) /\ now' = now
    BY <1>1, WriteIsApplied
  <2>2. now \in Nat
    BY DEF IInv, TypeOK
  <2> QED
    BY <2>1, <2>2, AppliedIsAtomic
<1>2. CASE Tick
  BY <1>2 DEF Tick, Atomic!Next, Atomic!Tick
<1>3. CASE UNCHANGED <<file, now>>
  BY <1>3 DEF Atomic!vars
<1> QED
  BY <1>1, <1>2, <1>3, WhatChangesTheFile

(* _mutate over flock and os.replace: for any number of processes, with    *)
(* deaths at any point, the file goes through the states of the atomic     *)
(* AdmissionStore.                                                         *)
THEOREM FileStoreImplementsStore == Spec => ImplementsStore
<1>1. Init => Atomic!Init
  BY DEF Init, Atomic!Init
<1> QED
  BY <1>1, StepRefines, FileStoreInvariant, PTL DEF Spec, ImplementsStore

(* advance with the time the caller read before it waited for the flock:   *)
(* an admission starts executing only on a call made before its deadline,  *)
(* however long the call waited and whoever wrote in between.              *)
THEOREM FileStoreNoLateStart == Spec => NoLateStart
<1> DEFINE Late == \A i \in DOMAIN file :
                     file[i].state # "EXECUTING" /\ file'[i].state = "EXECUTING"
                       => \E p \in Procs : lock = p /\ op[p].time < file[i].expires
<1>1. IInv /\ [Next]_vars => Late
  <2> SUFFICES ASSUME IInv, [Next]_vars PROVE Late
    OBVIOUS
  <2>1. ASSUME NEW p \in Procs, Write(p) PROVE Late
    <3>1. PICK t \in 0..now : /\ op[p] \in Calls(t) /\ op[p].kind # "read"
                              /\ Accepted(op[p], file)
                              /\ file' = Applied(op[p], file) /\ lock = p
      BY <2>1, WriteIsApplied
    <3>2. Stored(file) /\ t \in Nat
      BY DEF IInv, TypeOK
    <3>3. \A i \in DOMAIN file :
            file[i].state # "EXECUTING" /\ file'[i].state = "EXECUTING"
              => op[p].time < file[i].expires
      BY <3>1, <3>2, AppliedKeeps
    <3> QED
      BY <3>1, <3>3
  <2>2. CASE Tick \/ UNCHANGED <<file, now>>
    BY <2>2 DEF Tick
  <2> QED
    BY <2>1, <2>2, WhatChangesTheFile
<1> QED
  BY <1>1, FileStoreInvariant, PTL DEF Spec, NoLateStart

-----------------------------------------------------------------------------
(* The atomic store once more, with what was proved of it.                 *)
Shown == INSTANCE AdmissionStoreProofs WITH records <- file

LEMMA SameStore == [Atomic!Next]_(Atomic!vars) => [Shown!Next]_(Shown!vars)
  BY Zenon DEF Atomic!vars, Shown!vars, Atomic!Next, Shown!Next, Atomic!Reserve,
     Shown!Reserve, Atomic!Transition, Shown!Transition, Atomic!Expire,
     Shown!Expire, Atomic!Tick, Shown!Tick, Atomic!CanReserve,
     Shown!CanReserve, Atomic!CanTransition, Shown!CanTransition,
     Atomic!Transitioned, Shown!Transitioned, Atomic!Reserved,
     Shown!Reserved, Atomic!CreateAdmission, Shown!CreateAdmission,
     Atomic!ReservationConflict, Shown!ReservationConflict,
     Atomic!ExpireAll, Shown!ExpireAll, Atomic!Put, Shown!Put,
     Atomic!CanAdvance, Shown!CanAdvance, Atomic!Advance, Shown!Advance,
     Atomic!Overdue, Shown!Overdue, Atomic!IsExpired, Shown!IsExpired,
     Atomic!ActiveIds, Shown!ActiveIds, Atomic!Active, Shown!Active,
     Atomic!OnAccount, Shown!OnAccount, Atomic!OnModel, Shown!OnModel,
     Atomic!ScopeConflicts, Shown!ScopeConflicts, Atomic!ScopePathsOverlap,
     Shown!ScopePathsOverlap, Atomic!PathWithin, Shown!PathWithin,
     Atomic!ActiveStates, Shown!ActiveStates, Atomic!ExpirableStates,
     Shown!ExpirableStates, Atomic!AllowedTransitions,
     Shown!AllowedTransitions, Atomic!AdmissionState, Shown!AdmissionState,
     Atomic!Cardinality, Shown!Cardinality

LEMMA SamePromise ==
  Shown!Safety => AgentsApart(file) /\ WithinCapacity(file) /\ ScopesApart(file)
  BY Zenon DEF Shown!Safety, Shown!AgentExclusive, Shown!CapacityRespected,
     Shown!ScopeExclusive, AgentsApart, Shown!AgentsApart, WithinCapacity,
     Shown!WithinCapacity,
     ScopesApart, Shown!ScopesApart, ActiveIds, Shown!ActiveIds, Active,
     Shown!Active, ActiveStates, Shown!ActiveStates, OnAccount,
     Shown!OnAccount, OnModel, Shown!OnModel, ScopeConflicts,
     Shown!ScopeConflicts, ScopePathsOverlap, Shown!ScopePathsOverlap,
     PathWithin, Shown!PathWithin, Cardinality, Shown!Cardinality

(* reserve's checks, across processes: at no moment does the file hold two *)
(* active admissions that share an agent or overlapping scopes, or more    *)
(* than an account or model may carry.  It follows from the refinement and *)
(* from the safety of the atomic store.                                    *)
THEOREM FileStoreSafety ==
  Spec => [](AgentsApart(file) /\ WithinCapacity(file) /\ ScopesApart(file))
<1>1. Shown!Spec => []Shown!Safety
  BY Shown!StoreSafety, BindingAssumption, NumberAssumption, FileStoreAssumption
<1>2. Atomic!Init => Shown!Init
  BY DEF Atomic!Init, Shown!Init
<1>3. ImplementsStore => Shown!Spec
  BY <1>2, SameStore, PTL DEF ImplementsStore, Shown!Spec
<1> QED
  BY <1>1, <1>3, SamePromise, FileStoreImplementsStore, PTL
=============================================================================
