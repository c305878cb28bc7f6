--------------------------- MODULE AdmissionStore ---------------------------
(***************************************************************************)
(* AdmissionStore of the_hive/admission.py: the promise of the reservation *)
(* store.  Every operation is one atomic critical section; a call that is  *)
(* refused changes nothing, apart from the expiry sweep that reserve does  *)
(* first (action Expire).  FileAdmissionStore implements this              *)
(* specification across processes, SelectionService drives it.             *)
(***************************************************************************)
EXTENDS AdmissionRecord

CONSTANTS
  MaxNow,           \* bound of the clock
  MaxRevision       \* bound of the revision a caller may present: 10**12 in
                    \* the code, small here because pausing and resuming is
                    \* the one cycle of the transition graph

ASSUME BoundAssumption == MaxNow \in Nat /\ MaxRevision \in Nat

VARIABLES
  records,          \* _records: a function on the stored admission ids
  now               \* the wall clock

vars == <<records, now>>

Init == records = <<>> /\ now = 0

(* Every operation takes the time t its caller read before the call: the   *)
(* caller may have waited for the lock since.                              *)

(* reserve of a record that was planned at some earlier time.              *)
Reserve(id, b, created, t) ==
  LET planned == CreateAdmission(b, created) IN
  /\ CanReserve(records, id, planned, t)
  /\ records' = Reserved(records, id, planned, t)
  /\ UNCHANGED now

(* transition, the compare-and-set that begin_revalidation,                *)
(* complete_revalidation, begin_execution, mark_execution_failed,          *)
(* begin_compensation, compensate, finish_compensation, cancel and         *)
(* recover_after_crash call, each with a fixed target, and finalize after  *)
(* its idempotence check.                                                  *)
Transition(id, target, expected, t) ==
  /\ CanTransition(records, id, target, expected, t)
  /\ records' = Transitioned(records, id, target)
  /\ UNCHANGED now

(* expire and prune_expired, and the sweep of a reserve that is refused.   *)
Expire(t) == records' = ExpireAll(records, t) /\ UNCHANGED now

Tick == now < MaxNow /\ now' = now + 1 /\ UNCHANGED records

Next ==
  \/ \E t \in 0..now :
       \/ \E id \in Ids, b \in Bindings, created \in 0..t : Reserve(id, b, created, t)
       \/ \E id \in Ids, target \in AdmissionState, expected \in 0..MaxRevision :
            Transition(id, target, expected, t)
       \/ Expire(t)
  \/ Tick

Spec == Init /\ [][Next]_vars

-----------------------------------------------------------------------------
(* The store maps admission ids to well-formed records; the clock is a     *)
(* natural number.                                                         *)
TypeOK ==
  /\ DOMAIN records \subseteq Ids
  /\ IsFiniteSet(DOMAIN records)
  /\ \A i \in DOMAIN records : records[i] \in Record
  /\ now \in 0..MaxNow

(* reserve's agent_conflict check, over any history of transitions and     *)
(* expiries: two active admissions never share an agent.                   *)
AgentExclusive == AgentsApart(records)

(* reserve's capacity checks: no account (with its budget) and no model of *)
(* an account carries more active admissions than its capacity.            *)
CapacityRespected == WithinCapacity(records)

(* reserve's scope_conflict check: two active admissions never write, or   *)
(* read and write, overlapping paths of one repository.                    *)
ScopeExclusive == ScopesApart(records)

(* What reserve buys stays bought: over every order of reservations,       *)
(* transitions and expiries the active admissions share no agent, exceed   *)
(* no capacity and hold no overlapping scopes.                             *)
Safety == TypeOK /\ AgentExclusive /\ CapacityRespected /\ ScopeExclusive

(* What one step may do to a record that was stored before it.             *)
KeptAndNotReactivated ==
  \A i \in DOMAIN records :
    /\ i \in DOMAIN records'
    /\ Active(records'[i]) => Active(records[i])
    /\ records'[i].binding = records[i].binding
    /\ records'[i].expires = records[i].expires
    /\ records'[i].revision >= records[i].revision
    /\ records'[i].revision = records[i].revision => records'[i] = records[i]

(* advance: a record that gave up its resources never holds them again,    *)
(* no record is ever dropped, and its binding and deadline are fixed.      *)
NeverReactivated == [][KeptAndNotReactivated]_vars
=============================================================================
