-------------------------- MODULE AdmissionRecord --------------------------
(***************************************************************************)
(* The admission record of the_hive/admission.py: its states, the          *)
(* transition graph, what expiry forbids, and when two records compete for *)
(* the same agent, account, model or repository scope.  Pure definitions:  *)
(* the stores built on them are AdmissionStore and FileAdmissionStore.     *)
(*                                                                         *)
(* Here and in the other modules a definition X_Y that precedes X is X     *)
(* with the fault Y in it.  Nothing uses it; substituting it for X shows   *)
(* that a property of the project would notice the fault.                  *)
(***************************************************************************)
EXTENDS Naturals, Sequences, FiniteSets

CONSTANTS
  Ids,              \* admission ids
  Bindings,         \* what a record is bound to, see BindingAssumption
  TTL,              \* reservation lifetime (1..120 s in create_admission)
  AccountCapacity,  \* active records per (account_key, budget_key)
  ModelCapacity     \* active records per (account_key, budget_key, model_id)

(* A binding is a record.  "account" stands for the pair (account_key,     *)
(* budget_key), which the code only ever uses together; a path is the      *)
(* sequence of its components.                                             *)
ASSUME BindingAssumption ==
  \A b \in Bindings :
    DOMAIN b = {"agent", "account", "model", "repo", "mode", "paths"}

ASSUME NumberAssumption ==
  /\ TTL \in Nat \ {0}
  /\ AccountCapacity \in Nat \ {0}
  /\ ModelCapacity \in Nat \ {0}

AdmissionState ==
  {"PLANNED", "RESERVED", "REVALIDATING", "ADMITTED", "EXECUTING", "PAUSED",
   "FINALIZED", "CONFLICT", "EXPIRED", "DENIED", "EXECUTION_FAILED",
   "COMPENSATING", "FAILED_FINAL", "RECOVERED_AFTER_CRASH", "CANCELLED",
   "COMPENSATED"}

(* The states in which a record holds its agent, capacity and scope.       *)
ActiveStates ==
  {"PLANNED", "RESERVED", "REVALIDATING", "ADMITTED", "EXECUTING", "PAUSED"}

(* The states that time ends.  EXECUTING is not one of them.               *)
ExpirableStates ==
  {"PLANNED", "RESERVED", "REVALIDATING", "ADMITTED", "PAUSED"}

AllowedTransitions ==
  [s \in AdmissionState |->
     CASE s = "PLANNED"      -> {"RESERVED", "EXPIRED", "CANCELLED"}
       [] s = "RESERVED"     -> {"REVALIDATING", "CONFLICT", "EXPIRED", "CANCELLED"}
       [] s = "REVALIDATING" -> {"ADMITTED", "DENIED", "EXPIRED", "CANCELLED"}
       [] s = "ADMITTED"     -> {"EXECUTING", "EXECUTION_FAILED", "EXPIRED", "CANCELLED"}
       [] s = "EXECUTING"    -> {"PAUSED", "FINALIZED", "RECOVERED_AFTER_CRASH",
                                 "EXECUTION_FAILED"}
       [] s = "PAUSED"       -> {"EXECUTING", "EXPIRED", "CANCELLED"}
       [] s = "RECOVERED_AFTER_CRASH" -> {"FINALIZED"}
       [] s \in {"CONFLICT", "EXPIRED", "DENIED", "CANCELLED"} -> {"COMPENSATED"}
       [] s = "EXECUTION_FAILED" -> {"COMPENSATING"}
       [] s = "COMPENSATING" -> {"FAILED_FINAL"}
       [] s \in {"FINALIZED", "COMPENSATED", "FAILED_FINAL"} -> {}]

Record == [binding  : Bindings,
           state    : AdmissionState,
           revision : Nat,
           expires  : Nat]

(* create_admission: a planned record, not stored anywhere yet.            *)
CreateAdmission(b, created) ==
  [binding |-> b, state |-> "PLANNED", revision |-> 0, expires |-> created + TTL]

Active(r) == r.state \in ActiveStates

IsExpired(r, t) == t >= r.expires

(* A record that time has ended but whose state does not say so yet.       *)
Overdue(r, t) == r.state \in ExpirableStates /\ IsExpired(r, t)

(* AdmissionRecord.advance: its guard and its result.                      *)
CanAdvance_IgnoresExpiry(r, target, t) == target \in AllowedTransitions[r.state]

CanAdvance(r, target, t) ==
  /\ target \in AllowedTransitions[r.state]
  /\ Overdue(r, t) => target \in {"EXPIRED", "COMPENSATED"}

Advance(r, target) ==
  [binding |-> r.binding, state |-> target,
   revision |-> r.revision + 1, expires |-> r.expires]

(* A path overlaps another when one is a component-wise prefix of the other. *)
PathWithin(p, q) == Len(p) >= Len(q) /\ SubSeq(p, 1, Len(q)) = q

ScopePathsOverlap(p, q) == PathWithin(p, q) \/ PathWithin(q, p)

ScopeConflicts(b, c) ==
  /\ b.repo = c.repo
  /\ ~ (b.mode = "read" /\ c.mode = "read")
  /\ \E p \in b.paths, q \in c.paths : ScopePathsOverlap(p, q)

(***************************************************************************)
(* What the stores compute over their records, a function on the ids that  *)
(* are stored.                                                             *)
(***************************************************************************)
ActiveIds(recs) == {i \in DOMAIN recs : Active(recs[i])}

OnAccount(recs, account) ==
  {i \in ActiveIds(recs) : recs[i].binding.account = account}

OnModel(recs, account, model) ==
  {i \in OnAccount(recs, account) : recs[i].binding.model = model}

(* _reservation_conflict, its four answers as one predicate.               *)
ReservationConflict_OneTooMany(recs, b) ==
  \/ \E i \in ActiveIds(recs) : recs[i].binding.agent = b.agent
  \/ Cardinality(OnAccount(recs, b.account)) > AccountCapacity
  \/ Cardinality(OnModel(recs, b.account, b.model)) > ModelCapacity
  \/ \E i \in ActiveIds(recs) : ScopeConflicts(recs[i].binding, b)

ReservationConflict(recs, b) ==
  \/ \E i \in ActiveIds(recs) : recs[i].binding.agent = b.agent
  \/ Cardinality(OnAccount(recs, b.account)) >= AccountCapacity
  \/ Cardinality(OnModel(recs, b.account, b.model)) >= ModelCapacity
  \/ \E i \in ActiveIds(recs) : ScopeConflicts(recs[i].binding, b)

(* No two active records compete: the store's promise, per resource.       *)
AgentsApart(recs) ==
  \A i, j \in ActiveIds(recs) :
    i # j => recs[i].binding.agent # recs[j].binding.agent

WithinCapacity(recs) ==
  \A b \in Bindings :
    /\ Cardinality(OnAccount(recs, b.account)) <= AccountCapacity
    /\ Cardinality(OnModel(recs, b.account, b.model)) <= ModelCapacity

ScopesApart(recs) ==
  \A i, j \in ActiveIds(recs) :
    i # j => ~ ScopeConflicts(recs[i].binding, recs[j].binding)

(* _expire_locked: every overdue record becomes EXPIRED.                   *)
ExpireAll(recs, t) ==
  [i \in DOMAIN recs |->
     IF Overdue(recs[i], t) THEN Advance(recs[i], "EXPIRED") ELSE recs[i]]

Put(recs, id, r) ==
  [i \in DOMAIN recs \cup {id} |-> IF i = id THEN r ELSE recs[i]]

(* The critical sections of reserve and transition as guard and result.    *)
CanReserve_AnyId(recs, id, r, t) ==
  /\ ~ ReservationConflict(ExpireAll(recs, t), r.binding)
  /\ CanAdvance(r, "RESERVED", t)

CanReserve(recs, id, r, t) ==
  /\ id \notin DOMAIN recs
  /\ ~ ReservationConflict(ExpireAll(recs, t), r.binding)
  /\ CanAdvance(r, "RESERVED", t)

Reserved(recs, id, r, t) ==
  Put(ExpireAll(recs, t), id, Advance(r, "RESERVED"))

CanTransition(recs, id, target, expected, t) ==
  /\ id \in DOMAIN recs
  /\ recs[id].revision = expected
  /\ CanAdvance(recs[id], target, t)

Transitioned(recs, id, target) ==
  [recs EXCEPT ![id] = Advance(@, target)]
=============================================================================
