------------------------ MODULE AdmissionStoreProofs ------------------------
(***************************************************************************)
(* The safety of AdmissionStore for any set of ids, any bindings and any   *)
(* capacities.  Two facts about sets of records carry the argument:        *)
(*   - letting records go (transition, expire) keeps the active ones apart *)
(*     (LessActive);                                                       *)
(*   - adding one record that reserve found no conflict for keeps them     *)
(*     apart (OneMore).                                                    *)
(***************************************************************************)
EXTENDS AdmissionStore, FiniteSetTheorems, TLAPS

(* A set of stored records: what TypeOK says of the variable.              *)
Stored(recs) ==
  /\ DOMAIN recs \subseteq Ids
  /\ IsFiniteSet(DOMAIN recs)
  /\ \A i \in DOMAIN recs : recs[i] \in Record

Apart(recs) == AgentsApart(recs) /\ WithinCapacity(recs) /\ ScopesApart(recs)

(* "after" holds the same records as "before", none of them newly active.  *)
Released(before, after) ==
  /\ DOMAIN after = DOMAIN before
  /\ \A i \in DOMAIN before :
       /\ after[i].binding = before[i].binding
       /\ Active(after[i]) => Active(before[i])

-----------------------------------------------------------------------------
(* Every allowed transition leads to a state, and only an active state     *)
(* leads to an active one.                                                 *)
LEMMA TransitionGraph ==
  ASSUME NEW s \in AdmissionState, NEW target \in AllowedTransitions[s]
  PROVE  /\ target \in AdmissionState
         /\ target \in ActiveStates => s \in ActiveStates
  BY DEF AllowedTransitions, AdmissionState, ActiveStates

(* An advanced record is a record with the same binding and deadline.      *)
LEMMA AdvanceRecord ==
  ASSUME NEW r \in Record, NEW target \in AdmissionState
  PROVE  /\ Advance(r, target) \in Record
         /\ Advance(r, target).binding = r.binding
         /\ Advance(r, target).expires = r.expires
         /\ Advance(r, target).state = target
         /\ Advance(r, target).revision = r.revision + 1
  BY DEF Advance, Record

(* The active ids of a finite set of records are finite sets.              *)
LEMMA ActiveFinite ==
  ASSUME NEW recs, IsFiniteSet(DOMAIN recs), NEW a, NEW m
  PROVE  /\ IsFiniteSet(OnAccount(recs, a))
         /\ IsFiniteSet(OnModel(recs, a, m))
<1>1. OnAccount(recs, a) \subseteq DOMAIN recs
  BY DEF OnAccount, ActiveIds
<1>2. OnModel(recs, a, m) \subseteq DOMAIN recs
  BY <1>1 DEF OnModel
<1> QED
  BY <1>1, <1>2, FS_Subset

(* Records that are let go, or merely advanced among active states, keep   *)
(* the remaining active ones apart.                                        *)
LEMMA LessActive ==
  ASSUME NEW before, NEW after, Stored(before), Released(before, after),
         Apart(before)
  PROVE  Apart(after)
<1>1. ActiveIds(after) \subseteq ActiveIds(before)
  BY DEF Released, ActiveIds
<1>2. \A i \in ActiveIds(after) : after[i].binding = before[i].binding
  BY DEF Released, ActiveIds
<1>3. AgentsApart(after)
  BY <1>1, <1>2 DEF Apart, AgentsApart
<1>4. ScopesApart(after)
  BY <1>1, <1>2 DEF Apart, ScopesApart
<1>5. WithinCapacity(after)
  <2> SUFFICES ASSUME NEW b \in Bindings
               PROVE  /\ Cardinality(OnAccount(after, b.account)) <= AccountCapacity
                      /\ Cardinality(OnModel(after, b.account, b.model)) <= ModelCapacity
    BY DEF WithinCapacity
  <2> DEFINE A0 == OnAccount(before, b.account)
             A1 == OnAccount(after, b.account)
             M0 == OnModel(before, b.account, b.model)
             M1 == OnModel(after, b.account, b.model)
  <2>1. A1 \subseteq A0
    BY <1>1, <1>2 DEF OnAccount
  <2>2. M1 \subseteq M0
    BY <1>1, <1>2, <2>1 DEF OnModel, OnAccount
  <2>3. IsFiniteSet(A0) /\ IsFiniteSet(M0)
    BY ActiveFinite DEF Stored
  <2>4. /\ Cardinality(A0) <= AccountCapacity
        /\ Cardinality(M0) <= ModelCapacity
    BY DEF Apart, WithinCapacity
  <2>5. /\ Cardinality(A1) \in Nat /\ Cardinality(A0) \in Nat
        /\ Cardinality(A1) <= Cardinality(A0)
    BY <2>1, <2>3, FS_Subset, FS_CardinalityType
  <2>6. /\ Cardinality(M1) \in Nat /\ Cardinality(M0) \in Nat
        /\ Cardinality(M1) <= Cardinality(M0)
    BY <2>2, <2>3, FS_Subset, FS_CardinalityType
  <2> QED
    BY <2>4, <2>5, <2>6, NumberAssumption
<1> QED
  BY <1>3, <1>4, <1>5 DEF Apart

(* One more record in a counted set keeps the count within a bound that    *)
(* the old count was strictly below.                                       *)
LEMMA CountOneMore ==
  ASSUME NEW S, IsFiniteSet(S), NEW x, NEW bound \in Nat,
         ~ (Cardinality(S) >= bound)
  PROVE  Cardinality(S \cup {x}) <= bound
<1>1. Cardinality(S) \in Nat
  BY FS_CardinalityType
<1>2. CASE x \in S
  <2>1. S \cup {x} = S
    BY <1>2
  <2> QED
    BY <2>1, <1>1
<1>3. CASE x \notin S
  <2>1. Cardinality(S \cup {x}) = Cardinality(S) + 1
    BY <1>3, FS_AddElement
  <2> QED
    BY <2>1, <1>1
<1> QED
  BY <1>2, <1>3

(* A record that reserve found no conflict for may join the active ones.   *)
LEMMA OneMore ==
  ASSUME NEW recs, Stored(recs), Apart(recs),
         NEW id \in Ids, id \notin DOMAIN recs,
         NEW r \in Record, ~ ReservationConflict(recs, r.binding)
  PROVE  Stored(Put(recs, id, r)) /\ Apart(Put(recs, id, r))
<1> DEFINE new == Put(recs, id, r)
<1>1. /\ DOMAIN new = DOMAIN recs \cup {id}
      /\ new[id] = r
      /\ \A i \in DOMAIN recs : new[i] = recs[i]
  BY DEF Put
<1>2. Stored(new)
  <2>1. IsFiniteSet(DOMAIN new)
    BY <1>1, FS_AddElement DEF Stored
  <2> QED
    BY <1>1, <2>1 DEF Stored
<1> HIDE DEF new
<1>3. /\ ActiveIds(recs) \subseteq DOMAIN recs
      /\ ActiveIds(new) \subseteq ActiveIds(recs) \cup {id}
  BY <1>1 DEF ActiveIds
<1>4. /\ \A i \in ActiveIds(recs) : /\ recs[i].binding.agent # r.binding.agent
                                    /\ ~ ScopeConflicts(recs[i].binding, r.binding)
      /\ ~ (Cardinality(OnAccount(recs, r.binding.account)) >= AccountCapacity)
      /\ ~ (Cardinality(OnModel(recs, r.binding.account, r.binding.model))
              >= ModelCapacity)
  BY DEF ReservationConflict
<1>5. AgentsApart(new)
  BY <1>1, <1>3, <1>4 DEF Apart, AgentsApart
<1>6. ScopesApart(new)
  <2>1. \A b, c : ScopeConflicts(b, c) => ScopeConflicts(c, b)
    BY DEF ScopeConflicts, ScopePathsOverlap
  <2> QED
    BY <1>1, <1>3, <1>4, <2>1 DEF Apart, ScopesApart
<1>7. WithinCapacity(new)
  <2> SUFFICES ASSUME NEW b \in Bindings
               PROVE  /\ Cardinality(OnAccount(new, b.account)) <= AccountCapacity
                      /\ Cardinality(OnModel(new, b.account, b.model)) <= ModelCapacity
    BY DEF WithinCapacity
  <2> DEFINE A0 == OnAccount(recs, b.account)
             A1 == OnAccount(new, b.account)
             M0 == OnModel(recs, b.account, b.model)
             M1 == OnModel(new, b.account, b.model)
  <2>0. /\ IsFiniteSet(A0) /\ IsFiniteSet(M0)
        /\ Cardinality(A0) <= AccountCapacity
        /\ Cardinality(M0) <= ModelCapacity
    BY ActiveFinite DEF Stored, Apart, WithinCapacity
  <2>1. Cardinality(A1) <= AccountCapacity
    <3>1. CASE r.binding.account = b.account
      <4>1. A1 \subseteq A0 \cup {id}
        BY <1>1, <1>3 DEF OnAccount
      <4>2. Cardinality(A0 \cup {id}) <= AccountCapacity
        BY <2>0, <1>4, <3>1, CountOneMore, NumberAssumption
      <4>3. IsFiniteSet(A0 \cup {id})
        BY <2>0, FS_AddElement
      <4>4. /\ Cardinality(A1) \in Nat /\ Cardinality(A0 \cup {id}) \in Nat
            /\ Cardinality(A1) <= Cardinality(A0 \cup {id})
        BY <4>1, <4>3, FS_Subset, FS_CardinalityType
      <4> QED
        BY <4>2, <4>4, NumberAssumption
    <3>2. CASE r.binding.account # b.account
      <4>1. A1 \subseteq A0
        BY <1>1, <1>3, <3>2 DEF OnAccount
      <4>2. /\ Cardinality(A1) \in Nat /\ Cardinality(A0) \in Nat
            /\ Cardinality(A1) <= Cardinality(A0)
        BY <4>1, <2>0, FS_Subset, FS_CardinalityType
      <4> QED
        BY <2>0, <4>2, NumberAssumption
    <3> QED
      BY <3>1, <3>2
  <2>2. Cardinality(M1) <= ModelCapacity
    <3>1. CASE r.binding.account = b.account /\ r.binding.model = b.model
      <4>1. M1 \subseteq M0 \cup {id}
        BY <1>1, <1>3 DEF OnModel, OnAccount
      <4>2. Cardinality(M0 \cup {id}) <= ModelCapacity
        BY <2>0, <1>4, <3>1, CountOneMore, NumberAssumption
      <4>3. IsFiniteSet(M0 \cup {id})
        BY <2>0, FS_AddElement
      <4>4. /\ Cardinality(M1) \in Nat /\ Cardinality(M0 \cup {id}) \in Nat
            /\ Cardinality(M1) <= Cardinality(M0 \cup {id})
        BY <4>1, <4>3, FS_Subset, FS_CardinalityType
      <4> QED
        BY <4>2, <4>4, NumberAssumption
    <3>2. CASE ~ (r.binding.account = b.account /\ r.binding.model = b.model)
      <4>1. M1 \subseteq M0
        BY <1>1, <1>3, <3>2 DEF OnModel, OnAccount
      <4>2. /\ Cardinality(M1) \in Nat /\ Cardinality(M0) \in Nat
            /\ Cardinality(M1) <= Cardinality(M0)
        BY <4>1, <2>0, FS_Subset, FS_CardinalityType
      <4> QED
        BY <2>0, <4>2, NumberAssumption
    <3> QED
      BY <3>1, <3>2
  <2> QED
    BY <2>1, <2>2
<1> QED
  BY <1>2, <1>5, <1>6, <1>7 DEF Apart, new

(* The expiry sweep keeps the records and activates none.                  *)
LEMMA SweepReleases ==
  ASSUME NEW recs, Stored(recs), NEW t
  PROVE  /\ Stored(ExpireAll(recs, t))
         /\ Released(recs, ExpireAll(recs, t))
         /\ \A i \in DOMAIN recs :
              /\ ExpireAll(recs, t)[i].expires = recs[i].expires
              /\ ExpireAll(recs, t)[i].revision >= recs[i].revision
              /\ ExpireAll(recs, t)[i].revision = recs[i].revision
                   => ExpireAll(recs, t)[i] = recs[i]
<1> DEFINE swept == ExpireAll(recs, t)
<1>1. DOMAIN swept = DOMAIN recs
  BY DEF ExpireAll
<1>2. ASSUME NEW i \in DOMAIN recs
      PROVE  /\ swept[i] \in Record
             /\ swept[i].binding = recs[i].binding
             /\ Active(swept[i]) => Active(recs[i])
             /\ swept[i].expires = recs[i].expires
             /\ swept[i].revision >= recs[i].revision
             /\ swept[i].revision = recs[i].revision => swept[i] = recs[i]
  <2>1. recs[i] \in Record /\ recs[i].revision \in Nat
    BY DEF Stored, Record
  <2>2. CASE Overdue(recs[i], t)
    <3>1. swept[i] = Advance(recs[i], "EXPIRED")
      BY <2>2 DEF ExpireAll
    <3>2. "EXPIRED" \in AdmissionState /\ "EXPIRED" \notin ActiveStates
      BY DEF AdmissionState, ActiveStates
    <3> QED
      BY <2>1, <3>1, <3>2, AdvanceRecord DEF Active
  <2>3. CASE ~ Overdue(recs[i], t)
    BY <2>1, <2>3 DEF ExpireAll
  <2> QED
    BY <2>2, <2>3
<1> QED
  BY <1>1, <1>2 DEF Stored, Released

(* A transition keeps the records, activates none, and moves one revision  *)
(* on.                                                                     *)
LEMMA TransitionReleases ==
  ASSUME NEW recs, Stored(recs), NEW id, NEW target, NEW expected, NEW t,
         CanTransition(recs, id, target, expected, t)
  PROVE  /\ Stored(Transitioned(recs, id, target))
         /\ Released(recs, Transitioned(recs, id, target))
         /\ \A i \in DOMAIN recs :
              /\ Transitioned(recs, id, target)[i].expires = recs[i].expires
              /\ Transitioned(recs, id, target)[i].revision >= recs[i].revision
              /\ Transitioned(recs, id, target)[i].revision = recs[i].revision
                   => Transitioned(recs, id, target)[i] = recs[i]
<1> DEFINE next == Transitioned(recs, id, target)
<1>1. id \in DOMAIN recs /\ recs[id] \in Record
  BY DEF CanTransition, Stored
<1>2. target \in AllowedTransitions[recs[id].state] /\ recs[id].state \in AdmissionState
  BY <1>1 DEF CanTransition, CanAdvance, Record
<1>3. /\ target \in AdmissionState
      /\ target \in ActiveStates => recs[id].state \in ActiveStates
  BY <1>2, TransitionGraph
<1>4. /\ DOMAIN next = DOMAIN recs
      /\ next[id] = Advance(recs[id], target)
      /\ \A i \in DOMAIN recs : i # id => next[i] = recs[i]
  BY <1>1 DEF Transitioned
<1>5. /\ next[id] \in Record
      /\ next[id].binding = recs[id].binding
      /\ next[id].expires = recs[id].expires
      /\ next[id].revision = recs[id].revision + 1
      /\ Active(next[id]) => Active(recs[id])
  BY <1>1, <1>3, <1>4, AdvanceRecord DEF Active
<1>6. recs[id].revision \in Nat /\ \A i \in DOMAIN recs : recs[i].revision \in Nat
  BY <1>1 DEF Stored, Record
<1> HIDE DEF next
<1>7. Stored(next) /\ Released(recs, next)
  BY <1>4, <1>5 DEF Stored, Released
<1>8. ASSUME NEW i \in DOMAIN recs
      PROVE  /\ next[i].expires = recs[i].expires
             /\ next[i].revision >= recs[i].revision
             /\ next[i].revision = recs[i].revision => next[i] = recs[i]
  BY <1>4, <1>5, <1>6
<1> QED
  BY <1>7, <1>8 DEF next

-----------------------------------------------------------------------------
(* The inductive invariant is Safety itself: that an inactive record never *)
(* becomes active again is a fact about the transition graph, not about    *)
(* the state.                                                              *)
LEMMA SafetyForm == Safety <=> Stored(records) /\ Apart(records) /\ now \in 0..MaxNow
  BY DEF Safety, TypeOK, Stored, Apart, AgentExclusive, CapacityRespected,
         ScopeExclusive

LEMMA InitSafety == Init => Safety
<1> SUFFICES ASSUME Init PROVE Stored(records) /\ Apart(records) /\ now \in 0..MaxNow
  BY SafetyForm
<1>1. DOMAIN records = {}
  BY DEF Init
<1>2. Stored(records)
  BY <1>1, FS_EmptySet DEF Stored
<1>3. ActiveIds(records) = {}
  BY <1>1 DEF ActiveIds
<1>4. \A a, m : OnAccount(records, a) = {} /\ OnModel(records, a, m) = {}
  BY <1>3 DEF OnAccount, OnModel
<1>5. Apart(records)
  BY <1>3, <1>4, FS_EmptySet, NumberAssumption
     DEF Apart, AgentsApart, ScopesApart, WithinCapacity
<1> QED
  BY <1>2, <1>5, BoundAssumption DEF Init

LEMMA ReserveSafety ==
  ASSUME Safety, NEW id \in Ids, NEW b \in Bindings, NEW created \in Nat,
         NEW t \in Nat, Reserve(id, b, created, t)
  PROVE  Safety'
<1> DEFINE planned == CreateAdmission(b, created)
           swept == ExpireAll(records, t)
           new == Advance(planned, "RESERVED")
<1>0. Stored(records) /\ Apart(records) /\ now \in 0..MaxNow
  BY SafetyForm
<1>1. /\ id \notin DOMAIN records
      /\ ~ ReservationConflict(swept, planned.binding)
      /\ records' = Put(swept, id, new)
      /\ now' = now
  BY DEF Reserve, CanReserve, Reserved
<1>2. Stored(swept) /\ Apart(swept) /\ DOMAIN swept = DOMAIN records
  BY <1>0, SweepReleases, LessActive DEF Released
<1>3. planned \in Record
  BY NumberAssumption DEF CreateAdmission, Record, AdmissionState
<1>4. new \in Record /\ new.binding = planned.binding
  BY <1>3, AdvanceRecord DEF AdmissionState
<1> HIDE DEF planned, swept, new
<1>5. Stored(Put(swept, id, new)) /\ Apart(Put(swept, id, new))
  BY <1>1, <1>2, <1>4, OneMore
<1>6. Stored(records)' /\ Apart(records)' /\ (now \in 0..MaxNow)'
  BY <1>0, <1>1, <1>5 DEF Stored, Apart, AgentsApart, ScopesApart, WithinCapacity,
     ActiveIds, OnAccount, OnModel
<1> QED
  BY <1>6, SafetyForm DEF Safety, TypeOK, Stored, Apart, AgentExclusive,
     CapacityRespected, ScopeExclusive

(* A step that only lets records go.                                       *)
LEMMA ReleaseSafety ==
  ASSUME Safety, Stored(records'), Released(records, records'), now' \in 0..MaxNow
  PROVE  Safety'
<1>1. Apart(records')
  BY SafetyForm, LessActive
<1> QED
  BY <1>1 DEF Safety, TypeOK, Stored, Apart, AgentExclusive, CapacityRespected,
     ScopeExclusive, AgentsApart, ScopesApart, WithinCapacity

(* A step of the store that is not a reservation.                          *)
LEMMA OtherSteps ==
  ASSUME Safety,
         \/ \E id \in Ids, target \in AdmissionState, expected \in Nat, t \in Nat :
              Transition(id, target, expected, t)
         \/ \E t \in Nat : Expire(t)
         \/ Tick
         \/ UNCHANGED vars
  PROVE  /\ Stored(records') /\ Released(records, records') /\ now' \in 0..MaxNow
         /\ \A i \in DOMAIN records :
              /\ records'[i].expires = records[i].expires
              /\ records'[i].revision >= records[i].revision
              /\ records'[i].revision = records[i].revision
                   => records'[i] = records[i]
<1>0. Stored(records) /\ now \in 0..MaxNow
  BY SafetyForm
<1>1. ASSUME NEW id \in Ids, NEW target \in AdmissionState, NEW expected \in Nat,
             NEW t \in Nat, Transition(id, target, expected, t)
      PROVE  /\ Stored(records') /\ Released(records, records') /\ now' \in 0..MaxNow
             /\ \A i \in DOMAIN records :
                  /\ records'[i].expires = records[i].expires
                  /\ records'[i].revision >= records[i].revision
                  /\ records'[i].revision = records[i].revision
                       => records'[i] = records[i]
  <2>1. /\ CanTransition(records, id, target, expected, t)
        /\ records' = Transitioned(records, id, target)
        /\ now' = now
    BY <1>1 DEF Transition
  <2> QED
    BY <1>0, <2>1, TransitionReleases
<1>2. ASSUME NEW t \in Nat, Expire(t)
      PROVE  /\ Stored(records') /\ Released(records, records') /\ now' \in 0..MaxNow
             /\ \A i \in DOMAIN records :
                  /\ records'[i].expires = records[i].expires
                  /\ records'[i].revision >= records[i].revision
                  /\ records'[i].revision = records[i].revision
                       => records'[i] = records[i]
  <2>1. records' = ExpireAll(records, t) /\ now' = now
    BY <1>2 DEF Expire
  <2> QED
    BY <1>0, <2>1, SweepReleases
<1>3. CASE Tick \/ UNCHANGED vars
  <2>1. records' = records /\ now' \in 0..MaxNow
    BY <1>0, <1>3, BoundAssumption DEF Tick, vars
  <2>2. \A i \in DOMAIN records : records[i].revision \in Nat
    BY <1>0 DEF Stored, Record
  <2> QED
    BY <1>0, <2>1, <2>2 DEF Released, Stored
<1> QED
  BY <1>1, <1>2, <1>3

LEMMA NextSafety ==
  ASSUME Safety, [Next]_vars
  PROVE  Safety'
<1>1. CASE \E t \in 0..now, id \in Ids, b \in Bindings, created \in Nat :
             Reserve(id, b, created, t)
  <2>1. now \in Nat
    BY SafetyForm, BoundAssumption
  <2> QED
    BY <1>1, <2>1, ReserveSafety
<1>2. CASE \/ \E id \in Ids, target \in AdmissionState, expected \in Nat, t \in Nat :
                Transition(id, target, expected, t)
           \/ \E t \in Nat : Expire(t)
           \/ Tick
           \/ UNCHANGED vars
  BY <1>2, OtherSteps, ReleaseSafety
<1> QED
  BY <1>1, <1>2, BoundAssumption DEF Next

(* AdmissionStore keeps its promise in every reachable state, whatever the *)
(* ids, bindings and capacities: records stay well formed, and two active  *)
(* admissions never share an agent, exceed an account's or model's         *)
(* capacity, or hold overlapping scopes.                                   *)
THEOREM StoreSafety == Spec => []Safety
<1>1. Init => Safety
  BY InitSafety
<1>2. Safety /\ [Next]_vars => Safety'
  BY NextSafety
<1> QED
  BY <1>1, <1>2, PTL DEF Spec

(* reserve's agent check: no agent works for two active admissions.        *)
THEOREM StoreAgentExclusive == Spec => []AgentExclusive
<1>1. Safety => AgentExclusive
  BY DEF Safety
<1> QED
  BY <1>1, StoreSafety, PTL

(* reserve's capacity checks hold over any history.                        *)
THEOREM StoreCapacityRespected == Spec => []CapacityRespected
<1>1. Safety => CapacityRespected
  BY DEF Safety
<1> QED
  BY <1>1, StoreSafety, PTL

(* reserve's scope check: no conflicting scopes are active together.       *)
THEOREM StoreScopeExclusive == Spec => []ScopeExclusive
<1>1. Safety => ScopeExclusive
  BY DEF Safety
<1> QED
  BY <1>1, StoreSafety, PTL

-----------------------------------------------------------------------------
(* reserve adds a record beside the swept ones.                            *)
LEMMA ReserveKeeps ==
  ASSUME Safety, NEW id \in Ids, NEW b \in Bindings, NEW created \in Nat,
         NEW t \in Nat, Reserve(id, b, created, t)
  PROVE  KeptAndNotReactivated
<1> DEFINE swept == ExpireAll(records, t)
<1>0. Stored(records)
  BY SafetyForm
<1>1. PICK r : records' = Put(swept, id, r) /\ id \notin DOMAIN records
  BY DEF Reserve, CanReserve, Reserved
<1>2. /\ DOMAIN swept = DOMAIN records
      /\ \A i \in DOMAIN records :
           /\ swept[i].binding = records[i].binding
           /\ Active(swept[i]) => Active(records[i])
           /\ swept[i].expires = records[i].expires
           /\ swept[i].revision >= records[i].revision
           /\ swept[i].revision = records[i].revision => swept[i] = records[i]
  BY <1>0, SweepReleases DEF Released
<1> HIDE DEF swept
<1>3. \A i \in DOMAIN records : i \in DOMAIN records' /\ records'[i] = swept[i]
  BY <1>1, <1>2 DEF Put
<1> QED
  BY <1>2, <1>3 DEF KeptAndNotReactivated

(* advance and the sweep: an admission that gave up its resources never    *)
(* holds them again, and a record changes only with its revision.          *)
THEOREM StoreNeverReactivated == Spec => NeverReactivated
<1>1. ASSUME Safety, [Next]_vars PROVE KeptAndNotReactivated \/ UNCHANGED vars
  <2>1. CASE \E t \in 0..now, id \in Ids, b \in Bindings, created \in Nat :
               Reserve(id, b, created, t)
    <3>1. now \in Nat
      BY <1>1, SafetyForm, BoundAssumption
    <3> QED
      BY <1>1, <2>1, <3>1, ReserveKeeps
  <2>2. CASE \/ \E id \in Ids, target \in AdmissionState, expected \in Nat, t \in Nat :
                  Transition(id, target, expected, t)
             \/ \E t \in Nat : Expire(t)
             \/ Tick
             \/ UNCHANGED vars
    <3>1. /\ Released(records, records')
          /\ \A i \in DOMAIN records :
               /\ records'[i].expires = records[i].expires
               /\ records'[i].revision >= records[i].revision
               /\ records'[i].revision = records[i].revision
                    => records'[i] = records[i]
      BY <1>1, <2>2, OtherSteps
    <3> QED
      BY <3>1 DEF Released, KeptAndNotReactivated
  <2> QED
    BY <1>1, <2>1, <2>2, BoundAssumption DEF Next
<1>2. Safety /\ [Next]_vars => [KeptAndNotReactivated]_vars
  BY <1>1
<1> QED
  BY <1>2, StoreSafety, PTL DEF Spec, NeverReactivated
=============================================================================
