------------------------- MODULE SpawnLedgerProofs --------------------------
(***************************************************************************)
(* The invariants and the action properties of the spawn ledger, for any   *)
(* set of requests, leads, leases and capsules.  Every operation either    *)
(* moves one ticket (TicketMoves) or adds one (TicketAdded); the           *)
(* properties follow from what the two have in common.  Concurrent callers *)
(* implement this ledger, for any number of them: a snapshot whose         *)
(* revision is still the ledger's is the ledger.                           *)
(*                                                                         *)
(* One attempt to bring a worker to its start, under any number of faults, *)
(* crashes, recoveries and changes of the registry by others, comes last.  *)
(* PreInv says for each call of the coordinator what is in the journal, in *)
(* the registry, and of the home and the lease, whenever the call is the   *)
(* next.                                                                   *)
(***************************************************************************)
EXTENDS SpawnLedgerClients, PreStart, TLAPS

-----------------------------------------------------------------------------
(* The phase graph *)

Unleased == {"REQUESTED", "CLAIMED", "OFFER_VALIDATED"}
Ended == {"CHECKPOINTED", "STOPPED", "ROLLED_BACK"}
Behind == {"CHECKPOINTED", "STOPPED", "QUARANTINED"}

(* Nothing follows a final phase.                                          *)
LEMMA FinalPhasesAreFinal == \A p \in FinalPhase : NextPhases(p) = {}
  BY DEF FinalPhase, NextPhases, PreStartPhase

(* Nothing leads back before the lease, and a checkpointed worker is only  *)
(* stopped or quarantined.                                                 *)
LEMMA PhaseOrder ==
  ASSUME NEW p \in SpawnPhase, NEW q \in NextPhases(p)
  PROVE  /\ q \in SpawnPhase
         /\ q \in Unleased => p \in Unleased
         /\ p \in Behind => q \in Behind
  BY DEF SpawnPhase, NextPhases, PreStartPhase, Unleased, Behind

(* A compensation status moves to a status.                                *)
LEMMA StatusOrder ==
  ASSUME NEW a \in CompensationStatus, NEW b \in NextStatuses(a)
  PROVE  b \in CompensationStatus
  BY DEF CompensationStatus, NextStatuses

-----------------------------------------------------------------------------
(* What the operations have in common *)

(* append_phase's lease checks: a ticket has no lease before it is         *)
(* LEASE_RESERVED.                                                         *)
LeaseComesLater ==
  \A r \in DOMAIN state.tickets :
    state.tickets[r].phase \in Unleased => state.tickets[r].lease = None

(* The ticket r becomes u, one revision later.                             *)
TicketMoves(r, t, u) ==
  /\ r \in DOMAIN state.tickets
  /\ t = state.tickets[r]
  /\ state'.tickets = Put(state.tickets, r, u)
  /\ state'.consumed = state.consumed
  /\ u \in Ticket
  /\ u.revision = t.revision + 1
  /\ u.fence = t.fence /\ u.lead = t.lead /\ u.durable = t.durable /\ u.source = t.source
  /\ t.lease # None => u.lease = t.lease
  /\ u.phase \in Unleased => t.phase \in Unleased /\ u.lease = t.lease
  /\ u.capsule # t.capsule => t.capsule = None /\ CapsuleUnused(state, u.capsule)
  /\ t.phase \in FinalPhase => u.phase = t.phase
  /\ t.phase \in Behind => u.phase \in Behind
  /\ u.phase # t.phase /\ u.phase \in Ended => (u.durable => u.capsule # None)

(* What may happen to the other tables when the ticket r becomes u.        *)
TablesFollow(r, t, u) ==
  /\ state'.revision \in Nat
  /\ state.used \subseteq state'.used /\ state'.used \subseteq Reference
  /\ state.intents \subseteq state'.intents /\ state'.intents \subseteq state.intents \cup {r}
  /\ \/ /\ state'.journals = state.journals
        /\ u.phase # t.phase /\ r \in DOMAIN state.journals =>
             /\ u.phase = "ROLLED_BACK" =>
                  state.journals[r].origin = "PRE_A3" /\ state.journals[r].status = "COMPENSATED"
             /\ u.phase = "QUARANTINED" => state.journals[r].status = "QUARANTINED"
     \/ /\ u.phase = t.phase
        /\ \E j \in Journal :
             /\ state'.journals = Put(state.journals, r, j)
             /\ j.fence = u.fence /\ j.revision = u.revision
             /\ r \in DOMAIN state.journals => j.origin = state.journals[r].origin

(* The ticket u is added for the request q, resuming from u.source if that *)
(* is not None.                                                            *)
TicketAdded(q, u) ==
  /\ q \in Requests /\ q \notin DOMAIN state.tickets
  /\ state'.tickets = Put(state.tickets, q, u)
  /\ u \in Ticket
  /\ u.phase = "REQUESTED" /\ u.lease = None /\ u.capsule = None
  /\ state'.revision \in Nat
  /\ state'.used = state.used
  /\ state'.intents = state.intents
  /\ state'.journals = state.journals
  /\ \/ u.source = None /\ state'.consumed = state.consumed
     \/ /\ u.source \in Capsules \ state.consumed
        /\ state'.consumed = state.consumed \cup {u.source}
        /\ \E p \in DOMAIN state.tickets :
             /\ state.tickets[p].capsule = u.source
             /\ state.tickets[p].fence < u.fence
             /\ state.tickets[p].phase = "CHECKPOINTED"

Moves == \E r \in Requests, t, u \in Ticket : TicketMoves(r, t, u) /\ TablesFollow(r, t, u)
Adds == \E q \in Requests, u \in Ticket : TicketAdded(q, u)

-----------------------------------------------------------------------------
(* Every operation moves one ticket or adds one.                           *)

LEMMA PublishAdds ==
  ASSUME TypeOK, NEW r \in Requests, NEW lead \in Leads, NEW fence \in 0..MaxFence,
         NEW durable \in BOOLEAN, PublishRequested(state, state', r, lead, fence, durable)
  PROVE  Adds
<1> DEFINE u == Requested(lead, fence, durable, None)
<1>1. u \in Ticket
  BY LedgerBoundAssumption DEF Requested, Ticket, SpawnPhase, Revision
<1>2. TicketAdded(r, u)
  BY <1>1 DEF TicketAdded, PublishRequested, WithTicket, Committed, TypeOK, Requested
<1>. QED
  BY <1>1, <1>2 DEF Adds

LEMMA ResumeAdds ==
  ASSUME TypeOK, NEW r \in Requests, NEW lead \in Leads, NEW q \in Requests,
         NEW fence \in 0..MaxFence, ClaimResumeCapsule(state, state', r, lead, q, fence)
  PROVE  Adds
<1> DEFINE t == state.tickets[r]
           u == Requested(t.lead, fence, t.durable, t.capsule)
<1>1. r \in DOMAIN state.tickets /\ t \in Ticket
  BY DEF ClaimResumeCapsule, Authorized, TypeOK
<1>2. u \in Ticket /\ fence \in Nat /\ t.fence \in Nat /\ t.capsule \in Capsules \ state.consumed
  BY <1>1, LedgerBoundAssumption
  DEF Requested, Ticket, SpawnPhase, Revision, ClaimResumeCapsule, Claimable
<1>3. TicketAdded(q, u)
  BY <1>1, <1>2
  DEF TicketAdded, ClaimResumeCapsule, Committed, TypeOK, Requested, FenceAdvances
<1>. QED
  BY <1>2, <1>3 DEF Adds

(* Facts about the ticket an operation of an existing request works on.    *)
LEMMA ExistingTicket ==
  ASSUME TypeOK, NEW r, NEW lead, Authorized(state, r, lead)
  PROVE  /\ r \in Requests /\ r \in DOMAIN state.tickets
         /\ state.tickets[r] \in Ticket
         /\ Bumped(state.tickets[r]) \in Ticket
  BY DEF Authorized, TypeOK, Bumped, Advanced, Ticket, Revision

LEMMA ClaimMoves ==
  ASSUME TypeOK, NEW r \in Requests, NEW lead \in Leads, Claim(state, state', r, lead)
  PROVE  Moves
<1> DEFINE t == state.tickets[r]
           u == Advanced(t, "CLAIMED", t.lease, t.capsule)
<1>1. r \in DOMAIN state.tickets /\ t \in Ticket /\ t.phase = "REQUESTED"
  BY ExistingTicket DEF Claim
<1>2. u \in Ticket
  BY <1>1 DEF Advanced, Ticket, SpawnPhase, Revision
<1>3. TicketMoves(r, t, u)
  BY <1>1, <1>2
  DEF TicketMoves, Claim, WithTicket, Committed, Advanced, FinalPhase, Behind, Unleased, Ended
<1>4. TablesFollow(r, t, u)
  BY <1>1 DEF TablesFollow, Claim, WithTicket, Committed, Advanced, TypeOK
<1>. QED
  BY <1>1, <1>2, <1>3, <1>4 DEF Moves

LEMMA IntentMoves ==
  ASSUME TypeOK, NEW r \in Requests, NEW lead \in Leads,
         RecordRegistryIntent(state, state', r, lead)
  PROVE  Moves
<1> DEFINE t == state.tickets[r]
           u == Bumped(t)
<1>1. r \in DOMAIN state.tickets /\ t \in Ticket /\ u \in Ticket
  BY ExistingTicket DEF RecordRegistryIntent
<1>2. TicketMoves(r, t, u)
  BY <1>1 DEF TicketMoves, RecordRegistryIntent, Committed, Bumped, Advanced
<1>3. TablesFollow(r, t, u)
  BY <1>1 DEF TablesFollow, RecordRegistryIntent, Committed, Bumped, Advanced, TypeOK
<1>. QED
  BY <1>1, <1>2, <1>3 DEF Moves

LEMMA FailureMoves ==
  ASSUME TypeOK, NEW r \in Requests, NEW lead \in Leads, NEW cause \in WorkerFailureOrigin,
         RecordFailure(state, state', r, lead, cause)
  PROVE  Moves
<1> DEFINE t == state.tickets[r]
           u == Bumped(t)
           j == [origin |-> cause, status |-> InitialStatus(cause),
                 revision |-> u.revision, fence |-> u.fence]
<1>1. r \in DOMAIN state.tickets /\ t \in Ticket /\ u \in Ticket
  BY ExistingTicket DEF RecordFailure
<1>2. TicketMoves(r, t, u)
  BY <1>1 DEF TicketMoves, RecordFailure, WithTicketAndJournal, Committed, Bumped, Advanced
<1>3. j \in Journal
  BY <1>1 DEF Journal, InitialStatus, CompensationStatus, Ticket
<1>4. /\ state'.journals = Put(state.journals, r, j)
      /\ r \notin DOMAIN state.journals
      /\ u.phase = t.phase
      /\ state'.revision = state.revision + 1
      /\ state'.used = state.used /\ state'.intents = state.intents
  BY DEF RecordFailure, WithTicketAndJournal, Committed, Bumped, Advanced
<1>5. TablesFollow(r, t, u)
  BY <1>3, <1>4 DEF TablesFollow, TypeOK
<1>. QED
  BY <1>1, <1>2, <1>5 DEF Moves

LEMMA StatusMoves ==
  ASSUME TypeOK, NEW r \in Requests, NEW lead \in Leads, NEW status \in CompensationStatus,
         AdvanceCompensationStatus(state, state', r, lead, status)
  PROVE  Moves
<1> DEFINE t == state.tickets[r]
           u == Bumped(t)
           j == [origin |-> state.journals[r].origin, status |-> status,
                 revision |-> u.revision, fence |-> u.fence]
<1>1. r \in DOMAIN state.tickets /\ t \in Ticket /\ u \in Ticket
  BY ExistingTicket DEF AdvanceCompensationStatus
<1>2. TicketMoves(r, t, u)
  BY <1>1
  DEF TicketMoves, AdvanceCompensationStatus, WithTicketAndJournal, Committed, Bumped, Advanced
<1>3. j \in Journal
  BY <1>1 DEF Journal, TypeOK, AdvanceCompensationStatus, Ticket
<1>4. /\ state'.journals = Put(state.journals, r, j)
      /\ u.phase = t.phase
      /\ state'.revision = state.revision + 1
      /\ state'.used = state.used /\ state'.intents = state.intents
  BY DEF AdvanceCompensationStatus, WithTicketAndJournal, Committed, Bumped, Advanced
<1>5. TablesFollow(r, t, u)
  BY <1>3, <1>4 DEF TablesFollow, TypeOK
<1>. QED
  BY <1>1, <1>2, <1>5 DEF Moves

LEMMA PhaseMoves ==
  ASSUME TypeOK, NEW r \in Requests, NEW lead \in Leads, NEW phase \in SpawnPhase,
         AppendPhase(state, state', r, lead, phase)
  PROVE  Moves
<1> DEFINE t == state.tickets[r]
           u == Advanced(t, phase, t.lease, t.capsule)
<1>1. r \in DOMAIN state.tickets /\ t \in Ticket /\ t.phase \in SpawnPhase
  BY ExistingTicket DEF AppendPhase, Ticket
<1>2. u \in Ticket
  BY <1>1 DEF Advanced, Ticket, Revision
<1>3. phase \in NextPhases(t.phase) /\ t.phase \notin FinalPhase
  BY FinalPhasesAreFinal DEF AppendPhase
<1>4. /\ phase \in Unleased => t.phase \in Unleased
      /\ t.phase \in Behind => phase \in Behind
  BY <1>1, <1>3, PhaseOrder
<1>5. phase \in Ended => (t.durable => t.capsule # None)
  BY DEF AppendPhase, TerminalBinding, Ended
<1>6. TicketMoves(r, t, u)
  BY <1>1, <1>2, <1>3, <1>4, <1>5
  DEF TicketMoves, AppendPhase, WithTicket, Committed, Advanced
<1>7. TablesFollow(r, t, u)
  BY <1>1
  DEF TablesFollow, AppendPhase, JournalAllows, WithTicket, Committed, Advanced, TypeOK
<1>. QED
  BY <1>1, <1>2, <1>6, <1>7 DEF Moves

LEMMA LeaseMoves ==
  ASSUME TypeOK, LeaseComesLater, NEW r \in Requests, NEW lead \in Leads,
         NEW ref \in Reference, AppendLeaseReserved(state, state', r, lead, ref)
  PROVE  Moves
<1> DEFINE t == state.tickets[r]
           u == Advanced(t, "LEASE_RESERVED", ref, t.capsule)
<1>1. r \in DOMAIN state.tickets /\ t \in Ticket /\ t.phase = "OFFER_VALIDATED" /\ t.lease = None
  BY ExistingTicket DEF AppendLeaseReserved, LeaseComesLater, Unleased
<1>2. u \in Ticket
  BY <1>1 DEF Advanced, Ticket, SpawnPhase, Revision
<1>3. TicketMoves(r, t, u)
  BY <1>1, <1>2
  DEF TicketMoves, AppendLeaseReserved, Committed, Advanced, FinalPhase, Behind, Unleased, Ended
<1>4. TablesFollow(r, t, u)
  BY <1>1 DEF TablesFollow, AppendLeaseReserved, Committed, Advanced, TypeOK
<1>. QED
  BY <1>1, <1>2, <1>3, <1>4 DEF Moves

LEMMA CapsuleMoves ==
  ASSUME TypeOK, NEW r \in Requests, NEW lead \in Leads, NEW capsule \in Capsules,
         BindResumeCapsule(state, state', r, lead, capsule)
  PROVE  Moves
<1> DEFINE t == state.tickets[r]
           u == Advanced(t, t.phase, t.lease, capsule)
<1>1. r \in DOMAIN state.tickets /\ t \in Ticket
  BY ExistingTicket DEF BindResumeCapsule
<1>2. u \in Ticket
  BY <1>1 DEF Advanced, Ticket, Revision
<1>3. TicketMoves(r, t, u)
  BY <1>1, <1>2 DEF TicketMoves, BindResumeCapsule, WithTicket, Committed, Advanced
<1>4. TablesFollow(r, t, u)
  BY <1>1 DEF TablesFollow, BindResumeCapsule, WithTicket, Committed, Advanced, TypeOK
<1>. QED
  BY <1>1, <1>2, <1>3, <1>4 DEF Moves

LEMMA MovesOrAdds == TypeOK /\ LeaseComesLater /\ Next => Moves \/ Adds
<1> SUFFICES ASSUME TypeOK, LeaseComesLater, Next PROVE Moves \/ Adds
  OBVIOUS
<1>1. PICK r \in Requests, lead \in Leads : Operation(state, state', r, lead)
  BY DEF Next
<1>2. [lease : Leases, request : Requests, revision : 1..MaxStateRevision] \subseteq Reference
  BY DEF Reference, Revision
<1>. QED
  BY <1>1, <1>2, PublishAdds, ResumeAdds, ClaimMoves, IntentMoves, FailureMoves, StatusMoves,
     PhaseMoves, LeaseMoves, CapsuleMoves DEF Operation

-----------------------------------------------------------------------------
(* The inductive invariant *)

IInv ==
  /\ TypeOK /\ LeaseComesLater /\ CapsuleResumedOnce /\ ResumedBehindItsSource
  /\ EndedWithCapsule /\ JournalsFollowTickets

LEMMA InitIInv == Init => IInv
  BY DEF Init, EmptyLedger, IInv, TypeOK, LeaseComesLater, CapsuleResumedOnce,
         ResumedBehindItsSource, EndedWithCapsule, JournalsFollowTickets

LEMMA MovesIInv == IInv /\ Moves => IInv'
<1> SUFFICES ASSUME IInv, NEW r \in Requests, NEW t \in Ticket, NEW u \in Ticket,
                    TicketMoves(r, t, u), TablesFollow(r, t, u)
             PROVE  IInv'
  BY DEF Moves
<1> USE DEF IInv
<1> DEFINE T == state.tickets  U == state'.tickets
<1>1. /\ DOMAIN U = DOMAIN T
      /\ T[r] = t /\ U[r] = u /\ r \in DOMAIN T
      /\ \A i \in DOMAIN T : i # r => U[i] = T[i]
  BY DEF TicketMoves, Put
<1>2. TypeOK'
  <2>1. CASE state'.journals = state.journals
    BY <1>1, <2>1 DEF TypeOK, TablesFollow, TicketMoves
  <2>2. ASSUME NEW j \in Journal, state'.journals = Put(state.journals, r, j) PROVE TypeOK'
    <3>1. /\ DOMAIN state'.journals = DOMAIN state.journals \cup {r}
          /\ state'.journals[r] = j
          /\ \A i \in DOMAIN state.journals : i # r => state'.journals[i] = state.journals[i]
      BY <2>2 DEF Put
    <3>. QED
      BY <1>1, <3>1 DEF TypeOK, TablesFollow, TicketMoves
  <2>. QED
    BY <2>1, <2>2 DEF TablesFollow
<1>3. LeaseComesLater'
  BY <1>1 DEF LeaseComesLater, TicketMoves
<1>4. CapsuleResumedOnce'
  <2>1. ASSUME NEW p \in DOMAIN U, NEW q \in DOMAIN U,
               U[p].capsule # None, U[p].capsule = U[q].capsule
        PROVE  p = q
    BY <1>1, <2>1 DEF CapsuleResumedOnce, TicketMoves, CapsuleUnused
  <2>2. \A p \in DOMAIN T : U[p].source = T[p].source
    BY <1>1 DEF TicketMoves
  <2>. QED
    BY <1>1, <2>1, <2>2 DEF CapsuleResumedOnce, TicketMoves
<1>5. ResumedBehindItsSource'
  <2> SUFFICES ASSUME NEW p \in DOMAIN U, U[p].source # None
               PROVE  \E q \in DOMAIN U : /\ U[q].capsule = U[p].source
                                          /\ U[q].fence < U[p].fence
                                          /\ U[q].phase \in Behind
    BY DEF ResumedBehindItsSource, Behind
  <2>1. \A i \in DOMAIN T : /\ U[i].source = T[i].source
                            /\ U[i].fence = T[i].fence
                            /\ T[i].capsule # None => U[i].capsule = T[i].capsule
                            /\ T[i].phase \in Behind => U[i].phase \in Behind
    BY <1>1 DEF TicketMoves
  <2>2. PICK q \in DOMAIN T : /\ T[q].capsule = T[p].source
                             /\ T[q].fence < T[p].fence
                             /\ T[q].phase \in Behind
    BY <1>1, <2>1 DEF ResumedBehindItsSource, Behind
  <2>. QED
    BY <1>1, <2>1, <2>2
<1>6. EndedWithCapsule'
  <2>1. ASSUME u.durable, u.phase \in Ended PROVE u.capsule # None
    BY <1>1, <2>1 DEF EndedWithCapsule, TicketMoves, Ended
  <2>. QED
    BY <1>1, <2>1 DEF EndedWithCapsule, Ended
<1>7. JournalsFollowTickets'
  <2>1. \A i \in DOMAIN T : U[i].fence = T[i].fence /\ T[i].revision <= U[i].revision
                            /\ T[i].revision \in Nat /\ U[i].revision \in Nat
    BY <1>1, <1>2 DEF TicketMoves, TypeOK, Ticket, Revision
  <2>2. CASE state'.journals = state.journals
    BY <1>1, <2>1, <2>2 DEF JournalsFollowTickets, JournalNotDrifted, TypeOK, Journal, Revision
  <2>3. ASSUME NEW j \in Journal, state'.journals = Put(state.journals, r, j),
               j.fence = u.fence, j.revision = u.revision
        PROVE  JournalsFollowTickets'
    <3>1. /\ DOMAIN state'.journals = DOMAIN state.journals \cup {r}
          /\ state'.journals[r] = j
          /\ \A i \in DOMAIN state.journals : i # r => state'.journals[i] = state.journals[i]
      BY <2>3 DEF Put
    <3>. QED
      BY <1>1, <2>1, <2>3, <3>1
      DEF JournalsFollowTickets, JournalNotDrifted, TypeOK, Journal, Revision
  <2>. QED
    BY <2>2, <2>3 DEF TablesFollow
<1>. QED
  BY <1>2, <1>3, <1>4, <1>5, <1>6, <1>7

LEMMA AddsIInv == IInv /\ Adds => IInv'
<1> SUFFICES ASSUME IInv, NEW n \in Requests, NEW u \in Ticket, TicketAdded(n, u)
             PROVE  IInv'
  BY DEF Adds
<1> USE DEF IInv
<1> DEFINE T == state.tickets  U == state'.tickets
<1>1. /\ DOMAIN U = DOMAIN T \cup {n}
      /\ U[n] = u /\ n \notin DOMAIN T
      /\ \A i \in DOMAIN T : U[i] = T[i]
  BY DEF TicketAdded, Put
<1>2. TypeOK'
  BY <1>1 DEF TypeOK, TicketAdded
<1>3. LeaseComesLater'
  BY <1>1 DEF LeaseComesLater, TicketAdded
<1>4. CapsuleResumedOnce'
  <2>1. u.capsule = None
    BY DEF TicketAdded
  <2>2. u.source # None =>
          /\ u.source \in Capsules \ state.consumed
          /\ state'.consumed = state.consumed \cup {u.source}
    BY DEF TicketAdded
  <2>3. u.source = None => state'.consumed = state.consumed
    BY NoneAssumption DEF TicketAdded
  <2>4. \A p \in DOMAIN T : T[p].source \in Capsules \cup {None}
    BY DEF TypeOK, Ticket
  <2>5. ASSUME NEW p \in DOMAIN U, NEW q \in DOMAIN U
        PROVE  /\ U[p].capsule # None /\ U[p].capsule = U[q].capsule => p = q
               /\ U[p].source # None /\ U[p].source = U[q].source => p = q
    BY <1>1, <2>1, <2>2, <2>4 DEF CapsuleResumedOnce
  <2>6. ASSUME NEW c \in Capsules
        PROVE  c \in state'.consumed <=> \E p \in DOMAIN U : U[p].source = c
    <3>1. CASE u.source = None
      BY <1>1, <2>3, <3>1, NoneAssumption DEF CapsuleResumedOnce
    <3>2. CASE u.source # None
      BY <1>1, <2>2, <3>2 DEF CapsuleResumedOnce
    <3>. QED
      BY <3>1, <3>2
  <2>. QED
    BY <2>5, <2>6 DEF CapsuleResumedOnce
<1>5. ResumedBehindItsSource'
  BY <1>1, NoneAssumption DEF ResumedBehindItsSource, TicketAdded
<1>6. EndedWithCapsule'
  BY <1>1 DEF EndedWithCapsule, TicketAdded
<1>7. JournalsFollowTickets'
  BY <1>1 DEF JournalsFollowTickets, JournalNotDrifted, TicketAdded, TypeOK
<1>. QED
  BY <1>2, <1>3, <1>4, <1>5, <1>6, <1>7

LEMMA NextIInv == IInv /\ [Next]_state => IInv'
<1>1. CASE Next
  BY <1>1, MovesOrAdds, MovesIInv, AddsIInv DEF IInv
<1>2. CASE UNCHANGED state
  BY <1>2 DEF IInv, TypeOK, LeaseComesLater, CapsuleResumedOnce, ResumedBehindItsSource,
              EndedWithCapsule, JournalsFollowTickets, JournalNotDrifted
<1>. QED
  BY <1>1, <1>2

-----------------------------------------------------------------------------
(* The inductive invariant holds in every reachable state.                 *)
THEOREM LedgerInvariant == Spec => []IInv
  BY InitIInv, NextIInv, PTL DEF Spec

(* The aggregate stays a well-formed SpawnLedgerStateV2.                   *)
THEOREM LedgerTypeOK == Spec => []TypeOK
<1>1. IInv => TypeOK
  BY DEF IInv
<1>. QED
  BY <1>1, LedgerInvariant, PTL

(* A capsule belongs to one ticket and is resumed by one, and is recorded  *)
(* as consumed exactly when it is.                                         *)
THEOREM LedgerCapsuleResumedOnce == Spec => []CapsuleResumedOnce
<1>1. IInv => CapsuleResumedOnce
  BY DEF IInv
<1>. QED
  BY <1>1, LedgerInvariant, PTL

(* A resumed ticket starts behind a checkpointed one, under a later fence. *)
THEOREM LedgerResumedBehindItsSource == Spec => []ResumedBehindItsSource
<1>1. IInv => ResumedBehindItsSource
  BY DEF IInv
<1>. QED
  BY <1>1, LedgerInvariant, PTL

(* A worker that must be resumable does not end without its capsule.       *)
THEOREM LedgerEndedWithCapsule == Spec => []EndedWithCapsule
<1>1. IInv => EndedWithCapsule
  BY DEF IInv
<1>. QED
  BY <1>1, LedgerInvariant, PTL

(* The "failure journal drift" refusal never fires.                        *)
THEOREM LedgerJournalsFollowTickets == Spec => []JournalsFollowTickets
<1>1. IInv => JournalsFollowTickets
  BY DEF IInv
<1>. QED
  BY <1>1, LedgerInvariant, PTL

-----------------------------------------------------------------------------
(* What a step may never do *)

LEMMA MovesGrows == TypeOK /\ Moves => OnlyGrows /\ EndsAsJournalled
<1> SUFFICES ASSUME TypeOK, NEW r \in Requests, NEW t \in Ticket, NEW u \in Ticket,
                    TicketMoves(r, t, u), TablesFollow(r, t, u)
             PROVE  OnlyGrows /\ EndsAsJournalled
  BY DEF Moves
<1> DEFINE T == state.tickets  U == state'.tickets
<1>1. /\ DOMAIN U = DOMAIN T
      /\ T[r] = t /\ U[r] = u /\ r \in DOMAIN T
      /\ \A i \in DOMAIN T : i # r => U[i] = T[i]
  BY DEF TicketMoves, Put
<1>2. u.revision > t.revision
  BY DEF TicketMoves, Ticket, Revision
<1>3. /\ DOMAIN state.journals \subseteq DOMAIN state'.journals
      /\ \A i \in DOMAIN state.journals :
           /\ state'.journals[i].origin = state.journals[i].origin
           /\ i # r \/ u.phase # t.phase => state'.journals[i] = state.journals[i]
  BY DEF TablesFollow, Put
<1>4. ASSUME NEW i \in DOMAIN T
      PROVE  /\ U[i] = T[i] \/ U[i].revision > T[i].revision
             /\ <<U[i].fence, U[i].lead, U[i].durable, U[i].source>>
                  = <<T[i].fence, T[i].lead, T[i].durable, T[i].source>>
             /\ T[i].lease # None => U[i].lease = T[i].lease
             /\ T[i].capsule # None => U[i].capsule = T[i].capsule
             /\ T[i].phase \in FinalPhase => U[i].phase = T[i].phase
  BY <1>1, <1>2 DEF TicketMoves
<1>5. OnlyGrows
  BY <1>1, <1>3, <1>4 DEF OnlyGrows, TicketMoves, TablesFollow
<1>6. EndsAsJournalled
  BY <1>1, <1>3 DEF EndsAsJournalled, TablesFollow, TypeOK
<1>. QED
  BY <1>5, <1>6

LEMMA AddsGrows == TypeOK /\ Adds => OnlyGrows /\ EndsAsJournalled
<1> SUFFICES ASSUME TypeOK, NEW n \in Requests, NEW u \in Ticket, TicketAdded(n, u)
             PROVE  OnlyGrows /\ EndsAsJournalled
  BY DEF Adds
<1>1. /\ DOMAIN state.tickets \subseteq DOMAIN state'.tickets
      /\ \A i \in DOMAIN state.tickets : state'.tickets[i] = state.tickets[i]
  BY DEF TicketAdded, Put
<1>2. OnlyGrows
  BY <1>1 DEF OnlyGrows, TicketAdded
<1>3. EndsAsJournalled
  BY <1>1 DEF EndsAsJournalled, TypeOK
<1>. QED
  BY <1>2, <1>3

LEMMA NextGrows == IInv /\ [Next]_state => [OnlyGrows /\ EndsAsJournalled]_state
  BY MovesOrAdds, MovesGrows, AddsGrows DEF IInv

(* Nothing in the ledger is forgotten or changed without a new revision.   *)
THEOREM LedgerGrows == Spec => LedgerOnlyGrows
<1>1. IInv /\ [Next]_state => [OnlyGrows]_state
  BY NextGrows
<1>. QED
  BY <1>1, LedgerInvariant, PTL DEF Spec, LedgerOnlyGrows

(* A journalled failure decides how the ticket ends.                       *)
THEOREM LedgerEndsAsJournalled == Spec => JournalDecidesTheEnd
<1>1. IInv /\ [Next]_state => [EndsAsJournalled]_state
  BY NextGrows
<1>. QED
  BY <1>1, LedgerInvariant, PTL DEF Spec, JournalDecidesTheEnd

-----------------------------------------------------------------------------
(* The callers *)

(* A snapshot that a call in progress works from is the ledger, or is      *)
(* older and will be refused by the swap.                                  *)
SnapshotIsHistory ==
  \A c \in Clients : snapshot[c] # None =>
    /\ snapshot[c].revision \in Nat
    /\ snapshot[c] = state \/ snapshot[c].revision < state.revision

ClientsInv ==
  /\ DOMAIN snapshot = Clients
  /\ state.revision \in Nat
  /\ SnapshotIsHistory

(* Every commit takes the next state revision, its ticket is there, and    *)
(* the other tickets stay as they are.                                     *)
OneCommit(s, s2, r) ==
  /\ s2.revision = s.revision + 1
  /\ r \in DOMAIN s2.tickets
  /\ \A i \in DOMAIN s.tickets : i # r => s2.tickets[i] = s.tickets[i]

LEMMA OperationCommits ==
  ASSUME NEW s, NEW s2, NEW r, NEW lead, Operation(s, s2, r, lead)
  PROVE  OneCommit(s, s2, r)
<1> USE DEF Authorized, WithTicket, WithTicketAndJournal, Committed, Put, OneCommit
<1>1. ASSUME NEW fence, NEW durable, PublishRequested(s, s2, r, lead, fence, durable)
      PROVE  OneCommit(s, s2, r)
  BY <1>1 DEF PublishRequested
<1>2. CASE Claim(s, s2, r, lead)
  BY <1>2 DEF Claim
<1>3. CASE RecordRegistryIntent(s, s2, r, lead)
  BY <1>3 DEF RecordRegistryIntent
<1>4. ASSUME NEW cause, RecordFailure(s, s2, r, lead, cause)
      PROVE  OneCommit(s, s2, r)
  BY <1>4 DEF RecordFailure
<1>5. ASSUME NEW status, AdvanceCompensationStatus(s, s2, r, lead, status)
      PROVE  OneCommit(s, s2, r)
  BY <1>5 DEF AdvanceCompensationStatus
<1>6. ASSUME NEW phase, AppendPhase(s, s2, r, lead, phase)
      PROVE  OneCommit(s, s2, r)
  BY <1>6 DEF AppendPhase
<1>7. ASSUME NEW ref, AppendLeaseReserved(s, s2, r, lead, ref)
      PROVE  OneCommit(s, s2, r)
  BY <1>7 DEF AppendLeaseReserved
<1>8. ASSUME NEW capsule, BindResumeCapsule(s, s2, r, lead, capsule)
      PROVE  OneCommit(s, s2, r)
  BY <1>8 DEF BindResumeCapsule
<1>9. ASSUME NEW q, NEW fence, ClaimResumeCapsule(s, s2, r, lead, q, fence)
      PROVE  OneCommit(s, s2, r)
  BY <1>9 DEF ClaimResumeCapsule
<1>. QED
  BY <1>1, <1>2, <1>3, <1>4, <1>5, <1>6, <1>7, <1>8, <1>9 DEF Operation

(* A swap that succeeds is one atomic operation on the ledger.             *)
LEMMA SwapIsOperation ==
  ASSUME ClientsInv, NEW c \in Clients, NEW r \in Requests, NEW lead \in Leads,
         CompareAndSwap(c, r, lead)
  PROVE  /\ Next
         /\ Operation(state, state', r, lead)
         /\ OneCommit(state, state', r)
<1>1. snapshot[c] = state
  BY DEF ClientsInv, SnapshotIsHistory, CompareAndSwap, RevisionMatches
<1>2. Operation(state, state', r, lead) /\ state.revision < MaxStateRevision
  BY <1>1 DEF CompareAndSwap
<1>. QED
  BY <1>2, OperationCommits DEF Next

LEMMA ClientsInitInv == ClientsInit => ClientsInv
  BY DEF ClientsInit, Init, EmptyLedger, ClientsInv, SnapshotIsHistory

LEMMA ClientsNextInv == ClientsInv /\ [ClientsNext]_clientVars => ClientsInv'
<1> SUFFICES ASSUME ClientsInv, [ClientsNext]_clientVars PROVE ClientsInv'
  OBVIOUS
<1>1. ASSUME NEW c \in Clients, NEW r \in Requests, ReadTicket(c, r) PROVE ClientsInv'
  BY <1>1 DEF ReadTicket, ClientsInv, SnapshotIsHistory
<1>2. ASSUME NEW c \in Clients, ReadState(c) PROVE ClientsInv'
  BY <1>2 DEF ReadState, ClientsInv, SnapshotIsHistory
<1>3. ASSUME NEW c \in Clients, NEW r \in Requests, NEW lead \in Leads,
             CompareAndSwap(c, r, lead)
      PROVE  ClientsInv'
  <2>1. state'.revision = state.revision + 1
    BY <1>3, SwapIsOperation DEF OneCommit
  <2>2. snapshot' = [snapshot EXCEPT ![c] = None]
    BY <1>3 DEF CompareAndSwap
  <2>3. ASSUME NEW d \in Clients, snapshot'[d] # None
        PROVE  snapshot'[d].revision \in Nat /\ snapshot'[d].revision < state'.revision
    <3>1. snapshot'[d] = snapshot[d] /\ snapshot[d] # None
      BY <2>2, <2>3 DEF ClientsInv
    <3>2. CASE snapshot[d] = state
      BY <2>1, <3>1, <3>2 DEF ClientsInv
    <3>3. CASE snapshot[d].revision < state.revision
      BY <2>1, <3>1, <3>3 DEF ClientsInv, SnapshotIsHistory
    <3>. QED
      BY <3>1, <3>2, <3>3 DEF ClientsInv, SnapshotIsHistory
  <2>. QED
    BY <2>1, <2>2, <2>3 DEF ClientsInv, SnapshotIsHistory
<1>4. ASSUME NEW c \in Clients, Refuse(c) PROVE ClientsInv'
  BY <1>4 DEF Refuse, ClientsInv, SnapshotIsHistory
<1>5. CASE UNCHANGED clientVars
  BY <1>5 DEF clientVars, ClientsInv, SnapshotIsHistory
<1>. QED
  BY <1>1, <1>2, <1>3, <1>4, <1>5 DEF ClientsNext

LEMMA ClientsStepSimulates == ClientsInv /\ [ClientsNext]_clientVars => [Next]_state
  BY SwapIsOperation DEF ClientsNext, ReadTicket, ReadState, Refuse, clientVars

(* Read, check and swap of concurrent callers implement the atomic ledger. *)
THEOREM ClientsImplementLedger == ClientsSpec => ImplementsLedger
<1>1. ClientsInit => Init
  BY DEF ClientsInit
<1>. QED
  BY <1>1, ClientsInitInv, ClientsNextInv, ClientsStepSimulates, PTL
  DEF ClientsSpec, ImplementsLedger, Spec

-----------------------------------------------------------------------------
(* What callers hold *)

HeldInv ==
  /\ DOMAIN handed = Clients
  /\ \A c \in Clients : \A r \in DOMAIN handed[c] : handed[c][r].revision \in Nat
  /\ HeldIsHistory

LEMMA ClientsInitHeld == ClientsInit => HeldInv
  BY DEF ClientsInit, HeldInv, HeldIsHistory

(* A ticket value stays the current one, or falls behind by its revision.  *)
LEMMA HistoryStays ==
  ASSUME IInv, OnlyGrows, NEW r, NEW h,
         r \in DOMAIN state.tickets,
         h = state.tickets[r] \/ h.revision < state.tickets[r].revision,
         h.revision \in Nat, state'.tickets[r].revision \in Nat
  PROVE  /\ r \in DOMAIN state'.tickets
         /\ h = state'.tickets[r] \/ h.revision < state'.tickets[r].revision
<1>1. state.tickets[r].revision \in Nat
  BY DEF IInv, TypeOK, Ticket, Revision
<1>2. /\ r \in DOMAIN state'.tickets
      /\ \/ state'.tickets[r] = state.tickets[r]
         \/ state'.tickets[r].revision > state.tickets[r].revision
  BY DEF OnlyGrows
<1>. QED
  BY <1>1, <1>2

LEMMA ClientsNextHeld ==
  IInv /\ IInv' /\ ClientsInv /\ HeldInv /\ [ClientsNext]_clientVars => HeldInv'
<1> SUFFICES ASSUME IInv, IInv', ClientsInv, HeldInv, [ClientsNext]_clientVars PROVE HeldInv'
  OBVIOUS
<1>1. ASSUME NEW c \in Clients, NEW r \in Requests, ReadTicket(c, r) PROVE HeldInv'
  BY <1>1 DEF ReadTicket, HeldInv, HeldIsHistory, Put, IInv, TypeOK, Ticket, Revision
<1>2. ASSUME NEW c \in Clients, NEW r \in Requests, NEW lead \in Leads,
             CompareAndSwap(c, r, lead)
      PROVE  HeldInv'
  <2>1. OneCommit(state, state', r) /\ OnlyGrows
    <3>1. Next /\ OneCommit(state, state', r)
      BY <1>2, SwapIsOperation
    <3>2. state' # state
      BY <3>1 DEF OneCommit, ClientsInv
    <3>. QED
      BY <3>1, <3>2, NextGrows
  <2>2. \A q \in DOMAIN state'.tickets : state'.tickets[q].revision \in Nat
    BY DEF IInv, TypeOK, Ticket, Revision
  <2>3. \A d \in Clients : \A q \in DOMAIN handed[d] :
          /\ handed[d][q].revision \in Nat
          /\ q \in DOMAIN state'.tickets
          /\ handed[d][q] = state'.tickets[q] \/ handed[d][q].revision < state'.tickets[q].revision
    BY <2>1, <2>2, HistoryStays DEF HeldInv, HeldIsHistory, OnlyGrows
  <2>4. CASE handed' = [handed EXCEPT ![c] = Put(@, r, state'.tickets[r])]
    BY <2>1, <2>2, <2>3, <2>4 DEF HeldInv, HeldIsHistory, Put, OneCommit
  <2>5. CASE UNCHANGED handed
    BY <2>3, <2>5 DEF HeldInv, HeldIsHistory
  <2>. QED
    BY <1>2, <2>4, <2>5 DEF CompareAndSwap
<1>3. ASSUME NEW c \in Clients, ReadState(c) \/ Refuse(c) PROVE HeldInv'
  BY <1>3 DEF ReadState, Refuse, HeldInv, HeldIsHistory
<1>4. CASE UNCHANGED clientVars
  BY <1>4 DEF clientVars, HeldInv, HeldIsHistory
<1>. QED
  BY <1>1, <1>2, <1>3, <1>4 DEF ClientsNext

(* A ticket value a caller holds is the current one or an older revision.  *)
THEOREM ClientsHoldHistory == ClientsSpec => []HeldIsHistory
<1>1. ClientsSpec => []IInv
  BY ClientsImplementLedger, LedgerInvariant, PTL DEF ImplementsLedger
<1>2. ClientsSpec => []ClientsInv
  BY ClientsInitInv, ClientsNextInv, PTL DEF ClientsSpec
<1>3. ClientsSpec => []HeldInv
  BY <1>1, <1>2, ClientsInitHeld, ClientsNextHeld, PTL DEF ClientsSpec
<1>4. HeldInv => HeldIsHistory
  BY DEF HeldInv
<1>. QED
  BY <1>3, <1>4, PTL

-----------------------------------------------------------------------------
(* What a call changes *)

LEMMA StepActsOnWhatItHolds ==
  ClientsInv /\ [ClientsNext]_clientVars => [OnlyWhatItHolds]_clientVars
<1> SUFFICES ASSUME ClientsInv, ClientsNext PROVE OnlyWhatItHolds
  OBVIOUS
<1>1. ASSUME NEW c \in Clients, NEW r \in Requests, NEW lead \in Leads,
             CompareAndSwap(c, r, lead)
      PROVE  OnlyWhatItHolds
  <2>1. OneCommit(state, state', r)
    BY <1>1, SwapIsOperation
  <2>2. Presents(c, state, r)
    BY <1>1 DEF CompareAndSwap, ClientsInv, SnapshotIsHistory, RevisionMatches
  <2>3. \A d \in Clients : snapshot'[d] # snapshot[d] => d = c
    BY <1>1 DEF CompareAndSwap, ClientsInv
  <2>. QED
    BY <2>1, <2>2, <2>3 DEF OnlyWhatItHolds, OneCommit, Presents
<1>2. CASE UNCHANGED state
  BY <1>2 DEF OnlyWhatItHolds
<1>. QED
  BY <1>1, <1>2 DEF ClientsNext, ReadTicket, ReadState, Refuse

(* A call changes only the ticket its caller has seen.                     *)
THEOREM ClientsActOnWhatTheyHold == ClientsSpec => ActsOnWhatItHolds
<1>1. ClientsSpec => []ClientsInv
  BY ClientsInitInv, ClientsNextInv, PTL DEF ClientsSpec
<1>. QED
  BY <1>1, StepActsOnWhatItHolds, PTL DEF ClientsSpec, ActsOnWhatItHolds

-----------------------------------------------------------------------------
(* The calls by what has happened before them *)

(* coordinate, up to the decision to compensate or to quarantine.          *)
Unjournalled ==
  {"offer", "allocate", "lease", "issue", "project", "projected", "home", "homed",
   "intent", "snapshot", "cas", "classify", "reserved", "granted", "compensate",
   "quarantine", "c_journal"}

Releasing == {"c_registry", "c_release", "c_classify", "c_released"}

Released == {"c_home", "c_home_failed", "c_lease", "c_lease_failed", "c_compensated"}

Anywhere == {"q_journal", "end"}

Label == Unjournalled \cup Releasing \cup Released \cup Anywhere \cup {"c_rolled_back", "q_phase"}

(* The lease has been reserved and the attempt has not begun to end.       *)
Leased ==
  {"lease", "issue", "project", "projected", "home", "homed", "intent", "snapshot",
   "cas", "classify", "reserved", "granted"}

Housed == {"homed", "intent", "snapshot", "cas", "classify", "reserved", "granted"}

(* The registry may have the worker's entry.                               *)
MayBeEntered ==
  {"classify", "reserved", "granted", "compensate", "quarantine", "c_journal", "c_registry",
   "c_release", "c_classify", "q_journal", "q_phase", "end"}

AfterRevoke == {"c_compensated", "c_rolled_back", "q_journal", "q_phase", "end"}

-----------------------------------------------------------------------------
(* The inductive invariant *)

AttemptOK ==
  /\ pc \in Label
  /\ registry \in FleetSnapshot
  /\ before \in FleetSnapshot \cup {None}
  /\ reserved \in FleetSnapshot \cup {None}
  /\ homed \in BOOLEAN
  /\ origin \in {"RECOVERY_UNKNOWN", "A3_ENTERED"}

Has(s, status) == Req \in DOMAIN s.journals /\ s.journals[Req].status = status

(* The journal as the next call finds it.                                  *)
JournalAt(s, label) ==
  /\ label \in Unjournalled => Req \notin DOMAIN s.journals
  /\ label \in Releasing => Has(s, "REGISTRY_RELEASE_PENDING")
  /\ label \in Released => Has(s, "REGISTRY_RELEASED")
  /\ label = "c_rolled_back" => Has(s, "COMPENSATED")
  /\ label = "q_phase" => Has(s, "QUARANTINED")

(* A journal that is not quarantined is of a worker that never started;    *)
(* once it is complete, the ticket has not moved since, or is rolled back. *)
JournalOK(s) ==
  Req \in DOMAIN s.journals =>
    LET j == s.journals[Req]  t == s.tickets[Req] IN
    /\ j.status # "QUARANTINED" => j.origin = "PRE_A3"
    /\ j.status = "COMPENSATED" =>
         t.phase = "ROLLED_BACK" \/ (j.revision = t.revision /\ j.fence = t.fence)

(* The worker's entry, the snapshots taken of it, and its announcement.    *)
RegistryOK ==
  /\ registry.worker => pc \in MayBeEntered /\ reserved # None /\ Req \in state.intents
  /\ before # None => ~ before.worker
  /\ pc = "cas" => before # None
  /\ pc \in {"snapshot", "cas", "classify"} => Req \in state.intents
  /\ pc \in {"classify", "c_registry", "c_release", "c_classify"} => reserved # None
  /\ pc = "classify" => reserved.worker
  /\ pc \in {"reserved", "granted"} => registry.worker

(* The home and the lease.                                                 *)
ResourcesOK ==
  /\ pc \in Leased => lease = "RESERVED"
  /\ pc \in Housed => home = "committed"
  /\ pc = "c_lease" => ~ (homed /\ home = "committed")
  /\ pc \in {"c_compensated", "c_rolled_back"} => lease = "REVOKED"
  /\ lease = "REVOKED" =>
       pc \in AfterRevoke /\ ~ registry.worker /\ ~ (homed /\ home = "committed")

TicketOK ==
  /\ ticket.phase = "ROLLED_BACK" => lease = "REVOKED"
  /\ pc = "granted" => ticket.phase = "REGISTRY_RESERVED" /\ held = ticket

PreInv ==
  /\ AttemptOK /\ JournalAt(state, pc) /\ JournalOK(state)
  /\ RegistryOK /\ ResourcesOK /\ TicketOK

-----------------------------------------------------------------------------
(* What the calls of the ledger do to the ticket and its journal *)

(* AppendPhase leaves the journals and the intents alone.                  *)
LEMMA AppendEffect ==
  ASSUME NEW s, NEW s2, NEW phase, AppendPhase(s, s2, Req, Lead, phase)
  PROVE  /\ s2.tickets[Req].phase = phase
         /\ s2.journals = s.journals /\ s2.intents = s.intents
  BY DEF AppendPhase, WithTicket, Committed, Put, Advanced

(* A reserved lease moves the ticket to LEASE_RESERVED.                    *)
LEMMA LeaseEffect ==
  ASSUME NEW s, NEW s2, NEW ref, AppendLeaseReserved(s, s2, Req, Lead, ref)
  PROVE  /\ s2.tickets[Req].phase = "LEASE_RESERVED"
         /\ s2.journals = s.journals /\ s2.intents = s.intents
  BY DEF AppendLeaseReserved, Committed, Put, Advanced

(* An intent is added, in the phase the ticket is in.                      *)
LEMMA IntentEffect ==
  ASSUME NEW s, NEW s2, RecordRegistryIntent(s, s2, Req, Lead)
  PROVE  /\ s2.tickets[Req].phase = s.tickets[Req].phase
         /\ s2.journals = s.journals
         /\ s2.intents = s.intents \cup {Req}
  BY DEF RecordRegistryIntent, Committed, Put, Bumped, Advanced

(* A failure is journalled at the revision and fence its ticket gets.      *)
LEMMA FailureEffect ==
  ASSUME NEW s, NEW s2, NEW o, RecordFailure(s, s2, Req, Lead, o)
  PROVE  /\ s2.tickets[Req].phase = s.tickets[Req].phase
         /\ s2.intents = s.intents
         /\ Has(s2, InitialStatus(o))
         /\ s2.journals[Req].origin = o
         /\ s2.journals[Req].revision = s2.tickets[Req].revision
         /\ s2.journals[Req].fence = s2.tickets[Req].fence
<1> DEFINE t == Bumped(s.tickets[Req])
           j == [origin |-> o, status |-> InitialStatus(o),
                 revision |-> t.revision, fence |-> t.fence]
<1>1. s2 = WithTicketAndJournal(s, Req, t, j)
  BY DEF RecordFailure
<1>2. /\ s2.tickets = Put(s.tickets, Req, t) /\ s2.intents = s.intents
      /\ s2.journals = Put(s.journals, Req, j)
  BY <1>1 DEF WithTicketAndJournal, Committed
<1>3. s2.tickets[Req] = t /\ s2.journals[Req] = j /\ Req \in DOMAIN s2.journals
  BY <1>2 DEF Put
<1>4. t.phase = s.tickets[Req].phase
  BY DEF Bumped, Advanced
<1> QED
  BY <1>2, <1>3, <1>4 DEF Has

(* So is the next status of a compensation; its origin stays.              *)
LEMMA StatusEffect ==
  ASSUME NEW s, NEW s2, NEW status,
         AdvanceCompensationStatus(s, s2, Req, Lead, status)
  PROVE  /\ s2.tickets[Req].phase = s.tickets[Req].phase
         /\ s2.intents = s.intents
         /\ Req \in DOMAIN s.journals
         /\ status \in NextStatuses(s.journals[Req].status)
         /\ Has(s2, status)
         /\ s2.journals[Req].origin = s.journals[Req].origin
         /\ s2.journals[Req].revision = s2.tickets[Req].revision
         /\ s2.journals[Req].fence = s2.tickets[Req].fence
<1> DEFINE t == Bumped(s.tickets[Req])
           j == [origin |-> s.journals[Req].origin, status |-> status,
                 revision |-> t.revision, fence |-> t.fence]
<1>1. /\ s2 = WithTicketAndJournal(s, Req, t, j) /\ Req \in DOMAIN s.journals
      /\ status \in NextStatuses(s.journals[Req].status)
  BY DEF AdvanceCompensationStatus
<1>2. /\ s2.tickets = Put(s.tickets, Req, t) /\ s2.intents = s.intents
      /\ s2.journals = Put(s.journals, Req, j)
  BY <1>1 DEF WithTicketAndJournal, Committed
<1>3. s2.tickets[Req] = t /\ s2.journals[Req] = j /\ Req \in DOMAIN s2.journals
  BY <1>2 DEF Put
<1>4. t.phase = s.tickets[Req].phase
  BY DEF Bumped, Advanced
<1> QED
  BY <1>1, <1>2, <1>3, <1>4 DEF Has

-----------------------------------------------------------------------------
(* Init *)

LEMMA PreStartInit == PreInit => PreInv
<1> SUFFICES ASSUME PreInit PROVE PreInv
  OBVIOUS
<1>1. PICK durable \in BOOLEAN : state = ClaimedLedger(durable)
  BY DEF PreInit
<1>2. /\ DOMAIN state.journals = {} /\ state.intents = {}
      /\ ticket.phase = "CLAIMED"
  BY <1>1 DEF ClaimedLedger, ticket, Put, Advanced
<1> QED
  BY <1>2, PreStartAssumption DEF PreInit, PreInv, AttemptOK, JournalAt, JournalOK, RegistryOK,
     ResourcesOK, TicketOK, Label, Unjournalled, Releasing, Released, Anywhere, Leased, Housed,
     MayBeEntered, AfterRevoke, FleetSnapshot

-----------------------------------------------------------------------------
(* The steps that do not touch the ledger *)

(* The candidate of a swap.                                                *)
LEMMA SuccessorSnapshot ==
  ASSUME NEW x \in FleetSnapshot, NEW w \in BOOLEAN
  PROVE  Successor(x, w) \in FleetSnapshot /\ Successor(x, w).worker = w
  BY DEF Successor, FleetSnapshot

LEMMA QuietSteps ==
  ASSUME PreInv,
         \/ Allocate \/ IssueReservation \/ Project \/ CommitHome \/ ReadSnapshot
         \/ ReserveRegistry \/ ClassifyReserve \/ UseReceipt \/ BeginCompensation
         \/ InspectRegistry \/ ReleaseRegistry \/ ClassifyRelease \/ CleanupHome
         \/ RevokeLease \/ BeginQuarantine \/ Crash \/ Recover \/ OtherWorker
  PROVE  PreInv'
<1> USE PreStartAssumption
    DEF PreInv, AttemptOK, JournalAt, RegistryOK, ResourcesOK, TicketOK, ticket, attempt,
        resources, Goto, Fault, Label, Unjournalled, Releasing, Released, Anywhere, Leased,
        Housed, MayBeEntered, AfterRevoke, FleetSnapshot
<1>1. CASE Allocate
  BY <1>1 DEF Allocate
<1>2. CASE IssueReservation
  BY <1>2 DEF IssueReservation
<1>3. CASE Project
  BY <1>3 DEF Project
<1>4. CASE CommitHome
  BY <1>4 DEF CommitHome
<1>5. CASE ReadSnapshot
  BY <1>5 DEF ReadSnapshot
<1>6. CASE ReserveRegistry
  <2>1. before \in FleetSnapshot /\ ~ before.worker
    BY <1>6 DEF ReserveRegistry
  <2>2. Successor(before, TRUE) \in FleetSnapshot /\ Successor(before, TRUE).worker
    BY <2>1, SuccessorSnapshot
  <2>3. /\ pc = "cas" /\ state' = state /\ held' = held /\ before' = before
        /\ homed' = homed /\ origin' = origin /\ lease' = lease /\ home' = home
    BY <1>6 DEF ReserveRegistry
  <2>4. CASE reserved' = Successor(before, TRUE) /\ Swap(before, reserved', "reserved", "classify")
    <3>1. \/ registry' = Successor(before, TRUE) /\ pc' = "reserved"
          \/ registry' \in {registry, Successor(before, TRUE)} /\ pc' = "classify"
      BY <2>4 DEF Swap
    <3> HIDE DEF FleetSnapshot
    <3> QED
      BY <2>1, <2>2, <2>3, <2>4, <3>1
  <2>5. CASE Fault /\ pc' \in {"compensate", "quarantine"} /\ UNCHANGED <<reserved, registry>>
    BY <2>3, <2>5
  <2> QED
    BY <1>6, <2>4, <2>5 DEF ReserveRegistry
<1>7. CASE ClassifyReserve
  BY <1>7 DEF Classify, ClassifyReserve
<1>8. CASE UseReceipt
  BY <1>8 DEF UseReceipt
<1>9. CASE BeginCompensation
  BY <1>9 DEF BeginCompensation
<1>10. CASE InspectRegistry
  BY <1>10 DEF InspectRegistry
<1>11. CASE ReleaseRegistry
  <2>1. reserved \in FleetSnapshot
    BY <1>11 DEF ReleaseRegistry
  <2>2. Successor(reserved, FALSE) \in FleetSnapshot /\ ~ Successor(reserved, FALSE).worker
    BY <2>1, SuccessorSnapshot
  <2>3. /\ pc = "c_release" /\ state' = state /\ held' = held /\ before' = before
        /\ reserved' = reserved /\ homed' = homed /\ origin' = origin /\ lease' = lease
        /\ home' = home
    BY <1>11 DEF ReleaseRegistry
  <2>4. CASE Swap(reserved, Successor(reserved, FALSE), "c_released", "c_classify")
    <3>1. \/ registry' = Successor(reserved, FALSE) /\ pc' = "c_released"
          \/ registry' \in {registry, Successor(reserved, FALSE)} /\ pc' = "c_classify"
      BY <2>4 DEF Swap
    <3> HIDE DEF FleetSnapshot
    <3> QED
      BY <2>1, <2>2, <2>3, <3>1
  <2>5. CASE Fault /\ pc' \in {"end", "q_journal"} /\ UNCHANGED registry
    BY <2>3, <2>5
  <2> QED
    BY <1>11, <2>4, <2>5 DEF ReleaseRegistry
<1>12. CASE ClassifyRelease
  BY <1>12 DEF Successor, ClassifyRelease
<1>13. CASE CleanupHome
  BY <1>13 DEF CleanupHome
<1>14. CASE RevokeLease
  BY <1>14 DEF RevokeLease
<1>15. CASE BeginQuarantine
  BY <1>15 DEF BeginQuarantine
<1>16. CASE Crash
  BY <1>16 DEF Crash
<1>17. CASE Recover
  BY <1>17 DEF Recover
<1>18. CASE OtherWorker
  BY <1>18 DEF OtherWorker
<1> QED
  BY <1>1, <1>2, <1>3, <1>4, <1>5, <1>6, <1>7, <1>8, <1>9, <1>10, <1>11, <1>12, <1>13,
     <1>14, <1>15, <1>16, <1>17, <1>18

-----------------------------------------------------------------------------
(* The steps that call the ledger *)

(* What a call of the ledger leaves alone.                                 *)
Aside ==
  /\ receipt' = receipt /\ before' = before /\ reserved' = reserved
  /\ homed' = homed /\ origin' = origin
  /\ lease' = lease /\ home' = home /\ registry' = registry

(* append_phase happened, and the attempt knows; or it is in doubt.        *)
LEMMA AppendOutcome ==
  ASSUME NEW label, NEW phase, NEW next, NEW failed, Append(label, phase, next, failed)
  PROVE  /\ pc = label /\ Aside
         /\ \/ state' = state /\ pc' = failed
            \/ /\ AppendPhase(state, state', Req, Lead, phase)
               /\ pc' = failed \/ (pc' = next /\ held' = state'.tickets[Req])
  BY DEF Append, LedgerCall, Goto, Aside, attempt, resources

(* So with advance_compensation_status.                                    *)
LEMMA JournalledOutcome ==
  ASSUME NEW label, NEW status, NEW STATE next, NEW failed, Journalled(label, status, next, failed)
  PROVE  /\ pc = label /\ Aside
         /\ \/ state' = state /\ pc' = failed
            \/ /\ AdvanceCompensationStatus(state, state', Req, Lead, status)
               /\ pc' = failed \/ pc' = next
  BY DEF Journalled, LedgerCall, Goto, Aside, attempt, resources

(* A step to a phase keeps the invariant, in doubt or not.                 *)
LEMMA AppendSteps ==
  ASSUME PreInv,
         \/ ValidateOffer \/ AppendProjected \/ AppendHomeCommitted
         \/ AppendRegistryReserved \/ AppendRolledBack \/ AppendQuarantined
  PROVE  PreInv'
<1> USE PreStartAssumption
    DEF PreInv, AttemptOK, JournalAt, JournalOK, Has, RegistryOK, ResourcesOK, TicketOK, ticket,
        Aside, Label, Unjournalled, Releasing, Released, Anywhere, Leased, Housed, MayBeEntered,
        AfterRevoke
<1>1. CASE ValidateOffer
  <2>1. /\ pc = "offer" /\ Aside
        /\ \/ state' = state /\ pc' = "end"
           \/ /\ AppendPhase(state, state', Req, Lead, "OFFER_VALIDATED")
              /\ pc' = "end" \/ (pc' = "allocate" /\ held' = state'.tickets[Req])
    BY <1>1, AppendOutcome DEF ValidateOffer
  <2>2. CASE state' = state /\ pc' = "end"
    BY <2>1, <2>2
  <2>3. CASE AppendPhase(state, state', Req, Lead, "OFFER_VALIDATED")
    <3>1. /\ state'.tickets[Req].phase = "OFFER_VALIDATED"
          /\ state'.journals = state.journals /\ state'.intents = state.intents
      BY <2>3, AppendEffect
    <3> QED
      BY <2>1, <3>1
  <2> QED
    BY <2>1, <2>2, <2>3
<1>2. CASE AppendProjected
  <2>1. /\ pc = "projected" /\ Aside
        /\ \/ state' = state /\ pc' = "compensate"
           \/ /\ AppendPhase(state, state', Req, Lead, "PROJECTED")
              /\ pc' = "compensate" \/ (pc' = "home" /\ held' = state'.tickets[Req])
    BY <1>2, AppendOutcome DEF AppendProjected
  <2>2. CASE state' = state /\ pc' = "compensate"
    BY <2>1, <2>2
  <2>3. CASE AppendPhase(state, state', Req, Lead, "PROJECTED")
    <3>1. /\ state'.tickets[Req].phase = "PROJECTED"
          /\ state'.journals = state.journals /\ state'.intents = state.intents
      BY <2>3, AppendEffect
    <3> QED
      BY <2>1, <3>1
  <2> QED
    BY <2>1, <2>2, <2>3
<1>3. CASE AppendHomeCommitted
  <2>1. /\ pc = "homed" /\ Aside
        /\ \/ state' = state /\ pc' = "compensate"
           \/ /\ AppendPhase(state, state', Req, Lead, "HOME_COMMITTED")
              /\ pc' = "compensate" \/ (pc' = "intent" /\ held' = state'.tickets[Req])
    BY <1>3, AppendOutcome DEF AppendHomeCommitted
  <2>2. CASE state' = state /\ pc' = "compensate"
    BY <2>1, <2>2
  <2>3. CASE AppendPhase(state, state', Req, Lead, "HOME_COMMITTED")
    <3>1. /\ state'.tickets[Req].phase = "HOME_COMMITTED"
          /\ state'.journals = state.journals /\ state'.intents = state.intents
      BY <2>3, AppendEffect
    <3> QED
      BY <2>1, <3>1
  <2> QED
    BY <2>1, <2>2, <2>3
<1>4. CASE AppendRegistryReserved
  <2>1. /\ pc = "reserved" /\ Aside
        /\ \/ state' = state /\ pc' = "compensate"
           \/ /\ AppendPhase(state, state', Req, Lead, "REGISTRY_RESERVED")
              /\ pc' = "compensate" \/ (pc' = "granted" /\ held' = state'.tickets[Req])
    BY <1>4, AppendOutcome DEF AppendRegistryReserved
  <2>2. CASE state' = state /\ pc' = "compensate"
    BY <2>1, <2>2
  <2>3. CASE AppendPhase(state, state', Req, Lead, "REGISTRY_RESERVED")
    <3>1. /\ state'.tickets[Req].phase = "REGISTRY_RESERVED"
          /\ state'.journals = state.journals /\ state'.intents = state.intents
      BY <2>3, AppendEffect
    <3> QED
      BY <2>1, <3>1
  <2> QED
    BY <2>1, <2>2, <2>3
<1>5. CASE AppendRolledBack
  <2>1. /\ pc = "c_rolled_back" /\ Aside
        /\ \/ state' = state /\ pc' = "end"
           \/ /\ AppendPhase(state, state', Req, Lead, "ROLLED_BACK")
              /\ pc' = "end" \/ (pc' = "end" /\ held' = state'.tickets[Req])
    BY <1>5, AppendOutcome DEF AppendRolledBack
  <2>2. CASE state' = state /\ pc' = "end"
    BY <2>1, <2>2
  <2>3. CASE AppendPhase(state, state', Req, Lead, "ROLLED_BACK")
    <3>1. /\ state'.tickets[Req].phase = "ROLLED_BACK"
          /\ state'.journals = state.journals /\ state'.intents = state.intents
      BY <2>3, AppendEffect
    <3> QED
      BY <2>1, <3>1
  <2> QED
    BY <2>1, <2>2, <2>3
<1>6. CASE AppendQuarantined
  <2>1. /\ pc = "q_phase" /\ Aside
        /\ \/ state' = state /\ pc' = "end"
           \/ /\ AppendPhase(state, state', Req, Lead, "QUARANTINED")
              /\ pc' = "end" \/ (pc' = "end" /\ held' = state'.tickets[Req])
    BY <1>6, AppendOutcome DEF AppendQuarantined
  <2>2. CASE state' = state /\ pc' = "end"
    BY <2>1, <2>2
  <2>3. CASE AppendPhase(state, state', Req, Lead, "QUARANTINED")
    <3>1. /\ state'.tickets[Req].phase = "QUARANTINED"
          /\ state'.journals = state.journals /\ state'.intents = state.intents
      BY <2>3, AppendEffect
    <3> QED
      BY <2>1, <3>1
  <2> QED
    BY <2>1, <2>2, <2>3
<1> QED
  BY <1>1, <1>2, <1>3, <1>4, <1>5, <1>6

LEMMA JournalSteps ==
  ASSUME PreInv,
         \/ JournalReleased \/ JournalHomeFailed \/ JournalLeaseFailed \/ JournalCompensated
  PROVE  PreInv'
<1> USE PreStartAssumption
    DEF PreInv, AttemptOK, JournalAt, JournalOK, Has, RegistryOK, ResourcesOK, TicketOK, ticket,
        Aside, Label, Unjournalled, Releasing, Released, Anywhere, Leased, Housed, MayBeEntered,
        AfterRevoke
<1>1. CASE JournalReleased
  <2>1. /\ pc = "c_released" /\ Aside
        /\ \/ state' = state /\ pc' = "end"
           \/ /\ AdvanceCompensationStatus(state, state', Req, Lead, "REGISTRY_RELEASED")
              /\ pc' = "end" \/ pc' = (IF homed THEN "c_home" ELSE "c_lease")
    BY <1>1, JournalledOutcome DEF JournalReleased
  <2>2. CASE state' = state /\ pc' = "end"
    BY <2>1, <2>2
  <2>3. CASE AdvanceCompensationStatus(state, state', Req, Lead, "REGISTRY_RELEASED")
    BY <2>1, <2>3, StatusEffect
  <2> QED
    BY <2>1, <2>2, <2>3
<1>2. CASE JournalHomeFailed
  <2>1. /\ pc = "c_home_failed" /\ Aside
        /\ \/ state' = state /\ pc' = "end"
           \/ /\ AdvanceCompensationStatus(state, state', Req, Lead, "HOME_RELEASE_FAILED")
              /\ pc' = "end" \/ pc' = "q_journal"
    BY <1>2, JournalledOutcome DEF JournalHomeFailed
  <2>2. CASE state' = state /\ pc' = "end"
    BY <2>1, <2>2
  <2>3. CASE AdvanceCompensationStatus(state, state', Req, Lead, "HOME_RELEASE_FAILED")
    BY <2>1, <2>3, StatusEffect
  <2> QED
    BY <2>1, <2>2, <2>3
<1>3. CASE JournalLeaseFailed
  <2>1. /\ pc = "c_lease_failed" /\ Aside
        /\ \/ state' = state /\ pc' = "end"
           \/ /\ AdvanceCompensationStatus(state, state', Req, Lead, "LEASE_RELEASE_FAILED")
              /\ pc' = "end" \/ pc' = "q_journal"
    BY <1>3, JournalledOutcome DEF JournalLeaseFailed
  <2>2. CASE state' = state /\ pc' = "end"
    BY <2>1, <2>2
  <2>3. CASE AdvanceCompensationStatus(state, state', Req, Lead, "LEASE_RELEASE_FAILED")
    BY <2>1, <2>3, StatusEffect
  <2> QED
    BY <2>1, <2>2, <2>3
<1>4. CASE JournalCompensated
  <2>1. /\ pc = "c_compensated" /\ Aside
        /\ \/ state' = state /\ pc' = "end"
           \/ /\ AdvanceCompensationStatus(state, state', Req, Lead, "COMPENSATED")
              /\ pc' = "end" \/ pc' = "c_rolled_back"
    BY <1>4, JournalledOutcome DEF JournalCompensated
  <2>2. CASE state' = state /\ pc' = "end"
    BY <2>1, <2>2
  <2>3. CASE AdvanceCompensationStatus(state, state', Req, Lead, "COMPENSATED")
    BY <2>1, <2>3, StatusEffect
  <2> QED
    BY <2>1, <2>2, <2>3
<1> QED
  BY <1>1, <1>2, <1>3, <1>4

LEMMA OtherCalls ==
  ASSUME PreInv,
         ReserveLease \/ RecordIntent \/ JournalFailure \/ JournalQuarantine
  PROVE  PreInv'
<1> USE PreStartAssumption
    DEF PreInv, AttemptOK, JournalAt, JournalOK, Has, RegistryOK, ResourcesOK, TicketOK, ticket,
        Aside, Label, Unjournalled, Releasing, Released, Anywhere, Leased, Housed, MayBeEntered,
        AfterRevoke
<1>1. CASE ReserveLease
  <2> DEFINE ref == [lease |-> Lease, request |-> Req, revision |-> ticket.revision]
  <2>1. /\ pc = "lease" /\ Aside
        /\ \/ state' = state /\ pc' = "end"
           \/ AppendLeaseReserved(state, state', Req, Lead, ref) /\ pc' \in {"issue", "end"}
    BY <1>1 DEF ReserveLease, LedgerCall, Goto, attempt, resources
  <2> HIDE DEF ref
  <2>2. CASE state' = state /\ pc' = "end"
    BY <2>1, <2>2
  <2>3. CASE AppendLeaseReserved(state, state', Req, Lead, ref) /\ pc' \in {"issue", "end"}
    BY <2>1, <2>3, LeaseEffect
  <2> QED
    BY <2>1, <2>2, <2>3
<1>2. CASE RecordIntent
  <2>1. /\ pc = "intent" /\ Aside
        /\ \/ state' = state /\ pc' = "compensate"
           \/ RecordRegistryIntent(state, state', Req, Lead) /\ pc' \in {"snapshot", "compensate"}
    BY <1>2 DEF RecordIntent, LedgerCall, Goto, attempt, resources
  <2>2. CASE state' = state /\ pc' = "compensate"
    BY <2>1, <2>2
  <2>3. CASE /\ RecordRegistryIntent(state, state', Req, Lead)
             /\ pc' \in {"snapshot", "compensate"}
    BY <2>1, <2>3, IntentEffect
  <2> QED
    BY <2>1, <2>2, <2>3
<1>3. CASE JournalFailure
  <2> DEFINE next == IF reserved = None THEN "c_released" ELSE "c_registry"
  <2>1. /\ pc = "c_journal" /\ Aside
        /\ \/ state' = state /\ pc' = "end"
           \/ RecordFailure(state, state', Req, Lead, "PRE_A3") /\ pc' \in {next, "end"}
    BY <1>3 DEF JournalFailure, LedgerCall, Goto, attempt, resources
  <2>2. CASE state' = state /\ pc' = "end"
    BY <2>1, <2>2
  <2>3. CASE RecordFailure(state, state', Req, Lead, "PRE_A3") /\ pc' \in {next, "end"}
    <3>1. InitialStatus("PRE_A3") = "REGISTRY_RELEASE_PENDING"
      BY DEF InitialStatus
    <3> QED
      BY <2>1, <2>3, <3>1, FailureEffect
  <2> QED
    BY <2>1, <2>2, <2>3
<1>4. CASE JournalQuarantine
  <2>1. /\ pc = "q_journal" /\ Aside
        /\ \/ state' = state /\ pc' = "end"
           \/ state' = state /\ pc' = "q_phase" /\ Has(state, "QUARANTINED")
           \/ RecordFailure(state, state', Req, Lead, origin) /\ pc' \in {"q_phase", "end"}
           \/ /\ AdvanceCompensationStatus(state, state', Req, Lead, "QUARANTINED")
              /\ pc' \in {"q_phase", "end"}
    BY <1>4 DEF JournalQuarantine, LedgerCall, Goto, attempt, resources
  <2>2. CASE /\ state' = state
             /\ pc' = "end" \/ (pc' = "q_phase" /\ Has(state, "QUARANTINED"))
    BY <2>1, <2>2
  <2>3. CASE RecordFailure(state, state', Req, Lead, origin) /\ pc' \in {"q_phase", "end"}
    <3>1. InitialStatus(origin) = "QUARANTINED"
      BY DEF InitialStatus
    <3> QED
      BY <2>1, <2>3, <3>1, FailureEffect
  <2>4. CASE /\ AdvanceCompensationStatus(state, state', Req, Lead, "QUARANTINED")
             /\ pc' \in {"q_phase", "end"}
    BY <2>1, <2>4, StatusEffect
  <2> QED
    BY <2>1, <2>2, <2>3, <2>4
<1> QED
  BY <1>1, <1>2, <1>3, <1>4

-----------------------------------------------------------------------------
(* The theorems *)

(* coordinate, compensate and quarantine: at each call, the journal, the   *)
(* registry, the home and the lease are as PreInv says.                    *)
THEOREM PreStartInvariant == PreSpec => []PreInv
<1>1. PreInv /\ [PreNext]_preVars => PreInv'
  <2> SUFFICES ASSUME PreInv, [PreNext]_preVars PROVE PreInv'
    OBVIOUS
  <2>1. CASE Coordinate
    BY <2>1, QuietSteps, AppendSteps, OtherCalls DEF Coordinate
  <2>2. CASE Compensate
    BY <2>2, QuietSteps, AppendSteps, JournalSteps, OtherCalls DEF Compensate
  <2>3. CASE Quarantine \/ Crash \/ Recover \/ OtherWorker
    BY <2>3, QuietSteps, AppendSteps, OtherCalls DEF Quarantine
  <2>4. CASE UNCHANGED preVars
    BY <2>4 DEF preVars, attempt, resources, PreInv, AttemptOK, JournalAt, JournalOK, Has,
       RegistryOK, ResourcesOK, TicketOK, ticket
  <2> QED
    BY <2>1, <2>2, <2>3, <2>4 DEF PreNext
<1> QED
  BY PreStartInit, <1>1, PTL DEF PreSpec

(* compensate: credentials are given back only when nothing that the       *)
(* attempt knows of can use them, and a rolled-back ticket has given them  *)
(* back.                                                                   *)
THEOREM PreStartRolledBackIsClean == PreSpec => []RolledBackIsClean
<1>1. PreInv => RolledBackIsClean
  BY DEF PreInv, ResourcesOK, TicketOK, RolledBackIsClean
<1> QED
  BY <1>1, PreStartInvariant, PTL

(* coordinate: the holder of a live receipt has all the worker needs, and  *)
(* a registry entry is one the ledger announced.                           *)
THEOREM PreStartGrantedIsComplete == PreSpec => []GrantedIsComplete
<1>1. PreInv => GrantedIsComplete
  BY DEF PreInv, RegistryOK, ResourcesOK, TicketOK, GrantedIsComplete, Leased, Housed
<1> QED
  BY <1>1, PreStartInvariant, PTL

(* append_phase after a compensation: a worker that need not be resumable  *)
(* is rolled back, or the ledger would still accept that.                  *)
THEOREM PreStartCompensatedCanEnd == PreSpec => []CompensatedCanEnd
<1>1. PreInv => CompensatedCanEnd
  BY DEF PreInv, JournalOK, CompensatedCanEnd, Compensated, CanRollBack, JournalAllows,
     TerminalBinding, ticket
<1> QED
  BY <1>1, PreStartInvariant, PTL

(* quarantine: once the journal says so, no step takes the registry entry, *)
(* the home or the lease away.                                             *)
THEOREM PreStartKeptInQuarantine == PreSpec => KeptInQuarantine
<1>1. PreInv /\ [PreNext]_preVars => [NothingDestroyed]_preVars
  <2> SUFFICES ASSUME PreInv, PreNext, Has(state, "QUARANTINED")
               PROVE  lease' = lease /\ home' = home /\ registry'.worker = registry.worker
    BY DEF NothingDestroyed, Has
  <2>1. pc \in Anywhere \cup {"q_phase"}
    BY DEF PreInv, AttemptOK, JournalAt, Has, Label
  <2>2. CASE OtherWorker
    BY <2>2 DEF OtherWorker, PreInv, AttemptOK, FleetSnapshot
  <2>3. CASE BeginQuarantine \/ JournalQuarantine \/ AppendQuarantined \/ Crash \/ Recover
    BY <2>3 DEF BeginQuarantine, JournalQuarantine, AppendQuarantined, Append, Crash, Recover,
       resources
  <2>4. ~ Coordinate /\ ~ Compensate
    BY <2>1 DEF Anywhere, Coordinate, Compensate, ValidateOffer, Allocate, ReserveLease,
       IssueReservation, Project, AppendProjected, CommitHome, AppendHomeCommitted, RecordIntent,
       ReadSnapshot, ReserveRegistry, ClassifyReserve, AppendRegistryReserved, UseReceipt,
       BeginCompensation, JournalFailure, InspectRegistry, ReleaseRegistry, ClassifyRelease,
       JournalReleased, CleanupHome, JournalHomeFailed, RevokeLease, JournalLeaseFailed,
       JournalCompensated, AppendRolledBack, Append, Journalled, Classify
  <2> QED
    BY <2>2, <2>3, <2>4 DEF PreNext, Quarantine
<1> QED
  BY <1>1, PreStartInvariant, PTL DEF PreSpec, KeptInQuarantine
=============================================================================
