---------------------------- MODULE SpawnLedger ----------------------------
(***************************************************************************)
(* WorkerSpawnLedger of the_hive/worker_spawn_ledger.py: one ticket per    *)
(* spawn request, its phase, the capsule it can be resumed from, and the   *)
(* failure journal that decides how it may end.  Every operation reads the *)
(* aggregate, checks it and replaces it as a whole; here it is one step    *)
(* from an aggregate s to an aggregate s2.  SpawnLedgerClients shows that  *)
(* the compare-and-swap makes it so; PreStart drives the same operations.  *)
(*                                                                         *)
(* Topic, policy, principal and resolution digests are copied unchanged    *)
(* from a ticket to the capsule and to the ticket that resumes it, and are *)
(* only compared for equality: a caller that presents others is refused.   *)
(***************************************************************************)
EXTENDS Naturals, FiniteSets

CONSTANTS
  Requests,          \* request ids; the ticket id is a function of it
  Leads,             \* verified teamlead principals
  Leases,            \* credential leases of the allocator
  Capsules,          \* digests of resume capsules
  None,              \* Python's None
  MaxFence,          \* bound of the fence epochs a caller presents
  MaxStateRevision   \* bound of the number of commits

ASSUME NoneAssumption == None \notin Capsules
ASSUME LedgerBoundAssumption == MaxFence \in Nat /\ MaxStateRevision \in Nat

SpawnPhase ==
  {"REQUESTED", "CLAIMED", "OFFER_VALIDATED", "LEASE_RESERVED", "PROJECTED",
   "HOME_COMMITTED", "REGISTRY_RESERVED", "START_GRANTED", "RUNNING",
   "DRAINING", "CHECKPOINTED", "STOPPED", "DENIED", "ROLLED_BACK", "QUARANTINED"}

WorkerFailureOrigin == {"PRE_A3", "A3_ENTERED", "RECOVERY_UNKNOWN"}

CompensationStatus ==
  {"REGISTRY_RELEASE_PENDING", "REGISTRY_RELEASED", "HOME_RELEASE_FAILED",
   "LEASE_RELEASE_FAILED", "COMPENSATED", "QUARANTINED"}

(* The phases whose row of _NEXT_PHASES offers the two failure endings.    *)
PreStartPhase ==
  {"LEASE_RESERVED", "PROJECTED", "HOME_COMMITTED", "REGISTRY_RESERVED", "START_GRANTED"}

(* _NEXT_PHASES; the phases without a row are the final ones.              *)
NextPhases(p) ==
  (CASE p = "CLAIMED"           -> {"OFFER_VALIDATED"}
     [] p = "OFFER_VALIDATED"   -> {"LEASE_RESERVED"}
     [] p = "LEASE_RESERVED"    -> {"PROJECTED"}
     [] p = "PROJECTED"         -> {"HOME_COMMITTED"}
     [] p = "HOME_COMMITTED"    -> {"REGISTRY_RESERVED"}
     [] p = "REGISTRY_RESERVED" -> {"START_GRANTED"}
     [] p = "START_GRANTED"     -> {"RUNNING"}
     [] p = "RUNNING"           -> {"DRAINING"}
     [] p = "DRAINING"          -> {"CHECKPOINTED"}
     [] p = "CHECKPOINTED"      -> {"STOPPED"}
     [] OTHER                   -> {})
  \cup (IF p \in {"REQUESTED", "CLAIMED", "OFFER_VALIDATED"} THEN {"DENIED"} ELSE {})
  \cup (IF p \in PreStartPhase THEN {"ROLLED_BACK", "QUARANTINED"} ELSE {})
  \cup (IF p \in {"RUNNING", "DRAINING", "CHECKPOINTED"} THEN {"QUARANTINED"} ELSE {})

FinalPhase == {"STOPPED", "DENIED", "ROLLED_BACK", "QUARANTINED"}

(* allowed_statuses of advance_compensation_status.                        *)
NextStatuses(status) ==
  CASE status = "REGISTRY_RELEASE_PENDING" -> {"REGISTRY_RELEASED", "QUARANTINED"}
    [] status = "REGISTRY_RELEASED" ->
         {"COMPENSATED", "HOME_RELEASE_FAILED", "LEASE_RELEASE_FAILED", "QUARANTINED"}
    [] status \in {"HOME_RELEASE_FAILED", "LEASE_RELEASE_FAILED"} -> {"QUARANTINED"}
    [] OTHER -> {}

-----------------------------------------------------------------------------
(* The aggregate: SpawnLedgerStateV2 and the records it holds.             *)

Revision == Nat \ {0}

(* LeaseBindingReferenceV1: the digest covers the lease and the allocation *)
(* ticket it was reserved for, ticket id and ledger revision included.     *)
Reference == [lease : Leases, request : Requests, revision : Revision]

(* WorkerSpawnTicketV2.  durable: resume_requirement, or a BINDING or      *)
(* PERSISTENT lifecycle (the only use of the two); source: the capsule a   *)
(* resumed worker starts from.                                             *)
Ticket ==
  [phase : SpawnPhase, revision : Revision, fence : Nat, lead : Leads,
   durable : BOOLEAN, lease : Reference \cup {None},
   capsule : Capsules \cup {None}, source : Capsules \cup {None}]

(* WorkerFailureJournalV1; the failure code is determined by the origin.   *)
Journal ==
  [origin : WorkerFailureOrigin, status : CompensationStatus,
   revision : Revision, fence : Nat]

(* SpawnLedgerStateV2.empty.                                               *)
EmptyLedger ==
  [revision |-> 0, tickets |-> <<>>, consumed |-> {}, used |-> {},
   intents |-> {}, journals |-> <<>>]

(* The tuple of tickets, or of journals, with the one of r added or        *)
(* replaced.                                                               *)
Put(f, r, v) == [i \in DOMAIN f \cup {r} |-> IF i = r THEN v ELSE f[i]]

(* _commit: the replacement aggregate.                                     *)
Committed(s, tickets, consumed, used, intents, journals) ==
  [revision |-> s.revision + 1, tickets |-> tickets, consumed |-> consumed,
   used |-> used, intents |-> intents, journals |-> journals]

WithTicket(s, r, t) ==
  Committed(s, Put(s.tickets, r, t), s.consumed, s.used, s.intents, s.journals)

WithTicketAndJournal(s, r, t, j) ==
  Committed(s, Put(s.tickets, r, t), s.consumed, s.used, s.intents, Put(s.journals, r, j))

(* _advance_ticket.                                                        *)
Advanced_SameRevision(t, phase, lease, capsule) ==
  [phase |-> phase, revision |-> t.revision, fence |-> t.fence, lead |-> t.lead,
   durable |-> t.durable, lease |-> lease, capsule |-> capsule, source |-> t.source]

Advanced(t, phase, lease, capsule) ==
  [phase |-> phase, revision |-> t.revision + 1, fence |-> t.fence, lead |-> t.lead,
   durable |-> t.durable, lease |-> lease, capsule |-> capsule, source |-> t.source]

Bumped(t) == Advanced(t, t.phase, t.lease, t.capsule)

Requested(lead, fence, durable, source) ==
  [phase |-> "REQUESTED", revision |-> 1, fence |-> fence, lead |-> lead,
   durable |-> durable, lease |-> None, capsule |-> None, source |-> source]

(* _require_ticket and _require_teamlead.                                  *)
Authorized(s, r, lead) == r \in DOMAIN s.tickets /\ s.tickets[r].lead = lead

-----------------------------------------------------------------------------
(* The operations.                                                         *)

PublishRequested(s, s2, r, lead, fence, durable) ==
  /\ r \notin DOMAIN s.tickets
  /\ s2 = WithTicket(s, r, Requested(lead, fence, durable, None))

Claim(s, s2, r, lead) ==
  /\ Authorized(s, r, lead)
  /\ s.tickets[r].phase = "REQUESTED"
  /\ LET t == s.tickets[r]
     IN  s2 = WithTicket(s, r, Advanced(t, "CLAIMED", t.lease, t.capsule))

RecordRegistryIntent(s, s2, r, lead) ==
  /\ Authorized(s, r, lead)
  /\ r \notin s.intents
  /\ s2 = Committed(s, Put(s.tickets, r, Bumped(s.tickets[r])), s.consumed, s.used,
                    s.intents \cup {r}, s.journals)

InitialStatus(origin) ==
  IF origin = "PRE_A3" THEN "REGISTRY_RELEASE_PENDING" ELSE "QUARANTINED"

(* In any phase: the operation does not look at it.                        *)
RecordFailure(s, s2, r, lead, origin) ==
  /\ Authorized(s, r, lead)
  /\ r \notin DOMAIN s.journals
  /\ LET t == Bumped(s.tickets[r])
     IN  s2 = WithTicketAndJournal(s, r, t,
                [origin |-> origin, status |-> InitialStatus(origin),
                 revision |-> t.revision, fence |-> t.fence])

(* The journal is of this ticket and not from its future.                  *)
JournalNotDrifted(s, r) ==
  /\ s.journals[r].fence = s.tickets[r].fence
  /\ s.journals[r].revision <= s.tickets[r].revision

AdvanceCompensationStatus_KeepsRevision(s, s2, r, lead, status) ==
  /\ Authorized(s, r, lead)
  /\ r \in DOMAIN s.journals
  /\ JournalNotDrifted(s, r)
  /\ status \in NextStatuses(s.journals[r].status)
  /\ s2 = WithTicketAndJournal(s, r, Bumped(s.tickets[r]),
             [origin |-> s.journals[r].origin, status |-> status,
              revision |-> s.journals[r].revision, fence |-> s.journals[r].fence])

AdvanceCompensationStatus(s, s2, r, lead, status) ==
  /\ Authorized(s, r, lead)
  /\ r \in DOMAIN s.journals
  /\ JournalNotDrifted(s, r)
  /\ status \in NextStatuses(s.journals[r].status)
  /\ LET t == Bumped(s.tickets[r])
     IN  s2 = WithTicketAndJournal(s, r, t,
                [origin |-> s.journals[r].origin, status |-> status,
                 revision |-> t.revision, fence |-> t.fence])

(* A journal, where there is one, must be of this very revision, and have  *)
(* come to the ending the caller asks for.                                 *)
JournalAllows_AnyOrigin(s, r, phase) ==
  r \in DOMAIN s.journals =>
    LET j == s.journals[r] IN
    phase \in {"ROLLED_BACK", "QUARANTINED"} =>
      j.revision = s.tickets[r].revision /\ j.fence = s.tickets[r].fence

JournalAllows(s, r, phase) ==
  r \in DOMAIN s.journals =>
    LET j == s.journals[r] IN
    /\ phase \in {"ROLLED_BACK", "QUARANTINED"} =>
         j.revision = s.tickets[r].revision /\ j.fence = s.tickets[r].fence
    /\ phase = "ROLLED_BACK" => j.origin = "PRE_A3" /\ j.status = "COMPENSATED"
    /\ phase = "QUARANTINED" => j.status = "QUARANTINED"

(* _require_terminal_binding, for the phases append_phase asks it for.     *)
TerminalBinding_OnlyStopped(t, phase) ==
  phase = "STOPPED" => (t.durable => t.capsule # None)

TerminalBinding(t, phase) ==
  phase \in {"ROLLED_BACK", "CHECKPOINTED", "STOPPED"} => (t.durable => t.capsule # None)

(* append_phase to any phase but LEASE_RESERVED.                           *)
AppendPhase(s, s2, r, lead, phase) ==
  /\ Authorized(s, r, lead)
  /\ phase \in NextPhases(s.tickets[r].phase) \ {"LEASE_RESERVED"}
  /\ JournalAllows(s, r, phase)
  /\ TerminalBinding(s.tickets[r], phase)
  /\ LET t == s.tickets[r]
     IN  s2 = WithTicket(s, r, Advanced(t, phase, t.lease, t.capsule))

(* append_phase to LEASE_RESERVED: _require_allocation_ticket accepts only *)
(* a lease reserved for this ticket at this revision, and the reference    *)
(* must not have been used.                                                *)
AppendLeaseReserved(s, s2, r, lead, ref) ==
  /\ Authorized(s, r, lead)
  /\ s.tickets[r].phase = "OFFER_VALIDATED"
  /\ ref.request = r /\ ref.revision = s.tickets[r].revision
  /\ ref \notin s.used
  /\ s2 = Committed(s,
            Put(s.tickets, r,
                Advanced(s.tickets[r], "LEASE_RESERVED", ref, s.tickets[r].capsule)),
            s.consumed, s.used \cup {ref}, s.intents, s.journals)

(* Not consumed, and not the capsule of any ticket.                        *)
CapsuleUnused_NotConsumed(s, capsule) == capsule \notin s.consumed

CapsuleUnused(s, capsule) ==
  /\ capsule \notin s.consumed
  /\ \A i \in DOMAIN s.tickets : s.tickets[i].capsule # capsule

BindResumeCapsule(s, s2, r, lead, capsule) ==
  /\ Authorized(s, r, lead)
  /\ s.tickets[r].phase \in PreStartPhase \cup {"RUNNING", "DRAINING"}
  /\ s.tickets[r].lease # None          \* account_binding_digest, set with the lease
  /\ s.tickets[r].capsule = None
  /\ CapsuleUnused(s, capsule)
  /\ LET t == s.tickets[r]
     IN  s2 = WithTicket(s, r, Advanced(t, t.phase, t.lease, capsule))

FenceAdvances_OrEqual(fence, t) == fence >= t.fence

FenceAdvances(fence, t) == fence > t.fence

(* The capsule can still be claimed.                                       *)
Claimable(s, capsule) == capsule # None /\ capsule \notin s.consumed

(* claim_resume_capsule, from the checkpointed ticket r to a new ticket q. *)
(* The new ticket and the consumption of the capsule are one commit.       *)
ClaimResumeCapsule(s, s2, r, lead, q, fence) ==
  /\ Authorized(s, r, lead)
  /\ s.tickets[r].phase = "CHECKPOINTED"
  /\ FenceAdvances(fence, s.tickets[r])
  /\ q \notin DOMAIN s.tickets
  /\ Claimable(s, s.tickets[r].capsule)
  /\ LET t == s.tickets[r]
     IN  s2 = Committed(s, Put(s.tickets, q, Requested(t.lead, fence, t.durable, t.capsule)),
                        s.consumed \cup {t.capsule}, s.used, s.intents, s.journals)

(* Some call of the lead on the ticket r succeeds.                         *)
Operation(s, s2, r, lead) ==
  \/ \E fence \in 0..MaxFence, durable \in BOOLEAN :
       PublishRequested(s, s2, r, lead, fence, durable)
  \/ Claim(s, s2, r, lead)
  \/ RecordRegistryIntent(s, s2, r, lead)
  \/ \E origin \in WorkerFailureOrigin : RecordFailure(s, s2, r, lead, origin)
  \/ \E status \in CompensationStatus : AdvanceCompensationStatus(s, s2, r, lead, status)
  \/ \E phase \in SpawnPhase : AppendPhase(s, s2, r, lead, phase)
  \/ \E ref \in [lease : Leases, request : Requests, revision : 1..MaxStateRevision] :
       AppendLeaseReserved(s, s2, r, lead, ref)
  \/ \E capsule \in Capsules : BindResumeCapsule(s, s2, r, lead, capsule)
  \/ \E q \in Requests, fence \in 0..MaxFence : ClaimResumeCapsule(s, s2, r, lead, q, fence)

-----------------------------------------------------------------------------
VARIABLE state     \* the aggregate behind the SpawnLedgerStatePort

Init == state = EmptyLedger

Next ==
  /\ state.revision < MaxStateRevision
  /\ \E r \in Requests, lead \in Leads : Operation(state, state', r, lead)

Spec == Init /\ [][Next]_state

-----------------------------------------------------------------------------
(* The aggregate is a well-formed SpawnLedgerStateV2.                      *)
TypeOK ==
  /\ state.revision \in Nat
  /\ DOMAIN state.tickets \subseteq Requests
  /\ \A r \in DOMAIN state.tickets : state.tickets[r] \in Ticket
  /\ state.consumed \subseteq Capsules
  /\ state.used \subseteq Reference
  /\ state.intents \subseteq DOMAIN state.tickets
  /\ DOMAIN state.journals \subseteq DOMAIN state.tickets
  /\ \A r \in DOMAIN state.journals : state.journals[r] \in Journal

(* bind_resume_capsule, claim_resume_capsule: a capsule belongs to at most *)
(* one ticket and is resumed by at most one, and it is recorded as         *)
(* consumed exactly when a ticket resumes from it.                         *)
CapsuleResumedOnce ==
  LET T == state.tickets IN
  /\ \A r, q \in DOMAIN T :
       /\ T[r].capsule # None /\ T[r].capsule = T[q].capsule => r = q
       /\ T[r].source # None /\ T[r].source = T[q].source => r = q
  /\ \A c \in Capsules : c \in state.consumed <=> \E r \in DOMAIN T : T[r].source = c

(* A resumed ticket starts behind a worker that was checkpointed and never *)
(* runs again, and under a later fence: along a chain of resumptions the   *)
(* fence grows, so a late call of an earlier incarnation is recognisable.  *)
ResumedBehindItsSource ==
  LET T == state.tickets IN
  \A r \in DOMAIN T : T[r].source # None =>
    \E q \in DOMAIN T :
      /\ T[q].capsule = T[r].source
      /\ T[q].fence < T[r].fence
      /\ T[q].phase \in {"CHECKPOINTED", "STOPPED", "QUARANTINED"}

(* _require_terminal_binding over any order of calls: a worker that must   *)
(* be resumable is never checkpointed, stopped or rolled back without the  *)
(* capsule it is resumed from.                                             *)
EndedWithCapsule ==
  \A r \in DOMAIN state.tickets :
    LET t == state.tickets[r] IN
    t.durable /\ t.phase \in {"CHECKPOINTED", "STOPPED", "ROLLED_BACK"} => t.capsule # None

(* The "failure journal drift" refusal never fires: a journal always has   *)
(* its ticket's fence and is never from the ticket's future.               *)
JournalsFollowTickets == \A r \in DOMAIN state.journals : JournalNotDrifted(state, r)

(* The ledger only grows.  A ticket that changes gets a new revision, so   *)
(* the revision a caller presents names one ticket value; what identifies  *)
(* a ticket never changes, its lease and its capsule are written once, a   *)
(* final phase stays, and nothing consumed, used or recorded is forgotten. *)
OnlyGrows ==
  /\ \A r \in DOMAIN state.tickets :
       LET t == state.tickets[r]  u == state'.tickets[r] IN
       /\ r \in DOMAIN state'.tickets
       /\ u = t \/ u.revision > t.revision
       /\ <<u.fence, u.lead, u.durable, u.source>> = <<t.fence, t.lead, t.durable, t.source>>
       /\ t.lease # None => u.lease = t.lease
       /\ t.capsule # None => u.capsule = t.capsule
       /\ t.phase \in FinalPhase => u.phase = t.phase
  /\ state.consumed \subseteq state'.consumed
  /\ state.used \subseteq state'.used
  /\ state.intents \subseteq state'.intents
  /\ \A r \in DOMAIN state.journals :
       r \in DOMAIN state'.journals /\ state'.journals[r].origin = state.journals[r].origin

LedgerOnlyGrows == [][OnlyGrows]_state

(* append_phase's journal checks: once a failure is on record a worker is  *)
(* rolled back only when it never reached A3 and its compensation is       *)
(* complete, and is not quarantined unless the journal says so.            *)
EndsAsJournalled ==
  \A r \in DOMAIN state.journals :
    LET before == state.tickets[r].phase  after == state'.tickets[r].phase IN
    before # after =>
      /\ after = "ROLLED_BACK" =>
           state'.journals[r].origin = "PRE_A3" /\ state'.journals[r].status = "COMPENSATED"
      /\ after = "QUARANTINED" => state'.journals[r].status = "QUARANTINED"

JournalDecidesTheEnd == [][EndsAsJournalled]_state
=============================================================================
