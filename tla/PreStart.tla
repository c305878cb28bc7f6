------------------------------ MODULE PreStart ------------------------------
(***************************************************************************)
(* dynamic_worker_coordinator.py: one claimed spawn ticket on its way to a *)
(* worker that may be started.  coordinate reserves a lease, a home and a  *)
(* registry entry and acknowledges each in the spawn ledger;               *)
(* compensate_not_started gives them back in the reverse order;            *)
(* quarantine_unknown_or_started keeps everything where the outcome of a   *)
(* step is in doubt.  Each call of the ledger, the registry, the home      *)
(* broker or the allocator is one step; each may fail, and a write may     *)
(* fail after it took effect.  The process may die between two steps;      *)
(* recovery then quarantines the ticket.                                   *)
(***************************************************************************)
EXTENDS SpawnLedger

CONSTANTS
  Req,              \* the request of the ticket
  Lead,             \* its teamlead
  Lease,            \* the lease the allocator hands out
  MaxFaults,        \* bound of the calls that fail
  MaxOthers         \* bound of registry changes by other workers

(* What the registry port reads: a generation, and whether the worker is   *)
(* entered in it.                                                          *)
FleetSnapshot == [generation : Nat, worker : BOOLEAN]

ASSUME PreStartAssumption ==
  /\ None \notin FleetSnapshot
  /\ Req \in Requests /\ Lead \in Leads /\ Lease \in Leases
  /\ MaxFaults \in Nat /\ MaxOthers \in Nat

VARIABLES
  pc,         \* the next call of the coordinator
  held,       \* the ticket the attempt holds
  receipt,    \* _receipt_states of the attempt's receipt, "none" before it
  before,     \* registry_before
  reserved,   \* registry_reserved: the snapshot the attempt wants to install
  homed,      \* home_receipt is not None
  origin,     \* the failure origin a quarantine would journal
  lease,      \* the lease: none, RESERVED or REVOKED
  home,       \* the worker's home: absent, committed or cleaned
  registry,   \* the fleet registry: its generation, and whether the worker is in it
  faults,     \* calls that failed
  others      \* registry changes by other workers

attempt == <<receipt, before, reserved, homed, origin>>
resources == <<lease, home, registry>>
preVars == <<state, pc, held, attempt, resources, faults, others>>

(* The ledger with the ticket of Req just claimed; the worker may be one   *)
(* that must be resumable.                                                 *)
ClaimedLedger(durable) ==
  LET t == Advanced(Requested(Lead, 1, durable, None), "CLAIMED", None, None) IN
  [revision |-> 2, tickets |-> Put(<<>>, Req, t), consumed |-> {}, used |-> {},
   intents |-> {}, journals |-> <<>>]

PreInit ==
  /\ \E durable \in BOOLEAN : state = ClaimedLedger(durable)
  /\ pc = "offer" /\ held = state.tickets[Req]
  /\ receipt = "none" /\ before = None /\ reserved = None /\ homed = FALSE
  /\ origin = "RECOVERY_UNKNOWN"
  /\ lease = "none" /\ home = "absent"
  /\ registry = [generation |-> 0, worker |-> FALSE]
  /\ faults = 0 /\ others = 0

ticket == state.tickets[Req]

Fault == faults < MaxFaults /\ faults' = faults + 1

Goto(label) == pc' = label

(* A ledger operation: it commits, is refused by the ledger's rules, or    *)
(* fails at the port - without effect, or after the swap took effect.      *)
LedgerCall(legal, step, next, failed) ==
  \/ /\ legal /\ step
     /\ held' = state'.tickets[Req] /\ Goto(next) /\ UNCHANGED faults
  \/ legal /\ step /\ Fault /\ Goto(failed) /\ UNCHANGED held
  \/ Fault /\ Goto(failed) /\ UNCHANGED <<state, held>>
  \/ ~ legal /\ Goto(failed) /\ UNCHANGED <<state, held, faults>>

Append(label, phase, next, failed) ==
  /\ pc = label
  /\ LedgerCall(phase \in NextPhases(ticket.phase) /\ JournalAllows(state, Req, phase)
                  /\ TerminalBinding(ticket, phase),
                AppendPhase(state, state', Req, Lead, phase), next, failed)
  /\ UNCHANGED <<attempt, resources, others>>

Journalled(label, status, next, failed) ==
  /\ pc = label
  /\ LedgerCall(status \in NextStatuses(state.journals[Req].status),
                AdvanceCompensationStatus(state, state', Req, Lead, status), next, failed)
  /\ UNCHANGED <<attempt, resources, others>>

-----------------------------------------------------------------------------
(* coordinate.  A failure up to the reservation ends it; after that the    *)
(* attempt has a receipt and is compensated or quarantined.                *)

ValidateOffer == Append("offer", "OFFER_VALIDATED", "allocate", "end")

Allocate ==
  /\ pc = "allocate"
  /\ \/ lease' = "RESERVED" /\ Goto("lease") /\ UNCHANGED faults
     \/ Fault /\ Goto("end") /\ lease' \in {lease, "RESERVED"}
  /\ UNCHANGED <<state, held, attempt, home, registry, others>>

ReserveLease ==
  /\ pc = "lease"
  /\ LedgerCall(TRUE,
       AppendLeaseReserved(state, state', Req, Lead,
         [lease |-> Lease, request |-> Req, revision |-> ticket.revision]),
       "issue", "end")
  /\ UNCHANGED <<attempt, resources, others>>

(* WorkerRegistryReservationIssuerV2.issue, then the receipt.              *)
IssueReservation ==
  /\ pc = "issue"
  /\ \/ receipt' = "active" /\ Goto("project") /\ UNCHANGED faults
     \/ Fault /\ Goto("end") /\ UNCHANGED receipt
  /\ UNCHANGED <<state, held, before, reserved, homed, origin, resources, others>>

Project ==
  /\ pc = "project"
  /\ \/ Goto("projected") /\ UNCHANGED faults
     \/ Fault /\ Goto("compensate")
  /\ UNCHANGED <<state, held, attempt, resources, others>>

AppendProjected == Append("projected", "PROJECTED", "home", "compensate")

(* home_port.commit.  Failed or without a receipt: the home may exist.     *)
CommitHome ==
  /\ pc = "home"
  /\ \/ /\ home' = "committed" /\ homed' = TRUE
        /\ Goto("homed") /\ UNCHANGED faults
     \/ /\ Fault /\ home' \in {home, "committed"}
        /\ Goto("quarantine") /\ UNCHANGED homed
  /\ UNCHANGED <<state, held, receipt, before, reserved, origin, lease, registry, others>>

AppendHomeCommitted == Append("homed", "HOME_COMMITTED", "intent", "compensate")

RecordIntent ==
  /\ pc = "intent"
  /\ LedgerCall(TRUE, RecordRegistryIntent(state, state', Req, Lead), "snapshot", "compensate")
  /\ UNCHANGED <<attempt, resources, others>>

ReadSnapshot ==
  /\ pc = "snapshot"
  /\ \/ before' = registry /\ Goto("cas") /\ UNCHANGED faults
     \/ Fault /\ Goto("quarantine") /\ UNCHANGED before
  /\ UNCHANGED <<state, held, receipt, reserved, homed, origin, resources, others>>

(* The registry's compare_and_swap, by generation.                         *)
Swap(from, to, next, unsure) ==
  \/ /\ registry = from /\ registry' = to /\ Goto(next) /\ UNCHANGED faults
  \/ /\ registry # from /\ Goto(unsure) /\ UNCHANGED <<registry, faults>>
  \/ /\ Fault /\ Goto(unsure)
     /\ registry' \in {registry} \cup (IF registry = from THEN {to} ELSE {})

Successor(snapshot, worker) == [generation |-> snapshot.generation + 1, worker |-> worker]

(* The planner may refuse the reservation, which is an ordinary failure;   *)
(* or the operation refuses on entry (a collision, the lease guard), which *)
(* counts as a swap in doubt that has no candidate to be found.            *)
ReserveRegistry ==
  /\ pc = "cas"
  /\ \/ reserved' = Successor(before, TRUE) /\ Swap(before, reserved', "reserved", "classify")
     \/ Fault /\ pc' \in {"compensate", "quarantine"} /\ UNCHANGED <<reserved, registry>>
  /\ UNCHANGED <<state, held, receipt, before, homed, origin, lease, home, others>>

Classify_Assumes(label, candidate, next) ==
  /\ pc = label /\ Goto(next)
  /\ UNCHANGED <<state, held, attempt, resources, faults, others>>

(* One look at the registry decides whether the swap took effect.          *)
Classify(label, candidate, next) ==
  /\ pc = label
  /\ \/ Goto(IF registry = candidate THEN next ELSE "quarantine") /\ UNCHANGED faults
     \/ Fault /\ Goto("quarantine")
  /\ UNCHANGED <<state, held, attempt, resources, others>>

ClassifyReserve == Classify("classify", reserved, "reserved")

AppendRegistryReserved == Append("reserved", "REGISTRY_RESERVED", "granted", "compensate")

(* The receipt has been returned; its holder starts the worker, or gives   *)
(* it up before A3, or has lost track of it.                               *)
UseReceipt ==
  /\ pc = "granted" /\ receipt = "active"
  /\ \/ Goto("compensate") /\ UNCHANGED origin
     \/ Goto("quarantine") /\ origin' = "A3_ENTERED"
  /\ UNCHANGED <<state, held, receipt, before, reserved, homed, resources, faults, others>>

-----------------------------------------------------------------------------
(* compensate_dynamic_worker_not_started *)

(* The receipt is used once, and only for the ticket as it stands.  The    *)
(* refusal, like every failure below, is swallowed by coordinate.          *)
BeginCompensation ==
  /\ pc = "compensate"
  /\ \/ /\ receipt = "active" /\ held = ticket
        /\ receipt' = "used" /\ Goto("c_journal") /\ UNCHANGED faults
     \/ /\ ~ (receipt = "active" /\ held = ticket)
        /\ Goto("end") /\ UNCHANGED <<receipt, faults>>
     \/ /\ Fault /\ Goto("end") /\ UNCHANGED receipt
  /\ UNCHANGED <<state, held, before, reserved, homed, origin, resources, others>>

(* The attempt has at most one journal, and it is written here.            *)
JournalFailure ==
  /\ pc = "c_journal"
  /\ LedgerCall(Req \notin DOMAIN state.journals,
                RecordFailure(state, state', Req, Lead, "PRE_A3"),
                IF reserved = None THEN "c_released" ELSE "c_registry", "end")
  /\ UNCHANGED <<attempt, resources, others>>

InspectRegistry_Optimistic ==
  /\ pc = "c_registry"
  /\ Goto(IF registry = reserved THEN "c_release" ELSE "c_released")
  /\ UNCHANGED <<state, held, attempt, resources, faults, others>>

InspectRegistry ==
  /\ pc = "c_registry"
  /\ \/ /\ Goto(CASE registry = reserved -> "c_release"
                  [] registry # reserved /\ registry = before -> "c_released"
                  [] OTHER -> "q_journal")
        /\ UNCHANGED faults
     \/ Fault /\ Goto("q_journal")
  /\ UNCHANGED <<state, held, attempt, resources, others>>

ReleaseRegistry ==
  /\ pc = "c_release"
  /\ \/ Swap(reserved, Successor(reserved, FALSE), "c_released", "c_classify")
     \/ Fault /\ pc' \in {"end", "q_journal"} /\ UNCHANGED registry
  /\ UNCHANGED <<state, held, attempt, lease, home, others>>

ClassifyRelease ==
  /\ pc = "c_classify"
  /\ \/ /\ Goto(IF registry = Successor(reserved, FALSE) THEN "c_released" ELSE "q_journal")
        /\ UNCHANGED faults
     \/ Fault /\ Goto("q_journal")
  /\ UNCHANGED <<state, held, attempt, resources, others>>

JournalReleased ==
  Journalled("c_released", "REGISTRY_RELEASED", IF homed THEN "c_home" ELSE "c_lease", "end")

CleanupHome ==
  /\ pc = "c_home"
  /\ \/ home' = "cleaned" /\ Goto("c_lease") /\ UNCHANGED faults
     \/ Fault /\ home' \in {home, "cleaned"} /\ Goto("c_home_failed")
  /\ UNCHANGED <<state, held, attempt, lease, registry, others>>

JournalHomeFailed == Journalled("c_home_failed", "HOME_RELEASE_FAILED", "q_journal", "end")

(* allocator.revoke does not raise (AccountAllocator); an allocator that   *)
(* did would be journalled and quarantined.                                *)
RevokeLease ==
  /\ pc = "c_lease"
  /\ \/ lease' = "REVOKED" /\ Goto("c_compensated") /\ UNCHANGED faults
     \/ Fault /\ Goto("c_lease_failed") /\ UNCHANGED lease
  /\ UNCHANGED <<state, held, attempt, home, registry, others>>

JournalLeaseFailed == Journalled("c_lease_failed", "LEASE_RELEASE_FAILED", "q_journal", "end")

JournalCompensated == Journalled("c_compensated", "COMPENSATED", "c_rolled_back", "end")

AppendRolledBack == Append("c_rolled_back", "ROLLED_BACK", "end", "end")

-----------------------------------------------------------------------------
(* quarantine_dynamic_worker_unknown_or_started *)

(* With the receipt.  If reading the ticket fails, coordinate takes the    *)
(* exception for an ordinary one and compensates; a caller that holds the  *)
(* receipt just gets the error.                                            *)
BeginQuarantine ==
  /\ pc = "quarantine"
  /\ \/ /\ receipt = "active" /\ held = ticket
        /\ receipt' = "used" /\ Goto("q_journal") /\ UNCHANGED faults
     \/ /\ ~ (receipt = "active" /\ held = ticket)
        /\ Goto("end") /\ UNCHANGED <<receipt, faults>>
     \/ /\ Fault
        /\ Goto(IF origin = "A3_ENTERED" THEN "end" ELSE "compensate") /\ UNCHANGED receipt
  /\ UNCHANGED <<state, held, before, reserved, homed, origin, resources, others>>

JournalQuarantine ==
  /\ pc = "q_journal"
  /\ IF Req \notin DOMAIN state.journals
       THEN LedgerCall(TRUE, RecordFailure(state, state', Req, Lead, origin), "q_phase", "end")
       ELSE IF state.journals[Req].status = "QUARANTINED"
         THEN Goto("q_phase") /\ UNCHANGED <<state, held, faults>>
         ELSE LedgerCall("QUARANTINED" \in NextStatuses(state.journals[Req].status),
                AdvanceCompensationStatus(state, state', Req, Lead, "QUARANTINED"),
                "q_phase", "end")
  /\ UNCHANGED <<attempt, resources, others>>

AppendQuarantined_Revokes ==
  /\ pc = "q_phase"
  /\ LedgerCall(TRUE, AppendPhase(state, state', Req, Lead, "QUARANTINED"), "end", "end")
  /\ lease' = "REVOKED"
  /\ UNCHANGED <<attempt, home, registry, others>>

AppendQuarantined == Append("q_phase", "QUARANTINED", "end", "end")

-----------------------------------------------------------------------------
(* The process dies; its receipt dies with it. *)
Crash ==
  /\ pc # "end" /\ Fault
  /\ pc' = "end" /\ receipt' = "none"
  /\ UNCHANGED <<state, held, before, reserved, homed, origin, resources, others>>

(* Recovery: quarantine with the ticket as read from the ledger. *)
Recover ==
  /\ pc = "end"
  /\ ticket.phase \notin FinalPhase
  /\ faults < MaxFaults       \* each try is counted as a fault
  /\ faults' = faults + 1
  /\ held' = ticket /\ origin' = "RECOVERY_UNKNOWN" /\ receipt' = "none"
  /\ Goto("q_journal")
  /\ UNCHANGED <<state, before, reserved, homed, resources, others>>

(* Another worker enters or leaves the registry. *)
OtherWorker ==
  /\ others < MaxOthers
  /\ others' = others + 1
  /\ registry' = [registry EXCEPT !.generation = @ + 1]
  /\ UNCHANGED <<state, pc, held, attempt, lease, home, faults>>

Coordinate ==
  \/ ValidateOffer \/ Allocate \/ ReserveLease \/ IssueReservation
  \/ Project \/ AppendProjected \/ CommitHome \/ AppendHomeCommitted
  \/ RecordIntent \/ ReadSnapshot \/ ReserveRegistry \/ ClassifyReserve
  \/ AppendRegistryReserved \/ UseReceipt

Compensate ==
  \/ BeginCompensation \/ JournalFailure \/ InspectRegistry \/ ReleaseRegistry
  \/ ClassifyRelease \/ JournalReleased \/ CleanupHome \/ JournalHomeFailed
  \/ RevokeLease \/ JournalLeaseFailed \/ JournalCompensated \/ AppendRolledBack

Quarantine == BeginQuarantine \/ JournalQuarantine \/ AppendQuarantined

PreNext == Coordinate \/ Compensate \/ Quarantine \/ Crash \/ Recover \/ OtherWorker

PreSpec == PreInit /\ [][PreNext]_preVars

-----------------------------------------------------------------------------
(* compensate: the credentials are given back only when no registry entry  *)
(* and no home that the attempt knows of is left to use them, and a ticket *)
(* that ends ROLLED_BACK has given them back, whatever failed on the way.  *)
(* A home counts if its commit returned a receipt (homed): one committed   *)
(* by a call that raised can be left behind.                               *)
RolledBackIsClean ==
  /\ lease = "REVOKED" => ~ registry.worker /\ ~ (homed /\ home = "committed")
  /\ ticket.phase = "ROLLED_BACK" => lease = "REVOKED"

(* "Quarantine ... without destructive operations": once the journal says  *)
(* quarantined, the registry entry, the home and the lease stay.           *)
NothingDestroyed ==
  Req \in DOMAIN state.journals /\ state.journals[Req].status = "QUARANTINED" =>
    lease' = lease /\ home' = home /\ registry'.worker = registry.worker

KeptInQuarantine == [][NothingDestroyed]_preVars

(* coordinate returns its receipt "only after ledger acknowledgement": the *)
(* holder of a live receipt has everything the worker needs, and a ticket  *)
(* nobody else has moved.  An entry in the registry, of this attempt or of *)
(* one that died, is one the ledger announced, so recovery can know of it. *)
GrantedIsComplete ==
  /\ registry.worker => Req \in state.intents
  /\ pc = "granted" /\ receipt = "active" =>
       /\ ticket.phase = "REGISTRY_RESERVED" /\ held = ticket
       /\ lease = "RESERVED" /\ home = "committed" /\ registry.worker

(* A compensated attempt of a worker that need not be resumable is rolled  *)
(* back, or the ledger would still accept it: its ticket is not stuck      *)
(* between the phases.  After a crash between the two commits nothing      *)
(* under src/ asks for it.                                                 *)
CanRollBack(s) ==
  JournalAllows(s, Req, "ROLLED_BACK") /\ TerminalBinding(s.tickets[Req], "ROLLED_BACK")

Compensated == Req \in DOMAIN state.journals /\ state.journals[Req].status = "COMPENSATED"

CompensatedCanEnd ==
  Compensated /\ ~ ticket.durable => ticket.phase = "ROLLED_BACK" \/ CanRollBack(state)
=============================================================================
