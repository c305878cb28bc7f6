------------------------- MODULE SpawnLedgerClients -------------------------
(***************************************************************************)
(* How callers reach the spawn ledger: several coordinators, each with its *)
(* own WorkerSpawnLedger over one shared SpawnLedgerStatePort.  A call     *)
(* reads the aggregate, checks it against the ticket the caller holds, and *)
(* swaps in the replacement with the revision it read; other callers       *)
(* commit in between.  The reply of the swap may be lost after it took     *)
(* effect.                                                                 *)
(***************************************************************************)
EXTENDS SpawnLedger

CONSTANTS
  Clients,
  MaxLost      \* bound of the replies that are lost

ASSUME LostAssumption == MaxLost \in Nat

VARIABLES
  handed,      \* handed[c]: the ticket values client c has been handed, by request
  snapshot,    \* snapshot[c]: the aggregate its call in progress has read, or None
  lost         \* number of replies lost

clientVars == <<state, handed, snapshot, lost>>

ClientsInit ==
  /\ Init
  /\ handed = [c \in Clients |-> <<>>]
  /\ snapshot = [c \in Clients |-> None]
  /\ lost = 0

(* WorkerSpawnLedger.read: the caller is handed the current ticket.        *)
ReadTicket(c, r) ==
  /\ snapshot[c] = None
  /\ r \in DOMAIN state.tickets
  /\ handed' = [handed EXCEPT ![c] = Put(@, r, state.tickets[r])]
  /\ UNCHANGED <<state, snapshot, lost>>

(* _read_state at the start of a call.                                     *)
ReadState(c) ==
  /\ snapshot[c] = None
  /\ snapshot' = [snapshot EXCEPT ![c] = state]
  /\ UNCHANGED <<state, handed, lost>>

(* _require_current_ticket, and the expected revision of claim: the ticket *)
(* the caller presents is the one in the aggregate.  A new request needs   *)
(* none.                                                                   *)
Presents_Anything(c, s, r) == TRUE

Presents(c, s, r) ==
  r \in DOMAIN s.tickets => r \in DOMAIN handed[c] /\ handed[c][r] = s.tickets[r]

(* The port's compare_and_swap (external): atomic, by state revision.      *)
RevisionMatches_Always(s) == TRUE

RevisionMatches(s) == s.revision = state.revision

(* The call's checks pass and the swap succeeds.  The caller is handed the *)
(* new ticket, or the reply is lost and it knows nothing.                  *)
CompareAndSwap(c, r, lead) ==
  /\ snapshot[c] # None
  /\ state.revision < MaxStateRevision
  /\ Presents(c, snapshot[c], r)
  /\ RevisionMatches(snapshot[c])
  /\ Operation(snapshot[c], state', r, lead)
  /\ snapshot' = [snapshot EXCEPT ![c] = None]
  /\ \/ /\ handed' = [handed EXCEPT ![c] = Put(@, r, state'.tickets[r])]
        /\ UNCHANGED lost
     \/ /\ lost < MaxLost
        /\ lost' = lost + 1
        /\ UNCHANGED handed

(* A check fails, the swap conflicts or the port raises without effect:    *)
(* SpawnDenied.                                                            *)
Refuse(c) ==
  /\ snapshot[c] # None
  /\ snapshot' = [snapshot EXCEPT ![c] = None]
  /\ UNCHANGED <<state, handed, lost>>

ClientsNext ==
  \E c \in Clients :
    \/ \E r \in Requests : ReadTicket(c, r)
    \/ ReadState(c)
    \/ \E r \in Requests, lead \in Leads : CompareAndSwap(c, r, lead)
    \/ Refuse(c)

ClientsSpec == ClientsInit /\ [][ClientsNext]_clientVars

-----------------------------------------------------------------------------
(* Read, check and swap of concurrent callers are the one atomic step of   *)
(* the ledger: no commit is lost or applied to anything but the aggregate  *)
(* it was checked against.                                                 *)
ImplementsLedger == Spec

(* A ticket value a caller holds is the current one or an older revision   *)
(* of it: what it holds is never newer than, or beside, the ledger's line. *)
HeldIsHistory ==
  \A c \in Clients : \A r \in DOMAIN handed[c] :
    /\ r \in DOMAIN state.tickets
    /\ handed[c][r] = state.tickets[r] \/ handed[c][r].revision < state.tickets[r].revision

(* What a call changes is the ticket its caller has seen: a caller that    *)
(* lost a reply, or was overtaken, repeats its call without effect until   *)
(* it has read the ticket again.                                           *)
OnlyWhatItHolds ==
  \A c \in Clients, r \in DOMAIN state.tickets :
    snapshot'[c] # snapshot[c] /\ state'.tickets[r] # state.tickets[r]
      => r \in DOMAIN handed[c] /\ handed[c][r] = state.tickets[r]

ActsOnWhatItHolds == [][OnlyWhatItHolds]_clientVars
=============================================================================
