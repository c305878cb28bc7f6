# The Hive: a TLA+ model

The Hive (`src/src/the_hive/`) is a local control plane for fleets of coding
agents. It admits work, starts workers on leased accounts, keeps durable queues
and buses between agents, and recovers all of that after crashes. Nearly all of
its state is a set of private files that several processes and threads change
under file locks, with revision counters for compare-and-set.

This directory models the parts of it that decide who may run what, how often,
and what is undone when a step fails: the admission of work, the way of a worker
from a spawn ticket to its start, the message bus between agents, and the
operations the master has carried out on other hosts. Paths below are relative to
`src/src/the_hive/`.

## Inventory

### Modelled

| Component | State | Operations | Hard behaviour | What makes it correct |
| --- | --- | --- | --- | --- |
| Admission store (`admission.py`) | admission records: state, revision, deadline, binding | reserve, transition (compare-and-set), expire | exclusivity over any history; lock file, atomic replace, crash; the clock is read before the lock is held | active admissions never compete for an agent, a scope, or a slot; a released one never returns; the file behaves as one atomic store |
| Admission runtime (`admission_runtime.py`), completion journal (`admission_journal.py`), selection service (`selection_service.py`) | single-use revalidations; started/completed entries; the local variables of a call | execute_with_retry, reconcile_incomplete, _compensate | retries, expiry under a running call, recovery racing a live call, crash between operation and evidence | the operation runs only under its reservation and once per admission; records, journal and answers are true |
| Worker spawn ledger (`worker_spawn_ledger.py`) | one aggregate: tickets, failure journals, registry intents, consumed capsules, a revision | eight commits, each read - check - compare-and-swap | callers with old tickets, lost replies, resumption chains | nothing is forgotten; a journalled failure decides the end; one successor per capsule, fenced behind its source |
| Runtime account allocator (`runtime_account_allocator.py`) | leases, pending releases, owners, active and latest per account, verification guards, deferred revokes | allocate, issue/verify/close receipt, revoke, recover, retry of releases | the provider is called outside the lock and fails with or without effect | the five tables agree, no reservation the provider answered for leaks, a guarded lease is live, capacity holds |
| Dynamic worker coordinator (`dynamic_worker_coordinator.py`) | the receipt and the local variables of an attempt | coordinate, compensate, quarantine | every call may fail after it took effect; crashes; other writers of the registry | rollback leaves nothing it knows of, in the right order; quarantine destroys nothing |
| Dynamic worker start (`dynamic_worker_start.py`) | one-shot claim of a receipt, a result cell | dynamic_worker_start | several threads, steps in doubt | A3 is entered once, resources are released only for a worker that never runs, answers are true |
| Message bus store (`hive/bus_store.py`) | one SQLite database: events by partition, producer counters, payload bodies, cursors, leases, effects, dead letters, snapshots and retention anchors | append, open_cursor_once, poll_headers, begin/commit/fail_effect, ack, ack_cursor_gap, materialize_digest, record_snapshot, compact_retention | bearers of lost leases come back; consumers die between begin and commit; retention runs under a reader that lags | no event is passed silently; effects are begun in order and a bounded number of times; a compaction leaves known gaps and no dangling bodies |
| Agent operations (`agent_operations.py`, `agent_http.py`) | one document: the operations of all hosts in order, with state, attempt and lease | enqueue, cancel, poll (three critical sections), complete | lease timeouts, reports under old leases, a registry that changes under a request | an operation ends once, and ends |
| Host agent and its journal (`host_agent.py`, `host_agent_state.py`) | one document: accepted leases with effect claims, receipts, two high-water marks | accept, recover, begin_effect, finish, reclaim, prune; run_once | crash, boot, lost answer or report between any two steps; redelivery while the first delivery is at work | an effect happens at most once; a receipt tells the truth |

How they interact. `server.py` calls the selection service, which reserves and
moves admissions in the store and runs the operation through the runtime, which
writes the journal. The worker coordinator drives one ticket of the spawn ledger,
takes a lease from the allocator, a home from the home broker and an entry in the
fleet registry; the ledger and the registry planner verify the lease under a
guard of the allocator while they commit. The start function takes the receipt of
a coordinated attempt and enters A3, the point after which the worker may run.
The bus store is a passive database that producers and consumers call. The host
agent polls the master over HTTPS: the daemon resolves the client's certificate
to a principal (host, registry generation, lease epoch), the queue leases an
operation, the agent executes it through its journal and posts a receipt.

### Not modelled

`PROJECT.json` lists every other component with its reason. The large ones that
hold state worth modelling are in the plan at the end: the work dispatcher over the
bus, admin operations, the home broker with its write-ahead log, the v2 cutover,
the credential vault, runtime lifecycle leases.
Out of scope are the MCP tool surface, presentation, provisioning scripts,
sampling of the host and clients of external services.

## Modules

| Module | Models | State and actions |
| --- | --- | --- |
| `AdmissionRecord` | `AdmissionRecord`, the transition graph, `_reservation_conflict`, expiry | operators on a table of records, used by the three below |
| `AdmissionStore` | `AdmissionStore` | `records`, `now`; one action per locked method |
| `FileAdmissionStore` | `FileAdmissionStore` | processes that read the clock, take the flock, load, apply, write and unlock; refines `AdmissionStore` (`ImplementsStore`) |
| `SelectionService` | selection service, runtime and journal, for several workers and one reconciliation pass | one action per store or journal call, each atomic as `FileAdmissionStore` shows the store to be |
| `SpawnLedger` | `WorkerSpawnLedger` as an atomic object | `state`, the aggregate; one action per commit |
| `SpawnLedgerClients` | the same ledger as its callers use it | callers hold tickets and snapshots, swap, lose replies; refines `SpawnLedger` (`ImplementsLedger`) |
| `AccountAllocator` | `RuntimeAccountAllocator` and its provider | threads with a program counter; each critical section and each provider call is a step |
| `PreStart` | coordinate, compensate and quarantine | extends `SpawnLedger` with one attempt; one action per call of a port |
| `DynamicWorkerStart` | `dynamic_worker_start` | threads with a program counter and the injected port; `released` and `failed` say what became of the resources when the compensation was tried |
| `BusStore` | `HiveBusStore` | one action per public method, each of which is one transaction; a refused call changes nothing; `applied` is a history of what begin_effect granted, `opened` in a cursor one of where the rows began when it was opened |
| `AgentOperations` | `AgentOperationStore`, as one host sees it | `queue`, `rec`, `polling` (the active poll and what it has still to end), the registry's `gen` and `epoch`; one action per critical section |
| `HostAgentState` | `HostAgentState`, the journal | operators from a journal, a lease and the clock to the journal an operation leaves and its answer |
| `HostAgent` | `run_once` of one or more processes of a host's agent, between the two | `pc` (`"stopped"`: given up by systemd), `principal`, `lease`, `receipt` of each process, reports under way in `sent`, the history `effects` |

`AdmissionStoreProofs`, `FileAdmissionStoreProofs`, `SelectionServiceProofs`,
`SpawnLedgerProofs` (of the ledger, of its callers and of `PreStart`),
`AccountAllocatorProofs`, `DynamicWorkerStartProofs`, `BusStoreProofs` and
`HostAgentProofs` (with the queue and the journal) hold the theorems; the `MC...`
modules and the `.cfg` files the instances. Operators with a suffix after an underscore
(`Revoke_IgnoresGuard`) are plausible mistakes in the operation of that name; each of
them makes TLC find one property violated, so no property holds by the shape of the
model alone. They are not part of any specification.

Data is abstracted to what the properties tell apart. Digests and bindings are
compared for equality only; a lease or a pending release is named by its
reservation; a scope is a set of paths, a path a sequence of components; time is a
small counter. JSON encoding, file permissions and validation of well-formedness
are left out, except where a malformed answer leads to different control (the
allocator's provider). Failing calls, crashes, lost replies and other writers are
explicit actions with a named bound (`MaxFaults`, `MaxLost`, `MaxFailures`,
`MaxOthers`).

Left out of single operations, with the reason:

- The bus counts bytes as well as rows. `append` refuses at the limit of either
  (`bus_store.py:1996`), where `CanAppend` counts rows: a refusal changes nothing, so
  the model has more behaviours. A delivery or a digest that stops at its byte limit
  is there: `BatchLengths` and `MaterializeDigest` allow every shorter length. A
  partition is blocked (`:1973`) only by a conflict that `ProducerOrder` excludes.
- The allocator relies on its port: a reserve that raised
  (`runtime_account_allocator.py:394`), or answered with something that is no
  `AccountReservation` (`:866`), has reserved nothing. `allocate` releases nothing
  then, and `BooksAgree` cannot see such a reservation.
- `expire_leases` collects a record that has already ended once more after a restart
  of the master or when its owner's acknowledgement raised
  (`agent_operations.py:949`). It takes a place among those a poll ends, and is not
  in the model; an acknowledgement that raises for ever blocks polls as an owner
  that raises does.
- `poll` also refuses an epoch below one it has seen (`host_epochs`,
  `agent_operations.py:721`), which the model lets through, and its branch for a
  queued record without an attempt left (`:761`) is never reached.
- A poll's `registry_generation` (`agent_http.py:252`) is one the agent learned from
  the master, so its test never refuses.
- No two processes of one agent run with different epochs: `Configure` waits until
  none is at work.

## Runs

| Run | Instance | Shows |
| --- | --- | --- |
| `admission_store` | 3 ids, 4 bindings each of which competes for one reason only, 3 revisions | agents, capacity and scopes stay exclusive; a released admission never returns |
| `file_store` | 2 processes, crashes and failing writes | the file goes through the states of the atomic store; no start after the deadline as the caller saw it; the lock is freed |
| `selection` | one request delivered to 2 processes, 2 attempts each, one pass, one fault, one tick | the operation runs under its reservation and once per admission id; journal, records and answers are true; every call ends |
| `spawn_ledger` | 1 ticket with failures, or up to 3 tickets of 2 leads and one capsule, 14 commits | journals, endings, capsules and fences |
| `spawn_clients` | 2 callers, 2 tickets, a lost reply, 5 commits | the callers behave as the atomic ledger and act only on tickets as they hold them |
| `allocator` | 2 threads, 2 reservations, one unit, 2 provider failures | tables agree, nothing leaks, guards, capacity, calls return |
| `pre_start` | one attempt, resumable or not, 5 faults, 2 other registry changes | order and completeness of compensation; quarantine is harmless |
| `worker_start` | 4 threads, a compensation that raises with or without effect | one start, true answers |
| `bus_store` | 1 producer with 3 requests, one of which reuses a key; 1 group; batches of up to 2, 2 attempts, 3 ticks | nothing is skipped, effects in order and bounded, known gaps, bodies, producer order, settled effects |
| `host_agent` | 2 processes, a mutating operation and a probe, 2 attempts, 2 ticks, 1 change of the registry, 1 receipt | the effect at most once, true records, an operation ends once |
| `host_agent_live` | 1 process under the start limit of its unit, 1 attempt, otherwise the same | every operation ends, or one of three obstacles lasts |
| `host_agent_full` | 1 process | *violation*: the journal's reader refuses what its writer wrote |

Why the bounds are enough. Exclusivity is a relation between two admissions; the
third fills a capacity of two. Three spawn tickets are what a capsule needs: a
source, the ticket that resumes from it, and a rival; fourteen commits take the
first to its checkpoint and the second through its claim. Failure journals are
explored on one ticket only (`FailuresOnlyAlone`): they do not look at other
tickets, and the theorems, which have no such constraint, cover the rest. One unit
of capacity makes the second reservation the one too many; two failures let a
release fail, be retried by another thread, and fail again. Five faults in one
attempt exceed the number of compensation steps that can fail one after the other
before the attempt ends. On the bus, two events are what order, a mixed batch and a
lagging cursor need; two retention runs let the second meet what the first left;
two attempts let an event be retried and then dead-lettered;
three ticks let a lease, a backoff and both retention periods run out one after the
other. For the host agent, an effect can be repeated only by a second lease of the
same operation, which two attempts and a lifetime of two lease times allow; one
receipt makes the second operation push the first one's receipt out, after the one
change of the registry that allows it; the second process is the one still at work
when the first comes back. With one process, the run also holds for a lifetime of
three lease times and three attempts, and `host_agent_live` for two attempts, which
takes TLC five minutes. In `host_agent` no process is under the start limit
(`Limited`): to a safety property a process that is down is an idle one. TLC explores
each instance completely. Deadlock is
checked for the two admission stores and the worker start; everywhere else the
system may rightly stop, with all calls answered or all bounds used.

## Fairness

Only a thread or process inside a call is fair (weak fairness of its own steps):
the code has no wait that another caller could prolong for ever except a lock, and
a lock is held over a bounded number of steps. Nothing is assumed of the callers:
that `reconcile_incomplete` or `recover_pending_releases` is called, that a
guard is closed, or that a crashed process returns. The exception is
`host_agent_live`, where an operation ends only through polls: the agent's loop
goes on whatever one iteration met, an owner that is asked answers or raises, and the
clock runs (weak fairness). Strong fairness says that the host does not boot before
every single poll, that the master is not restarted in the middle of every single
poll that is to end a mutating operation, and that an operator who binds the agent
anew gets to configure it. Two things are not assumed. A dead agent need not come
back: the unit stops restarting it after three starts within a minute
(`systemd/the-hive-host-agent.service:5`), any death may be the one too many, and
nobody need start it then (`AgentStaysDown`). And the owner of a probe need not ever
answer (`OwnersKeepRaising`); the owner of the mutating operations claims nothing and
does not raise. `EveryOperationEnds` names both, next to the unreadable journal, as
the only ways in which an operation may stay open; with either dropped TLC finds a
counterexample. No fairness is assumed of the network: every report and every answer may be lost.
Hence `EveryCallEnds`,
`LockIsFreed` and `CallsReturn` speak of calls under way, and no property says
that a pending release is eventually confirmed.

## Proofs

Proved by TLAPS for every value of the constants (any number of ids, requests,
callers, threads, faults, ticks). The assumptions on the constants are named in each
module. Nearly all are about types; the others are that an allocator's evidence states
some capacity (`Units # {}`), that the bus keeps no body longer than the header of
its event, as every row of `_GEN1_RETENTION_POLICY` does (`BusAssumption`), that there
is a last operation id (`QueueAssumption`: a journal is finite), and that no executor
is called like the marks for no claim and a dead one (`JournalAssumption`). Each
inductive invariant was checked by TLC on the instance of its component's run before it
was proved.

*AdmissionStore.* `Safety`, the type invariant and the three exclusivity
invariants, is inductive as it stands: a transition or an expiry never makes an
inactive record active, so the set of active records only grows by `Reserve`,
whose conflict check compares the new record with every active one. For the
capacities the argument is by cardinality: a new record is one more than a set
smaller than the bound. `NeverReactivated` follows step by step.

*FileAdmissionStore.* `IInv` says who holds the lock (`LockOK`: exactly the process
between lock and unlock), what a call under way may be (`OpOK`), and that the copy of a
process that holds the lock is the file, or the file with its operation applied
(`CopyOK`). With it, the atomic replace is the step of `AdmissionStore` that the call
stands for and every other step, crashes and failed writes included, a stutter
(`FileStoreImplementsStore`). `StoreSafety` then holds of the file by instantiation
(`FileStoreSafety`), without a second proof. `NoLateStart` is the clock reading kept in
`OpOK` against the guard of the operation.

*SelectionService.* The four properties rest on one invariant. `WorkersOK` says for each
step of a call what it holds: no record, or one it owns, whose state and revision are
those it was given unless expiry or a pass has moved it since, and how far the
operation and the journal are. `OwnersApart`: no two calls own one admission, since a
reservation needs a new id. `RecordsOK` and `JournalOK` tie the state of a record to its
journal entry and to `performed`; `TodoOK` says that the snapshot a reconciliation pass
works from is of this or an earlier revision; `Apart` is the exclusivity of the store.
What a step does to a record is either nothing or one transition with a new
revision, so a call that comes back with an old revision is refused; this one lemma
settles most of the interleavings.

*SpawnLedger.* The invariants are not inductive one by one. `IInv` adds
`LeaseComesLater` (the revision a lease was reserved at precedes the ticket's own)
and joins `TypeOK`, `CapsuleResumedOnce`, `ResumedBehindItsSource`,
`EndedWithCapsule` and `JournalsFollowTickets`. Two lemmas carry the proof: every
operation either adds a ticket (`TicketAdded`) or moves one along the phase graph
(`TicketMoves`), and each invariant is shown once for each of the two shapes. The
action properties `LedgerOnlyGrows` and `JournalDecidesTheEnd` follow from it.

*SpawnLedgerClients.* The state of the callers' ledger is mapped to the atomic one
by identity. A swap succeeds only at the revision the caller read; the invariant
`SnapshotIsHistory` (a snapshot with the current revision is the current state)
makes every successful swap an operation of `SpawnLedger`, every other step a
stutter.

*AccountAllocator.* The books agree only outside the critical sections of a thread, so
`IInv` says what each thread holds between two of them (`ThreadsOK`, `AnswersOK`), that
the release lock is held by exactly the thread in the middle of a retry
(`ReleaseIsExclusive`), and which reservations the provider may hold (`ProviderOK`);
the tables (`TablesOK`, `ActiveOK`), guards (`GuardsOK`) and the capacity follow with
it. The capacity is an argument by cardinality: a lease is bound only below the units
of its evidence.

*PreStart.* `PreInv` says for each call of the coordinator, should it be the next, what
is in the failure journal (`JournalAt`), what the registry and the snapshots of it hold
(`RegistryOK`), what became of the home and the lease (`ResourcesOK`) and of the ticket
(`TicketOK`). The journal is the hinge: a compensation step runs only under the status
that the steps before it wrote, so none runs once the status is quarantined. What a
call of the ledger does to ticket and journal is a lemma for each operation.

*DynamicWorkerStart.* `IInv` says that the claim lock is held by the thread inside
the claim (`LockIsHeld`), that a thread which has not claimed has touched nothing
(`NotEnteredYet`), that at most one thread is past the claim (`OneStarter`), and
relates its position to what the port has done (`StarterProgress`), the outcome of the
compensation included. The three properties follow. `AnswersAreTrue` does not say that
the resources of a worker that was not started are back, which is false of the code,
but that they are unless the compensation raised.

*BusStore.* `IInv` joins the shape of the log (`LogOK`), the producers' counters
(`ProducerOrder`), cursors, leases and gaps of each group (`ConsumersOK`), the state of
every effect against cursor, lease and log (`EffectsOK`), at most one effect in the
hands of a live lease, with all before it settled (`BoundOK`), the count of attempts
(`AttemptsOK`) and the payload bodies (`BodiesOK`). An effect bound to the token of a
live lease lies in that lease's range, and a token is never issued twice: that is why
a late bearer finds its token gone. `BodyFollowsEvents` needs the retention policy:
where a body may go, the header may stay. For `GapIsKnown` the invariant keeps where
the rows of the partition began when the cursor was opened (`opened`): a cursor without
a gap behind the rows is one for which that has not changed. `SettledIsFinal` also says
that the first
retained event never goes back.

*HostAgent.* An effect must leave something behind that no later lease of its operation
gets past. `EffectOK` says what: the claim, a receipt, or a high-water mark above the
record's generation. The last is what is left when the receipt was pruned, and it is
enough because a mutating operation is leased at one generation only (`Issued`: a lease
anyone holds, be it an executor, the journal or the record, is not newer than the
record, and of the record's generation if the operation is fenced). `ClaimsOK`: an
executor between its claim and its receipt is the one the journal names, and before the
effect there has been none. These parts carry `EffectAtMostOnce`.
`RecordIsTrue` needs to know of every report, be it about to be sent, on its way or
recorded, that it is true and stays true (`Said`: nobody carries the operation out any
more), and that the journal bears it out (`Settled`), unless the master's fences would
refuse it (`Stands`); an executor with a newer lease could still rebind the receipt,
hence `NoneNewer`. `World` joins these parts, over the state they speak of as
parameters, so that an action of the queue and one of the journal are each one lemma.

What an operation of the journal does is reduced to what it does to one slot, the
accepted work and the receipt of one operation: `Turned` for the lease it is about,
`Swept` for every other one (unchanged; forgotten unclaimed; turned from a dead claim
into unknown; a receipt pruned below the high-water mark). `_reclaim_expired_locked` is
a loop. `Reclaim` writes it as a recursive function on the naturals: `ReclaimRuns` shows
that the function exists and satisfies its equation, `Sweeping` is the loop's invariant,
and both inductions are by the least number at which the claim fails (`MinExists`, from
the well-foundedness of the naturals). On the side of the queue, every step rewrites
each record in a few ways (`Rewritten`). `EndsOnce` follows from the states the steps
test, and `ClaimExcludes` from `ClaimsOK`.

Two theorems bound the finding about the journal below. `JournalLimits`: it is never
more than one receipt over what its reader accepts, accepted work stays within its
limit, and no lease is above the high-water marks. `JournalBreaksAtAReceipt`: only the
receipt of `finish`, or of `recover` for an abandoned claim, makes it unreadable.
`accept` never does: `_reclaim_expired_locked` and `_prune` keep it readable step by
step (`Legible`, a second invariant of the same loop).

Only model-checked: all liveness (`EveryCallEnds`, `LockIsFreed`, `CallsReturn`,
`EveryOperationEnds`), which under fairness is outside what the prover does. `TypeOK` and
`JournalsFollowTickets` of the ledger, the types, `ClaimExcludes` and the two limits of
`HostAgent`, and `FileStoreSafety` are proved and not checked by a run of their own.

## Findings

`host_agent_state.py:399` (run `host_agent_full`). The notes on the implementation
say that accepted work and receipts "are both capped at 1024 on load and write".
The reader enforces the cap, the writer does not always: only the acceptance of an
unknown operation looks at it. A probe is accepted and its process dies; another
operation is accepted while one receipt is free, and finishes; the probe is leased
again, rebound and finished. The journal holds one receipt too many, every later
read is refused, and the agent cannot start again. `JournalBreaksAtAReceipt` shows that
there is no other way.

The following behaviours are conditions in properties, or are left out of them,
instead of runs of their own; TLC finds the first seven, and the last three, when the
condition is dropped.

1. `selection_service.py:337`. The cleanup of a failed call swallows a refusal and
   says that the next reconciliation pass reports it. If the admission has expired
   meanwhile, the cancel is refused, and the pass looks at no record in RESERVED,
   REVALIDATING or ADMITTED: nobody reports it. `ClosedTruly` speaks only of closed
   admissions.
2. `admission.py:727`. The writer of the admission file does not check the number of
   records that the reader accepts, and no operation removes one. The reservation
   after the last admissible one is acknowledged and makes the store unreadable.
   `file_store` has a bound of one record and thus contains this; no property says
   that the store stays readable.
3. `runtime_account_allocator.py:614`. A revoke deferred by a guard is carried out
   at the close only if the capacity evidence is still fresh. If it expired, the
   revoke is dropped and the lease stays reserved: `RevokeIsKept` excepts expired
   evidence.
4. `dynamic_worker_coordinator.py:501`. The compensation of a worker that must be
   resumable journals COMPENSATED and then asks for ROLLED_BACK, which the ledger
   refuses without a capsule; binding one makes the journal an older revision's, so
   the refusal is permanent, and quarantine is refused as well. `CompensatedCanEnd`
   is about the other workers.
5. `dynamic_worker_coordinator.py:338`. When a home commit fails after it took
   effect and the ledger read of the quarantine fails too, the outer handler
   compensates with the receipt that is still active, and revokes the lease although
   a home exists. `RolledBackIsClean` speaks of homes with a receipt (`homed`).
6. `hive/bus_store.py:3275`. `open_cursor_once` creates every cursor at 0 and does
   not look at the first retained event. After a compaction such a cursor has neither
   rows to read nor a gap to acknowledge, and every poll ends in a store integrity
   error until another compaction makes a gap. `GapIsKnown` excepts the cursors at 0
   opened since the last compaction and no others: one that was open when a compaction
   passed it has its gap, even if it never read anything. No document says what a
   late subscriber should find.
7. `agent_operations.py:743`. A mutating operation that waits to be leased again is
   ended as failed when the registry's generation has changed, which the probe of
   any host does, although its first lease may have taken effect; the notes say that
   only a proof that no effect occurred produces failed. `RecordIsTrue` speaks of
   records that came from a receipt.
8. `host_agent_state.py:304`. The branch of `recover` that turns an abandoned effect
   into unknown is not reached by leases of the queue: a redelivery has a new
   attempt, is refused as a conflict and ends the agent. The effect is only found
   abandoned when another operation is accepted.
9. `dynamic_worker_start.py:121`, `:134`, `:175`. A compensation that raises is
   swallowed and `not_started` is answered, as `tests/test_dynamic_worker_start.py:443`
   expects: the caller cannot tell whether the resources are back, and nothing tries
   again. `AnswersAreTrue` says so.
10. `systemd/the-hive-host-agent.service:5`. A refusal of the journal ends the agent
    (`host.receipt_limit`, `host.replay_conflict`), and its next poll leases the next
    operation; three such deaths within a minute leave the agent down, and no operation
    of its host ends until somebody starts it.
11. `host_probe.py:412`. An owner that raises ends the poll before it leases anything,
    and the next poll asks it again: one probe whose admin record is in conflict keeps
    the host from all work and every other operation from its end.

### Hazards without a property

`PROJECT.json` lists the hazards that the properties are about. These remain, with
the reason:

- `runtime_account_allocator.py:485`: a release that failed is tried again only by
  `recover_pending_releases`, which no code calls; no fairness on it can be justified.
- `dynamic_worker_coordinator.py:185`: coordination fails between the reservation of
  the lease and the receipt, and nothing revokes the lease; there is no receipt to
  compensate with, and the code promises nothing about this lease.
- `dynamic_worker_coordinator.py:552`: a recovery that quarantines a ticket while its
  compensation is still running. Recovery is modelled after the attempt has ended or
  crashed.
- `server.py:42481`: two deliveries of one request may each run the operation once,
  under different attempt suffixes; `WorkIsReserved` is about one admission id.
- `admission.py:412`: a call may report an error for an admission that a pass then
  finalizes; `AnswerIsTrue` covers results and denials only.
- `hive/bus_store.py:3275`: the late subscriber of item 6, which `GapIsKnown` excepts.
- `hive/bus_store.py:1533`: the wall clock is set back while a lease or a backoff
  runs. The clock of the model does not go back; the code's answer changes no state.
- `hive/bus_store.py:2100`: a new request refers to a payload whose body retention has
  expired, and its producer is stuck at that sequence number. The model has this
  behaviour; no document says what should happen instead.
- `agent_operations.py:31`, `host_agent_state.py:238`: records of the queue, and
  receipts of the current registry generation, are never removed; at the limit all
  new work is refused.

## Plan

Done: the modules above. Next, in this order:

1. Work dispatcher (`hive/work_dispatcher.py`) over `BusStore`, with several groups
   and partitions; an abstract at-least-once queue that the store implements.
2. Home broker intent store: a write-ahead log whose recovery agrees with the
   executor at every crash point; composed with `PreStart` in place of its
   one-step home.
3. The owners of agent operations (`host_probe.py`, the saga of the fleet service)
   composed with `HostAgent`: what the admin store says of an operation agrees with
   the queue.
4. Allocator inside `PreStart` and the ledger: the guard held across a commit, as
   one composed module.
5. Admin operations, teamlead coordinator, spark retry, runtime lifecycle leases,
   the v2 cutover.

Every safety property of a passing run is proved; the modules to come are to be proved
the same way.
