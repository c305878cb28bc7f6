----------------------------- MODULE HostAgent -----------------------------
(***************************************************************************)
(* host_agent.py between the master's queue (AgentOperations) and the      *)
(* agent's journal (HostAgentState): run_once polls for a lease, executes  *)
(* it and reports the receipt.  An answer of the master may be lost, a     *)
(* report may be lost, arrive late or twice; a process of the agent may    *)
(* die between any two steps, and the host may boot.  What the executor    *)
(* does to the host is outside the repository's state: effects counts it.  *)
(***************************************************************************)
EXTENDS HostAgentState

CONSTANT Limited   \* the executors that run under the unit with its start limit

VARIABLES
  agentEpoch,   \* lease_epoch of the agent's configuration
  journal,      \* host-agent.json
  pc,           \* the next step of each executor
  principal,    \* the registry's generation and epoch, as its poll was let in
  lease,        \* the lease it executes, until there is a receipt
  receipt,      \* the receipt it has to report; its state before that
  sent,         \* reports on their way to the master
  effects       \* how often each mutating operation took effect

agentVars == <<agentEpoch, journal, pc, principal, lease, receipt, sent, effects>>

vars == <<queueVars, agentVars>>

NothingToReport == [op |-> 0, attempt |-> 0, epoch |-> 0, gen |-> 0, state |-> "none"]

Reported(r, g, state) ==
  [op |-> r.op, attempt |-> r.attempt, epoch |-> r.epoch, gen |-> g, state |-> state]

Nobody == [gen |-> 0, epoch |-> 0]

Init ==
  /\ QueueInit
  /\ agentEpoch = 0 /\ journal = EmptyJournal
  /\ pc = [e \in Executors |-> "idle"]
  /\ principal = [e \in Executors |-> Nobody]
  /\ lease = [e \in Executors |-> NoLease]
  /\ receipt = [e \in Executors |-> NothingToReport]
  /\ sent = {} /\ effects = [o \in Ops |-> 0]

-----------------------------------------------------------------------------
Goto(e, label) == pc' = [pc EXCEPT ![e] = label]

Idle(e) ==
  /\ Goto(e, "idle")
  /\ principal' = [principal EXCEPT ![e] = Nobody]
  /\ lease' = [lease EXCEPT ![e] = NoLease]
  /\ receipt' = [receipt EXCEPT ![e] = NothingToReport]

(* The executors in who end; their claims stay behind in the journal.      *)
Down(who, j, label) ==
  /\ pc' = [e \in Executors |-> IF e \in who THEN label ELSE pc[e]]
  /\ principal' = [e \in Executors |-> IF e \in who THEN Nobody ELSE principal[e]]
  /\ lease' = [e \in Executors |-> IF e \in who THEN NoLease ELSE lease[e]]
  /\ receipt' = [e \in Executors |-> IF e \in who THEN NothingToReport ELSE receipt[e]]
  /\ journal' = Abandoned(j, who)

(* systemd starts e again, or gives it up: the unit allows StartLimitBurst *)
(* starts within StartLimitIntervalSec.  They are not counted here, any    *)
(* death may be the one too many.                                          *)
Dies(e, j) ==
  \/ Down({e}, j, "idle")
  \/ e \in Limited /\ Down({e}, j, "stopped")

(* The journal's receipt of the lease e executes, as it is reported now.   *)
SavedReceipt(j, l) ==
  [op |-> l.op, attempt |-> l.attempt, epoch |-> l.epoch, gen |-> 0,
   state |-> j.receipts[l.op].state]

(* What e does with the journal's answer: run_poll_loop lets               *)
(* HostAgentStateError end the process.  To wait is to ask again; a claim  *)
(* is not lost, as no two executors have one lease.                        *)
Answered(e, r, accepted) ==
  \/ r.answer = "refused" /\ Dies(e, r.j)
  \/ /\ r.answer = "replay"
     /\ journal' = r.j /\ receipt' = [receipt EXCEPT ![e] = SavedReceipt(r.j, lease[e])]
     /\ lease' = [lease EXCEPT ![e] = NoLease] /\ Goto(e, "report")
     /\ UNCHANGED principal
  \/ /\ r.answer \in {"accepted", "claimed"}
     /\ journal' = r.j /\ Goto(e, accepted) /\ UNCHANGED <<principal, lease, receipt>>

(* The reports the master could still accept.  It refuses the others or    *)
(* acknowledges them again, whenever they come: neither changes anything,  *)
(* so they are left out of sent.                                           *)
Deliverable(reports) ==
  {r \in reports : rec'[r.op].state \notin Terminal /\ OfTheAttempt(r)'}

AtTheMaster ==
  /\ sent' = Deliverable(sent)
  /\ UNCHANGED <<agentEpoch, journal, effects>>

OfThisAgent == UNCHANGED <<queueVars, agentEpoch, sent, effects>>

-----------------------------------------------------------------------------
(* run_once: the poll, at the master.  The daemon resolves the principal   *)
(* from the client's certificate before it reads the request.  No agent    *)
(* starts over a journal it cannot read.                                   *)
Connect(e) ==
  /\ pc[e] = "idle" /\ Readable(journal)
  /\ principal' = [principal EXCEPT ![e] = [gen |-> gen, epoch |-> epoch]]
  /\ Goto(e, "connected")
  /\ UNCHANGED <<lease, receipt, journal>> /\ OfThisAgent

(* _authoritative_poll: the request must be of the principal's epoch.  Its *)
(* registry_generation is the one the agent last learned from the master,  *)
(* never above the principal's: that test does not refuse.                 *)
Admitted(e) == principal[e].epoch = agentEpoch

Poll(e) ==
  /\ pc[e] = "connected" /\ Admitted(e)
  /\ BeginPoll
  /\ Goto(e, "polling")
  /\ UNCHANGED <<principal, lease, receipt>> /\ AtTheMaster

PollRefused(e) ==
  /\ pc[e] = "connected" /\ (~ Admitted(e) \/ polling.active)
  /\ Idle(e) /\ UNCHANGED journal /\ OfThisAgent

(* The lease arrives, or there is none.                                    *)
PollAnswered(e) ==
  /\ pc[e] = "polling" /\ LeaseNext(principal[e])
  /\ LET next == NextLease(principal[e]) IN
       IF next = NoLease THEN Idle(e)
       ELSE /\ lease' = [lease EXCEPT ![e] = next]
            /\ principal' = [principal EXCEPT ![e] = Nobody]
            /\ Goto(e, "leased") /\ UNCHANGED receipt
  /\ AtTheMaster

(* The answer is lost: whatever was leased stays leased.                   *)
PollAnswerLost(e) ==
  pc[e] = "polling" /\ LeaseNext(principal[e]) /\ Idle(e) /\ AtTheMaster

PollFails(e) == pc[e] = "polling" /\ AbortPoll /\ Idle(e) /\ AtTheMaster

-----------------------------------------------------------------------------
(* execute *)
LeaseIsOver(e) ==
  /\ pc[e] = "leased" /\ lease[e].deadline <= now
  /\ Idle(e)
  /\ UNCHANGED journal /\ OfThisAgent

AcceptLease(e) ==
  /\ pc[e] = "leased" /\ lease[e].deadline > now
  /\ Answered(e, Accept(journal, lease[e], now), "recovering")
  /\ OfThisAgent

(* Only apply and stop claim their effect before they have it.             *)
RecoverLease(e) ==
  /\ pc[e] = "recovering"
  /\ Answered(e, Recover(journal, lease[e], now),
              IF lease[e].op \in Mutating THEN "ready" ELSE "effect")
  /\ OfThisAgent

Claim(e) ==
  /\ pc[e] = "ready"
  /\ Answered(e, BeginEffect(journal, lease[e], e), "effect")
  /\ OfThisAgent

(* dispatch: it succeeds, raises AgentOllamaNoEffectError before any       *)
(* effect, or raises something else at any point.                          *)
Outcomes_ErrorIsFailure(o) ==
  IF o \in Mutating
  THEN {<<"succeeded", 1>>, <<"failed", 0>>, <<"failed", 1>>}
  ELSE {<<"succeeded", 0>>, <<"failed", 0>>}

Outcomes(o) ==
  IF o \in Mutating
  THEN {<<"succeeded", 1>>, <<"failed", 0>>, <<"unknown", 0>>, <<"unknown", 1>>}
  ELSE {<<"succeeded", 0>>, <<"failed", 0>>}

Dispatch(e) ==
  /\ pc[e] = "effect"
  /\ \E outcome \in Outcomes(lease[e].op) :
       /\ receipt' = [receipt EXCEPT ![e] = Reported(@, 0, outcome[1])]
       /\ effects' = [effects EXCEPT ![lease[e].op] = @ + outcome[2]]
  /\ Goto(e, "finishing")
  /\ UNCHANGED <<queueVars, agentEpoch, journal, principal, lease, sent>>

FinishLease(e) ==
  /\ pc[e] = "finishing"
  /\ Answered(e, Finish(journal, lease[e],
                        IF lease[e].op \in Mutating THEN e ELSE "none", receipt[e].state),
              "report")
  /\ OfThisAgent

(* put_receipt: whatever the master answers, the agent polls next.  A      *)
(* report that is lost is never taken from sent.                           *)
Report(e) ==
  /\ pc[e] = "report"
  /\ Idle(e) /\ UNCHANGED queueVars
  /\ sent' = Deliverable(sent \cup {Reported(receipt[e], gen, receipt[e].state)})
  /\ UNCHANGED <<agentEpoch, journal, effects>>

-----------------------------------------------------------------------------
(* An active poll of a dead agent ends at the master: it answers nobody.   *)
Crash(e) ==
  /\ pc[e] \notin {"idle", "stopped", "connected", "polling"}
  /\ Dies(e, journal) /\ OfThisAgent

Boot ==
  /\ ~ polling.active
  /\ journal # Rebooted(journal) \/ \E e \in Executors : pc[e] # "idle"
  /\ Down(Executors, Rebooted(journal), "idle") /\ OfThisAgent

(* An operator starts an agent that systemd has given up.                  *)
Start(e) ==
  /\ pc[e] = "stopped" /\ Goto(e, "idle")
  /\ UNCHANGED <<principal, lease, receipt, journal>> /\ OfThisAgent

(* The agent is configured for the epoch it was bound to, while none of    *)
(* its processes is at work: no two run with different epochs.             *)
Configure ==
  /\ agentEpoch # epoch /\ \A e \in Executors : pc[e] \in {"idle", "stopped"}
  /\ agentEpoch' = epoch
  /\ UNCHANGED <<queueVars, journal, pc, principal, lease, receipt, sent, effects>>

-----------------------------------------------------------------------------
Master ==
  /\ \/ \E o \in Ops : Enqueue(o) \/ Cancel(o)
     \/ \E r \in sent : Complete(r)
     \/ PollOfAnotherHost \/ FinalizeHead
     \/ Tick \/ NewGeneration \/ NewEpoch
  /\ AtTheMaster /\ UNCHANGED <<pc, principal, lease, receipt>>

Executor(e) ==
  \/ Connect(e) \/ Poll(e) \/ PollRefused(e)
  \/ PollAnswered(e) \/ PollAnswerLost(e) \/ PollFails(e)
  \/ LeaseIsOver(e) \/ AcceptLease(e) \/ RecoverLease(e) \/ Claim(e)
  \/ Dispatch(e) \/ FinishLease(e) \/ Report(e)
  \/ Crash(e) \/ Start(e)

Next == Master \/ (\E e \in Executors : Executor(e)) \/ Boot \/ Configure

Spec == Init /\ [][Next]_vars

(* run_poll_loop goes on whatever one iteration met, as does an agent that *)
(* was started; a poll that found its item changed fails; a probe's owner  *)
(* answers or raises; the clock runs.  The host does not boot before every *)
(* poll, and the master is not restarted in the middle of every poll.      *)
(* Nobody need start an agent that was given up, and an owner may raise    *)
(* whenever it is asked.                                                   *)
OwnerRaises(e) ==
  /\ polling.due # <<>> /\ Final(Head(polling.due)) /\ Head(polling.due).op \notin Fenced
  /\ PollFails(e)

Finalizing == FinalizeHead /\ AtTheMaster /\ UNCHANGED <<pc, principal, lease, receipt>>

Progress(e) ==
  \/ Connect(e) \/ Poll(e) \/ PollRefused(e) \/ PollAnswered(e) \/ LeaseIsOver(e)
  \/ AcceptLease(e) \/ RecoverLease(e) \/ Claim(e) \/ Dispatch(e) \/ FinishLease(e)
  \/ Report(e)
  \/ polling.due # <<>> /\ ~ Final(Head(polling.due)) /\ PollFails(e)
  \/ polling.due = <<>> /\ (\E o \in Ops : TooNew(o, principal[e])) /\ PollFails(e)
  \/ pc[e] = "polling" /\ Finalizing
  \/ OwnerRaises(e)

(* The owner of an ollama operation claims nothing, and does not raise.    *)
FinalizingFenced == Finalizing /\ Head(polling.due).op \in Fenced

Clock == Tick /\ AtTheMaster /\ UNCHANGED <<pc, principal, lease, receipt>>

FairSpec ==
  /\ Spec
  /\ WF_vars(Clock) /\ SF_vars(FinalizingFenced) /\ SF_vars(Configure)
  /\ \A e \in Executors : WF_vars(Progress(e)) /\ SF_vars(Poll(e))

-----------------------------------------------------------------------------
(* A mutating operation takes effect on the host at most once, however     *)
(* often the queue leases it, whatever is lost or late, and whoever dies:  *)
(* the claim, the fences and the rule by which old receipts are pruned     *)
(* leave no lease that could start it again.                               *)
EffectAtMostOnce == \A o \in Mutating : effects[o] <= 1

(* What the master recorded from a receipt is what happened on the host,   *)
(* and what the journal would answer to another lease.  An operation that  *)
(* failed at a fence of the queue has no receipt, and may have taken       *)
(* effect.                                                                 *)
RecordIsTrue ==
  \A o \in Ops : rec[o].why = "receipt" =>
    /\ o \in Mutating /\ rec[o].state = "succeeded" => effects[o] = 1
    /\ o \in Mutating /\ rec[o].state = "failed" => effects[o] = 0
    /\ o \in Saved(journal) => journal.receipts[o].state = rec[o].state

(* An operation ends once: a poll that goes on to end what it collected    *)
(* finds out that it ended meanwhile, by a cancellation or, where clocks   *)
(* may step back, by a receipt.                                            *)
EndsOnce == [][\A o \in Ops : rec[o].state \in Terminal => rec'[o] = rec[o]]_vars

(* Nothing but a poll of its own host ends an operation that ran out of    *)
(* time or attempts.  Every operation ends at the master all the same, or  *)
(* one of three things stands in the way for good: the agent cannot read   *)
(* its journal, or systemd has given it up and nobody starts it, or the    *)
(* owner of a probe raises over and over, which ends every poll that is    *)
(* to end the probe before it comes to any other operation.                *)
AgentStaysDown == <>[](\A e \in Executors : pc[e] = "stopped")

OwnersKeepRaising == \E e \in Executors : []<><<OwnerRaises(e)>>_vars

EveryOperationEnds ==
  \/ AgentStaysDown \/ OwnersKeepRaising
  \/ \A o \in Ops :
       rec[o].state \in {"queued", "leased"}
         ~> (rec[o].state \in Terminal \/ ~ Readable(journal))

(* The receipts stay within the limit above which _read_locked refuses the *)
(* journal for good.                                                       *)
JournalReadable == Readable(journal)
=============================================================================
