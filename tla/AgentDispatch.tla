---------------------------- MODULE AgentDispatch ---------------------------
(***************************************************************************)
(* The dispatch of runs to one agent: agentmgr.Manager on the server, the  *)
(* poll loop of the agent, and the HTTP calls between them, which may be   *)
(* late, lost on the way back, or left behind by a timeout.  A call of     *)
(* RunBackup or RunRestore is named by its run and the attempt of the run; *)
(* the wire and Manager.active know only the run.                          *)
(***************************************************************************)
EXTENDS Naturals, Sequences, SequencesExt, FiniteSets

CONSTANTS Runs,         \* run ids
          MaxAttempts,  \* attempts a run's policy allows
          MaxCalls,     \* bound: calls of RunBackup and RunRestore in a behaviour
          MaxChunks,    \* chunks the agent uploads for one dispatch
          Update        \* the dispatch that carries a self-update

ASSUME DispatchAssumption == MaxAttempts \in Nat \ {0} /\ {MaxCalls, MaxChunks} \subseteq Nat

VARIABLES wait,      \* wait() of each run: attempt, phase, and whether ctx is done
          active,    \* Manager.active: the attempt whose runState is registered, or 0
          picked,    \* calls whose runState.picked is closed
          silent,    \* runs whose last sign of life is StallTimeout ago
          done,      \* what is in runState.done of each call
          pending,   \* Manager.pending of the agent
          handlers,  \* the server's side of /complete and /fail calls
          agent      \* the agent: pc, the response on its way, its batch, its upload

vars == <<wait, active, picked, silent, done, pending, handlers, agent>>

Attempts == 1..MaxAttempts
Calls == Runs \X Attempts
Made == Cardinality({c \in Calls : c[2] <= wait[c[1]].attempt})
Waiting == {"queued", "collected"}
Quitting == {"giving up", "stopping"}
Idle == [pc |-> "idle", batch |-> <<>>, sent |-> 0]
work(q) == SelectSeq(q, LAMBDA d : d # Update)
updates(q) == SelectSeq(q, LAMBDA d : d = Update)
current == Head(agent.batch)

Init ==
  /\ wait = [r \in Runs |-> [attempt |-> 0, phase |-> "none", cancelled |-> FALSE]]
  /\ active = [r \in Runs |-> 0]
  /\ picked = {} /\ silent = {}
  /\ done = [c \in Calls |-> <<>>]
  /\ pending = <<>>
  /\ handlers = {}
  /\ agent = Idle

-----------------------------------------------------------------------------
(* RunBackup, RunRestore and wait.                                         *)

\* The first attempt, or another one after a failure that was no cancellation;
\* enqueue registers the run and queues the dispatch under the lock.
Dispatch(r) ==
  /\ wait[r].phase \in {"none", "failed"}
  /\ ~wait[r].cancelled
  /\ wait[r].attempt < MaxAttempts
  /\ Made < MaxCalls
  /\ LET k == wait[r].attempt + 1
     IN  /\ wait' = [wait EXCEPT ![r].attempt = k, ![r].phase = "queued"]
         /\ active' = [active EXCEPT ![r] = k]
         /\ pending' = Append(pending, <<r, k>>)
  /\ silent' = silent \ {r}
  /\ UNCHANGED <<picked, done, handlers, agent>>

CancelRun(r) ==
  /\ wait[r].phase \in Waiting \cup Quitting /\ ~wait[r].cancelled
  /\ wait' = [wait EXCEPT ![r].cancelled = TRUE]
  /\ UNCHANGED <<active, picked, silent, done, pending, handlers, agent>>

call(r) == <<r, wait[r].attempt>>
Over(r, phase) == wait' = [wait EXCEPT ![r].phase = phase]

\* Slip: the wait ends and the run stays registered.
abandonNothing(r) == UNCHANGED active

\* abandon: the run is forgotten, whichever attempt is registered; its dispatch
\* stays where it is.
abandon(r) == active' = [active EXCEPT ![r] = 0]

\* The four ways on from the first select, and the three of the loop.
TakeResult(r) ==
  /\ wait[r].phase \in Waiting
  /\ done[call(r)] # <<>>
  /\ Over(r, IF Head(done[call(r)]).ok THEN "succeeded" ELSE "failed")
  /\ done' = [done EXCEPT ![call(r)] = Tail(@)]
  /\ UNCHANGED <<active, picked, silent, pending, handlers, agent>>

ContextDone(r) ==
  /\ wait[r].phase \in Waiting
  /\ wait[r].cancelled
  /\ Over(r, "stopping")
  /\ UNCHANGED <<active, picked, silent, done, pending, handlers, agent>>

PickupTimeout(r) ==
  /\ wait[r].phase = "queued"
  /\ Over(r, "giving up")
  /\ UNCHANGED <<active, picked, silent, done, pending, handlers, agent>>

Collected(r) ==
  /\ wait[r].phase = "queued"
  /\ call(r) \in picked
  /\ Over(r, "collected")
  /\ UNCHANGED <<active, picked, silent, done, pending, handlers, agent>>

\* StallTimeout goes by without a sign of life ...
Silence(r) ==
  /\ wait[r].phase = "collected"
  /\ active[r] # 0
  /\ silent' = silent \cup {r}
  /\ UNCHANGED <<wait, active, picked, done, pending, handlers, agent>>

\* ... and the ticker notices, unless the run was finished meanwhile.
Stalled(r) ==
  /\ wait[r].phase = "collected"
  /\ active[r] # 0
  /\ r \in silent
  /\ Over(r, "giving up")
  /\ UNCHANGED <<active, picked, silent, done, pending, handlers, agent>>

\* wait has made up its mind and takes the lock again; a result, a chunk or a
\* collection that came between the two makes no difference.
Quit(r) ==
  /\ wait[r].phase \in Quitting
  /\ abandon(r)
  /\ Over(r, IF wait[r].phase = "stopping" THEN "canceled" ELSE "failed")
  /\ UNCHANGED <<picked, silent, done, pending, handlers, agent>>

busyLocked == \E r \in Runs : active[r] # 0

\* Slip: the agent's work is not looked at.
QueueUpdateAnyway ==
  /\ pending' = Append(work(pending), Update)
  /\ UNCHANGED <<wait, active, picked, silent, done, handlers, agent>>

\* QueueUpdate: refused while a run is registered; one update at a time.
QueueUpdate ==
  /\ ~busyLocked
  /\ pending' = Append(work(pending), Update)
  /\ UNCHANGED <<wait, active, picked, silent, done, handlers, agent>>

-----------------------------------------------------------------------------
(* The agent's poll loop, and what its calls do on the server.             *)

\* Heartbeat: the queue is emptied into the response, and every run in it that is
\* still registered counts as collected, whichever attempt the dispatch is of.
Heartbeat ==
  /\ agent.pc = "idle"
  /\ agent' = [Idle EXCEPT !.pc = "polling", !.batch = pending]
  /\ pending' = <<>>
  /\ LET runs == {r \in Runs : active[r] # 0 /\ \E d \in ToSet(work(pending)) : d[1] = r}
     IN  picked' = picked \cup {<<r, active[r]>> : r \in runs} /\ silent' = silent \ runs
  /\ UNCHANGED <<wait, active, done, handlers>>

\* The response to the heartbeat does not arrive, because the call timed out or the
\* agent was restarted; it will poll again.
LoseResponse ==
  /\ agent.pc = "polling"
  /\ agent' = Idle
  /\ UNCHANGED <<wait, active, picked, silent, done, pending, handlers>>

\* The agent is restarted; what it held is gone.
AgentRestarts ==
  /\ agent.pc \notin {"idle", "polling"}
  /\ agent' = Idle
  /\ UNCHANGED <<wait, active, picked, silent, done, pending, handlers>>

\* pollOnce: work first, updates last.
ReceiveBatch ==
  /\ agent.pc = "polling"
  /\ agent' = [agent EXCEPT !.pc = "next", !.batch = work(@) \o updates(@)]
  /\ UNCHANGED <<wait, active, picked, silent, done, pending, handlers>>

NextDispatch ==
  /\ agent.pc = "next"
  /\ agent' = IF agent.batch = <<>> THEN Idle
              ELSE [agent EXCEPT !.pc = IF current = Update THEN "updating" ELSE "working",
                                 !.sent = 0]
  /\ UNCHANGED <<wait, active, picked, silent, done, pending, handlers>>

\* A self-update ends with the agent starting again.
UpdateAgent ==
  /\ agent.pc = "updating"
  /\ agent' = Idle
  /\ UNCHANGED <<wait, active, picked, silent, done, pending, handlers>>

\* AcceptChunk, or bytes of a restore stream: a sign of life of whatever attempt
\* is registered.  A chunk for a run that is not is refused.  (The call is one step:
\* a run abandoned while its chunk is stored is refused the next one.)
SendChunk ==
  /\ agent.pc = "working"
  /\ agent.sent < MaxChunks
  /\ IF active[current[1]] # 0
       THEN agent' = [agent EXCEPT !.sent = @ + 1] /\ silent' = silent \ {current[1]}
       ELSE agent' = [agent EXCEPT !.pc = "failing"] /\ UNCHANGED silent
  /\ UNCHANGED <<wait, active, picked, done, pending, handlers>>

\* The work fails in the guest.
WorkFails ==
  /\ agent.pc = "working"
  /\ agent' = [agent EXCEPT !.pc = "failing"]
  /\ UNCHANGED <<wait, active, picked, silent, done, pending, handlers>>

\* All chunks are up: /complete is called.  A failed dispatch calls /fail.
Report ==
  /\ \/ agent.pc = "working" /\ agent.sent = MaxChunks
     \/ agent.pc = "failing"
  /\ LET ok == agent.pc = "working"
     IN  /\ agent' = [agent EXCEPT !.pc = IF ok THEN "completing" ELSE "reporting"]
         /\ handlers' = handlers \cup {[run |-> current[1], by |-> current[2], ok |-> ok,
                                        at |-> "sent", of |-> 0]}
  /\ UNCHANGED <<wait, active, picked, silent, done, pending>>

Completes(h) == h.ok /\ <<h.run, h.by>> = current

\* The agent goes on with its batch once its completion was accepted, or its
\* failure report was answered or timed out.
Answered ==
  /\ \/ agent.pc = "completing" /\ ~\E h \in handlers : Completes(h)
     \/ agent.pc = "reporting"
  /\ agent' = [agent EXCEPT !.pc = "next", !.batch = Tail(@)]
  /\ UNCHANGED <<wait, active, picked, silent, done, pending, handlers>>

\* The completion timed out, done or not: it is reported as a failure.
CompleteTimesOut ==
  /\ agent.pc = "completing"
  /\ agent' = [agent EXCEPT !.pc = "failing"]
  /\ UNCHANGED <<wait, active, picked, silent, done, pending, handlers>>

-----------------------------------------------------------------------------
(* The handlers of /complete and /fail.                                    *)

\* Slip: a completion that is refused forgets the run.
RefuseForgetting(h) ==
  /\ h.at = "sent" \/ (h.at = "checking" /\ h.ok)
  /\ handlers' = handlers \ {h}
  /\ active' = IF h.at = "checking" THEN [active EXCEPT ![h.run] = 0] ELSE active
  /\ agent' = IF agent.pc = "completing" /\ Completes(h) THEN [agent EXCEPT !.pc = "failing"] ELSE agent
  /\ UNCHANGED <<wait, picked, silent, done, pending>>

takeRun(h) ==
  /\ h.at = "sent"
  /\ active[h.run] # 0
  /\ handlers' = (handlers \ {h}) \cup {[h EXCEPT !.at = "checking"]}
  /\ UNCHANGED <<wait, active, picked, silent, done, pending, agent>>

\* finish under the lock: the registered attempt, if there is one, is closed.
Finish(h) ==
  /\ h.at = "checking"
  /\ handlers' = (handlers \ {h}) \cup
                   (IF active[h.run] = 0 THEN {} ELSE {[h EXCEPT !.at = "sending", !.of = active[h.run]]})
  /\ active' = [active EXCEPT ![h.run] = 0]
  /\ UNCHANGED <<wait, picked, silent, done, pending, agent>>

\* The call is lost, its run is not registered, or the completion names a chunk
\* that the target lacks.
Refuse(h) ==
  /\ h.at = "sent" \/ (h.at = "checking" /\ h.ok)
  /\ handlers' = handlers \ {h}
  /\ agent' = IF agent.pc = "completing" /\ Completes(h) THEN [agent EXCEPT !.pc = "failing"] ELSE agent
  /\ UNCHANGED <<wait, active, picked, silent, done, pending>>

\* The result goes to the channel, which has room for one.
SendResult(h) ==
  /\ h.at = "sending"
  /\ done[<<h.run, h.of>>] = <<>>
  /\ done' = [done EXCEPT ![<<h.run, h.of>>] = <<[ok |-> h.ok, by |-> h.by]>>]
  /\ handlers' = handlers \ {h}
  /\ UNCHANGED <<wait, active, picked, silent, pending, agent>>

WaitStep(r) ==
  \/ TakeResult(r)
  \/ ContextDone(r)
  \/ PickupTimeout(r)
  \/ Collected(r)
  \/ Silence(r)
  \/ Stalled(r)
  \/ Quit(r)

AgentStep ==
  \/ Heartbeat
  \/ LoseResponse
  \/ AgentRestarts
  \/ ReceiveBatch
  \/ NextDispatch
  \/ UpdateAgent
  \/ SendChunk
  \/ WorkFails
  \/ Report
  \/ Answered
  \/ CompleteTimesOut

HandlerStep == \E h \in handlers : takeRun(h) \/ Finish(h) \/ Refuse(h) \/ SendResult(h)

Next ==
  \/ \E r \in Runs : Dispatch(r) \/ CancelRun(r) \/ WaitStep(r)
  \/ QueueUpdate
  \/ AgentStep
  \/ HandlerStep

Spec == Init /\ [][Next]_vars

-----------------------------------------------------------------------------

\* Busy counts on "the live runs are exactly the entries in active"
\* (agentmgr.go:318): whatever ends a wait, a registered run has somebody waiting
\* for it, so an agent cannot stay busy, and un-updatable, for ever.
ActiveRunsAreAwaited ==
  \A r \in Runs : active[r] # 0 =>
    wait[r].phase \in Waiting \cup Quitting /\ wait[r].attempt = active[r] /\ done[call(r)] = <<>>

\* Busy "is the check that stops an operator restarting an agent in the middle of
\* a backup" (agentmgr.go:314): while an update waits to be handed out, no run
\* that is still awaited has been collected, so none can be under way; and "work
\* first, updates last" (agent.go:314): however updates and dispatches followed one
\* another in the queue, the agent replaces its binary with no work in hand.
NoUpdateMidRun ==
  /\ Update \in ToSet(pending) => \A r \in Runs : active[r] # 0 => <<r, active[r]>> \notin picked
  /\ agent.pc = "updating" => work(agent.batch) = <<>>

\* RunBackup and RunRestore return: a wait for a run that is no longer registered,
\* which the timers of wait() pass over, has its result in the channel or in the
\* hands of a handler that is about to send it, however the attempts of the run
\* and the calls of its agent cross.  There is never a second one: the channel
\* holds one result, and a handler that found it full would block for ever.
ResultOnTheWay ==
  /\ \A r \in Runs : wait[r].phase \in Waiting /\ active[r] # wait[r].attempt =>
       \/ done[call(r)] # <<>>
       \/ \E h \in handlers : h.at = "sending" /\ <<h.run, h.of>> = call(r)
  /\ \A h \in handlers : h.at = "sending" =>
       /\ done[<<h.run, h.of>>] = <<>>
       /\ \A g \in handlers : g.at = "sending" /\ g.run = h.run /\ g.of = h.of => g = h
=============================================================================
