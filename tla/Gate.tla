-------------------------------- MODULE Gate --------------------------------
(***************************************************************************)
(* sched/gate.go: the resizable limiter every run passes through.  Each    *)
(* action is one critical section of the gate's mutex, or one arm of the   *)
(* select in Acquire.  The gap between a grant (close of the channel) and  *)
(* the moment the run notices it, and the gap between a withdrawal and the *)
(* Release that gives an unwanted grant back, are both visible.            *)
(***************************************************************************)
EXTENDS Naturals, Sequences, FiniteSets

CONSTANTS Runs,    \* the run goroutines
          Limits   \* the arguments SetLimit is called with

ASSUME RunsFinite == IsFiniteSet(Runs)
ASSUME LimitsNat == Limits \subseteq Nat

VARIABLES limit,    \* gate.limit
          active,   \* gate.active
          waiters,  \* gate.waiters: the queued runs, oldest first
          granted,  \* runs whose channel wakeLocked has closed
          ctxDone,  \* runs whose context is cancelled
          pc        \* where each run is in Acquire / Release

vars == <<limit, active, waiters, granted, ctxDone, pc>>

Clamp(n) == IF n < 1 THEN 1 ELSE n

Init ==
  /\ limit \in {Clamp(n) : n \in Limits}
  /\ active = 0
  /\ waiters = <<>>
  /\ granted = {}
  /\ ctxDone = {}
  /\ pc = [r \in Runs |-> "idle"]

-----------------------------------------------------------------------------

\* How many of w are woken when a slots are taken out of l.
Woken(w, a, l) ==
  IF a >= l THEN 0
  ELSE IF l - a < Len(w) THEN l - a ELSE Len(w)

\* Slip: the queue is served from its tail.
wakeNewest(w, a, l, g) ==
  LET k == Woken(w, a, l) IN
    /\ waiters' = SubSeq(w, 1, Len(w) - k)
    /\ active' = a + k
    /\ granted' = g \cup {w[i] : i \in (Len(w) - k + 1)..Len(w)}

\* wakeLocked: hand free slots to the head of the queue.  w and a are the queue
\* and the count at the time of the call; g is the set of channels closed so far.
wakeLocked(w, a, l, g) ==
  LET k == Woken(w, a, l) IN
    /\ waiters' = SubSeq(w, k + 1, Len(w))
    /\ active' = a + k
    /\ granted' = g \cup {w[i] : i \in 1..k}

\* Slip: the slot is freed and nobody is woken.
ReleaseSilently(g) ==
  /\ active' = IF active > 0 THEN active - 1 ELSE active
  /\ granted' = g
  /\ UNCHANGED <<limit, waiters>>

\* Release, as a step of a run whose next location is given by the caller.
ReleaseSlot(g) ==
  /\ wakeLocked(waiters, IF active > 0 THEN active - 1 ELSE active, limit, g)
  /\ UNCHANGED limit

SetLimit(n) ==
  /\ limit' = Clamp(n)
  /\ wakeLocked(waiters, active, limit', granted)
  /\ UNCHANGED <<ctxDone, pc>>

\* Slip: the limit is compared with <=.
AcquireOneMore(r) ==
  /\ pc[r] = "idle"
  /\ active <= limit
  /\ active' = active + 1
  /\ pc' = [pc EXCEPT ![r] = "holding"]
  /\ UNCHANGED <<limit, waiters, granted, ctxDone>>

\* The first critical section of Acquire with a slot free.
AcquireFree(r) ==
  /\ pc[r] = "idle"
  /\ active < limit
  /\ active' = active + 1
  /\ pc' = [pc EXCEPT ![r] = "holding"]
  /\ UNCHANGED <<limit, waiters, granted, ctxDone>>

\* The first critical section of Acquire with the gate full.
AcquireQueue(r) ==
  /\ pc[r] = "idle"
  /\ active >= limit
  /\ waiters' = Append(waiters, r)
  /\ pc' = [pc EXCEPT ![r] = "queued"]
  /\ UNCHANGED <<limit, active, granted, ctxDone>>

\* The select takes the closed channel.  It may do so although the context is
\* done too: with both ready the choice is the runtime's.
NoticeGrant(r) ==
  /\ pc[r] = "queued"
  /\ r \in granted
  /\ granted' = granted \ {r}
  /\ pc' = [pc EXCEPT ![r] = "holding"]
  /\ UNCHANGED <<limit, active, waiters, ctxDone>>

\* append(w[:i], w[i+1:]...)
Without(w, i) == SubSeq(w, 1, i - 1) \o SubSeq(w, i + 1, Len(w))

\* Slip: a cancelled run leaves without looking at the queue.
WithdrawBlindly(r) ==
  /\ pc[r] = "queued"
  /\ r \in ctxDone
  /\ pc' = [pc EXCEPT ![r] = "idle"]
  /\ ctxDone' = ctxDone \ {r}
  /\ UNCHANGED <<limit, active, waiters, granted>>

\* The select takes ctx.Done: the run looks for itself in the queue under the
\* lock.  Found, it leaves and Acquire fails; not found, a grant is in hand.
Withdraw(r) ==
  /\ pc[r] = "queued"
  /\ r \in ctxDone
  /\ \/ \E i \in 1..Len(waiters) :
          /\ waiters[i] = r
          /\ \A j \in 1..(i - 1) : waiters[j] # r
          /\ waiters' = Without(waiters, i)
          /\ pc' = [pc EXCEPT ![r] = "idle"]
          /\ ctxDone' = ctxDone \ {r}
     \/ /\ \A i \in 1..Len(waiters) : waiters[i] # r
        /\ pc' = [pc EXCEPT ![r] = "returning"]
        /\ UNCHANGED <<waiters, ctxDone>>
  /\ UNCHANGED <<limit, active, granted>>

\* A cancelled run gives back the slot it was handed concurrently.
GiveBack(r) ==
  /\ pc[r] = "returning"
  /\ ReleaseSlot(granted \ {r})
  /\ pc' = [pc EXCEPT ![r] = "idle"]
  /\ ctxDone' = ctxDone \ {r}

\* The run is over: launch's deferred Release.
Release(r) ==
  /\ pc[r] = "holding"
  /\ ReleaseSlot(granted)
  /\ pc' = [pc EXCEPT ![r] = "idle"]
  /\ ctxDone' = ctxDone \ {r}

\* Cancel or Stop cancels the run's context, at any time.
CancelContext(r) ==
  /\ ctxDone' = ctxDone \cup {r}
  /\ UNCHANGED <<limit, active, waiters, granted, pc>>

RunStep(r) ==
  \/ AcquireFree(r)
  \/ AcquireQueue(r)
  \/ NoticeGrant(r)
  \/ Withdraw(r)
  \/ GiveBack(r)
  \/ Release(r)

Next ==
  \/ \E r \in Runs : RunStep(r) \/ CancelContext(r)
  \/ \E n \in Limits : SetLimit(n)

Spec == Init /\ [][Next]_vars

\* A granted or cancelled waiter is runnable, and a run that holds a slot ends:
\* launch releases on every path out of the run, a panic included.  Nothing is
\* assumed of cancellations, of new runs or of the operator.
Fairness ==
  \A r \in Runs :
    /\ WF_vars(NoticeGrant(r) \/ Withdraw(r))
    /\ WF_vars(GiveBack(r))
    /\ WF_vars(Release(r))

FairSpec == Spec /\ Fairness

-----------------------------------------------------------------------------

Waiting == {waiters[i] : i \in 1..Len(waiters)}

\* The runs a slot is charged to, whether or not they know it yet.
Owners ==
  {r \in Runs : \/ pc[r] \in {"holding", "returning"}
                \/ pc[r] = "queued" /\ r \in granted}

TypeOK ==
  /\ limit \in Nat \ {0}
  /\ active \in Nat
  /\ waiters \in Seq(Runs)
  /\ granted \subseteq Runs
  /\ ctxDone \subseteq Runs
  /\ pc \in [Runs -> {"idle", "queued", "returning", "holding"}]

\* gate.active counts exactly the runs that own a slot: a grant that races a
\* cancellation is neither lost (the pool would shrink for good) nor returned
\* twice (the pool would grow).
SlotAccounting == active = Cardinality(Owners)

\* No lost wake-up: while a run queues, every slot is taken.
NoIdleSlot == waiters # <<>> => active >= limit

\* Each queued run is in the queue once, and is there exactly until its grant.
QueueMatchesRuns ==
  /\ \A i, j \in 1..Len(waiters) : waiters[i] = waiters[j] => i = j
  /\ Waiting = {r \in Runs : pc[r] = "queued"} \ granted
  /\ granted \subseteq {r \in Runs : pc[r] \in {"queued", "returning"}}
  /\ {r \in Runs : pc[r] = "returning"} \subseteq granted

\* "a lowered limit is honoured as running work finishes" (gate.go:9-10): the
\* number of slots handed out never grows except up to the limit in force.
LimitHonoured == [][active' > active => active' <= limit']_vars

\* First come, first served: while a queued run stays queued, only runs ahead
\* of it in the queue get a slot, and a newcomer never overtakes it.
FirstComeFirstServed ==
  [][\A i \in 1..Len(waiters) :
       waiters[i] \in Waiting' =>
         Owners' \ Owners \subseteq {waiters[j] : j \in 1..(i - 1)}]_vars

\* A run never hangs in Acquire: it is admitted or, if cancelled, turned away.
QueuedRunLeavesQueue ==
  \A r \in Runs : pc[r] = "queued" ~> pc[r] # "queued"

\* The gate implements the slot pool, owners being those charged for a slot.
Pool == INSTANCE SlotPool WITH capacity <- limit, owners <- Owners
ImplementsPool == Pool!Spec
=============================================================================
