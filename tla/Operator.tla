------------------------------ MODULE Operator ------------------------------
(***************************************************************************)
(* The operator around the reconcile loop: the informer, the work queue    *)
(* with its workers, and leader election between several processes of it.  *)
(* It answers for what GitApplicationController takes for granted: that a  *)
(* worker reaches every application again and again, and never two of them *)
(* the same one at once.                                                   *)
(*                                                                         *)
(* A step is one call of the queue, one call to the API server or one      *)
(* event handed over, so that events, timers, the lease and other          *)
(* processes may come between any two of them.  Simplifications:           *)
(*  - A reconcile is a read of its application and one status patch.       *)
(*  - Events of one application that wait to be handed over are one event: *)
(*    the handlers only pass on its name.                                  *)
(*  - A delay of the queue (interval, back-off) ends at any time.          *)
(*  - Time is counted in ticks for the lease only, and a process acts when *)
(*    its timers are due: it does not freeze.                              *)
(*  - Leader election is switched on, as in the chart.                     *)
(***************************************************************************)
EXTENDS Integers, Sequences, FiniteSets

CONSTANTS
  Processes,     \* processes of the operator, by the hostname of their pod
  Names,         \* keys of GitApplications
  Sites,         \* pods that are deployed and applications users have
  Workers,       \* workers of a process
  LeaseDuration, \* ticks after which others may take the lease
  RenewDeadline, \* ticks a leader tries to renew it
  RetryPeriod,   \* ticks from a renewal to the next
  MaxEdits,      \* bound: changes of applications by users
  MaxFaults,     \* bound: crashes, terminations, failed reads and renewals
  None           \* no process

ASSUME OperatorAssumption ==
  /\ Sites \subseteq [pods : SUBSET Processes, names : SUBSET Names]
  /\ Workers \in Nat \ {0}
  /\ {LeaseDuration, RenewDeadline, RetryPeriod} \subseteq Nat \ {0}
  /\ RetryPeriod + RenewDeadline < LeaseDuration
  /\ {MaxEdits, MaxFaults} \subseteq Nat
  /\ None \notin Processes

VARIABLES
  site,    \* the element of Sites it is about
  there,   \* there[n]: the application is on the API server
  unread,  \* unread[n]: no reconcile has read it as it is now
  lease,   \* the Lease: its holder, and ticks since its renewal
  phase,   \* phase[p]: where main of process p is
  since,   \* since[p]: ticks since a leader last renewed
  synced,  \* synced[p]: its informer has listed and its workers run
  events,  \* events[p]: applications its handlers will be called for
  queue,   \* queue[p]: its work queue
  jobs,    \* jobs[p]: what its workers are at
  edits,   \* changes by users so far
  spent    \* how much of MaxFaults is used up

apps == <<there, unread, edits>>
vars == <<site, apps, lease, phase, since, synced, events, queue, jobs, spent>>

\* A process that is "leaving" has failed to renew and gives up the lease,
\* its workers still running; one that is "cancelled" has a dead context.
Phases == {"down", "standby", "leading", "leaving", "cancelled"}

Stages == {"got", "read", "gone", "ok", "error"}

Job == [name : Names, stage : Stages]

\* line: the order of the queue; dirty: what has to be processed;
\* delayed: what AddAfter and AddRateLimited hold back.
Queue == [line : Seq(Names), dirty : SUBSET Names, delayed : SUBSET Names]

EmptyQueue == [line |-> <<>>, dirty |-> {}, delayed |-> {}]

GiveUpAfter == RetryPeriod + RenewDeadline

TypeOK ==
  /\ site \in Sites
  /\ there \in [Names -> BOOLEAN]
  /\ unread \in [Names -> BOOLEAN]
  /\ edits \in 0..MaxEdits
  /\ lease \in [holder : Processes \cup {None}, age : 0..LeaseDuration]
  /\ phase \in [Processes -> Phases]
  /\ since \in [Processes -> 0..GiveUpAfter]
  /\ synced \in [Processes -> BOOLEAN]
  /\ events \in [Processes -> SUBSET Names]
  /\ queue \in [Processes -> Queue]
  /\ jobs \in [Processes -> SUBSET Job]
  /\ spent \in 0..MaxFaults

Init ==
  /\ site \in Sites
  /\ there = [n \in Names |-> n \in site.names]
  /\ unread = [n \in Names |-> TRUE]
  /\ edits = 0
  /\ lease = [holder |-> None, age |-> 0]
  /\ phase = [p \in Processes |-> "down"]
  /\ since = [p \in Processes |-> 0]
  /\ synced = [p \in Processes |-> FALSE]
  /\ events = [p \in Processes |-> {}]
  /\ queue = [p \in Processes |-> EmptyQueue]
  /\ jobs = [p \in Processes |-> {}]
  /\ spent = 0

CountFault == spent < MaxFaults /\ spent' = spent + 1

\* The context of run is not cancelled.
Live(p) == phase[p] \in {"leading", "leaving"}
Runs(p) == Live(p) /\ synced[p]

\* What the queue calls processing: taken, and not Done.
Busy(p) == {j.name : j \in jobs[p]}

(***************************************************************************)
(* The work queue.                                                         *)
(***************************************************************************)
\* Mutant of Added: a name that a worker has is queued like any other.
AddedAnyway(q, processing, n) ==
  IF n \in q.dirty THEN q
  ELSE [q EXCEPT !.dirty = @ \cup {n}, !.line = Append(@, n)]

\* Mutant of Added: a name that a worker has need not be queued.
AddedUnlessBusy(q, processing, n) ==
  IF n \in q.dirty \cup processing THEN q
  ELSE [q EXCEPT !.dirty = @ \cup {n}, !.line = Append(@, n)]

\* Add: a name that waits already is not added again, and one that a worker
\* has only joins the line when the worker is done with it.
Added(q, processing, n) ==
  IF n \in q.dirty THEN q
  ELSE [q EXCEPT !.dirty = @ \cup {n},
                 !.line = IF n \in processing THEN @ ELSE Append(@, n)]

Done(q, n) == IF n \in q.dirty THEN [q EXCEPT !.line = Append(@, n)] ELSE q

Delayed(q, n) == [q EXCEPT !.delayed = @ \cup {n}]

(***************************************************************************)
(* main and leader election.                                               *)
(***************************************************************************)
\* The context of p is done: informer and queue are of no use any more.
Shut(p) ==
  /\ synced' = [synced EXCEPT ![p] = FALSE]
  /\ events' = [events EXCEPT ![p] = {}]
  /\ queue' = [queue EXCEPT ![p] = EmptyQueue]

Enter(p, ph) ==
  /\ phase' = [phase EXCEPT ![p] = ph]
  /\ since' = [since EXCEPT ![p] = 0]

Start(p) ==
  /\ p \in site.pods
  /\ phase[p] = "down"
  /\ Enter(p, "standby")
  /\ UNCHANGED <<site, apps, lease, synced, events, queue, jobs, spent>>

\* Mutant of Acquire: a lease that was not renewed at once is free.
AcquireEarly(p) ==
  /\ phase[p] = "standby"
  /\ lease.holder \in {None, p} \/ lease.age >= RetryPeriod
  /\ lease' = [holder |-> p, age |-> 0]
  /\ Enter(p, "leading")
  /\ UNCHANGED <<site, apps, synced, events, queue, jobs, spent>>

\* The lease is free, has run out, or still names this pod.
Acquire(p) ==
  /\ phase[p] = "standby"
  /\ lease.holder \in {None, p} \/ lease.age = LeaseDuration
  /\ lease' = [holder |-> p, age |-> 0]
  /\ Enter(p, "leading")
  /\ UNCHANGED <<site, apps, synced, events, queue, jobs, spent>>

Renew(p) ==
  /\ phase[p] = "leading"
  /\ 0 < since[p] /\ since[p] < GiveUpAfter
  /\ lease' = [holder |-> p, age |-> 0]
  /\ since' = [since EXCEPT ![p] = 0]
  /\ UNCHANGED <<site, apps, phase, synced, events, queue, jobs, spent>>

\* Mutant of Tick: a leader that cannot renew does not watch its deadline.
TickOn ==
  /\ \/ /\ \E p \in Processes : phase[p] = "leading" /\ since[p] >= RetryPeriod
        /\ CountFault
     \/ /\ \A p \in Processes : phase[p] = "leading" => since[p] < RetryPeriod
        /\ UNCHANGED spent
  /\ lease' = [lease EXCEPT !.age = IF @ < LeaseDuration THEN @ + 1 ELSE @]
  /\ since' = [p \in Processes |-> IF phase[p] = "leading" THEN since[p] + 1 ELSE 0]
  /\ UNCHANGED <<site, apps, phase, synced, events, queue, jobs>>

\* A tick.  A leader that is due to renew and cannot has lost the API server.
Tick ==
  /\ \A p \in Processes : phase[p] = "leading" => since[p] < GiveUpAfter
  /\ \/ /\ \E p \in Processes : phase[p] = "leading" /\ since[p] >= RetryPeriod
        /\ CountFault
     \/ /\ \A p \in Processes : phase[p] = "leading" => since[p] < RetryPeriod
        /\ UNCHANGED spent
  /\ lease' = [lease EXCEPT !.age = IF @ < LeaseDuration THEN @ + 1 ELSE @]
  /\ since' = [p \in Processes |-> IF phase[p] = "leading" THEN since[p] + 1 ELSE 0]
  /\ UNCHANGED <<site, apps, phase, synced, events, queue, jobs>>

\* The leader gives up.  ReleaseOnCancel: it first releases the lease, and
\* only when that call has returned is the context of run cancelled.
GiveUp(p) ==
  /\ phase[p] = "leading"
  /\ since[p] = GiveUpAfter
  /\ Enter(p, "leaving")
  /\ UNCHANGED <<site, apps, lease, synced, events, queue, jobs, spent>>

Release(p) ==
  /\ phase[p] \in {"leaving", "cancelled"}
  /\ lease.holder = p
  /\ lease' = [holder |-> None, age |-> 0]
  /\ UNCHANGED <<site, apps, phase, since, synced, events, queue, jobs, spent>>

Cancel(p) ==
  /\ phase[p] = "leaving"
  /\ Enter(p, "cancelled")
  /\ Shut(p)
  /\ UNCHANGED <<site, apps, lease, jobs, spent>>

\* SIGTERM: the context of main, and with it that of run, is done.
Terminate(p) ==
  /\ phase[p] \in {"standby", "leading", "leaving"}
  /\ CountFault
  /\ Enter(p, IF phase[p] = "standby" THEN "down" ELSE "cancelled")
  /\ Shut(p)
  /\ UNCHANGED <<site, apps, lease, jobs>>

\* main returns, or exits because leadership is lost, and does not wait for
\* the workers.
Exit(p) ==
  /\ phase[p] = "cancelled"
  /\ Enter(p, "down")
  /\ jobs' = [jobs EXCEPT ![p] = {}]
  /\ UNCHANGED <<site, apps, lease, synced, events, queue, spent>>

Crash(p) ==
  /\ phase[p] # "down"
  /\ CountFault
  /\ Enter(p, "down")
  /\ Shut(p)
  /\ jobs' = [jobs EXCEPT ![p] = {}]
  /\ UNCHANGED <<site, apps, lease>>

(***************************************************************************)
(* The informer.                                                           *)
(***************************************************************************)
\* Everything that is there is an Add event; then the workers start.
List(p) ==
  /\ Live(p) /\ ~synced[p]
  /\ synced' = [synced EXCEPT ![p] = TRUE]
  /\ events' = [events EXCEPT ![p] = {n \in Names : there[n]}]
  /\ UNCHANGED <<site, apps, lease, phase, since, queue, jobs, spent>>

\* A change of n on the API server is an event of every process that watches.
Notified(n) ==
  [p \in Processes |-> IF Runs(p) THEN events[p] \cup {n} ELSE events[p]]

\* enqueueObject, the handler of all three kinds of event.
Enqueue(p, n) ==
  /\ Runs(p)
  /\ n \in events[p]
  /\ events' = [events EXCEPT ![p] = @ \ {n}]
  /\ queue' = [queue EXCEPT ![p] = Added(@, Busy(p), n)]
  /\ UNCHANGED <<site, apps, lease, phase, since, synced, jobs, spent>>

(***************************************************************************)
(* runWorker.                                                              *)
(***************************************************************************)
Get(p) ==
  /\ Runs(p)
  /\ queue[p].line # <<>>
  /\ Cardinality(jobs[p]) < Workers
  /\ LET n == Head(queue[p].line)
     IN /\ queue' = [queue EXCEPT ![p].line = Tail(@), ![p].dirty = @ \ {n}]
        /\ jobs' = [jobs EXCEPT ![p] = @ \cup {[name |-> n, stage |-> "got"]}]
  /\ UNCHANGED <<site, apps, lease, phase, since, synced, events, spent>>

Move(p, n, from, to) ==
  /\ [name |-> n, stage |-> from] \in jobs[p]
  /\ jobs' = [jobs EXCEPT ![p] = (@ \ {[name |-> n, stage |-> from]})
                                   \cup {[name |-> n, stage |-> to]}]

Read(p, n) ==
  /\ Runs(p)
  /\ Move(p, n, "got", IF there[n] THEN "read" ELSE "gone")
  /\ unread' = [unread EXCEPT ![n] = FALSE]
  /\ UNCHANGED <<site, there, edits, lease, phase, since, synced, events, queue, spent>>

ReadFails(p, n) ==
  /\ Runs(p)
  /\ Move(p, n, "got", "error")
  /\ CountFault
  /\ UNCHANGED <<site, apps, lease, phase, since, synced, events, queue>>

\* The status patch: an event like any other change, unless it fails, or
\* changes nothing because the times in it are in the same second as before.
\* A call that was under way when the context ended may still be carried
\* out.  The reconcile may also return an error after it, or panic.
Patch(p, n) ==
  /\ Runs(p) \/ phase[p] = "cancelled"
  /\ \E outcome \in {"ok", "error"} : Move(p, n, "read", outcome)
  /\ \/ there[n] /\ events' = Notified(n)
     \/ UNCHANGED events
  /\ UNCHANGED <<site, apps, lease, phase, since, synced, queue, spent>>

\* Mutants of Returned: a failed application is left to the next event, and
\* a reconcile that went well is not asked for again.
ReturnedUntilEvent(q, stage, n) == IF stage = "ok" THEN Delayed(q, n) ELSE q
ReturnedOnce(q, stage, n) == IF stage = "error" THEN Delayed(q, n) ELSE q

\* RequeueAfter (never zero: validateSpec wants an interval above zero) and
\* AddRateLimited; a Result that is empty asks for nothing.
Returned(q, stage, n) == IF stage \in {"ok", "error"} THEN Delayed(q, n) ELSE q

\* Reconcile returned or panicked; Done is the last thing, deferred.
Return(p, n, stage) ==
  /\ Runs(p)
  /\ [name |-> n, stage |-> stage] \in jobs[p]
  /\ jobs' = [jobs EXCEPT ![p] = @ \ {[name |-> n, stage |-> stage]}]
  /\ queue' = [queue EXCEPT ![p] = Done(Returned(@, stage, n), n)]
  /\ UNCHANGED <<site, apps, lease, phase, since, synced, events, spent>>

\* The context is done: the name is not put back.
Abandon(p, j) ==
  /\ phase[p] = "cancelled"
  /\ j \in jobs[p]
  /\ jobs' = [jobs EXCEPT ![p] = @ \ {j}]
  /\ UNCHANGED <<site, apps, lease, phase, since, synced, events, queue, spent>>

\* A delay is over.
Fire(p, n) ==
  /\ Runs(p)
  /\ n \in queue[p].delayed
  /\ queue' = [queue EXCEPT ![p] =
                 Added([queue[p] EXCEPT !.delayed = @ \ {n}], Busy(p), n)]
  /\ UNCHANGED <<site, apps, lease, phase, since, synced, events, jobs, spent>>

(***************************************************************************)
(* Users.                                                                  *)
(***************************************************************************)
Change(n, present) ==
  /\ n \in site.names
  /\ edits < MaxEdits
  /\ there' = [there EXCEPT ![n] = present]
  /\ unread' = [unread EXCEPT ![n] = TRUE]
  /\ edits' = edits + 1
  /\ events' = Notified(n)
  /\ UNCHANGED <<site, lease, phase, since, synced, queue, jobs, spent>>

CreateOrEdit(n) == Change(n, TRUE)
Delete(n) == there[n] /\ Change(n, FALSE)

-----------------------------------------------------------------------------
Elect(p) ==
  Start(p) \/ Acquire(p) \/ Renew(p) \/ GiveUp(p) \/ Cancel(p) \/ Exit(p)

Work(p) ==
  \/ Get(p)
  \/ \E n \in Names :
       Read(p, n) \/ Patch(p, n) \/ \E stage \in {"gone", "ok", "error"} : Return(p, n, stage)

Faults(p) ==
  \/ Release(p) \/ Terminate(p) \/ Crash(p)
  \/ \E n \in Names : ReadFails(p, n)
  \/ \E j \in jobs[p] : Abandon(p, j)

Next ==
  \/ \E p \in Processes :
       \/ Elect(p) \/ List(p) \/ Work(p) \/ Faults(p)
       \/ \E n \in Names : Enqueue(p, n) \/ Fire(p, n)
  \/ Tick
  \/ \E n \in Names : CreateOrEdit(n) \/ Delete(n)

Spec == Init /\ [][Next]_vars

\* Every goroutine of a process goes on and every call returns; a pod is
\* restarted; timers fire; time passes.  Workers take the queue in order,
\* so weak fairness of each job is enough.  Users and faults have none, and
\* neither has the release of a lease.
Fairness ==
  /\ WF_vars(Tick)
  /\ \A p \in Processes :
       /\ WF_vars(Elect(p)) /\ WF_vars(List(p)) /\ WF_vars(Get(p))
       /\ \A n \in Names :
            /\ WF_vars(Enqueue(p, n)) /\ WF_vars(Fire(p, n))
            /\ WF_vars(Read(p, n)) /\ WF_vars(Patch(p, n))
            /\ WF_vars(\E stage \in {"gone", "ok", "error"} : Return(p, n, stage))

FairSpec == Spec /\ Fairness

(***************************************************************************)
(* What the operator promises.                                             *)
(***************************************************************************)
\* Two workers of a process never have the same application, although the
\* status patch of a reconcile, an edit or the end of a delay may ask for it
\* again while it is under way.
OneWorkerPerName ==
  \A p \in Processes : \A j, k \in jobs[p] : j.name = k.name => j = k

\* Two processes have the same application in work only while one of them
\* is on its way out.  (They can then: the lease is released before the
\* workers are stopped, and main does not wait for them.)
OnlyLeaverOverlaps ==
  \A p, r \in Processes :
    p # r /\ Busy(p) \cap Busy(r) # {}
      => {phase[p], phase[r]} \cap {"leaving", "cancelled"} # {}

\* An application that is there is always somewhere in a running process:
\* an event to be handed over, in the queue, delayed, or with a worker who
\* will give it back.  There is no resync, so what is dropped once is never
\* looked at again.
NoneForgotten ==
  \A p \in Processes : Runs(p) =>
    \A n \in Names : there[n] =>
      n \in events[p] \cup queue[p].dirty \cup queue[p].delayed \cup Busy(p)

\* An edit is not lost with the reconcile it came upon: what nobody has read
\* as it is now is asked for once more, or a worker has yet to read it, or
\* has failed to.  A reconcile that read it before the edit does not count,
\* although the queue does not take the name a second time while it is on.
EditStaysPending ==
  \A p \in Processes : Runs(p) =>
    \A n \in Names : there[n] /\ unread[n] =>
      \/ n \in events[p] \cup queue[p].dirty
      \/ n \in queue[p].delayed
      \/ \E stage \in {"got", "error"} : [name |-> n, stage |-> stage] \in jobs[p]

\* In the end every application has been read as it is now, whatever
\* crashes, lost leases and handovers came between.
EditsAreRead == <>[](\A n \in Names : there[n] => ~unread[n])

\* An application that stays is reconciled for ever, so that a push, which
\* is no event, is noticed: the queue starves nobody although every status
\* patch queues its own application again.
Recurs ==
  \A n \in Names :
    <>[]there[n] => []<>(\E p \in Processes : [name |-> n, stage |-> "read"] \in jobs[p])
=============================================================================
