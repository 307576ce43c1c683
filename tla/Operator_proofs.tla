-------------------------- MODULE Operator_proofs --------------------------
(***************************************************************************)
(* Proofs about informer, work queue, workers and leader election, for any *)
(* number of processes, applications, workers, edits and faults.           *)
(***************************************************************************)
EXTENDS Operator, TLAPS

LEMMA JobType == ASSUME NEW n \in Names, NEW s \in Stages PROVE [name |-> n, stage |-> s] \in Job
BY DEF Job

LEMMA EmptyQueueType == EmptyQueue \in Queue
BY DEF EmptyQueue, Queue

LEMMA ShutType ==
  ASSUME TypeOK, NEW p \in Processes, Shut(p)
  PROVE  /\ synced' \in [Processes -> BOOLEAN]
         /\ events' \in [Processes -> SUBSET Names]
         /\ queue' \in [Processes -> Queue]
BY EmptyQueueType DEF TypeOK, Shut

LEMMA EnterType ==
  ASSUME TypeOK, NEW p \in Processes, NEW ph \in Phases, Enter(p, ph)
  PROVE  /\ phase' \in [Processes -> Phases]
         /\ since' \in [Processes -> 0..GiveUpAfter]
BY OperatorAssumption DEF TypeOK, Enter, GiveUpAfter

LEMMA FaultType == TypeOK /\ CountFault => spent' \in 0..MaxFaults
BY OperatorAssumption DEF TypeOK, CountFault

LEMMA AddedType ==
  ASSUME NEW q \in Queue, NEW n \in Names, NEW B PROVE Added(q, B, n) \in Queue
<1>1. Append(q.line, n) \in Seq(Names)
  BY DEF Queue
<1> QED
  BY <1>1 DEF Queue, Added

LEMMA DoneType == ASSUME NEW q \in Queue, NEW n \in Names PROVE Done(q, n) \in Queue
<1>1. Append(q.line, n) \in Seq(Names)
  BY DEF Queue
<1> QED
  BY <1>1 DEF Queue, Done

LEMMA DelayedType == ASSUME NEW q \in Queue, NEW n \in Names PROVE Delayed(q, n) \in Queue
BY DEF Queue, Delayed

LEMMA NotifiedType ==
  ASSUME TypeOK, NEW n \in Names PROVE Notified(n) \in [Processes -> SUBSET Names]
BY DEF TypeOK, Notified

LEMMA TypeStep == TypeOK /\ [Next]_vars => TypeOK'
<1> SUFFICES ASSUME TypeOK, [Next]_vars PROVE TypeOK'
  OBVIOUS
<1> USE OperatorAssumption
<1>1. ASSUME NEW p \in Processes, Elect(p) PROVE TypeOK'
  <2>1. CASE Start(p)
    BY <2>1, EnterType DEF Start, TypeOK, apps, Phases
  <2>2. CASE Acquire(p)
    BY <2>2, EnterType DEF Acquire, TypeOK, apps, Phases
  <2>3. CASE Renew(p)
    BY <2>3 DEF Renew, TypeOK, apps, GiveUpAfter
  <2>4. CASE GiveUp(p)
    BY <2>4, EnterType DEF GiveUp, TypeOK, apps, Phases
  <2>5. CASE Cancel(p)
    BY <2>5, EnterType, ShutType DEF Cancel, TypeOK, apps, Phases
  <2>6. CASE Exit(p)
    BY <2>6, EnterType DEF Exit, TypeOK, apps, Phases
  <2> QED
    BY <1>1, <2>1, <2>2, <2>3, <2>4, <2>5, <2>6 DEF Elect
<1>2. ASSUME NEW p \in Processes, List(p) PROVE TypeOK'
  BY <1>2 DEF List, TypeOK, apps
<1>3. ASSUME NEW p \in Processes, Get(p) PROVE TypeOK'
  <2> DEFINE n == Head(queue[p].line)
  <2>1. queue[p] \in Queue /\ queue[p].line \in Seq(Names) /\ queue[p].line # <<>>
    BY <1>3 DEF Get, TypeOK, Queue
  <2>2. n \in Names /\ Tail(queue[p].line) \in Seq(Names)
    BY <2>1
  <2>3. [queue[p] EXCEPT !.line = Tail(@), !.dirty = @ \ {n}] \in Queue
    BY <2>1, <2>2 DEF Queue
  <2>4. [name |-> n, stage |-> "got"] \in Job
    BY <2>2 DEF Job, Stages
  <2>5. queue' = [queue EXCEPT ![p].line = Tail(@), ![p].dirty = @ \ {n}]
    BY <1>3 DEF Get
  <2>6. queue' = [queue EXCEPT ![p] = [queue[p] EXCEPT !.line = Tail(@), !.dirty = @ \ {n}]]
    BY <2>5, <2>1 DEF TypeOK, Queue
  <2>7. queue' \in [Processes -> Queue]
    BY <2>3, <2>6 DEF TypeOK
  <2>8. jobs' \in [Processes -> SUBSET Job]
    BY <1>3, <2>4 DEF Get, TypeOK
  <2> QED
    BY <1>3, <2>7, <2>8 DEF Get, TypeOK, apps
<1>4. ASSUME NEW p \in Processes, NEW n \in Names, NEW a \in Stages, NEW b \in Stages, Move(p, n, a, b)
      PROVE  jobs' \in [Processes -> SUBSET Job]
  BY <1>4, JobType DEF Move, TypeOK
<1>5. ASSUME NEW p \in Processes, NEW n \in Names, Read(p, n) PROVE TypeOK'
  <2>1. jobs' \in [Processes -> SUBSET Job]
    BY <1>4, <1>5 DEF Read, Stages
  <2> QED
    BY <1>5, <2>1 DEF Read, TypeOK
<1>6. ASSUME NEW p \in Processes, NEW n \in Names, Patch(p, n) PROVE TypeOK'
  <2>1. jobs' \in [Processes -> SUBSET Job]
    BY <1>4, <1>6 DEF Patch, Stages
  <2>2. events' \in [Processes -> SUBSET Names]
    BY <1>6, NotifiedType DEF Patch, TypeOK
  <2> QED
    BY <1>6, <2>1, <2>2 DEF Patch, TypeOK, apps
<1>7. ASSUME NEW p \in Processes, NEW n \in Names, NEW s \in Stages, Return(p, n, s) PROVE TypeOK'
  <2>1. queue[p] \in Queue
    BY DEF TypeOK
  <2>2. Returned(queue[p], s, n) \in Queue
    BY <2>1, DelayedType DEF Returned
  <2>3. Done(Returned(queue[p], s, n), n) \in Queue
    BY <2>2, DoneType
  <2>4. queue' \in [Processes -> Queue]
    BY <1>7, <2>3 DEF Return, TypeOK
  <2> QED
    BY <1>7, <2>4 DEF Return, TypeOK, apps
<1>8. ASSUME NEW p \in Processes, Release(p) PROVE TypeOK'
  BY <1>8 DEF Release, TypeOK, apps
<1>9. ASSUME NEW p \in Processes, Terminate(p) PROVE TypeOK'
  <2>1. (IF phase[p] = "standby" THEN "down" ELSE "cancelled") \in Phases
    BY DEF Phases
  <2> QED
    BY <1>9, <2>1, EnterType, ShutType, FaultType DEF Terminate, TypeOK, apps
<1>10. ASSUME NEW p \in Processes, Crash(p) PROVE TypeOK'
  BY <1>10, EnterType, ShutType, FaultType DEF Crash, TypeOK, apps, Phases
<1>11. ASSUME NEW p \in Processes, NEW n \in Names, ReadFails(p, n) PROVE TypeOK'
  <2>1. jobs' \in [Processes -> SUBSET Job]
    BY <1>4, <1>11 DEF ReadFails, Stages
  <2> QED
    BY <1>11, <2>1, FaultType DEF ReadFails, TypeOK, apps
<1>12. ASSUME NEW p \in Processes, NEW j \in jobs[p], Abandon(p, j) PROVE TypeOK'
  BY <1>12 DEF Abandon, TypeOK, apps
<1>13. ASSUME NEW p \in Processes, NEW n \in Names, Enqueue(p, n) PROVE TypeOK'
  BY <1>13, AddedType DEF Enqueue, TypeOK, apps
<1>14. ASSUME NEW p \in Processes, NEW n \in Names, Fire(p, n) PROVE TypeOK'
  <2>1. [queue[p] EXCEPT !.delayed = @ \ {n}] \in Queue
    BY DEF TypeOK, Queue
  <2>2. Added([queue[p] EXCEPT !.delayed = @ \ {n}], Busy(p), n) \in Queue
    BY <2>1, AddedType
  <2>3. queue' \in [Processes -> Queue]
    BY <1>14, <2>2 DEF Fire, TypeOK
  <2> QED
    BY <1>14, <2>3 DEF Fire, TypeOK, apps
<1>15. ASSUME Tick PROVE TypeOK'
  <2>1. spent' \in 0..MaxFaults
    BY <1>15, FaultType DEF Tick, TypeOK
  <2>2. lease' \in [holder : Processes \cup {None}, age : 0..LeaseDuration]
    BY <1>15 DEF Tick, TypeOK
  <2>3. since' \in [Processes -> 0..GiveUpAfter]
    BY <1>15 DEF Tick, TypeOK, GiveUpAfter
  <2> QED
    BY <1>15, <2>1, <2>2, <2>3 DEF Tick, TypeOK, apps
<1>16. ASSUME NEW n \in Names, CreateOrEdit(n) \/ Delete(n) PROVE TypeOK'
  <2>1. PICK present \in BOOLEAN : Change(n, present)
    BY <1>16 DEF CreateOrEdit, Delete
  <2>2. edits' \in 0..MaxEdits
    BY <2>1 DEF Change, TypeOK
  <2>3. events' \in [Processes -> SUBSET Names]
    BY <2>1, NotifiedType DEF Change
  <2> QED
    BY <2>1, <2>2, <2>3 DEF Change, TypeOK
<1>17. CASE UNCHANGED vars
  BY <1>17 DEF vars, apps, TypeOK
<1> QED
  BY <1>1, <1>2, <1>3, <1>5, <1>6, <1>7, <1>8, <1>9, <1>10, <1>11, <1>12, <1>13, <1>14,
     <1>15, <1>16, <1>17 DEF Next, Work, Faults, Stages

LEMMA TypeInit == Init => TypeOK
BY OperatorAssumption, EmptyQueueType DEF Init, TypeOK, Phases, GiveUpAfter

\* The types of the operator.
THEOREM OperatorTypeCorrect == Spec => []TypeOK
BY TypeInit, TypeStep, PTL DEF Spec

(***************************************************************************)
(* One worker per name.  What is in line is dirty, is not with a worker,   *)
(* and is there once.                                                      *)
(***************************************************************************)
LineOK(q, busy) ==
  /\ \A i \in 1..Len(q.line) : q.line[i] \in q.dirty /\ q.line[i] \notin busy
  /\ \A i, k \in 1..Len(q.line) : q.line[i] = q.line[k] => i = k

LineInv ==
  \A p \in Processes :
    /\ LineOK(queue[p], Busy(p))
    /\ \A j, k \in jobs[p] : j.name = k.name => j = k

LEMMA EmptyLine == ASSUME NEW B PROVE LineOK(EmptyQueue, B)
BY DEF LineOK, EmptyQueue

LEMMA DelayedLine ==
  ASSUME NEW q \in Queue, NEW n \in Names, NEW B, LineOK(q, B)
  PROVE  LineOK(Delayed(q, n), B)
BY DEF LineOK, Delayed, Queue

LEMMA UndelayedLine ==
  ASSUME NEW q \in Queue, NEW n \in Names, NEW B, LineOK(q, B)
  PROVE  LineOK([q EXCEPT !.delayed = @ \ {n}], B)
BY DEF LineOK, Queue

LEMMA AddedLine ==
  ASSUME NEW q \in Queue, NEW n \in Names, NEW B, LineOK(q, B)
  PROVE  LineOK(Added(q, B, n), B)
<1>1. CASE n \in q.dirty
  BY <1>1 DEF Added
<1>2. CASE n \notin q.dirty /\ n \in B
  <2>1. Added(q, B, n).line = q.line /\ q.dirty \subseteq Added(q, B, n).dirty
    BY <1>2 DEF Added, Queue
  <2> QED
    BY <2>1 DEF LineOK
<1>3. CASE n \notin q.dirty /\ n \notin B
  <2>1. /\ q.line \in Seq(Names)
        /\ Added(q, B, n).line = Append(q.line, n)
        /\ Added(q, B, n).dirty = q.dirty \cup {n}
    BY <1>3 DEF Added, Queue
  <2> QED
    BY <1>3, <2>1 DEF LineOK
<1> QED
  BY <1>1, <1>2, <1>3

\* The name that a worker gives back joins the line when it is dirty.
LEMMA DoneLine ==
  ASSUME NEW q \in Queue, NEW n \in Names, NEW B, LineOK(q, B), n \in B
  PROVE  LineOK(Done(q, n), B \ {n})
<1>1. CASE n \notin q.dirty
  BY <1>1 DEF Done, LineOK
<1>2. CASE n \in q.dirty
  <2>1. /\ q.line \in Seq(Names)
        /\ Done(q, n).line = Append(q.line, n)
        /\ Done(q, n).dirty = q.dirty
    BY <1>2 DEF Done, Queue
  <2> QED
    BY <1>2, <2>1 DEF LineOK
<1> QED
  BY <1>1, <1>2

\* The name at the head of the line goes to a worker.
LEMMA GetLine ==
  ASSUME NEW q \in Queue, NEW r \in Queue, NEW B, LineOK(q, B), q.line # <<>>,
         r.line = Tail(q.line), r.dirty = q.dirty \ {Head(q.line)}
  PROVE  /\ Head(q.line) \notin B
         /\ LineOK(r, B \cup {Head(q.line)})
<1>1. q.line \in Seq(Names) /\ Len(q.line) \in Nat /\ Len(q.line) > 0
  BY DEF Queue
<1>2. Head(q.line) = q.line[1] /\ 1 \in 1..Len(q.line)
  BY <1>1
<1>3. Len(r.line) = Len(q.line) - 1 /\ \A i \in 1..Len(r.line) : r.line[i] = q.line[i + 1]
  BY <1>1
<1>4. \A i \in 1..Len(r.line) : i + 1 \in 1..Len(q.line) /\ i + 1 # 1
  BY <1>1, <1>3
<1> QED
  BY <1>1, <1>2, <1>3, <1>4 DEF LineOK

\* A process whose queue stays as it is, and whose workers keep what they
\* have, give it up, or only move on.
LEMMA LineFrame ==
  ASSUME NEW p \in Processes, LineInv, queue'[p] \in {queue[p], EmptyQueue}, jobs'[p] \subseteq jobs[p]
  PROVE  /\ LineOK(queue[p], Busy(p))'
         /\ \A j, k \in jobs'[p] : j.name = k.name => j = k
<1>1. Busy(p)' \subseteq Busy(p)
  BY DEF Busy
<1>2. CASE queue'[p] = queue[p]
  BY <1>1, <1>2 DEF LineInv, LineOK
<1>3. CASE queue'[p] = EmptyQueue
  BY <1>3, EmptyLine DEF LineInv
<1> QED
  BY <1>2, <1>3 DEF LineInv

LEMMA MoveLine ==
  ASSUME TypeOK, LineInv, NEW p \in Processes, NEW n \in Names, NEW a, NEW b, Move(p, n, a, b),
         UNCHANGED queue
  PROVE  LineInv'
<1>1. \A r \in Processes : r # p => jobs'[r] = jobs[r]
  BY DEF Move, TypeOK
<1>2. jobs'[p] = (jobs[p] \ {[name |-> n, stage |-> a]}) \cup {[name |-> n, stage |-> b]}
  BY DEF Move, TypeOK
<1>3. [name |-> n, stage |-> a] \in jobs[p]
  BY DEF Move
<1>4. \A j, k \in jobs[p] : j.name = k.name => j = k
  BY DEF LineInv
<1>5. \A j, k \in jobs'[p] : j.name = k.name => j = k
  BY <1>2, <1>3, <1>4
<1>6. Busy(p)' = Busy(p)
  <2> DEFINE was == [name |-> n, stage |-> a]
             is  == [name |-> n, stage |-> b]
  <2>1. was.name = n /\ is.name = n /\ was \in jobs[p]
    BY <1>3
  <2>2. jobs'[p] = (jobs[p] \ {was}) \cup {is}
    BY <1>2
  <2> HIDE DEF was, is
  <2>3. ASSUME NEW m PROVE m \in Busy(p)' <=> m \in Busy(p)
    BY <2>1, <2>2 DEF Busy
  <2> QED
    BY <2>3 DEF Busy
<1>7. LineOK(queue[p], Busy(p))'
  BY <1>6 DEF LineInv, LineOK
<1>8. ASSUME NEW r \in Processes, r # p PROVE /\ LineOK(queue[r], Busy(r))'
                                              /\ \A j, k \in jobs'[r] : j.name = k.name => j = k
  BY <1>1, <1>8, LineFrame
<1> QED
  BY <1>5, <1>7, <1>8 DEF LineInv

LEMMA LineStep == TypeOK /\ LineInv /\ [Next]_vars => LineInv'
<1> SUFFICES ASSUME TypeOK, LineInv, [Next]_vars PROVE LineInv'
  OBVIOUS
<1>1. ASSUME \A r \in Processes : queue'[r] \in {queue[r], EmptyQueue} /\ jobs'[r] \subseteq jobs[r]
      PROVE  LineInv'
  BY <1>1, LineFrame DEF LineInv
<1>2. ASSUME NEW p \in Processes, Elect(p) PROVE LineInv'
  BY <1>1, <1>2 DEF Elect, Start, Acquire, Renew, GiveUp, Cancel, Exit, Shut, TypeOK
<1>3. ASSUME NEW p \in Processes, List(p) \/ Release(p) PROVE LineInv'
  BY <1>1, <1>3 DEF List, Release, TypeOK
<1>4. ASSUME NEW p \in Processes, Get(p) PROVE LineInv'
  <2> DEFINE n == Head(queue[p].line)
  <2>1. queue[p] \in Queue /\ queue[p].line # <<>>
    BY <1>4 DEF Get, TypeOK
  <2>2. queue'[p] \in Queue
    BY TypeStep DEF TypeOK
  <2>3. queue'[p].line = Tail(queue[p].line) /\ queue'[p].dirty = queue[p].dirty \ {n}
    BY <1>4, <2>1 DEF Get, TypeOK, Queue
  <2>4. n \notin Busy(p) /\ LineOK(queue'[p], Busy(p) \cup {n})
    BY <2>1, <2>2, <2>3, GetLine DEF LineInv
  <2>5. PICK job : jobs'[p] = jobs[p] \cup {job} /\ job.name = n
    <3>1. jobs'[p] = jobs[p] \cup {[name |-> n, stage |-> "got"]}
      BY <1>4 DEF Get, TypeOK
    <3>2. [name |-> n, stage |-> "got"].name = n
      OBVIOUS
    <3> QED
      BY <3>1, <3>2
  <2>6. Busy(p)' = Busy(p) \cup {n}
    BY <2>5 DEF Busy
  <2>7. \A j, k \in jobs'[p] : j.name = k.name => j = k
    BY <2>4, <2>5 DEF LineInv, Busy
  <2>8. \A r \in Processes : r # p => queue'[r] = queue[r] /\ jobs'[r] = jobs[r]
    BY <1>4 DEF Get, TypeOK
  <2>9. \A r \in Processes : r # p => /\ LineOK(queue[r], Busy(r))'
                                      /\ \A j, k \in jobs'[r] : j.name = k.name => j = k
    BY <2>8, LineFrame
  <2>10. LineOK(queue[p], Busy(p))'
    BY <2>4, <2>6 DEF LineOK
  <2> QED
    BY <2>7, <2>9, <2>10 DEF LineInv
<1>5. ASSUME NEW p \in Processes, NEW n \in Names, Read(p, n) \/ Patch(p, n) \/ ReadFails(p, n)
      PROVE  LineInv'
  BY <1>5, MoveLine DEF Read, Patch, ReadFails
<1>6. ASSUME NEW p \in Processes, NEW n \in Names, NEW s \in Stages, Return(p, n, s) PROVE LineInv'
  <2> DEFINE job == [name |-> n, stage |-> s]
  <2>1. job \in jobs[p] /\ jobs'[p] = jobs[p] \ {job}
    BY <1>6 DEF Return, TypeOK
  <2>2. queue'[p] = Done(Returned(queue[p], s, n), n)
    BY <1>6 DEF Return, TypeOK
  <2>3. queue[p] \in Queue /\ LineOK(queue[p], Busy(p))
    BY DEF TypeOK, LineInv
  <2>4. Returned(queue[p], s, n) \in Queue /\ LineOK(Returned(queue[p], s, n), Busy(p))
    BY <2>3, DelayedType, DelayedLine DEF Returned
  <2>5. n \in Busy(p) /\ Busy(p)' = Busy(p) \ {n}
    <3>1. job.name = n
      OBVIOUS
    <3>2. \A j, k \in jobs[p] : j.name = k.name => j = k
      BY DEF LineInv
    <3> HIDE DEF job
    <3> QED
      BY <2>1, <3>1, <3>2 DEF Busy
  <2>6. LineOK(queue[p], Busy(p))'
    BY <2>2, <2>4, <2>5, DoneLine
  <2>7. \A r \in Processes : r # p => queue'[r] = queue[r] /\ jobs'[r] = jobs[r]
    BY <1>6 DEF Return, TypeOK
  <2>8. \A r \in Processes : r # p => /\ LineOK(queue[r], Busy(r))'
                                      /\ \A j, k \in jobs'[r] : j.name = k.name => j = k
    BY <2>7, LineFrame
  <2>9. \A j, k \in jobs'[p] : j.name = k.name => j = k
    BY <2>1 DEF LineInv
  <2> QED
    BY <2>6, <2>8, <2>9 DEF LineInv
<1>7. ASSUME NEW p \in Processes, Terminate(p) \/ Crash(p) PROVE LineInv'
  BY <1>1, <1>7 DEF Terminate, Crash, Shut, TypeOK
<1>8. ASSUME NEW p \in Processes, NEW j \in jobs[p], Abandon(p, j) PROVE LineInv'
  BY <1>1, <1>8 DEF Abandon, TypeOK
<1>9. ASSUME NEW p \in Processes, NEW q \in Queue, NEW n \in Names, LineOK(q, Busy(p)),
             queue' = [queue EXCEPT ![p] = Added(q, Busy(p), n)], UNCHANGED jobs
      PROVE  LineInv'
  <2>1. LineOK(queue'[p], Busy(p))
    BY <1>9, AddedLine DEF TypeOK
  <2>2. Busy(p)' = Busy(p)
    BY <1>9 DEF Busy
  <2>3. \A r \in Processes : r # p => /\ LineOK(queue[r], Busy(r))'
                                      /\ \A j, k \in jobs'[r] : j.name = k.name => j = k
    BY <1>9, LineFrame DEF TypeOK
  <2>4. LineOK(queue[p], Busy(p))'
    BY <2>1, <2>2 DEF LineOK
  <2> QED
    BY <1>9, <2>3, <2>4 DEF LineInv
<1>10. ASSUME NEW p \in Processes, NEW n \in Names, Enqueue(p, n) PROVE LineInv'
  BY <1>9, <1>10 DEF Enqueue, TypeOK, LineInv
<1>11. ASSUME NEW p \in Processes, NEW n \in Names, Fire(p, n) PROVE LineInv'
  <2>1. [queue[p] EXCEPT !.delayed = @ \ {n}] \in Queue
    BY DEF TypeOK, Queue
  <2>2. LineOK([queue[p] EXCEPT !.delayed = @ \ {n}], Busy(p))
    BY UndelayedLine DEF TypeOK, LineInv
  <2> QED
    BY <1>9, <1>11, <2>1, <2>2 DEF Fire
<1>12. ASSUME Tick \/ (\E n \in Names : CreateOrEdit(n) \/ Delete(n)) \/ UNCHANGED vars PROVE LineInv'
  BY <1>1, <1>12 DEF Tick, CreateOrEdit, Delete, Change, vars
<1> QED
  BY <1>2, <1>3, <1>4, <1>5, <1>6, <1>7, <1>8, <1>10, <1>11, <1>12 DEF Next, Work, Faults, Stages

LEMMA LineInit == Init => LineInv
BY EmptyLine DEF Init, LineInv

\* However often events, delays and status patches ask for an application
\* that is being reconciled, no second worker of the process gets it.
THEOREM QueueSerializesNames == Spec => []OneWorkerPerName
<1>1. LineInv => OneWorkerPerName
  BY DEF LineInv, OneWorkerPerName
<1> QED
  BY TypeInit, TypeStep, LineInit, LineStep, <1>1, PTL DEF Spec

(***************************************************************************)
(* The lease.  A leader notices that it does not renew before the lease is *)
(* anybody else's, and workers run only from there to the end of main.     *)
(***************************************************************************)
LeaseInv ==
  \A p \in Processes :
    /\ phase[p] = "leading" => lease.holder = p /\ lease.age = since[p]
    /\ jobs[p] # {} => phase[p] \in {"leading", "leaving", "cancelled"}
    /\ synced[p] => Live(p)

LEMMA LeaseStep == TypeOK /\ LeaseInv /\ [Next]_vars => LeaseInv'
<1> SUFFICES ASSUME TypeOK, LeaseInv, [Next]_vars PROVE LeaseInv'
  OBVIOUS
<1> USE OperatorAssumption DEF LeaseInv, Live
<1>1. ASSUME NEW p \in Processes, Start(p) PROVE LeaseInv'
  BY <1>1 DEF Start, Enter, TypeOK
<1>2. ASSUME NEW p \in Processes, Acquire(p) PROVE LeaseInv'
  <2>1. ASSUME NEW r \in Processes, phase[r] = "leading" PROVE FALSE
    <3>1. lease.holder = r /\ lease.age = since[r] /\ r # p /\ r # None
      BY <1>2, <2>1 DEF Acquire
    <3>2. lease.age = LeaseDuration
      BY <1>2, <3>1 DEF Acquire
    <3>3. since[r] < LeaseDuration
      BY DEF TypeOK, GiveUpAfter
    <3> QED
      BY <3>1, <3>2, <3>3 DEF TypeOK
  <2> QED
    BY <1>2, <2>1 DEF Acquire, Enter, TypeOK
<1>3. ASSUME NEW p \in Processes, Renew(p) PROVE LeaseInv'
  BY <1>3 DEF Renew, TypeOK
<1>4. ASSUME NEW p \in Processes, GiveUp(p) PROVE LeaseInv'
  BY <1>4 DEF GiveUp, Enter, TypeOK
<1>5. ASSUME NEW p \in Processes, Release(p) PROVE LeaseInv'
  BY <1>5 DEF Release, TypeOK
<1>6. ASSUME NEW p \in Processes, Cancel(p) \/ Terminate(p) PROVE LeaseInv'
  BY <1>6 DEF Cancel, Terminate, Enter, Shut, TypeOK
<1>7. ASSUME NEW p \in Processes, Exit(p) \/ Crash(p) PROVE LeaseInv'
  BY <1>7 DEF Exit, Crash, Enter, Shut, TypeOK
<1>8. ASSUME Tick PROVE LeaseInv'
  <2>1. ASSUME NEW r \in Processes, phase[r] = "leading" PROVE lease'.holder = r /\ lease'.age = since'[r]
    <3>1. since[r] < GiveUpAfter /\ lease.age = since[r] /\ lease.age \in Nat /\ lease.age < LeaseDuration
      BY <1>8, <2>1 DEF Tick, TypeOK, GiveUpAfter
    <3>2. lease'.holder = lease.holder /\ lease'.age = lease.age + 1
      BY <1>8, <3>1 DEF Tick, TypeOK
    <3> QED
      BY <1>8, <2>1, <3>1, <3>2 DEF Tick, TypeOK
  <2> QED
    BY <1>8, <2>1 DEF Tick
<1>9. ASSUME NEW p \in Processes, List(p) PROVE LeaseInv'
  BY <1>9 DEF List, TypeOK
<1>10. ASSUME NEW p \in Processes, Get(p) PROVE LeaseInv'
  BY <1>10 DEF Get, Runs, TypeOK
<1>11. ASSUME NEW p \in Processes, NEW n \in Names, Read(p, n) \/ ReadFails(p, n) \/ Patch(p, n)
       PROVE  LeaseInv'
  BY <1>11 DEF Read, ReadFails, Patch, Move, Runs, TypeOK
<1>12. ASSUME NEW p \in Processes, NEW n \in Names, NEW s \in Stages, Return(p, n, s) PROVE LeaseInv'
  BY <1>12 DEF Return, TypeOK
<1>13. ASSUME NEW p \in Processes, NEW j \in jobs[p], Abandon(p, j) PROVE LeaseInv'
  BY <1>13 DEF Abandon, TypeOK
<1>14. ASSUME NEW p \in Processes, NEW n \in Names, Enqueue(p, n) \/ Fire(p, n) PROVE LeaseInv'
  BY <1>14 DEF Enqueue, Fire
<1>15. ASSUME (\E n \in Names : CreateOrEdit(n) \/ Delete(n)) \/ UNCHANGED vars PROVE LeaseInv'
  BY <1>15 DEF CreateOrEdit, Delete, Change, vars
<1> QED
  BY <1>1, <1>2, <1>3, <1>4, <1>5, <1>6, <1>7, <1>8, <1>9, <1>10, <1>11, <1>12, <1>13,
     <1>14, <1>15 DEF Next, Elect, Work, Faults, Stages

LEMMA LeaseInit == Init => LeaseInv
BY DEF Init, LeaseInv

\* Only a process on its way out shares an application with another one.
THEOREM LeaseKeepsApart == Spec => []OnlyLeaverOverlaps
<1>1. TypeOK /\ LeaseInv => OnlyLeaverOverlaps
  <2> SUFFICES ASSUME LeaseInv, NEW p \in Processes, NEW r \in Processes, p # r,
                      Busy(p) \cap Busy(r) # {}
               PROVE  {phase[p], phase[r]} \cap {"leaving", "cancelled"} # {}
    BY DEF OnlyLeaverOverlaps
  <2>1. jobs[p] # {} /\ jobs[r] # {}
    BY DEF Busy
  <2>2. ~(phase[p] = "leading" /\ phase[r] = "leading")
    BY DEF LeaseInv
  <2> QED
    BY <2>1, <2>2 DEF LeaseInv
<1> QED
  BY TypeInit, TypeStep, LeaseInit, LeaseStep, <1>1, PTL DEF Spec

(***************************************************************************)
(* Nothing is forgotten.  A worker that has found its application gone     *)
(* will not ask for it again; if it has come back, its event does.         *)
(***************************************************************************)
Kept(p, n) ==
  /\ n \in events[p] \cup queue[p].dirty \cup queue[p].delayed \cup Busy(p)
  /\ [name |-> n, stage |-> "gone"] \in jobs[p] => n \in events[p] \cup queue[p].dirty

KeptInv == \A p \in Processes : Runs(p) => \A n \in Names : there[n] => Kept(p, n)

\* A process whose events and queue only grow while its workers keep what
\* they have.
LEMMA KeptFrame ==
  ASSUME KeptInv, NEW p \in Processes, NEW n \in Names, Runs(p), there[n],
         events[p] \subseteq events'[p], queue[p].dirty \subseteq queue'[p].dirty,
         queue[p].delayed \subseteq queue'[p].delayed, jobs'[p] = jobs[p]
  PROVE  Kept(p, n)'
BY DEF KeptInv, Kept, Busy

\* A step that leaves events, queues and jobs alone and lets nobody run or
\* appear.
LEMMA KeptSame ==
  ASSUME KeptInv, UNCHANGED <<there, events, queue, jobs>>, \A p \in Processes : Runs(p)' => Runs(p)
  PROVE  KeptInv'
BY DEF KeptInv, Kept, Busy

LEMMA AddedFields ==
  ASSUME NEW q \in Queue, NEW n \in Names, NEW B
  PROVE  Added(q, B, n).dirty = q.dirty \cup {n} /\ Added(q, B, n).delayed = q.delayed
BY DEF Added, Queue

\* A worker moves on with n, to "gone" only if n is not there.
LEMMA KeptMove ==
  ASSUME TypeOK, KeptInv, NEW p \in Processes, NEW n \in Names, NEW a, NEW b, Move(p, n, a, b),
         b = "gone" => ~there[n], UNCHANGED <<there, queue, phase, synced>>,
         \A r \in Processes : events[r] \subseteq events'[r]
  PROVE  KeptInv'
<1> SUFFICES ASSUME NEW r \in Processes, Runs(r), NEW m \in Names, there[m] PROVE Kept(r, m)'
  BY DEF KeptInv, Runs, Live
<1>1. CASE r # p
  <2>1. jobs'[r] = jobs[r]
    BY <1>1 DEF Move, TypeOK
  <2> QED
    BY <2>1, KeptFrame
<1>2. CASE r = p
  <2> DEFINE was == [name |-> n, stage |-> a]
             is  == [name |-> n, stage |-> b]
             gone == [name |-> m, stage |-> "gone"]
  <2>1. was.name = n /\ is.name = n /\ was \in jobs[p]
    BY DEF Move
  <2>2. jobs'[p] = (jobs[p] \ {was}) \cup {is}
    BY DEF Move, TypeOK
  <2>3. is = gone => ~there[m]
    BY Zenon
  <2>4. Kept(p, m)
    BY <1>2 DEF KeptInv
  <2>5. gone \in jobs'[p] => gone \in jobs[p]
    BY <2>2, <2>3
  <2> HIDE DEF was, is
  <2>6. m \in Busy(p) => m \in Busy(p)'
    BY <2>1, <2>2 DEF Busy
  <2> QED
    BY <1>2, <2>4, <2>5, <2>6 DEF Kept
<1> QED
  BY <1>1, <1>2

LEMMA KeptStep == TypeOK /\ LineInv /\ LeaseInv /\ KeptInv /\ [Next]_vars => KeptInv'
<1> SUFFICES ASSUME TypeOK, LineInv, LeaseInv, KeptInv, [Next]_vars PROVE KeptInv'
  OBVIOUS
<1>1. ASSUME NEW p \in Processes, Start(p) \/ Acquire(p) \/ Renew(p) \/ GiveUp(p) PROVE KeptInv'
  BY <1>1, KeptSame DEF Start, Acquire, Renew, GiveUp, apps, Enter, Runs, Live, LeaseInv, TypeOK
<1>2. ASSUME NEW p \in Processes, Cancel(p) \/ Terminate(p) \/ Exit(p) \/ Crash(p) PROVE KeptInv'
  <2>1. ~Runs(p)'
    BY <1>2 DEF Cancel, Terminate, Exit, Crash, Enter, Runs, Live, TypeOK
  <2>2. UNCHANGED there
    BY <1>2 DEF Cancel, Terminate, Exit, Crash, apps
  <2>3. ASSUME NEW r \in Processes, r # p
        PROVE  /\ events'[r] = events[r] /\ queue'[r] = queue[r] /\ jobs'[r] = jobs[r]
               /\ Runs(r)' => Runs(r)
    BY <1>2, <2>3 DEF Cancel, Terminate, Exit, Crash, Enter, Shut, Runs, Live, TypeOK
  <2> QED
    BY <2>1, <2>2, <2>3, KeptFrame DEF KeptInv
<1>3. ASSUME NEW p \in Processes, Release(p) PROVE KeptInv'
  BY <1>3, KeptSame DEF Release, apps, Runs, Live
<1>4. ASSUME NEW p \in Processes, List(p) PROVE KeptInv'
  <2>1. UNCHANGED <<there, queue, jobs, phase>>
    BY <1>4 DEF List, apps
  <2>2. events'[p] = {n \in Names : there[n]}
    BY <1>4 DEF List, TypeOK
  <2>3. ASSUME NEW r \in Processes, r # p PROVE events'[r] = events[r] /\ synced'[r] = synced[r]
    BY <1>4, <2>3 DEF List, TypeOK
  <2>4. \A n \in Names : there[n] => Kept(p, n)'
    BY <2>1, <2>2 DEF Kept
  <2> QED
    BY <2>1, <2>3, <2>4, KeptFrame DEF KeptInv, Runs, Live
<1>5. ASSUME NEW p \in Processes, Get(p) PROVE KeptInv'
  <2> DEFINE n == Head(queue[p].line)
             job == [name |-> n, stage |-> "got"]
  <2>1. queue[p] \in Queue /\ queue[p].line # <<>> /\ queue[p].line \in Seq(Names)
    BY <1>5 DEF Get, TypeOK, Queue
  <2>2. queue'[p].dirty = queue[p].dirty \ {n} /\ queue'[p].delayed = queue[p].delayed
    BY <1>5, <2>1 DEF Get, TypeOK, Queue
  <2>3. jobs'[p] = jobs[p] \cup {job} /\ UNCHANGED <<there, events, phase, synced>>
    BY <1>5 DEF Get, TypeOK, apps
  <2>4. ASSUME NEW r \in Processes, r # p PROVE queue'[r] = queue[r] /\ jobs'[r] = jobs[r]
    BY <1>5, <2>4 DEF Get, TypeOK
  <2>5. n = queue[p].line[1] /\ 1 \in 1..Len(queue[p].line)
    BY <2>1
  <2>6. n \notin Busy(p)
    BY <2>5 DEF LineInv, LineOK
  <2>7. ASSUME NEW m \in Names, there[m], Kept(p, m) PROVE Kept(p, m)'
    <3>1. job.name = n /\ [name |-> m, stage |-> "gone"] # job
      OBVIOUS
    <3>2. [name |-> m, stage |-> "gone"] \in jobs[p] => m \in Busy(p)
      <4>1. [name |-> m, stage |-> "gone"].name = m
        OBVIOUS
      <4> QED
        BY <4>1 DEF Busy
    <3> HIDE DEF job
    <3>3. Busy(p) \cup {n} \subseteq Busy(p)'
      BY <2>3, <3>1 DEF Busy
    <3>4. m \in events[p] \cup queue[p].dirty \cup queue[p].delayed \cup Busy(p)
      BY <2>7 DEF Kept
    <3>5. m \in events'[p] \cup queue'[p].dirty \cup queue'[p].delayed \cup Busy(p)'
      BY <2>2, <2>3, <3>3, <3>4
    <3>6. [name |-> m, stage |-> "gone"] \in jobs'[p] => m \in events'[p] \cup queue'[p].dirty
      BY <2>2, <2>3, <2>6, <2>7, <3>1, <3>2 DEF Kept
    <3> QED
      BY <3>5, <3>6 DEF Kept
  <2> QED
    BY <2>3, <2>4, <2>7, KeptFrame DEF KeptInv, Runs, Live
<1>6. ASSUME NEW p \in Processes, NEW n \in Names, Read(p, n) PROVE KeptInv'
  BY <1>6, KeptMove DEF Read
<1>7. ASSUME NEW p \in Processes, NEW n \in Names, ReadFails(p, n) PROVE KeptInv'
  BY <1>7, KeptMove DEF ReadFails, apps
<1>8. ASSUME NEW p \in Processes, NEW n \in Names, Patch(p, n) PROVE KeptInv'
  <2>1. \A r \in Processes : events[r] \subseteq events'[r]
    BY <1>8 DEF Patch, Notified
  <2>2. PICK b \in {"ok", "error"} : Move(p, n, "read", b)
    BY <1>8 DEF Patch
  <2> QED
    BY <1>8, <2>1, <2>2, KeptMove DEF Patch, apps
<1>9. ASSUME NEW p \in Processes, NEW n \in Names, NEW s \in {"gone", "ok", "error"}, Return(p, n, s)
      PROVE  KeptInv'
  <2> DEFINE job == [name |-> n, stage |-> s]
  <2>1. job \in jobs[p] /\ jobs'[p] = jobs[p] \ {job} /\ UNCHANGED <<there, events, phase, synced>>
    BY <1>9 DEF Return, TypeOK, apps
  <2>2. queue[p] \in Queue /\ queue'[p] = Done(Returned(queue[p], s, n), n)
    BY <1>9 DEF Return, TypeOK
  <2>3. /\ queue'[p].dirty = queue[p].dirty
        /\ queue[p].delayed \subseteq queue'[p].delayed
        /\ s # "gone" => n \in queue'[p].delayed
    BY <2>2 DEF Done, Returned, Delayed, Queue
  <2>4. ASSUME NEW r \in Processes, r # p PROVE queue'[r] = queue[r] /\ jobs'[r] = jobs[r]
    BY <1>9, <2>4 DEF Return, TypeOK
  <2>5. ASSUME NEW m \in Names, there[m], Kept(p, m) PROVE Kept(p, m)'
    <3>1. job.name = n
      OBVIOUS
    <3>2. CASE m = n
      BY <2>1, <2>3, <2>5, <3>2 DEF Kept
    <3>3. CASE m # n
      <4> HIDE DEF job
      <4>1. m \in Busy(p) => m \in Busy(p)'
        BY <2>1, <3>1, <3>3 DEF Busy
      <4> QED
        BY <2>1, <2>3, <2>5, <4>1 DEF Kept
    <3> QED
      BY <3>2, <3>3
  <2> QED
    BY <2>1, <2>4, <2>5, KeptFrame DEF KeptInv, Runs, Live
<1>10. ASSUME NEW p \in Processes, NEW j \in jobs[p], Abandon(p, j) PROVE KeptInv'
  <2>1. ~Runs(p)'
    BY <1>10 DEF Abandon, Runs, Live
  <2> QED
    BY <1>10, <2>1, KeptFrame DEF Abandon, KeptInv, Runs, Live, TypeOK, apps
<1>11. ASSUME NEW p \in Processes, NEW n \in Names, Enqueue(p, n) PROVE KeptInv'
  <2>1. queue'[p].dirty = queue[p].dirty \cup {n} /\ queue'[p].delayed = queue[p].delayed
    BY <1>11, AddedFields DEF Enqueue, TypeOK
  <2>2. events'[p] = events[p] \ {n} /\ UNCHANGED <<there, jobs, phase, synced>>
    BY <1>11 DEF Enqueue, TypeOK, apps
  <2>3. ASSUME NEW r \in Processes, r # p PROVE queue'[r] = queue[r] /\ events'[r] = events[r]
    BY <1>11, <2>3 DEF Enqueue, TypeOK
  <2>4. ASSUME NEW m \in Names, Kept(p, m) PROVE Kept(p, m)'
    BY <2>1, <2>2, <2>4 DEF Kept, Busy
  <2> QED
    BY <2>2, <2>3, <2>4, KeptFrame DEF KeptInv, Runs, Live
<1>12. ASSUME NEW p \in Processes, NEW n \in Names, Fire(p, n) PROVE KeptInv'
  <2> DEFINE q == [queue[p] EXCEPT !.delayed = @ \ {n}]
  <2>1. q \in Queue /\ q.dirty = queue[p].dirty /\ q.delayed = queue[p].delayed \ {n}
    BY DEF TypeOK, Queue
  <2>2. queue'[p] = Added(q, Busy(p), n)
    BY <1>12 DEF Fire, TypeOK
  <2> HIDE DEF q
  <2>3. queue'[p].dirty = queue[p].dirty \cup {n} /\ queue'[p].delayed = queue[p].delayed \ {n}
    BY <2>1, <2>2, AddedFields
  <2>4. UNCHANGED <<there, jobs, events, phase, synced>>
    BY <1>12 DEF Fire, apps
  <2>5. ASSUME NEW r \in Processes, r # p PROVE queue'[r] = queue[r]
    BY <1>12, <2>5 DEF Fire, TypeOK
  <2>6. ASSUME NEW m \in Names, Kept(p, m) PROVE Kept(p, m)'
    BY <2>3, <2>4, <2>6 DEF Kept, Busy
  <2> QED
    BY <2>4, <2>5, <2>6, KeptFrame DEF KeptInv, Runs, Live
<1>13. ASSUME NEW n \in Names, CreateOrEdit(n) \/ Delete(n) PROVE KeptInv'
  <2>1. PICK present \in BOOLEAN : Change(n, present)
    BY <1>13 DEF CreateOrEdit, Delete
  <2>2. UNCHANGED <<phase, synced, queue, jobs>> /\ \A m \in Names : m # n => there'[m] = there[m]
    BY <2>1 DEF Change, TypeOK
  <2>3. ASSUME NEW r \in Processes, Runs(r) PROVE events'[r] = events[r] \cup {n}
    BY <2>1, <2>3 DEF Change, Notified
  <2>4. ASSUME NEW r \in Processes, Runs(r) PROVE Kept(r, n)'
    BY <2>3, <2>4 DEF Kept
  <2> QED
    BY <2>2, <2>3, <2>4, KeptFrame DEF KeptInv, Runs, Live
<1>14. CASE UNCHANGED vars
  BY <1>14, KeptSame DEF vars, apps, Runs, Live
<1>15. ASSUME NEW p \in Processes, Elect(p) \/ List(p) \/ Work(p) PROVE KeptInv'
  BY <1>1, <1>2, <1>4, <1>5, <1>6, <1>8, <1>9, <1>15 DEF Elect, Work
<1>16. ASSUME NEW p \in Processes, Faults(p) PROVE KeptInv'
  BY <1>2, <1>3, <1>7, <1>10, <1>16 DEF Faults
<1>17. CASE Tick
  BY <1>17, KeptSame DEF Tick, apps, Runs, Live
<1> QED
  BY <1>11, <1>12, <1>13, <1>14, <1>15, <1>16, <1>17 DEF Next

LEMMA KeptInit == Init => KeptInv
BY DEF Init, KeptInv, Runs

\* Without a resync, no application is ever dropped: not by a reconcile that
\* finds it gone while it is created again, nor by one that fails.
THEOREM QueueForgetsNone == Spec => []NoneForgotten
<1>1. KeptInv => NoneForgotten
  BY DEF KeptInv, Kept, NoneForgotten
<1> QED
  BY TypeInit, TypeStep, LineInit, LineStep, LeaseInit, LeaseStep, KeptInit, KeptStep, <1>1,
     PTL DEF Spec

(***************************************************************************)
(* What nobody has read is asked for again.                                *)
(***************************************************************************)
\* With a worker that has yet to read n, or has failed to.
Awaited(p, n) == \E stage \in {"got", "error"} : [name |-> n, stage |-> stage] \in jobs[p]

Asked(p, n) == n \in events[p] \cup queue[p].dirty \/ n \in queue[p].delayed \/ Awaited(p, n)

PendingInv ==
  \A p \in Processes : Runs(p) => \A n \in Names : there[n] /\ unread[n] => Asked(p, n)

\* Process r goes on as it was, perhaps with more events.
LEMMA AskedFrame ==
  ASSUME NEW r \in Processes, events[r] \subseteq events'[r], queue'[r] = queue[r],
         jobs'[r] = jobs[r]
  PROVE  \A m \in Names : Asked(r, m) => Asked(r, m)'
BY DEF Asked, Awaited

LEMMA PendingSame ==
  ASSUME PendingInv, UNCHANGED <<there, unread, events, queue, jobs>>,
         \A r \in Processes : Runs(r)' => Runs(r)
  PROVE  PendingInv'
BY DEF PendingInv, Asked, Awaited

\* The job of n goes from stage a to stage b; what n is then asked by is for
\* the caller to say.
LEMMA PendingMove ==
  ASSUME TypeOK, PendingInv, NEW p \in Processes, NEW n \in Names, NEW a, NEW b,
         Move(p, n, a, b), UNCHANGED <<there, queue, phase, synced>>,
         \A m \in Names : unread'[m] => unread[m],
         \A r \in Processes : events[r] \subseteq events'[r],
         \/ ~unread'[n]
         \/ a \notin {"got", "error"}
         \/ b \in {"got", "error"}
  PROVE  PendingInv'
<1> SUFFICES ASSUME NEW r \in Processes, Runs(r), NEW m \in Names, there[m], unread'[m]
             PROVE  Asked(r, m)'
  BY DEF PendingInv, Runs, Live
<1>1. Asked(r, m)
  BY DEF PendingInv
<1>2. CASE r # p
  <2>1. jobs'[r] = jobs[r]
    BY <1>2 DEF Move, TypeOK
  <2> QED
    BY <1>1, <2>1, AskedFrame
<1>3. CASE r = p
  <2>1. jobs'[p] = (jobs[p] \ {[name |-> n, stage |-> a]}) \cup {[name |-> n, stage |-> b]}
    BY DEF Move, TypeOK
  <2>2. Awaited(p, m) => Awaited(p, m)'
    <3> SUFFICES ASSUME NEW s \in {"got", "error"}, [name |-> m, stage |-> s] \in jobs[p]
                 PROVE  Awaited(p, m)'
      BY DEF Awaited
    <3>1. CASE [name |-> m, stage |-> s] # [name |-> n, stage |-> a]
      BY <2>1, <3>1 DEF Awaited
    <3>2. CASE [name |-> m, stage |-> s] = [name |-> n, stage |-> a]
      <4>1. m = n /\ s = a
        BY <3>2
      <4> QED
        BY <2>1, <4>1 DEF Awaited
    <3> QED
      BY <3>1, <3>2
  <2> QED
    BY <1>1, <1>3, <2>2 DEF Asked
<1> QED
  BY <1>2, <1>3

LEMMA PendingStep == TypeOK /\ PendingInv /\ LeaseInv /\ [Next]_vars => PendingInv'
<1> SUFFICES ASSUME TypeOK, PendingInv, LeaseInv, [Next]_vars PROVE PendingInv'
  OBVIOUS
<1>1. ASSUME NEW p \in Processes, Start(p) \/ Acquire(p) \/ Renew(p) \/ GiveUp(p) PROVE PendingInv'
  BY <1>1, PendingSame DEF Start, Acquire, Renew, GiveUp, apps, Enter, Runs, Live, LeaseInv, TypeOK
<1>2. ASSUME NEW p \in Processes, Cancel(p) \/ Terminate(p) \/ Exit(p) \/ Crash(p) PROVE PendingInv'
  <2>1. ~Runs(p)'
    BY <1>2 DEF Cancel, Terminate, Exit, Crash, Enter, Runs, Live, TypeOK
  <2>2. UNCHANGED <<there, unread>>
    BY <1>2 DEF Cancel, Terminate, Exit, Crash, apps
  <2>3. ASSUME NEW r \in Processes, r # p
        PROVE  /\ events'[r] = events[r] /\ queue'[r] = queue[r] /\ jobs'[r] = jobs[r]
               /\ Runs(r)' => Runs(r)
    BY <1>2, <2>3 DEF Cancel, Terminate, Exit, Crash, Enter, Shut, Runs, Live, TypeOK
  <2> QED
    BY <2>1, <2>2, <2>3, AskedFrame DEF PendingInv
<1>3. ASSUME NEW p \in Processes, Release(p) PROVE PendingInv'
  BY <1>3, PendingSame DEF Release, apps, Runs, Live
\* A process that starts to watch lists all there is.
<1>4. ASSUME NEW p \in Processes, List(p) PROVE PendingInv'
  <2>1. UNCHANGED <<there, unread, queue, jobs, phase>>
    BY <1>4 DEF List, apps
  <2>2. events'[p] = {n \in Names : there[n]}
    BY <1>4 DEF List, TypeOK
  <2>3. ASSUME NEW r \in Processes, r # p PROVE events'[r] = events[r] /\ synced'[r] = synced[r]
    BY <1>4, <2>3 DEF List, TypeOK
  <2>4. \A n \in Names : there[n] => Asked(p, n)'
    BY <2>1, <2>2 DEF Asked
  <2> QED
    BY <2>1, <2>3, <2>4, AskedFrame DEF PendingInv, Runs, Live
<1>5. ASSUME NEW p \in Processes, Get(p) PROVE PendingInv'
  <2> DEFINE n == Head(queue[p].line)
  <2>1. queue[p] \in Queue /\ queue[p].line # <<>> /\ queue[p].line \in Seq(Names)
    BY <1>5 DEF Get, TypeOK, Queue
  <2>2. queue'[p].dirty = queue[p].dirty \ {n} /\ queue'[p].delayed = queue[p].delayed
    BY <1>5, <2>1 DEF Get, TypeOK, Queue
  <2>3. /\ jobs'[p] = jobs[p] \cup {[name |-> n, stage |-> "got"]}
        /\ UNCHANGED <<there, unread, events, phase, synced>>
    BY <1>5 DEF Get, TypeOK, apps
  <2> HIDE DEF n
  <2>4. ASSUME NEW r \in Processes, r # p PROVE queue'[r] = queue[r] /\ jobs'[r] = jobs[r]
    BY <1>5, <2>4 DEF Get, TypeOK
  <2>5. ASSUME NEW m \in Names, Asked(p, m) PROVE Asked(p, m)'
    <3>1. CASE m = n
      BY <2>3, <3>1 DEF Asked, Awaited
    <3>2. CASE m # n
      BY <2>2, <2>3, <2>5, <3>2 DEF Asked, Awaited
    <3> QED
      BY <3>1, <3>2
  <2> QED
    BY <2>3, <2>4, <2>5, AskedFrame DEF PendingInv, Runs, Live
\* A read clears what it has read, and what fails is given back as an error.
<1>6. ASSUME NEW p \in Processes, NEW n \in Names, Read(p, n) PROVE PendingInv'
  <2>1. ~unread'[n] /\ \A m \in Names : unread'[m] => unread[m]
    BY <1>6 DEF Read, TypeOK
  <2> QED
    BY <1>6, <2>1, PendingMove DEF Read
<1>7. ASSUME NEW p \in Processes, NEW n \in Names, ReadFails(p, n) PROVE PendingInv'
  BY <1>7, PendingMove DEF ReadFails, apps
<1>8. ASSUME NEW p \in Processes, NEW n \in Names, Patch(p, n) PROVE PendingInv'
  <2>1. \A r \in Processes : events[r] \subseteq events'[r]
    BY <1>8 DEF Patch, Notified
  <2>2. PICK b \in {"ok", "error"} : Move(p, n, "read", b)
    BY <1>8 DEF Patch
  <2> QED
    BY <1>8, <2>1, <2>2, PendingMove DEF Patch, apps
<1>9. ASSUME NEW p \in Processes, NEW n \in Names, NEW s \in {"gone", "ok", "error"}, Return(p, n, s)
      PROVE  PendingInv'
  <2>1. /\ jobs'[p] = jobs[p] \ {[name |-> n, stage |-> s]}
        /\ UNCHANGED <<there, unread, events, phase, synced>>
    BY <1>9 DEF Return, TypeOK, apps
  <2>2. queue[p] \in Queue /\ queue'[p] = Done(Returned(queue[p], s, n), n)
    BY <1>9 DEF Return, TypeOK
  <2>3. /\ queue'[p].dirty = queue[p].dirty
        /\ queue[p].delayed \subseteq queue'[p].delayed
        /\ s # "gone" => n \in queue'[p].delayed
    BY <2>2 DEF Done, Returned, Delayed, Queue
  <2>4. ASSUME NEW r \in Processes, r # p PROVE queue'[r] = queue[r] /\ jobs'[r] = jobs[r]
    BY <1>9, <2>4 DEF Return, TypeOK
  <2>5. ASSUME NEW m \in Names, Asked(p, m) PROVE Asked(p, m)'
    <3>1. CASE Awaited(p, m)
      <4>1. PICK t \in {"got", "error"} : [name |-> m, stage |-> t] \in jobs[p]
        BY <3>1 DEF Awaited
      <4>2. CASE [name |-> m, stage |-> t] = [name |-> n, stage |-> s]
        <5>1. m = n /\ s = t
          BY <4>2
        <5> QED
          BY <2>3, <5>1 DEF Asked
      <4>3. CASE [name |-> m, stage |-> t] # [name |-> n, stage |-> s]
        BY <2>1, <4>1, <4>3 DEF Asked, Awaited
      <4> QED
        BY <4>2, <4>3
    <3>2. CASE ~Awaited(p, m)
      BY <2>1, <2>3, <2>5, <3>2 DEF Asked
    <3> QED
      BY <3>1, <3>2
  <2> QED
    BY <2>1, <2>4, <2>5, AskedFrame DEF PendingInv, Runs, Live
<1>10. ASSUME NEW p \in Processes, NEW j \in jobs[p], Abandon(p, j) PROVE PendingInv'
  <2>1. ~Runs(p)'
    BY <1>10 DEF Abandon, Runs, Live
  <2> QED
    BY <1>10, <2>1, AskedFrame DEF Abandon, PendingInv, Runs, Live, TypeOK, apps
<1>11. ASSUME NEW p \in Processes, NEW n \in Names, Enqueue(p, n) PROVE PendingInv'
  <2>1. queue'[p].dirty = queue[p].dirty \cup {n} /\ queue'[p].delayed = queue[p].delayed
    BY <1>11, AddedFields DEF Enqueue, TypeOK
  <2>2. events'[p] = events[p] \ {n} /\ UNCHANGED <<there, unread, jobs, phase, synced>>
    BY <1>11 DEF Enqueue, TypeOK, apps
  <2>3. ASSUME NEW r \in Processes, r # p PROVE queue'[r] = queue[r] /\ events'[r] = events[r]
    BY <1>11, <2>3 DEF Enqueue, TypeOK
  <2>4. ASSUME NEW m \in Names, Asked(p, m) PROVE Asked(p, m)'
    BY <2>1, <2>2, <2>4 DEF Asked, Awaited
  <2> QED
    BY <2>2, <2>3, <2>4, AskedFrame DEF PendingInv, Runs, Live
<1>12. ASSUME NEW p \in Processes, NEW n \in Names, Fire(p, n) PROVE PendingInv'
  <2> DEFINE q == [queue[p] EXCEPT !.delayed = @ \ {n}]
  <2>1. q \in Queue /\ q.dirty = queue[p].dirty /\ q.delayed = queue[p].delayed \ {n}
    BY DEF TypeOK, Queue
  <2>2. queue'[p] = Added(q, Busy(p), n)
    BY <1>12 DEF Fire, TypeOK
  <2> HIDE DEF q
  <2>3. queue'[p].dirty = queue[p].dirty \cup {n} /\ queue'[p].delayed = queue[p].delayed \ {n}
    BY <2>1, <2>2, AddedFields
  <2>4. UNCHANGED <<there, unread, jobs, events, phase, synced>>
    BY <1>12 DEF Fire, apps
  <2>5. ASSUME NEW r \in Processes, r # p PROVE queue'[r] = queue[r]
    BY <1>12, <2>5 DEF Fire, TypeOK
  <2>6. ASSUME NEW m \in Names, Asked(p, m) PROVE Asked(p, m)'
    BY <2>3, <2>4, <2>6 DEF Asked, Awaited
  <2> QED
    BY <2>4, <2>5, <2>6, AskedFrame DEF PendingInv, Runs, Live
\* Whoever watches is told of an edit.
<1>13. ASSUME NEW n \in Names, CreateOrEdit(n) \/ Delete(n) PROVE PendingInv'
  <2>1. PICK present \in BOOLEAN : Change(n, present)
    BY <1>13 DEF CreateOrEdit, Delete
  <2>2. /\ UNCHANGED <<phase, synced, queue, jobs>>
        /\ \A m \in Names : m # n => there'[m] = there[m] /\ unread'[m] = unread[m]
    BY <2>1 DEF Change, TypeOK
  <2>3. ASSUME NEW r \in Processes, Runs(r) PROVE events'[r] = events[r] \cup {n}
    BY <2>1, <2>3 DEF Change, Notified
  <2>4. ASSUME NEW r \in Processes, Runs(r) PROVE Asked(r, n)'
    BY <2>3, <2>4 DEF Asked
  <2> QED
    BY <2>2, <2>3, <2>4, AskedFrame DEF PendingInv, Runs, Live
<1>14. CASE UNCHANGED vars
  BY <1>14, PendingSame DEF vars, apps, Runs, Live
<1>15. ASSUME NEW p \in Processes, Elect(p) \/ List(p) \/ Work(p) PROVE PendingInv'
  BY <1>1, <1>2, <1>4, <1>5, <1>6, <1>8, <1>9, <1>15 DEF Elect, Work
<1>16. ASSUME NEW p \in Processes, Faults(p) PROVE PendingInv'
  BY <1>2, <1>3, <1>7, <1>10, <1>16 DEF Faults
<1>17. CASE Tick
  BY <1>17, PendingSame DEF Tick, apps, Runs, Live
<1> QED
  BY <1>11, <1>12, <1>13, <1>14, <1>15, <1>16, <1>17 DEF Next

LEMMA PendingInit == Init => PendingInv
BY DEF Init, PendingInv, Runs

\* An edit that comes while its application is being reconciled is not lost
\* with that reconcile, however many workers, processes and faults there are.
THEOREM QueueKeepsEdits == Spec => []EditStaysPending
<1>1. PendingInv => EditStaysPending
  BY DEF PendingInv, Asked, Awaited, EditStaysPending
<1> QED
  BY TypeInit, TypeStep, LeaseInit, LeaseStep, PendingInit, PendingStep, <1>1, PTL DEF Spec
=============================================================================
