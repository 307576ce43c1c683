---------------------------- MODULE Status_proofs ----------------------------
(***************************************************************************)
(* ReadyMeansCurrentSpec, for applications that are not created twice: the *)
(* status patch names no UID, so that the success of a deleted application *)
(* could otherwise be written to a new one of the same name.               *)
(*                                                                         *)
(* The patch carries only what differs from the copy that was read.  What  *)
(* it leaves out must be on the server as it is in the copy: nobody else   *)
(* writes the status of an application while it is reconciled.             *)
(***************************************************************************)
EXTENDS GitApplicationController_proofs

ReadyIsCurrent(a) ==
  app[a].status.conditions.ready = "True" /\ app[a].status.observedGeneration = app[a].generation
    => /\ ~app[a].spec.suspend
       /\ app[a].status.inventory = Manifest[app[a].spec.path][app[a].status.appliedRevision]

\* The copy is an earlier state of the application.
Earlier(a) ==
  /\ copy[a].generation <= app[a].generation
  /\ copy[a].generation = app[a].generation => copy[a].spec = app[a].spec

\* What the success patch relies on.
SameStatus(a) ==
  \A f \in {"observedGeneration", "appliedRevision", "inventory"} :
    app[a].status[f] = copy[a].status[f]

Current(a) ==
  /\ app[a] # None => /\ app[a].status.observedGeneration <= app[a].generation
                      /\ ReadyIsCurrent(a)
  /\ app[a] # None /\ copy[a] # None => Earlier(a)
  /\ pc[a] \in Underway => /\ ~copy[a].spec.suspend
                           /\ app[a] # None => SameStatus(a)

CurrentInv == \A a \in Apps : Current(a)

LEMMA Types ==
  ASSUME TypeInv, NEW a \in Apps
  PROVE  /\ app[a] # None => app[a] \in GitApplication
         /\ copy[a] # None => copy[a] \in GitApplication
         /\ pc[a] # "idle" => copy[a] # None
         /\ pc[a] \in Steps
BY DEF TypeInv, TypeOK, ClusterOK, JobOK, LocalsOK

\* Nothing about a changes.
LEMMA CurrentFrame ==
  ASSUME NEW a \in Apps, Current(a), SameJob(a), app'[a] = app[a]
  PROVE  Current(a)'
BY DEF Current, SameJob, ReadyIsCurrent, Earlier, SameStatus

\* A step of the reconcile of another application.
LEMMA CurrentOthers ==
  ASSUME CurrentInv, NEW a \in Apps, OnlyJob(a), Current(a)'
  PROVE  CurrentInv'
BY CurrentFrame DEF CurrentInv, OnlyJob

\* A step of the reconcile that writes no status.
LEMMA CurrentLocal ==
  ASSUME TypeInv, CurrentInv, NEW a \in Apps, OnlyJob(a), app'[a] = app[a],
         copy'[a] \in {None, copy[a]}, pc'[a] \in Underway => pc[a] \in Underway /\ copy'[a] = copy[a]
  PROVE  CurrentInv'
<1>1. copy'[a] = None \/ copy'[a] = copy[a]
  OBVIOUS
<1>2. Current(a)'
  BY <1>1 DEF CurrentInv, Current, ReadyIsCurrent, Earlier, SameStatus
<1> QED
  BY <1>2, CurrentOthers

\* A patch that takes Ready away claims nothing.
LEMMA CurrentUnready ==
  ASSUME TypeInv, CurrentInv, NEW a \in Apps, NEW m \in Status, OnlyJob(a),
         copy[a] # None, app[a] # None, PatchStatus(a, m), pc'[a] = "idle", copy'[a] = None,
         m.conditions.ready = "False",
         m.observedGeneration \in {copy[a].generation, copy[a].status.observedGeneration}
  PROVE  CurrentInv'
<1>1. /\ app'[a] = [app[a] EXCEPT !.status = MergePatch(app[a].status, copy[a].status, m)]
      /\ app[a] \in GitApplication
  BY PatchStatusType, Types DEF TypeInv
<1>2. /\ app'[a].generation = app[a].generation
      /\ app'[a].status.conditions.ready = "False"
      /\ app'[a].status.observedGeneration
           = Merged("observedGeneration", app[a].status, copy[a].status, m)
  BY <1>1 DEF GitApplication, MergePatch
<1>3. Merged("observedGeneration", app[a].status, copy[a].status, m)
        \in {app[a].status.observedGeneration, copy[a].generation}
  BY DEF Merged
<1>4. app'[a].status.observedGeneration <= app'[a].generation
  BY <1>2, <1>3 DEF CurrentInv, Current, Earlier
<1>5. Current(a)'
  BY <1>2, <1>4 DEF Current, ReadyIsCurrent, Underway
<1> QED
  BY <1>5, CurrentOthers

\* The patch of a success, which sends what differs from the copy: together
\* with what the server has, it is the status that was meant.
LEMMA CurrentReady ==
  ASSUME TypeInv, CurrentInv, NEW a \in Apps, OnlyJob(a), pc[a] = "success",
         app[a] # None, PatchStatus(a, SuccessStatus(a)), pc'[a] \in {"idle", "fail"},
         copy'[a] # None => copy'[a].generation = copy[a].generation /\ copy'[a].spec = copy[a].spec
  PROVE  CurrentInv'
<1>1. copy[a] # None /\ sha[a] \in Revisions /\ copy[a] \in GitApplication /\ app[a] \in GitApplication
  BY Types DEF TypeInv, LocalsOK
<1>2. SuccessStatus(a) \in Status
  BY <1>1, SuccessStatusType DEF TypeInv
<1>3. app'[a] = [app[a] EXCEPT !.status = MergePatch(app[a].status, copy[a].status, SuccessStatus(a))]
  BY <1>1, <1>2, PatchStatusType DEF TypeInv
<1>4. /\ app[a].status.observedGeneration = copy[a].status.observedGeneration
      /\ app[a].status.appliedRevision = copy[a].status.appliedRevision
      /\ app[a].status.inventory = copy[a].status.inventory
      /\ ~copy[a].spec.suspend /\ Earlier(a)
  BY <1>1 DEF CurrentInv, Current, SameStatus, Underway
<1>5. /\ app'[a].status.observedGeneration = copy[a].generation
      /\ app'[a].status.appliedRevision = sha[a]
      /\ app'[a].status.inventory = Desired(a)
      /\ app'[a].generation = app[a].generation /\ app'[a].spec = app[a].spec
  BY <1>1, <1>3, <1>4 DEF GitApplication, MergePatch, Merged, SuccessStatus
<1>6. app'[a].status.observedGeneration <= app'[a].generation
  BY <1>4, <1>5 DEF Earlier
<1>7. ReadyIsCurrent(a)'
  BY <1>4, <1>5 DEF ReadyIsCurrent, Earlier, Desired
<1>8. copy'[a] # None => Earlier(a)'
  BY <1>4, <1>5 DEF Earlier
<1>9. Current(a)'
  BY <1>6, <1>7, <1>8 DEF Current, Underway
<1> QED
  BY <1>9, CurrentOthers

LEMMA CurrentStep ==
  ASSUME MaxIncarnations = 1
  PROVE  TypeInv /\ CurrentInv /\ [Next]_vars => CurrentInv'
<1> SUFFICES ASSUME TypeInv, CurrentInv, [Next]_vars PROVE CurrentInv'
  OBVIOUS
<1> USE DEF Underway
\* The copy is the application itself.
<1>1. ASSUME NEW a \in Apps, ReadApp(a) PROVE CurrentInv'
  <2>1. PICK step \in {"suspend", "fetch", "fail"}, status \in {"True", "False"} : Begin(a, step, status)
    BY <1>1 DEF ReadApp, BeginSuspended, BeginInvalid, BeginValid
  <2>2. /\ pc'[a] = step /\ copy'[a] = app[a] /\ app[a] # None /\ UNCHANGED app
        /\ step = "fetch" => ~app[a].spec.suspend
    <3>1. /\ pc'[a] = step /\ copy'[a] = app[a] /\ app[a] # None /\ UNCHANGED app
      BY <2>1 DEF Begin, cluster, TypeInv, TypeOK, JobOK
    <3>2. CASE step = "fetch"
      <4>1. pc'[a] = "fetch"
        BY <3>1, <3>2
      <4>2. ~BeginSuspended(a) /\ ~BeginInvalid(a)
        BY <4>1 DEF BeginSuspended, BeginInvalid, Begin, TypeInv, TypeOK, JobOK
      <4> QED
        BY <1>1, <3>1, <4>2 DEF ReadApp, BeginValid
    <3> QED
      BY <3>1, <3>2
  <2>3. app[a].generation \in Int
    BY <2>2, Types DEF GitApplication
  <2>4. Current(a)'
    BY <2>2, <2>3 DEF CurrentInv, Current, ReadyIsCurrent, Earlier, SameStatus
  <2>5. OnlyJob(a)
    BY <2>1, <2>2, OnlyJobMoves DEF OnlyJob
  <2> QED
    BY <2>4, <2>5, CurrentOthers
\* A step that writes no status.
<1>2. ASSUME NEW a \in Apps, pc[a] \in Underway, UNCHANGED app,
             \/ \E step \in Underway : \E t : Goto(a, step, t)
             \/ \E status : FailNext(a, status)
      PROVE  CurrentInv'
  <2>1. copy'[a] = copy[a] /\ app'[a] = app[a]
    BY <1>2 DEF Goto, FailNext
  <2>2. OnlyJob(a)
    BY <1>2, OnlyJobMoves DEF OnlyJob
  <2> QED
    BY <1>2, <2>1, <2>2, CurrentLocal
<1>3. ASSUME NEW a \in Apps,
             \/ CheckoutFails(a) \/ Render(a) \/ RenderFails(a) \/ ApplyDone(a)
             \/ PruneReadFails(a) \/ PruneDone(a)
      PROVE  CurrentInv'
  BY <1>2, <1>3 DEF CheckoutFails, Render, RenderFails, ApplyDone, PruneReadFails, PruneDone, cluster
<1>4. ASSUME NEW a \in Apps, NEW r \in todo[a],
             \/ ApplyObject(a, r) \/ ApplyConflict(a, r) \/ ApplyFails(a, r)
             \/ PassOver(a, r) \/ Condemn(a, r)
             \/ DeleteObject(a, r) \/ DeleteNotFound(a, r) \/ DeleteFails(a, r)
      PROVE  CurrentInv'
  BY <1>2, <1>4
     DEF ApplyObject, ApplyConflict, ApplyFails, PassOver, Condemn, DeleteObject,
         DeleteNotFound, DeleteFails, cluster
<1>5. ASSUME NEW a \in Apps, Checkout(a) PROVE CurrentInv'
  <2>1. /\ pc[a] = "fetch" /\ pc'[a] = "render" /\ UNCHANGED app
        /\ copy'[a] = [copy[a] EXCEPT !.status.attemptedRevision = head]
    BY <1>5 DEF Checkout, cluster, TypeInv, TypeOK, JobOK
  <2>2. copy[a] # None /\ copy[a] \in GitApplication
    BY <2>1, Types
  <2>3. /\ copy'[a].generation = copy[a].generation /\ copy'[a].spec = copy[a].spec
        /\ \A f \in {"observedGeneration", "appliedRevision", "inventory"} :
             copy'[a].status[f] = copy[a].status[f]
    BY <2>1, <2>2 DEF GitApplication, Status
  <2>4. Current(a)'
    BY <2>1, <2>2, <2>3 DEF CurrentInv, Current, ReadyIsCurrent, Earlier, SameStatus
  <2>5. OnlyJob(a)
    BY <1>5, <2>1, OnlyJobMoves DEF OnlyJob
  <2> QED
    BY <2>4, <2>5, CurrentOthers
\* Steps that write a status.
<1>6. ASSUME NEW a \in Apps, UpdateSuspended(a) \/ Fail(a) PROVE CurrentInv'
  <2>1. /\ pc[a] # "idle" /\ Return({a})
        /\ \/ app' = app
           \/ app[a] # None /\ PatchStatus(a, SuspendedStatus(a))
           \/ app[a] # None /\ PatchStatus(a, FailedStatus(a))
    BY <1>6 DEF UpdateSuspended, Fail
  <2>2. copy[a] # None /\ copy[a] \in GitApplication
    BY <2>1, Types
  <2>3. /\ SuspendedStatus(a) \in Status /\ SuspendedStatus(a).conditions.ready = "False"
        /\ SuspendedStatus(a).observedGeneration = copy[a].status.observedGeneration
        /\ FailedStatus(a) \in Status /\ FailedStatus(a).conditions.ready = "False"
        /\ FailedStatus(a).observedGeneration = copy[a].generation
    BY <2>2, SuspendedStatusType, FailedStatusType
       DEF SuspendedStatus, FailedStatus, GitApplication, Status, Conditions, TypeInv
  <2>4. pc'[a] = "idle" /\ copy'[a] = None
    BY <2>1 DEF Return
  <2>5. OnlyJob(a)
    BY <2>1, OnlyJobMoves DEF OnlyJob
  <2>6. CASE app' = app
    BY <2>4, <2>5, <2>6, CurrentLocal
  <2> QED
    BY <2>1, <2>2, <2>3, <2>4, <2>5, <2>6, CurrentUnready
<1>7. ASSUME NEW a \in Apps, StatusLost(a) PROVE CurrentInv'
  <2>1. pc'[a] = "idle" /\ copy'[a] = None /\ app' = app
    BY <1>7 DEF StatusLost, Return, cluster
  <2>2. OnlyJob(a)
    BY <1>7, <2>1, OnlyJobMoves DEF OnlyJob, StatusLost
  <2> QED
    BY <2>1, <2>2, CurrentLocal
<1>8. ASSUME NEW a \in Apps,
             UpdateSuccess(a) \/ UpdateSuccessNotFound(a) \/ UpdateSuccessFails(a)
      PROVE  CurrentInv'
  <2>1. /\ pc[a] = "success"
        /\ app' = app \/ (app[a] # None /\ PatchStatus(a, SuccessStatus(a)))
        /\ Return({a}) \/ SuccessRejected(a)
    BY <1>8 DEF UpdateSuccess, UpdateSuccessNotFound, UpdateSuccessFails
  <2>2. copy[a] # None /\ copy[a] \in GitApplication
    BY <2>1, Types
  <2>3. /\ pc'[a] \in {"idle", "fail"}
        /\ copy'[a] # None => copy'[a].generation = copy[a].generation /\ copy'[a].spec = copy[a].spec
    <3>1. CASE Return({a})
      BY <3>1 DEF Return
    <3>2. CASE SuccessRejected(a)
      <4>1. /\ pc'[a] = "fail"
            /\ copy'[a] = [copy[a] EXCEPT !.status = SuccessStatus(a)]
        BY <3>2 DEF SuccessRejected, TypeInv, TypeOK, JobOK
      <4> QED
        BY <2>2, <4>1 DEF GitApplication
    <3> QED
      BY <2>1, <3>1, <3>2
  <2>4. OnlyJob(a)
    BY <2>1, OnlyJobMoves DEF OnlyJob
  <2>5. CASE app' = app
    <3>1. Current(a)'
      BY <2>2, <2>3, <2>5 DEF CurrentInv, Current, ReadyIsCurrent, Earlier
    <3> QED
      BY <2>4, <3>1, CurrentOthers
  <2> QED
    BY <2>1, <2>3, <2>4, <2>5, CurrentReady
<1>9. ASSUME Crash PROVE CurrentInv'
  <2>1. \A a \in Apps : pc'[a] = "idle" /\ copy'[a] = None /\ app'[a] = app[a]
    BY <1>9 DEF Crash, Return, cluster
  <2> QED
    BY <2>1 DEF CurrentInv, Current, ReadyIsCurrent
\* Steps of the users.
<1>10. ASSUME UNCHANGED <<job, app>> PROVE CurrentInv'
  BY <1>10 DEF job, CurrentInv, Current, ReadyIsCurrent, Earlier, SameStatus
<1>11. ASSUME NEW a \in Apps, UNCHANGED job, \A b \in Apps \ {a} : app'[b] = app[b], Current(a)'
       PROVE  CurrentInv'
  BY <1>11, CurrentOthers DEF OnlyJob, SameJob, job
<1>12. ASSUME NEW a \in Apps, Create(a) PROVE CurrentInv'
  <2>1. /\ UNCHANGED job /\ \A b \in Apps \ {a} : app'[b] = app[b]
        /\ app'[a].status = EmptyStatus /\ app'[a].generation = 1
        /\ incarnation[a] < 1
    BY <1>12 DEF Create, TypeInv, TypeOK, ClusterOK
  <2>2. copy[a] = None /\ pc[a] = "idle"
    BY <2>1 DEF TypeInv, TypeOK, ClusterOK, LocalsOK, UidsOK, UidOf
  <2>3. Current(a)'
    BY <2>1, <2>2 DEF Current, ReadyIsCurrent, EmptyStatus, job
  <2> QED
    BY <1>11, <2>1, <2>3
<1>13. ASSUME NEW a \in Apps, EditSpec(a) PROVE CurrentInv'
  <2>1. PICK s \in Specs[a] : app' = [app EXCEPT ![a].spec = s, ![a].generation = @ + 1]
    BY <1>13 DEF EditSpec
  <2>2. /\ UNCHANGED job /\ app[a] # None /\ app[a] \in GitApplication
        /\ \A b \in Apps \ {a} : app'[b] = app[b]
    BY <1>13, <2>1, Types DEF EditSpec, TypeInv, TypeOK, ClusterOK
  <2>3. /\ app'[a].generation = app[a].generation + 1 /\ app'[a].status = app[a].status
        /\ app[a].generation \in Int /\ app[a].status.observedGeneration \in Int
    BY <2>1, <2>2 DEF TypeInv, TypeOK, ClusterOK, GitApplication, Status
  <2>4. copy[a] # None => copy[a].generation \in Int
    BY Types DEF GitApplication
  <2>5. /\ app[a].status.observedGeneration < app'[a].generation
        /\ copy[a] # None => copy[a].generation < app'[a].generation
    BY <2>2, <2>3, <2>4 DEF CurrentInv, Current, Earlier
  <2>6. Current(a)'
    BY <2>2, <2>3, <2>4, <2>5 DEF CurrentInv, Current, ReadyIsCurrent, Earlier, SameStatus, job
  <2> QED
    BY <1>11, <2>2, <2>6
<1>14. ASSUME NEW a \in Apps, MarkDeleted(a) PROVE CurrentInv'
  <2>1. /\ UNCHANGED job /\ app[a] # None /\ app[a] \in GitApplication
        /\ \A b \in Apps \ {a} : app'[b] = app[b]
        /\ app'[a] = [app[a] EXCEPT !.deleting = TRUE]
    BY <1>14, Types DEF MarkDeleted, TypeInv, TypeOK, ClusterOK
  <2>2. /\ app'[a].generation = app[a].generation /\ app'[a].status = app[a].status
        /\ app'[a].spec = app[a].spec
    BY <2>1 DEF GitApplication
  <2>3. Current(a)'
    BY <2>1, <2>2 DEF CurrentInv, Current, ReadyIsCurrent, Earlier, SameStatus, job
  <2> QED
    BY <1>11, <2>1, <2>3
<1>15. ASSUME NEW a \in Apps, Remove(a) PROVE CurrentInv'
  <2>1. /\ UNCHANGED job /\ app'[a] = None
        /\ \A b \in Apps \ {a} : app'[b] = app[b]
    BY <1>15 DEF Remove, TypeInv, TypeOK, ClusterOK
  <2>2. Current(a)'
    BY <2>1 DEF CurrentInv, Current, job
  <2> QED
    BY <1>11, <2>1, <2>2
<1>16. ASSUME \/ Push \/ UNCHANGED vars
              \/ \E a \in Apps : ReadNothing(a)
              \/ \E o \in Objects : Meddle(o)
       PROVE  CurrentInv'
  BY <1>10, <1>16 DEF Push, ReadNothing, Meddle, vars, job
<1> QED
  BY <1>1, <1>3, <1>4, <1>5, <1>6, <1>7, <1>8, <1>9, <1>12, <1>13, <1>14, <1>15, <1>16
     DEF Next, Advance, CallFails, Users

\* The status of an application never claims that a generation is ready
\* which was not reconciled, whatever fails, is edited, suspended or taken
\* over meanwhile, for any number of applications, workers and commits.
THEOREM ReadyIsTrue ==
  ASSUME MaxIncarnations = 1
  PROVE  Spec => []ReadyMeansCurrentSpec
<1>1. Init => TypeInv /\ CurrentInv
  BY BoundAssumption
     DEF Init, TypeInv, TypeOK, ClusterOK, JobOK, SpentOK, LocalsOK, UidsOK, Steps,
         CurrentInv, Current, Underway
<1>2. TypeInv /\ CurrentInv /\ [Next]_vars => TypeInv' /\ CurrentInv'
  BY TypeInvStep, CurrentStep
<1>3. CurrentInv => ReadyMeansCurrentSpec
  BY DEF CurrentInv, Current, ReadyIsCurrent, ReadyMeansCurrentSpec
<1> QED
  BY <1>1, <1>2, <1>3, PTL DEF Spec
=============================================================================
