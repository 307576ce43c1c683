---------------------------- MODULE Orphan_proofs ----------------------------
(***************************************************************************)
(* NoOrphan, for applications that prune, when no call fails and nobody    *)
(* else touches their objects, and when either they render no object of    *)
(* each other's or one worker reconciles them.  It is lost with the first  *)
(* failed call (run Orphan): an object that was applied is on record only  *)
(* once the whole reconcile has succeeded.                                 *)
(***************************************************************************)
EXTENDS GitApplicationController_proofs

AllPrune == \A a \in Apps : \A s \in Specs[a] : s.prune

Undisturbed == AllPrune /\ MaxFaults = 0 /\ MaxMeddles = 0

\* No reconcile gets in the way of another one.
Apart == Disjoint \/ OneAtATime

\* No object is contested, or marked by an incarnation still to come.
Fresh ==
  \A o \in Objects : live[o] # None =>
    /\ ~live[o].contested
    /\ \A b \in Apps, i \in 1..MaxIncarnations : live[o].uid = <<b, i>> => i <= incarnation[b]

\* An object is on record, or the reconcile under way will record it.
Booked(a, o) ==
  \/ o \in ObjectsOf(app[a].status.inventory)
  \/ /\ pc[a] \in {"apply", "prune", "delete", "success"}
     /\ copy[a].uid = app[a].uid
     /\ o \in ObjectsOf(Desired(a))

Bound(a) ==
  /\ pc[a] = "delete" => \A r \in NextToPrune(a) : CarriesMarks(copy[a].uid, r.object)
  /\ app[a] # None => \A o \in Objects : CarriesMarks(app[a].uid, o) => Booked(a, o)
  /\ app[a] # None /\ copy[a] # None /\ copy[a].uid # app[a].uid =>
       \A o \in Objects : ~CarriesMarks(app[a].uid, o)

OrphanInv == TypeInv /\ PrunedInv /\ StaleInv /\ Fresh /\ \A a \in Apps : Bound(a)

LEMMA JobTypes ==
  ASSUME OrphanInv, NEW a \in Apps
  PROVE  /\ pc[a] # "idle" <=> copy[a] # None
         /\ copy[a] # None => copy[a] \in GitApplication /\ copy[a].uid \in Uids /\ copy[a].uid[1] = a
         /\ app[a] # None => app[a] \in GitApplication /\ app[a].uid \in Uids /\ app[a].uid[1] = a
         /\ todo[a] \in SUBSET Refs
         /\ pc[a] \in {"render", "apply", "prune", "delete", "success"} => sha[a] \in Revisions
         /\ live \in [Objects -> LiveObject \cup {None}]
BY DEF OrphanInv, TypeInv, TypeOK, ClusterOK, JobOK, LocalsOK, UidsOK, UidOf, GitApplication

\* Where a reconcile may touch the cluster: the objects of its application.
LEMMA TodoInTerritory ==
  ASSUME OrphanInv, NEW a \in Apps, pc[a] \in {"apply", "prune", "delete"}
  PROVE  todo[a] \in SUBSET Territory(a)
<1>1. copy[a] # None /\ sha[a] \in Revisions
  BY JobTypes
<1>2. Desired(a) \in SUBSET Territory(a)
  BY <1>1 DEF OrphanInv, StaleInv, Stale, Desired, Territory
<1> QED
  BY <1>1, <1>2 DEF OrphanInv, StaleInv, Stale

\* Nothing about a changes, and it gets no marks.
LEMMA BoundFrame ==
  ASSUME OrphanInv, NEW a \in Apps, SameJob(a), app'[a] = app[a],
         app[a] # None => NoNewMarks(app[a].uid),
         pc[a] = "delete" => \A r \in NextToPrune(a) : live'[r.object] = live[r.object]
  PROVE  Bound(a)'
<1>1. /\ Desired(a)' = Desired(a) /\ NextToPrune(a)' = NextToPrune(a)
      /\ pc'[a] = pc[a] /\ copy'[a] = copy[a]
  BY DEF SameJob, Desired, NextToPrune
<1>2. app[a] # None => \A o \in Objects : CarriesMarks(app[a].uid, o)' => CarriesMarks(app[a].uid, o)
  BY DEF NoNewMarks, CarriesMarks
<1>3. ASSUME pc[a] = "delete", NEW r \in NextToPrune(a) PROVE CarriesMarks(copy[a].uid, r.object)'
  <2>1. CarriesMarks(copy[a].uid, r.object)
    BY <1>3 DEF OrphanInv, Bound
  <2>2. live'[r.object] = live[r.object]
    BY <1>3
  <2> QED
    BY <1>1, <2>1, <2>2 DEF CarriesMarks
<1> QED
  BY <1>1, <1>2, <1>3 DEF OrphanInv, Bound, Booked

\* What a reconcile of a does to the cluster.
Touched(a, r, l) ==
  /\ live' = [live EXCEPT ![r.object] = l]
  /\ l = None \/ (copy[a] # None /\ l.uid = copy[a].uid)

\* The other applications while a reconcile of a touches one of its objects.
LEMMA BoundOthers ==
  ASSUME OrphanInv, Apart, NEW a \in Apps, OnlyJob(a),
         \/ UNCHANGED live
         \/ pc[a] # "idle" /\ \E r \in Territory(a) : \E l : Touched(a, r, l)
  PROVE  \A b \in Apps \ {a} : Bound(b)'
<1> SUFFICES ASSUME NEW b \in Apps \ {a} PROVE Bound(b)'
  OBVIOUS
<1>1. SameJob(b) /\ app'[b] = app[b]
  BY DEF OnlyJob
<1>2. CASE UNCHANGED live
  BY <1>1, <1>2, BoundFrame DEF NoNewMarks, CarriesMarks
<1>3. ASSUME pc[a] # "idle", NEW r \in Territory(a), NEW l, Touched(a, r, l) PROVE Bound(b)'
  <2>1. r.object \in Objects
    BY ManifestAssumption DEF Territory, SpecRecords, Refs
  <2>2. \A o \in Objects : live'[o] = IF o = r.object THEN l ELSE live[o]
    BY <1>3, <2>1, JobTypes DEF Touched
  <2>3. app[b] # None => NoNewMarks(app[b].uid)
    BY <1>3, <2>2, JobTypes DEF NoNewMarks, CarriesMarks, Touched
  <2>4. ASSUME pc[b] = "delete", NEW s \in NextToPrune(b) PROVE live'[s.object] = live[s.object]
    <3>1. s \in Territory(b) /\ s.object \in Objects
      BY <2>4, TodoInTerritory, JobTypes DEF NextToPrune, Refs
    <3>2. Disjoint
      BY <1>3, <2>4 DEF Apart, OneAtATime
    <3>3. s.object # r.object
      BY <3>1, <3>2 DEF Disjoint
    <3> QED
      BY <2>2, <3>1, <3>3
  <2> QED
    BY <1>1, <2>3, <2>4, BoundFrame
<1> QED
  BY <1>2, <1>3

\* A reconcile of a that writes no status and stays within apply and prune.
LEMMA BoundAdvance ==
  ASSUME OrphanInv, Apart, NEW a \in Apps, UNCHANGED app,
         pc[a] \in {"render", "apply", "prune", "delete"},
         NEW step \in {"apply", "prune", "delete", "success"}, NEW t, Goto(a, step, t),
         \/ UNCHANGED live
         \/ \E r \in todo[a] : \E l : pc[a] # "render" /\ Touched(a, r, l) /\ (l # None => r \in Desired(a)),
         step = "delete" => \A r \in NextToPrune(a)' : CarriesMarks(copy[a].uid, r.object)'
  PROVE  \A b \in Apps : Bound(b)'
<1>1. pc'[a] = step /\ todo'[a] = t /\ UNCHANGED <<copy, sha>> /\ copy[a] # None
  BY JobTypes DEF Goto, OrphanInv, TypeInv, TypeOK, JobOK
<1>2. Desired(a)' = Desired(a) /\ OnlyJob(a)
  BY <1>1, OnlyJobMoves DEF Desired, OnlyJob, OrphanInv
<1>3. UNCHANGED live \/ \E r \in Territory(a) : \E l : Touched(a, r, l)
  BY TodoInTerritory
<1>4. ASSUME app[a] # None, NEW o \in Objects, CarriesMarks(app[a].uid, o)'
      PROVE  /\ CarriesMarks(app[a].uid, o) \/ o \in ObjectsOf(Desired(a))
             /\ CarriesMarks(app[a].uid, o) \/ copy[a].uid = app[a].uid
  <2>1. CASE UNCHANGED live
    BY <1>4, <2>1 DEF CarriesMarks
  <2>2. ASSUME NEW r \in todo[a], NEW l, Touched(a, r, l), l # None => r \in Desired(a)
        PROVE  /\ CarriesMarks(app[a].uid, o) \/ o \in ObjectsOf(Desired(a))
               /\ CarriesMarks(app[a].uid, o) \/ copy[a].uid = app[a].uid
    <3>1. r.object \in Objects
      BY JobTypes DEF Refs
    <3>2. live'[o] = IF o = r.object THEN l ELSE live[o]
      BY <2>2, <3>1, JobTypes DEF Touched
    <3> QED
      BY <1>4, <2>2, <3>2 DEF CarriesMarks, ObjectsOf, Touched
  <2> QED
    BY <2>1, <2>2
<1>5. ASSUME app[a] # None, NEW o \in Objects, CarriesMarks(app[a].uid, o)' PROVE Booked(a, o)'
  <2>1. CASE CarriesMarks(app[a].uid, o)
    <3>1. Booked(a, o)
      BY <1>5, <2>1 DEF OrphanInv, Bound
    <3> QED
      BY <1>1, <1>2, <3>1 DEF Booked
  <2>2. CASE ~CarriesMarks(app[a].uid, o)
    BY <1>1, <1>2, <1>4, <1>5, <2>2 DEF Booked
  <2> QED
    BY <2>1, <2>2
<1>6. app[a] # None /\ copy[a].uid # app[a].uid => \A o \in Objects : ~CarriesMarks(app[a].uid, o)'
  BY <1>1, <1>4 DEF OrphanInv, Bound
<1>7. Bound(a)'
  BY <1>1, <1>5, <1>6 DEF Bound, CarriesMarks
<1> QED
  BY <1>2, <1>3, <1>7, BoundOthers

\* A reconcile of a that is not in apply or prune afterwards: what it has
\* marked must be on record.
LEMMA BoundEnds ==
  ASSUME OrphanInv, Apart, NEW a \in Apps, OnlyJob(a), UNCHANGED live,
         pc'[a] \in {"idle", "suspend", "fetch", "render", "fail"},
         copy'[a] # None => copy[a] # None /\ copy'[a].uid = copy[a].uid,
         app'[a] # None =>
           /\ app[a] # None /\ app'[a].uid = app[a].uid
           /\ \A o \in Objects : CarriesMarks(app[a].uid, o) => o \in ObjectsOf(app'[a].status.inventory)
  PROVE  \A b \in Apps : Bound(b)'
<1>1. Bound(a)'
  BY DEF OrphanInv, Bound, Booked, CarriesMarks
<1> QED
  BY <1>1, BoundOthers

\* What a is on record with while no reconcile of it has come to apply.
LEMMA OnTheBook ==
  ASSUME OrphanInv, NEW a \in Apps, app[a] # None,
         pc[a] \notin {"apply", "prune", "delete", "success"},
         NEW o \in Objects, CarriesMarks(app[a].uid, o)
  PROVE  o \in ObjectsOf(app[a].status.inventory)
BY DEF OrphanInv, Bound, Booked

\* Without faults the steps of a reconcile are those of Advance.
LEMMA NoFault ==
  ASSUME Undisturbed, OrphanInv
  PROVE  /\ \A a \in Apps : ~CallFails(a)
         /\ ~Crash
         /\ \A o \in Objects : ~Meddle(o)
<1>1. ~CountFault /\ ~CountMeddle
  BY DEF CountFault, CountMeddle, Undisturbed, OrphanInv, TypeInv, TypeOK, SpentOK
<1> QED
  BY <1>1 DEF CallFails, Crash, Meddle, CheckoutFails, RenderFails, PruneReadFails,
              UpdateSuccessFails, StatusLost, ApplyFails, DeleteFails

\* What an apply writes.
LEMMA ApplyTouches ==
  ASSUME OrphanInv, NEW a \in Apps, pc[a] = "apply", NEW r \in todo[a], live' = Applied(a, r)
  PROVE  /\ r \in Desired(a) /\ r.object \in Objects
         /\ \E l \in LiveObject : Touched(a, r, l) /\ ~l.contested
<1> DEFINE new == [uid |-> copy[a].uid, managed |-> TRUE, revision |-> sha[a], contested |-> FALSE]
<1>1. r \in Desired(a) /\ r.object \in Objects
  BY JobTypes DEF OrphanInv, StaleInv, Stale, Refs
<1>2. copy[a] # None /\ copy[a].uid \in Uids /\ sha[a] \in Revisions
  BY JobTypes
<1>3. new \in LiveObject /\ ~new.contested /\ new.uid = copy[a].uid
  BY <1>2 DEF LiveObject
<1>4. live' = [live EXCEPT ![r.object] = new]
  BY DEF Applied
<1> QED
  BY <1>1, <1>2, <1>3, <1>4 DEF Touched

LEMMA FreshStep ==
  ASSUME Undisturbed, OrphanInv, Next
  PROVE  Fresh'
<1> USE DEF OrphanInv
<1>1. ASSUME UNCHANGED incarnation, UNCHANGED live PROVE Fresh'
  BY <1>1 DEF Fresh
<1>2. ASSUME NEW a \in Apps, NEW r \in todo[a], ApplyObject(a, r) PROVE Fresh'
  <2>1. pc[a] = "apply" /\ live' = Applied(a, r) /\ UNCHANGED incarnation
    BY <1>2 DEF ApplyObject
  <2>2. r.object \in Objects
    BY <2>1, ApplyTouches
  <2>3. PICK l \in LiveObject : Touched(a, r, l) /\ ~l.contested
    BY <2>1, ApplyTouches
  <2>4. l # None /\ l.uid = copy[a].uid /\ copy[a] # None
    BY <2>3, NoneAssumption DEF Touched
  <2>5. UidOf(a, l.uid)
    BY <2>4 DEF TypeInv, UidsOK
  <2>6. \A b \in Apps, i \in 1..MaxIncarnations : l.uid = <<b, i>> => i <= incarnation[b]
    <3> SUFFICES ASSUME NEW b \in Apps, NEW i \in 1..MaxIncarnations, l.uid = <<b, i>>
                 PROVE  i <= incarnation[b]
      OBVIOUS
    <3>1. b = a /\ i \in 1..incarnation[a]
      BY <2>5 DEF UidOf
    <3> QED
      BY <3>1 DEF TypeInv, TypeOK, ClusterOK
  <2>7. \A o \in Objects : live'[o] = IF o = r.object THEN l ELSE live[o]
    BY <2>2, <2>3, JobTypes DEF Touched
  <2> QED
    BY <2>1, <2>3, <2>6, <2>7 DEF Fresh
<1>3. ASSUME NEW a \in Apps, NEW r \in todo[a], DeleteObject(a, r) PROVE Fresh'
  <2>1. live' = [live EXCEPT ![r.object] = None] /\ UNCHANGED incarnation
    BY <1>3 DEF DeleteObject
  <2>2. \A o \in Objects : live'[o] \in {None, live[o]}
    BY <2>1, JobTypes
  <2> QED
    BY <2>1, <2>2 DEF Fresh
<1>4. ASSUME NEW a \in Apps, Create(a) PROVE Fresh'
  <2>1. UNCHANGED live /\ incarnation' = [incarnation EXCEPT ![a] = @ + 1]
    BY <1>4 DEF Create
  <2>2. \A b \in Apps : /\ incarnation[b] \in Int /\ incarnation'[b] \in Int
                        /\ incarnation[b] <= incarnation'[b]
    BY <2>1 DEF TypeInv, TypeOK, ClusterOK
  <2> QED
    BY <2>1, <2>2, BoundAssumption DEF Fresh
<1>5. \A a \in Apps : ~CallFails(a)
  BY NoFault
<1>6. ASSUME NEW a \in Apps, Advance(a) PROVE Fresh'
  BY <1>1, <1>2, <1>3, <1>6
     DEF Advance, UpdateSuspended, Checkout, Render, ApplyDone, PruneDone, UpdateSuccess,
         UpdateSuccessNotFound, SuccessRejected, Fail, ApplyConflict, PassOver, Condemn,
         DeleteNotFound, cluster
<1>7. ASSUME NEW a \in Apps, ReadApp(a) \/ ReadNothing(a) PROVE Fresh'
  BY <1>1, <1>7 DEF ReadApp, BeginSuspended, BeginInvalid, BeginValid, Begin, ReadNothing, cluster, vars
<1>8. ASSUME NEW a \in Apps, EditSpec(a) \/ MarkDeleted(a) \/ Remove(a) PROVE Fresh'
  BY <1>1, <1>8 DEF EditSpec, MarkDeleted, Remove
<1>9. ASSUME Push PROVE Fresh'
  BY <1>1, <1>9 DEF Push
<1> QED
  BY <1>4, <1>5, <1>6, <1>7, <1>8, <1>9, NoFault DEF Next, Users

LEMMA BoundStep ==
  ASSUME Undisturbed, Apart, OrphanInv, Next
  PROVE  \A a \in Apps : Bound(a)'
<1> DEFINE Goal == \A b \in Apps : Bound(b)'
<1> SUFFICES Goal
  OBVIOUS
<1>1. ASSUME NEW a \in Apps, ReadApp(a) PROVE Goal
  <2>1. PICK step \in {"suspend", "fetch", "fail"}, status \in {"True", "False"} : Begin(a, step, status)
    BY <1>1 DEF ReadApp, BeginSuspended, BeginInvalid, BeginValid
  <2>2. /\ pc[a] = "idle" /\ pc'[a] = step /\ copy'[a] = app[a] /\ app[a] # None
        /\ UNCHANGED <<app, live>>
    BY <2>1 DEF Begin, cluster, OrphanInv, TypeInv, TypeOK, JobOK
  <2>3. OnlyJob(a)
    BY <2>1, <2>2, OnlyJobMoves DEF OnlyJob, OrphanInv
  <2>4. Bound(a)'
    BY <2>2, OnTheBook DEF Bound, Booked, CarriesMarks
  <2> QED
    BY <2>2, <2>3, <2>4, BoundOthers
\* Steps before apply.
<1>2. ASSUME NEW a \in Apps, Checkout(a) PROVE Goal
  <2>1. /\ pc[a] = "fetch" /\ pc'[a] = "render" /\ UNCHANGED <<app, live>>
        /\ copy'[a] = [copy[a] EXCEPT !.status.attemptedRevision = head]
    BY <1>2 DEF Checkout, cluster, OrphanInv, TypeInv, TypeOK, JobOK
  <2>2. copy[a] # None /\ copy'[a].uid = copy[a].uid
    BY <2>1, JobTypes DEF GitApplication
  <2>3. OnlyJob(a)
    BY <1>2, <2>1, OnlyJobMoves DEF OnlyJob, OrphanInv
  <2> QED
    BY <2>1, <2>2, <2>3, OnTheBook, BoundEnds
<1>3. ASSUME NEW a \in Apps, Render(a) PROVE Goal
  <2>1. pc[a] = "render" /\ UNCHANGED <<app, live>>
    BY <1>3 DEF Render, cluster
  <2>2. CASE Goto(a, "apply", Desired(a))
    BY <2>1, <2>2, BoundAdvance
  <2>3. ASSUME NEW status, FailNext(a, status) PROVE Goal
    <3>1. pc'[a] = "fail" /\ copy'[a] = copy[a]
      BY <2>3, <2>1 DEF FailNext, OrphanInv, TypeInv, TypeOK, JobOK
    <3>2. OnlyJob(a)
      BY <2>1, <2>3, OnlyJobMoves DEF OnlyJob, OrphanInv
    <3> QED
      BY <2>1, <3>1, <3>2, OnTheBook, BoundEnds
  <2> QED
    BY <1>3, <2>2, <2>3 DEF Render
\* Steps of apply: no object is contested.
<1>4. ASSUME NEW a \in Apps, NEW r \in todo[a], ApplyObject(a, r) PROVE Goal
  <2>1. /\ pc[a] = "apply" /\ UNCHANGED app /\ live' = Applied(a, r)
        /\ Goto(a, "apply", todo[a] \ {r})
    BY <1>4 DEF ApplyObject
  <2>2. r \in Desired(a) /\ \E l : Touched(a, r, l)
    BY <2>1, ApplyTouches
  <2> QED
    BY <2>1, <2>2, BoundAdvance
<1>5. ASSUME NEW a \in Apps, NEW r \in todo[a], ApplyConflict(a, r) PROVE FALSE
  <2>1. r.object \in Objects
    BY JobTypes DEF Refs
  <2> QED
    BY <1>5, <2>1 DEF ApplyConflict, Conflict, OrphanInv, Fresh
<1>6. ASSUME NEW a \in Apps, ApplyDone(a) PROVE Goal
  <2>1. pc[a] = "apply" /\ UNCHANGED <<app, live>>
    BY <1>6 DEF ApplyDone, cluster
  <2>2. PICK step, t : step \in {"prune", "success"} /\ Goto(a, step, t)
    BY <1>6 DEF ApplyDone
  <2> QED
    BY <2>1, <2>2, BoundAdvance
\* Steps of prune: nobody is faster at deleting.
<1>7. ASSUME NEW a \in Apps, NEW r \in todo[a], PassOver(a, r) PROVE Goal
  BY <1>7, BoundAdvance DEF PassOver, cluster
<1>8. ASSUME NEW a \in Apps, NEW r \in todo[a], Condemn(a, r) PROVE Goal
  <2>1. /\ pc[a] = "prune" /\ Goto(a, "delete", todo[a]) /\ UNCHANGED <<app, live>>
        /\ r \in NextToPrune(a) /\ CarriesMarks(copy[a].uid, r.object)
    BY <1>8 DEF Condemn, cluster
  <2>2. NextToPrune(a)' = NextToPrune(a) /\ copy'[a] = copy[a]
    BY <2>1 DEF NextToPrune, Goto, OrphanInv, TypeInv, TypeOK, JobOK
  <2>3. ASSUME NEW s \in NextToPrune(a)' PROVE CarriesMarks(copy[a].uid, s.object)'
    <3>1. s = r
      BY <2>1, <2>2, <2>3, NextToPruneUnique DEF OrphanInv
    <3> QED
      BY <2>1, <2>2, <3>1 DEF CarriesMarks
  <2> QED
    BY <2>1, <2>3, BoundAdvance
<1>9. ASSUME NEW a \in Apps, NEW r \in todo[a], DeleteObject(a, r) PROVE Goal
  <2>1. /\ pc[a] = "delete" /\ UNCHANGED app /\ live' = [live EXCEPT ![r.object] = None]
        /\ Goto(a, "prune", todo[a] \ {r})
    BY <1>9 DEF DeleteObject
  <2>2. Touched(a, r, None)
    BY <2>1 DEF Touched
  <2> QED
    BY <2>1, <2>2, BoundAdvance
<1>10. ASSUME NEW a \in Apps, NEW r \in todo[a], DeleteNotFound(a, r) PROVE FALSE
  BY <1>10 DEF DeleteNotFound, OrphanInv, Bound, CarriesMarks
<1>11. ASSUME NEW a \in Apps, PruneDone(a) PROVE Goal
  BY <1>11, BoundAdvance DEF PruneDone, cluster
\* Success: what was marked is recorded.
<1>12. ASSUME NEW a \in Apps, UpdateSuccess(a) PROVE Goal
  <2>1. /\ pc[a] = "success" /\ app[a] # None /\ PatchStatus(a, SuccessStatus(a))
        /\ Return({a}) /\ UNCHANGED live
    BY <1>12 DEF UpdateSuccess
  <2>2. pc'[a] = "idle" /\ copy'[a] = None
    BY <2>1 DEF Return
  <2>3. copy[a] # None /\ sha[a] \in Revisions /\ copy[a] \in GitApplication
    BY <2>1, JobTypes
  <2>4. SuccessStatus(a) \in Status
    BY <2>3, SuccessStatusType DEF OrphanInv, TypeInv
  <2>5. /\ app[a] \in GitApplication
        /\ app'[a] = [app[a] EXCEPT !.status = MergePatch(app[a].status, copy[a].status, SuccessStatus(a))]
    BY <2>1, <2>3, <2>4, PatchStatusType, JobTypes DEF OrphanInv, TypeInv
  <2>6. /\ app'[a].uid = app[a].uid
        /\ app'[a].status.inventory
             = Merged("inventory", app[a].status, copy[a].status, SuccessStatus(a))
    BY <2>5 DEF GitApplication, MergePatch
  <2>7. ASSUME NEW o \in Objects, CarriesMarks(app[a].uid, o)
        PROVE  o \in ObjectsOf(app'[a].status.inventory)
    <3>1. app[a].uid = copy[a].uid
      BY <2>1, <2>3, <2>7 DEF OrphanInv, Bound
    <3>2. app[a].status.inventory = copy[a].status.inventory
      BY <2>1, <3>1 DEF OrphanInv, PrunedInv, Pruned, Underway
    <3>3. app'[a].status.inventory = Desired(a)
      BY <2>6, <3>2 DEF Merged, SuccessStatus
    <3>4. copy[a].spec.prune
      BY <2>3 DEF OrphanInv, StaleInv, Stale, Undisturbed, AllPrune
    <3>5. todo[a] = {}
      BY <2>1 DEF OrphanInv, PrunedInv, Pruned
    <3>6. \A r \in copy[a].status.inventory \ Desired(a) : ~CarriesMarks(app[a].uid, r.object)
      BY <2>1, <3>1, <3>4, <3>5 DEF OrphanInv, PrunedInv, Pruned
    <3>7. o \in ObjectsOf(copy[a].status.inventory) \/ o \in ObjectsOf(Desired(a))
      BY <2>1, <2>7, <3>2 DEF OrphanInv, Bound, Booked
    <3> QED
      BY <2>7, <3>3, <3>6, <3>7 DEF ObjectsOf
  <2>8. OnlyJob(a)
    BY <2>1, OnlyJobMoves DEF OnlyJob, OrphanInv
  <2> QED
    BY <2>1, <2>2, <2>6, <2>7, <2>8, BoundEnds
<1>13. ASSUME NEW a \in Apps, UpdateSuccessNotFound(a) PROVE Goal
  <2>1. /\ pc[a] = "success" /\ app[a] = None /\ SuccessRejected(a) /\ UNCHANGED app
    BY <1>13 DEF UpdateSuccessNotFound
  <2>2. /\ pc'[a] = "fail" /\ UNCHANGED live
        /\ copy'[a] = [copy[a] EXCEPT !.status = SuccessStatus(a)]
    BY <2>1 DEF SuccessRejected, OrphanInv, TypeInv, TypeOK, JobOK
  <2>3. copy[a] # None /\ copy'[a].uid = copy[a].uid
    BY <2>1, <2>2, JobTypes DEF GitApplication
  <2>4. OnlyJob(a)
    BY <2>1, OnlyJobMoves DEF OnlyJob, OrphanInv
  <2> QED
    BY <2>1, <2>2, <2>3, <2>4, BoundEnds
\* A status that reports no success keeps the record.
<1>14. ASSUME NEW a \in Apps, UpdateSuspended(a) \/ Fail(a) PROVE Goal
  <2>1. /\ pc[a] \in {"suspend", "fail"} /\ Return({a}) /\ UNCHANGED live
        /\ \/ app' = app
           \/ app[a] # None /\ PatchStatus(a, SuspendedStatus(a))
           \/ app[a] # None /\ PatchStatus(a, FailedStatus(a))
    BY <1>14 DEF UpdateSuspended, Fail
  <2>2. pc'[a] = "idle" /\ copy'[a] = None
    BY <2>1 DEF Return
  <2>3. copy[a] # None /\ copy[a] \in GitApplication
    BY <2>1, JobTypes
  <2>4. /\ SuspendedStatus(a) \in Status /\ SuspendedStatus(a).inventory = copy[a].status.inventory
        /\ FailedStatus(a) \in Status /\ FailedStatus(a).inventory = copy[a].status.inventory
    BY <2>3, SuspendedStatusType, FailedStatusType
       DEF SuspendedStatus, FailedStatus, GitApplication, Status, OrphanInv, TypeInv
  <2>5. ASSUME NEW m \in Status, m.inventory = copy[a].status.inventory,
               app[a] # None, PatchStatus(a, m)
        PROVE  app'[a].uid = app[a].uid /\ app'[a].status.inventory = app[a].status.inventory
    <3>1. /\ app[a] \in GitApplication
          /\ app'[a] = [app[a] EXCEPT !.status = MergePatch(app[a].status, copy[a].status, m)]
      BY <2>3, <2>5, PatchStatusType, JobTypes DEF OrphanInv, TypeInv
    <3> QED
      BY <2>5, <3>1 DEF GitApplication, MergePatch, Merged
  <2>6. app'[a] # None => /\ app[a] # None /\ app'[a].uid = app[a].uid
                          /\ app'[a].status.inventory = app[a].status.inventory
    BY <2>1, <2>4, <2>5
  <2>7. OnlyJob(a)
    BY <2>1, OnlyJobMoves DEF OnlyJob, OrphanInv
  <2> QED
    BY <2>1, <2>2, <2>6, <2>7, OnTheBook, BoundEnds
\* Steps of the users.
<1>15. ASSUME NEW a \in Apps, UNCHANGED <<job, live>>, \A b \in Apps \ {a} : app'[b] = app[b],
              Bound(a)'
       PROVE  Goal
  <2>1. OnlyJob(a)
    BY <1>15 DEF OnlyJob, SameJob, job
  <2> QED
    BY <1>15, <2>1, BoundOthers
<1>16. ASSUME NEW a \in Apps, UNCHANGED <<job, live>>, \A b \in Apps \ {a} : app'[b] = app[b],
              app'[a] # None => /\ app[a] # None /\ app'[a].uid = app[a].uid
                                /\ app'[a].status.inventory = app[a].status.inventory
       PROVE  Goal
  <2>1. UNCHANGED <<pc, copy, sha, todo>> /\ Desired(a)' = Desired(a) /\ NextToPrune(a)' = NextToPrune(a)
    BY <1>16 DEF job, Desired, NextToPrune
  <2>2. Bound(a)'
    BY <1>16, <2>1 DEF OrphanInv, Bound, Booked, CarriesMarks
  <2> QED
    BY <1>15, <1>16, <2>2
<1>17. ASSUME NEW a \in Apps, EditSpec(a) \/ MarkDeleted(a) \/ Remove(a) PROVE Goal
  <2>1. app \in [Apps -> GitApplication \cup {None}]
    BY DEF OrphanInv, TypeInv, TypeOK, ClusterOK
  <2>2. UNCHANGED <<job, live>> /\ \A b \in Apps \ {a} : app'[b] = app[b]
    BY <1>17, <2>1 DEF EditSpec, MarkDeleted, Remove
  <2>3. ASSUME Remove(a) PROVE app'[a] = None
    BY <2>1, <2>3 DEF Remove
  <2>4. ASSUME EditSpec(a)
        PROVE  /\ app[a] # None /\ app'[a].uid = app[a].uid
               /\ app'[a].status.inventory = app[a].status.inventory
    BY <2>1, <2>4 DEF EditSpec, GitApplication
  <2>5. ASSUME MarkDeleted(a)
        PROVE  /\ app[a] # None /\ app'[a].uid = app[a].uid
               /\ app'[a].status.inventory = app[a].status.inventory
    BY <2>1, <2>5 DEF MarkDeleted, GitApplication
  <2> QED
    BY <1>16, <1>17, <2>2, <2>3, <2>4, <2>5
<1>18. ASSUME NEW a \in Apps, Create(a) PROVE Goal
  <2>1. /\ UNCHANGED <<job, live>> /\ \A b \in Apps \ {a} : app'[b] = app[b]
        /\ app'[a].uid = <<a, incarnation[a] + 1>>
        /\ incarnation[a] \in Nat /\ incarnation[a] + 1 \in 1..MaxIncarnations
    <3>1. incarnation[a] \in 0..MaxIncarnations /\ app \in [Apps -> GitApplication \cup {None}]
      BY DEF OrphanInv, TypeInv, TypeOK, ClusterOK
    <3>2. incarnation[a] < MaxIncarnations /\ MaxIncarnations \in Nat
      BY <1>18, BoundAssumption DEF Create
    <3>3. incarnation[a] \in Nat /\ incarnation[a] + 1 \in 1..MaxIncarnations
      BY <3>1, <3>2
    <3> QED
      BY <1>18, <3>1, <3>3 DEF Create
  <2>2. \A o \in Objects : ~CarriesMarks(<<a, incarnation[a] + 1>>, o)
    BY <2>1 DEF OrphanInv, Fresh, CarriesMarks
  <2>3. \A o \in Objects : ~CarriesMarks(app[a].uid, o)'
    BY <2>1, <2>2 DEF CarriesMarks
  <2>4. pc'[a] = "delete" => \A r \in NextToPrune(a)' : CarriesMarks(copy[a].uid, r.object)'
    <3>1. UNCHANGED <<pc, copy, todo, live>> /\ NextToPrune(a)' = NextToPrune(a)
      BY <2>1 DEF job, NextToPrune
    <3> QED
      BY <3>1 DEF OrphanInv, Bound, CarriesMarks
  <2>5. Bound(a)'
    BY <2>3, <2>4 DEF Bound, CarriesMarks
  <2> QED
    BY <1>15, <2>1, <2>5
<1>19. ASSUME UNCHANGED <<job, app, live>> PROVE Goal
  <2>1. \A a \in Apps : Desired(a)' = Desired(a) /\ NextToPrune(a)' = NextToPrune(a)
    BY <1>19 DEF job, Desired, NextToPrune
  <2> QED
    BY <1>19, <2>1 DEF job, OrphanInv, Bound, Booked, CarriesMarks
<1>20. ASSUME Push \/ \E a \in Apps : ReadNothing(a) PROVE Goal
  BY <1>19, <1>20 DEF Push, ReadNothing, vars, job
<1> QED
  BY NoFault, <1>1, <1>2, <1>3, <1>4, <1>5, <1>6, <1>7, <1>8, <1>9, <1>10, <1>11, <1>12, <1>13, <1>14,
     <1>17, <1>18, <1>20
     DEF Next, Advance, Users

LEMMA OrphanInit == Init => OrphanInv
BY BoundAssumption
   DEF Init, OrphanInv, TypeInv, TypeOK, ClusterOK, JobOK, SpentOK, LocalsOK, UidsOK, Steps,
       PrunedInv, Pruned, Underway, StaleInv, Stale, Fresh, Bound

LEMMA OrphanStep ==
  ASSUME Undisturbed
  PROVE  Apart /\ OrphanInv /\ [Next]_vars => OrphanInv'
<1> SUFFICES ASSUME Apart, OrphanInv, [Next]_vars PROVE OrphanInv'
  OBVIOUS
<1>1. TypeInv' /\ PrunedInv' /\ StaleInv'
  BY TypeInvStep, PrunedStep, StaleStep DEF OrphanInv
<1>2. CASE Next
  BY <1>1, <1>2, FreshStep, BoundStep DEF OrphanInv
<1>3. CASE UNCHANGED vars
  <2>1. \A a \in Apps : Desired(a)' = Desired(a) /\ NextToPrune(a)' = NextToPrune(a)
    BY <1>3 DEF vars, Desired, NextToPrune
  <2>2. Fresh' /\ \A a \in Apps : Bound(a)'
    BY <1>3, <2>1 DEF vars, OrphanInv, Fresh, Bound, Booked, CarriesMarks
  <2> QED
    BY <1>1, <2>2 DEF OrphanInv
<1> QED
  BY <1>2, <1>3

LEMMA OrphanInvImplies == OrphanInv => NoOrphan
BY DEF OrphanInv, Bound, Booked, NoOrphan, ObjectsOf

\* As long as no call fails, every object that carries the marks of a ready
\* application is in its inventory, so that pruning will find it: for any
\* number of workers and of applications, if no object is rendered by two
\* of them or in two API versions, while they are edited, suspended, deleted
\* in the middle of a reconcile and created again.
THEOREM NothingIsOrphaned ==
  ASSUME Undisturbed, Disjoint
  PROVE  Spec => []NoOrphan
<1>1. OrphanInv /\ [Next]_vars => OrphanInv'
  BY OrphanStep DEF Apart
<1> QED
  BY <1>1, OrphanInit, OrphanInvImplies, PTL DEF Spec

\* One worker may do so for applications that take objects from each other:
\* what one of them takes is on its own record before the next one starts.
THEOREM OneWorkerOrphansNone ==
  ASSUME Undisturbed, ConcurrentReconciles = 1, IsFiniteSet(Apps)
  PROVE  Spec => []NoOrphan
<1> DEFINE Inv == OwnInv /\ OrphanInv
<1>1. Init => Inv
  BY OrphanInit DEF Init, OwnInv, OneAtATime, Own
<1>2. Inv /\ [Next]_vars => Inv'
  <2>1. OrphanInv => TypeInv
    BY DEF OrphanInv
  <2>2. TypeInv /\ OwnInv /\ [Next]_vars => OwnInv'
    BY OwnStep DEF Undisturbed
  <2>3. OwnInv => Apart
    BY DEF OwnInv, Apart
  <2> QED
    BY <2>1, <2>2, <2>3, OrphanStep
<1>3. Inv => NoOrphan
  BY OrphanInvImplies
<1> HIDE DEF Inv
<1> QED
  BY <1>1, <1>2, <1>3, PTL DEF Spec
=============================================================================
