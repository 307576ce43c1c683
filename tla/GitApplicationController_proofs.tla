------------------- MODULE GitApplicationController_proofs -------------------
(***************************************************************************)
(* Theorems about GitApplicationController, for every set of applications, *)
(* objects and revisions, every manifest and every bound.                  *)
(***************************************************************************)
EXTENDS GitApplicationController, FiniteSetTheorems, TLAPS

(***************************************************************************)
(* The statuses a reconcile writes are statuses.                           *)
(***************************************************************************)
LEMMA MergePatchType ==
  ASSUME NEW server \in Status, NEW base \in Status, NEW modified \in Status
  PROVE  MergePatch(server, base, modified) \in Status
BY DEF MergePatch, Merged, Status

\* A reconcile has a copy of its application while it runs, and a commit
\* once it has checked one out.
LocalsOK ==
  \A a \in Apps :
    /\ pc[a] = "idle" <=> copy[a] = None
    /\ pc[a] \in {"render", "apply", "prune", "delete", "success"} => sha[a] \in Revisions

\* A UID names its application and an incarnation that was created.
UidOf(a, u) == u[1] = a /\ u[2] \in 1..incarnation[a]

UidsOK ==
  \A a \in Apps : /\ copy[a] # None => UidOf(a, copy[a].uid)
                  /\ app[a] # None => UidOf(a, app[a].uid)

TypeInv == TypeOK /\ LocalsOK /\ UidsOK

LEMMA DesiredType ==
  ASSUME TypeOK, NEW a \in Apps, copy[a] # None, sha[a] \in Revisions
  PROVE  Desired(a) \in SUBSET Refs
<1>1. copy[a].spec.path \in Paths
  BY DEF TypeOK, JobOK, GitApplication, SpecRecords
<1> QED
  BY <1>1, ManifestAssumption DEF Desired

LEMMA SuccessStatusType ==
  ASSUME TypeOK, NEW a \in Apps, copy[a] # None, sha[a] \in Revisions
  PROVE  SuccessStatus(a) \in Status
<1>1. Desired(a) \in SUBSET Refs
  BY DesiredType
<1>2. copy[a].generation \in 0..MaxGeneration
  BY BoundAssumption DEF TypeOK, ClusterOK, JobOK, GitApplication
<1> QED
  BY <1>1, <1>2 DEF SuccessStatus, Status, Conditions, ConditionStatus

LEMMA FailedStatusType ==
  ASSUME TypeOK, NEW a \in Apps, copy[a] # None
  PROVE  FailedStatus(a) \in Status
<1>1. copy[a].generation \in 0..MaxGeneration /\ copy[a].status \in Status
  BY BoundAssumption DEF TypeOK, ClusterOK, JobOK, GitApplication
<1> QED
  BY <1>1 DEF FailedStatus, TypeOK, JobOK, Status, Conditions, ConditionStatus

LEMMA SuspendedStatusType ==
  ASSUME TypeOK, NEW a \in Apps, copy[a] # None
  PROVE  SuspendedStatus(a) \in Status
<1>1. copy[a].status \in Status
  BY DEF TypeOK, ClusterOK, JobOK, GitApplication
<1> QED
  BY <1>1 DEF SuspendedStatus, Status, Conditions, ConditionStatus

\* A status patch changes nothing but the status of its application.
LEMMA PatchStatusType ==
  ASSUME TypeOK, NEW a \in Apps, app[a] # None, copy[a] # None,
         NEW m \in Status, PatchStatus(a, m)
  PROVE  /\ app' \in [Apps -> GitApplication \cup {None}]
         /\ app'[a] \in GitApplication
         /\ app'[a] = [app[a] EXCEPT !.status = MergePatch(app[a].status, copy[a].status, m)]
         /\ \A b \in Apps \ {a} : app'[b] = app[b]
<1>1. app[a] \in GitApplication /\ copy[a].status \in Status
  BY DEF TypeOK, ClusterOK, JobOK, GitApplication
<1>2. MergePatch(app[a].status, copy[a].status, m) \in Status
  BY <1>1, MergePatchType DEF GitApplication
<1> QED
  BY <1>1, <1>2 DEF PatchStatus, TypeOK, ClusterOK, GitApplication

(***************************************************************************)
(* The moves of the control keep the types of the local variables.         *)
(***************************************************************************)
LEMMA GotoType ==
  ASSUME JobOK, LocalsOK, NEW a \in Apps, NEW step \in Steps \ {"idle"},
         NEW t \in SUBSET Refs, pc[a] # "idle", Goto(a, step, t),
         step \in {"render", "apply", "prune", "delete", "success"} => sha[a] \in Revisions
  PROVE  JobOK' /\ LocalsOK'
BY DEF JobOK, LocalsOK, Goto, Steps

LEMMA FailNextType ==
  ASSUME JobOK, LocalsOK, NEW a \in Apps, NEW status \in {"True", "False"},
         pc[a] # "idle", FailNext(a, status)
  PROVE  JobOK' /\ LocalsOK'
BY DEF JobOK, LocalsOK, FailNext, Steps

LEMMA ReturnType ==
  ASSUME JobOK, LocalsOK, NEW As \in SUBSET Apps, Return(As)
  PROVE  /\ JobOK' /\ LocalsOK'
         /\ \A b \in Apps : copy'[b] = None \/ copy'[b] = copy[b]
BY DEF JobOK, LocalsOK, Return, Steps

LEMMA CountType ==
  ASSUME SpentOK, CountPush \/ CountFault \/ CountMeddle
  PROVE  SpentOK'
BY BoundAssumption DEF SpentOK, CountPush, CountFault, CountMeddle

LEMMA AppliedType ==
  ASSUME TypeOK, NEW a \in Apps, NEW r \in todo[a], copy[a] # None, sha[a] \in Revisions
  PROVE  Applied(a, r) \in [Objects -> LiveObject \cup {None}]
<1>1. r.object \in Objects
  BY DEF TypeOK, JobOK, Refs
<1>2. copy[a].uid \in Uids
  BY DEF TypeOK, JobOK, GitApplication
<1> QED
  BY <1>1, <1>2 DEF Applied, TypeOK, ClusterOK, LiveObject

LEMMA TypeInvStep == TypeInv /\ [Next]_vars => TypeInv'
<1> SUFFICES ASSUME TypeInv, [Next]_vars PROVE TypeInv'
  OBVIOUS
<1> USE DEF TypeInv, TypeOK
<1>1. ASSUME NEW a \in Apps, ReadApp(a) PROVE TypeInv'
  <2>1. \E step \in {"suspend", "fetch", "fail"}, status \in {"True", "False"} : Begin(a, step, status)
    BY <1>1 DEF ReadApp, BeginSuspended, BeginInvalid, BeginValid
  <2>2. ClusterOK' /\ SpentOK'
    BY <2>1 DEF Begin, cluster, ClusterOK, SpentOK
  <2>3. JobOK' /\ LocalsOK'
    BY <2>1 DEF Begin, JobOK, LocalsOK, ClusterOK, Steps
  <2> QED
    BY <2>1, <2>2, <2>3 DEF Begin, cluster, UidsOK, UidOf, JobOK
<1>2. ASSUME NEW a \in Apps, ReadNothing(a) PROVE TypeInv'
  BY <1>2 DEF ReadNothing, vars, ClusterOK, JobOK, SpentOK, LocalsOK, UidsOK, UidOf
<1>3. ASSUME NEW a \in Apps, NEW m \in Status, copy[a] # None,
             IF app[a] = None THEN UNCHANGED app ELSE PatchStatus(a, m),
             UNCHANGED <<incarnation, head, live>>
      PROVE  /\ ClusterOK'
             /\ \A b \in Apps : /\ app'[b] # None <=> app[b] # None
                                /\ app[b] # None => app'[b].uid = app[b].uid
  <2>1. CASE app[a] = None
    BY <1>3, <2>1 DEF ClusterOK
  <2>2. CASE app[a] # None
    <3>1. /\ app' \in [Apps -> GitApplication \cup {None}]
          /\ app'[a] \in GitApplication
          /\ app'[a] = [app[a] EXCEPT !.status = MergePatch(app[a].status, copy[a].status, m)]
          /\ \A b \in Apps \ {a} : app'[b] = app[b]
      BY <1>3, <2>2, PatchStatusType
    <3>2. app'[a].uid = app[a].uid /\ app'[a] # None
      BY <3>1, <2>2, NoneAssumption DEF GitApplication
    <3> QED
      BY <1>3, <3>1, <3>2 DEF ClusterOK
  <2> QED
    BY <2>1, <2>2
<1>4. ASSUME NEW a \in Apps, UpdateSuspended(a) \/ Fail(a) \/ UpdateSuccess(a) PROVE TypeInv'
  <2>1. copy[a] # None
    BY <1>4 DEF UpdateSuspended, Fail, UpdateSuccess, LocalsOK
  <2>2. \E m \in Status : IF app[a] = None THEN UNCHANGED app ELSE PatchStatus(a, m)
    BY <1>4, <2>1, SuspendedStatusType, FailedStatusType, SuccessStatusType
       DEF UpdateSuspended, Fail, UpdateSuccess, LocalsOK
  <2>3. /\ Return({a}) /\ UNCHANGED <<incarnation, head, live, spent>>
    BY <1>4 DEF UpdateSuspended, Fail, UpdateSuccess
  <2>4. /\ JobOK' /\ LocalsOK'
        /\ \A b \in Apps : copy'[b] = None \/ copy'[b] = copy[b]
    BY <2>3, ReturnType
  <2>5. /\ ClusterOK'
        /\ \A b \in Apps : /\ app'[b] # None <=> app[b] # None
                           /\ app[b] # None => app'[b].uid = app[b].uid
    BY <2>1, <2>2, <2>3, <1>3
  <2> QED
    BY <2>3, <2>4, <2>5 DEF SpentOK, UidsOK, UidOf
<1>5. ASSUME NEW a \in Apps, Checkout(a) PROVE TypeInv'
  <2>1. copy[a] \in GitApplication /\ copy[a] # None /\ head \in Revisions
    BY <1>5 DEF Checkout, ClusterOK, JobOK, LocalsOK
  <2>2. copy' = [copy EXCEPT ![a] = [copy[a] EXCEPT !.status = [copy[a].status EXCEPT !.attemptedRevision = head]]]
    BY <1>5 DEF Checkout
  <2>3. [copy[a].status EXCEPT !.attemptedRevision = head] \in Status
    BY <2>1 DEF GitApplication, Status
  <2>4. copy'[a] \in GitApplication /\ copy'[a].uid = copy[a].uid /\ copy'[a] # None
    BY <2>1, <2>2, <2>3, NoneAssumption DEF GitApplication, JobOK
  <2>5. JobOK' /\ LocalsOK'
    BY <1>5, <2>1, <2>2, <2>4 DEF Checkout, JobOK, LocalsOK, Steps
  <2>6. UNCHANGED <<cluster, spent>>
    BY <1>5 DEF Checkout
  <2>7. \A b \in Apps \ {a} : copy'[b] = copy[b]
    BY <2>2 DEF JobOK
  <2> QED
    BY <2>1, <2>4, <2>5, <2>6, <2>7 DEF cluster, ClusterOK, SpentOK, UidsOK, UidOf
<1>6. ASSUME NEW a \in Apps, Render(a) PROVE TypeInv'
  <2>1. pc[a] = "render" /\ UNCHANGED <<cluster, spent>>
    BY <1>6 DEF Render
  <2>2. Desired(a) \in SUBSET Refs /\ sha[a] \in Revisions
    BY <2>1, DesiredType DEF LocalsOK
  <2>3. \/ \E status \in {"True", "False"} : FailNext(a, status)
        \/ Goto(a, "apply", Desired(a))
    BY <1>6 DEF Render
  <2>4. JobOK' /\ LocalsOK' /\ UNCHANGED copy
    BY <2>1, <2>2, <2>3, GotoType, FailNextType DEF Goto, FailNext, Steps
  <2> QED
    BY <2>1, <2>4 DEF cluster, ClusterOK, SpentOK, UidsOK, UidOf
\* The calls that end in fail, or go on within apply and prune.
<1>7. ASSUME NEW a \in Apps, pc[a] \notin {"idle"}, SpentOK',
             \E status \in {"True", "False"} : FailNext(a, status),
             live' \in [Objects -> LiveObject \cup {None}],
             UNCHANGED <<app, incarnation, head>>
      PROVE  TypeInv'
  <2>1. JobOK' /\ LocalsOK' /\ UNCHANGED copy
    BY <1>7, FailNextType DEF FailNext
  <2> QED
    BY <1>7, <2>1 DEF ClusterOK, UidsOK, UidOf
<1>8. ASSUME NEW a \in Apps, pc[a] \in {"apply", "prune", "delete"},
             NEW step \in {"apply", "prune", "delete", "success"},
             NEW t \in SUBSET Refs, Goto(a, step, t),
             live' \in [Objects -> LiveObject \cup {None}],
             UNCHANGED <<app, incarnation, head, spent>>
      PROVE  TypeInv'
  <2>1. sha[a] \in Revisions
    BY <1>8 DEF LocalsOK
  <2>2. JobOK' /\ LocalsOK' /\ UNCHANGED copy
    BY <1>8, <2>1, GotoType DEF Goto, Steps
  <2> QED
    BY <1>8, <2>2 DEF ClusterOK, SpentOK, UidsOK, UidOf
<1>9. ASSUME NEW a \in Apps,
             CheckoutFails(a) \/ RenderFails(a) \/ PruneReadFails(a)
      PROVE  TypeInv'
  <2>1. /\ pc[a] # "idle" /\ UNCHANGED cluster /\ CountFault
        /\ \E status \in {"True", "False"} : FailNext(a, status)
    BY <1>9 DEF CheckoutFails, RenderFails, PruneReadFails
  <2> QED
    BY <2>1, <1>7, CountType DEF cluster, ClusterOK
<1>10. ASSUME NEW a \in Apps, NEW r \in todo[a], ApplyObject(a, r) PROVE TypeInv'
  <2>1. Applied(a, r) \in [Objects -> LiveObject \cup {None}]
    BY <1>10, AppliedType DEF ApplyObject, LocalsOK
  <2>2. todo[a] \ {r} \in SUBSET Refs
    BY DEF JobOK
  <2> QED
    BY <1>10, <2>1, <2>2, <1>8 DEF ApplyObject
<1>11. ASSUME NEW a \in Apps, NEW r \in todo[a], ApplyFails(a, r) PROVE TypeInv'
  <2>1. Applied(a, r) \in [Objects -> LiveObject \cup {None}]
    BY <1>11, AppliedType DEF ApplyFails, LocalsOK
  <2> QED
    BY <1>11, <2>1, <1>7, CountType DEF ApplyFails, ClusterOK
<1>12. ASSUME NEW a \in Apps, NEW r \in todo[a],
              ApplyConflict(a, r) \/ DeleteNotFound(a, r)
       PROVE  TypeInv'
  BY <1>12, <1>7 DEF ApplyConflict, DeleteNotFound, cluster, ClusterOK, SpentOK
<1>13. ASSUME NEW a \in Apps, ApplyDone(a) \/ PruneDone(a) PROVE TypeInv'
  <2>1. Desired(a) \in SUBSET Refs /\ copy[a].status.inventory \in SUBSET Refs
    <3>1. copy[a] # None /\ sha[a] \in Revisions
      BY <1>13 DEF ApplyDone, PruneDone, LocalsOK
    <3> QED
      BY <3>1, DesiredType DEF JobOK, GitApplication, Status
  <2>2. Diff(copy[a].status.inventory, Desired(a)) \in SUBSET Refs
    BY <2>1 DEF Diff
  <2> QED
    BY <1>13, <2>2, <1>8 DEF ApplyDone, PruneDone, cluster, ClusterOK
<1>14. ASSUME NEW a \in Apps, NEW r \in todo[a], PassOver(a, r) \/ Condemn(a, r) PROVE TypeInv'
  <2>1. todo[a] \ {r} \in SUBSET Refs /\ todo[a] \in SUBSET Refs
    BY DEF JobOK
  <2> QED
    BY <1>14, <2>1, <1>8 DEF PassOver, Condemn, cluster, ClusterOK
<1>15. ASSUME NEW a \in Apps, NEW r \in todo[a], DeleteObject(a, r) \/ DeleteFails(a, r)
       PROVE  TypeInv'
  <2>1. todo[a] \ {r} \in SUBSET Refs
    BY DEF JobOK
  <2>2. [live EXCEPT ![r.object] = None] \in [Objects -> LiveObject \cup {None}]
    BY DEF ClusterOK
  <2>3. CASE DeleteObject(a, r)
    BY <2>1, <2>2, <2>3, <1>8 DEF DeleteObject
  <2>4. CASE DeleteFails(a, r)
    BY <2>2, <2>4, <1>7, CountType DEF DeleteFails, ClusterOK
  <2> QED
    BY <1>15, <2>3, <2>4
<1>16. ASSUME NEW a \in Apps, UpdateSuccessNotFound(a) \/ UpdateSuccessFails(a) PROVE TypeInv'
  <2>1. /\ pc[a] = "success" /\ SuccessRejected(a)
        /\ IF app[a] = None THEN UNCHANGED app
                            ELSE UNCHANGED app \/ PatchStatus(a, SuccessStatus(a))
        /\ UNCHANGED spent \/ CountFault
    BY <1>16 DEF UpdateSuccessNotFound, UpdateSuccessFails
  <2>2. copy[a] # None /\ copy[a] \in GitApplication /\ sha[a] \in Revisions
    BY <2>1 DEF LocalsOK, JobOK
  <2>3. SuccessStatus(a) \in Status
    BY <2>2, SuccessStatusType
  <2>4. /\ ClusterOK'
        /\ \A b \in Apps : /\ app'[b] # None <=> app[b] # None
                           /\ app[b] # None => app'[b].uid = app[b].uid
    <3>1. CASE UNCHANGED app
      BY <2>1, <3>1 DEF SuccessRejected, ClusterOK
    <3>2. CASE app[a] # None /\ PatchStatus(a, SuccessStatus(a))
      BY <2>1, <2>2, <2>3, <3>2, <1>3 DEF SuccessRejected
    <3> QED
      BY <2>1, <3>1, <3>2
  <2>5. copy' = [copy EXCEPT ![a] = [copy[a] EXCEPT !.status = SuccessStatus(a)]]
    BY <2>1 DEF SuccessRejected
  <2>6. copy'[a] \in GitApplication /\ copy'[a].uid = copy[a].uid /\ copy'[a] # None
    BY <2>2, <2>3, <2>5, NoneAssumption DEF GitApplication, JobOK
  <2>7. JobOK' /\ LocalsOK'
    BY <2>1, <2>2, <2>5, <2>6 DEF SuccessRejected, JobOK, LocalsOK, Steps
  <2>8. SpentOK'
    BY <2>1, CountType DEF SpentOK
  <2>9. incarnation' = incarnation /\ \A b \in Apps \ {a} : copy'[b] = copy[b]
    BY <2>1, <2>5 DEF SuccessRejected, JobOK
  <2> QED
    BY <2>2, <2>4, <2>6, <2>7, <2>8, <2>9 DEF UidsOK, UidOf
<1>17. ASSUME NEW As \in SUBSET Apps, Return(As), CountFault, UNCHANGED cluster PROVE TypeInv'
  <2>1. /\ JobOK' /\ LocalsOK'
        /\ \A b \in Apps : copy'[b] = None \/ copy'[b] = copy[b]
    BY <1>17, ReturnType
  <2> QED
    BY <1>17, <2>1, CountType DEF cluster, ClusterOK, UidsOK, UidOf
<1>18. ASSUME NEW a \in Apps, StatusLost(a) PROVE TypeInv'
  BY <1>18, <1>17 DEF StatusLost
<1>19. ASSUME Crash PROVE TypeInv'
  BY <1>19, <1>17 DEF Crash
<1>20. ASSUME NEW a \in Apps, Create(a) PROVE TypeInv'
  <2>1. PICK s \in Specs[a] :
          app' = [app EXCEPT ![a] =
                    [uid |-> <<a, incarnation[a] + 1>>, deleting |-> FALSE,
                     generation |-> 1, spec |-> s, status |-> EmptyStatus]]
    BY <1>20 DEF Create
  <2>2. /\ incarnation[a] + 1 \in 1..MaxIncarnations
        /\ incarnation' = [incarnation EXCEPT ![a] = incarnation[a] + 1]
        /\ incarnation' \in [Apps -> 0..MaxIncarnations]
    BY <1>20, BoundAssumption DEF Create, ClusterOK
  <2>3. s \in SpecRecords
    BY ManifestAssumption
  <2>4. EmptyStatus \in Status
    BY BoundAssumption DEF EmptyStatus, Status, Conditions, ConditionStatus
  <2>5. 1 \in 1..MaxGeneration
    BY <1>20, BoundAssumption DEF Create
  <2>6. [uid |-> <<a, incarnation[a] + 1>>, deleting |-> FALSE,
         generation |-> 1, spec |-> s, status |-> EmptyStatus] \in GitApplication
    BY <2>2, <2>3, <2>4, <2>5 DEF GitApplication, Uids
  <2>7. /\ app' \in [Apps -> GitApplication \cup {None}]
        /\ app'[a].uid = <<a, incarnation[a] + 1>>
        /\ \A b \in Apps \ {a} : app'[b] = app[b]
    BY <2>1, <2>6 DEF ClusterOK
  <2>8. UNCHANGED <<head, live, pc, copy, sha, todo, stalled, spent>>
    BY <1>20 DEF Create, job
  <2>9. UidsOK'
    BY <2>2, <2>7, <2>8 DEF UidsOK, UidOf, ClusterOK
  <2> QED
    BY <2>2, <2>7, <2>8, <2>9 DEF ClusterOK, JobOK, LocalsOK, SpentOK
<1>21. ASSUME NEW a \in Apps, EditSpec(a) \/ MarkDeleted(a) \/ Remove(a) PROVE TypeInv'
  <2>1. UNCHANGED <<incarnation, head, live, pc, copy, sha, todo, stalled, spent>>
    BY <1>21 DEF EditSpec, MarkDeleted, Remove, job
  <2>2. /\ app' \in [Apps -> GitApplication \cup {None}]
        /\ \A b \in Apps : app'[b] # None => app[b] # None /\ app'[b].uid = app[b].uid
    <3>1. CASE EditSpec(a)
      <4>1. PICK s \in Specs[a] :
              app' = [app EXCEPT ![a] = [app[a] EXCEPT !.spec = s, !.generation = @ + 1]]
        BY <3>1 DEF EditSpec
      <4>2. app[a] # None /\ app[a] \in GitApplication /\ s \in SpecRecords
        BY <3>1, ManifestAssumption DEF EditSpec, ClusterOK
      <4>3. app[a].generation + 1 \in 1..MaxGeneration
        BY <3>1, <4>2, BoundAssumption DEF EditSpec, GitApplication
      <4>4. /\ [app[a] EXCEPT !.spec = s, !.generation = @ + 1] \in GitApplication
            /\ [app[a] EXCEPT !.spec = s, !.generation = @ + 1].uid = app[a].uid
        BY <4>2, <4>3 DEF GitApplication
      <4> QED
        BY <4>1, <4>2, <4>4 DEF ClusterOK
    <3>2. CASE MarkDeleted(a)
      <4>1. app' = [app EXCEPT ![a] = [app[a] EXCEPT !.deleting = TRUE]]
        BY <3>2 DEF MarkDeleted
      <4>2. app[a] # None /\ app[a] \in GitApplication
        BY <3>2 DEF MarkDeleted, ClusterOK
      <4>3. /\ [app[a] EXCEPT !.deleting = TRUE] \in GitApplication
            /\ [app[a] EXCEPT !.deleting = TRUE].uid = app[a].uid
        BY <4>2 DEF GitApplication
      <4> QED
        BY <4>1, <4>2, <4>3 DEF ClusterOK
    <3>3. CASE Remove(a)
      BY <3>3 DEF Remove, ClusterOK
    <3> QED
      BY <1>21, <3>1, <3>2, <3>3
  <2> QED
    BY <2>1, <2>2 DEF ClusterOK, JobOK, LocalsOK, SpentOK, UidsOK, UidOf
<1>22. ASSUME Push PROVE TypeInv'
  BY <1>22, CountType DEF Push, job, ClusterOK, JobOK, LocalsOK, UidsOK, UidOf
<1>23. ASSUME NEW o \in Objects, Meddle(o) PROVE TypeInv'
  <2>1. PICK l \in MeddledWith(o) : live' = [live EXCEPT ![o] = l]
    BY <1>23 DEF Meddle
  <2>2. l \in LiveObject \cup {None}
    <3>1. CASE live[o] = None
      BY <2>1, <3>1 DEF MeddledWith, LiveObject
    <3>2. CASE live[o] # None
      <4>1. live[o] \in LiveObject
        BY <3>2 DEF ClusterOK
      <4>2. /\ [live[o] EXCEPT !.managed = FALSE] \in LiveObject
            /\ [live[o] EXCEPT !.contested = TRUE] \in LiveObject
        BY <4>1 DEF LiveObject
      <4> QED
        BY <2>1, <3>2, <4>2 DEF MeddledWith
    <3> QED
      BY <3>1, <3>2
  <2>3. UNCHANGED <<app, incarnation, head, pc, copy, sha, todo, stalled>>
    BY <1>23 DEF Meddle, job
  <2>4. SpentOK'
    BY <1>23, CountType DEF Meddle
  <2> QED
    BY <2>1, <2>2, <2>3, <2>4 DEF ClusterOK, JobOK, LocalsOK, UidsOK, UidOf
<1>24. CASE UNCHANGED vars
  BY <1>24 DEF vars, ClusterOK, JobOK, SpentOK, LocalsOK, UidsOK, UidOf
<1> QED
  BY <1>1, <1>2, <1>4, <1>5, <1>6, <1>9, <1>10, <1>11, <1>12, <1>13, <1>14, <1>15, <1>16,
     <1>18, <1>19, <1>20, <1>21, <1>22, <1>23, <1>24
     DEF Next, Advance, CallFails, Users

\* Type correctness: the reconcile loop, its users and its failures never
\* leave the types, for any number of applications and any bounds.
THEOREM TypeCorrect == Spec => []TypeOK
<1>1. Init => TypeInv
  BY BoundAssumption
     DEF Init, TypeInv, TypeOK, ClusterOK, JobOK, SpentOK, LocalsOK, UidsOK, Steps
<1>2. TypeInv => TypeOK
  BY DEF TypeInv
<1> QED
  BY <1>1, <1>2, TypeInvStep, PTL DEF Spec

(***************************************************************************)
(* NothingForgotten.  The inventory a reconcile prunes from is the one on  *)
(* the server, unless the application was created anew, and while it       *)
(* prunes, every stale reference is still to come or has lost its marks.   *)
(***************************************************************************)
Underway == {"fetch", "render", "apply", "prune", "delete", "success"}

Pruned(a) ==
  /\ pc[a] \in {"prune", "delete"} => copy[a].spec.prune
  /\ pc[a] = "success" => todo[a] = {}
  /\ pc[a] \in Underway /\ app[a] # None =>
       IF app[a].uid = copy[a].uid
       THEN app[a].status.inventory = copy[a].status.inventory
       ELSE app[a].status.inventory = {}
  /\ pc[a] \in {"prune", "delete", "success"} /\ copy[a].spec.prune =>
       \A r \in copy[a].status.inventory \ Desired(a) :
         r \in todo[a] \/ ~CarriesMarks(copy[a].uid, r.object)

PrunedInv == \A a \in Apps : Pruned(a)

\* Nobody but a reconcile of the application gives an object its marks.
SameJob(a) == UNCHANGED <<pc[a], copy[a], sha[a], todo[a]>>

NoNewMarks(u) ==
  \A o \in Objects :
    live'[o] # None /\ live'[o].uid = u /\ live'[o].managed => CarriesMarks(u, o)

SameInventory(a) ==
  app'[a] # None => /\ app[a] # None
                    /\ app'[a].uid = app[a].uid
                    /\ app'[a].status.inventory = app[a].status.inventory

LEMMA PrunedFrame ==
  ASSUME TypeInv, NEW a \in Apps, Pruned(a), SameJob(a), SameInventory(a),
         copy[a] # None => NoNewMarks(copy[a].uid)
  PROVE  Pruned(a)'
<1>1. CASE copy[a] = None
  <2>1. pc[a] = "idle"
    BY <1>1 DEF TypeInv, LocalsOK
  <2> QED
    BY <2>1 DEF SameJob, Pruned, Underway
<1>2. CASE copy[a] # None
  <2>1. copy[a].status.inventory \in SUBSET Refs
    BY <1>2 DEF TypeInv, TypeOK, JobOK, GitApplication, Status
  <2>2. Desired(a)' = Desired(a)
    BY DEF SameJob, Desired
  <2>3. \A r \in Refs : CarriesMarks(copy[a].uid, r.object)' => CarriesMarks(copy[a].uid, r.object)
    BY <1>2 DEF NoNewMarks, Refs, SameJob, CarriesMarks
  <2>4. copy'[a] = copy[a] /\ pc'[a] = pc[a] /\ todo'[a] = todo[a]
    BY DEF SameJob
  <2>5. (\A r \in copy[a].status.inventory \ Desired(a) :
           r \in todo[a] \/ ~CarriesMarks(copy[a].uid, r.object))
        => (\A r \in copy[a].status.inventory \ Desired(a) :
              r \in todo[a] \/ ~CarriesMarks(copy[a].uid, r.object))'
    BY <2>1, <2>2, <2>3, <2>4
  <2> QED
    BY <2>4, <2>5 DEF SameInventory, Pruned, Underway
<1> QED
  BY <1>1, <1>2

\* What the steps of one reconcile leave alone.
OnlyJob(a) == \A b \in Apps \ {a} : SameJob(b) /\ app'[b] = app[b]

LEMMA OnlyJobMoves ==
  ASSUME TypeInv, NEW a \in Apps, NEW b \in Apps \ {a}
  PROVE  /\ \A step, t : Goto(a, step, t) => SameJob(b)
         /\ \A status : FailNext(a, status) => SameJob(b)
         /\ Return({a}) => SameJob(b)
         /\ \A m : PatchStatus(a, m) => app'[b] = app[b]
         /\ \A step, status : Begin(a, step, status) => SameJob(b)
         /\ Checkout(a) => SameJob(b)
         /\ SuccessRejected(a) => SameJob(b)
BY DEF Goto, FailNext, Return, PatchStatus, Begin, Checkout, SuccessRejected, SameJob,
       TypeInv, TypeOK, JobOK, ClusterOK

LEMMA MarksOfOthers ==
  ASSUME TypeInv, NEW a \in Apps, copy[a] # None, NEW r \in todo[a], live' = Applied(a, r),
         NEW b \in Apps \ {a}, copy[b] # None
  PROVE  NoNewMarks(copy[b].uid)
<1>1. copy[a].uid # copy[b].uid
  BY DEF TypeInv, UidsOK, UidOf
<1>2. r.object \in Objects
  BY DEF TypeInv, TypeOK, JobOK, Refs
<1> QED
  BY <1>1, <1>2 DEF NoNewMarks, Applied, CarriesMarks, TypeInv, TypeOK, ClusterOK

LEMMA MarksRemoved ==
  ASSUME TypeInv, NEW o \in Objects, NEW u, live' = live \/ live' = [live EXCEPT ![o] = None]
  PROVE  NoNewMarks(u)
BY DEF NoNewMarks, CarriesMarks, TypeInv, TypeOK, ClusterOK

\* The other applications while a reconcile of a makes a step.
LEMMA PrunedOthers ==
  ASSUME TypeInv, PrunedInv, NEW a \in Apps, OnlyJob(a),
         \/ UNCHANGED live
         \/ \E o \in Objects : live' = [live EXCEPT ![o] = None]
         \/ copy[a] # None /\ \E r \in todo[a] : live' = Applied(a, r)
  PROVE  \A b \in Apps \ {a} : Pruned(b)'
<1> SUFFICES ASSUME NEW b \in Apps \ {a} PROVE Pruned(b)'
  OBVIOUS
<1>1. copy[b] # None => NoNewMarks(copy[b].uid)
  <2>1. ASSUME UNCHANGED live PROVE NoNewMarks(copy[b].uid)
    BY <2>1 DEF NoNewMarks, CarriesMarks
  <2> QED
    BY <2>1, MarksOfOthers, MarksRemoved
<1>2. SameJob(b) /\ SameInventory(b)
  BY DEF OnlyJob, SameInventory
<1> QED
  BY <1>1, <1>2, PrunedFrame DEF PrunedInv

\* Steps after which the application has nothing to do with pruning.
LEMMA PrunedDone ==
  ASSUME NEW a \in Apps, pc'[a] \in {"idle", "suspend", "fail"}
  PROVE  Pruned(a)'
BY DEF Pruned, Underway

\* A reconcile in which the copy, the commit and the application stay.
LEMMA PrunedAdvance ==
  ASSUME TypeInv, PrunedInv, NEW a \in Apps, pc[a] \in Underway,
         NEW step \in Underway, NEW t \in SUBSET Refs, Goto(a, step, t), UNCHANGED app,
         step \in {"prune", "delete"} => copy[a].spec.prune,
         step = "success" => t = {},
         step \in {"prune", "delete", "success"} /\ copy[a].spec.prune =>
           \A r \in copy[a].status.inventory \ Desired(a) :
             r \in t \/ ~CarriesMarks(copy[a].uid, r.object)'
  PROVE  Pruned(a)'
<1>1. /\ pc'[a] = step /\ todo'[a] = t
      /\ UNCHANGED <<copy, sha>>
  BY DEF Goto, TypeInv, TypeOK, JobOK
<1>2. Desired(a)' = Desired(a)
  BY <1>1 DEF Desired
<1> QED
  BY <1>1, <1>2 DEF PrunedInv, Pruned

LEMMA PrunedStep == TypeInv /\ PrunedInv /\ [Next]_vars => PrunedInv'
<1> SUFFICES ASSUME TypeInv, PrunedInv, [Next]_vars PROVE PrunedInv'
  OBVIOUS
<1> USE DEF Underway
\* A step of the reconcile of a: first a itself, the others by PrunedOthers.
<1>1. ASSUME NEW a \in Apps, ReadApp(a) PROVE PrunedInv'
  <2>1. PICK step \in {"suspend", "fetch", "fail"}, status \in {"True", "False"} : Begin(a, step, status)
    BY <1>1 DEF ReadApp, BeginSuspended, BeginInvalid, BeginValid
  <2>2. Pruned(a)'
    BY <2>1 DEF Begin, cluster, Pruned, TypeInv, TypeOK, JobOK
  <2>3. OnlyJob(a) /\ UNCHANGED live
    BY <2>1, OnlyJobMoves DEF Begin, cluster, OnlyJob
  <2> QED
    BY <2>2, <2>3, PrunedOthers DEF PrunedInv
<1>2. ASSUME NEW a \in Apps, UpdateSuspended(a) \/ Fail(a) \/ UpdateSuccess(a) \/ StatusLost(a)
      PROVE  PrunedInv'
  <2>1. /\ Return({a}) /\ UNCHANGED live
        /\ UNCHANGED app \/ \E m : PatchStatus(a, m)
    BY <1>2 DEF UpdateSuspended, Fail, UpdateSuccess, StatusLost, cluster
  <2>2. pc'[a] = "idle"
    BY <2>1 DEF Return
  <2>3. OnlyJob(a)
    BY <2>1, OnlyJobMoves DEF OnlyJob
  <2> QED
    BY <2>1, <2>2, <2>3, PrunedDone, PrunedOthers DEF PrunedInv
<1>3. ASSUME NEW a \in Apps, Checkout(a) PROVE PrunedInv'
  <2>1. pc[a] = "fetch" /\ copy[a] \in GitApplication
    BY <1>3 DEF Checkout, TypeInv, TypeOK, JobOK, LocalsOK
  <2>2. /\ copy'[a].uid = copy[a].uid
        /\ copy'[a].status.inventory = copy[a].status.inventory
        /\ pc'[a] = "render" /\ UNCHANGED <<app, live>>
    BY <1>3, <2>1 DEF Checkout, cluster, GitApplication, Status, TypeInv, TypeOK, JobOK
  <2>3. Pruned(a)'
    BY <2>1, <2>2 DEF PrunedInv, Pruned
  <2>4. OnlyJob(a)
    BY <1>3, <2>2, OnlyJobMoves DEF OnlyJob
  <2> QED
    BY <2>2, <2>3, <2>4, PrunedOthers DEF PrunedInv
<1>4. ASSUME NEW a \in Apps, \E status : FailNext(a, status), UNCHANGED app,
             \/ UNCHANGED live
             \/ \E o \in Objects : live' = [live EXCEPT ![o] = None]
             \/ copy[a] # None /\ \E r \in todo[a] : live' = Applied(a, r)
      PROVE  PrunedInv'
  <2>1. pc'[a] = "fail"
    BY <1>4 DEF FailNext, TypeInv, TypeOK, JobOK
  <2>2. OnlyJob(a)
    BY <1>4, OnlyJobMoves DEF OnlyJob
  <2> QED
    BY <1>4, <2>1, <2>2, PrunedDone, PrunedOthers DEF PrunedInv
<1>5. ASSUME NEW a \in Apps, NEW step, NEW t, Goto(a, step, t), UNCHANGED app, Pruned(a)',
             \/ UNCHANGED live
             \/ \E o \in Objects : live' = [live EXCEPT ![o] = None]
             \/ copy[a] # None /\ \E r \in todo[a] : live' = Applied(a, r)
      PROVE  PrunedInv'
  <2>1. OnlyJob(a)
    BY <1>5, OnlyJobMoves DEF OnlyJob
  <2> QED
    BY <1>5, <2>1, PrunedOthers DEF PrunedInv
<1>6. ASSUME NEW a \in Apps, CheckoutFails(a) \/ RenderFails(a) \/ PruneReadFails(a) PROVE PrunedInv'
  BY <1>6, <1>4 DEF CheckoutFails, RenderFails, PruneReadFails, cluster
<1>7. ASSUME NEW a \in Apps, NEW r \in todo[a],
             ApplyConflict(a, r) \/ DeleteNotFound(a, r) \/ ApplyFails(a, r) \/ DeleteFails(a, r)
      PROVE  PrunedInv'
  <2>1. r.object \in Objects
    BY DEF TypeInv, TypeOK, JobOK, Refs
  <2>2. copy[a] # None
    BY <1>7 DEF ApplyConflict, DeleteNotFound, ApplyFails, DeleteFails, TypeInv, LocalsOK
  <2>3. \E status : FailNext(a, status)
    BY <1>7 DEF ApplyConflict, DeleteNotFound, ApplyFails, DeleteFails
  <2> QED
    BY <1>7, <2>1, <2>2, <2>3, <1>4
       DEF ApplyConflict, DeleteNotFound, ApplyFails, DeleteFails, cluster
<1>8. ASSUME NEW a \in Apps, Render(a) PROVE PrunedInv'
  <2>1. pc[a] = "render" /\ UNCHANGED <<app, live>>
    BY <1>8 DEF Render, cluster
  <2>2. CASE \E status : FailNext(a, status)
    BY <2>1, <2>2, <1>4
  <2>3. CASE Goto(a, "apply", Desired(a))
    <3>1. Desired(a) \in SUBSET Refs
      BY <2>1, DesiredType DEF TypeInv, LocalsOK
    <3>2. Pruned(a)'
      BY <2>1, <2>3, <3>1, PrunedAdvance
    <3> QED
      BY <2>1, <2>3, <3>2, <1>5
  <2> QED
    BY <1>8, <2>2, <2>3 DEF Render
<1>9. ASSUME NEW a \in Apps, NEW r \in todo[a], ApplyObject(a, r) PROVE PrunedInv'
  <2>1. pc[a] = "apply" /\ Goto(a, "apply", todo[a] \ {r}) /\ live' = Applied(a, r) /\ UNCHANGED app
    BY <1>9 DEF ApplyObject
  <2>2. todo[a] \ {r} \in SUBSET Refs /\ copy[a] # None
    BY <2>1 DEF TypeInv, TypeOK, JobOK, LocalsOK
  <2>3. Pruned(a)'
    BY <2>1, <2>2, PrunedAdvance
  <2> QED
    BY <2>1, <2>2, <2>3, <1>5
<1>10. ASSUME NEW a \in Apps, ApplyDone(a) PROVE PrunedInv'
  <2>1. pc[a] = "apply" /\ UNCHANGED <<app, live>> /\ copy[a] # None /\ sha[a] \in Revisions
    BY <1>10 DEF ApplyDone, cluster, TypeInv, LocalsOK
  <2>2. Diff(copy[a].status.inventory, Desired(a)) \in SUBSET Refs
    BY <2>1 DEF Diff, TypeInv, TypeOK, JobOK, GitApplication, Status
  <2>3. CASE copy[a].spec.prune
    <3>1. Goto(a, "prune", Diff(copy[a].status.inventory, Desired(a)))
      BY <1>10, <2>3 DEF ApplyDone
    <3>2. Pruned(a)'
      BY <2>1, <2>2, <2>3, <3>1, PrunedAdvance DEF Diff
    <3> QED
      BY <2>1, <3>1, <3>2, <1>5
  <2>4. CASE ~copy[a].spec.prune
    <3>1. Goto(a, "success", {})
      BY <1>10, <2>4 DEF ApplyDone
    <3>2. Pruned(a)'
      BY <2>1, <2>4, <3>1, PrunedAdvance
    <3> QED
      BY <2>1, <3>1, <3>2, <1>5
  <2> QED
    BY <2>3, <2>4
\* In prune a reference is struck off when its object has lost the marks.
<1>11. ASSUME NEW a \in Apps, NEW r \in todo[a],
              PassOver(a, r) \/ Condemn(a, r) \/ DeleteObject(a, r)
       PROVE  PrunedInv'
  <2>1. /\ pc[a] \in {"prune", "delete"} /\ UNCHANGED app
        /\ copy[a].spec.prune /\ copy[a] # None
    BY <1>11 DEF PassOver, Condemn, DeleteObject, cluster, PrunedInv, Pruned, TypeInv, LocalsOK
  <2>2. r.object \in Objects
    BY DEF TypeInv, TypeOK, JobOK, Refs
  <2>3. PICK step \in {"prune", "delete"}, t \in {todo[a], todo[a] \ {r}} :
          /\ Goto(a, step, t)
          /\ t # todo[a] => live'[r.object] = None \/ ~CarriesMarks(copy[a].uid, r.object)
    BY <1>11, <2>2 DEF PassOver, Condemn, DeleteObject, TypeInv, TypeOK, ClusterOK
  <2>4. live' = live \/ live' = [live EXCEPT ![r.object] = None]
    BY <1>11 DEF PassOver, Condemn, DeleteObject, cluster
  <2>5. NoNewMarks(copy[a].uid)
    BY <2>2, <2>4, MarksRemoved
  <2>6. \A s \in copy[a].status.inventory \ Desired(a) :
          s \in t \/ ~CarriesMarks(copy[a].uid, s.object)'
    <3> SUFFICES ASSUME NEW s \in copy[a].status.inventory \ Desired(a), s \notin t
                 PROVE  ~CarriesMarks(copy[a].uid, s.object)'
      OBVIOUS
    <3>1. UNCHANGED copy
      BY <2>3 DEF Goto
    <3>2. s.object \in Objects
      BY <2>1 DEF TypeInv, TypeOK, JobOK, GitApplication, Status, Refs
    <3>3. s \in todo[a] \/ ~CarriesMarks(copy[a].uid, s.object)
      BY <2>1 DEF PrunedInv, Pruned
    <3>4. CASE s = r /\ t # todo[a]
      BY <2>3, <2>5, <3>1, <3>2, <3>4 DEF NoNewMarks, CarriesMarks
    <3>5. CASE ~CarriesMarks(copy[a].uid, s.object)
      BY <2>5, <3>1, <3>2, <3>5 DEF NoNewMarks, CarriesMarks
    <3> QED
      BY <2>3, <3>3, <3>4, <3>5
  <2>7. t \in SUBSET Refs
    BY <2>3 DEF TypeInv, TypeOK, JobOK
  <2>8. Pruned(a)'
    BY <2>1, <2>3, <2>6, <2>7, PrunedAdvance
  <2> QED
    BY <2>2, <2>1, <2>3, <2>4, <2>8, <1>5
<1>12. ASSUME NEW a \in Apps, PruneDone(a) PROVE PrunedInv'
  <2>1. /\ pc[a] = "prune" /\ todo[a] = {} /\ Goto(a, "success", {}) /\ UNCHANGED <<app, live>>
        /\ copy[a].spec.prune
    BY <1>12 DEF PruneDone, cluster, PrunedInv, Pruned
  <2>2. \A r \in copy[a].status.inventory \ Desired(a) : ~CarriesMarks(copy[a].uid, r.object)
    BY <2>1 DEF PrunedInv, Pruned
  <2>3. Pruned(a)'
    BY <2>1, <2>2, PrunedAdvance DEF CarriesMarks, Goto
  <2> QED
    BY <2>1, <2>3, <1>5
<1>13. ASSUME NEW a \in Apps, UpdateSuccessNotFound(a) \/ UpdateSuccessFails(a) PROVE PrunedInv'
  <2>1. /\ SuccessRejected(a)
        /\ UNCHANGED app \/ PatchStatus(a, SuccessStatus(a))
    BY <1>13 DEF UpdateSuccessNotFound, UpdateSuccessFails
  <2>2. pc'[a] = "fail" /\ UNCHANGED live
    BY <2>1 DEF SuccessRejected, TypeInv, TypeOK, JobOK
  <2>3. OnlyJob(a)
    BY <2>1, OnlyJobMoves DEF OnlyJob
  <2> QED
    BY <2>2, <2>3, PrunedDone, PrunedOthers DEF PrunedInv
<1>14. ASSUME Crash PROVE PrunedInv'
  <2>1. \A a \in Apps : pc'[a] = "idle"
    BY <1>14 DEF Crash, Return
  <2> QED
    BY <2>1, PrunedDone DEF PrunedInv
\* The users: the jobs stay, an inventory only starts anew.
<1>15. ASSUME NEW a \in Apps, Create(a) PROVE PrunedInv'
  <2>1. PICK s \in Specs[a] :
          app' = [app EXCEPT ![a] =
                    [uid |-> <<a, incarnation[a] + 1>>, deleting |-> FALSE,
                     generation |-> 1, spec |-> s, status |-> EmptyStatus]]
    BY <1>15 DEF Create
  <2>2. UNCHANGED <<live, job>>
    BY <1>15 DEF Create
  <2>3. Pruned(a)'
    <3>1. copy[a] # None => copy[a].uid # <<a, incarnation[a] + 1>>
      BY BoundAssumption DEF TypeInv, TypeOK, ClusterOK, UidsOK, UidOf
    <3>2. /\ app'[a].uid = <<a, incarnation[a] + 1>>
          /\ app'[a].status.inventory = {}
      BY <2>1 DEF EmptyStatus, TypeInv, TypeOK, ClusterOK
    <3>3. Desired(a)' = Desired(a)
      BY <2>2 DEF Desired, job
    <3>4. \A o : CarriesMarks(copy[a].uid, o)' <=> CarriesMarks(copy[a].uid, o)
      BY <2>2 DEF CarriesMarks, job
    <3>5. pc[a] # "idle" => copy[a] # None
      BY DEF TypeInv, LocalsOK
    <3> QED
      BY <2>2, <3>1, <3>2, <3>3, <3>4, <3>5 DEF PrunedInv, Pruned, job
  <2>4. OnlyJob(a)
    BY <2>1, <2>2 DEF OnlyJob, SameJob, job, TypeInv, TypeOK, ClusterOK
  <2> QED
    BY <2>2, <2>3, <2>4, PrunedOthers DEF PrunedInv
<1>16. ASSUME NEW a \in Apps, EditSpec(a) \/ MarkDeleted(a) \/ Remove(a) PROVE PrunedInv'
  <2>1. UNCHANGED <<live, job>>
    BY <1>16 DEF EditSpec, MarkDeleted, Remove
  <2>2. SameInventory(a)
    BY <1>16 DEF EditSpec, MarkDeleted, Remove, SameInventory, GitApplication, TypeInv, TypeOK, ClusterOK
  <2>3. \A b \in Apps \ {a} : app'[b] = app[b]
    BY <1>16 DEF EditSpec, MarkDeleted, Remove, TypeInv, TypeOK, ClusterOK
  <2>4. \A b \in Apps : SameJob(b) /\ SameInventory(b)
    BY <2>1, <2>2, <2>3 DEF SameJob, job, SameInventory
  <2>5. \A u : NoNewMarks(u)
    BY <2>1 DEF NoNewMarks, CarriesMarks
  <2> QED
    BY <2>4, <2>5, PrunedFrame DEF PrunedInv
<1>17. ASSUME UNCHANGED <<app, job>>, \A u \in Uids : NoNewMarks(u) PROVE PrunedInv'
  <2> SUFFICES ASSUME NEW a \in Apps PROVE Pruned(a)'
    BY DEF PrunedInv
  <2>1. copy[a] # None => copy[a].uid \in Uids
    BY DEF TypeInv, TypeOK, JobOK, GitApplication
  <2> QED
    BY <1>17, <2>1, PrunedFrame DEF PrunedInv, SameJob, SameInventory, job
<1>18. ASSUME NEW o \in Objects, Meddle(o) PROVE PrunedInv'
  <2>1. PICK l \in MeddledWith(o) : live' = [live EXCEPT ![o] = l]
    BY <1>18 DEF Meddle
  <2>2. l # None /\ l.uid \in Uids /\ l.managed =>
          live[o] # None /\ l.uid = live[o].uid /\ live[o].managed
    <3>1. CASE live[o] = None
      BY <2>1, <3>1, NoneAssumption DEF MeddledWith
    <3>2. CASE live[o] # None
      BY <2>1, <3>2 DEF MeddledWith, LiveObject, TypeInv, TypeOK, ClusterOK
    <3> QED
      BY <3>1, <3>2
  <2>3. \A u \in Uids : NoNewMarks(u)
    BY <2>1, <2>2 DEF NoNewMarks, CarriesMarks, TypeInv, TypeOK, ClusterOK
  <2> QED
    BY <1>18, <2>3, <1>17 DEF Meddle
<1>19. CASE Push \/ UNCHANGED vars \/ \E a \in Apps : ReadNothing(a)
  <2>1. UNCHANGED <<app, job, live>>
    BY <1>19 DEF Push, ReadNothing, vars, job
  <2>2. \A u \in Uids : NoNewMarks(u)
    BY <2>1 DEF NoNewMarks, CarriesMarks
  <2> QED
    BY <2>1, <2>2, <1>17
<1> QED
  BY <1>1, <1>2, <1>3, <1>6, <1>7, <1>8, <1>9, <1>10, <1>11, <1>12, <1>13, <1>14,
     <1>15, <1>16, <1>18, <1>19
     DEF Next, Advance, CallFails, Users

\* Only a reported success changes the inventory of an application.
LEMMA InventoryStep ==
  ASSUME TypeInv, Next, NEW a \in Apps, app[a] # None, app'[a] # None
  PROVE  \/ app'[a].status.inventory = app[a].status.inventory
         \/ pc[a] = "success" /\ app'[a].status.inventory = Desired(a)
<1> DEFINE Goal == \/ app'[a].status.inventory = app[a].status.inventory
                   \/ pc[a] = "success" /\ app'[a].status.inventory = Desired(a)
<1> SUFFICES Goal
  OBVIOUS
<1>1. ASSUME NEW b \in Apps, NEW m, PatchStatus(b, m), copy[b] # None,
             m.inventory = copy[b].status.inventory \/ (pc[b] = "success" /\ m.inventory = Desired(b))
      PROVE  Goal
  <2>1. CASE b = a
    <3>1. app[a] \in GitApplication
      BY DEF TypeInv, TypeOK, ClusterOK
    <3>2. app'[a].status.inventory = Merged("inventory", app[a].status, copy[a].status, m)
      BY <1>1, <2>1, <3>1 DEF PatchStatus, MergePatch, GitApplication, TypeInv, TypeOK, ClusterOK
    <3> QED
      BY <1>1, <2>1, <3>2 DEF Merged
  <2>2. CASE b # a
    BY <1>1, <2>2 DEF PatchStatus, TypeInv, TypeOK, ClusterOK
  <2> QED
    BY <2>1, <2>2
<1>2. ASSUME NEW b \in Apps, UpdateSuspended(b) \/ Fail(b) PROVE Goal
  <2>1. copy[b] # None /\ copy[b] \in GitApplication
    BY <1>2 DEF UpdateSuspended, Fail, TypeInv, TypeOK, JobOK, LocalsOK
  <2>2. /\ FailedStatus(b).inventory = copy[b].status.inventory
        /\ SuspendedStatus(b).inventory = copy[b].status.inventory
    BY <2>1 DEF FailedStatus, SuspendedStatus, GitApplication, Status
  <2> QED
    BY <1>2, <2>1, <2>2, <1>1 DEF UpdateSuspended, Fail
<1>3. ASSUME NEW b \in Apps, UpdateSuccess(b) \/ UpdateSuccessFails(b) PROVE Goal
  <2>1. copy[b] # None /\ pc[b] = "success"
    BY <1>3 DEF UpdateSuccess, UpdateSuccessFails, TypeInv, LocalsOK
  <2>2. SuccessStatus(b).inventory = Desired(b)
    BY DEF SuccessStatus
  <2> QED
    BY <1>3, <2>1, <2>2, <1>1 DEF UpdateSuccess, UpdateSuccessFails
<1>4. ASSUME NEW b \in Apps, Create(b) \/ EditSpec(b) \/ MarkDeleted(b) \/ Remove(b) PROVE Goal
  <2>1. CASE b # a
    BY <1>4, <2>1 DEF Create, EditSpec, MarkDeleted, Remove, TypeInv, TypeOK, ClusterOK
  <2>2. CASE b = a
    <3>1. app[a] \in GitApplication
      BY DEF TypeInv, TypeOK, ClusterOK
    <3>2. ~Create(a)
      BY DEF Create
    <3>3. ASSUME EditSpec(a) PROVE app'[a].status = app[a].status
      BY <3>1, <3>3 DEF EditSpec, GitApplication, TypeInv, TypeOK, ClusterOK
    <3>4. ASSUME MarkDeleted(a) PROVE app'[a].status = app[a].status
      BY <3>1, <3>4 DEF MarkDeleted, GitApplication, TypeInv, TypeOK, ClusterOK
    <3>5. ASSUME Remove(a) PROVE app'[a] = None
      BY <3>5 DEF Remove, TypeInv, TypeOK, ClusterOK
    <3> QED
      BY <1>4, <2>2, <3>2, <3>3, <3>4, <3>5
  <2> QED
    BY <2>1, <2>2
<1>5. ASSUME UNCHANGED app PROVE Goal
  BY <1>5
\* All other steps leave the applications alone.
<1>6. ASSUME NEW b \in Apps,
             \/ ReadApp(b) \/ ReadNothing(b) \/ Checkout(b) \/ CheckoutFails(b)
             \/ Render(b) \/ RenderFails(b) \/ ApplyDone(b) \/ PruneDone(b) \/ PruneReadFails(b)
             \/ UpdateSuccessNotFound(b) \/ StatusLost(b)
      PROVE  UNCHANGED app
  <2>1. ASSUME ReadApp(b) \/ ReadNothing(b) PROVE UNCHANGED app
    BY <2>1 DEF ReadApp, BeginSuspended, BeginInvalid, BeginValid, Begin, ReadNothing, cluster, vars
  <2>2. ASSUME Checkout(b) \/ CheckoutFails(b) \/ Render(b) \/ RenderFails(b) PROVE UNCHANGED app
    BY <2>2 DEF Checkout, CheckoutFails, Render, RenderFails, cluster
  <2>3. ASSUME \/ ApplyDone(b) \/ PruneDone(b) \/ PruneReadFails(b)
               \/ UpdateSuccessNotFound(b) \/ StatusLost(b)
        PROVE  UNCHANGED app
    BY <2>3 DEF ApplyDone, PruneDone, PruneReadFails, UpdateSuccessNotFound, StatusLost, cluster
  <2> QED
    BY <1>6, <2>1, <2>2, <2>3
<1>7. ASSUME NEW b \in Apps, NEW r \in todo[b],
             \/ ApplyObject(b, r) \/ ApplyConflict(b, r) \/ ApplyFails(b, r)
             \/ PassOver(b, r) \/ Condemn(b, r) \/ DeleteObject(b, r)
             \/ DeleteNotFound(b, r) \/ DeleteFails(b, r)
      PROVE  UNCHANGED app
  BY <1>7 DEF ApplyObject, ApplyConflict, ApplyFails, PassOver, Condemn, DeleteObject,
              DeleteNotFound, DeleteFails, cluster
<1>8. ASSUME Crash \/ Push \/ UNCHANGED vars \/ \E o \in Objects : Meddle(o) PROVE UNCHANGED app
  BY <1>8 DEF Crash, Push, Meddle, cluster, vars
<1> HIDE DEF Goal
<1> QED
  BY <1>2, <1>3, <1>4, <1>5, <1>6, <1>7, <1>8 DEF Next, Advance, CallFails, Users

\* Nothing is forgotten: in every behaviour, with any number of workers,
\* failed calls, crashes, edits and new incarnations, a reconcile with prune
\* drops only references whose objects it has deleted or no longer owns.
THEOREM PruneForgetsNothing == Spec => NothingForgotten
<1>1. Init => TypeInv /\ PrunedInv
  BY BoundAssumption
     DEF Init, TypeInv, TypeOK, ClusterOK, JobOK, SpentOK, LocalsOK, UidsOK, Steps,
         PrunedInv, Pruned, Underway
<1>2. TypeInv /\ PrunedInv /\ [Next]_vars => TypeInv' /\ PrunedInv'
  BY TypeInvStep, PrunedStep
<1> DEFINE Lost(a) == app[a].status.inventory \ app'[a].status.inventory
           Kept(a) == /\ app[a] # None /\ app'[a] # None /\ app'[a].uid = app[a].uid
                      /\ copy[a] # None /\ copy[a].spec.prune
                      => \A r \in Lost(a) : ~CarriesMarks(app[a].uid, r.object)
<1>3. ASSUME TypeInv, PrunedInv, [Next]_vars PROVE \A a \in Apps : Kept(a)
  <2> SUFFICES ASSUME NEW a \in Apps, app[a] # None, app'[a] # None,
                      copy[a] # None, copy[a].spec.prune, NEW r \in Lost(a)
               PROVE  ~CarriesMarks(app[a].uid, r.object)
    OBVIOUS
  <2>1. Next
    BY <1>3 DEF vars
  <2>2. pc[a] = "success" /\ app'[a].status.inventory = Desired(a)
    BY <1>3, <2>1, InventoryStep
  <2>3. app[a].uid = copy[a].uid /\ app[a].status.inventory = copy[a].status.inventory
    BY <1>3, <2>2 DEF PrunedInv, Pruned, Underway
  <2> QED
    BY <1>3, <2>2, <2>3 DEF PrunedInv, Pruned
<1>4. TypeInv /\ PrunedInv /\ [Next]_vars => [\A a \in Apps : Kept(a)]_vars
  BY <1>3
<1> QED
  BY <1>1, <1>2, <1>4, PTL DEF Spec, NothingForgotten

(***************************************************************************)
(* SuccessMeansApplied, for applications that never render one object in   *)
(* two versions nor an object of each other's, in a cluster where nobody   *)
(* else touches their objects.                                             *)
(***************************************************************************)
Territory(a) == UNION {Manifest[s.path][c] : s \in Specs[a], c \in Revisions}

Disjoint ==
  \A a, b \in Apps : \A r \in Territory(a), t \in Territory(b) :
    r.object = t.object => a = b /\ r = t

InPlace(a, o) == CarriesMarks(copy[a].uid, o) /\ live[o].revision = sha[a]

Placed(a) ==
  /\ app[a] # None => /\ app[a].spec \in Specs[a]
                      /\ app[a].status.inventory \subseteq Territory(a)
  /\ copy[a] # None => /\ copy[a].spec \in Specs[a]
                       /\ copy[a].status.inventory \subseteq Territory(a)
  /\ pc[a] = "apply" => /\ todo[a] \subseteq Desired(a)
                        /\ \A r \in Desired(a) \ todo[a] : InPlace(a, r.object)
  /\ pc[a] \in {"prune", "delete", "success"} => \A r \in Desired(a) : InPlace(a, r.object)
  /\ pc[a] \in {"prune", "delete"} => todo[a] \subseteq copy[a].status.inventory \ Desired(a)

PlacedInv == \A a \in Apps : Placed(a)

LEMMA DesiredInTerritory ==
  ASSUME TypeInv, NEW a \in Apps, Placed(a), copy[a] # None, sha[a] \in Revisions
  PROVE  Desired(a) \in SUBSET Territory(a)
BY DEF Placed, Desired, Territory

\* An object of a's territory, while only others' objects are touched.
LEMMA PlacedFrame ==
  ASSUME TypeInv, NEW a \in Apps, Placed(a), SameJob(a),
         app'[a] = None \/ app'[a] = app[a],
         \A r \in Territory(a) : live'[r.object] = live[r.object]
  PROVE  Placed(a)'
<1>1. /\ copy'[a] = copy[a] /\ pc'[a] = pc[a] /\ todo'[a] = todo[a] /\ sha'[a] = sha[a]
      /\ Desired(a)' = Desired(a) /\ Territory(a)' = Territory(a)
  BY DEF SameJob, Desired, Territory
<1>2. pc[a] \in {"apply", "prune", "delete", "success"} => Desired(a) \subseteq Territory(a)
  BY DesiredInTerritory DEF TypeInv, LocalsOK
<1>3. ASSUME NEW r \in Territory(a), InPlace(a, r.object) PROVE InPlace(a, r.object)'
  BY <1>1, <1>3 DEF InPlace, CarriesMarks
<1> QED
  BY <1>1, <1>2, <1>3 DEF Placed

\* The other applications while a reconcile of a touches an object it may.
LEMMA PlacedOthers ==
  ASSUME TypeInv, PlacedInv, Disjoint, NEW a \in Apps, OnlyJob(a),
         \/ UNCHANGED live
         \/ \E r \in Territory(a), l \in LiveObject \cup {None} :
              live' = [live EXCEPT ![r.object] = l]
  PROVE  \A b \in Apps \ {a} : Placed(b)'
<1> SUFFICES ASSUME NEW b \in Apps \ {a} PROVE Placed(b)'
  OBVIOUS
<1>1. \A t \in Territory(b) : live'[t.object] = live[t.object]
  <2>1. ASSUME NEW r \in Territory(a), NEW l \in LiveObject \cup {None},
               live' = [live EXCEPT ![r.object] = l], NEW t \in Territory(b)
        PROVE  live'[t.object] = live[t.object]
    <3>1. r.object # t.object
      BY DEF Disjoint
    <3>2. t.object \in Objects
      BY ManifestAssumption DEF Territory, SpecRecords, Refs
    <3> QED
      BY <2>1, <3>1, <3>2 DEF TypeInv, TypeOK, ClusterOK
  <2> QED
    BY <2>1
<1> QED
  BY <1>1, PlacedFrame DEF OnlyJob, PlacedInv

\* What is on record of an application stays within its territory.
OnRecord(a) ==
  app'[a] # None => /\ app'[a].spec \in Specs[a]
                    /\ app'[a].status.inventory \subseteq Territory(a)

LEMMA OnRecordPatch ==
  ASSUME TypeInv, NEW a \in Apps, copy[a] # None, NEW m \in Status,
         app[a] # None => /\ app[a].spec \in Specs[a]
                          /\ app[a].status.inventory \subseteq Territory(a),
         IF app[a] = None THEN UNCHANGED app ELSE PatchStatus(a, m),
         m.inventory \subseteq Territory(a)
  PROVE  OnRecord(a)
<1>1. CASE app[a] = None
  BY <1>1 DEF OnRecord
<1>2. CASE app[a] # None
  <2>1. app'[a] = [app[a] EXCEPT !.status = MergePatch(app[a].status, copy[a].status, m)]
    BY <1>2, PatchStatusType DEF TypeInv
  <2>2. app[a] \in GitApplication
    BY <1>2 DEF TypeInv, TypeOK, ClusterOK
  <2>3. /\ app'[a].spec = app[a].spec
        /\ app'[a].status.inventory = Merged("inventory", app[a].status, copy[a].status, m)
    BY <2>1, <2>2 DEF GitApplication, MergePatch
  <2> QED
    BY <1>2, <2>3 DEF OnRecord, Merged
<1> QED
  BY <1>1, <1>2

\* Steps after which a reconcile promises nothing about the cluster.
LEMMA PlacedDone ==
  ASSUME TypeInv, NEW a \in Apps, Placed(a), OnRecord(a),
         pc'[a] \in {"idle", "suspend", "fetch", "render", "fail"},
         \/ copy'[a] \in {None, copy[a]}
         \/ /\ copy'[a].spec = copy[a].spec /\ copy[a] # None
            /\ copy'[a].status.inventory \subseteq Territory(a)
  PROVE  Placed(a)'
<1>1. Territory(a)' = Territory(a)
  BY DEF Territory
<1> QED
  BY <1>1 DEF Placed, OnRecord

\* Steps within apply and prune.
LEMMA PlacedAdvance ==
  ASSUME TypeInv, NEW a \in Apps, Placed(a), NEW step \in {"apply", "prune", "delete", "success"},
         NEW t, Goto(a, step, t), UNCHANGED app,
         step = "apply" => /\ t \subseteq Desired(a)
                           /\ \A r \in Desired(a) \ t : InPlace(a, r.object)',
         step # "apply" => \A r \in Desired(a) : InPlace(a, r.object)',
         step \in {"prune", "delete"} => t \subseteq copy[a].status.inventory \ Desired(a)
  PROVE  Placed(a)'
<1>1. pc'[a] = step /\ todo'[a] = t /\ UNCHANGED <<copy, sha>>
  BY DEF Goto, TypeInv, TypeOK, JobOK
<1>2. Desired(a)' = Desired(a) /\ Territory(a)' = Territory(a)
  BY <1>1 DEF Desired, Territory
<1> QED
  BY <1>1, <1>2 DEF Placed

\* An applied object is in place, and what was in place stays so.
LEMMA AppliedInPlace ==
  ASSUME TypeInv, NEW a \in Apps, NEW r \in todo[a], copy[a] # None, sha[a] \in Revisions,
         live' = Applied(a, r), UNCHANGED <<copy, sha>>,
         NEW s \in Refs, s = r \/ InPlace(a, s.object)
  PROVE  InPlace(a, s.object)'
<1>1. r.object \in Objects /\ s.object \in Objects
  BY DEF TypeInv, TypeOK, JobOK, Refs
<1>2. ASSUME s.object = r.object PROVE InPlace(a, s.object)'
  <2>1. live'[s.object] = [uid |-> copy[a].uid, managed |-> TRUE,
                           revision |-> sha[a], contested |-> FALSE]
    BY <1>1, <1>2 DEF Applied, TypeInv, TypeOK, ClusterOK
  <2>2. live'[s.object] \in LiveObject
    <3>1. copy[a].uid \in Uids
      BY DEF TypeInv, TypeOK, JobOK, GitApplication
    <3>2. [uid |-> copy[a].uid, managed |-> TRUE,
           revision |-> sha[a], contested |-> FALSE] \in LiveObject
      BY <3>1 DEF LiveObject
    <3> QED
      BY <2>1, <3>2, Zenon
  <2>3. live'[s.object].managed
    BY <2>1, SMT
  <2>4. live'[s.object].uid = copy[a].uid /\ live'[s.object].revision = sha[a]
    BY <2>1
  <2>5. live'[s.object] # None
    BY <2>2, NoneAssumption
  <2>6. copy' = copy /\ sha' = sha
    OBVIOUS
  <2> QED
    BY <2>3, <2>4, <2>5, <2>6, Zenon DEF InPlace, CarriesMarks
<1>3. ASSUME s.object # r.object PROVE InPlace(a, s.object)'
  <2>1. live'[s.object] = live[s.object]
    BY <1>1, <1>3 DEF Applied, TypeInv, TypeOK, ClusterOK
  <2>2. InPlace(a, s.object)
    BY <1>3
  <2> QED
    BY <2>1, <2>2 DEF InPlace, CarriesMarks
<1> QED
  BY <1>2, <1>3

LEMMA PlacedStep ==
  ASSUME Disjoint, MaxMeddles = 0
  PROVE  TypeInv /\ PlacedInv /\ [Next]_vars => PlacedInv'
<1> SUFFICES ASSUME TypeInv, PlacedInv, [Next]_vars PROVE PlacedInv'
  OBVIOUS
<1>1. ASSUME NEW a \in Apps, ReadApp(a) PROVE PlacedInv'
  <2>1. PICK step \in {"suspend", "fetch", "fail"}, status \in {"True", "False"} : Begin(a, step, status)
    BY <1>1 DEF ReadApp, BeginSuspended, BeginInvalid, BeginValid
  <2>2. /\ pc'[a] = step /\ copy'[a] = app[a] /\ app[a] # None /\ UNCHANGED <<app, live>>
    BY <2>1 DEF Begin, cluster, TypeInv, TypeOK, JobOK
  <2>3. Placed(a)'
    BY <2>2 DEF PlacedInv, Placed, Territory
  <2>4. OnlyJob(a)
    BY <2>1, <2>2, OnlyJobMoves DEF OnlyJob
  <2> QED
    BY <2>2, <2>3, <2>4, PlacedOthers DEF PlacedInv
<1>2. ASSUME NEW a \in Apps, UpdateSuspended(a) \/ Fail(a) \/ UpdateSuccess(a) \/ StatusLost(a)
      PROVE  PlacedInv'
  <2>1. copy[a] # None /\ copy[a] \in GitApplication
    BY <1>2 DEF UpdateSuspended, Fail, UpdateSuccess, StatusLost, TypeInv, TypeOK, JobOK, LocalsOK
  <2>2. /\ SuspendedStatus(a) \in Status /\ SuspendedStatus(a).inventory = copy[a].status.inventory
        /\ FailedStatus(a) \in Status /\ FailedStatus(a).inventory = copy[a].status.inventory
    BY <2>1, SuspendedStatusType, FailedStatusType
       DEF SuspendedStatus, FailedStatus, GitApplication, Status, TypeInv
  <2>3. copy[a].status.inventory \subseteq Territory(a)
    BY <2>1 DEF PlacedInv, Placed
  <2>4. pc[a] = "success" => /\ SuccessStatus(a) \in Status
                             /\ SuccessStatus(a).inventory \subseteq Territory(a)
    BY <2>1, SuccessStatusType, DesiredInTerritory DEF SuccessStatus, TypeInv, LocalsOK, PlacedInv
  <2>5. OnRecord(a)
    <3>1. CASE UpdateSuspended(a) \/ Fail(a)
      BY <2>1, <2>2, <2>3, <3>1, OnRecordPatch DEF UpdateSuspended, Fail, PlacedInv, Placed
    <3>2. CASE UpdateSuccess(a)
      BY <2>1, <2>4, <3>2, OnRecordPatch DEF UpdateSuccess, PlacedInv, Placed
    <3>3. CASE StatusLost(a)
      BY <3>3 DEF StatusLost, cluster, OnRecord, PlacedInv, Placed
    <3> QED
      BY <1>2, <3>1, <3>2, <3>3
  <2>6. /\ Return({a}) /\ UNCHANGED live
        /\ UNCHANGED app \/ \E m : PatchStatus(a, m)
    BY <1>2 DEF UpdateSuspended, Fail, UpdateSuccess, StatusLost, cluster
  <2>7. Placed(a)'
    BY <2>5, <2>6, PlacedDone DEF Return, PlacedInv
  <2>8. OnlyJob(a)
    BY <2>6, OnlyJobMoves DEF OnlyJob
  <2> QED
    BY <2>6, <2>7, <2>8, PlacedOthers DEF PlacedInv
<1>3. ASSUME NEW a \in Apps, Checkout(a) PROVE PlacedInv'
  <2>1. copy[a] \in GitApplication /\ copy[a] # None
    BY <1>3 DEF Checkout, TypeInv, TypeOK, JobOK, LocalsOK
  <2>2. /\ copy'[a].spec = copy[a].spec
        /\ copy'[a].status.inventory = copy[a].status.inventory
        /\ pc'[a] = "render" /\ UNCHANGED <<app, live>>
    BY <1>3, <2>1 DEF Checkout, cluster, GitApplication, Status, TypeInv, TypeOK, JobOK
  <2>3. Placed(a)'
    BY <2>1, <2>2, PlacedDone DEF PlacedInv, Placed, OnRecord
  <2>4. OnlyJob(a)
    BY <1>3, <2>2, OnlyJobMoves DEF OnlyJob
  <2> QED
    BY <2>2, <2>3, <2>4, PlacedOthers DEF PlacedInv
\* A failed call; a delete or an apply of it may have been carried out.
<1>4. ASSUME NEW a \in Apps, \E status : FailNext(a, status), UNCHANGED app,
             \/ UNCHANGED live
             \/ \E r \in Territory(a), l \in LiveObject \cup {None} :
                  live' = [live EXCEPT ![r.object] = l]
      PROVE  PlacedInv'
  <2>1. pc'[a] = "fail" /\ UNCHANGED copy
    BY <1>4 DEF FailNext, TypeInv, TypeOK, JobOK
  <2>2. OnlyJob(a)
    BY <1>4, OnlyJobMoves DEF OnlyJob
  <2>3. Placed(a)'
    BY <1>4, <2>1, PlacedDone DEF OnRecord, PlacedInv, Placed
  <2> QED
    BY <1>4, <2>2, <2>3, PlacedOthers DEF PlacedInv
<1>5. ASSUME NEW a \in Apps, NEW step, NEW t, Goto(a, step, t), UNCHANGED app, Placed(a)',
             \/ UNCHANGED live
             \/ \E r \in Territory(a), l \in LiveObject \cup {None} :
                  live' = [live EXCEPT ![r.object] = l]
      PROVE  PlacedInv'
  <2>1. OnlyJob(a)
    BY <1>5, OnlyJobMoves DEF OnlyJob
  <2> QED
    BY <1>5, <2>1, PlacedOthers DEF PlacedInv
<1>6. ASSUME NEW a \in Apps, CheckoutFails(a) \/ RenderFails(a) \/ PruneReadFails(a) PROVE PlacedInv'
  BY <1>6, <1>4 DEF CheckoutFails, RenderFails, PruneReadFails, cluster
<1>7. ASSUME NEW a \in Apps, NEW r \in todo[a], pc[a] \in {"apply", "prune", "delete"}
      PROVE  /\ r \in Territory(a) /\ r.object \in Objects
             /\ copy[a] # None /\ sha[a] \in Revisions
             /\ Desired(a) \subseteq Territory(a)
  <2>1. copy[a] # None /\ (pc[a] \in {"apply", "prune", "delete"} => sha[a] \in Revisions)
    BY <1>7 DEF TypeInv, LocalsOK
  <2>2. Desired(a) \subseteq Territory(a)
    BY <1>7, <2>1, DesiredInTerritory DEF PlacedInv
  <2>3. todo[a] \subseteq Territory(a)
    BY <1>7, <2>1, <2>2 DEF PlacedInv, Placed
  <2>4. r.object \in Objects
    BY DEF TypeInv, TypeOK, JobOK, Refs
  <2> QED
    BY <1>7, <2>1, <2>2, <2>3, <2>4
<1>8. ASSUME NEW a \in Apps, NEW r \in todo[a], copy[a] # None, sha[a] \in Revisions, r.object \in Objects
      PROVE  \E l \in LiveObject \cup {None} : Applied(a, r) = [live EXCEPT ![r.object] = l]
  <2>1. copy[a].uid \in Uids
    BY <1>8 DEF TypeInv, TypeOK, JobOK, GitApplication
  <2> QED
    BY <1>8, <2>1 DEF Applied, LiveObject
<1>9. ASSUME NEW a \in Apps, NEW r \in todo[a],
             ApplyConflict(a, r) \/ DeleteNotFound(a, r) \/ ApplyFails(a, r) \/ DeleteFails(a, r)
      PROVE  PlacedInv'
  <2>1. pc[a] \in {"apply", "prune", "delete"} /\ \E status : FailNext(a, status)
    BY <1>9 DEF ApplyConflict, DeleteNotFound, ApplyFails, DeleteFails
  <2>2. r \in Territory(a) /\ r.object \in Objects /\ copy[a] # None /\ sha[a] \in Revisions
    BY <2>1, <1>7
  <2>3. live' = live \/ live' = Applied(a, r) \/ live' = [live EXCEPT ![r.object] = None]
    BY <1>9 DEF ApplyConflict, DeleteNotFound, ApplyFails, DeleteFails, cluster
  <2>4. UNCHANGED app
    BY <1>9 DEF ApplyConflict, DeleteNotFound, ApplyFails, DeleteFails, cluster
  <2> QED
    BY <2>1, <2>2, <2>3, <2>4, <1>4, <1>8
<1>10. ASSUME NEW a \in Apps, Render(a) PROVE PlacedInv'
  <2>1. pc[a] = "render" /\ UNCHANGED <<app, live>>
    BY <1>10 DEF Render, cluster
  <2>2. CASE \E status : FailNext(a, status)
    BY <2>1, <2>2, <1>4
  <2>3. CASE Goto(a, "apply", Desired(a))
    <3>1. Placed(a)'
      BY <2>1, <2>3, PlacedAdvance DEF PlacedInv
    <3> QED
      BY <2>1, <2>3, <3>1, <1>5
  <2> QED
    BY <1>10, <2>2, <2>3 DEF Render
\* An applied object is in place, and those applied before stay so.
<1>11. ASSUME NEW a \in Apps, NEW r \in todo[a], ApplyObject(a, r) PROVE PlacedInv'
  <2>1. pc[a] = "apply" /\ Goto(a, "apply", todo[a] \ {r}) /\ live' = Applied(a, r) /\ UNCHANGED app
    BY <1>11 DEF ApplyObject
  <2>2. /\ r \in Territory(a) /\ r.object \in Objects /\ copy[a] # None /\ sha[a] \in Revisions
        /\ Desired(a) \subseteq Territory(a)
    BY <2>1, <1>7
  <2>3. UNCHANGED <<copy, sha>>
    BY <2>1 DEF Goto
  <2>4. \A s \in Desired(a) : s = r \/ InPlace(a, s.object) => InPlace(a, s.object)'
    BY <2>1, <2>2, <2>3, AppliedInPlace, DesiredType DEF TypeInv
  <2>5. \A s \in Desired(a) \ (todo[a] \ {r}) : InPlace(a, s.object)'
    BY <2>1, <2>4 DEF PlacedInv, Placed
  <2>6. todo[a] \ {r} \subseteq Desired(a)
    BY <2>1 DEF PlacedInv, Placed
  <2>7. Placed(a)'
    BY <2>1, <2>5, <2>6, PlacedAdvance DEF PlacedInv
  <2> QED
    BY <2>1, <2>2, <2>7, <1>5, <1>8
<1>12. ASSUME NEW a \in Apps, NEW r, UNCHANGED <<live, copy, sha>>, InPlace(a, r.object)
       PROVE  InPlace(a, r.object)'
  BY <1>12 DEF InPlace, CarriesMarks
<1>13. ASSUME NEW a \in Apps, ApplyDone(a) PROVE PlacedInv'
  <2>1. pc[a] = "apply" /\ todo[a] = {} /\ UNCHANGED <<app, live>>
    BY <1>13 DEF ApplyDone, cluster
  <2>2. PICK step, t :
          /\ step \in {"prune", "success"} /\ Goto(a, step, t)
          /\ step = "prune" => t \subseteq copy[a].status.inventory \ Desired(a)
    BY <1>13, Zenon DEF ApplyDone, Diff
  <2>3. \A r \in Desired(a) : InPlace(a, r.object)'
    BY <2>1, <2>2, <1>12 DEF Goto, PlacedInv, Placed
  <2>4. Placed(a)'
    BY <2>1, <2>2, <2>3, PlacedAdvance DEF PlacedInv
  <2> QED
    BY <2>1, <2>2, <2>4, <1>5
<1>14. ASSUME NEW a \in Apps, NEW r \in todo[a], PassOver(a, r) \/ Condemn(a, r) PROVE PlacedInv'
  <2>1. pc[a] = "prune" /\ UNCHANGED <<app, live>>
    BY <1>14 DEF PassOver, Condemn, cluster
  <2>2. PICK step \in {"prune", "delete"}, t \in {todo[a], todo[a] \ {r}} : Goto(a, step, t)
    BY <1>14 DEF PassOver, Condemn
  <2>3. t \subseteq copy[a].status.inventory \ Desired(a)
    BY <2>1, <2>2 DEF PlacedInv, Placed
  <2>4. \A s \in Desired(a) : InPlace(a, s.object)'
    BY <2>1, <2>2, <1>12 DEF Goto, PlacedInv, Placed
  <2>5. Placed(a)'
    BY <2>1, <2>2, <2>3, <2>4, PlacedAdvance DEF PlacedInv
  <2> QED
    BY <2>1, <2>2, <2>5, <1>5
\* A deleted object is none of the desired ones.
<1>15. ASSUME NEW a \in Apps, NEW r \in todo[a], DeleteObject(a, r) PROVE PlacedInv'
  <2>1. /\ pc[a] = "delete" /\ Goto(a, "prune", todo[a] \ {r}) /\ UNCHANGED app
        /\ live' = [live EXCEPT ![r.object] = None]
    BY <1>15 DEF DeleteObject
  <2>2. r \in Territory(a) /\ r.object \in Objects /\ Desired(a) \subseteq Territory(a)
    BY <2>1, <1>7
  <2>3. todo[a] \subseteq copy[a].status.inventory \ Desired(a)
    BY <2>1 DEF PlacedInv, Placed
  <2>4. ASSUME NEW s \in Desired(a) PROVE InPlace(a, s.object)'
    <3>1. s.object # r.object
      BY <2>2, <2>3 DEF Disjoint
    <3>2. live'[s.object] = live[s.object]
      BY <2>1, <3>1 DEF TypeInv, TypeOK, ClusterOK
    <3>3. InPlace(a, s.object)
      BY <2>1 DEF PlacedInv, Placed
    <3>4. UNCHANGED <<copy, sha>>
      BY <2>1 DEF Goto
    <3> QED
      BY <3>2, <3>3, <3>4 DEF InPlace, CarriesMarks
  <2>5. Placed(a)'
    BY <2>1, <2>3, <2>4, PlacedAdvance DEF PlacedInv
  <2> QED
    BY <2>1, <2>2, <2>5, <1>5
<1>16. ASSUME NEW a \in Apps, PruneDone(a) PROVE PlacedInv'
  <2>1. pc[a] = "prune" /\ Goto(a, "success", {}) /\ UNCHANGED <<app, live>>
    BY <1>16 DEF PruneDone, cluster
  <2>2. \A s \in Desired(a) : InPlace(a, s.object)'
    BY <2>1, <1>12 DEF Goto, PlacedInv, Placed
  <2>3. Placed(a)'
    BY <2>1, <2>2, PlacedAdvance DEF PlacedInv
  <2> QED
    BY <2>1, <2>3, <1>5
<1>17. ASSUME NEW a \in Apps, UpdateSuccessNotFound(a) \/ UpdateSuccessFails(a) PROVE PlacedInv'
  <2>1. /\ SuccessRejected(a) /\ pc[a] = "success"
        /\ UNCHANGED app \/ (app[a] # None /\ PatchStatus(a, SuccessStatus(a)))
    BY <1>17 DEF UpdateSuccessNotFound, UpdateSuccessFails
  <2>2. copy[a] # None /\ copy[a] \in GitApplication /\ sha[a] \in Revisions
    BY <2>1 DEF TypeInv, TypeOK, JobOK, LocalsOK
  <2>3. SuccessStatus(a) \in Status /\ SuccessStatus(a).inventory \subseteq Territory(a)
    BY <2>2, SuccessStatusType, DesiredInTerritory DEF SuccessStatus, TypeInv, PlacedInv
  <2>4. OnRecord(a)
    <3>1. CASE UNCHANGED app
      BY <3>1 DEF OnRecord, PlacedInv, Placed
    <3>2. CASE app[a] # None /\ PatchStatus(a, SuccessStatus(a))
      BY <2>2, <2>3, <3>2, OnRecordPatch DEF PlacedInv, Placed
    <3> QED
      BY <2>1, <3>1, <3>2
  <2>5. /\ copy' = [copy EXCEPT ![a] = [copy[a] EXCEPT !.status = SuccessStatus(a)]]
        /\ pc'[a] = "fail" /\ UNCHANGED live
    BY <2>1 DEF SuccessRejected, TypeInv, TypeOK, JobOK
  <2>6. copy'[a].spec = copy[a].spec /\ copy'[a].status = SuccessStatus(a)
    BY <2>2, <2>5 DEF GitApplication, TypeInv, TypeOK, JobOK
  <2>7. Placed(a)'
    BY <2>2, <2>3, <2>4, <2>5, <2>6, PlacedDone DEF PlacedInv
  <2>8. OnlyJob(a)
    BY <2>1, OnlyJobMoves DEF OnlyJob
  <2> QED
    BY <2>5, <2>7, <2>8, PlacedOthers DEF PlacedInv
<1>18. ASSUME Crash PROVE PlacedInv'
  <2>1. /\ \A a \in Apps : pc'[a] = "idle" /\ copy'[a] = None
        /\ UNCHANGED app
    BY <1>18 DEF Crash, Return, cluster
  <2> QED
    BY <2>1, PlacedDone DEF PlacedInv, Placed, OnRecord
<1>19. ASSUME NEW a \in Apps, Create(a) \/ EditSpec(a) \/ MarkDeleted(a) \/ Remove(a) PROVE PlacedInv'
  <2>1. UNCHANGED <<live, job>>
    BY <1>19 DEF Create, EditSpec, MarkDeleted, Remove
  <2>2. \A b \in Apps \ {a} : app'[b] = app[b]
    BY <1>19 DEF Create, EditSpec, MarkDeleted, Remove, TypeInv, TypeOK, ClusterOK
  <2>3. OnRecord(a)
    <3>1. CASE Create(a)
      BY <3>1 DEF Create, OnRecord, EmptyStatus, TypeInv, TypeOK, ClusterOK
    <3>2. CASE EditSpec(a)
      BY <3>2 DEF EditSpec, OnRecord, PlacedInv, Placed, GitApplication, TypeInv, TypeOK, ClusterOK
    <3>3. CASE MarkDeleted(a)
      BY <3>3 DEF MarkDeleted, OnRecord, PlacedInv, Placed, GitApplication, TypeInv, TypeOK, ClusterOK
    <3>4. CASE Remove(a)
      BY <3>4 DEF Remove, OnRecord, TypeInv, TypeOK, ClusterOK
    <3> QED
      BY <1>19, <3>1, <3>2, <3>3, <3>4
  <2>4. Placed(a)'
    <3>1. Desired(a)' = Desired(a) /\ Territory(a)' = Territory(a)
      BY <2>1 DEF Desired, Territory, job
    <3>2. \A o : InPlace(a, o)' <=> InPlace(a, o)
      BY <2>1 DEF InPlace, CarriesMarks, job
    <3> QED
      BY <2>1, <2>3, <3>1, <3>2 DEF OnRecord, PlacedInv, Placed, job
  <2>5. OnlyJob(a)
    BY <2>1, <2>2 DEF OnlyJob, SameJob, job
  <2> QED
    BY <2>1, <2>4, <2>5, PlacedOthers DEF PlacedInv
<1>20. ASSUME NEW o \in Objects, Meddle(o) PROVE PlacedInv'
  BY <1>20 DEF Meddle, CountMeddle, TypeInv, TypeOK, SpentOK
<1>21. CASE Push \/ UNCHANGED vars \/ \E a \in Apps : ReadNothing(a)
  <2>1. UNCHANGED <<app, job, live>>
    BY <1>21 DEF Push, ReadNothing, vars, job
  <2> QED
    BY <2>1, PlacedFrame DEF PlacedInv, SameJob, job
<1> QED
  BY <1>1, <1>2, <1>3, <1>6, <1>9, <1>10, <1>11, <1>13, <1>14, <1>15, <1>16, <1>17, <1>18,
     <1>19, <1>20, <1>21
     DEF Next, Advance, CallFails, Users

\* If no object is rendered by two applications or in two API versions, and
\* nobody else touches them, a reconcile that is about to report success has
\* every object of the commit in place: for any number of workers, with
\* failed calls, lost answers, crashes, edits and new incarnations.
THEOREM SuccessIsTrue ==
  ASSUME Disjoint, MaxMeddles = 0
  PROVE  Spec => []SuccessMeansApplied
<1>1. Init => TypeInv /\ PlacedInv
  BY BoundAssumption
     DEF Init, TypeInv, TypeOK, ClusterOK, JobOK, SpentOK, LocalsOK, UidsOK, Steps,
         PlacedInv, Placed
<1>2. TypeInv /\ PlacedInv /\ [Next]_vars => TypeInv' /\ PlacedInv'
  BY TypeInvStep, PlacedStep
<1>3. PlacedInv => SuccessMeansApplied
  BY DEF PlacedInv, Placed, InPlace, SuccessMeansApplied
<1> QED
  BY <1>1, <1>2, <1>3, PTL DEF Spec

(***************************************************************************)
(* PruneSparesDesired, when no commit moves an object of an application to *)
(* another API version.  Nothing else is asked for: the applications may   *)
(* share objects, and everybody may touch them.                            *)
(***************************************************************************)
SteadyVersions ==
  \A a \in Apps : \A r, t \in Territory(a) : r.object = t.object => r = t

Stale(a) ==
  /\ app[a] # None => /\ app[a].spec \in Specs[a]
                      /\ app[a].status.inventory \subseteq Territory(a)
  /\ copy[a] # None => /\ copy[a].spec \in Specs[a]
                       /\ copy[a].status.inventory \subseteq Territory(a)
  /\ pc[a] = "apply" => todo[a] \subseteq Desired(a)
  /\ pc[a] \in {"prune", "delete"} => todo[a] \subseteq copy[a].status.inventory \ Desired(a)

StaleInv == \A a \in Apps : Stale(a)

\* A step of one reconcile is none of the others'.
LEMMA StaleOthers ==
  ASSUME StaleInv, NEW a \in Apps, OnlyJob(a), Stale(a)' PROVE StaleInv'
<1> SUFFICES ASSUME NEW b \in Apps \ {a} PROVE Stale(b)'
  BY DEF StaleInv
<1>1. /\ UNCHANGED <<pc[b], copy[b], sha[b], todo[b]>> /\ app'[b] = app[b]
  BY DEF OnlyJob, SameJob
<1>2. Territory(b)' = Territory(b) /\ Desired(b)' = Desired(b)
  BY <1>1 DEF Territory, Desired
<1> QED
  BY <1>1, <1>2 DEF StaleInv, Stale

\* Steps after which nothing is being applied or pruned.
LEMMA StaleDone ==
  ASSUME StaleInv, NEW a \in Apps, OnlyJob(a), OnRecord(a),
         pc'[a] \notin {"apply", "prune", "delete"},
         \/ copy'[a] \in {None, copy[a]}
         \/ /\ copy'[a].spec = copy[a].spec /\ copy[a] # None
            /\ copy'[a].status.inventory \subseteq Territory(a)
  PROVE  StaleInv'
<1>1. Territory(a)' = Territory(a)
  BY DEF Territory
<1>2. Stale(a)'
  BY <1>1 DEF StaleInv, Stale, OnRecord
<1> QED
  BY <1>2, StaleOthers

LEMMA StaleAdvance ==
  ASSUME TypeInv, StaleInv, NEW a \in Apps, NEW step, NEW t, Goto(a, step, t), UNCHANGED app,
         step = "apply" => t \subseteq Desired(a),
         step \in {"prune", "delete"} => t \subseteq copy[a].status.inventory \ Desired(a)
  PROVE  StaleInv'
<1>1. pc'[a] = step /\ todo'[a] = t /\ UNCHANGED <<copy, sha>>
  BY DEF Goto, TypeInv, TypeOK, JobOK
<1>2. Desired(a)' = Desired(a) /\ Territory(a)' = Territory(a)
  BY <1>1 DEF Desired, Territory
<1>3. Stale(a)'
  BY <1>1, <1>2 DEF StaleInv, Stale
<1>4. OnlyJob(a)
  BY OnlyJobMoves DEF OnlyJob
<1> QED
  BY <1>3, <1>4, StaleOthers

LEMMA StaleStep == TypeInv /\ StaleInv /\ [Next]_vars => StaleInv'
<1> SUFFICES ASSUME TypeInv, StaleInv, [Next]_vars PROVE StaleInv'
  OBVIOUS
<1>1. ASSUME NEW a \in Apps, ReadApp(a) PROVE StaleInv'
  <2>1. PICK step \in {"suspend", "fetch", "fail"}, status \in {"True", "False"} : Begin(a, step, status)
    BY <1>1 DEF ReadApp, BeginSuspended, BeginInvalid, BeginValid
  <2>2. /\ pc'[a] = step /\ copy'[a] = app[a] /\ app[a] # None /\ UNCHANGED app
    BY <2>1 DEF Begin, cluster, TypeInv, TypeOK, JobOK
  <2>3. Stale(a)'
    BY <2>2 DEF StaleInv, Stale, Territory
  <2>4. OnlyJob(a)
    BY <2>1, <2>2, OnlyJobMoves DEF OnlyJob
  <2> QED
    BY <2>3, <2>4, StaleOthers
\* A status patch keeps the spec and writes an inventory of the application.
<1>2. ASSUME NEW a \in Apps, UpdateSuspended(a) \/ Fail(a) \/ UpdateSuccess(a) \/ StatusLost(a)
      PROVE  StaleInv'
  <2>1. copy[a] # None /\ copy[a] \in GitApplication
    BY <1>2 DEF UpdateSuspended, Fail, UpdateSuccess, StatusLost, TypeInv, TypeOK, JobOK, LocalsOK
  <2>2. /\ SuspendedStatus(a) \in Status /\ SuspendedStatus(a).inventory = copy[a].status.inventory
        /\ FailedStatus(a) \in Status /\ FailedStatus(a).inventory = copy[a].status.inventory
    BY <2>1, SuspendedStatusType, FailedStatusType
       DEF SuspendedStatus, FailedStatus, GitApplication, Status, TypeInv
  <2>3. copy[a].status.inventory \subseteq Territory(a)
    BY <2>1 DEF StaleInv, Stale
  <2>4. pc[a] = "success" => /\ SuccessStatus(a) \in Status
                             /\ SuccessStatus(a).inventory \subseteq Territory(a)
    BY <2>1, SuccessStatusType DEF SuccessStatus, TypeInv, LocalsOK, StaleInv, Stale, Desired, Territory
  <2>5. OnRecord(a)
    <3>1. CASE UpdateSuspended(a) \/ Fail(a)
      BY <2>1, <2>2, <2>3, <3>1, OnRecordPatch DEF UpdateSuspended, Fail, StaleInv, Stale
    <3>2. CASE UpdateSuccess(a)
      BY <2>1, <2>4, <3>2, OnRecordPatch DEF UpdateSuccess, StaleInv, Stale
    <3>3. CASE StatusLost(a)
      BY <3>3 DEF StatusLost, cluster, OnRecord, StaleInv, Stale
    <3> QED
      BY <1>2, <3>1, <3>2, <3>3
  <2>6. /\ Return({a}) /\ (UNCHANGED app \/ \E m : PatchStatus(a, m))
    BY <1>2 DEF UpdateSuspended, Fail, UpdateSuccess, StatusLost, cluster
  <2>7. OnlyJob(a)
    BY <2>6, OnlyJobMoves DEF OnlyJob
  <2> QED
    BY <2>5, <2>6, <2>7, StaleDone DEF Return
<1>3. ASSUME NEW a \in Apps, Checkout(a) PROVE StaleInv'
  <2>1. copy[a] \in GitApplication /\ copy[a] # None
    BY <1>3 DEF Checkout, TypeInv, TypeOK, JobOK, LocalsOK
  <2>2. /\ copy'[a].spec = copy[a].spec
        /\ copy'[a].status.inventory = copy[a].status.inventory
        /\ pc'[a] = "render" /\ UNCHANGED app
    BY <1>3, <2>1 DEF Checkout, cluster, GitApplication, Status, TypeInv, TypeOK, JobOK
  <2>3. OnlyJob(a)
    BY <1>3, <2>2, OnlyJobMoves DEF OnlyJob
  <2> QED
    BY <2>1, <2>2, <2>3, StaleDone DEF StaleInv, Stale, OnRecord
<1>4. ASSUME NEW a \in Apps, \E status : FailNext(a, status), UNCHANGED app PROVE StaleInv'
  <2>1. pc'[a] = "fail" /\ UNCHANGED copy
    BY <1>4 DEF FailNext, TypeInv, TypeOK, JobOK
  <2>2. OnlyJob(a)
    BY <1>4, OnlyJobMoves DEF OnlyJob
  <2> QED
    BY <1>4, <2>1, <2>2, StaleDone DEF OnRecord, StaleInv, Stale
<1>5. ASSUME NEW a \in Apps, CheckoutFails(a) \/ RenderFails(a) \/ PruneReadFails(a) PROVE StaleInv'
  BY <1>5, <1>4 DEF CheckoutFails, RenderFails, PruneReadFails, cluster
<1>6. ASSUME NEW a \in Apps, NEW r \in todo[a],
             ApplyConflict(a, r) \/ DeleteNotFound(a, r) \/ ApplyFails(a, r) \/ DeleteFails(a, r)
      PROVE  StaleInv'
  BY <1>6, <1>4 DEF ApplyConflict, DeleteNotFound, ApplyFails, DeleteFails, cluster
<1>7. ASSUME NEW a \in Apps, Render(a) PROVE StaleInv'
  BY <1>7, <1>4, StaleAdvance DEF Render, cluster
<1>8. ASSUME NEW a \in Apps, ApplyDone(a) \/ PruneDone(a) PROVE StaleInv'
  BY <1>8, StaleAdvance DEF ApplyDone, PruneDone, Diff, cluster
<1>9. ASSUME NEW a \in Apps, NEW r \in todo[a],
             ApplyObject(a, r) \/ PassOver(a, r) \/ Condemn(a, r) \/ DeleteObject(a, r)
      PROVE  StaleInv'
  <2>1. UNCHANGED app /\ pc[a] \in {"apply", "prune", "delete"}
    BY <1>9 DEF ApplyObject, PassOver, Condemn, DeleteObject, cluster
  <2>2. \E step : \E t \in {todo[a], todo[a] \ {r}} :
          Goto(a, step, t) /\ (step = "apply" <=> pc[a] = "apply")
    BY <1>9 DEF ApplyObject, PassOver, Condemn, DeleteObject
  <2> QED
    BY <2>1, <2>2, StaleAdvance DEF StaleInv, Stale
<1>10. ASSUME NEW a \in Apps, UpdateSuccessNotFound(a) \/ UpdateSuccessFails(a) PROVE StaleInv'
  <2>1. /\ SuccessRejected(a) /\ pc[a] = "success"
        /\ UNCHANGED app \/ (app[a] # None /\ PatchStatus(a, SuccessStatus(a)))
    BY <1>10 DEF UpdateSuccessNotFound, UpdateSuccessFails
  <2>2. copy[a] # None /\ copy[a] \in GitApplication /\ sha[a] \in Revisions
    BY <2>1 DEF TypeInv, TypeOK, JobOK, LocalsOK
  <2>3. SuccessStatus(a) \in Status /\ SuccessStatus(a).inventory \subseteq Territory(a)
    BY <2>2, SuccessStatusType DEF SuccessStatus, TypeInv, StaleInv, Stale, Desired, Territory
  <2>4. OnRecord(a)
    <3>1. CASE UNCHANGED app
      BY <3>1 DEF OnRecord, StaleInv, Stale
    <3>2. CASE app[a] # None /\ PatchStatus(a, SuccessStatus(a))
      BY <2>2, <2>3, <3>2, OnRecordPatch DEF StaleInv, Stale
    <3> QED
      BY <2>1, <3>1, <3>2
  <2>5. copy' = [copy EXCEPT ![a] = [copy[a] EXCEPT !.status = SuccessStatus(a)]] /\ pc'[a] = "fail"
    BY <2>1 DEF SuccessRejected, TypeInv, TypeOK, JobOK
  <2>6. copy'[a].spec = copy[a].spec /\ copy'[a].status = SuccessStatus(a)
    BY <2>2, <2>5 DEF GitApplication, TypeInv, TypeOK, JobOK
  <2>7. OnlyJob(a)
    BY <2>1, OnlyJobMoves DEF OnlyJob
  <2> QED
    BY <2>2, <2>3, <2>4, <2>5, <2>6, <2>7, StaleDone
<1>11. ASSUME Crash PROVE StaleInv'
  <2>1. \A a \in Apps : pc'[a] = "idle" /\ copy'[a] = None
    BY <1>11 DEF Crash, Return
  <2>2. UNCHANGED app
    BY <1>11 DEF Crash, cluster
  <2> QED
    BY <2>1, <2>2 DEF StaleInv, Stale, Territory
<1>12. ASSUME NEW a \in Apps, Create(a) \/ EditSpec(a) \/ MarkDeleted(a) \/ Remove(a) PROVE StaleInv'
  <2>1. UNCHANGED job
    BY <1>12 DEF Create, EditSpec, MarkDeleted, Remove
  <2>2. \A b \in Apps \ {a} : app'[b] = app[b]
    BY <1>12 DEF Create, EditSpec, MarkDeleted, Remove, TypeInv, TypeOK, ClusterOK
  <2>3. OnRecord(a)
    <3>1. CASE Create(a)
      BY <3>1 DEF Create, OnRecord, EmptyStatus, TypeInv, TypeOK, ClusterOK
    <3>2. CASE EditSpec(a)
      BY <3>2 DEF EditSpec, OnRecord, StaleInv, Stale, GitApplication, TypeInv, TypeOK, ClusterOK
    <3>3. CASE MarkDeleted(a)
      BY <3>3 DEF MarkDeleted, OnRecord, StaleInv, Stale, GitApplication, TypeInv, TypeOK, ClusterOK
    <3>4. CASE Remove(a)
      BY <3>4 DEF Remove, OnRecord, TypeInv, TypeOK, ClusterOK
    <3> QED
      BY <1>12, <3>1, <3>2, <3>3, <3>4
  <2>4. Desired(a)' = Desired(a) /\ Territory(a)' = Territory(a)
    BY <2>1 DEF Desired, Territory, job
  <2>5. Stale(a)'
    BY <2>1, <2>3, <2>4 DEF OnRecord, StaleInv, Stale, job
  <2>6. OnlyJob(a)
    BY <2>1, <2>2 DEF OnlyJob, SameJob, job
  <2> QED
    BY <2>5, <2>6, StaleOthers
<1>13. CASE Push \/ UNCHANGED vars \/ (\E o \in Objects : Meddle(o)) \/ \E a \in Apps : ReadNothing(a)
  <2>1. UNCHANGED <<app, job>>
    BY <1>13 DEF Push, Meddle, ReadNothing, vars, job
  <2> QED
    BY <2>1 DEF StaleInv, Stale, Desired, Territory, job
<1> QED
  BY <1>1, <1>2, <1>3, <1>5, <1>6, <1>7, <1>8, <1>9, <1>10, <1>11, <1>12, <1>13
     DEF Next, Advance, CallFails, Users

\* What is still to be pruned is not what Git has in another version.
LEMMA StaleIsOther ==
  ASSUME SteadyVersions, TypeInv, StaleInv, NEW a \in Apps, pc[a] \in {"prune", "delete"},
         NEW r \in todo[a], NEW d \in Desired(a)
  PROVE  d.object # r.object
<1>1. copy[a] # None /\ sha[a] \in Revisions
  BY DEF TypeInv, LocalsOK
<1>2. r \in copy[a].status.inventory \ Desired(a) /\ r \in Territory(a)
  BY <1>1 DEF StaleInv, Stale
<1>3. d \in Territory(a)
  BY <1>1 DEF StaleInv, Stale, Desired, Territory
<1> QED
  BY <1>2, <1>3 DEF SteadyVersions

\* As long as no commit moves an object to another API version, prune never
\* deletes what Git has: with any number of workers, applications that take
\* objects from each other, failures, crashes and changes by hand.  (Run
\* VersionBump shows that the condition is needed.)
THEOREM PruneIsOfStale ==
  ASSUME SteadyVersions
  PROVE  Spec => []PruneSparesDesired
<1>1. Init => TypeInv /\ StaleInv
  BY BoundAssumption
     DEF Init, TypeInv, TypeOK, ClusterOK, JobOK, SpentOK, LocalsOK, UidsOK, Steps, StaleInv, Stale
<1>2. TypeInv /\ StaleInv /\ [Next]_vars => TypeInv' /\ StaleInv'
  BY TypeInvStep, StaleStep
<1>3. TypeInv /\ StaleInv => PruneSparesDesired
  BY StaleIsOther DEF PruneSparesDesired, NextToPrune
<1> QED
  BY <1>1, <1>2, <1>3, PTL DEF Spec

(***************************************************************************)
(* PruneDeletesOnlyOwn, with one worker and nobody else at the objects:    *)
(* between the read that finds the marks of an object and its delete there *)
(* is then no step that could take the marks away.                         *)
(***************************************************************************)
OneAtATime == \A a, b \in Apps : pc[a] # "idle" /\ pc[b] # "idle" => a = b

Own(a) ==
  /\ pc[a] \in {"prune", "delete"} => todo[a] \subseteq copy[a].status.inventory
  /\ pc[a] = "delete" =>
       \A r \in NextToPrune(a) :
         live[r.object] = None \/ CarriesMarks(copy[a].uid, r.object)

OwnInv == OneAtATime /\ \A a \in Apps : Own(a)

\* The reconcile that is under way makes a step.
LEMMA OwnAlone ==
  ASSUME OwnInv, NEW a \in Apps, pc[a] # "idle", OnlyJob(a), Own(a)'
  PROVE  OwnInv'
<1>1. \A b \in Apps \ {a} : pc'[b] = "idle"
  BY DEF OwnInv, OneAtATime, OnlyJob, SameJob
<1> QED
  BY <1>1 DEF OwnInv, OneAtATime, Own

\* The order of Key() is total: one reference is the next to prune.
LEMMA NextToPruneUnique ==
  ASSUME TypeInv, NEW a \in Apps, NEW r \in NextToPrune(a), NEW s \in NextToPrune(a)
  PROVE  r = s
<1>1. /\ r \in Refs /\ s \in Refs
      /\ KeyOrder[r] <= KeyOrder[s] /\ KeyOrder[s] <= KeyOrder[r]
  BY DEF NextToPrune, TypeInv, TypeOK, JobOK
<1>2. KeyOrder[r] \in Nat /\ KeyOrder[s] \in Nat
  BY <1>1, OrderAssumption
<1> QED
  BY <1>1, <1>2, OrderAssumption

LEMMA OwnStep ==
  ASSUME ConcurrentReconciles = 1, MaxMeddles = 0, IsFiniteSet(Apps)
  PROVE  TypeInv /\ OwnInv /\ [Next]_vars => OwnInv'
<1> SUFFICES ASSUME TypeInv, OwnInv, [Next]_vars PROVE OwnInv'
  OBVIOUS
<1>1. ASSUME NEW a \in Apps, ReadApp(a) PROVE OwnInv'
  <2>1. PICK step \in {"suspend", "fetch", "fail"}, status \in {"True", "False"} : Begin(a, step, status)
    BY <1>1 DEF ReadApp, BeginSuspended, BeginInvalid, BeginValid
  <2> DEFINE busy == {b \in Apps : pc[b] # "idle"}
  <2>2. busy = {}
    <3>1. IsFiniteSet(busy) /\ Cardinality(busy) \in Nat
      BY FS_Subset, FS_CardinalityType
    <3>2. Cardinality(busy) < 1
      BY <2>1 DEF Begin
    <3> HIDE DEF busy
    <3>3. Cardinality(busy) = 0
      BY <3>1, <3>2
    <3> QED
      BY <3>1, <3>3, FS_EmptySet
  <2>3. /\ pc'[a] = step
        /\ \A b \in Apps \ {a} : pc'[b] = "idle"
    BY <2>1, <2>2 DEF Begin, TypeInv, TypeOK, JobOK
  <2> QED
    BY <2>3 DEF OwnInv, OneAtATime, Own
\* Steps that end the reconcile or lead to a step before prune.
<1>2. ASSUME NEW a \in Apps, pc[a] # "idle",
             \/ Return({a}) /\ (UNCHANGED app \/ \E m : PatchStatus(a, m))
             \/ (\E status : FailNext(a, status)) /\ UNCHANGED app
             \/ (\E step \in {"apply", "success"} : \E t : Goto(a, step, t)) /\ UNCHANGED app
      PROVE  OwnInv'
  <2>1. pc'[a] \in {"idle", "fail", "apply", "success"}
    BY <1>2 DEF Return, FailNext, Goto, TypeInv, TypeOK, JobOK
  <2>2. OnlyJob(a)
    BY <1>2, OnlyJobMoves DEF OnlyJob
  <2> QED
    BY <1>2, <2>1, <2>2, OwnAlone DEF Own
<1>3. ASSUME NEW a \in Apps,
             UpdateSuspended(a) \/ Fail(a) \/ UpdateSuccess(a) \/ StatusLost(a)
      PROVE  OwnInv'
  BY <1>2, <1>3 DEF UpdateSuspended, Fail, UpdateSuccess, StatusLost, cluster
<1>4. ASSUME NEW a \in Apps, NEW r \in todo[a],
             \/ CheckoutFails(a) \/ RenderFails(a) \/ PruneReadFails(a)
             \/ ApplyConflict(a, r) \/ DeleteNotFound(a, r)
             \/ ApplyFails(a, r) \/ DeleteFails(a, r)
      PROVE  OwnInv'
  BY <1>2, <1>4
     DEF CheckoutFails, RenderFails, PruneReadFails, ApplyConflict, DeleteNotFound,
         ApplyFails, DeleteFails, cluster
<1>5. ASSUME NEW a \in Apps, CheckoutFails(a) \/ RenderFails(a) \/ PruneReadFails(a)
      PROVE  OwnInv'
  BY <1>2, <1>5 DEF CheckoutFails, RenderFails, PruneReadFails, cluster
<1>6. ASSUME NEW a \in Apps, Checkout(a) PROVE OwnInv'
  <2>1. pc[a] # "idle" /\ pc'[a] = "render" /\ UNCHANGED app
    BY <1>6 DEF Checkout, cluster, TypeInv, TypeOK, JobOK
  <2>2. OnlyJob(a)
    BY <1>6, <2>1, OnlyJobMoves DEF OnlyJob
  <2> QED
    BY <2>1, <2>2, OwnAlone DEF Own
<1>7. ASSUME NEW a \in Apps, Render(a) PROVE OwnInv'
  BY <1>2, <1>7 DEF Render, cluster
<1>8. ASSUME NEW a \in Apps, NEW r \in todo[a], ApplyObject(a, r) PROVE OwnInv'
  BY <1>2, <1>8 DEF ApplyObject
\* Steps that stay in or enter prune.
<1>9. ASSUME NEW a \in Apps, pc[a] # "idle", NEW t \in SUBSET copy[a].status.inventory,
             Goto(a, "prune", t), UNCHANGED app
      PROVE  OwnInv'
  <2>1. pc'[a] = "prune" /\ todo'[a] = t /\ copy'[a] = copy[a]
    BY <1>9 DEF Goto, TypeInv, TypeOK, JobOK
  <2>2. OnlyJob(a)
    BY <1>9, OnlyJobMoves DEF OnlyJob
  <2> QED
    BY <1>9, <2>1, <2>2, OwnAlone DEF Own
<1>10. ASSUME NEW a \in Apps, ApplyDone(a) PROVE OwnInv'
  <2>1. pc[a] # "idle" /\ UNCHANGED app
    BY <1>10 DEF ApplyDone, cluster
  <2>2. CASE copy[a].spec.prune
    <3>1. Goto(a, "prune", Diff(copy[a].status.inventory, Desired(a)))
      BY <1>10, <2>2, Zenon DEF ApplyDone
    <3> QED
      BY <2>1, <3>1, <1>9 DEF Diff
  <2>3. CASE ~copy[a].spec.prune
    BY <1>10, <2>1, <2>3, <1>2 DEF ApplyDone
  <2> QED
    BY <2>2, <2>3
<1>11. ASSUME NEW a \in Apps, NEW r \in todo[a], PassOver(a, r) \/ DeleteObject(a, r)
       PROVE  OwnInv'
  <2>1. pc[a] \in {"prune", "delete"} /\ UNCHANGED app /\ Goto(a, "prune", todo[a] \ {r})
    BY <1>11 DEF PassOver, DeleteObject, cluster
  <2>2. todo[a] \ {r} \in SUBSET copy[a].status.inventory
    BY <2>1 DEF OwnInv, Own
  <2> QED
    BY <2>1, <2>2, <1>9
<1>12. ASSUME NEW a \in Apps, PruneDone(a) PROVE OwnInv'
  BY <1>2, <1>12 DEF PruneDone, cluster
\* The marks are there when an object is condemned.
<1>13. ASSUME NEW a \in Apps, NEW r \in todo[a], Condemn(a, r) PROVE OwnInv'
  <2>1. /\ pc[a] = "prune" /\ Goto(a, "delete", todo[a]) /\ UNCHANGED <<app, live>>
        /\ r \in NextToPrune(a) /\ CarriesMarks(copy[a].uid, r.object)
    BY <1>13 DEF Condemn, cluster
  <2>2. pc'[a] = "delete" /\ todo'[a] = todo[a] /\ copy'[a] = copy[a]
    BY <2>1 DEF Goto, TypeInv, TypeOK, JobOK
  <2>3. NextToPrune(a)' = NextToPrune(a)
    BY <2>2 DEF NextToPrune
  <2>4. ASSUME NEW s \in NextToPrune(a)' PROVE CarriesMarks(copy[a].uid, s.object)'
    <3>1. s = r
      BY <2>1, <2>3, <2>4, NextToPruneUnique
    <3> QED
      BY <2>1, <2>2, <3>1 DEF CarriesMarks
  <2>5. Own(a)'
    BY <2>1, <2>2, <2>4 DEF OwnInv, Own
  <2>6. OnlyJob(a)
    BY <2>1, OnlyJobMoves DEF OnlyJob
  <2> QED
    BY <2>1, <2>5, <2>6, OwnAlone
<1>14. ASSUME NEW a \in Apps, UpdateSuccessNotFound(a) \/ UpdateSuccessFails(a) PROVE OwnInv'
  <2>1. /\ SuccessRejected(a) /\ pc[a] # "idle"
        /\ UNCHANGED app \/ \E m : PatchStatus(a, m)
    BY <1>14 DEF UpdateSuccessNotFound, UpdateSuccessFails
  <2>2. pc'[a] = "fail"
    BY <2>1 DEF SuccessRejected, TypeInv, TypeOK, JobOK
  <2>3. OnlyJob(a)
    BY <2>1, OnlyJobMoves DEF OnlyJob
  <2> QED
    BY <2>1, <2>2, <2>3, OwnAlone DEF Own
<1>15. ASSUME Crash PROVE OwnInv'
  <2>1. \A a \in Apps : pc'[a] = "idle"
    BY <1>15 DEF Crash, Return
  <2> QED
    BY <2>1 DEF OwnInv, OneAtATime, Own
<1>16. CASE UNCHANGED <<job, live>>
  <2>1. /\ UNCHANGED <<pc, copy, todo, live>>
        /\ \A a \in Apps : NextToPrune(a)' = NextToPrune(a)
    BY <1>16 DEF job, NextToPrune
  <2>2. \A a \in Apps : Own(a)'
    BY <2>1 DEF OwnInv, Own, CarriesMarks
  <2>3. OneAtATime'
    BY <2>1 DEF OwnInv, OneAtATime
  <2> QED
    BY <2>2, <2>3 DEF OwnInv
<1>17. ASSUME NEW a \in Apps,
              Create(a) \/ EditSpec(a) \/ MarkDeleted(a) \/ Remove(a) \/ ReadNothing(a)
       PROVE  OwnInv'
  BY <1>16, <1>17 DEF Create, EditSpec, MarkDeleted, Remove, ReadNothing, vars, job
<1>18. CASE Push \/ UNCHANGED vars
  BY <1>16, <1>18 DEF Push, vars, job
<1>19. ASSUME NEW o \in Objects, Meddle(o) PROVE OwnInv'
  BY <1>19 DEF Meddle, CountMeddle, TypeInv, TypeOK, SpentOK
<1> QED
  BY <1>1, <1>3, <1>4, <1>5, <1>6, <1>7, <1>8, <1>10, <1>11, <1>12, <1>13, <1>14, <1>15,
     <1>17, <1>18, <1>19
     DEF Next, Advance, CallFails, Users

\* With one worker, and nobody else at the objects of the cluster, no prune
\* deletes an object that is not in the inventory it started from or has
\* lost the marks of the application: for any number of applications that
\* render to whatever they like, with failed calls, crashes and edits.
THEOREM OneWorkerPrunesOnlyOwn ==
  ASSUME ConcurrentReconciles = 1, MaxMeddles = 0, IsFiniteSet(Apps)
  PROVE  Spec => []PruneDeletesOnlyOwn
<1>1. Init => TypeInv /\ OwnInv
  BY BoundAssumption
     DEF Init, TypeInv, TypeOK, ClusterOK, JobOK, SpentOK, LocalsOK, UidsOK, Steps,
         OwnInv, OneAtATime, Own
<1>2. TypeInv /\ OwnInv /\ [Next]_vars => TypeInv' /\ OwnInv'
  BY TypeInvStep, OwnStep
<1>3. OwnInv => PruneDeletesOnlyOwn
  BY DEF OwnInv, Own, NextToPrune, PruneDeletesOnlyOwn
<1> QED
  BY <1>1, <1>2, <1>3, PTL DEF Spec

(***************************************************************************)
(* SuccessMeansApplied again, for applications that may render the same    *)
(* objects: one worker is then enough, if no commit moves an object of an  *)
(* application to another API version.  While a reconcile is under way     *)
(* every other one rests, so what it has put in place stays there, and     *)
(* what it prunes is no object of the commit.                              *)
(***************************************************************************)
Finished(a) ==
  /\ pc[a] = "apply" => \A r \in Desired(a) \ todo[a] : InPlace(a, r.object)
  /\ pc[a] \in {"prune", "delete", "success"} => \A r \in Desired(a) : InPlace(a, r.object)

FinishedInv == \A a \in Apps : Finished(a)

\* The reconcile that is under way makes a step.
LEMMA FinishedAlone ==
  ASSUME OneAtATime, FinishedInv, NEW a \in Apps, pc[a] # "idle", OnlyJob(a), Finished(a)'
  PROVE  FinishedInv'
<1>1. \A b \in Apps \ {a} : pc'[b] = "idle"
  BY DEF OneAtATime, OnlyJob, SameJob
<1> QED
  BY <1>1 DEF FinishedInv, Finished

\* It goes on, and what it needs is in place afterwards.
LEMMA FinishedAdvance ==
  ASSUME TypeInv, OneAtATime, FinishedInv, NEW a \in Apps, pc[a] # "idle", UNCHANGED app,
         NEW step \in {"apply", "prune", "delete", "success"}, NEW t, Goto(a, step, t),
         step = "apply" => \A r \in Desired(a) \ t : InPlace(a, r.object)',
         step # "apply" => \A r \in Desired(a) : InPlace(a, r.object)'
  PROVE  FinishedInv'
<1>1. pc'[a] = step /\ todo'[a] = t /\ UNCHANGED <<copy, sha>>
  BY DEF Goto, TypeInv, TypeOK, JobOK
<1>2. Desired(a)' = Desired(a)
  BY <1>1 DEF Desired
<1>3. Finished(a)'
  BY <1>1, <1>2 DEF Finished
<1>4. OnlyJob(a)
  BY OnlyJobMoves DEF OnlyJob
<1> QED
  BY <1>3, <1>4, FinishedAlone

LEMMA FinishedStep ==
  ASSUME MaxMeddles = 0, SteadyVersions
  PROVE  TypeInv /\ OwnInv /\ OwnInv' /\ StaleInv /\ FinishedInv /\ [Next]_vars => FinishedInv'
<1> SUFFICES ASSUME TypeInv, OwnInv, OwnInv', StaleInv, FinishedInv, [Next]_vars
             PROVE  FinishedInv'
  OBVIOUS
<1>a. OneAtATime /\ OneAtATime'
  BY DEF OwnInv
<1>1. ASSUME NEW a \in Apps, ReadApp(a) PROVE FinishedInv'
  <2>1. PICK step \in {"suspend", "fetch", "fail"}, status \in {"True", "False"} : Begin(a, step, status)
    BY <1>1 DEF ReadApp, BeginSuspended, BeginInvalid, BeginValid
  <2>2. pc'[a] = step
    BY <2>1 DEF Begin, TypeInv, TypeOK, JobOK
  <2>3. \A b \in Apps \ {a} : pc'[b] = "idle"
    BY <1>a, <2>2 DEF OneAtATime
  <2> QED
    BY <2>2, <2>3 DEF FinishedInv, Finished
\* Steps after which the reconcile promises nothing about the cluster.
<1>2. ASSUME NEW a \in Apps, pc[a] # "idle",
             \/ Return({a}) /\ (UNCHANGED app \/ \E m : PatchStatus(a, m))
             \/ (\E status : FailNext(a, status)) /\ UNCHANGED app
             \/ SuccessRejected(a) /\ (UNCHANGED app \/ \E m : PatchStatus(a, m))
             \/ Checkout(a)
      PROVE  FinishedInv'
  <2>1. pc'[a] \in {"idle", "fail", "render"}
    BY <1>2 DEF Return, FailNext, SuccessRejected, Checkout, TypeInv, TypeOK, JobOK
  <2>2. OnlyJob(a)
    BY <1>2, OnlyJobMoves DEF OnlyJob, Checkout, cluster
  <2> QED
    BY <1>2, <1>a, <2>1, <2>2, FinishedAlone DEF Finished
<1>3. ASSUME NEW a \in Apps,
             \/ UpdateSuspended(a) \/ Fail(a) \/ UpdateSuccess(a) \/ StatusLost(a)
             \/ UpdateSuccessNotFound(a) \/ UpdateSuccessFails(a) \/ Checkout(a)
      PROVE  FinishedInv'
  <2>1. CASE UpdateSuspended(a) \/ Fail(a) \/ UpdateSuccess(a) \/ StatusLost(a)
    BY <1>2, <2>1 DEF UpdateSuspended, Fail, UpdateSuccess, StatusLost, cluster
  <2>2. CASE UpdateSuccessNotFound(a) \/ UpdateSuccessFails(a)
    BY <1>2, <2>2 DEF UpdateSuccessNotFound, UpdateSuccessFails
  <2>3. CASE Checkout(a)
    <3>1. pc[a] # "idle"
      BY <2>3 DEF Checkout
    <3> QED
      BY <1>2, <2>3, <3>1
  <2> QED
    BY <1>3, <2>1, <2>2, <2>3
<1>4. ASSUME NEW a \in Apps, CheckoutFails(a) \/ RenderFails(a) \/ PruneReadFails(a)
      PROVE  FinishedInv'
  BY <1>2, <1>4 DEF CheckoutFails, RenderFails, PruneReadFails, cluster
<1>5. ASSUME NEW a \in Apps, NEW r \in todo[a],
             ApplyConflict(a, r) \/ DeleteNotFound(a, r) \/ ApplyFails(a, r) \/ DeleteFails(a, r)
      PROVE  FinishedInv'
  BY <1>2, <1>5 DEF ApplyConflict, DeleteNotFound, ApplyFails, DeleteFails, cluster
<1>6. ASSUME NEW a \in Apps, Render(a) PROVE FinishedInv'
  <2>1. pc[a] # "idle" /\ UNCHANGED app
    BY <1>6 DEF Render, cluster
  <2>2. CASE Goto(a, "apply", Desired(a))
    BY <1>a, <2>1, <2>2, FinishedAdvance
  <2> QED
    BY <1>2, <1>6, <2>1, <2>2 DEF Render
<1>7. ASSUME NEW a \in Apps, NEW r \in todo[a], ApplyObject(a, r) PROVE FinishedInv'
  <2>1. pc[a] = "apply" /\ Goto(a, "apply", todo[a] \ {r}) /\ live' = Applied(a, r) /\ UNCHANGED app
    BY <1>7 DEF ApplyObject
  <2>2. copy[a] # None /\ sha[a] \in Revisions
    BY <2>1 DEF TypeInv, LocalsOK
  <2>3. UNCHANGED <<copy, sha>>
    BY <2>1 DEF Goto
  <2>4. \A s \in Desired(a) : s = r \/ InPlace(a, s.object) => InPlace(a, s.object)'
    BY <2>1, <2>2, <2>3, AppliedInPlace, DesiredType DEF TypeInv
  <2>5. \A s \in Desired(a) \ (todo[a] \ {r}) : InPlace(a, s.object)'
    BY <2>1, <2>4 DEF FinishedInv, Finished
  <2> QED
    BY <1>a, <2>1, <2>5, FinishedAdvance
\* Steps that leave the cluster alone.
<1>8. ASSUME NEW a \in Apps, pc[a] \in {"apply", "prune", "delete"}, pc[a] = "apply" => todo[a] = {},
             NEW step \in {"prune", "delete", "success"}, NEW t, Goto(a, step, t),
             UNCHANGED <<app, live>>
      PROVE  FinishedInv'
  <2>1. \A s \in Desired(a) : InPlace(a, s.object)
    BY <1>8 DEF FinishedInv, Finished
  <2>2. UNCHANGED <<copy, sha, live>>
    BY <1>8 DEF Goto
  <2>3. \A s \in Desired(a) : InPlace(a, s.object)'
    BY <2>1, <2>2 DEF InPlace, CarriesMarks
  <2> QED
    BY <1>8, <1>a, <2>3, FinishedAdvance
<1>9. ASSUME NEW a \in Apps, ApplyDone(a) \/ PruneDone(a) PROVE FinishedInv'
  BY <1>8, <1>9 DEF ApplyDone, PruneDone, cluster
<1>10. ASSUME NEW a \in Apps, NEW r \in todo[a], PassOver(a, r) \/ Condemn(a, r) PROVE FinishedInv'
  BY <1>8, <1>10 DEF PassOver, Condemn, cluster
\* What is pruned is no object of the commit.
<1>11. ASSUME NEW a \in Apps, NEW r \in todo[a], DeleteObject(a, r) PROVE FinishedInv'
  <2>1. /\ pc[a] = "delete" /\ Goto(a, "prune", todo[a] \ {r}) /\ UNCHANGED app
        /\ live' = [live EXCEPT ![r.object] = None]
    BY <1>11 DEF DeleteObject
  <2>2. UNCHANGED <<copy, sha>>
    BY <2>1 DEF Goto
  <2>3. ASSUME NEW s \in Desired(a) PROVE InPlace(a, s.object)'
    <3>1. s.object # r.object
      BY <2>1, StaleIsOther
    <3>2. live'[s.object] = live[s.object]
      BY <2>1, <3>1 DEF TypeInv, TypeOK, ClusterOK
    <3>3. InPlace(a, s.object)
      BY <2>1 DEF FinishedInv, Finished
    <3> QED
      BY <2>2, <3>2, <3>3 DEF InPlace, CarriesMarks
  <2> QED
    BY <1>a, <2>1, <2>3, FinishedAdvance
<1>12. ASSUME Crash PROVE FinishedInv'
  <2>1. \A a \in Apps : pc'[a] = "idle"
    BY <1>12 DEF Crash, Return
  <2> QED
    BY <2>1 DEF FinishedInv, Finished
<1>13. CASE UNCHANGED <<job, live>>
  <2>1. UNCHANGED <<pc, copy, sha, todo, live>> /\ \A a \in Apps : Desired(a)' = Desired(a)
    BY <1>13 DEF job, Desired
  <2> QED
    BY <2>1 DEF FinishedInv, Finished, InPlace, CarriesMarks
<1>14. ASSUME NEW a \in Apps,
              Create(a) \/ EditSpec(a) \/ MarkDeleted(a) \/ Remove(a) \/ ReadNothing(a)
       PROVE  FinishedInv'
  BY <1>13, <1>14 DEF Create, EditSpec, MarkDeleted, Remove, ReadNothing, vars, job
<1>15. CASE Push \/ UNCHANGED vars
  BY <1>13, <1>15 DEF Push, vars, job
<1>16. ASSUME NEW o \in Objects, Meddle(o) PROVE FinishedInv'
  BY <1>16 DEF Meddle, CountMeddle, TypeInv, TypeOK, SpentOK
<1> QED
  BY <1>1, <1>3, <1>4, <1>5, <1>6, <1>7, <1>9, <1>10, <1>11, <1>12, <1>14, <1>15, <1>16
     DEF Next, Advance, CallFails, Users

\* With one worker, and nobody else at the objects of the cluster, a
\* reconcile that is about to report success has every object of the commit
\* in place, whatever objects the applications share or take from each
\* other, with failed calls, crashes and edits.
THEOREM OneWorkerSuccessIsTrue ==
  ASSUME ConcurrentReconciles = 1, MaxMeddles = 0, IsFiniteSet(Apps), SteadyVersions
  PROVE  Spec => []SuccessMeansApplied
<1> DEFINE Inv == TypeInv /\ OwnInv /\ StaleInv /\ FinishedInv
<1>1. Init => Inv
  BY BoundAssumption
     DEF Init, TypeInv, TypeOK, ClusterOK, JobOK, SpentOK, LocalsOK, UidsOK, Steps,
         OwnInv, OneAtATime, Own, StaleInv, Stale, FinishedInv, Finished
<1>2. Inv /\ [Next]_vars => Inv'
  <2>1. TypeInv /\ OwnInv /\ [Next]_vars => OwnInv'
    BY OwnStep
  <2>2. TypeInv /\ OwnInv /\ OwnInv' /\ StaleInv /\ FinishedInv /\ [Next]_vars => FinishedInv'
    BY FinishedStep
  <2> QED
    BY <2>1, <2>2, TypeInvStep, StaleStep
<1>3. Inv => SuccessMeansApplied
  BY DEF FinishedInv, Finished, InPlace, SuccessMeansApplied
<1> HIDE DEF Inv
<1> QED
  BY <1>1, <1>2, <1>3, PTL DEF Spec

(***************************************************************************)
(* StaysInSync, for applications that render no object of each other's.    *)
(* The reconcile of an application in sync has nothing to prune, and what  *)
(* it applies and reports is what is there already.                        *)
(***************************************************************************)
\* Settled in three parts: the application, its objects, its reconcile.
Reported(a) ==
  /\ app[a] # None /\ ~app[a].deleting
  /\ ~app[a].spec.suspend /\ Valid(app[a].spec)
  /\ Renders(app[a].spec.path, head) /\ Admitted(app[a].spec.path, head)
  /\ app[a].status.conditions = [ready |-> "True", stalled |-> "False"]
  /\ app[a].status.observedGeneration = app[a].generation
  /\ app[a].status.appliedRevision = head
  /\ app[a].status.inventory = Wanted(a)

Synced(a, o) ==
  /\ CarriesMarks(app[a].uid, o)
  /\ live[o].revision = head
  /\ ~live[o].contested \/ app[a].spec.takeover

AllSynced(a) == \A r \in Wanted(a) : Synced(a, r.object)

LEMMA SettledParts ==
  ASSUME NEW a \in Apps
  PROVE  /\ Settled(a) <=> Reported(a) /\ AllSynced(a) /\ UpToDate(a)
         /\ Settled(a)' <=> Reported(a)' /\ AllSynced(a)' /\ UpToDate(a)'
<1>1. Settled(a) <=> Reported(a) /\ AllSynced(a) /\ UpToDate(a)
  BY DEF Settled, Reconcilable, InSync, Reported, AllSynced, Synced, CarriesMarks
<1>2. Settled(a)' <=> Reported(a)' /\ AllSynced(a)' /\ UpToDate(a)'
  BY DEF Settled, Reconcilable, InSync, Reported, AllSynced, Synced, CarriesMarks
<1> QED
  BY <1>1, <1>2

LEMMA WantedType ==
  ASSUME TypeInv, StaleInv, NEW a \in Apps, app[a] # None
  PROVE  /\ Wanted(a) \in SUBSET Refs
         /\ Wanted(a) \in SUBSET Territory(a)
<1>1. app[a].spec \in Specs[a] /\ app[a].spec.path \in Paths /\ head \in Revisions
  BY DEF TypeInv, TypeOK, ClusterOK, GitApplication, SpecRecords, StaleInv, Stale
<1>2. Wanted(a) \in SUBSET Refs
  BY <1>1, ManifestAssumption DEF Wanted
<1>3. Wanted(a) \in SUBSET Territory(a)
  BY <1>1 DEF Wanted, Territory
<1> QED
  BY <1>2, <1>3

\* A reconcile that works from what is there renders what is wanted.
LEMMA DesiredIsWanted ==
  ASSUME NEW a \in Apps, Settled(a), pc[a] \notin {"idle", "fetch"}
  PROVE  Desired(a) = Wanted(a) /\ sha[a] = head
BY DEF Settled, UpToDate, Desired, Wanted

\* The application stays as it is, and its objects stay current.
LEMMA SettledFrame ==
  ASSUME NEW a \in Apps, Settled(a), app'[a] = app[a], UNCHANGED head,
         \A r \in Wanted(a) : live'[r.object] = live[r.object] \/ Synced(a, r.object)',
         UpToDate(a)'
  PROVE  Settled(a)'
<1>1. Wanted(a)' = Wanted(a)
  BY DEF Wanted
<1>2. Reported(a)'
  BY <1>1, SettledParts DEF Reported
<1>3. ASSUME NEW r \in Wanted(a) PROVE Synced(a, r.object)'
  <2>1. Synced(a, r.object)
    BY SettledParts DEF AllSynced
  <2>2. CASE live'[r.object] = live[r.object]
    BY <2>1, <2>2 DEF Synced, CarriesMarks
  <2> QED
    BY <2>2
<1>4. AllSynced(a)'
  BY <1>1, <1>3 DEF AllSynced
<1> QED
  BY <1>2, <1>4, SettledParts

\* A step of another application, at its own objects.
LEMMA SettledOthers ==
  ASSUME TypeInv, StaleInv, Disjoint, NEW b \in Apps, NEW a \in Apps \ {b}, Settled(a),
         OnlyJob(b), UNCHANGED head,
         \/ UNCHANGED live
         \/ /\ pc[b] \in {"apply", "prune", "delete"}
            /\ \E r \in todo[b] : \E l : live' = [live EXCEPT ![r.object] = l]
  PROVE  Settled(a)'
<1>1. app[a] # None
  BY DEF Settled, Reconcilable
<1>2. SameJob(a) /\ app'[a] = app[a]
  BY DEF OnlyJob
<1>3. UpToDate(a)'
  BY <1>2 DEF Settled, UpToDate, SameJob
<1>4. ASSUME NEW s \in Wanted(a) PROVE live'[s.object] = live[s.object]
  <2>1. ASSUME pc[b] \in {"apply", "prune", "delete"}, NEW r \in todo[b], NEW l,
               live' = [live EXCEPT ![r.object] = l]
        PROVE  live'[s.object] = live[s.object]
    <3>1. copy[b] # None /\ sha[b] \in Revisions
      BY <2>1 DEF TypeInv, LocalsOK
    <3>2. r \in Territory(b)
      BY <2>1, <3>1 DEF StaleInv, Stale, Desired, Territory
    <3>3. s \in Territory(a) /\ s.object \in Objects
      BY <1>1, WantedType DEF Refs
    <3>4. s.object # r.object
      BY <3>2, <3>3 DEF Disjoint
    <3> QED
      BY <2>1, <3>3, <3>4 DEF TypeInv, TypeOK, ClusterOK
  <2> QED
    BY <2>1
<1> QED
  BY <1>2, <1>3, <1>4, SettledFrame

\* A step of its reconcile within apply and prune.
LEMMA SettledAdvance ==
  ASSUME TypeInv, NEW a \in Apps, Settled(a), pc[a] \notin {"idle", "fetch"},
         UNCHANGED <<app, head>>,
         NEW step \in {"apply", "prune", "success"}, NEW t, Goto(a, step, t),
         \A r \in Wanted(a) : live'[r.object] = live[r.object] \/ Synced(a, r.object)'
  PROVE  Settled(a)'
<1>1. pc'[a] = step /\ UNCHANGED <<copy, sha>>
  BY DEF Goto, TypeInv, TypeOK, JobOK
<1>2. UpToDate(a)'
  BY <1>1 DEF Settled, UpToDate
<1> QED
  BY <1>2, SettledFrame

LEMMA SettledStep ==
  ASSUME TypeInv, StaleInv, Disjoint, Next, NEW a \in Apps, Settled(a),
         UNCHANGED spent, ~Edited(a)
  PROVE  Settled(a)'
<1>0. /\ app[a] # None /\ app[a] \in GitApplication
      /\ pc[a] \notin {"suspend", "fail"}
  BY DEF Settled, Reconcilable, UpToDate, TypeInv, TypeOK, ClusterOK, LocalsOK
<1>a. ~CountFault /\ ~CountPush /\ ~CountMeddle
  BY DEF CountFault, CountPush, CountMeddle, TypeInv, TypeOK, SpentOK
<1> DEFINE Goal == Settled(a)'
<1> SUFFICES Goal
  OBVIOUS
\* Its reconcile, from the start to the report.
<1>1. ASSUME ReadApp(a) PROVE Goal
  <2>1. BeginValid(a)
    BY <1>1 DEF ReadApp, BeginSuspended, BeginInvalid, Settled, Reconcilable
  <2>2. Begin(a, "fetch", "False")
    BY <2>1 DEF BeginValid
  <2>3. pc'[a] = "fetch" /\ copy'[a] = app[a] /\ UNCHANGED <<app, head, live>>
    BY <2>2 DEF Begin, cluster, TypeInv, TypeOK, JobOK
  <2>4. UpToDate(a)'
    BY <2>3 DEF UpToDate
  <2> QED
    BY <2>3, <2>4, SettledFrame
<1>2. ASSUME Checkout(a) PROVE Goal
  <2>1. /\ pc[a] = "fetch" /\ pc'[a] = "render" /\ sha'[a] = head /\ UNCHANGED <<app, head, live>>
        /\ copy'[a] = [copy[a] EXCEPT !.status.attemptedRevision = head]
    BY <1>2 DEF Checkout, cluster, TypeInv, TypeOK, JobOK
  <2>2. copy[a] \in GitApplication
    BY <2>1 DEF TypeInv, TypeOK, JobOK, LocalsOK
  <2>3. /\ copy'[a].uid = copy[a].uid /\ copy'[a].spec = copy[a].spec
        /\ copy'[a].generation = copy[a].generation
        /\ copy'[a].status.inventory = copy[a].status.inventory
    BY <2>1, <2>2 DEF GitApplication, Status
  <2>4. UpToDate(a)'
    BY <2>1, <2>3 DEF Settled, UpToDate
  <2> QED
    BY <2>1, <2>4, SettledFrame
<1>3. ASSUME Render(a) PROVE Goal
  <2>1. pc[a] = "render" /\ UNCHANGED <<app, head, live>>
    BY <1>3 DEF Render, cluster
  <2>2. Renders(copy[a].spec.path, sha[a]) /\ Admitted(copy[a].spec.path, sha[a])
    BY <2>1 DEF Settled, Reconcilable, UpToDate
  <2>3. Goto(a, "apply", Desired(a))
    BY <1>3, <2>2 DEF Render
  <2> QED
    BY <2>1, <2>3, SettledAdvance
<1>4. ASSUME NEW r \in todo[a], ApplyObject(a, r) PROVE Goal
  <2>1. /\ pc[a] = "apply" /\ Goto(a, "apply", todo[a] \ {r}) /\ live' = Applied(a, r)
        /\ UNCHANGED <<app, head>>
    BY <1>4 DEF ApplyObject
  <2>2. copy[a] # None /\ sha[a] \in Revisions /\ UNCHANGED <<copy, sha>>
    BY <2>1 DEF TypeInv, LocalsOK, Goto
  <2>3. copy[a].uid = app[a].uid /\ sha[a] = head /\ r \in Refs
    BY <2>1 DEF Settled, UpToDate, TypeInv, TypeOK, JobOK
  <2>4. r.object \in Objects
    BY <2>3 DEF Refs
  <2>5. ASSUME NEW s \in Wanted(a) PROVE live'[s.object] = live[s.object] \/ Synced(a, s.object)'
    <3>1. s.object \in Objects
      BY <1>0, WantedType DEF Refs
    <3>2. CASE s.object # r.object
      BY <2>1, <2>4, <3>1, <3>2 DEF Applied, TypeInv, TypeOK, ClusterOK
    <3>3. CASE s.object = r.object
      <4>1. InPlace(a, r.object)'
        BY <2>1, <2>2, <2>3, AppliedInPlace
      <4>2. live'[r.object] = [uid |-> copy[a].uid, managed |-> TRUE,
                               revision |-> sha[a], contested |-> FALSE]
        BY <2>1, <2>4 DEF Applied, TypeInv, TypeOK, ClusterOK
      <4>3. ~live'[r.object].contested
        BY <4>2, SMT
      <4>4. CarriesMarks(app[a].uid, r.object)' /\ live'[r.object].revision = head'
        BY <2>1, <2>2, <2>3, <4>1 DEF InPlace, CarriesMarks
      <4> QED
        BY <3>3, <4>3, <4>4 DEF Synced
    <3> QED
      BY <3>2, <3>3
  <2> QED
    BY <2>1, <2>5, SettledAdvance
\* Nothing that is applied is contested.
<1>5. ASSUME NEW r \in todo[a], ApplyConflict(a, r) PROVE Goal
  <2>1. pc[a] = "apply" /\ Conflict(a, r)
    BY <1>5 DEF ApplyConflict
  <2>2. r \in Wanted(a) /\ copy[a].spec = app[a].spec
    BY <2>1, DesiredIsWanted DEF StaleInv, Stale, Settled, UpToDate
  <2>3. Synced(a, r.object)
    BY <2>2, SettledParts DEF AllSynced
  <2> QED
    BY <2>1, <2>2, <2>3 DEF Conflict, Synced
<1>6. ASSUME ApplyDone(a) \/ PruneDone(a) PROVE Goal
  <2>1. pc[a] \in {"apply", "prune"} /\ UNCHANGED <<app, head, live>>
    BY <1>6 DEF ApplyDone, PruneDone, cluster
  <2>2. \E step \in {"prune", "success"} : \E t : Goto(a, step, t)
    BY <1>6 DEF ApplyDone, PruneDone
  <2> QED
    BY <2>1, <2>2, SettledAdvance
\* Everything on record is desired: there is nothing to prune.
<1>7. ASSUME NEW r \in todo[a],
             PassOver(a, r) \/ Condemn(a, r) \/ DeleteObject(a, r) \/ DeleteNotFound(a, r)
      PROVE  Goal
  <2>1. pc[a] \in {"prune", "delete"}
    BY <1>7 DEF PassOver, Condemn, DeleteObject, DeleteNotFound
  <2>2. r \in copy[a].status.inventory \ Desired(a)
    BY <2>1 DEF StaleInv, Stale
  <2>3. copy[a].status.inventory = Wanted(a)
    BY <2>1 DEF Settled, InSync, UpToDate
  <2> QED
    BY <2>1, <2>2, <2>3, DesiredIsWanted
<1>8. ASSUME UpdateSuccess(a) PROVE Goal
  <2>1. /\ pc[a] = "success" /\ PatchStatus(a, SuccessStatus(a)) /\ Return({a})
        /\ UNCHANGED <<head, live>>
    BY <1>8 DEF UpdateSuccess
  <2>2. copy[a] # None /\ sha[a] \in Revisions
    BY <2>1 DEF TypeInv, LocalsOK
  <2>3. SuccessStatus(a) \in Status
    BY <2>2, SuccessStatusType DEF TypeInv
  <2>4. app'[a] = [app[a] EXCEPT !.status = MergePatch(app[a].status, copy[a].status, SuccessStatus(a))]
    BY <1>0, <2>1, <2>2, <2>3, PatchStatusType DEF TypeInv
  <2>5. app' \in [Apps -> GitApplication \cup {None}] /\ app'[a] \in GitApplication
    BY <1>0, <2>1, <2>2, <2>3, PatchStatusType DEF TypeInv
  <2>6. /\ app'[a].uid = app[a].uid /\ app'[a].spec = app[a].spec
        /\ app'[a].deleting = app[a].deleting /\ app'[a].generation = app[a].generation
        /\ app'[a].status = MergePatch(app[a].status, copy[a].status, SuccessStatus(a))
    BY <1>0, <2>4 DEF GitApplication
  <2>7. SuccessStatus(a) = [observedGeneration |-> app[a].generation,
                            attemptedRevision  |-> head,
                            appliedRevision    |-> head,
                            inventory          |-> Wanted(a),
                            conditions         |-> [ready |-> "True", stalled |-> "False"]]
    <3>1. Desired(a) = Wanted(a) /\ sha[a] = head
      BY <2>1, DesiredIsWanted
    <3>2. copy[a].generation = app[a].generation
      BY <2>1 DEF Settled, UpToDate
    <3> QED
      BY <3>1, <3>2, Zenon DEF SuccessStatus
  <2>8. /\ app'[a].status.conditions = [ready |-> "True", stalled |-> "False"]
        /\ app'[a].status.observedGeneration = app[a].generation
        /\ app'[a].status.appliedRevision = head
        /\ app'[a].status.inventory = Wanted(a)
    <3>1. /\ app[a].status.observedGeneration = app[a].generation
          /\ app[a].status.appliedRevision = head
          /\ app[a].status.inventory = Wanted(a)
      BY DEF Settled, InSync
    <3> QED
      BY <2>6, <2>7, <3>1 DEF MergePatch, Merged
  <2>9. Wanted(a)' = Wanted(a)
    BY <2>1, <2>6 DEF Wanted
  <2>10. Reported(a)'
    <3>1. app'[a] # None
      BY <2>5, NoneAssumption
    <3>2. Reported(a)
      BY SettledParts
    <3> QED
      BY <2>1, <2>6, <2>8, <2>9, <3>1, <3>2 DEF Reported
  <2>11. AllSynced(a)'
    <3>1. AllSynced(a)
      BY SettledParts
    <3> QED
      BY <2>1, <2>6, <2>9, <3>1 DEF AllSynced, Synced, CarriesMarks
  <2>12. UpToDate(a)'
    BY <2>1 DEF Return, UpToDate
  <2> QED
    BY <2>10, <2>11, <2>12, SettledParts
<1>9. ASSUME Advance(a) PROVE Goal
  <2>1. ~UpdateSuspended(a) /\ ~Fail(a) /\ ~UpdateSuccessNotFound(a)
    BY <1>0 DEF UpdateSuspended, Fail, UpdateSuccessNotFound
  <2> HIDE DEF Goal
  <2> QED
    BY <1>2, <1>3, <1>4, <1>5, <1>6, <1>7, <1>8, <1>9, <2>1 DEF Advance
\* Another application.
<1>10. ASSUME NEW b \in Apps \ {a}, OnlyJob(b), UNCHANGED head,
              \/ UNCHANGED live
              \/ /\ pc[b] \in {"apply", "prune", "delete"}
                 /\ \E r \in todo[b] : \E l : live' = [live EXCEPT ![r.object] = l]
       PROVE  Goal
  BY <1>10, SettledOthers
<1>11. ASSUME NEW b \in Apps \ {a}, ReadApp(b) PROVE Goal
  <2>1. PICK step, status : Begin(b, step, status)
    BY <1>11 DEF ReadApp, BeginSuspended, BeginInvalid, BeginValid
  <2>2. OnlyJob(b) /\ UNCHANGED <<head, live>>
    BY <2>1, OnlyJobMoves DEF Begin, cluster, OnlyJob
  <2> QED
    BY <2>2, <1>10
<1>12. ASSUME NEW b \in Apps \ {a}, Advance(b) PROVE Goal
  <2>1. ASSUME UpdateSuspended(b) \/ Fail(b) \/ UpdateSuccess(b) PROVE Goal
    <3>1. /\ Return({b}) /\ UNCHANGED <<head, live>>
          /\ UNCHANGED app \/ \E m : PatchStatus(b, m)
      BY <2>1 DEF UpdateSuspended, Fail, UpdateSuccess
    <3>2. OnlyJob(b)
      BY <3>1, OnlyJobMoves DEF OnlyJob
    <3> QED
      BY <3>1, <3>2, <1>10
  <2>2. ASSUME Checkout(b) \/ UpdateSuccessNotFound(b) PROVE Goal
    <3>1. UNCHANGED <<app, head, live>> /\ (Checkout(b) \/ SuccessRejected(b))
      BY <2>2 DEF Checkout, UpdateSuccessNotFound, SuccessRejected, cluster
    <3>2. OnlyJob(b)
      BY <3>1, OnlyJobMoves DEF OnlyJob
    <3> QED
      BY <3>1, <3>2, <1>10
  <2>3. ASSUME UNCHANGED <<app, head>>,
               (\E step, t : Goto(b, step, t)) \/ (\E status : FailNext(b, status)),
               \/ UNCHANGED live
               \/ /\ pc[b] \in {"apply", "prune", "delete"}
                  /\ \E r \in todo[b] : \E l : live' = [live EXCEPT ![r.object] = l]
        PROVE  Goal
    <3>1. OnlyJob(b)
      BY <2>3, OnlyJobMoves DEF OnlyJob
    <3> QED
      BY <2>3, <3>1, <1>10
  <2>4. ASSUME Render(b) \/ ApplyDone(b) \/ PruneDone(b) PROVE Goal
    <3>1. (\E step, t : Goto(b, step, t)) \/ (\E status : FailNext(b, status))
      BY <2>4 DEF Render, ApplyDone, PruneDone
    <3>2. UNCHANGED <<app, head, live>>
      BY <2>4 DEF Render, ApplyDone, PruneDone, cluster
    <3> QED
      BY <3>1, <3>2, <2>3
  <2>5. ASSUME NEW r \in todo[b],
               ApplyConflict(b, r) \/ PassOver(b, r) \/ Condemn(b, r) \/ DeleteNotFound(b, r)
        PROVE  Goal
    <3>1. (\E step, t : Goto(b, step, t)) \/ (\E status : FailNext(b, status))
      BY <2>5 DEF ApplyConflict, PassOver, Condemn, DeleteNotFound
    <3>2. UNCHANGED <<app, head, live>>
      BY <2>5 DEF ApplyConflict, PassOver, Condemn, DeleteNotFound, cluster
    <3> QED
      BY <3>1, <3>2, <2>3
  <2>6. ASSUME NEW r \in todo[b], ApplyObject(b, r) PROVE Goal
    <3>1. pc[b] = "apply" /\ \E l : live' = [live EXCEPT ![r.object] = l]
      BY <2>6 DEF ApplyObject, Applied
    <3>2. (\E step, t : Goto(b, step, t)) /\ UNCHANGED <<app, head>>
      BY <2>6 DEF ApplyObject
    <3> QED
      BY <3>1, <3>2, <2>3
  <2>7. ASSUME NEW r \in todo[b], DeleteObject(b, r) PROVE Goal
    <3>1. pc[b] = "delete" /\ \E l : live' = [live EXCEPT ![r.object] = l]
      BY <2>7 DEF DeleteObject
    <3>2. (\E step, t : Goto(b, step, t)) /\ UNCHANGED <<app, head>>
      BY <2>7 DEF DeleteObject
    <3> QED
      BY <3>1, <3>2, <2>3
  <2> HIDE DEF Goal
  <2> QED
    BY <1>12, <2>1, <2>2, <2>4, <2>5, <2>6, <2>7 DEF Advance
<1>13. ASSUME NEW b \in Apps, Create(b) \/ EditSpec(b) \/ MarkDeleted(b) \/ Remove(b) PROVE Goal
  <2>1. b # a
    BY <1>0, <1>13 DEF Create, Edited
  <2>2. UNCHANGED <<head, live, job>> /\ \A c \in Apps \ {b} : app'[c] = app[c]
    BY <1>13 DEF Create, EditSpec, MarkDeleted, Remove, TypeInv, TypeOK, ClusterOK
  <2>3. OnlyJob(b)
    BY <2>2 DEF OnlyJob, SameJob, job
  <2> QED
    BY <2>1, <2>2, <2>3, <1>10
<1>14. ASSUME NEW b \in Apps, ReadNothing(b) PROVE Goal
  <2>1. UNCHANGED <<app, head, live, pc, copy, sha>>
    BY <1>14 DEF ReadNothing, vars
  <2>2. UpToDate(a)'
    BY <2>1 DEF Settled, UpToDate
  <2> QED
    BY <2>1, <2>2, SettledFrame
\* What counts is excluded.
<1>15. /\ \A b \in Apps : ~CallFails(b)
       /\ ~Crash /\ ~Push /\ \A o \in Objects : ~Meddle(o)
  BY <1>a DEF CallFails, Crash, Push, Meddle, CheckoutFails, RenderFails, PruneReadFails,
              UpdateSuccessFails, StatusLost, ApplyFails, DeleteFails
<1> HIDE DEF Goal
<1> QED
  BY <1>1, <1>9, <1>11, <1>12, <1>13, <1>14, <1>15 DEF Next, Users

\* An application in sync stays in sync, with any number of workers and of
\* applications, if no object is rendered by two of them or in two API
\* versions: also after failures, crashes and changes by hand from which it
\* has recovered.
THEOREM InSyncStays ==
  ASSUME Disjoint
  PROVE  Spec => StaysInSync
<1>1. Init => TypeInv /\ StaleInv
  BY BoundAssumption
     DEF Init, TypeInv, TypeOK, ClusterOK, JobOK, SpentOK, LocalsOK, UidsOK, Steps, StaleInv, Stale
<1>2. TypeInv /\ StaleInv /\ [Next]_vars => TypeInv' /\ StaleInv'
  BY TypeInvStep, StaleStep
<1> DEFINE Stays == \A a \in Apps : Settled(a) /\ UNCHANGED spent /\ ~Edited(a) => Settled(a)'
<1>3. TypeInv /\ StaleInv /\ [Next]_vars => [Stays]_vars
  <2> SUFFICES ASSUME TypeInv, StaleInv, Next PROVE Stays
    OBVIOUS
  <2> QED
    BY SettledStep
<1> QED
  BY <1>1, <1>2, <1>3, PTL DEF Spec, StaysInSync
=============================================================================
