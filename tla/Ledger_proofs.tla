---------------------------- MODULE Ledger_proofs ----------------------------
(***************************************************************************)
(* GitApplicationController implements Ledger for applications that prune, *)
(* when no application is created twice, nobody else touches the objects   *)
(* and                                                                     *)
(*  - either one worker reconciles, and no application moves an object to  *)
(*    another API version,                                                 *)
(*  - or any number of workers do, and no two applications render the same *)
(*    object.                                                              *)
(* Two workers can delete each other's objects (run MoveRace), an upgrade  *)
(* of the version deletes what was just applied (run VersionBump), and a   *)
(* late status patch writes the record of a deleted application to the new *)
(* one of its name.  Failed calls and crashes need no exception: passes    *)
(* may always be given up.                                                 *)
(***************************************************************************)
EXTENDS GitApplicationController_proofs

AllPrune == \A a \in Apps : \A s \in Specs[a] : s.prune

Alone == MaxIncarnations = 1 /\ MaxMeddles = 0

Orderly ==
  /\ ConcurrentReconciles = 1 /\ IsFiniteSet(Apps)
  /\ Alone /\ SteadyVersions /\ AllPrune

Apart == Disjoint /\ Alone /\ AllPrune

(***************************************************************************)
(* What a reconcile has taken so far.                                      *)
(***************************************************************************)
Mine(a, o) == CarriesMarks(copy[a].uid, o)

Taken(a) ==
  /\ app[a] # None => app[a].spec \in Specs[a]
  /\ copy[a] # None => copy[a].spec \in Specs[a]
  /\ pc[a] = "apply" => /\ todo[a] \subseteq Desired(a)
                        /\ \A r \in Desired(a) \ todo[a] : Mine(a, r.object)
  /\ pc[a] \in {"prune", "delete", "success"} => \A r \in Desired(a) : Mine(a, r.object)
  /\ pc[a] \in {"prune", "delete"} => todo[a] \cap Desired(a) = {}

TakenInv == \A a \in Apps : Taken(a)

LedgerInv == TypeInv /\ PrunedInv /\ OwnInv /\ StaleInv /\ TakenInv

\* A step of one reconcile, while the others rest.
LEMMA TakenAlone ==
  ASSUME OwnInv, TakenInv, NEW a \in Apps, pc[a] # "idle", OnlyJob(a), Taken(a)'
  PROVE  TakenInv'
<1> SUFFICES ASSUME NEW b \in Apps \ {a} PROVE Taken(b)'
  BY DEF TakenInv
<1>1. pc[b] = "idle"
  BY DEF OwnInv, OneAtATime
<1> QED
  BY <1>1 DEF OnlyJob, SameJob, TakenInv, Taken

\* A status patch leaves the spec alone.
LEMMA PatchKeepsSpec ==
  ASSUME TypeInv, NEW a \in Apps, NEW m, app[a] # None, PatchStatus(a, m)
  PROVE  app'[a] # None => app'[a].spec = app[a].spec
BY DEF PatchStatus, TypeInv, TypeOK, ClusterOK, GitApplication

\* Steps after which a reconcile holds nothing.
LEMMA TakenDone ==
  ASSUME LedgerInv, NEW a \in Apps, pc[a] # "idle", OnlyJob(a),
         pc'[a] \in {"idle", "suspend", "fetch", "render", "fail"},
         UNCHANGED app \/ (app[a] # None /\ \E m : PatchStatus(a, m)),
         copy'[a] = None \/ (copy'[a] # None /\ copy'[a].spec = copy[a].spec)
  PROVE  TakenInv'
<1>1. copy[a] # None
  BY DEF LedgerInv, TypeInv, LocalsOK
<1>2. app'[a] # None => app'[a].spec \in Specs[a]
  BY PatchKeepsSpec DEF LedgerInv, TakenInv, Taken
<1>3. copy'[a] # None => copy'[a].spec \in Specs[a]
  BY <1>1 DEF LedgerInv, TakenInv, Taken
<1>4. Taken(a)'
  BY <1>2, <1>3 DEF Taken
<1> QED
  BY <1>4, TakenAlone DEF LedgerInv

\* Steps within apply and prune.
LEMMA TakenAdvance ==
  ASSUME LedgerInv, NEW a \in Apps, pc[a] # "idle", NEW step, NEW t, Goto(a, step, t), UNCHANGED app,
         step = "apply" => /\ t \subseteq Desired(a)
                           /\ \A r \in Desired(a) \ t : Mine(a, r.object)',
         step \in {"prune", "delete", "success"} => \A r \in Desired(a) : Mine(a, r.object)',
         step \in {"prune", "delete"} => t \cap Desired(a) = {}
  PROVE  TakenInv'
<1>1. pc'[a] = step /\ todo'[a] = t /\ UNCHANGED <<copy, sha>>
  BY DEF Goto, LedgerInv, TypeInv, TypeOK, JobOK
<1>2. Desired(a)' = Desired(a)
  BY <1>1 DEF Desired
<1>3. Taken(a)'
  BY <1>1, <1>2 DEF Taken, LedgerInv, TakenInv
<1>4. OnlyJob(a)
  BY OnlyJobMoves DEF OnlyJob, LedgerInv
<1> QED
  BY <1>3, <1>4, TakenAlone DEF LedgerInv

\* The facts about one reconcile that its steps use.
LEMMA JobFacts ==
  ASSUME TypeInv, NEW a \in Apps, pc[a] # "idle"
  PROVE  /\ copy[a] # None /\ copy[a] \in GitApplication
         /\ copy[a].uid \in Uids
         /\ todo[a] \in SUBSET Refs
         /\ sha[a] \in Revisions => Desired(a) \in SUBSET Refs
         /\ pc[a] \in {"render", "apply", "prune", "delete", "success"} => sha[a] \in Revisions
         /\ live \in [Objects -> LiveObject \cup {None}]
BY DesiredType DEF TypeInv, TypeOK, ClusterOK, JobOK, LocalsOK, GitApplication

LEMMA TakenStep ==
  ASSUME Orderly
  PROVE  LedgerInv /\ [Next]_vars => TakenInv'
<1> SUFFICES ASSUME LedgerInv, [Next]_vars PROVE TakenInv'
  OBVIOUS
<1>1. ASSUME NEW a \in Apps, ReadApp(a) PROVE TakenInv'
  <2>1. PICK step \in {"suspend", "fetch", "fail"}, status \in {"True", "False"} : Begin(a, step, status)
    BY <1>1 DEF ReadApp, BeginSuspended, BeginInvalid, BeginValid
  <2>2. /\ pc'[a] = step /\ copy'[a] = app[a] /\ UNCHANGED app
    BY <2>1 DEF Begin, cluster, LedgerInv, TypeInv, TypeOK, JobOK
  <2>3. Taken(a)'
    BY <2>2 DEF LedgerInv, TakenInv, Taken
  <2>4. ASSUME NEW b \in Apps \ {a} PROVE Taken(b)'
    <3>1. SameJob(b)
      BY <2>1, OnlyJobMoves DEF LedgerInv
    <3>2. pc[b] = "idle"
      <4>1. OwnInv'
        BY <1>1, OwnStep DEF Next, LedgerInv, Orderly, Alone
      <4> QED
        BY <2>2, <3>1, <4>1 DEF OwnInv, OneAtATime, SameJob
    <3> QED
      BY <2>2, <3>1, <3>2 DEF SameJob, LedgerInv, TakenInv, Taken
  <2> QED
    BY <2>3, <2>4 DEF TakenInv
\* Steps that end the pass.
<1>2. ASSUME NEW a \in Apps,
             UpdateSuspended(a) \/ Fail(a) \/ UpdateSuccess(a) \/ StatusLost(a)
      PROVE  TakenInv'
  <2>1. /\ pc[a] # "idle" /\ Return({a})
        /\ UNCHANGED app \/ (app[a] # None /\ \E m : PatchStatus(a, m))
    BY <1>2 DEF UpdateSuspended, Fail, UpdateSuccess, StatusLost, cluster
  <2>2. pc'[a] = "idle" /\ copy'[a] = None
    BY <2>1 DEF Return
  <2>3. OnlyJob(a)
    BY <2>1, OnlyJobMoves DEF OnlyJob, LedgerInv
  <2> QED
    BY <2>1, <2>2, <2>3, TakenDone
<1>3. ASSUME NEW a \in Apps, pc[a] # "idle", NEW status, FailNext(a, status), UNCHANGED app
      PROVE  TakenInv'
  <2>1. pc'[a] = "fail" /\ copy'[a] = copy[a]
    BY <1>3 DEF FailNext, LedgerInv, TypeInv, TypeOK, JobOK
  <2>2. OnlyJob(a)
    BY <1>3, OnlyJobMoves DEF OnlyJob, LedgerInv
  <2> QED
    BY <1>3, <2>1, <2>2, JobFacts, TakenDone DEF LedgerInv
<1>4. ASSUME NEW a \in Apps, CheckoutFails(a) \/ RenderFails(a) \/ PruneReadFails(a)
      PROVE  TakenInv'
  BY <1>3, <1>4 DEF CheckoutFails, RenderFails, PruneReadFails, cluster
<1>5. ASSUME NEW a \in Apps, NEW r \in todo[a],
             ApplyConflict(a, r) \/ DeleteNotFound(a, r) \/ ApplyFails(a, r) \/ DeleteFails(a, r)
      PROVE  TakenInv'
  BY <1>3, <1>5 DEF ApplyConflict, DeleteNotFound, ApplyFails, DeleteFails, cluster
<1>6. ASSUME NEW a \in Apps, UpdateSuccessNotFound(a) \/ UpdateSuccessFails(a) PROVE TakenInv'
  <2>1. /\ pc[a] # "idle" /\ SuccessRejected(a)
        /\ UNCHANGED app \/ (app[a] # None /\ \E m : PatchStatus(a, m))
    BY <1>6 DEF UpdateSuccessNotFound, UpdateSuccessFails
  <2>2. /\ pc'[a] = "fail"
        /\ copy'[a] = [copy[a] EXCEPT !.status = SuccessStatus(a)]
    BY <2>1 DEF SuccessRejected, LedgerInv, TypeInv, TypeOK, JobOK
  <2>3. copy[a] \in GitApplication
    BY <2>1, JobFacts DEF LedgerInv
  <2>4. copy'[a].spec = copy[a].spec
    BY <2>2, <2>3 DEF GitApplication
  <2>5. TypeInv'
    BY TypeInvStep DEF LedgerInv
  <2>6. copy'[a] # None
    BY <2>2, <2>5 DEF TypeInv, LocalsOK
  <2>7. OnlyJob(a)
    BY <2>1, OnlyJobMoves DEF OnlyJob, LedgerInv
  <2> QED
    BY <2>1, <2>2, <2>4, <2>6, <2>7, TakenDone
<1>7. ASSUME NEW a \in Apps, Checkout(a) PROVE TakenInv'
  <2>1. /\ pc[a] # "idle" /\ pc'[a] = "render" /\ UNCHANGED app
        /\ copy'[a] = [copy[a] EXCEPT !.status.attemptedRevision = head]
    BY <1>7 DEF Checkout, cluster, LedgerInv, TypeInv, TypeOK, JobOK
  <2>2. copy[a] \in GitApplication
    BY <2>1, JobFacts DEF LedgerInv
  <2>3. copy'[a].spec = copy[a].spec
    BY <2>1, <2>2 DEF GitApplication
  <2>4. TypeInv'
    BY TypeInvStep DEF LedgerInv
  <2>5. copy'[a] # None
    BY <2>1, <2>4 DEF TypeInv, LocalsOK
  <2>6. OnlyJob(a)
    BY <1>7, <2>1, OnlyJobMoves DEF OnlyJob, LedgerInv
  <2> QED
    BY <2>1, <2>3, <2>5, <2>6, TakenDone
\* Steps of apply.
<1>8. ASSUME NEW a \in Apps, Render(a) PROVE TakenInv'
  <2>1. pc[a] = "render" /\ UNCHANGED app
    BY <1>8 DEF Render, cluster
  <2>2. CASE Goto(a, "apply", Desired(a))
    BY <2>1, <2>2, TakenAdvance
  <2> QED
    BY <1>3, <1>8, <2>1, <2>2 DEF Render
<1>9. ASSUME NEW a \in Apps, NEW r \in todo[a], ApplyObject(a, r) PROVE TakenInv'
  <2>1. /\ pc[a] = "apply" /\ UNCHANGED app /\ live' = Applied(a, r)
        /\ Goto(a, "apply", todo[a] \ {r}) /\ UNCHANGED copy
    BY <1>9 DEF ApplyObject, Goto
  <2>2. todo[a] \subseteq Desired(a) /\ \A s \in Desired(a) \ todo[a] : Mine(a, s.object)
    BY <2>1 DEF LedgerInv, TakenInv, Taken
  <2>3. Desired(a) \in SUBSET Refs
    BY <2>1, JobFacts DEF LedgerInv
  <2>4. ASSUME NEW s \in Desired(a) \ (todo[a] \ {r}) PROVE Mine(a, s.object)'
    <3>1. s.object \in Objects /\ r.object \in Objects
      BY <2>2, <2>3 DEF Refs
    <3>2. copy[a].uid \in Uids /\ live \in [Objects -> LiveObject \cup {None}]
      BY <2>1, JobFacts DEF LedgerInv
    <3>3. CASE s.object = r.object
      <4>1. live'[s.object] = [uid |-> copy[a].uid, managed |-> TRUE,
                               revision |-> sha[a], contested |-> FALSE]
        BY <2>1, <3>1, <3>2, <3>3 DEF Applied
      <4>2. sha[a] \in Revisions
        BY <2>1, JobFacts DEF LedgerInv
      <4>3. live'[s.object] \in LiveObject
        BY <3>2, <4>1, <4>2 DEF LiveObject
      <4>4. live'[s.object].uid = copy[a].uid /\ live'[s.object].managed = TRUE
        BY <4>1
      <4>5. live'[s.object] # None
        BY <4>3, NoneAssumption
      <4>6. copy'[a].uid = copy[a].uid
        BY <2>1
      <4> QED
        BY <4>4, <4>5, <4>6 DEF Mine, CarriesMarks
    <3>4. CASE s.object # r.object
      <4>1. live'[s.object] = live[s.object] /\ s \notin todo[a]
        BY <2>1, <2>4, <3>1, <3>2, <3>4 DEF Applied
      <4> QED
        BY <2>1, <2>2, <2>4, <4>1 DEF Mine, CarriesMarks
    <3> QED
      BY <3>3, <3>4
  <2> QED
    BY <2>1, <2>2, <2>4, TakenAdvance
<1>10. ASSUME NEW a \in Apps, ApplyDone(a) PROVE TakenInv'
  <2>1. pc[a] = "apply" /\ UNCHANGED <<app, live>>
    BY <1>10 DEF ApplyDone, cluster
  <2>2. PICK step, t : /\ Goto(a, step, t) /\ UNCHANGED copy
                       /\ \/ step = "prune" /\ t = copy[a].status.inventory \ Desired(a)
                          \/ step = "success"
    BY <1>10 DEF ApplyDone, Goto, Diff
  <2>3. \A r \in Desired(a) : Mine(a, r.object)
    BY <1>10, <2>1 DEF ApplyDone, LedgerInv, TakenInv, Taken
  <2>4. \A r \in Desired(a) : Mine(a, r.object)'
    BY <2>1, <2>2, <2>3 DEF Mine, CarriesMarks
  <2> QED
    BY <2>1, <2>2, <2>4, TakenAdvance
\* Steps of prune: what it deletes is not desired.
<1>11. ASSUME NEW a \in Apps, NEW r \in todo[a],
              PassOver(a, r) \/ Condemn(a, r) \/ DeleteObject(a, r)
       PROVE  TakenInv'
  <2>1. /\ pc[a] \in {"prune", "delete"} /\ UNCHANGED app
        /\ live' = live \/ live' = [live EXCEPT ![r.object] = None]
    BY <1>11 DEF PassOver, Condemn, DeleteObject, cluster
  <2>2. PICK step \in {"prune", "delete"}, t \in {todo[a], todo[a] \ {r}} : Goto(a, step, t) /\ UNCHANGED copy
    BY <1>11 DEF PassOver, Condemn, DeleteObject, Goto
  <2>3. /\ \A s \in Desired(a) : Mine(a, s.object)
        /\ todo[a] \cap Desired(a) = {}
    BY <2>1 DEF LedgerInv, TakenInv, Taken
  <2>4. ASSUME NEW s \in Desired(a) PROVE Mine(a, s.object)'
    <3>1. r \in Refs /\ s \in Refs
      BY <2>1, JobFacts DEF LedgerInv
    <3>2. r.object # s.object
      BY <2>1, StaleIsOther DEF Orderly, LedgerInv
    <3>3. live'[s.object] = live[s.object]
      BY <2>1, <3>1, <3>2, JobFacts DEF Refs, LedgerInv
    <3> QED
      BY <2>2, <2>3, <3>3 DEF Mine, CarriesMarks
  <2>5. t \cap Desired(a) = {}
    BY <2>2, <2>3
  <2> QED
    BY <2>1, <2>2, <2>4, <2>5, TakenAdvance
<1>12. ASSUME NEW a \in Apps, PruneDone(a) PROVE TakenInv'
  <2>1. pc[a] = "prune" /\ Goto(a, "success", {}) /\ UNCHANGED <<app, live, copy>>
    BY <1>12 DEF PruneDone, Goto, cluster
  <2>2. \A r \in Desired(a) : Mine(a, r.object)
    BY <2>1 DEF LedgerInv, TakenInv, Taken
  <2>3. \A r \in Desired(a) : Mine(a, r.object)'
    BY <2>1, <2>2 DEF Mine, CarriesMarks
  <2> QED
    BY <2>1, <2>3, TakenAdvance
<1>13. CASE Crash
  <2>1. \A a \in Apps : pc'[a] = "idle" /\ copy'[a] = None /\ app'[a] = app[a]
    BY <1>13 DEF Crash, Return, cluster
  <2> QED
    BY <2>1 DEF LedgerInv, TakenInv, Taken
\* Steps of the users.
<1>14. ASSUME UNCHANGED <<job, live>>, \A a \in Apps : app'[a] # None => app'[a].spec \in Specs[a]
       PROVE  TakenInv'
  <2>1. /\ UNCHANGED <<pc, copy, todo, live>>
        /\ \A a \in Apps : Desired(a)' = Desired(a)
    BY <1>14 DEF job, Desired
  <2> QED
    BY <1>14, <2>1 DEF LedgerInv, TakenInv, Taken, Mine, CarriesMarks
<1>15. ASSUME NEW a \in Apps, Create(a) \/ EditSpec(a) \/ MarkDeleted(a) \/ Remove(a)
       PROVE  TakenInv'
  <2>1. UNCHANGED <<job, live>>
    BY <1>15 DEF Create, EditSpec, MarkDeleted, Remove
  <2>2. \A b \in Apps : app[b] # None => app[b] \in GitApplication /\ app[b].spec \in Specs[b]
    BY DEF LedgerInv, TypeInv, TypeOK, ClusterOK, TakenInv, Taken
  <2>3. ASSUME NEW b \in Apps, app'[b] # None PROVE app'[b].spec \in Specs[b]
    <3>1. CASE b # a
      BY <1>15, <2>2, <2>3, <3>1
         DEF Create, EditSpec, MarkDeleted, Remove, LedgerInv, TypeInv, TypeOK, ClusterOK
    <3>2. CASE b = a
      <4>1. app \in [Apps -> GitApplication \cup {None}]
        BY DEF LedgerInv, TypeInv, TypeOK, ClusterOK
      <4>2. ASSUME Create(a) PROVE app'[a].spec \in Specs[a]
        BY <4>1, <4>2 DEF Create
      <4>3. ASSUME EditSpec(a) PROVE app'[a].spec \in Specs[a]
        BY <2>2, <4>1, <4>3 DEF EditSpec, GitApplication
      <4>4. ASSUME MarkDeleted(a) PROVE app'[a].spec \in Specs[a]
        BY <2>2, <4>1, <4>4 DEF MarkDeleted, GitApplication
      <4>5. ~Remove(a)
        BY <2>3, <3>2, <4>1 DEF Remove
      <4> QED
        BY <1>15, <3>2, <4>2, <4>3, <4>4, <4>5
    <3> QED
      BY <3>1, <3>2
  <2> QED
    BY <1>14, <2>1, <2>3
<1>16. ASSUME Push \/ UNCHANGED vars \/ \E a \in Apps : ReadNothing(a) PROVE TakenInv'
  BY <1>14, <1>16 DEF Push, ReadNothing, vars, job, LedgerInv, TakenInv, Taken
<1>17. ASSUME NEW o \in Objects, Meddle(o) PROVE TakenInv'
  BY <1>17 DEF Meddle, CountMeddle, Orderly, Alone, LedgerInv, TypeInv, TypeOK, SpentOK
<1> QED
  BY <1>1, <1>2, <1>4, <1>5, <1>6, <1>7, <1>8, <1>9, <1>10, <1>11, <1>12, <1>13, <1>15, <1>16, <1>17
     DEF Next, Advance, CallFails, Users

LEMMA LedgerInvStep ==
  ASSUME Orderly
  PROVE  LedgerInv /\ [Next]_vars => LedgerInv'
<1> SUFFICES ASSUME LedgerInv, [Next]_vars PROVE LedgerInv'
  OBVIOUS
<1>1. TypeInv' /\ PrunedInv' /\ OwnInv' /\ StaleInv'
  BY TypeInvStep, PrunedStep, OwnStep, StaleStep DEF LedgerInv, Orderly, Alone
<1> QED
  BY <1>1, TakenStep DEF LedgerInv

(***************************************************************************)
(* What the ledger needs of a state: a reconcile deletes only what it has  *)
(* on record, carries its marks and is not desired, and it reports only    *)
(* when all it desires carries its marks.                                  *)
(***************************************************************************)
Honest(a) ==
  /\ copy[a] # None => copy[a].spec.prune
  /\ pc[a] = "apply" => todo[a] \subseteq Desired(a)
  /\ pc[a] = "success" => \A r \in Desired(a) : Mine(a, r.object)

HoldsInv ==
  /\ TypeInv /\ PrunedInv
  /\ PruneDeletesOnlyOwn /\ PruneSparesDesired
  /\ \A a \in Apps : Honest(a)

\* With one worker, no other reconcile comes between a read and a delete.
LEMMA OrderlyHolds == ASSUME Orderly PROVE LedgerInv => HoldsInv
<1> SUFFICES ASSUME LedgerInv PROVE HoldsInv
  OBVIOUS
<1>1. PruneDeletesOnlyOwn
  BY DEF LedgerInv, OwnInv, Own, NextToPrune, PruneDeletesOnlyOwn
<1>2. PruneSparesDesired
  BY StaleIsOther DEF Orderly, LedgerInv, PruneSparesDesired, NextToPrune
<1>3. \A a \in Apps : Honest(a)
  BY DEF Honest, LedgerInv, TakenInv, Taken, Orderly, AllPrune
<1> QED
  BY <1>1, <1>2, <1>3 DEF LedgerInv, HoldsInv

(***************************************************************************)
(* Any number of workers, when no two applications render the same object: *)
(* what one has read of its objects stays as it is until it deletes them.  *)
(***************************************************************************)
Owned(a) ==
  pc[a] = "delete" =>
    \A r \in NextToPrune(a) : live[r.object] = None \/ CarriesMarks(copy[a].uid, r.object)

OwnedInv == \A a \in Apps : Owned(a)

LEMMA TodoOfTerritory ==
  ASSUME TypeInv, PlacedInv, NEW a \in Apps, pc[a] \in {"apply", "prune", "delete"}, NEW r \in todo[a]
  PROVE  r \in Territory(a) /\ r.object \in Objects /\ copy[a] # None
<1>1. copy[a] # None /\ sha[a] \in Revisions
  BY JobFacts
<1>2. Desired(a) \in SUBSET Territory(a)
  BY <1>1, DesiredInTerritory DEF PlacedInv
<1>3. r.object \in Objects
  BY JobFacts DEF Refs
<1> QED
  BY <1>1, <1>2, <1>3 DEF PlacedInv, Placed

\* A step of the reconcile of a, that touches at most an object of a's.
OfTerritory(a) ==
  \/ UNCHANGED live
  \/ \E r \in Territory(a), l \in LiveObject \cup {None} : live' = [live EXCEPT ![r.object] = l]

LEMMA OwnedOthers ==
  ASSUME TypeInv, PlacedInv, OwnedInv, Disjoint, NEW a \in Apps, OnlyJob(a), OfTerritory(a), Owned(a)'
  PROVE  OwnedInv'
<1> SUFFICES ASSUME NEW b \in Apps \ {a}, pc'[b] = "delete", NEW r \in NextToPrune(b)'
             PROVE  live'[r.object] = None \/ CarriesMarks(copy[b].uid, r.object)'
  BY DEF OwnedInv, Owned
<1>1. /\ pc[b] = "delete" /\ r \in NextToPrune(b) /\ r \in todo[b] /\ copy'[b] = copy[b]
  BY DEF OnlyJob, SameJob, NextToPrune
<1>2. r \in Territory(b) /\ r.object \in Objects
  BY <1>1, TodoOfTerritory
<1>3. live'[r.object] = live[r.object]
  <2>1. ASSUME NEW t \in Territory(a), NEW l, live' = [live EXCEPT ![t.object] = l]
        PROVE  live'[r.object] = live[r.object]
    <3>1. t.object # r.object
      BY <1>2 DEF Disjoint
    <3> QED
      BY <1>2, <2>1, <3>1 DEF TypeInv, TypeOK, ClusterOK
  <2> QED
    BY <2>1 DEF OfTerritory
<1>4. live[r.object] = None \/ CarriesMarks(copy[b].uid, r.object)
  BY <1>1 DEF OwnedInv, Owned
<1> QED
  BY <1>1, <1>3, <1>4 DEF CarriesMarks

LEMMA OwnedStep ==
  ASSUME Disjoint, MaxMeddles = 0
  PROVE  TypeInv /\ PlacedInv /\ OwnedInv /\ [Next]_vars => OwnedInv'
<1> SUFFICES ASSUME TypeInv, PlacedInv, OwnedInv, [Next]_vars PROVE OwnedInv'
  OBVIOUS
\* A step after which a is not about to delete.
<1>1. ASSUME NEW a \in Apps, pc'[a] # "delete", OfTerritory(a),
             UNCHANGED app \/ \E m : PatchStatus(a, m),
             \/ \E step, t : Goto(a, step, t)
             \/ \E status : FailNext(a, status)
             \/ \E step, status : Begin(a, step, status)
             \/ Return({a}) \/ Checkout(a) \/ SuccessRejected(a)
      PROVE  OwnedInv'
  <2>1. OnlyJob(a)
    BY <1>1, OnlyJobMoves DEF OnlyJob
  <2> QED
    BY <1>1, <2>1, OwnedOthers DEF Owned
<1>2. ASSUME NEW a \in Apps, ReadApp(a) PROVE OwnedInv'
  <2>1. PICK step \in {"suspend", "fetch", "fail"}, status \in {"True", "False"} : Begin(a, step, status)
    BY <1>2 DEF ReadApp, BeginSuspended, BeginInvalid, BeginValid
  <2>2. pc'[a] = step /\ UNCHANGED <<app, live>>
    BY <2>1 DEF Begin, cluster, TypeInv, TypeOK, JobOK
  <2> QED
    BY <1>1, <2>1, <2>2 DEF OfTerritory
<1>3. ASSUME NEW a \in Apps,
             UpdateSuspended(a) \/ Fail(a) \/ UpdateSuccess(a) \/ StatusLost(a)
      PROVE  OwnedInv'
  <2>1. /\ Return({a}) /\ UNCHANGED live /\ (UNCHANGED app \/ \E m : PatchStatus(a, m))
    BY <1>3 DEF UpdateSuspended, Fail, UpdateSuccess, StatusLost, cluster
  <2>2. pc'[a] # "delete"
    BY <2>1 DEF Return
  <2> QED
    BY <1>1, <2>1, <2>2 DEF OfTerritory
<1>4. ASSUME NEW a \in Apps, NEW status, FailNext(a, status), UNCHANGED app, OfTerritory(a)
      PROVE  OwnedInv'
  <2>1. pc'[a] = "fail"
    BY <1>4 DEF FailNext, TypeInv, TypeOK, JobOK
  <2> QED
    BY <1>1, <1>4, <2>1
<1>5. ASSUME NEW a \in Apps, CheckoutFails(a) \/ RenderFails(a) \/ PruneReadFails(a)
      PROVE  OwnedInv'
  BY <1>4, <1>5 DEF CheckoutFails, RenderFails, PruneReadFails, cluster, OfTerritory
<1>6. ASSUME NEW a \in Apps, NEW r \in todo[a], pc[a] \in {"apply", "delete"},
             live' \in {live, Applied(a, r), [live EXCEPT ![r.object] = None]}
      PROVE  OfTerritory(a)
  <2>1. r \in Territory(a) /\ r.object \in Objects /\ copy[a] # None /\ copy[a].uid \in Uids
    BY <1>6, TodoOfTerritory, JobFacts
  <2>2. pc[a] = "apply" => sha[a] \in Revisions
    BY JobFacts
  <2>3. CASE live' = live \/ live' = [live EXCEPT ![r.object] = None]
    BY <2>1, <2>3 DEF OfTerritory
  <2>4. CASE live' = Applied(a, r)
    <3> DEFINE l == [uid |-> copy[a].uid, managed |-> TRUE, revision |-> sha[a], contested |-> FALSE]
    <3>1. sha[a] \in Revisions \cup {None}
      BY DEF TypeInv, TypeOK, JobOK
    <3>2. l \in LiveObject
      BY <2>1, <3>1 DEF LiveObject
    <3> QED
      BY <2>1, <2>4, <3>2 DEF Applied, OfTerritory
  <2> QED
    BY <1>6, <2>3, <2>4
<1>7. ASSUME NEW a \in Apps, NEW r \in todo[a],
             ApplyConflict(a, r) \/ DeleteNotFound(a, r) \/ ApplyFails(a, r) \/ DeleteFails(a, r)
      PROVE  OwnedInv'
  <2>1. /\ pc[a] \in {"apply", "delete"} /\ UNCHANGED app /\ \E status : FailNext(a, status)
        /\ live' \in {live, Applied(a, r), [live EXCEPT ![r.object] = None]}
    BY <1>7 DEF ApplyConflict, DeleteNotFound, ApplyFails, DeleteFails, cluster
  <2> QED
    BY <2>1, <1>4, <1>6
<1>8. ASSUME NEW a \in Apps, NEW step \in {"apply", "prune", "success"}, NEW t, Goto(a, step, t),
             UNCHANGED app, OfTerritory(a)
      PROVE  OwnedInv'
  <2>1. pc'[a] = step
    BY <1>8 DEF Goto, TypeInv, TypeOK, JobOK
  <2> QED
    BY <1>1, <1>8, <2>1
<1>9. ASSUME NEW a \in Apps, Render(a) PROVE OwnedInv'
  BY <1>4, <1>8, <1>9 DEF Render, cluster, OfTerritory
<1>10. ASSUME NEW a \in Apps, ApplyDone(a) \/ PruneDone(a) PROVE OwnedInv'
  <2>1. UNCHANGED <<app, live>> /\ \E step \in {"prune", "success"} : \E t : Goto(a, step, t)
    BY <1>10 DEF ApplyDone, PruneDone, cluster
  <2> QED
    BY <1>8, <2>1 DEF OfTerritory
<1>11. ASSUME NEW a \in Apps, NEW r \in todo[a],
              ApplyObject(a, r) \/ PassOver(a, r) \/ DeleteObject(a, r)
       PROVE  OwnedInv'
  <2>1. /\ UNCHANGED app /\ \E step \in {"apply", "prune"} : \E t : Goto(a, step, t)
        /\ \/ UNCHANGED live
           \/ pc[a] \in {"apply", "delete"} /\ live' \in {Applied(a, r), [live EXCEPT ![r.object] = None]}
    BY <1>11 DEF ApplyObject, PassOver, DeleteObject, cluster
  <2>2. OfTerritory(a)
    BY <2>1, <1>6 DEF OfTerritory
  <2> QED
    BY <1>8, <2>1, <2>2
\* The marks are there when an object is condemned.
<1>12. ASSUME NEW a \in Apps, NEW r \in todo[a], Condemn(a, r) PROVE OwnedInv'
  <2>1. /\ pc[a] = "prune" /\ Goto(a, "delete", todo[a]) /\ UNCHANGED <<app, live>>
        /\ r \in NextToPrune(a) /\ CarriesMarks(copy[a].uid, r.object)
    BY <1>12 DEF Condemn, cluster
  <2>2. pc'[a] = "delete" /\ todo'[a] = todo[a] /\ copy'[a] = copy[a]
    BY <2>1 DEF Goto, TypeInv, TypeOK, JobOK
  <2>3. ASSUME NEW s \in NextToPrune(a)' PROVE CarriesMarks(copy[a].uid, s.object)'
    <3>1. s \in NextToPrune(a)
      BY <2>2, <2>3 DEF NextToPrune
    <3>2. s = r
      BY <2>1, <3>1, NextToPruneUnique
    <3> QED
      BY <2>1, <2>2, <3>2 DEF CarriesMarks
  <2>4. Owned(a)'
    BY <2>3 DEF Owned
  <2>5. OnlyJob(a)
    BY <2>1, OnlyJobMoves DEF OnlyJob
  <2> QED
    BY <2>1, <2>4, <2>5, OwnedOthers DEF OfTerritory
<1>13. ASSUME NEW a \in Apps, Checkout(a) PROVE OwnedInv'
  <2>1. pc'[a] = "render" /\ UNCHANGED <<app, live>>
    BY <1>13 DEF Checkout, cluster, TypeInv, TypeOK, JobOK
  <2> QED
    BY <1>1, <1>13, <2>1 DEF OfTerritory
<1>14. ASSUME NEW a \in Apps, UpdateSuccessNotFound(a) \/ UpdateSuccessFails(a) PROVE OwnedInv'
  <2>1. SuccessRejected(a) /\ UNCHANGED live /\ (UNCHANGED app \/ \E m : PatchStatus(a, m))
    BY <1>14 DEF UpdateSuccessNotFound, UpdateSuccessFails, SuccessRejected
  <2>2. pc'[a] = "fail"
    BY <2>1 DEF SuccessRejected, TypeInv, TypeOK, JobOK
  <2> QED
    BY <1>1, <2>1, <2>2 DEF OfTerritory
<1>15. ASSUME Crash PROVE OwnedInv'
  BY <1>15 DEF Crash, Return, OwnedInv, Owned
<1>16. CASE UNCHANGED <<job, live>>
  <2>1. /\ UNCHANGED <<pc, copy, todo, live>>
        /\ \A a \in Apps : NextToPrune(a)' = NextToPrune(a)
    BY <1>16 DEF job, NextToPrune
  <2> QED
    BY <2>1 DEF OwnedInv, Owned, CarriesMarks
<1>17. ASSUME NEW a \in Apps,
              Create(a) \/ EditSpec(a) \/ MarkDeleted(a) \/ Remove(a) \/ ReadNothing(a)
       PROVE  OwnedInv'
  BY <1>16, <1>17 DEF Create, EditSpec, MarkDeleted, Remove, ReadNothing, vars, job
<1>18. CASE Push \/ UNCHANGED vars
  BY <1>16, <1>18 DEF Push, vars, job
<1>19. ASSUME NEW o \in Objects, Meddle(o) PROVE OwnedInv'
  BY <1>19 DEF Meddle, CountMeddle, TypeInv, TypeOK, SpentOK
<1> QED
  BY <1>2, <1>3, <1>5, <1>7, <1>9, <1>10, <1>11, <1>12, <1>13, <1>14, <1>15, <1>17, <1>18, <1>19
     DEF Next, Advance, CallFails, Users

\* What is deleted was in the inventory and is of the territory, as is what
\* is desired.
LEMMA PlacedPrunes ==
  ASSUME Disjoint
  PROVE  TypeInv /\ PlacedInv /\ OwnedInv => PruneDeletesOnlyOwn /\ PruneSparesDesired
<1> SUFFICES ASSUME TypeInv, PlacedInv, OwnedInv, NEW a \in Apps, pc[a] = "delete",
                    NEW r \in NextToPrune(a)
             PROVE  /\ r \in copy[a].status.inventory
                    /\ live[r.object] = None \/ CarriesMarks(copy[a].uid, r.object)
                    /\ \A d \in Desired(a) : d.object # r.object
  BY DEF PruneDeletesOnlyOwn, PruneSparesDesired
<1>1. r \in todo[a] /\ r \in copy[a].status.inventory \ Desired(a)
  BY DEF NextToPrune, PlacedInv, Placed
<1>2. r \in Territory(a) /\ copy[a] # None /\ sha[a] \in Revisions
  BY <1>1, TodoOfTerritory, JobFacts
<1>3. Desired(a) \in SUBSET Territory(a)
  BY <1>2, DesiredInTerritory DEF PlacedInv
<1>4. \A d \in Desired(a) : d.object # r.object
  BY <1>1, <1>2, <1>3 DEF Disjoint
<1> QED
  BY <1>1, <1>4 DEF OwnedInv, Owned

LEMMA PlacedStart == Init => TypeInv /\ PrunedInv /\ PlacedInv /\ OwnedInv
BY BoundAssumption
   DEF Init, TypeInv, TypeOK, ClusterOK, JobOK, SpentOK, LocalsOK, UidsOK, Steps,
       PrunedInv, Pruned, Underway, PlacedInv, Placed, OwnedInv, Owned

\* With any number of workers, no prune deletes an object that is not in the
\* inventory it started from, has lost the marks of the application or is
\* desired, if no object is rendered by two applications or in two API
\* versions: with failed calls, lost answers, crashes, edits and new
\* incarnations on the way.
THEOREM DisjointPrunesOnlyOwn ==
  ASSUME Disjoint, MaxMeddles = 0
  PROVE  Spec => [](PruneDeletesOnlyOwn /\ PruneSparesDesired)
<1>1. TypeInv /\ PlacedInv /\ OwnedInv /\ [Next]_vars => TypeInv' /\ PlacedInv' /\ OwnedInv'
  BY TypeInvStep, PlacedStep, OwnedStep
<1> QED
  BY <1>1, PlacedStart, PlacedPrunes, PTL DEF Spec

LEMMA ApartHolds ==
  ASSUME Apart
  PROVE  TypeInv /\ PrunedInv /\ PlacedInv /\ OwnedInv => HoldsInv
<1> SUFFICES ASSUME TypeInv, PrunedInv, PlacedInv, OwnedInv PROVE HoldsInv
  OBVIOUS
<1>1. \A a \in Apps : Honest(a)
  BY DEF Honest, PlacedInv, Placed, InPlace, Mine, Apart, AllPrune
<1> QED
  BY <1>1, PlacedPrunes DEF HoldsInv, Apart

(***************************************************************************)
(* The views of the ledger.                                                *)
(***************************************************************************)
LEMMA OneUid ==
  ASSUME Alone, HoldsInv, NEW a \in Apps
  PROVE  /\ Held[a] = {o \in Objects : CarriesMarks(<<a, 1>>, o)}
         /\ copy[a] # None => copy[a].uid = <<a, 1>>
         /\ app[a] # None => app[a].uid = <<a, 1>>
<1>1. 1..MaxIncarnations = {1}
  BY DEF Alone
<1>2. Held[a] = {o \in Objects : CarriesMarks(<<a, 1>>, o)}
  BY <1>1 DEF Held
<1>3. \A u \in Uids : u[1] = a => u = <<a, 1>>
  BY <1>1 DEF Uids
<1>4. /\ copy[a] # None => copy[a].uid \in Uids /\ copy[a].uid[1] = a
      /\ app[a] # None => app[a].uid \in Uids /\ app[a].uid[1] = a
  BY DEF HoldsInv, TypeInv, TypeOK, ClusterOK, JobOK, UidsOK, UidOf, GitApplication
<1> QED
  BY <1>2, <1>3, <1>4

LEMMA PassView ==
  ASSUME HoldsInv, NEW a \in Apps
  PROVE  /\ Basis[a] # None <=> pc[a] \in Underway
         /\ Basis[a] # None => Basis[a] = ObjectsOf(copy[a].status.inventory)
         /\ Aim[a] # None <=> pc[a] \in {"apply", "prune", "delete", "success"}
         /\ Aim[a] # None => Aim[a] = ObjectsOf(Desired(a)) /\ Aim[a] \in SUBSET Objects
<1>1. pc[a] \in Steps
  BY DEF HoldsInv, TypeInv, TypeOK, JobOK
<1>2. pc[a] \in Underway => ObjectsOf(copy[a].status.inventory) \in SUBSET Objects
  <2> SUFFICES ASSUME pc[a] \in Underway PROVE ObjectsOf(copy[a].status.inventory) \in SUBSET Objects
    OBVIOUS
  <2>1. copy[a].status.inventory \in SUBSET Refs
    BY JobFacts DEF Underway, GitApplication, Status, HoldsInv
  <2> QED
    BY <2>1 DEF ObjectsOf, Refs
<1>3. pc[a] \in {"apply", "prune", "delete", "success"} => ObjectsOf(Desired(a)) \in SUBSET Objects
  <2> SUFFICES ASSUME pc[a] \in {"apply", "prune", "delete", "success"}
               PROVE  ObjectsOf(Desired(a)) \in SUBSET Objects
    OBVIOUS
  <2>1. Desired(a) \in SUBSET Refs
    BY JobFacts DEF HoldsInv
  <2> QED
    BY <2>1 DEF ObjectsOf, Refs
<1>4. /\ Basis[a] = IF pc[a] \in {"idle", "suspend", "fail"} THEN None
                    ELSE ObjectsOf(copy[a].status.inventory)
      /\ Aim[a] = IF pc[a] \in {"apply", "prune", "delete", "success"}
                  THEN ObjectsOf(Desired(a)) ELSE None
  BY DEF Basis, Aim
<1>5. pc[a] \in Underway <=> pc[a] \notin {"idle", "suspend", "fail"}
  BY <1>1 DEF Steps, Underway
<1> QED
  BY <1>2, <1>3, <1>4, <1>5, NoneAssumption

\* The views when one reconcile steps: only its own entries change.
LEMMA ViewsAlone ==
  ASSUME HoldsInv, NEW a \in Apps, OnlyJob(a)
  PROVE  /\ Basis' = [Basis EXCEPT ![a] = Basis'[a]]
         /\ Aim' = [Aim EXCEPT ![a] = Aim'[a]]
         /\ Recorded' = [Recorded EXCEPT ![a] = Recorded'[a]]
<1>1. ASSUME NEW b \in Apps \ {a}
      PROVE  Basis'[b] = Basis[b] /\ Aim'[b] = Aim[b] /\ Recorded'[b] = Recorded[b]
  <2>1. /\ pc'[b] = pc[b] /\ copy'[b] = copy[b] /\ sha'[b] = sha[b] /\ app'[b] = app[b]
    BY DEF OnlyJob, SameJob
  <2>2. Desired(b)' = Desired(b)
    BY <2>1 DEF Desired
  <2> QED
    BY <2>1, <2>2 DEF Basis, Aim, Recorded
<1>2. \A f \in {Basis, Aim, Recorded, Basis', Aim', Recorded'} : f = [b \in Apps |-> f[b]]
  BY DEF Basis, Aim, Recorded
<1> QED
  BY <1>1, <1>2

LEMMA ViewSame ==
  ASSUME HoldsInv, NEW a \in Apps
  PROVE  /\ Basis = [Basis EXCEPT ![a] = Basis[a]]
         /\ Aim = [Aim EXCEPT ![a] = Aim[a]]
         /\ Recorded = [Recorded EXCEPT ![a] = Recorded[a]]
         /\ Held = [Held EXCEPT ![a] = Held[a]]
BY DEF Basis, Aim, Recorded, Held

LEMMA HeldSame ==
  ASSUME UNCHANGED live
  PROVE  Held' = Held
BY DEF Held, CarriesMarks

\* A pass over a is over, or is none.
LEMMA Ending ==
  ASSUME HoldsInv, NEW a \in Apps, OnlyJob(a), pc'[a] \in {"idle", "suspend", "fail"}
  PROVE  Ledger!Ends(a)
<1>1. Basis'[a] = None /\ Aim'[a] = None
  BY DEF Basis, Aim
<1> QED
  BY <1>1, ViewsAlone DEF Ledger!Ends

\* A pass over a goes on with the same copy and commit.
LEMMA GoingOn ==
  ASSUME HoldsInv, HoldsInv', NEW a \in Apps, OnlyJob(a), UNCHANGED <<copy, sha>>,
         \/ /\ pc[a] \in {"apply", "prune", "delete", "success"}
            /\ pc'[a] \in {"apply", "prune", "delete", "success"}
         \/ pc[a] = "fetch" /\ pc'[a] = "render"
  PROVE  Ledger!GoesOn
<1>1. Desired(a)' = Desired(a)
  BY DEF Desired
<1>2. Basis'[a] = Basis[a] /\ Aim'[a] = Aim[a]
  BY <1>1 DEF Basis, Aim
<1> QED
  BY <1>2, ViewsAlone, ViewSame DEF Ledger!GoesOn

LEMMA RecordSame ==
  ASSUME HoldsInv, NEW a \in Apps, OnlyJob(a), Recorded'[a] = Recorded[a]
  PROVE  Recorded' = Recorded
BY ViewsAlone, ViewSame

(***************************************************************************)
(* Every step is a step of the ledger, or leaves it as it is.              *)
(***************************************************************************)
\* What an apply and a delete do to the objects applications hold.
LEMMA HeldTaken ==
  ASSUME Alone, HoldsInv, NEW a \in Apps, NEW r \in todo[a], pc[a] = "apply",
         live' = Applied(a, r)
  PROVE  Held' = [b \in Apps |-> IF b = a THEN Held[b] \cup {r.object}
                                 ELSE Held[b] \ {r.object}]
<1>1. /\ r.object \in Objects /\ sha[a] \in Revisions /\ copy[a].uid = <<a, 1>>
      /\ live \in [Objects -> LiveObject \cup {None}] /\ copy[a].uid \in Uids
  BY JobFacts, OneUid DEF Refs, HoldsInv
<1> DEFINE new == [uid |-> copy[a].uid, managed |-> TRUE, revision |-> sha[a], contested |-> FALSE]
<1>2. new # None /\ new.uid = <<a, 1>> /\ new.managed
  <2>1. new \in LiveObject
    BY <1>1 DEF LiveObject
  <2> QED
    BY <1>1, <2>1, NoneAssumption
<1> HIDE DEF new
<1>3. \A o \in Objects : live'[o] = IF o = r.object THEN new ELSE live[o]
  BY <1>1 DEF Applied, new
<1>4. 1..MaxIncarnations = {1}
  BY DEF Alone
<1>5. \A b \in Apps, o \in Objects :
        CarriesMarks(<<b, 1>>, o)' <=> IF o = r.object THEN b = a ELSE CarriesMarks(<<b, 1>>, o)
  BY <1>2, <1>3 DEF CarriesMarks
<1>6. \A b \in Apps : Held[b] = {o \in Objects : CarriesMarks(<<b, 1>>, o)}
  BY OneUid
<1>7. Held' = [b \in Apps |-> {o \in Objects : CarriesMarks(<<b, 1>>, o)'}]
  BY <1>4 DEF Held
<1>8. ASSUME NEW b \in Apps
      PROVE  {o \in Objects : CarriesMarks(<<b, 1>>, o)'}
               = IF b = a THEN Held[b] \cup {r.object} ELSE Held[b] \ {r.object}
  BY <1>1, <1>5, <1>6
<1> QED
  BY <1>7, <1>8

LEMMA HeldReleased ==
  ASSUME Alone, HoldsInv, NEW a \in Apps, NEW r \in NextToPrune(a), pc[a] = "delete",
         live[r.object] # None, live' = [live EXCEPT ![r.object] = None]
  PROVE  /\ r.object \in Held[a]
         /\ Held' = [Held EXCEPT ![a] = @ \ {r.object}]
<1>1. /\ r.object \in Objects /\ copy[a].uid = <<a, 1>>
      /\ live \in [Objects -> LiveObject \cup {None}]
  BY JobFacts, OneUid DEF Refs, NextToPrune, HoldsInv
<1>2. CarriesMarks(<<a, 1>>, r.object)
  BY <1>1 DEF HoldsInv, PruneDeletesOnlyOwn
<1>3. \A b \in Apps, o \in Objects :
        CarriesMarks(<<b, 1>>, o)' <=> o # r.object /\ CarriesMarks(<<b, 1>>, o)
  BY <1>1 DEF CarriesMarks
<1>4. \A b \in Apps \ {a} : ~CarriesMarks(<<b, 1>>, r.object)
  BY <1>2 DEF CarriesMarks
<1>5. 1..MaxIncarnations = {1}
  BY DEF Alone
<1>6. \A b \in Apps : Held[b] = {o \in Objects : CarriesMarks(<<b, 1>>, o)}
  BY OneUid
<1>7. Held' = [b \in Apps |-> {o \in Objects : CarriesMarks(<<b, 1>>, o)'}]
  BY <1>5 DEF Held
<1>8. ASSUME NEW b \in Apps
      PROVE  {o \in Objects : CarriesMarks(<<b, 1>>, o)'}
               = IF b = a THEN Held[b] \ {r.object} ELSE Held[b]
  BY <1>3, <1>4, <1>6
<1>9. Held' = [b \in Apps |-> IF b = a THEN Held[b] \ {r.object} ELSE Held[b]]
  BY <1>7, <1>8
<1> QED
  BY <1>1, <1>2, <1>6, <1>9 DEF Held

\* A status patch records what its status says, also as a merge patch.
LEMMA RecordPatched ==
  ASSUME HoldsInv, NEW a \in Apps, NEW m \in Status, copy[a] # None, app[a] # None,
         PatchStatus(a, m)
  PROVE  Recorded'[a] = ObjectsOf(Merged("inventory", app[a].status, copy[a].status, m))
<1>1. app[a] \in GitApplication /\ app \in [Apps -> GitApplication \cup {None}]
  BY DEF HoldsInv, TypeInv, TypeOK, ClusterOK
<1>2. app'[a] = [app[a] EXCEPT !.status = MergePatch(app[a].status, copy[a].status, m)]
  BY <1>1 DEF PatchStatus
<1>3. app'[a].status.inventory = Merged("inventory", app[a].status, copy[a].status, m)
  BY <1>1, <1>2 DEF GitApplication, MergePatch
<1>4. app'[a] # None
  BY PatchStatusType, NoneAssumption DEF HoldsInv, TypeInv
<1> QED
  BY <1>3, <1>4 DEF Recorded

\* Success: what was rendered is held, what it drops from the record is not,
\* and the record becomes what was rendered.
LEMMA SuccessReports ==
  ASSUME Alone, HoldsInv, NEW a \in Apps, pc[a] = "success", app[a] # None, OnlyJob(a),
         PatchStatus(a, SuccessStatus(a)), UNCHANGED live, pc'[a] \in {"idle", "fail"}
  PROVE  Ledger!Report(a)
<1>1. /\ copy[a] # None /\ copy[a] \in GitApplication /\ sha[a] \in Revisions
      /\ Desired(a) \in SUBSET Refs
  BY JobFacts DEF HoldsInv
<1>2. copy[a].uid = <<a, 1>> /\ app[a].uid = <<a, 1>>
  BY <1>1, OneUid
<1>3. Held[a] = {o \in Objects : CarriesMarks(<<a, 1>>, o)}
  BY OneUid
<1>4. Aim[a] = ObjectsOf(Desired(a)) /\ Aim[a] # None
  BY PassView
<1>5. Basis[a] = ObjectsOf(copy[a].status.inventory)
  BY PassView DEF Underway
<1>6. Aim[a] \subseteq Held[a]
  <2>1. \A r \in Desired(a) : CarriesMarks(<<a, 1>>, r.object) /\ r.object \in Objects
    BY <1>1, <1>2 DEF HoldsInv, Honest, Mine, Refs
  <2> QED
    BY <1>3, <1>4, <2>1 DEF ObjectsOf
<1>7. (Basis[a] \ Aim[a]) \cap Held[a] = {}
  <2>1. copy[a].spec.prune
    BY <1>1 DEF HoldsInv, Honest
  <2>2. \A r \in copy[a].status.inventory \ Desired(a) : ~CarriesMarks(<<a, 1>>, r.object)
    BY <1>2, <2>1 DEF HoldsInv, PrunedInv, Pruned
  <2> QED
    BY <1>3, <1>4, <1>5, <2>2 DEF ObjectsOf
<1>8. SuccessStatus(a) \in Status
  BY <1>1, SuccessStatusType DEF HoldsInv, TypeInv
<1>9. Recorded'[a] = Aim[a]
  <2>1. Recorded'[a] = ObjectsOf(Merged("inventory", app[a].status, copy[a].status, SuccessStatus(a)))
    BY <1>1, <1>8, RecordPatched
  <2>2. app[a].status.inventory = copy[a].status.inventory
    BY <1>2 DEF HoldsInv, PrunedInv, Pruned, Underway
  <2>3. Merged("inventory", app[a].status, copy[a].status, SuccessStatus(a)) = Desired(a)
    BY <2>2 DEF Merged, SuccessStatus
  <2> QED
    BY <1>4, <2>1, <2>3
<1>10. Recorded' = [Recorded EXCEPT ![a] = Aim[a]]
  BY <1>9, ViewsAlone
<1> QED
  BY <1>4, <1>6, <1>7, <1>10, Ending, HeldSame DEF Ledger!Report

\* A pass ends without having done anything more.
LEMMA GivingUp ==
  ASSUME HoldsInv, NEW a \in Apps, OnlyJob(a), UNCHANGED <<app, live>>,
         pc'[a] \in {"idle", "suspend", "fail"}
  PROVE  Ledger!Next
<1>1. Recorded' = Recorded
  BY DEF Recorded
<1>2. Ledger!Ends(a)
  BY Ending
<1>3. Ledger!GiveUp({a})
  BY <1>1, <1>2, HeldSame DEF Ledger!GiveUp, Ledger!Ends, Basis, Aim
<1> QED
  BY <1>3 DEF Ledger!Next

\* A reconcile that is no pass, before its step and after it.
LEMMA NoPass ==
  ASSUME HoldsInv, NEW a \in Apps, pc[a] \in {"idle", "suspend", "fail"}, OnlyJob(a),
         pc'[a] \in {"idle", "suspend", "fail"}, UNCHANGED live, Recorded'[a] = Recorded[a]
  PROVE  UNCHANGED <<Held, Recorded, Basis, Aim>>
<1>1. Basis[a] = None /\ Aim[a] = None /\ Basis'[a] = None /\ Aim'[a] = None
  BY DEF Basis, Aim
<1> QED
  BY <1>1, ViewsAlone, ViewSame, HeldSame

LEMMA LedgerStep ==
  ASSUME Alone
  PROVE  HoldsInv /\ HoldsInv' /\ [Next]_vars => [Ledger!Next]_<<Held, Recorded, Basis, Aim>>
<1> SUFFICES ASSUME HoldsInv, HoldsInv', [Next]_vars
             PROVE  Ledger!Next \/ UNCHANGED <<Held, Recorded, Basis, Aim>>
  OBVIOUS
<1> DEFINE Stays == UNCHANGED <<Held, Recorded, Basis, Aim>>
<1> USE DEF Underway
\* The reconcile starts: a pass, unless the spec is suspended or invalid.
<1>1. ASSUME NEW a \in Apps, ReadApp(a) PROVE Ledger!Next \/ Stays
  <2>1. PICK step \in {"suspend", "fetch", "fail"}, status \in {"True", "False"} : Begin(a, step, status)
    BY <1>1 DEF ReadApp, BeginSuspended, BeginInvalid, BeginValid
  <2>2. /\ pc[a] = "idle" /\ pc'[a] = step /\ copy'[a] = app[a] /\ app[a] # None
        /\ UNCHANGED <<app, live>>
    BY <2>1 DEF Begin, cluster, HoldsInv, TypeInv, TypeOK, JobOK
  <2>3. OnlyJob(a)
    BY <2>1, <2>2, OnlyJobMoves DEF OnlyJob, HoldsInv
  <2>4. Recorded' = Recorded
    BY <2>2 DEF Recorded
  <2>5. CASE step = "fetch"
    <3>1. /\ Basis[a] = None /\ Basis'[a] = Recorded[a]
          /\ Aim[a] = None /\ Aim'[a] = None
      BY <2>2, <2>5 DEF Basis, Recorded, Aim
    <3>2. Ledger!Start(a)
      BY <2>2, <2>3, <2>4, <3>1, ViewsAlone, ViewSame, HeldSame DEF Ledger!Start
    <3> QED
      BY <3>2 DEF Ledger!Next
  <2>6. CASE step # "fetch"
    BY <2>2, <2>3, <2>4, <2>6, NoPass
  <2> QED
    BY <2>5, <2>6
\* A call fails and nothing was done.
<1>2. ASSUME NEW a \in Apps, pc[a] \in Underway, NEW status, FailNext(a, status), UNCHANGED <<app, live>>
      PROVE  Ledger!Next
  <2>1. pc'[a] = "fail"
    BY <1>2 DEF FailNext, HoldsInv, TypeInv, TypeOK, JobOK
  <2>2. OnlyJob(a)
    BY <1>2, OnlyJobMoves DEF OnlyJob, HoldsInv
  <2> QED
    BY <1>2, <2>1, <2>2, GivingUp
<1>3. ASSUME NEW a \in Apps, CheckoutFails(a) \/ RenderFails(a) \/ PruneReadFails(a)
      PROVE  Ledger!Next
  BY <1>2, <1>3 DEF CheckoutFails, RenderFails, PruneReadFails, cluster
<1>4. ASSUME NEW a \in Apps, NEW r \in todo[a], ApplyConflict(a, r) \/ DeleteNotFound(a, r)
      PROVE  Ledger!Next
  BY <1>2, <1>4 DEF ApplyConflict, DeleteNotFound, cluster
\* The aim is chosen.
<1>5. ASSUME NEW a \in Apps, Checkout(a) PROVE Stays
  <2>1. /\ pc[a] = "fetch" /\ pc'[a] = "render" /\ UNCHANGED <<app, live>>
        /\ copy'[a] = [copy[a] EXCEPT !.status.attemptedRevision = head]
    BY <1>5 DEF Checkout, cluster, HoldsInv, TypeInv, TypeOK, JobOK
  <2>2. copy[a] \in GitApplication
    BY <2>1, JobFacts DEF HoldsInv
  <2>3. copy'[a].status.inventory = copy[a].status.inventory
    BY <2>1, <2>2 DEF GitApplication, Status
  <2>4. Basis'[a] = Basis[a] /\ Aim'[a] = Aim[a]
    BY <2>1, <2>3 DEF Basis, Aim
  <2>5. OnlyJob(a) /\ Recorded' = Recorded
    BY <1>5, <2>1, OnlyJobMoves DEF OnlyJob, HoldsInv, Recorded
  <2> QED
    BY <2>1, <2>4, <2>5, ViewsAlone, ViewSame, HeldSame
<1>6. ASSUME NEW a \in Apps, Render(a) PROVE Ledger!Next
  <2>1. pc[a] = "render" /\ UNCHANGED <<app, live>>
    BY <1>6 DEF Render, cluster
  <2>2. CASE Goto(a, "apply", Desired(a))
    <3>1. pc'[a] = "apply" /\ UNCHANGED <<copy, sha>>
      BY <2>2 DEF Goto, HoldsInv, TypeInv, TypeOK, JobOK
    <3>2. OnlyJob(a) /\ Recorded' = Recorded
      BY <2>1, <2>2, OnlyJobMoves DEF OnlyJob, HoldsInv, Recorded
    <3>3. Basis'[a] = Basis[a] /\ Basis[a] # None /\ Aim[a] = None
      BY <2>1, <3>1, PassView DEF Basis
    <3>4. Aim'[a] \in SUBSET Objects
      <4>1. Desired(a)' = Desired(a) /\ Desired(a) \in SUBSET Refs
        BY <2>1, <3>1, JobFacts DEF Desired, HoldsInv
      <4> QED
        BY <3>1, <4>1 DEF Aim, ObjectsOf, Refs
    <3>5. Ledger!Choose(a)
      BY <2>1, <3>2, <3>3, <3>4, ViewsAlone, ViewSame, HeldSame DEF Ledger!Choose
    <3> QED
      BY <3>5 DEF Ledger!Next
  <2> QED
    BY <1>2, <1>6, <2>1, <2>2 DEF Render
\* An object is taken; the answer may be lost.
<1>7. ASSUME NEW a \in Apps, NEW r \in todo[a], ApplyObject(a, r) \/ ApplyFails(a, r)
      PROVE  Ledger!Next
  <2>1. /\ pc[a] = "apply" /\ UNCHANGED app
        /\ \/ live' = Applied(a, r) /\ Goto(a, "apply", todo[a] \ {r})
           \/ live' \in {live, Applied(a, r)} /\ \E status : FailNext(a, status)
    BY <1>7 DEF ApplyObject, ApplyFails
  <2>2. OnlyJob(a) /\ Recorded' = Recorded
    BY <2>1, OnlyJobMoves DEF OnlyJob, HoldsInv, Recorded
  <2>3. CASE live' = live /\ \E status : FailNext(a, status)
    BY <1>2, <2>1, <2>3
  <2>4. CASE live' = Applied(a, r)
    <3>1. r \in Desired(a) /\ Aim[a] # None /\ r.object \in Aim[a] /\ r.object \in Objects
      <4>1. r \in Desired(a) /\ r \in Refs
        BY <2>1, JobFacts DEF HoldsInv, Honest
      <4>2. Aim[a] = ObjectsOf(Desired(a)) /\ Aim[a] # None
        BY <2>1, PassView
      <4> QED
        BY <4>1, <4>2 DEF ObjectsOf, Refs
    <3>2. Ledger!Ends(a) \/ Ledger!GoesOn
      <4>1. ASSUME NEW status, FailNext(a, status) PROVE Ledger!Ends(a)
        BY <2>2, <4>1, Ending DEF FailNext, HoldsInv, TypeInv, TypeOK, JobOK
      <4>2. ASSUME Goto(a, "apply", todo[a] \ {r}) PROVE Ledger!GoesOn
        <5>1. pc'[a] = "apply" /\ UNCHANGED <<copy, sha>>
          BY <4>2 DEF Goto, HoldsInv, TypeInv, TypeOK, JobOK
        <5> QED
          BY <2>1, <2>2, <5>1, GoingOn
      <4> QED
        BY <2>1, <4>1, <4>2
    <3>3. Held' = [b \in Apps |-> IF b = a THEN Held[b] \cup {r.object} ELSE Held[b] \ {r.object}]
      BY <2>1, <2>4, HeldTaken
    <3>4. Ledger!Take(a, r.object)
      BY <2>2, <3>1, <3>2, <3>3 DEF Ledger!Take
    <3> QED
      BY <3>1, <3>4 DEF Ledger!Next
  <2> QED
    BY <2>1, <2>3, <2>4
\* Steps that neither take nor release.
<1>8. ASSUME NEW a \in Apps, pc[a] \in {"apply", "prune"}, UNCHANGED <<app, live>>,
             NEW step \in {"prune", "delete", "success"}, NEW t, Goto(a, step, t)
      PROVE  Stays
  <2>1. pc'[a] = step /\ UNCHANGED <<copy, sha>>
    BY <1>8 DEF Goto, HoldsInv, TypeInv, TypeOK, JobOK
  <2>2. OnlyJob(a)
    BY <1>8, OnlyJobMoves DEF OnlyJob, HoldsInv
  <2>3. Ledger!GoesOn
    BY <1>8, <2>1, <2>2, GoingOn
  <2> QED
    BY <1>8, <2>3, HeldSame DEF Ledger!GoesOn, Recorded
<1>9. ASSUME NEW a \in Apps, ApplyDone(a) \/ PruneDone(a) PROVE Stays
  BY <1>8, <1>9 DEF ApplyDone, PruneDone, cluster
<1>10. ASSUME NEW a \in Apps, NEW r \in todo[a], PassOver(a, r) \/ Condemn(a, r) PROVE Stays
  BY <1>8, <1>10 DEF PassOver, Condemn, cluster
\* An object is released; the answer may be lost.
<1>11. ASSUME NEW a \in Apps, NEW r \in todo[a], DeleteObject(a, r) \/ DeleteFails(a, r)
       PROVE  Ledger!Next
  <2>1. /\ pc[a] = "delete" /\ UNCHANGED app /\ r \in NextToPrune(a)
        /\ live' = live \/ live' = [live EXCEPT ![r.object] = None]
        /\ \/ live[r.object] # None /\ live' = [live EXCEPT ![r.object] = None]
              /\ Goto(a, "prune", todo[a] \ {r})
           \/ \E status : FailNext(a, status)
    BY <1>11 DEF DeleteObject, DeleteFails
  <2>2. OnlyJob(a) /\ Recorded' = Recorded
    BY <2>1, OnlyJobMoves DEF OnlyJob, HoldsInv, Recorded
  <2>3. CASE live' = live /\ \E status : FailNext(a, status)
    BY <1>2, <2>1, <2>3
  <2>4. CASE live[r.object] = None /\ \E status : FailNext(a, status)
    <3>1. live' = live
      BY <2>1, <2>4, JobFacts DEF Refs, HoldsInv
    <3> QED
      BY <2>3, <2>4, <3>1
  <2>5. CASE live[r.object] # None /\ live' = [live EXCEPT ![r.object] = None]
    <3>1. r.object \in Held[a] /\ Held' = [Held EXCEPT ![a] = @ \ {r.object}]
      BY <2>1, <2>5, HeldReleased
    <3>2. Ledger!Ends(a) \/ Ledger!GoesOn
      <4>1. ASSUME NEW status, FailNext(a, status) PROVE Ledger!Ends(a)
        BY <2>2, <4>1, Ending DEF FailNext, HoldsInv, TypeInv, TypeOK, JobOK
      <4>2. ASSUME Goto(a, "prune", todo[a] \ {r}) PROVE Ledger!GoesOn
        <5>1. pc'[a] = "prune" /\ UNCHANGED <<copy, sha>>
          BY <4>2 DEF Goto, HoldsInv, TypeInv, TypeOK, JobOK
        <5> QED
          BY <2>1, <2>2, <5>1, GoingOn
      <4> QED
        BY <2>1, <4>1, <4>2
    <3>3. r.object \in Basis[a] \ Aim[a] /\ Aim[a] # None /\ r.object \in Objects
      <4>1. r \in copy[a].status.inventory /\ r \in Refs
        BY <2>1, JobFacts DEF HoldsInv, PruneDeletesOnlyOwn
      <4>2. Basis[a] = ObjectsOf(copy[a].status.inventory)
        BY <2>1, PassView
      <4>3. Aim[a] = ObjectsOf(Desired(a)) /\ Aim[a] # None
        BY <2>1, PassView
      <4>4. r.object \notin ObjectsOf(Desired(a))
        BY <2>1 DEF ObjectsOf, HoldsInv, PruneSparesDesired
      <4> QED
        BY <4>1, <4>2, <4>3, <4>4 DEF ObjectsOf, Refs
    <3>4. Ledger!Release(a, r.object)
      BY <2>2, <3>1, <3>2, <3>3 DEF Ledger!Release
    <3> QED
      BY <3>3, <3>4 DEF Ledger!Next
  <2> QED
    BY <2>1, <2>3, <2>4, <2>5
\* Success is reported.
<1>12. ASSUME NEW a \in Apps, UpdateSuccess(a) \/ UpdateSuccessFails(a) \/ UpdateSuccessNotFound(a)
       PROVE  Ledger!Next
  <2>1. /\ pc[a] = "success" /\ UNCHANGED live
        /\ UNCHANGED app \/ (app[a] # None /\ PatchStatus(a, SuccessStatus(a)))
        /\ Return({a}) \/ SuccessRejected(a)
    BY <1>12 DEF UpdateSuccess, UpdateSuccessFails, UpdateSuccessNotFound, SuccessRejected
  <2>2. pc'[a] \in {"idle", "fail"}
    BY <2>1 DEF Return, SuccessRejected, HoldsInv, TypeInv, TypeOK, JobOK
  <2>3. OnlyJob(a)
    BY <2>1, OnlyJobMoves DEF OnlyJob, HoldsInv
  <2> QED
    BY <2>1, <2>2, <2>3, GivingUp, SuccessReports DEF Ledger!Next
\* What comes after a failure, or instead of a pass.
<1>13. ASSUME NEW a \in Apps, UpdateSuspended(a) \/ Fail(a) \/ StatusLost(a) PROVE Stays
  <2>1. /\ pc[a] \in {"suspend", "fail"} /\ Return({a}) /\ UNCHANGED live
        /\ \/ UNCHANGED app
           \/ app[a] # None /\ PatchStatus(a, SuspendedStatus(a))
           \/ app[a] # None /\ PatchStatus(a, FailedStatus(a))
    BY <1>13 DEF UpdateSuspended, Fail, StatusLost, cluster
  <2>2. pc'[a] = "idle" /\ OnlyJob(a)
    BY <2>1, OnlyJobMoves DEF OnlyJob, Return, HoldsInv
  <2>3. copy[a] # None /\ copy[a] \in GitApplication
    BY <2>1, JobFacts DEF HoldsInv
  <2>4. /\ SuspendedStatus(a) \in Status /\ SuspendedStatus(a).inventory = copy[a].status.inventory
        /\ FailedStatus(a) \in Status /\ FailedStatus(a).inventory = copy[a].status.inventory
    BY <2>3, SuspendedStatusType, FailedStatusType
       DEF SuspendedStatus, FailedStatus, GitApplication, Status, HoldsInv, TypeInv
  <2>5. ASSUME NEW m \in Status, m.inventory = copy[a].status.inventory,
               app[a] # None, PatchStatus(a, m)
        PROVE  Recorded'[a] = Recorded[a]
    <3>1. Recorded'[a] = ObjectsOf(Merged("inventory", app[a].status, copy[a].status, m))
      BY <2>3, <2>5, RecordPatched
    <3> QED
      BY <2>5, <3>1 DEF Merged, Recorded
  <2>6. Recorded'[a] = Recorded[a]
    BY <2>1, <2>4, <2>5 DEF Recorded
  <2> QED
    BY <2>1, <2>2, <2>6, NoPass
\* The process dies: the passes under way are given up.
<1>14. ASSUME Crash PROVE Ledger!Next
  <2>1. UNCHANGED <<app, live>> /\ \A b \in Apps : pc'[b] = "idle"
    BY <1>14 DEF Crash, Return, cluster
  <2>2. /\ Basis' = [b \in Apps |-> IF b \in Apps THEN None ELSE Basis[b]]
        /\ Aim' = [b \in Apps |-> IF b \in Apps THEN None ELSE Aim[b]]
    BY <2>1 DEF Basis, Aim
  <2>3. Recorded' = Recorded /\ Held' = Held
    BY <2>1, HeldSame DEF Recorded
  <2>4. Ledger!GiveUp(Apps)
    BY <2>2, <2>3 DEF Ledger!GiveUp
  <2> QED
    BY <2>4 DEF Ledger!Next
\* Steps of the users.
<1>15. ASSUME UNCHANGED <<job, live>>, Recorded' = Recorded PROVE Stays
  <2>1. UNCHANGED <<pc, copy, sha>> /\ \A a \in Apps : Desired(a)' = Desired(a)
    BY <1>15 DEF job, Desired
  <2>2. Basis' = Basis /\ Aim' = Aim
    BY <2>1 DEF Basis, Aim
  <2> QED
    BY <1>15, <2>2, HeldSame
<1>16. ASSUME NEW a \in Apps, Create(a) \/ EditSpec(a) \/ MarkDeleted(a) PROVE Stays
  <2>1. UNCHANGED <<job, live>>
    BY <1>16 DEF Create, EditSpec, MarkDeleted
  <2>2. app \in [Apps -> GitApplication \cup {None}] /\ app' \in [Apps -> GitApplication \cup {None}]
    BY DEF HoldsInv, TypeInv, TypeOK, ClusterOK
  <2>3. ASSUME NEW b \in Apps \ {a} PROVE app'[b] = app[b]
    BY <1>16, <2>2, <2>3 DEF Create, EditSpec, MarkDeleted
  <2>4. OnlyJob(a)
    BY <2>1, <2>3 DEF OnlyJob, SameJob, job
  <2>5. ASSUME Create(a) PROVE Recorded' = Recorded
    <3>1. app'[a].status = EmptyStatus /\ app[a] = None
      BY <2>2, <2>5 DEF Create
    <3>2. Recorded[a] = {} /\ Recorded'[a] = {}
      BY <3>1 DEF Recorded, EmptyStatus, ObjectsOf
    <3> QED
      BY <2>4, <3>2, RecordSame
  <2>6. ASSUME EditSpec(a) \/ MarkDeleted(a) PROVE Recorded' = Recorded
    <3>1. app[a] # None /\ app[a] \in GitApplication /\ app'[a] \in GitApplication
      <4>1. app[a] # None /\ app[a] \in GitApplication
        BY <2>2, <2>6 DEF EditSpec, MarkDeleted
      <4>2. app'[a] # None
        <5>1. CASE EditSpec(a)
          <6>1. PICK s \in Specs[a] : app' = [app EXCEPT ![a].spec = s, ![a].generation = @ + 1]
            BY <5>1 DEF EditSpec
          <6>2. app'[a] = [app[a] EXCEPT !.spec = s, !.generation = @ + 1]
            BY <2>2, <6>1
          <6>3. app[a].generation + 1 \in 1..MaxGeneration /\ s \in SpecRecords
            BY <4>1, <5>1, BoundAssumption, ManifestAssumption DEF EditSpec, GitApplication
          <6>4. app'[a] \in GitApplication
            BY <4>1, <6>2, <6>3 DEF GitApplication
          <6> QED
            BY <6>4, NoneAssumption
        <5>2. CASE MarkDeleted(a)
          <6>1. app'[a] \in GitApplication
            BY <2>2, <4>1, <5>2 DEF MarkDeleted, GitApplication
          <6> QED
            BY <6>1, NoneAssumption
        <5> QED
          BY <2>6, <5>1, <5>2
      <4> QED
        BY <2>2, <4>1, <4>2
    <3>2. app'[a].status = app[a].status
      <4>1. ASSUME EditSpec(a) PROVE app'[a].status = app[a].status
        BY <2>2, <3>1, <4>1 DEF EditSpec, GitApplication
      <4>2. ASSUME MarkDeleted(a) PROVE app'[a].status = app[a].status
        BY <2>2, <3>1, <4>2 DEF MarkDeleted, GitApplication
      <4> QED
        BY <2>6, <4>1, <4>2
    <3>3. Recorded'[a] = Recorded[a]
      BY <3>1, <3>2, NoneAssumption DEF Recorded
    <3> QED
      BY <2>4, <3>3, RecordSame
  <2>7. Recorded' = Recorded
    BY <1>16, <2>5, <2>6
  <2> QED
    BY <2>1, <2>7, <1>15
<1>17. ASSUME NEW a \in Apps, Remove(a) PROVE Ledger!Next
  <2>1. UNCHANGED <<job, live>> /\ app' = [app EXCEPT ![a] = None]
    BY <1>17 DEF Remove
  <2>2. UNCHANGED <<pc, copy, sha>> /\ \A b \in Apps : Desired(b)' = Desired(b)
    BY <2>1 DEF job, Desired
  <2>3. Basis' = Basis /\ Aim' = Aim /\ Held' = Held
    BY <2>1, <2>2, HeldSame DEF Basis, Aim
  <2>4. Recorded' = [Recorded EXCEPT ![a] = {}]
    BY <2>1 DEF Recorded, HoldsInv, TypeInv, TypeOK, ClusterOK
  <2> QED
    BY <2>3, <2>4 DEF Ledger!Forget, Ledger!Next
<1>18. ASSUME Push \/ UNCHANGED vars \/ \E a \in Apps : ReadNothing(a) PROVE Stays
  <2>1. UNCHANGED <<job, live, app>>
    BY <1>18 DEF Push, ReadNothing, vars, job
  <2> QED
    BY <1>15, <2>1 DEF Recorded
<1>19. ASSUME NEW o \in Objects, Meddle(o) PROVE FALSE
  BY <1>19 DEF Meddle, CountMeddle, Alone, HoldsInv, TypeInv, TypeOK, SpentOK
<1> QED
  BY <1>1, <1>3, <1>4, <1>5, <1>6, <1>7, <1>9, <1>10, <1>11, <1>12, <1>13, <1>14,
     <1>16, <1>17, <1>18, <1>19
     DEF Next, Advance, CallFails, Users

LEMMA LedgerStart == Init => Ledger!Init
BY DEF Init, Ledger!Init, Held, Recorded, Basis, Aim, CarriesMarks

LEMMA LedgerVars == Ledger!ledger = <<Held, Recorded, Basis, Aim>>
BY DEF Ledger!ledger

\* With one worker, every behaviour of the reconcile loop is one of the
\* ledger: with any number of applications that render to whatever they
\* like, with failed calls, lost answers, crashes, edits and pushes.
THEOREM ReconcileKeepsLedger ==
  ASSUME Orderly
  PROVE  Spec => KeepsLedger
<1>1. Init => LedgerInv
  BY BoundAssumption
     DEF Init, LedgerInv, TypeInv, TypeOK, ClusterOK, JobOK, SpentOK, LocalsOK, UidsOK, Steps,
         PrunedInv, Pruned, Underway, OwnInv, OneAtATime, Own, StaleInv, Stale, TakenInv, Taken
<1>2. LedgerInv /\ [Next]_vars => LedgerInv'
  BY LedgerInvStep
<1>3. HoldsInv /\ HoldsInv' /\ [Next]_vars => [Ledger!Next]_<<Held, Recorded, Basis, Aim>>
  BY LedgerStep DEF Orderly
<1>4. LedgerInv => HoldsInv
  BY OrderlyHolds
<1> QED
  BY <1>1, <1>2, <1>3, <1>4, LedgerStart, LedgerVars, PTL
     DEF Spec, KeepsLedger, Ledger!Spec, Ledger!ledger

\* So is it with any number of workers, if no object is rendered by two
\* applications or in two API versions: however their passes interleave, and
\* however many of them a crash cuts off at once.
THEOREM WorkersKeepLedger ==
  ASSUME Apart
  PROVE  Spec => KeepsLedger
<1> DEFINE Inv == TypeInv /\ PrunedInv /\ PlacedInv /\ OwnedInv
<1>1. Init => Inv
  BY PlacedStart
<1>2. Inv /\ [Next]_vars => Inv'
  BY TypeInvStep, PrunedStep, PlacedStep, OwnedStep DEF Apart, Alone
<1>3. HoldsInv /\ HoldsInv' /\ [Next]_vars => [Ledger!Next]_<<Held, Recorded, Basis, Aim>>
  BY LedgerStep DEF Apart
<1>4. Inv => HoldsInv
  BY ApartHolds
<1> HIDE DEF Inv
<1> QED
  BY <1>1, <1>2, <1>3, <1>4, LedgerStart, LedgerVars, PTL
     DEF Spec, KeepsLedger, Ledger!Spec, Ledger!ledger
=============================================================================
