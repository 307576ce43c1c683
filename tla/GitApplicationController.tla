---------------------- MODULE GitApplicationController ----------------------
(***************************************************************************)
(* The reconcile loop of Cabure: GitApplicationReconciler.Reconcile and    *)
(* everything it calls that touches the cluster, run by a pool of workers, *)
(* next to the users who edit and delete GitApplications, push revisions   *)
(* and handle the same objects by hand.                                    *)
(*                                                                         *)
(* A step is one call to the API server or to git with the local work      *)
(* around it, so that everybody else may act between two calls of one      *)
(* reconcile.  Simplifications:                                            *)
(*  - Rendering is a function of the path in the spec and of the commit.   *)
(*    What spec.source, spec.render and spec.destination say besides is    *)
(*    one path.  validateSpec is the field "valid" of a spec.              *)
(*  - An inventory is a set of references: Diff compares by Key() in a map *)
(*    and sorts what is left, so order and duplicates do not matter to it. *)
(*  - Checkout is one step: a commit the branch is at, or an error.  Its   *)
(*    own steps are in module Repository.                                  *)
(*  - Of the conditions only Ready and Stalled are kept: Reconciling is    *)
(*    always written with status False.  A condition write is always a     *)
(*    change, since every one carries a new transition time.               *)
(*  - The queue is not here: any application may be reconciled at any time *)
(*    when a worker is free, but never by two workers at once.             *)
(*  - An object that is deleted is gone (no finalizers on workloads).      *)
(***************************************************************************)
EXTENDS Integers, FiniteSets

CONSTANTS
  Apps,                 \* names of GitApplications
  Objects,              \* objects of the cluster (group, kind, namespace, name)
  Versions,             \* API versions an object can be written in
  Paths,                \* sources within the repository
  Revisions,            \* commits
  Manifest,             \* Manifest[p][s]: what path p renders to at commit s
  RenderError,          \* <<p, s>> that do not render
  PolicyError,          \* <<p, s>> that render to something not admitted
  Specs,                \* Specs[a]: the specs users give to application a
  Priority,             \* apply order of an object, by its kind
  KeyOrder,             \* position of a reference in the order of Key()
  ConcurrentReconciles, \* number of workers
  MaxIncarnations,      \* bound: times an application is created
  MaxGeneration,        \* bound: edits of a spec, counted in the generation
  MaxPushes,            \* bound: pushes to the branch
  MaxFaults,            \* bound: failed calls and operator crashes
  MaxMeddles,           \* bound: changes to objects by somebody else
  None                  \* no such thing

Refs == [object : Objects, version : Versions]

\* What of a GitApplicationSpec steers a reconcile.
SpecRecords == [path : Paths, valid : BOOLEAN, prune : BOOLEAN,
                suspend : BOOLEAN, takeover : BOOLEAN]

ASSUME ManifestAssumption ==
  /\ Manifest \in [Paths -> [Revisions -> SUBSET Refs]]
  /\ Specs \in [Apps -> SUBSET SpecRecords]

ASSUME OrderAssumption ==
  /\ Priority \in [Objects -> Nat]
  /\ KeyOrder \in [Refs -> Nat]
  /\ \A r, s \in Refs : KeyOrder[r] = KeyOrder[s] => r = s

ASSUME BoundAssumption ==
  /\ ConcurrentReconciles \in Nat \ {0}
  /\ {MaxIncarnations, MaxGeneration, MaxPushes, MaxFaults, MaxMeddles}
       \subseteq Nat

VARIABLES
  app,         \* app[a]: the GitApplication on the API server
  incarnation, \* incarnation[a]: how often a was created
  head,        \* the commit the tracked branch is at
  live,        \* live[o]: the object on the API server
  pc,          \* pc[a]: the next call of the reconcile of a
  copy,        \* copy[a]: its local app, read at its start
  sha,         \* sha[a]: the commit it checked out
  todo,        \* todo[a]: references it has still to apply or to prune
  stalled,     \* stalled[a]: the Stalled status its failure will get
  spent        \* how much of each bound is used up

job  == <<pc, copy, sha, todo, stalled>>
vars == <<app, incarnation, head, live, pc, copy, sha, todo, stalled, spent>>

(***************************************************************************)
(* Types.                                                                  *)
(***************************************************************************)
Uids == Apps \X (1..MaxIncarnations)

ConditionStatus == {"Unknown", "True", "False"}

Conditions == [ready : ConditionStatus, stalled : ConditionStatus]

Status == [observedGeneration : 0..MaxGeneration,
           attemptedRevision  : Revisions \cup {None},
           appliedRevision    : Revisions \cup {None},
           inventory          : SUBSET Refs,
           conditions         : Conditions]

GitApplication == [uid : Uids, deleting : BOOLEAN, generation : 1..MaxGeneration,
                   spec : SpecRecords, status : Status]

\* An object: the application-uid and source-revision annotations, whether
\* it has the managed-by label, and whether another field manager holds a
\* field that the manifest sets to another value.
LiveObject == [uid : Uids \cup {None}, managed : BOOLEAN,
               revision : Revisions \cup {None}, contested : BOOLEAN]

Steps == {"idle", "suspend", "fetch", "render", "apply", "prune", "delete",
          "success", "fail"}

ASSUME NoneAssumption ==
  /\ None \notin Revisions
  /\ None \notin Uids
  /\ None \notin LiveObject
  /\ None \notin GitApplication
  /\ \A S \in SUBSET Objects : None # S

EmptyStatus == [observedGeneration |-> 0, attemptedRevision |-> None,
                appliedRevision |-> None, inventory |-> {},
                conditions |-> [ready |-> "Unknown", stalled |-> "Unknown"]]

ClusterOK ==
  /\ app \in [Apps -> GitApplication \cup {None}]
  /\ incarnation \in [Apps -> 0..MaxIncarnations]
  /\ head \in Revisions
  /\ live \in [Objects -> LiveObject \cup {None}]

JobOK ==
  /\ pc \in [Apps -> Steps]
  /\ copy \in [Apps -> GitApplication \cup {None}]
  /\ sha \in [Apps -> Revisions \cup {None}]
  /\ todo \in [Apps -> SUBSET Refs]
  /\ stalled \in [Apps -> {"True", "False"}]

SpentOK ==
  spent \in [pushes : 0..MaxPushes, faults : 0..MaxFaults,
             meddles : 0..MaxMeddles]

TypeOK == ClusterOK /\ JobOK /\ SpentOK

Init ==
  /\ app = [a \in Apps |-> None]
  /\ incarnation = [a \in Apps |-> 0]
  /\ head \in Revisions
  /\ live = [o \in Objects |-> None]
  /\ pc = [a \in Apps |-> "idle"]
  /\ copy = [a \in Apps |-> None]
  /\ sha = [a \in Apps |-> None]
  /\ todo = [a \in Apps |-> {}]
  /\ stalled = [a \in Apps |-> "False"]
  /\ spent = [pushes |-> 0, faults |-> 0, meddles |-> 0]

(***************************************************************************)
(* Bounds.                                                                 *)
(***************************************************************************)
CountPush   == spent.pushes < MaxPushes /\ spent' = [spent EXCEPT !.pushes = @ + 1]
CountFault  == spent.faults < MaxFaults /\ spent' = [spent EXCEPT !.faults = @ + 1]
CountMeddle == spent.meddles < MaxMeddles /\ spent' = [spent EXCEPT !.meddles = @ + 1]

(***************************************************************************)
(* The data the reconcile computes with.                                   *)
(***************************************************************************)
\* validateSpec finds nothing wrong.
Valid(s) == s.valid

\* A path renders at a commit, and NormalizeAndValidate admits the result.
Renders(path, commit) == <<path, commit>> \notin RenderError
Admitted(path, commit) == <<path, commit>> \notin PolicyError

\* resourceReferenceFor over the normalised objects: the desired inventory.
Desired(a) == Manifest[copy[a].spec.path][sha[a]]

\* Mutants of Diff: the arguments swapped, and what stays not taken off.
DiffSwapped(previous, desired) == desired \ previous
DiffAll(previous, desired) == previous

\* inventory.Diff: references are compared by Key(), version included.
Diff(previous, desired) == previous \ desired

\* Apply goes through the objects by priority.
NextToApply(a) ==
  {r \in todo[a] : \A s \in todo[a] : Priority[r.object] <= Priority[s.object]}

\* Diff returns the stale references sorted by Key().
NextToPrune(a) == {r \in todo[a] : \A s \in todo[a] : KeyOrder[r] <= KeyOrder[s]}

\* The two marks prune asks for before it deletes.
CarriesMarks(u, o) == live[o] # None /\ live[o].uid = u /\ live[o].managed

\* A JSON merge patch computed from base and modified: only what differs
\* between the two is sent, and only that is overwritten on the server.
Merged(f, server, base, modified) ==
  IF modified[f] = base[f] THEN server[f] ELSE modified[f]

MergePatch(server, base, modified) ==
  [observedGeneration |-> Merged("observedGeneration", server, base, modified),
   attemptedRevision  |-> Merged("attemptedRevision", server, base, modified),
   appliedRevision    |-> Merged("appliedRevision", server, base, modified),
   inventory          |-> Merged("inventory", server, base, modified),
   conditions         |-> modified.conditions]

\* The status patch is addressed by name and carries neither the UID nor the
\* resource version that was read.
PatchStatus(a, modified) ==
  app' = [app EXCEPT ![a].status = MergePatch(@, copy[a].status, modified)]

\* Mutants of SuccessStatus: an inventory that is not replaced, and a
\* generation counted one too far.
SuccessStatusOldInventory(a) ==
  [observedGeneration |-> copy[a].generation,
   attemptedRevision  |-> sha[a],
   appliedRevision    |-> sha[a],
   inventory          |-> copy[a].status.inventory,
   conditions         |-> [ready |-> "True", stalled |-> "False"]]

SuccessStatusNextGeneration(a) ==
  [observedGeneration |-> copy[a].generation + 1,
   attemptedRevision  |-> sha[a],
   appliedRevision    |-> sha[a],
   inventory          |-> Desired(a),
   conditions         |-> [ready |-> "True", stalled |-> "False"]]

SuccessStatus(a) ==
  [observedGeneration |-> copy[a].generation,
   attemptedRevision  |-> sha[a],
   appliedRevision    |-> sha[a],
   inventory          |-> Desired(a),
   conditions         |-> [ready |-> "True", stalled |-> "False"]]

\* Mutant of FailedStatus: Ready is left as it was.
FailedStatusStillReady(a) ==
  [copy[a].status EXCEPT
     !.observedGeneration = copy[a].generation,
     !.conditions.stalled = stalled[a]]

FailedStatus(a) ==
  [copy[a].status EXCEPT
     !.observedGeneration = copy[a].generation,
     !.conditions = [ready |-> "False", stalled |-> stalled[a]]]

\* Mutant of SuspendedStatus: Ready is left as it was.
SuspendedStatusStillReady(a) == copy[a].status

SuspendedStatus(a) == [copy[a].status EXCEPT !.conditions.ready = "False"]

(***************************************************************************)
(* Moves of the control of one reconcile.                                  *)
(***************************************************************************)
Goto(a, step, t) ==
  /\ pc' = [pc EXCEPT ![a] = step]
  /\ todo' = [todo EXCEPT ![a] = t]
  /\ UNCHANGED <<copy, sha, stalled>>

\* A call returned an error: what is left to do is dropped, fail comes next.
FailNext(a, status) ==
  /\ pc' = [pc EXCEPT ![a] = "fail"]
  /\ todo' = [todo EXCEPT ![a] = {}]
  /\ stalled' = [stalled EXCEPT ![a] = status]
  /\ UNCHANGED <<copy, sha>>

\* Reconcile returned, or its process ended: its variables are gone.
Return(As) ==
  /\ pc' = [b \in Apps |-> IF b \in As THEN "idle" ELSE pc[b]]
  /\ copy' = [b \in Apps |-> IF b \in As THEN None ELSE copy[b]]
  /\ sha' = [b \in Apps |-> IF b \in As THEN None ELSE sha[b]]
  /\ todo' = [b \in Apps |-> IF b \in As THEN {} ELSE todo[b]]
  /\ stalled' = [b \in Apps |-> IF b \in As THEN "False" ELSE stalled[b]]

cluster == <<app, incarnation, head, live>>

(***************************************************************************)
(* Reconcile, call by call.                                                *)
(***************************************************************************)
\* A worker takes a and reads it.  It goes on with what it has read, even
\* when the application is edited, suspended or deleted meanwhile.
Begin(a, step, status) ==
  /\ pc[a] = "idle"
  /\ Cardinality({b \in Apps : pc[b] # "idle"}) < ConcurrentReconciles
  /\ app[a] # None
  /\ ~app[a].deleting
  /\ copy' = [copy EXCEPT ![a] = app[a]]
  /\ pc' = [pc EXCEPT ![a] = step]
  /\ stalled' = [stalled EXCEPT ![a] = status]
  /\ UNCHANGED <<cluster, sha, todo, spent>>

BeginSuspended(a) == app[a] # None /\ app[a].spec.suspend /\ Begin(a, "suspend", "False")

BeginInvalid(a) ==
  /\ app[a] # None /\ ~app[a].spec.suspend /\ ~Valid(app[a].spec)
  /\ Begin(a, "fail", "True")

\* Mutant of BeginValid: only a new generation is worth a reconcile.
BeginValidIfEdited(a) ==
  /\ app[a] # None /\ ~app[a].spec.suspend /\ Valid(app[a].spec)
  /\ app[a].status.observedGeneration # app[a].generation
  /\ Begin(a, "fetch", "False")

BeginValid(a) ==
  /\ app[a] # None /\ ~app[a].spec.suspend /\ Valid(app[a].spec)
  /\ Begin(a, "fetch", "False")

ReadApp(a) == BeginSuspended(a) \/ BeginInvalid(a) \/ BeginValid(a)

\* Nothing is found, or it is being deleted: Reconcile returns.
ReadNothing(a) ==
  /\ pc[a] = "idle"
  /\ app[a] # None => app[a].deleting
  /\ UNCHANGED vars

UpdateSuspended(a) ==
  /\ pc[a] = "suspend"
  /\ IF app[a] = None THEN UNCHANGED app ELSE PatchStatus(a, SuspendedStatus(a))
  /\ Return({a})
  /\ UNCHANGED <<incarnation, head, live, spent>>

\* loadCredentials and Checkout.  The revision resolves to the head of the
\* branch; from here on the local app carries it as attempted revision.
Checkout(a) ==
  /\ pc[a] = "fetch"
  /\ sha' = [sha EXCEPT ![a] = head]
  /\ copy' = [copy EXCEPT ![a].status.attemptedRevision = head]
  /\ pc' = [pc EXCEPT ![a] = "render"]
  /\ UNCHANGED <<cluster, todo, stalled, spent>>

\* A secret that is missing or malformed stalls the application; a failed
\* read of it or a failed git command does not.
CheckoutFails(a) ==
  /\ pc[a] = "fetch"
  /\ CountFault
  /\ \E status \in {"True", "False"} : FailNext(a, status)
  /\ UNCHANGED cluster

\* render, then NormalizeAndValidate.
Render(a) ==
  /\ pc[a] = "render"
  /\ LET path == copy[a].spec.path
     IN \/ ~Renders(path, sha[a]) /\ FailNext(a, "False")
        \/ Renders(path, sha[a]) /\ ~Admitted(path, sha[a]) /\ FailNext(a, "True")
        \/ /\ Renders(path, sha[a]) /\ Admitted(path, sha[a])
           /\ Goto(a, "apply", Desired(a))
  /\ UNCHANGED <<cluster, spent>>

\* The discovery behind the REST mapper failed.
RenderFails(a) ==
  /\ pc[a] = "render"
  /\ CountFault
  /\ FailNext(a, "True")
  /\ UNCHANGED cluster

\* The server-side apply of one object.  All applications apply under one
\* field manager, so only somebody else's fields can conflict.
Applied(a, r) ==
  [live EXCEPT ![r.object] = [uid |-> copy[a].uid, managed |-> TRUE,
                              revision |-> sha[a], contested |-> FALSE]]

Conflict(a, r) ==
  /\ live[r.object] # None
  /\ live[r.object].contested
  /\ ~copy[a].spec.takeover

ApplyObject(a, r) ==
  /\ pc[a] = "apply"
  /\ r \in NextToApply(a)
  /\ ~Conflict(a, r)
  /\ live' = Applied(a, r)
  /\ Goto(a, "apply", todo[a] \ {r})
  /\ UNCHANGED <<app, incarnation, head, spent>>

ApplyConflict(a, r) ==
  /\ pc[a] = "apply"
  /\ r \in NextToApply(a)
  /\ Conflict(a, r)
  /\ FailNext(a, "False")
  /\ UNCHANGED <<cluster, spent>>

\* The call failed; if the answer was lost, the object may be applied.
ApplyFails(a, r) ==
  /\ pc[a] = "apply"
  /\ r \in NextToApply(a)
  /\ CountFault
  /\ live' = live \/ (~Conflict(a, r) /\ live' = Applied(a, r))
  /\ FailNext(a, "False")
  /\ UNCHANGED <<app, incarnation, head>>

\* Everything is applied: prune the difference, if the spec that was read
\* asks for it.
ApplyDone(a) ==
  /\ pc[a] = "apply"
  /\ todo[a] = {}
  /\ IF copy[a].spec.prune
     THEN Goto(a, "prune", Diff(copy[a].status.inventory, Desired(a)))
     ELSE Goto(a, "success", {})
  /\ UNCHANGED <<cluster, spent>>

\* prune reads one stale object: it is passed over when it is gone or does
\* not carry the marks of this application.
PassOver(a, r) ==
  /\ pc[a] = "prune"
  /\ r \in NextToPrune(a)
  /\ ~CarriesMarks(copy[a].uid, r.object)
  /\ Goto(a, "prune", todo[a] \ {r})
  /\ UNCHANGED <<cluster, spent>>

\* Mutant of Condemn: the managed-by label is enough.
CondemnManaged(a, r) ==
  /\ pc[a] = "prune"
  /\ r \in NextToPrune(a)
  /\ live[r.object] # None /\ live[r.object].managed
  /\ Goto(a, "delete", todo[a])
  /\ UNCHANGED <<cluster, spent>>

Condemn(a, r) ==
  /\ pc[a] = "prune"
  /\ r \in NextToPrune(a)
  /\ CarriesMarks(copy[a].uid, r.object)
  /\ Goto(a, "delete", todo[a])
  /\ UNCHANGED <<cluster, spent>>

PruneReadFails(a) ==
  /\ pc[a] = "prune"
  /\ todo[a] # {}
  /\ CountFault
  /\ FailNext(a, "False")
  /\ UNCHANGED cluster

\* The delete names the object and nothing else: no UID, no resource version.
DeleteObject(a, r) ==
  /\ pc[a] = "delete"
  /\ r \in NextToPrune(a)
  /\ live[r.object] # None
  /\ live' = [live EXCEPT ![r.object] = None]
  /\ Goto(a, "prune", todo[a] \ {r})
  /\ UNCHANGED <<app, incarnation, head, spent>>

\* Somebody else was faster: the NotFound of a delete is an error.
DeleteNotFound(a, r) ==
  /\ pc[a] = "delete"
  /\ r \in NextToPrune(a)
  /\ live[r.object] = None
  /\ FailNext(a, "False")
  /\ UNCHANGED <<cluster, spent>>

DeleteFails(a, r) ==
  /\ pc[a] = "delete"
  /\ r \in NextToPrune(a)
  /\ CountFault
  /\ live' = live \/ live' = [live EXCEPT ![r.object] = None]
  /\ FailNext(a, "False")
  /\ UNCHANGED <<app, incarnation, head>>

PruneDone(a) ==
  /\ pc[a] = "prune"
  /\ todo[a] = {}
  /\ Goto(a, "success", {})
  /\ UNCHANGED <<cluster, spent>>

UpdateSuccess(a) ==
  /\ pc[a] = "success"
  /\ app[a] # None
  /\ PatchStatus(a, SuccessStatus(a))
  /\ Return({a})
  /\ UNCHANGED <<incarnation, head, live, spent>>

\* The patch fails: fail will work on the local app as updateSuccess left it.
SuccessRejected(a) ==
  /\ copy' = [copy EXCEPT ![a].status = SuccessStatus(a)]
  /\ pc' = [pc EXCEPT ![a] = "fail"]
  /\ UNCHANGED <<incarnation, head, live, sha, todo, stalled>>

UpdateSuccessNotFound(a) ==
  /\ pc[a] = "success"
  /\ app[a] = None
  /\ SuccessRejected(a)
  /\ UNCHANGED <<app, spent>>

UpdateSuccessFails(a) ==
  /\ pc[a] = "success"
  /\ app[a] # None
  /\ CountFault
  /\ UNCHANGED app \/ PatchStatus(a, SuccessStatus(a))
  /\ SuccessRejected(a)

Fail(a) ==
  /\ pc[a] = "fail"
  /\ IF app[a] = None THEN UNCHANGED app ELSE PatchStatus(a, FailedStatus(a))
  /\ Return({a})
  /\ UNCHANGED <<incarnation, head, live, spent>>

\* A status patch that ends the reconcile is not carried out.  (One that is
\* carried out with its answer lost ends the same way as one answered.)
StatusLost(a) ==
  /\ pc[a] \in {"suspend", "fail"}
  /\ app[a] # None
  /\ CountFault
  /\ Return({a})
  /\ UNCHANGED cluster

\* The operator crashes or is restarted: every reconcile is lost.
Crash ==
  /\ \E a \in Apps : pc[a] # "idle"
  /\ CountFault
  /\ Return(Apps)
  /\ UNCHANGED cluster

(***************************************************************************)
(* Everybody else.                                                         *)
(***************************************************************************)
Create(a) ==
  /\ app[a] = None
  /\ incarnation[a] < MaxIncarnations
  /\ MaxGeneration >= 1
  /\ incarnation' = [incarnation EXCEPT ![a] = @ + 1]
  /\ \E s \in Specs[a] :
       app' = [app EXCEPT ![a] =
                 [uid |-> <<a, incarnation[a] + 1>>, deleting |-> FALSE,
                  generation |-> 1, spec |-> s, status |-> EmptyStatus]]
  /\ UNCHANGED <<head, live, job, spent>>

EditSpec(a) ==
  /\ app[a] # None
  /\ app[a].generation < MaxGeneration
  /\ \E s \in Specs[a] \ {app[a].spec} :
       app' = [app EXCEPT ![a].spec = s, ![a].generation = @ + 1]
  /\ UNCHANGED <<incarnation, head, live, job, spent>>

\* Somebody's finalizer keeps the application for a while.
MarkDeleted(a) ==
  /\ app[a] # None /\ ~app[a].deleting
  /\ app' = [app EXCEPT ![a].deleting = TRUE]
  /\ UNCHANGED <<incarnation, head, live, job, spent>>

Remove(a) ==
  /\ app[a] # None
  /\ app' = [app EXCEPT ![a] = None]
  /\ UNCHANGED <<incarnation, head, live, job, spent>>

Push ==
  /\ CountPush
  /\ head' \in Revisions \ {head}
  /\ UNCHANGED <<app, incarnation, live, job>>

\* Somebody deletes an object, takes its managed-by label off, sets a field
\* the manifest sets too, or has an object of that name already.
MeddledWith(o) ==
  IF live[o] = None
  THEN [uid : {None}, managed : {FALSE}, revision : {None}, contested : BOOLEAN]
  ELSE {None, [live[o] EXCEPT !.managed = FALSE], [live[o] EXCEPT !.contested = TRUE]}

Meddle(o) ==
  /\ CountMeddle
  /\ \E l \in MeddledWith(o) \ {live[o]} : live' = [live EXCEPT ![o] = l]
  /\ UNCHANGED <<app, incarnation, head, job>>

-----------------------------------------------------------------------------
\* What a reconcile does when no call fails.
Advance(a) ==
  \/ UpdateSuspended(a) \/ Checkout(a) \/ Render(a) \/ ApplyDone(a)
  \/ PruneDone(a) \/ UpdateSuccess(a) \/ UpdateSuccessNotFound(a) \/ Fail(a)
  \/ \E r \in todo[a] :
       \/ ApplyObject(a, r) \/ ApplyConflict(a, r) \/ PassOver(a, r)
       \/ Condemn(a, r) \/ DeleteObject(a, r) \/ DeleteNotFound(a, r)

CallFails(a) ==
  \/ CheckoutFails(a) \/ RenderFails(a) \/ PruneReadFails(a)
  \/ UpdateSuccessFails(a) \/ StatusLost(a)
  \/ \E r \in todo[a] : ApplyFails(a, r) \/ DeleteFails(a, r)

Users ==
  \/ \E a \in Apps : Create(a) \/ EditSpec(a) \/ MarkDeleted(a) \/ Remove(a)
  \/ Push
  \/ \E o \in Objects : Meddle(o)

Next ==
  \/ \E a \in Apps : ReadApp(a) \/ ReadNothing(a) \/ Advance(a) \/ CallFails(a)
  \/ Crash
  \/ Users

Spec == Init /\ [][Next]_vars

\* Workers never stop in the middle of a reconcile, and the queue hands out
\* every application again and again: it is re-added after a success, after
\* a failure and on every event, and served first come, first served, which
\* is strong fairness when workers are scarce.  Users owe nothing.
Fairness ==
  \A a \in Apps : /\ SF_vars(ReadApp(a))
                  /\ WF_vars(Advance(a))

FairSpec == Spec /\ Fairness

(***************************************************************************)
(* What a status says.                                                     *)
(***************************************************************************)
\* An application that is ready for the generation it has was reconciled
\* from the spec it has: not suspended, its inventory what its path renders
\* to at the applied revision.  An edit, a lost answer or a failed patch in
\* the middle of a reconcile must not make the status claim this.
ReadyMeansCurrentSpec ==
  \A a \in Apps :
    /\ app[a] # None
    /\ app[a].status.conditions.ready = "True"
    /\ app[a].status.observedGeneration = app[a].generation
    => /\ ~app[a].spec.suspend
       /\ app[a].status.inventory
            = Manifest[app[a].spec.path][app[a].status.appliedRevision]

\* docs/architecture.md:20 and README.md:138-140: the status records the
\* attempted revision beside the applied one.
AttemptedRecorded ==
  \A a \in Apps :
    app[a] # None /\ app[a].status.conditions.ready = "True"
      => app[a].status.attemptedRevision = app[a].status.appliedRevision

(***************************************************************************)
(* What pruning may and must do.                                           *)
(***************************************************************************)
\* When a pruning reconcile takes a reference out of the inventory, the
\* object is gone or no longer carries the marks of the application: the
\* inventory is what finds objects to prune, and what it forgets stays.
NothingForgotten ==
  [][\A a \in Apps :
       /\ app[a] # None /\ app'[a] # None /\ app'[a].uid = app[a].uid
       /\ copy[a] # None /\ copy[a].spec.prune
       => \A r \in app[a].status.inventory \ app'[a].status.inventory :
            ~CarriesMarks(app[a].uid, r.object)]_vars

\* README.md:45: an object is only deleted if it appears in the previous
\* inventory and still carries the marks of the application.
PruneDeletesOnlyOwn ==
  \A a \in Apps : pc[a] = "delete" =>
    \A r \in NextToPrune(a) :
      /\ r \in copy[a].status.inventory
      /\ live[r.object] = None \/ CarriesMarks(copy[a].uid, r.object)

\* README.md:3: what is pruned was removed from Git.
PruneSparesDesired ==
  \A a \in Apps : pc[a] = "delete" =>
    \A r \in NextToPrune(a), d \in Desired(a) : d.object # r.object

\* When success is about to be reported, every desired object is in the
\* cluster, marked by the application and written from its revision: no
\* prune, of this reconcile or of another one, took it away again.
SuccessMeansApplied ==
  \A a \in Apps : pc[a] = "success" =>
    \A r \in Desired(a) : /\ CarriesMarks(copy[a].uid, r.object)
                          /\ live[r.object].revision = sha[a]

\* README.md:17: the inventory tracks what is managed.  When no reconcile is
\* under way and the application is ready, every object that carries its
\* marks is in the inventory, so that pruning will find it.
NoOrphan ==
  \A a \in Apps :
    app[a] # None /\ pc[a] = "idle" /\ app[a].status.conditions.ready = "True"
      => \A o \in Objects : CarriesMarks(app[a].uid, o)
           => \E r \in app[a].status.inventory : r.object = o

(***************************************************************************)
(* What must happen in the end.                                            *)
(***************************************************************************)
Wanted(a) == Manifest[app[a].spec.path][head]

Reconcilable(a) ==
  /\ app[a] # None /\ ~app[a].deleting
  /\ ~app[a].spec.suspend /\ Valid(app[a].spec)
  /\ Renders(app[a].spec.path, head) /\ Admitted(app[a].spec.path, head)
  /\ \A r \in Wanted(a) :
       live[r.object] = None \/ ~live[r.object].contested \/ app[a].spec.takeover

InSync(a) ==
  /\ app[a].status.conditions = [ready |-> "True", stalled |-> "False"]
  /\ app[a].status.observedGeneration = app[a].generation
  /\ app[a].status.appliedRevision = head
  /\ app[a].status.inventory = Wanted(a)
  /\ \A r \in Wanted(a) : /\ CarriesMarks(app[a].uid, r.object)
                          /\ live[r.object].revision = head

\* The reconcile under way, if there is one, works from what is there now.
UpToDate(a) ==
  pc[a] # "idle" =>
    /\ pc[a] \notin {"suspend", "fail"}
    /\ copy[a].uid = app[a].uid
    /\ copy[a].spec = app[a].spec
    /\ copy[a].generation = app[a].generation
    /\ copy[a].status.inventory = app[a].status.inventory
    /\ pc[a] # "fetch" => sha[a] = head

Settled(a) == Reconcilable(a) /\ InSync(a) /\ UpToDate(a)

Edited(a) == EditSpec(a) \/ MarkDeleted(a) \/ Remove(a)

\* An application that is in sync is reconciled again and again.  It stays in
\* sync at every step, its own and the others': no object is deleted to be
\* applied anew, no status is written that says otherwise, until a push, an
\* edit, a failed call, a crash or a change by hand gives a reason.
StaysInSync ==
  [][\A a \in Apps : Settled(a) /\ UNCHANGED spent /\ ~Edited(a) => Settled(a)']_vars

\* Once users and faults leave it alone, every application that can be
\* reconciled is in sync with Git and says so, whatever a crash, a lost
\* answer or an earlier incarnation left behind.
Converges == <>[](\A a \in Apps : Reconcilable(a) => InSync(a))

\* README.md:175: suspend stops reconciliation and leaves the application
\* not ready, even when it came in the middle of a reconcile.
SuspendSettles ==
  <>[](\A a \in Apps :
         app[a] # None /\ ~app[a].deleting /\ app[a].spec.suspend
           => /\ app[a].status.conditions.ready = "False"
              /\ pc[a] \in {"idle", "suspend"})

(***************************************************************************)
(* What all this is for: the ledger of module Ledger, seen through the     *)
(* marks of the objects, the inventories and the reconciles under way.     *)
(***************************************************************************)
Held == [a \in Apps |-> {o \in Objects : \E i \in 1..MaxIncarnations : CarriesMarks(<<a, i>>, o)}]

ObjectsOf(refs) == {r.object : r \in refs}

Recorded == [a \in Apps |-> IF app[a] = None THEN {} ELSE ObjectsOf(app[a].status.inventory)]

\* Until it reports or fails, a reconcile is a pass that started from the
\* inventory it read.
Basis ==
  [a \in Apps |-> IF pc[a] \in {"idle", "suspend", "fail"} THEN None
                  ELSE ObjectsOf(copy[a].status.inventory)]

\* It aims at what it has rendered.
Aim ==
  [a \in Apps |-> IF pc[a] \in {"apply", "prune", "delete", "success"}
                  THEN ObjectsOf(Desired(a)) ELSE None]

Ledger == INSTANCE Ledger WITH held <- Held, recorded <- Recorded, basis <- Basis, aim <- Aim

\* With pruning applications, and either one worker or no two applications
\* that render the same object, a reconcile keeps the ledger: it deletes only what it had on record and no longer renders, records what
\* it rendered only when all of it is in its hands and nothing it drops is,
\* and leaves the record alone when it fails, is killed or gets no answer.
KeepsLedger == Ledger!Spec
=============================================================================
