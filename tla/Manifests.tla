----------------------------- MODULE Manifests -----------------------------
(***************************************************************************)
(* From the documents of a commit to objects in the cluster:               *)
(* NormalizeAndValidate, Apply in its order and prune, with the kinds the  *)
(* API server serves and what the operator's discovery knows of them.      *)
(*                                                                         *)
(* GitApplicationController leaves all of this to a constant; in return    *)
(* there is one application here, one worker, and no status but whether    *)
(* it is Ready.  Rendered[c], from module Rendering, is the documents of   *)
(* commit c, or None if it does not render.                                *)
(* Simplifications:                                                        *)
(*  - A kind stands for its group and version too.  One kind comes and     *)
(*    goes, Custom; its CustomResourceDefinition makes it namespaced.      *)
(*  - Objects of one priority are applied in any order.                    *)
(*  - The application prunes, and the status patch of a success arrives.   *)
(*  - Who deletes a Namespace or a CustomResourceDefinition deletes at     *)
(*    once what is in it.                                                  *)
(***************************************************************************)
EXTENDS Rendering

CONSTANTS
  Destination,  \* spec.destination.namespace
  Custom,       \* the kind that a CustomResourceDefinition defines
  AllowClusterScoped,        \* --allow-cluster-scoped-resources
  AllowedClusterScopedKinds, \* spec.allowedClusterScopedKinds
  MaxChanges,   \* bound: pushes, and changes of the cluster by users
  MaxFaults,    \* bound: failed calls and restarts
  Foreign       \* an object without the marks of the application

\* A document has a kind, a name and a namespace, unless it is flawed:
\* no object at all, or one that basicValidate or sizeCheck refuses.
ASSUME ManifestsAssumption ==
  /\ {MaxChanges, MaxFaults} \subseteq Nat
  /\ {None, Foreign} \cap Commits = {} /\ None # Foreign
  /\ Destination # None

VARIABLES
  head,      \* the commit of the branch
  served,    \* served[k]: the scope of kind k at the API server, or None
  live,      \* live[r]: whose object r is: Foreign, or of the commit applied
  known,     \* known[k]: the scope of k in the RESTMapper; None before its use
  inventory, \* status.inventory
  ready,     \* the commit the application is Ready with
  pc,        \* where Reconcile is
  commit,    \* sha
  todo,      \* references of the objects Apply has not reached
  desired,   \* desiredInventory
  stale,     \* references prune has not reached
  spent      \* what is used up of the bounds

cluster == <<served, live>>
status == <<inventory, ready>>
locals == <<pc, commit, todo, desired, stale>>
vars == <<head, cluster, known, status, locals, spent>>

(***************************************************************************)
(* NormalizeAndValidate.                                                   *)
(***************************************************************************)
Scopes == {"namespaced", "cluster"}

SupportedClusterScopedKinds ==
  {"Namespace", "CustomResourceDefinition", "ClusterRole", "ClusterRoleBinding"}

ASSUME KindAssumption == Custom \notin SupportedClusterScopedKinds /\ None \notin Scopes

ClusterScopedKindAllowed(kind) ==
  /\ AllowClusterScoped
  /\ kind \in AllowedClusterScopedKinds \cap SupportedClusterScopedKinds

\* Mutant of ApplyPriority: namespaces have no place of their own.
ApplyPriorityNoNamespace(kind) ==
  CASE kind = "CustomResourceDefinition" -> 1
    [] kind = "ConfigMap" -> 3
    [] OTHER -> 10

ApplyPriority(kind) ==
  CASE kind = "Namespace" -> 0
    [] kind = "CustomResourceDefinition" -> 1
    [] kind = "ServiceAccount" -> 2
    [] kind \in {"ConfigMap", "Secret"} -> 3
    [] kind \in {"Role", "ClusterRole"} -> 4
    [] kind \in {"RoleBinding", "ClusterRoleBinding"} -> 5
    [] kind = "Service" -> 6
    [] kind = "PersistentVolumeClaim" -> 7
    [] kind \in {"Deployment", "StatefulSet", "DaemonSet", "Job", "CronJob"} -> 8
    [] kind = "Ingress" -> 9
    [] OTHER -> 10

\* Mutant of Admitted: only what has a namespace is looked at.
AdmittedNamespaced(d, mapper) ==
  /\ d.flaw = "none"
  /\ mapper[d.kind] # None
  /\ mapper[d.kind] = "namespaced" => d.namespace \in {None, Destination}

\* basicValidate, discovery, the policy on scopes and namespaces, sizeCheck.
Admitted(d, mapper) ==
  /\ d.flaw = "none"
  /\ mapper[d.kind] # None
  /\ mapper[d.kind] = "cluster" => ClusterScopedKindAllowed(d.kind)
  /\ mapper[d.kind] = "namespaced" => d.namespace \in {None, Destination}

\* Mutant of AllAdmitted: the others are looked at when their turn comes.
FirstAdmitted(docs, mapper) ==
  docs # None /\ \A i \in DOMAIN docs : i = 1 => Admitted(docs[i], mapper)

AllAdmitted(docs, mapper) ==
  docs # None /\ \A i \in DOMAIN docs : Admitted(docs[i], mapper)

\* Mutant of RefOf: the namespace of a cluster-scoped object is not cleared.
RefOfKept(d, mapper) ==
  [kind |-> d.kind, name |-> d.name,
   namespace |-> IF d.namespace # None \/ mapper[d.kind] = "cluster" THEN d.namespace
                 ELSE Destination]

\* The reference of a document once its namespace is set or cleared.
RefOf(d, mapper) ==
  [kind |-> d.kind, name |-> d.name,
   namespace |-> IF mapper[d.kind] = "cluster" THEN None
                 ELSE IF d.namespace = None THEN Destination ELSE d.namespace]

Normalized(docs, mapper) == {RefOf(docs[i], mapper) : i \in DOMAIN docs}

\* sort.SliceStable by applyPriority.
NextToApply ==
  {r \in todo : \A s \in todo : ApplyPriority(r.kind) <= ApplyPriority(s.kind)}

(***************************************************************************)
(* The cluster.                                                            *)
(***************************************************************************)
Docs == UNION {{Rendered[c][i] : i \in DOMAIN Rendered[c]} : c \in {e \in Commits : Rendered[e] # None}}

NamespaceRef == [kind |-> "Namespace", name |-> Destination, namespace |-> None]
CRDRef == [kind |-> "CustomResourceDefinition", name |-> Custom, namespace |-> None]

Refs ==
  {NamespaceRef} \cup
  UNION {{[kind |-> d.kind, name |-> d.name, namespace |-> ns] : ns \in {None, Destination}} :
           d \in {e \in Docs : e.flaw = "none"}}

Kinds == {r.kind : r \in Refs}

ASSUME MapperAssumption == None \notin [Kinds -> Scopes \cup {None}]

\* What a deletion of r takes along.
Within(r) ==
  CASE r = NamespaceRef -> {s \in Refs : s.namespace = Destination}
    [] r = CRDRef -> {s \in Refs : s.kind = Custom}
    [] OTHER -> {}

Without(r) == [s \in Refs |-> IF s = r \/ s \in Within(r) THEN None ELSE live[s]]

\* The path of a request depends on the scope the operator knows; the API
\* server has it only if that is the scope it serves.
Found(kind) == served[kind] = known[kind]

Accepts(r) ==
  /\ Found(r.kind)
  /\ r.namespace = Destination => live[NamespaceRef] # None
  /\ r = CRDRef => served[Custom] # "cluster"

TypeOK ==
  /\ head \in Commits
  /\ served \in [Kinds -> Scopes \cup {None}]
  /\ live \in [Refs -> Commits \cup {None, Foreign}]
  /\ known \in [Kinds -> Scopes \cup {None}] \cup {None}
  /\ {inventory, todo, desired, stale} \subseteq SUBSET Refs
  /\ ready \in Commits \cup {None}
  /\ pc \in {"idle", "apply", "prune"}
  /\ commit \in Commits \cup {None}
  /\ spent \in [changes : 0..MaxChanges, faults : 0..MaxFaults]

\* The destination may be there already; Custom may not.
Init ==
  /\ head \in Commits
  /\ served = [k \in Kinds |->
       IF k = Custom THEN None ELSE IF k \in SupportedClusterScopedKinds THEN "cluster" ELSE "namespaced"]
  /\ live \in {[r \in Refs |-> IF r = NamespaceRef THEN ns ELSE None] : ns \in {None, Foreign}}
  /\ known = None
  /\ inventory = {} /\ ready = None
  /\ pc = "idle" /\ commit = None /\ todo = {} /\ desired = {} /\ stale = {}
  /\ spent = [changes |-> 0, faults |-> 0]

(***************************************************************************)
(* Reconcile.                                                              *)
(***************************************************************************)
CountFault == spent.faults < MaxFaults /\ spent' = [spent EXCEPT !.faults = @ + 1]
CountChange == spent.changes < MaxChanges /\ spent' = [spent EXCEPT !.changes = @ + 1]

\* Mutant of Discover: a mapper of the kinds that were there when the program
\* was built.
DiscoverBuiltIn == known' = IF known = None THEN [served EXCEPT ![Custom] = None] ELSE known

\* The RESTMapper asks the API server once and keeps the answer until the
\* process ends: a cache that was filled is Fresh, so a kind that is missing
\* is not asked for again.
Discover == known' = IF known = None THEN served ELSE known

Idle == pc' = "idle" /\ commit' = None /\ todo' = {} /\ desired' = {} /\ stale' = {}

\* fail: not Ready, and everything else of the status as it was.
Fail == Idle /\ ready' = None /\ UNCHANGED inventory

\* The mapper is asked if the first document passes basicValidate.
Asks(docs) ==
  docs # None /\ \E i \in DOMAIN docs : \A j \in DOMAIN docs : j <= i => docs[j].flaw = "none"

Look == IF Asks(Rendered[head]) THEN Discover ELSE UNCHANGED known

Refuse ==
  /\ pc = "idle"
  /\ Look
  /\ ~AllAdmitted(Rendered[head], known')
  /\ Fail
  /\ UNCHANGED <<head, cluster, spent>>

\* Mutant of Begin: a commit that was applied is not applied again.
BeginOnce ==
  /\ pc = "idle"
  /\ Look
  /\ AllAdmitted(Rendered[head], known')
  /\ pc' = "apply"
  /\ commit' = head
  /\ desired' = Normalized(Rendered[head], known')
  /\ todo' = IF ready = head THEN {} ELSE desired'
  /\ UNCHANGED <<head, cluster, status, stale, spent>>

Begin ==
  /\ pc = "idle"
  /\ Look
  /\ AllAdmitted(Rendered[head], known')
  /\ pc' = "apply"
  /\ commit' = head
  /\ todo' = Normalized(Rendered[head], known')
  /\ desired' = todo'
  /\ UNCHANGED <<head, cluster, status, stale, spent>>

\* A partial answer to the one question: a group whose API server is down
\* is missing from the RESTMapper from then on.
BeginPartial ==
  /\ pc = "idle"
  /\ known = None
  /\ Asks(Rendered[head])
  /\ CountFault
  /\ known' = [served EXCEPT ![Custom] = None]
  /\ UNCHANGED <<head, cluster, status, locals>>

\* No answer at all leaves the question for the next reconcile.
DiscoveryFails ==
  /\ pc = "idle"
  /\ known = None
  /\ Asks(Rendered[head])
  /\ CountFault
  /\ Fail
  /\ UNCHANGED <<head, cluster, known>>

ApplyObject(r) ==
  /\ pc = "apply" /\ r \in NextToApply
  /\ Accepts(r)
  /\ live' = [live EXCEPT ![r] = commit]
  /\ todo' = todo \ {r}
  /\ UNCHANGED <<head, served, known, status, pc, commit, desired, stale, spent>>

ApplyFails(r) ==
  /\ pc = "apply" /\ r \in NextToApply
  /\ \/ ~Accepts(r) /\ UNCHANGED spent
     \/ CountFault
  /\ Fail
  /\ UNCHANGED <<head, cluster, known>>

ApplyDone ==
  /\ pc = "apply" /\ todo = {}
  /\ pc' = "prune"
  /\ stale' = inventory \ desired
  /\ UNCHANGED <<head, cluster, known, status, commit, todo, desired, spent>>

\* The next reference, in the order of the keys; here in any order.  The
\* mapper may be asked for the first time when the commit is empty.
PassOver(r) ==
  /\ pc = "prune" /\ r \in stale
  /\ Discover
  /\ known'[r.kind] # None
  /\ served[r.kind] # known'[r.kind] \/ live[r] \in {None, Foreign}
  /\ stale' = stale \ {r}
  /\ UNCHANGED <<head, cluster, status, pc, commit, todo, desired, spent>>

DeleteObject(r) ==
  /\ pc = "prune" /\ r \in stale
  /\ Discover
  /\ known'[r.kind] # None
  /\ served[r.kind] = known'[r.kind] /\ live[r] \notin {None, Foreign}
  /\ live' = Without(r)
  /\ served' = IF r = CRDRef THEN [served EXCEPT ![Custom] = None] ELSE served
  /\ stale' = stale \ {r}
  /\ UNCHANGED <<head, status, pc, commit, todo, desired, spent>>

\* Mutant of PruneFails: what is gone already is an error.
PruneFailsGone(r) ==
  /\ pc = "prune" /\ r \in stale
  /\ Discover
  /\ \/ (known'[r.kind] = None \/ live[r] = None) /\ UNCHANGED spent
     \/ CountFault
  /\ Fail
  /\ UNCHANGED <<head, cluster>>

PruneFails(r) ==
  /\ pc = "prune" /\ r \in stale
  /\ Discover
  /\ \/ known'[r.kind] = None /\ UNCHANGED spent
     \/ CountFault
  /\ Fail
  /\ UNCHANGED <<head, cluster>>

UpdateSuccess ==
  /\ pc = "prune" /\ stale = {}
  /\ inventory' = desired
  /\ ready' = commit
  /\ Idle
  /\ UNCHANGED <<head, cluster, known, spent>>

(***************************************************************************)
(* Everybody else.                                                         *)
(***************************************************************************)
\* The operator is restarted.
Restart ==
  /\ CountFault
  /\ Idle
  /\ known' = None
  /\ UNCHANGED <<head, cluster, status>>

Push ==
  /\ CountChange
  /\ head' \in Commits \ {head}
  /\ UNCHANGED <<cluster, known, status, locals>>

\* The API server serves what a CustomResourceDefinition defines.
Establish ==
  /\ CRDRef \in Refs
  /\ live[CRDRef] # None /\ served[Custom] = None
  /\ served' = [served EXCEPT ![Custom] = "namespaced"]
  /\ UNCHANGED <<head, live, known, status, locals, spent>>

\* A user installs the kind Custom, with the same or another scope, or
\* uninstalls it.
Install(scope) ==
  /\ CountChange
  /\ live[CRDRef] = None /\ served[Custom] = None
  /\ served' = [served EXCEPT ![Custom] = scope]
  /\ live' = [live EXCEPT ![CRDRef] = Foreign]
  /\ UNCHANGED <<head, known, status, locals>>

Uninstall ==
  /\ CountChange
  /\ live[CRDRef] # None
  /\ served' = [served EXCEPT ![Custom] = None]
  /\ live' = Without(CRDRef)
  /\ UNCHANGED <<head, known, status, locals>>

-----------------------------------------------------------------------------
Reconcile ==
  \/ Refuse \/ Begin \/ ApplyDone \/ UpdateSuccess
  \/ \E r \in Refs : ApplyObject(r) \/ ApplyFails(r) \/ PassOver(r) \/ DeleteObject(r) \/ PruneFails(r)

Others ==
  Restart \/ BeginPartial \/ DiscoveryFails \/ Push \/ Uninstall \/ \E scope \in Scopes : Install(scope)

Next == Reconcile \/ Establish \/ Others

Spec == Init /\ [][Next]_vars

\* The queue comes back to the application (Operator), a reconcile takes its
\* steps, and a definition is established in the end.
FairSpec == Spec /\ WF_vars(Reconcile) /\ WF_vars(Establish)

(***************************************************************************)
(* What rendering and applying promise.                                    *)
(***************************************************************************)
\* What carries the marks of the application is in its destination, or is of
\* a kind that operator and application both allow to be cluster-scoped,
\* whatever the mapper still believes of the scope of a kind.
StaysInside ==
  \A r \in Refs : live[r] \in Commits =>
    IF served[r.kind] = "namespaced" THEN r.namespace = Destination
    ELSE r.namespace = None /\ ClusterScopedKindAllowed(r.kind)

\* A commit is refused as a whole: when one of its documents cannot be
\* taken, nothing of it reaches the cluster.
WholeOrNothing ==
  \A r \in Refs : live[r] \in Commits =>
    LET docs == Rendered[live[r]]
    IN /\ docs # None
       /\ \A i \in DOMAIN docs :
            /\ docs[i].flaw = "none"
            /\ IF docs[i].kind \in SupportedClusterScopedKinds THEN ClusterScopedKindAllowed(docs[i].kind)
               ELSE docs[i].namespace \in {None, Destination}

\* An object is not sent before the Namespace or the definition that the same
\* commit brings for it, so that a commit with its own destination works.
ContainerFirst ==
  pc = "apply" =>
    \A r \in NextToApply :
      /\ \A s \in todo : r \notin Within(s)
      /\ NamespaceRef \in desired /\ r.namespace = Destination => live[NamespaceRef] # None

\* Two values files are merged as Helm does it: what the second does not set
\* it leaves as it was.
TwoFilesMerge ==
  \A i, j \in DOMAIN Tree[head].values :
    LET a == Tree[head].values[i]
        b == Tree[head].values[j]
    IN \A k \in DOMAIN a : a[k].tag = "map" =>
         \A s \in DOMAIN a[k].at :
           Lookup(ReadHelmValues(<<a, b>>), k, s) =
             IF k \in DOMAIN b /\ (b[k].tag = "leaf" \/ s \in DOMAIN b[k].at)
             THEN Lookup(b, k, s) ELSE Lookup(a, k, s)

SafePath(path) ==
  ValidateRelPath(path) \/ ValidateValuesFilePath(path) =>
    ResolveWithinRoot(path) = Root \o Clean(path)

SafePaths == {path \in Paths : SafePath(path)}

\* Any path that validateSpec lets pass resolves, to what its clean parts name
\* below the root: what is checked before a reconcile begins is what the
\* renderers use.
PathsResolve == pc = "idle" => Paths \subseteq SafePaths

\* What it takes for a commit to be applied: all its documents are taken,
\* kinds are known as they are served, and the destination is there or
\* comes along; prune can look up what the inventory still names.
NamespaceComes(refs) ==
  (\E r \in refs : r.namespace = Destination) => NamespaceRef \in refs \/ live[NamespaceRef] # None

Workable ==
  /\ known # None
  /\ AllAdmitted(Rendered[head], known)
  /\ \A i \in DOMAIN Rendered[head] : Found(Rendered[head][i].kind)
  /\ NamespaceComes(Normalized(Rendered[head], known))
  /\ \A r \in inventory : known[r.kind] # None

\* The mapper is not asked for a commit without objects.
InSync ==
  /\ ready = head
  /\ known = None => Rendered[head] = <<>>
  /\ LET refs == Normalized(Rendered[head], known)
     IN inventory = refs /\ \A r \in Refs : live[r] = head <=> r \in refs

\* Once nobody interferes any more, the application ends up Ready with the
\* objects of the commit in place, or not Ready, with one of these conditions
\* unmet for good: a Ready that prune or a user made untrue does not last.
Settles == <>[]InSync \/ <>[](ready = None /\ ~Workable)

\* The same of the cluster alone, whatever the mapper has kept.
Deliverable ==
  /\ AllAdmitted(Rendered[head], served)
  /\ NamespaceComes(Normalized(Rendered[head], served))

\* Pushes, changes by users, failed calls and restarts are used up.
Quiet == spent = [changes |-> MaxChanges, faults |-> MaxFaults]

\* What the mapper got wrong, it got wrong until the next restart: from a
\* process that has not asked yet, if the API server has what commit and
\* inventory name and keeps what the commit takes, all ends well.
RestartHeals ==
  [](/\ known = None
     /\ \A r \in inventory : served[r.kind] # None
     /\ [](Quiet /\ Deliverable)
     => <>[]InSync)
=============================================================================
