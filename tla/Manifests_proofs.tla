-------------------------- MODULE Manifests_proofs --------------------------
(***************************************************************************)
(* Proofs about policy, order and discovery, for any repository, commits,  *)
(* kinds, policies, changes of the cluster and faults.  Which documents    *)
(* rendering gives (Rendered) is left as it is: nothing here depends on    *)
(* it.  What becomes of paths and of values files is from Rendering_proofs. *)
(***************************************************************************)
EXTENDS Manifests, Rendering_proofs, TLAPS

\* What the mapper holds and the policy admits has a reference of the right
\* kind of namespace.
LEMMA RefOfAdmitted ==
  ASSUME TypeOK, NEW c \in Commits, NEW i \in DOMAIN Rendered[c],
         NEW mapper \in [Kinds -> Scopes \cup {None}],
         Rendered[c] # None, Admitted(Rendered[c][i], mapper)
  PROVE  LET r == RefOf(Rendered[c][i], mapper)
         IN /\ r \in Refs
            /\ r.kind = Rendered[c][i].kind
            /\ \/ mapper[r.kind] = "cluster" /\ ClusterScopedKindAllowed(r.kind) /\ r.namespace = None
               \/ mapper[r.kind] = "namespaced" /\ r.namespace = Destination
<1> DEFINE d == Rendered[c][i]
           r == RefOf(d, mapper)
<1>1. d \in Docs /\ d.flaw = "none"
  BY DEF Docs, Admitted
<1>2. [kind |-> d.kind, name |-> d.name, namespace |-> None] \in Refs
  BY <1>1 DEF Refs
<1>3. [kind |-> d.kind, name |-> d.name, namespace |-> Destination] \in Refs
  BY <1>1 DEF Refs
<1>4. d.kind \in Kinds
  BY <1>2 DEF Kinds
<1>5. CASE mapper[d.kind] = "cluster"
  <2>1. r = [kind |-> d.kind, name |-> d.name, namespace |-> None]
    BY <1>5 DEF RefOf
  <2> QED
    BY <1>2, <1>5, <2>1 DEF Admitted
<1>6. CASE mapper[d.kind] = "namespaced"
  <2>1. r = [kind |-> d.kind, name |-> d.name, namespace |-> Destination]
    BY <1>6 DEF RefOf, Admitted
  <2> QED
    BY <1>3, <1>6, <2>1
<1> QED
  BY <1>4, <1>5, <1>6 DEF Admitted, Scopes

LEMMA DiscoverType ==
  ASSUME TypeOK, Discover PROVE known' \in [Kinds -> Scopes \cup {None}]
BY DEF TypeOK, Discover

\* An empty commit is the only one that is admitted without a mapper.
LEMMA LookType ==
  ASSUME TypeOK, Look
  PROVE  /\ known' \in [Kinds -> Scopes \cup {None}] \cup {None}
         /\ AllAdmitted(Rendered[head], known') /\ DOMAIN Rendered[head] # {}
              => known' \in [Kinds -> Scopes \cup {None}]
<1>1. CASE Asks(Rendered[head])
  BY <1>1, DiscoverType DEF Look
<1>2. CASE ~Asks(Rendered[head])
  <2>1. ~(AllAdmitted(Rendered[head], known') /\ DOMAIN Rendered[head] # {})
    BY <1>2 DEF Asks, AllAdmitted, Admitted
  <2> QED
    BY <1>2, <2>1 DEF Look, TypeOK
<1> QED
  BY <1>1, <1>2

LEMMA NormalizedType ==
  ASSUME TypeOK, Look, AllAdmitted(Rendered[head], known')
  PROVE  Normalized(Rendered[head], known') \subseteq Refs
<1>1. SUFFICES ASSUME NEW i \in DOMAIN Rendered[head]
               PROVE  RefOf(Rendered[head][i], known') \in Refs
  BY DEF Normalized
<1>2. known' \in [Kinds -> Scopes \cup {None}]
  BY <1>1, LookType
<1> QED
  BY <1>1, <1>2, RefOfAdmitted DEF AllAdmitted, TypeOK

LEMMA CountType ==
  ASSUME TypeOK, CountFault \/ CountChange
  PROVE  spent' \in [changes : 0..MaxChanges, faults : 0..MaxFaults]
BY ManifestsAssumption DEF TypeOK, CountFault, CountChange

LEMMA WithoutType == ASSUME TypeOK, NEW r PROVE Without(r) \in [Refs -> Commits \cup {None, Foreign}]
BY DEF TypeOK, Without

LEMMA TypeStep == TypeOK /\ [Next]_vars => TypeOK'
<1> SUFFICES ASSUME TypeOK, [Next]_vars PROVE TypeOK'
  OBVIOUS
<1> USE DEF cluster, status, locals
<1>1. CASE Refuse
  BY <1>1, LookType DEF Refuse, Fail, Idle, TypeOK
<1>2. CASE Begin
  BY <1>2, LookType, NormalizedType DEF Begin, TypeOK
<1>3. CASE ApplyDone
  BY <1>3 DEF ApplyDone, TypeOK
<1>4. CASE UpdateSuccess
  BY <1>4 DEF UpdateSuccess, Idle, TypeOK
<1>5. ASSUME NEW r \in Refs, ApplyObject(r) PROVE TypeOK'
  <2>1. live' \in [Refs -> Commits \cup {None, Foreign}]
    BY <1>5 DEF ApplyObject, TypeOK
  <2> QED
    BY <1>5, <2>1 DEF ApplyObject, TypeOK
<1>6. ASSUME NEW r \in Refs, ApplyFails(r) PROVE TypeOK'
  BY <1>6, CountType DEF ApplyFails, Fail, Idle, TypeOK
<1>7. ASSUME NEW r \in Refs, PassOver(r) PROVE TypeOK'
  BY <1>7, DiscoverType DEF PassOver, TypeOK
<1>8. ASSUME NEW r \in Refs, DeleteObject(r) PROVE TypeOK'
  <2>1. served' \in [Kinds -> Scopes \cup {None}]
    BY <1>8 DEF DeleteObject, TypeOK
  <2> QED
    BY <1>8, <2>1, DiscoverType, WithoutType DEF DeleteObject, TypeOK
<1>9. ASSUME NEW r \in Refs, PruneFails(r) PROVE TypeOK'
  BY <1>9, CountType, DiscoverType DEF PruneFails, Fail, Idle, TypeOK
<1>10. CASE Establish
  BY <1>10 DEF Establish, TypeOK, Scopes
<1>11. CASE Restart
  BY <1>11, CountType DEF Restart, Idle, TypeOK
<1>12. CASE BeginPartial
  BY <1>12, CountType DEF BeginPartial, TypeOK
<1>13. CASE DiscoveryFails
  BY <1>13, CountType DEF DiscoveryFails, Fail, Idle, TypeOK
<1>14. CASE Push
  BY <1>14, CountType DEF Push, TypeOK
<1>15. CASE Uninstall
  BY <1>15, CountType, WithoutType DEF Uninstall, TypeOK
<1>16. ASSUME NEW scope \in Scopes, Install(scope) PROVE TypeOK'
  BY <1>16, CountType DEF Install, TypeOK
<1>17. CASE UNCHANGED vars
  BY <1>17 DEF vars, TypeOK
<1> QED
  BY <1>1, <1>2, <1>3, <1>4, <1>5, <1>6, <1>7, <1>8, <1>9, <1>10, <1>11, <1>12, <1>13,
     <1>14, <1>15, <1>16, <1>17 DEF Next, Reconcile, Others

LEMMA TypeInit == Init => TypeOK
BY ManifestsAssumption DEF Init, TypeOK, Scopes

\* Every state is well typed: in particular every object that is applied or
\* put on record is one of the repository, in the destination or outside of
\* all namespaces.
THEOREM ManifestsTypeCorrect == Spec => []TypeOK
BY TypeInit, TypeStep, PTL DEF Spec

(***************************************************************************)
(* Scopes.  Only Custom ever changes what it is; of the other kinds the    *)
(* mapper is right, once it has been asked.                                *)
(***************************************************************************)
Settled(scopes) ==
  \A k \in Kinds \ {Custom} :
    scopes[k] = IF k \in SupportedClusterScopedKinds THEN "cluster" ELSE "namespaced"

ScopeInv == Settled(served) /\ (known # None => Settled(known))

LEMMA DiscoverSettled == ASSUME TypeOK, ScopeInv, Discover PROVE known' # None => Settled(known)'
BY DEF ScopeInv, Settled, Discover

LEMMA LookSettled == ASSUME TypeOK, ScopeInv, Look PROVE known' # None => Settled(known)'
<1>1. CASE Asks(Rendered[head])
  BY <1>1, DiscoverSettled DEF Look
<1>2. CASE ~Asks(Rendered[head])
  BY <1>2 DEF Look, ScopeInv, Settled
<1> QED
  BY <1>1, <1>2

LEMMA ScopeStep == TypeOK /\ ScopeInv /\ [Next]_vars => ScopeInv'
<1> SUFFICES ASSUME TypeOK, ScopeInv, [Next]_vars PROVE ScopeInv'
  OBVIOUS
<1> USE DEF cluster, status, locals
<1>1. ASSUME served' = served, known' # None => Settled(known)' PROVE ScopeInv'
  BY <1>1 DEF ScopeInv, Settled
<1>2. ASSUME NEW scope, served' = [served EXCEPT ![Custom] = scope],
             known' # None => Settled(known)'
      PROVE  ScopeInv'
  BY <1>2 DEF ScopeInv, Settled, TypeOK
<1>3. UNCHANGED known => (known' # None => Settled(known)')
  BY DEF ScopeInv, Settled
<1>4. CASE Refuse \/ Begin
  BY <1>1, <1>4, LookSettled DEF Refuse, Begin
<1>5. CASE ApplyDone \/ UpdateSuccess \/ DiscoveryFails \/ Push \/ UNCHANGED vars
  BY <1>1, <1>3, <1>5 DEF ApplyDone, UpdateSuccess, DiscoveryFails, Push, vars
<1>6. ASSUME NEW r \in Refs, ApplyObject(r) \/ ApplyFails(r) PROVE ScopeInv'
  BY <1>1, <1>3, <1>6 DEF ApplyObject, ApplyFails
<1>7. ASSUME NEW r \in Refs, PassOver(r) \/ PruneFails(r) PROVE ScopeInv'
  BY <1>1, <1>7, DiscoverSettled DEF PassOver, PruneFails
<1>8. ASSUME NEW r \in Refs, DeleteObject(r) PROVE ScopeInv'
  BY <1>1, <1>2, <1>8, DiscoverSettled DEF DeleteObject
<1>9. CASE Establish \/ Uninstall
  BY <1>2, <1>3, <1>9 DEF Establish, Uninstall
<1>10. ASSUME NEW scope \in Scopes, Install(scope) PROVE ScopeInv'
  BY <1>2, <1>3, <1>10 DEF Install
<1>11. CASE Restart
  BY <1>1, <1>11 DEF Restart
<1>12. CASE BeginPartial
  <2>1. Settled(known)'
    BY <1>12 DEF BeginPartial, ScopeInv, Settled, TypeOK
  <2> QED
    BY <1>1, <1>12, <2>1 DEF BeginPartial
<1> QED
  BY <1>4, <1>5, <1>6, <1>7, <1>8, <1>9, <1>10, <1>11, <1>12 DEF Next, Reconcile, Others

LEMMA ScopeInit == Init => ScopeInv
BY DEF Init, ScopeInv, Settled

(***************************************************************************)
(* What a reconcile has to apply was admitted, all of it, by the mapper    *)
(* that it applies it with.                                                *)
(***************************************************************************)
AdmittedInv ==
  pc = "apply" =>
    /\ commit \in Commits
    /\ AllAdmitted(Rendered[commit], known)
    /\ desired = Normalized(Rendered[commit], known)
    /\ todo \subseteq desired
    /\ desired # {} => known \in [Kinds -> Scopes \cup {None}]

LEMMA AdmittedStep == TypeOK /\ AdmittedInv /\ [Next]_vars => AdmittedInv'
<1> SUFFICES ASSUME TypeOK, AdmittedInv, [Next]_vars PROVE AdmittedInv'
  OBVIOUS
<1> USE DEF cluster, status, locals
<1>1. CASE Begin
  <2>1. desired' # {} => DOMAIN Rendered[head] # {}
    BY <1>1 DEF Begin, Normalized
  <2>2. desired' # {} => known' \in [Kinds -> Scopes \cup {None}]
    BY <1>1, <2>1, LookType DEF Begin
  <2> QED
    BY <1>1, <2>2 DEF Begin, AdmittedInv, TypeOK, AllAdmitted, Admitted, Normalized, RefOf
<1>2. ASSUME NEW r \in Refs, ApplyObject(r) PROVE AdmittedInv'
  BY <1>2 DEF ApplyObject, AdmittedInv, AllAdmitted, Admitted, Normalized, RefOf
<1>3. CASE Push \/ Establish \/ Uninstall \/ \E scope \in Scopes : Install(scope)
  BY <1>3 DEF Push, Establish, Uninstall, Install, AdmittedInv, AllAdmitted, Admitted,
              Normalized, RefOf
<1>4. CASE Refuse \/ UpdateSuccess \/ Restart \/ DiscoveryFails
  BY <1>4 DEF Refuse, UpdateSuccess, Restart, DiscoveryFails, Fail, Idle, AdmittedInv
<1>5. CASE ApplyDone \/ BeginPartial
  BY <1>5 DEF ApplyDone, BeginPartial, AdmittedInv
<1>6. ASSUME NEW r \in Refs, ApplyFails(r) \/ PruneFails(r) PROVE AdmittedInv'
  BY <1>6 DEF ApplyFails, PruneFails, Fail, Idle, AdmittedInv
<1>7. ASSUME NEW r \in Refs, PassOver(r) \/ DeleteObject(r) PROVE AdmittedInv'
  BY <1>7 DEF PassOver, DeleteObject, AdmittedInv
<1>8. CASE UNCHANGED vars
  BY <1>8 DEF vars, AdmittedInv, AllAdmitted, Admitted, Normalized, RefOf
<1> QED
  BY <1>1, <1>2, <1>3, <1>4, <1>5, <1>6, <1>7, <1>8 DEF Next, Reconcile, Others

LEMMA AdmittedInit == Init => AdmittedInv
BY DEF Init, AdmittedInv

\* What is still to be applied is where the mapper's scope of its kind says.
LEMMA TodoPlaced ==
  ASSUME TypeOK, AdmittedInv, pc = "apply", NEW r \in todo
  PROVE  \/ known[r.kind] = "cluster" /\ ClusterScopedKindAllowed(r.kind) /\ r.namespace = None
         \/ known[r.kind] = "namespaced" /\ r.namespace = Destination
<1>1. known \in [Kinds -> Scopes \cup {None}]
  BY DEF AdmittedInv
<1>2. PICK i \in DOMAIN Rendered[commit] : r = RefOf(Rendered[commit][i], known)
  BY DEF AdmittedInv, Normalized
<1>3. Rendered[commit] # None /\ Admitted(Rendered[commit][i], known) /\ commit \in Commits
  BY <1>2 DEF AdmittedInv, AllAdmitted
<1> QED
  BY <1>1, <1>2, <1>3, RefOfAdmitted

(***************************************************************************)
(* Who applies, and who else changes what is live.                         *)
(***************************************************************************)
\* Without an object of its own, no step gives the marks of a commit.
LEMMA OnlyApplyMarks ==
  ASSUME TypeOK, [Next]_vars, NEW s \in Refs, live'[s] \in Commits, live'[s] # live[s]
  PROVE  ApplyObject(s) /\ live'[s] = commit
<1> USE DEF cluster, status, locals
<1>1. ASSUME NEW r \in Refs, ApplyObject(r) PROVE r = s /\ live'[s] = commit
  BY <1>1 DEF ApplyObject, TypeOK
<1>2. ASSUME NEW r, live' = Without(r) PROVE FALSE
  BY <1>2, ManifestsAssumption DEF Without
<1>3. ASSUME NEW r \in Refs, DeleteObject(r) PROVE FALSE
  BY <1>2, <1>3 DEF DeleteObject
<1>4. CASE Uninstall
  BY <1>2, <1>4 DEF Uninstall
<1>5. ASSUME NEW scope \in Scopes, Install(scope) PROVE FALSE
  BY <1>5, ManifestsAssumption DEF Install, TypeOK
<1>6. ASSUME NEW r \in Refs, ApplyFails(r) \/ PassOver(r) \/ PruneFails(r) PROVE FALSE
  BY <1>6 DEF ApplyFails, PassOver, PruneFails
<1> QED
  BY <1>1, <1>3, <1>4, <1>5, <1>6
     DEF Next, Reconcile, Others, Refuse, Begin, ApplyDone, UpdateSuccess, Establish, Restart,
         BeginPartial, DiscoveryFails, Push, vars

LEMMA CustomIsNamespaced == ~ClusterScopedKindAllowed(Custom)
BY KindAssumption DEF ClusterScopedKindAllowed

LEMMA CRDTakesAlong ==
  ASSUME TypeOK, live' = Without(CRDRef), NEW r \in Refs, live'[r] \in Commits
  PROVE  r.kind # Custom
<1>1. Within(CRDRef) = {s \in Refs : s.kind = Custom}
  BY DEF Within, CRDRef, NamespaceRef
<1> QED
  BY <1>1, ManifestsAssumption DEF Without

(***************************************************************************)
(* Nothing leaves the destination.  A scope that the mapper has wrong lets *)
(* no request through, and a definition takes its objects along before its *)
(* kind can come back with another scope.                                  *)
(***************************************************************************)
LEMMA StaysStep == TypeOK /\ AdmittedInv /\ StaysInside /\ [Next]_vars => StaysInside'
<1> SUFFICES ASSUME TypeOK, AdmittedInv, StaysInside, [Next]_vars,
                    NEW r \in Refs, live'[r] \in Commits
             PROVE  IF served'[r.kind] = "namespaced" THEN r.namespace = Destination
                    ELSE r.namespace = None /\ ClusterScopedKindAllowed(r.kind)
  BY DEF StaysInside, ClusterScopedKindAllowed
<1>1. CASE live'[r] # live[r]
  <2>1. ApplyObject(r)
    BY <1>1, OnlyApplyMarks
  <2>2. served'[r.kind] = known[r.kind] /\ pc = "apply" /\ r \in todo
    BY <2>1 DEF ApplyObject, Accepts, Found, NextToApply
  <2> QED
    BY <2>2, TodoPlaced
<1>2. CASE live'[r] = live[r] /\ served'[r.kind] = served[r.kind]
  BY <1>2 DEF StaysInside
<1>3. CASE live'[r] = live[r] /\ served'[r.kind] # served[r.kind]
  <2>1. r.kind \in Kinds
    BY DEF Kinds
  <2>2. ASSUME NEW scope, served' = [served EXCEPT ![Custom] = scope] PROVE r.kind = Custom
    BY <1>3, <2>1, <2>2 DEF TypeOK
  <2>3. r.kind = Custom => served[Custom] # None
    BY <1>3, CustomIsNamespaced, KindAssumption DEF StaysInside, Scopes
  <2>4. CASE Establish
    BY <2>2, <2>3, <2>4 DEF Establish
  <2>5. ASSUME NEW scope \in Scopes, Install(scope) PROVE FALSE
    BY <2>2, <2>3, <2>5 DEF Install
  <2>6. CASE Uninstall
    BY <2>2, <2>6, CRDTakesAlong DEF Uninstall
  <2>7. ASSUME NEW s \in Refs, DeleteObject(s) PROVE FALSE
    <3>1. s = CRDRef
      BY <1>3, <2>7 DEF DeleteObject
    <3> QED
      BY <2>2, <2>7, <3>1, CRDTakesAlong DEF DeleteObject
  <2>8. ASSUME NEW s \in Refs, ApplyObject(s) \/ ApplyFails(s) \/ PassOver(s) \/ PruneFails(s)
        PROVE  FALSE
    BY <1>3, <2>8 DEF ApplyObject, ApplyFails, PassOver, PruneFails, cluster
  <2> QED
    BY <1>3, <2>4, <2>5, <2>6, <2>7, <2>8
       DEF Next, Reconcile, Others, Refuse, Begin, ApplyDone, UpdateSuccess, Restart,
           BeginPartial, DiscoveryFails, Push, vars, cluster
<1> QED
  BY <1>1, <1>2, <1>3

LEMMA StaysInit == Init => StaysInside
BY ManifestsAssumption DEF Init, StaysInside

\* Whatever the mapper believes, and however Custom comes, goes and changes
\* its scope: what carries the marks of the application is in its
\* destination, or of a cluster-scoped kind that operator and application
\* both allow.
THEOREM NothingLeavesDestination == Spec => []StaysInside
BY TypeInit, TypeStep, AdmittedInit, AdmittedStep, StaysInit, StaysStep, PTL DEF Spec

(***************************************************************************)
(* Whole commits.                                                          *)
(***************************************************************************)
LEMMA CommitIsWhole ==
  ASSUME TypeOK, ScopeInv, AdmittedInv, pc = "apply", todo # {},
         NEW i \in DOMAIN Rendered[commit]
  PROVE  /\ Rendered[commit][i].flaw = "none"
         /\ IF Rendered[commit][i].kind \in SupportedClusterScopedKinds
            THEN ClusterScopedKindAllowed(Rendered[commit][i].kind)
            ELSE Rendered[commit][i].namespace \in {None, Destination}
<1> DEFINE d == Rendered[commit][i]
<1>1. known \in [Kinds -> Scopes \cup {None}] /\ commit \in Commits
  BY DEF AdmittedInv
<1>2. Rendered[commit] # None /\ Admitted(d, known)
  BY DEF AdmittedInv, AllAdmitted
<1>3. RefOf(d, known) \in Refs /\ RefOf(d, known).kind = d.kind
  BY <1>1, <1>2, RefOfAdmitted
<1>4. d.kind \in Kinds /\ known[d.kind] # None
  BY <1>2, <1>3 DEF Kinds, Admitted
<1>5. CASE d.kind = Custom
  BY <1>1, <1>2, <1>4, <1>5, CustomIsNamespaced, KindAssumption DEF Admitted, Scopes
<1>6. CASE d.kind # Custom /\ known # None
  BY <1>2, <1>4, <1>6 DEF Admitted, ScopeInv, Settled
<1>7. known # None
  BY <1>1, MapperAssumption
<1> QED
  BY <1>5, <1>6, <1>7

LEMMA WholeStep ==
  TypeOK /\ ScopeInv /\ AdmittedInv /\ WholeOrNothing /\ [Next]_vars => WholeOrNothing'
<1> SUFFICES ASSUME TypeOK, ScopeInv, AdmittedInv, WholeOrNothing, [Next]_vars,
                    NEW r \in Refs, live'[r] \in Commits
             PROVE  LET docs == Rendered[live'[r]]
                    IN /\ docs # None
                       /\ \A i \in DOMAIN docs :
                            /\ docs[i].flaw = "none"
                            /\ IF docs[i].kind \in SupportedClusterScopedKinds
                               THEN ClusterScopedKindAllowed(docs[i].kind)
                               ELSE docs[i].namespace \in {None, Destination}
  BY DEF WholeOrNothing, ClusterScopedKindAllowed
<1>1. CASE live'[r] # live[r]
  <2>1. ApplyObject(r) /\ live'[r] = commit
    BY <1>1, OnlyApplyMarks
  <2>2. pc = "apply" /\ todo # {}
    BY <2>1 DEF ApplyObject, NextToApply
  <2>3. Rendered[commit] # None
    BY <2>2 DEF AdmittedInv, AllAdmitted
  <2> QED
    BY <2>1, <2>2, <2>3, CommitIsWhole
<1>2. CASE live'[r] = live[r]
  BY <1>2 DEF WholeOrNothing
<1> QED
  BY <1>1, <1>2

LEMMA WholeInit == Init => WholeOrNothing
BY ManifestsAssumption DEF Init, WholeOrNothing

\* Of a commit with one document that is broken, not allowed or for another
\* namespace nothing is ever live, whatever its other documents are.
THEOREM CommitsAreTakenWhole == Spec => []WholeOrNothing
BY TypeInit, TypeStep, ScopeInit, ScopeStep, AdmittedInit, AdmittedStep, WholeInit, WholeStep,
   PTL DEF Spec

(***************************************************************************)
(* Order.  What comes first of all is the namespace, then the definition.  *)
(***************************************************************************)
LEMMA FirstPriorities ==
  ASSUME NEW k
  PROVE  /\ ApplyPriority(k) \in Nat
         /\ ApplyPriority(k) <= 0 => k = "Namespace"
         /\ ApplyPriority(k) <= 1 => k \in {"Namespace", "CustomResourceDefinition"}
BY DEF ApplyPriority

\* A namespace has none of its own to be in.
LEMMA NamespaceIsOutside ==
  ASSUME TypeOK, ScopeInv, AdmittedInv, pc = "apply", NEW r \in todo, r.kind = "Namespace"
  PROVE  r.namespace # Destination
<1>1. known \in [Kinds -> Scopes \cup {None}] /\ r \in Refs
  BY DEF AdmittedInv, TypeOK
<1>2. known # None
  BY <1>1, MapperAssumption
<1>3. r.kind \in Kinds /\ r.kind # Custom /\ r.kind \in SupportedClusterScopedKinds
  BY <1>1, KindAssumption DEF Kinds, SupportedClusterScopedKinds
<1>4. known[r.kind] = "cluster"
  BY <1>2, <1>3 DEF ScopeInv, Settled
<1> QED
  BY <1>4, TodoPlaced, ManifestsAssumption

\* Once the namespace that a commit brings was applied, it stays until the
\* apply is over.
FirstInv ==
  pc = "apply" /\ NamespaceRef \in desired \ todo => live[NamespaceRef] # None

LEMMA FirstStep == TypeOK /\ AdmittedInv /\ FirstInv /\ [Next]_vars => FirstInv'
<1> SUFFICES ASSUME TypeOK, AdmittedInv, FirstInv, [Next]_vars PROVE FirstInv'
  OBVIOUS
<1> USE DEF cluster, status, locals
<1>1. NamespaceRef \in Refs /\ NamespaceRef # CRDRef /\ NamespaceRef.kind # Custom
  BY KindAssumption DEF Refs, NamespaceRef, CRDRef, SupportedClusterScopedKinds
<1>2. CASE Uninstall
  <2>1. Within(CRDRef) = {s \in Refs : s.kind = Custom}
    BY DEF Within, CRDRef, NamespaceRef
  <2> QED
    BY <1>1, <1>2, <2>1 DEF Uninstall, Without, FirstInv
<1>3. ASSUME NEW scope \in Scopes, Install(scope) PROVE FirstInv'
  BY <1>1, <1>3 DEF Install, FirstInv, TypeOK
<1>4. ASSUME NEW r \in Refs, ApplyObject(r) PROVE FirstInv'
  <2>1. pc = "apply" /\ commit \in Commits /\ commit # None
    BY <1>4, ManifestsAssumption DEF ApplyObject, AdmittedInv
  <2>2. live' = [live EXCEPT ![r] = commit] /\ todo' = todo \ {r} /\ desired' = desired
    BY <1>4 DEF ApplyObject
  <2> QED
    BY <1>1, <2>1, <2>2 DEF FirstInv, TypeOK
<1>5. CASE Begin
  BY <1>5 DEF Begin, FirstInv
<1>6. CASE Push \/ Establish \/ UNCHANGED vars
  BY <1>6 DEF Push, Establish, vars, FirstInv
<1>7. CASE Refuse \/ UpdateSuccess \/ Restart \/ DiscoveryFails
  BY <1>7 DEF Refuse, UpdateSuccess, Restart, DiscoveryFails, Fail, Idle, FirstInv
<1>8. CASE ApplyDone \/ BeginPartial
  BY <1>8 DEF ApplyDone, BeginPartial, FirstInv
<1>9. ASSUME NEW r \in Refs, ApplyFails(r) \/ PruneFails(r) PROVE FirstInv'
  BY <1>9 DEF ApplyFails, PruneFails, Fail, Idle, FirstInv
<1>10. ASSUME NEW r \in Refs, PassOver(r) \/ DeleteObject(r) PROVE FirstInv'
  BY <1>10 DEF PassOver, DeleteObject, FirstInv
<1> QED
  BY <1>2, <1>3, <1>4, <1>5, <1>6, <1>7, <1>8, <1>9, <1>10 DEF Next, Reconcile, Others

LEMMA FirstInit == Init => FirstInv
BY DEF Init, FirstInv

LEMMA FirstOrder == TypeOK /\ ScopeInv /\ AdmittedInv /\ FirstInv => ContainerFirst
<1> SUFFICES ASSUME TypeOK, ScopeInv, AdmittedInv, FirstInv, pc = "apply",
                    NEW r \in NextToApply
             PROVE  /\ \A s \in todo : r \notin Within(s)
                    /\ NamespaceRef \in desired /\ r.namespace = Destination
                         => live[NamespaceRef] # None
  BY DEF ContainerFirst
<1>1. r \in todo /\ \A s \in todo : ApplyPriority(r.kind) <= ApplyPriority(s.kind)
  BY DEF NextToApply
<1>2. ASSUME NamespaceRef \in todo PROVE r.namespace # Destination
  <2>1. ApplyPriority(NamespaceRef.kind) = 0
    BY DEF NamespaceRef, ApplyPriority
  <2>2. r.kind = "Namespace"
    BY <1>1, <1>2, <2>1, FirstPriorities
  <2> QED
    BY <1>1, <2>2, NamespaceIsOutside
<1>3. ASSUME CRDRef \in todo PROVE r.kind # Custom
  <2>1. ApplyPriority(CRDRef.kind) = 1
    BY DEF CRDRef, ApplyPriority
  <2>2. r.kind \in {"Namespace", "CustomResourceDefinition"}
    BY <1>1, <1>3, <2>1, FirstPriorities
  <2> QED
    BY <2>2, KindAssumption DEF SupportedClusterScopedKinds
<1>4. ASSUME NEW s \in todo, r \in Within(s) PROVE FALSE
  BY <1>2, <1>3, <1>4 DEF Within
<1> QED
  BY <1>2, <1>4 DEF FirstInv

\* Nothing is sent before the namespace or the definition that the same
\* commit brings for it, and the namespace is still there when it is.
THEOREM ContainersComeFirst == Spec => []ContainerFirst
BY TypeInit, TypeStep, ScopeInit, ScopeStep, AdmittedInit, AdmittedStep, FirstInit, FirstStep,
   FirstOrder, PTL DEF Spec

(***************************************************************************)
(* Paths and values.                                                       *)
(***************************************************************************)
\* Any path that validateSpec lets pass resolves below the checkout, to what
\* its clean parts name there: of any length, and however it goes up and down.
THEOREM AcceptedPathsResolve == Spec => []PathsResolve
<1>1. ASSUME NEW path \in Paths PROVE SafePath(path)
  <2>1. SUFFICES ASSUME ValidateRelPath(path) \/ ValidateValuesFilePath(path)
                 PROVE  ResolveWithinRoot(path) = Root \o Clean(path)
    BY DEF SafePath
  <2>2. path.parts # <<>> /\ ~path.abs
    BY <2>1 DEF ValidateRelPath, ValidateValuesFilePath
  <2>3. ~GoesUp(Clean(path))
    BY <2>1 DEF ValidateRelPath, ValidateValuesFilePath, GoesUp
  <2> QED
    BY <2>2, <2>3, ResolvesBelowRoot
<1>2. PathsResolve
  BY <1>1 DEF PathsResolve, SafePaths
<1> QED
  BY <1>2, PTL

LEMMA MergeType == TypeOK => TwoFilesMerge
<1> SUFFICES ASSUME TypeOK PROVE TwoFilesMerge
  OBVIOUS
<1> SUFFICES ASSUME NEW i \in DOMAIN Tree[head].values, NEW j \in DOMAIN Tree[head].values
             PROVE  LET a == Tree[head].values[i]
                        b == Tree[head].values[j]
                    IN \A k \in DOMAIN a : a[k].tag = "map" =>
                         \A s \in DOMAIN a[k].at :
                           Lookup(ReadHelmValues(<<a, b>>), k, s) =
                             IF k \in DOMAIN b /\ (b[k].tag = "leaf" \/ s \in DOMAIN b[k].at)
                             THEN Lookup(b, k, s) ELSE Lookup(a, k, s)
  BY DEF TwoFilesMerge
<1> DEFINE a == Tree[head].values[i]
           b == Tree[head].values[j]
<1>1. \A k \in DOMAIN b : b[k].tag \in {"leaf", "map"}
  BY ValuesAssumption DEF TypeOK
<1> HIDE DEF a, b
<1>2. \A k \in DOMAIN a : a[k].tag = "map" =>
        \A s \in DOMAIN a[k].at :
          Lookup(ReadHelmValues(<<a, b>>), k, s) =
            IF k \in DOMAIN b /\ (b[k].tag = "leaf" \/ s \in DOMAIN b[k].at)
            THEN Lookup(b, k, s) ELSE Lookup(a, k, s)
  BY <1>1, SecondFileAdds
<1> QED
  BY <1>2 DEF a, b

\* Whatever the values files of a commit are, the second of two takes nothing
\* away from the first that it does not set itself.
THEOREM ValuesFilesMerge == Spec => []TwoFilesMerge
BY TypeInit, TypeStep, MergeType, PTL DEF Spec
=============================================================================
