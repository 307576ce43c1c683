------------------------- MODULE Repository_proofs -------------------------
(***************************************************************************)
(* Proofs about the git cache, for any number of workers and commits.      *)
(***************************************************************************)
EXTENDS Repository, TLAPS

\* The steps of ensureMirror, and those that know the commit.
InMirror   == {"init", "remove", "add", "fetch"}
WithCommit == {"lockCheckout", "clone", "checkout", "rename", "use"}

\* What a call knows at each of its steps.
CallOK(w) ==
  /\ call[w].step \in InMirror => mirrorLock = w
  /\ call[w].step \in WithCommit => call[w].sha \in Commits
  /\ At(w, "rename") => call[w].tree = call[w].sha
  /\ At(w, "use") => checkouts[call[w].sha] = call[w].sha
  /\ At(w, "fetch") /\ mirror.exists /\ ~mirror.corrupt => mirror.origin

\* A directory is absent or complete.
CheckoutsOK == \A c \in Commits : checkouts[c] \in {None, c}

CacheInv == TypeOK /\ CheckoutsOK /\ \A w \in Workers : CallOK(w)

\* A call that stays as it is while the rest changes.
LEMMA CallFrame ==
  ASSUME CacheInv, NEW w \in Workers, call'[w] = call[w],
         mirrorLock = w => mirrorLock' = w,
         At(w, "use") => checkouts'[call[w].sha] = checkouts[call[w].sha],
         At(w, "fetch") /\ mirror'.exists /\ ~mirror'.corrupt =>
           /\ mirror.exists /\ ~mirror.corrupt
           /\ mirror'.origin = mirror.origin
  PROVE  CallOK(w)'
<1>1. CallOK(w)
  BY DEF CacheInv
<1>2. /\ call'[w].step \in InMirror => mirrorLock' = w
      /\ call'[w].step \in WithCommit => call'[w].sha \in Commits
      /\ call'[w].step = "rename" => call'[w].tree = call'[w].sha
  BY <1>1 DEF CallOK, At
<1>3. call'[w].step = "use" => checkouts'[call'[w].sha] = call'[w].sha
  BY <1>1 DEF CallOK, At
<1>4. call'[w].step = "fetch" /\ mirror'.exists /\ ~mirror'.corrupt => mirror'.origin
  BY <1>1 DEF CallOK, At
<1> QED
  BY <1>2, <1>3, <1>4 DEF CallOK, At

\* A call outside of ensureMirror, after a step of its own.
LEMMA CallOutside ==
  ASSUME NEW w \in Workers, NEW c, call'[w] = c, c.step \in WithCommit, c.sha \in Commits,
         c.step = "rename" => c.tree = c.sha,
         c.step = "use" => checkouts'[c.sha] = c.sha
  PROVE  CallOK(w)'
BY DEF CallOK, At, InMirror, WithCommit

\* A call that has returned.
LEMMA CallIdle ==
  ASSUME NEW w \in Workers, call'[w] = Idle
  PROVE  CallOK(w)'
BY DEF CallOK, At, Idle, InMirror, WithCommit

LEMMA IdleType == Idle \in Call
BY DEF Idle, Call, Steps

\* What the steps of a call make of it.
LEMMA CallType == ASSUME CacheInv, NEW w \in Workers PROVE call[w] \in Call
BY DEF CacheInv, TypeOK

LEMMA StepOfCall ==
  ASSUME NEW k \in Call, NEW s \in Steps
  PROVE  LET c == [k EXCEPT !.step = s]
         IN c \in Call /\ c.step = s /\ c.sha = k.sha /\ c.revision = k.revision /\ c.tree = k.tree
BY DEF Call

LEMMA ResolvedCall ==
  ASSUME NEW k \in Call, NEW s \in Steps, NEW d \in Commits
  PROVE  LET c == [k EXCEPT !.sha = d, !.step = s]
         IN c \in Call /\ c.step = s /\ c.sha = d /\ c.revision = k.revision
BY DEF Call

LEMMA ClonedCall ==
  ASSUME NEW k \in Call, NEW C \in SUBSET Commits
  PROVE  LET c == [k EXCEPT !.cloned = C, !.step = "checkout"]
         IN c \in Call /\ c.step = "checkout" /\ c.sha = k.sha /\ c.revision = k.revision
BY DEF Call, Steps

LEMMA TreeOfCall ==
  ASSUME NEW k \in Call, NEW d \in Commits
  PROVE  LET c == [k EXCEPT !.tree = d, !.step = "rename"]
         IN /\ c \in Call /\ c.step = "rename" /\ c.sha = k.sha /\ c.revision = k.revision
            /\ c.tree = d
BY DEF Call, Steps

LEMMA UnlockType ==
  ASSUME TypeOK, NEW W, Unlock(W)
  PROVE  /\ mirrorLock' \in Workers \cup {None}
         /\ checkoutLock' \in [Commits -> Workers \cup {None}]
BY DEF TypeOK, Unlock

\* ReturnError keeps the invariant, as long as the cache itself stays.
LEMMA ReturnErrorStep ==
  ASSUME CacheInv, NEW W \in SUBSET Workers, ReturnError(W),
         UNCHANGED <<head, disk>>, spent' \in [pushes : 0..MaxPushes, faults : 0..MaxFaults]
  PROVE  CacheInv'
<1>1. TypeOK'
  BY IdleType, UnlockType DEF CacheInv, TypeOK, ReturnError, disk
<1>2. ASSUME NEW w \in Workers PROVE CallOK(w)'
  <2>1. CASE w \in W
    BY <2>1, CallIdle DEF ReturnError
  <2>2. CASE w \notin W
    <3>1. call'[w] = call[w] /\ (mirrorLock = w => mirrorLock' = w)
      BY <2>2 DEF ReturnError, Unlock
    <3> QED
      BY <3>1, CallFrame DEF disk
  <2> QED
    BY <2>1, <2>2
<1>3. CheckoutsOK'
  BY DEF CacheInv, CheckoutsOK, disk
<1> QED
  BY <1>1, <1>2, <1>3 DEF CacheInv

\* A step of one call that neither takes nor gives the lock of the mirror
\* and leaves the cache on disk alone.
LEMMA LocalStep ==
  ASSUME CacheInv, NEW w \in Workers, NEW c \in Call,
         call' = [call EXCEPT ![w] = c],
         UNCHANGED <<head, disk, mirrorLock, spent>>,
         checkoutLock' \in [Commits -> Workers \cup {None}],
         CallOK(w)'
  PROVE  CacheInv'
<1>1. TypeOK'
  BY DEF CacheInv, TypeOK, disk
<1>2. ASSUME NEW v \in Workers \ {w} PROVE CallOK(v)'
  <2>1. call'[v] = call[v]
    BY DEF CacheInv, TypeOK
  <2> QED
    BY <2>1, CallFrame DEF disk
<1>3. CheckoutsOK'
  BY DEF CacheInv, CheckoutsOK, disk
<1> QED
  BY <1>1, <1>2, <1>3 DEF CacheInv

\* A step of a call within ensureMirror, which may change the mirror: no
\* other call is within it.
LEMMA MirrorStep ==
  ASSUME CacheInv, NEW w \in Workers, NEW c \in Call, call[w].step \in InMirror,
         call' = [call EXCEPT ![w] = c], mirror' \in Mirror,
         UNCHANGED <<head, checkouts, spent>>,
         UNCHANGED locks \/ Unlock({w}),
         CallOK(w)'
  PROVE  CacheInv'
<1>1. /\ mirrorLock' \in Workers \cup {None}
      /\ checkoutLock' \in [Commits -> Workers \cup {None}]
  BY UnlockType DEF CacheInv, TypeOK, locks
<1>2. TypeOK'
  BY <1>1 DEF CacheInv, TypeOK
<1>3. ASSUME NEW v \in Workers \ {w} PROVE CallOK(v)'
  <2>1. call'[v] = call[v] /\ (mirrorLock = v => mirrorLock' = v)
    BY DEF CacheInv, TypeOK, locks, Unlock
  <2>2. ~At(v, "fetch")
    BY DEF CacheInv, CallOK, At, InMirror
  <2> QED
    BY <2>1, <2>2, CallFrame
<1>4. CheckoutsOK'
  BY DEF CacheInv, CheckoutsOK
<1> QED
  BY <1>2, <1>3, <1>4 DEF CacheInv

LEMMA RecoverStep ==
  ASSUME CacheInv, NEW w \in Workers, call[w].step \in InMirror, Recover(w),
         UNCHANGED <<head, checkouts, spent>>
  PROVE  CacheInv'
<1>1. CASE call[w].recovered
  <2>1. ReturnError({w}) /\ UNCHANGED mirror
    BY <1>1 DEF Recover
  <2> QED
    BY <2>1, ReturnErrorStep DEF disk, CacheInv, TypeOK
<1>2. CASE ~call[w].recovered
  <2> DEFINE c == [call[w] EXCEPT !.step = "init", !.recovered = TRUE]
  <2>1. /\ call' = [call EXCEPT ![w] = c] /\ UNCHANGED locks
        /\ mirror' = NoMirror
    BY <1>2 DEF Recover, CacheInv, TypeOK
  <2>2. c \in Call /\ c.step = "init"
    BY DEF CacheInv, TypeOK, Call, Steps
  <2>3. mirror' \in Mirror
    BY <2>1 DEF NoMirror, Mirror
  <2>4. CallOK(w)'
    BY <2>1, <2>2 DEF CacheInv, TypeOK, CallOK, At, InMirror, WithCommit, locks
  <2> QED
    BY <2>1, <2>2, <2>3, <2>4, MirrorStep
<1> QED
  BY <1>1, <1>2

LEMMA CacheStep == CacheInv /\ [Next]_vars => CacheInv'
<1> SUFFICES ASSUME CacheInv, [Next]_vars PROVE CacheInv'
  OBVIOUS
<1>1. ASSUME NEW w \in Workers, Begin(w) PROVE CacheInv'
  <2>1. PICK r \in Commits \cup {Branch} :
          call' = [call EXCEPT ![w] = [Idle EXCEPT !.step = "lockMirror", !.revision = r]]
    BY <1>1 DEF Begin
  <2> DEFINE c == [Idle EXCEPT !.step = "lockMirror", !.revision = r]
  <2>2. c \in Call /\ c.step = "lockMirror"
    BY DEF Idle, Call, Steps
  <2>3. CallOK(w)'
    BY <2>1, <2>2 DEF CallOK, At, InMirror, WithCommit, CacheInv, TypeOK
  <2> QED
    BY <1>1, <2>1, <2>2, <2>3, LocalStep DEF Begin, locks, CacheInv, TypeOK
<1>2. ASSUME NEW w \in Workers, LockMirror(w) PROVE CacheInv'
  <2> DEFINE c == [call[w] EXCEPT !.step = "init"]
  <2>1. c \in Call /\ call' = [call EXCEPT ![w] = c] /\ c.step = "init"
    BY <1>2 DEF LockMirror, Goto, CacheInv, TypeOK, Call, Steps
  <2>2. TypeOK'
    BY <1>2, <2>1 DEF LockMirror, CacheInv, TypeOK, disk
  <2>3. CallOK(w)'
    BY <1>2, <2>1 DEF LockMirror, CallOK, At, InMirror, WithCommit, CacheInv, TypeOK
  <2>4. ASSUME NEW v \in Workers \ {w} PROVE CallOK(v)'
    <3>1. call'[v] = call[v] /\ mirrorLock # v /\ UNCHANGED disk
      BY <1>2, <2>1, RepositoryAssumption DEF LockMirror, CacheInv, TypeOK
    <3> QED
      BY <3>1, CallFrame DEF disk
  <2>5. CheckoutsOK'
    BY <1>2 DEF LockMirror, CacheInv, CheckoutsOK, disk
  <2> QED
    BY <2>2, <2>3, <2>4, <2>5 DEF CacheInv
<1>3. ASSUME NEW w \in Workers, LockTimeout(w) \/ ResolveFails(w) \/ CloneFails(w) PROVE CacheInv'
  <2>1. ReturnError({w}) /\ UNCHANGED <<head, disk, spent>>
    BY <1>3 DEF LockTimeout, ResolveFails, CloneFails
  <2> QED
    BY <2>1, ReturnErrorStep DEF CacheInv, TypeOK
<1>4. ASSUME NEW w \in Workers, InitMirror(w) PROVE CacheInv'
  <2>1. CASE ~mirror.exists /\ mirror.corrupt
    BY <1>4, <2>1, RecoverStep DEF InitMirror, At, InMirror
  <2>2. CASE ~(~mirror.exists /\ mirror.corrupt)
    <3> DEFINE c == [call[w] EXCEPT !.step = "remove"]
    <3>1. /\ c \in Call /\ call' = [call EXCEPT ![w] = c] /\ c.step = "remove"
          /\ call[w].step \in InMirror
      BY <1>4, <2>2 DEF InitMirror, Goto, At, InMirror, CacheInv, TypeOK, Call, Steps
    <3>2. mirror' \in Mirror /\ UNCHANGED <<head, checkouts, spent, locks>>
      BY <1>4, <2>2 DEF InitMirror, CacheInv, TypeOK, Mirror
    <3>3. CallOK(w)'
      BY <3>1, <3>2 DEF CallOK, At, InMirror, WithCommit, CacheInv, TypeOK, locks
    <3> QED
      BY <3>1, <3>2, <3>3, MirrorStep
  <2> QED
    BY <2>1, <2>2
<1>5. ASSUME NEW w \in Workers, RemoveRemote(w) \/ RemoveRemoteFails(w) PROVE CacheInv'
  <2> DEFINE c == [call[w] EXCEPT !.step = "add"]
  <2>1. /\ c \in Call /\ call' = [call EXCEPT ![w] = c] /\ c.step = "add"
        /\ call[w].step \in InMirror
    BY <1>5 DEF RemoveRemote, RemoveRemoteFails, Goto, At, InMirror, CacheInv, TypeOK, Call, Steps
  <2>2. mirror' \in Mirror /\ UNCHANGED <<head, checkouts, locks>>
    BY <1>5 DEF RemoveRemote, RemoveRemoteFails, CacheInv, TypeOK, Mirror, disk
  <2>3. CallOK(w)'
    BY <2>1, <2>2 DEF CallOK, At, InMirror, WithCommit, CacheInv, TypeOK, locks
  <2>4. CASE RemoveRemote(w)
    BY <2>1, <2>2, <2>3, <2>4, MirrorStep DEF RemoveRemote
  <2>5. CASE RemoveRemoteFails(w)
    <3>1. spent' \in [pushes : 0..MaxPushes, faults : 0..MaxFaults]
      BY <2>5, RepositoryAssumption DEF RemoveRemoteFails, CountFault, CacheInv, TypeOK
    <3>2. UNCHANGED <<head, disk, locks>>
      BY <2>5 DEF RemoveRemoteFails
    <3>3. TypeOK'
      BY <2>1, <3>1, <3>2 DEF CacheInv, TypeOK, disk, locks
    <3>4. ASSUME NEW v \in Workers \ {w} PROVE CallOK(v)'
      <4>1. call'[v] = call[v]
        BY <2>1 DEF CacheInv, TypeOK
      <4> QED
        BY <3>2, <4>1, CallFrame DEF disk, locks
    <3>5. CheckoutsOK'
      BY <3>2 DEF CacheInv, CheckoutsOK, disk
    <3> QED
      BY <2>3, <3>3, <3>4, <3>5 DEF CacheInv
  <2> QED
    BY <1>5, <2>4, <2>5
<1>6. ASSUME NEW w \in Workers, AddRemote(w) PROVE CacheInv'
  <2>1. CASE mirror.corrupt /\ Recover(w)
    BY <1>6, <2>1, RecoverStep DEF AddRemote, At, InMirror
  <2>2. CASE ReturnError({w}) /\ UNCHANGED mirror
    BY <1>6, <2>2, ReturnErrorStep DEF AddRemote, disk, CacheInv, TypeOK
  <2>3. CASE /\ mirror' = [mirror EXCEPT !.origin = TRUE]
             /\ Goto(w, "fetch") /\ UNCHANGED locks
    <3> DEFINE c == [call[w] EXCEPT !.step = "fetch"]
    <3>1. /\ c \in Call /\ call' = [call EXCEPT ![w] = c] /\ c.step = "fetch"
          /\ call[w].step \in InMirror
      BY <1>6, <2>3 DEF AddRemote, Goto, At, InMirror, CacheInv, TypeOK, Call, Steps
    <3>2. mirror' \in Mirror /\ mirror'.origin
      BY <2>3 DEF CacheInv, TypeOK, Mirror
    <3>3. CallOK(w)'
      BY <2>3, <3>1, <3>2 DEF CallOK, At, InMirror, WithCommit, CacheInv, TypeOK, locks
    <3> QED
      BY <1>6, <2>3, <3>1, <3>2, <3>3, MirrorStep DEF AddRemote
  <2> QED
    BY <1>6, <2>1, <2>2, <2>3 DEF AddRemote
<1>7. ASSUME NEW w \in Workers, Fetch(w) PROVE CacheInv'
  <2>1. CASE mirror.corrupt /\ Recover(w)
    BY <1>7, <2>1, RecoverStep DEF Fetch, At, InMirror
  <2>2. CASE ReturnError({w}) /\ UNCHANGED mirror
    BY <1>7, <2>2, ReturnErrorStep DEF Fetch, disk, CacheInv, TypeOK
  <2>3. CASE /\ mirror' = [mirror EXCEPT !.commits = @ \cup Fetched]
             /\ Goto(w, "resolve") /\ Unlock({w})
    <3> DEFINE c == [call[w] EXCEPT !.step = "resolve"]
    <3>1. /\ c \in Call /\ call' = [call EXCEPT ![w] = c] /\ c.step = "resolve"
          /\ call[w].step \in InMirror
      <4>1. c \in Call /\ c.step = "resolve"
        BY CallType, StepOfCall DEF Steps
      <4>2. call' = [call EXCEPT ![w] = c] /\ call[w].step \in InMirror
        BY <1>7, <2>3 DEF Fetch, Goto, At, InMirror
      <4> QED
        BY <4>1, <4>2
    <3>2. mirror' \in Mirror
      BY <2>3, RepositoryAssumption DEF Fetched, CacheInv, TypeOK, Mirror
    <3>3. CallOK(w)'
      BY <3>1 DEF CallOK, At, InMirror, WithCommit, CacheInv, TypeOK
    <3> QED
      BY <1>7, <2>3, <3>1, <3>2, <3>3, MirrorStep DEF Fetch
  <2> QED
    BY <1>7, <2>1, <2>2, <2>3 DEF Fetch
\* The directory that is there is complete.
<1>8. ASSUME NEW w \in Workers, Resolve(w) PROVE CacheInv'
  <2> DEFINE d == IF call[w].revision = Branch THEN FirstMatch ELSE call[w].revision
             s == IF checkouts[d] # None THEN "use" ELSE "lockCheckout"
             c == [call[w] EXCEPT !.sha = d, !.step = s]
  <2>1. d \in Commits
    BY <1>8, RepositoryAssumption DEF Resolve, Resolvable, FirstMatch, CacheInv, TypeOK, Mirror
  <2>2. call' = [call EXCEPT ![w] = c] /\ UNCHANGED <<head, disk, locks, spent>>
    BY <1>8 DEF Resolve, CacheInv, TypeOK
  <2>3. c \in Call /\ c.step = s /\ c.sha = d
    <3>1. s \in Steps
      BY DEF Steps
    <3>2. call[w] \in Call
      BY CallType
    <3> HIDE DEF s, d
    <3> QED
      BY <2>1, <3>1, <3>2 DEF Call
  <2>4. checkouts[d] # None => checkouts[d] = d
    BY <2>1 DEF CacheInv, CheckoutsOK
  <2>5. call'[w] = c /\ UNCHANGED checkouts
    BY <2>2 DEF CacheInv, TypeOK, disk
  <2>6. s \in WithCommit \ {"rename"} /\ (s = "use" => checkouts[d] = d)
    BY <2>4 DEF WithCommit
  <2> HIDE DEF c, d, s
  <2>7. CallOK(w)'
    BY <2>1, <2>3, <2>5, <2>6, CallOutside
  <2> QED
    BY <2>2, <2>3, <2>7, LocalStep DEF locks, CacheInv, TypeOK
<1>9. ASSUME NEW w \in Workers, LockCheckout(w) PROVE CacheInv'
  <2>1. call[w].sha \in Commits
    BY <1>9 DEF LockCheckout, CacheInv, CallOK, At, WithCommit
  <2>2. checkoutLock' \in [Commits -> Workers \cup {None}]
    BY <1>9 DEF LockCheckout, CacheInv, TypeOK
  <2>3. PICK s \in {"use", "clone"} :
          Goto(w, s) /\ (s = "use" => checkouts[call[w].sha] # None)
    BY <1>9 DEF LockCheckout
  <2> DEFINE c == [call[w] EXCEPT !.step = s]
  <2>4. c \in Call /\ call' = [call EXCEPT ![w] = c] /\ c.step = s /\ c.sha = call[w].sha
    <3>1. s \in Steps /\ call[w] \in Call
      BY CallType DEF Steps
    <3>2. call' = [call EXCEPT ![w] = c]
      BY <2>3 DEF Goto
    <3> QED
      BY <3>1, <3>2, StepOfCall
  <2>5. s = "use" => checkouts[call[w].sha] = call[w].sha
    BY <2>1, <2>3 DEF CacheInv, CheckoutsOK
  <2>6. s \in WithCommit \ {"rename"} /\ UNCHANGED <<head, disk, mirrorLock, spent>>
    BY <1>9 DEF LockCheckout, WithCommit
  <2> HIDE DEF c
  <2>7. call'[w] = c
    BY <2>4 DEF CacheInv, TypeOK
  <2>8. CallOK(w)'
    BY <2>1, <2>4, <2>5, <2>6, <2>7, CallOutside DEF disk
  <2> QED
    BY <2>2, <2>4, <2>6, <2>8, LocalStep
<1>10. ASSUME NEW w \in Workers, Clone(w) PROVE CacheInv'
  <2> DEFINE c == [call[w] EXCEPT !.cloned = mirror.commits, !.step = "checkout"]
  <2>1. /\ c \in Call /\ call' = [call EXCEPT ![w] = c]
        /\ c.step = "checkout" /\ c.sha = call[w].sha
    <3>1. mirror.commits \in SUBSET Commits
      BY DEF CacheInv, TypeOK, Mirror
    <3>2. c \in Call /\ c.step = "checkout" /\ c.sha = call[w].sha
      BY <3>1, CallType, ClonedCall
    <3>3. call' = [call EXCEPT ![w] = c]
      BY <1>10 DEF Clone
    <3> QED
      BY <3>2, <3>3
  <2>2. call[w].sha \in Commits
    BY <1>10 DEF Clone, CacheInv, CallOK, At, WithCommit
  <2>3. UNCHANGED <<head, disk, locks, spent>>
    BY <1>10 DEF Clone
  <2> HIDE DEF c
  <2>4. call'[w] = c
    BY <2>1 DEF CacheInv, TypeOK
  <2>5. CallOK(w)'
    BY <2>1, <2>2, <2>4, CallOutside DEF WithCommit
  <2> QED
    BY <2>1, <2>3, <2>5, LocalStep DEF locks, CacheInv, TypeOK
<1>11. ASSUME NEW w \in Workers, CheckoutTree(w) PROVE CacheInv'
  <2>1. CASE call[w].sha \notin call[w].cloned
    BY <1>11, <2>1, ReturnErrorStep DEF CheckoutTree, CacheInv, TypeOK
  <2>2. CASE call[w].sha \in call[w].cloned
    <3> DEFINE c == [call[w] EXCEPT !.tree = call[w].sha, !.step = "rename"]
    <3>1. call[w].sha \in Commits
      BY <1>11 DEF CheckoutTree, CacheInv, CallOK, At, WithCommit
    <3>2. /\ c \in Call /\ call' = [call EXCEPT ![w] = c]
          /\ c.step = "rename" /\ c.sha = call[w].sha /\ c.tree = call[w].sha
      <4>1. c \in Call /\ c.step = "rename" /\ c.sha = call[w].sha /\ c.tree = call[w].sha
        BY <3>1, CallType, TreeOfCall
      <4>2. call' = [call EXCEPT ![w] = c]
        BY <1>11, <2>2 DEF CheckoutTree
      <4> QED
        BY <4>1, <4>2
    <3>3. UNCHANGED <<head, disk, locks, spent>>
      BY <1>11, <2>2 DEF CheckoutTree
    <3> HIDE DEF c
    <3>4. call'[w] = c
      BY <3>2 DEF CacheInv, TypeOK
    <3>5. CallOK(w)'
      BY <3>1, <3>2, <3>4, CallOutside DEF WithCommit
    <3> QED
      BY <3>2, <3>3, <3>5, LocalStep DEF locks, CacheInv, TypeOK
  <2> QED
    BY <2>1, <2>2
\* What becomes the checkout is the tree of its commit; what others use stays.
<1>12. ASSUME NEW w \in Workers, Rename(w) PROVE CacheInv'
  <2> DEFINE c == [call[w] EXCEPT !.step = "use"]
  <2>1. call[w].sha \in Commits /\ call[w].tree = call[w].sha
    BY <1>12 DEF Rename, CacheInv, CallOK, At, WithCommit
  <2>2. c \in Call /\ call' = [call EXCEPT ![w] = c] /\ c.step = "use" /\ c.sha = call[w].sha
    <3>1. c \in Call /\ c.step = "use" /\ c.sha = call[w].sha
      BY CallType, StepOfCall DEF Steps
    <3>2. call' = [call EXCEPT ![w] = c]
      BY <1>12 DEF Rename, Goto
    <3> QED
      BY <3>1, <3>2
  <2>3. /\ checkouts' \in [Commits -> Commits \cup {Partial, None}]
        /\ checkouts'[call[w].sha] = call[w].sha
        /\ \A d \in Commits : checkouts[d] # None => checkouts'[d] = checkouts[d]
    BY <1>12, <2>1 DEF Rename, CacheInv, TypeOK, CheckoutsOK
  <2>4. UNCHANGED <<head, mirror, spent>> /\ Unlock({w})
    BY <1>12 DEF Rename
  <2>5. TypeOK'
    BY <2>2, <2>3, <2>4, UnlockType DEF CacheInv, TypeOK
  <2>6. CheckoutsOK'
    BY <1>12, <2>1 DEF Rename, CacheInv, TypeOK, CheckoutsOK
  <2>7. CallOK(w)'
    BY <2>1, <2>2, <2>3 DEF CallOK, At, InMirror, WithCommit, CacheInv, TypeOK
  <2>8. ASSUME NEW v \in Workers \ {w} PROVE CallOK(v)'
    <3>1. call'[v] = call[v] /\ (mirrorLock = v => mirrorLock' = v)
      BY <2>2, <2>4 DEF CacheInv, TypeOK, Unlock
    <3>2. At(v, "use") => checkouts'[call[v].sha] = checkouts[call[v].sha]
      BY <2>3, RepositoryAssumption DEF CacheInv, CallOK, At, WithCommit
    <3> QED
      BY <2>4, <3>1, <3>2, CallFrame
  <2> QED
    BY <2>5, <2>6, <2>7, <2>8 DEF CacheInv
<1>13. ASSUME NEW w \in Workers, Return(w) PROVE CacheInv'
  <2>1. CallOK(w)'
    BY <1>13, CallIdle DEF Return, CacheInv, TypeOK
  <2> QED
    BY <1>13, <2>1, IdleType, LocalStep DEF Return, locks, CacheInv, TypeOK
<1>14. ASSUME CountFault PROVE spent' \in [pushes : 0..MaxPushes, faults : 0..MaxFaults]
  BY <1>14, RepositoryAssumption DEF CountFault, CacheInv, TypeOK
<1>15. ASSUME NEW w \in Workers, CommandFails(w) PROVE CacheInv'
  BY <1>14, <1>15, ReturnErrorStep DEF CommandFails
<1>16. ASSUME Crash PROVE CacheInv'
  BY <1>14, <1>16, ReturnErrorStep DEF Crash
<1>17. ASSUME Push PROVE CacheInv'
  <2>1. head' \in Commits /\ spent' \in [pushes : 0..MaxPushes, faults : 0..MaxFaults]
    BY <1>17, RepositoryAssumption DEF Push, CountPush, CacheInv, TypeOK
  <2>2. UNCHANGED <<disk, locks, call>>
    BY <1>17 DEF Push
  <2>3. TypeOK'
    BY <2>1, <2>2 DEF CacheInv, TypeOK, disk, locks
  <2>4. \A w \in Workers : CallOK(w)'
    BY <2>2, CallFrame DEF disk, locks
  <2>5. CheckoutsOK'
    BY <2>2 DEF CacheInv, CheckoutsOK, disk
  <2> QED
    BY <2>3, <2>4, <2>5 DEF CacheInv
<1>18. ASSUME Damage PROVE CacheInv'
  <2>1. mirror' \in Mirror /\ (mirror'.corrupt \/ ~mirror'.exists)
    BY <1>18 DEF Damage, CacheInv, TypeOK, Mirror
  <2>2. UNCHANGED <<head, checkouts, locks, call>>
    BY <1>18 DEF Damage
  <2>3. spent' \in [pushes : 0..MaxPushes, faults : 0..MaxFaults]
    BY <1>14, <1>18 DEF Damage
  <2>4. TypeOK'
    BY <2>1, <2>2, <2>3 DEF CacheInv, TypeOK, locks
  <2>5. \A w \in Workers : CallOK(w)'
    BY <2>1, <2>2, CallFrame DEF locks
  <2>6. CheckoutsOK'
    BY <2>2 DEF CacheInv, CheckoutsOK
  <2> QED
    BY <2>4, <2>5, <2>6 DEF CacheInv
<1>19. CASE UNCHANGED vars
  <2>1. \A w \in Workers : CallOK(w)'
    BY <1>19, CallFrame DEF vars
  <2> QED
    BY <1>19, <2>1 DEF vars, CacheInv, TypeOK, CheckoutsOK
<1> QED
  BY <1>1, <1>2, <1>3, <1>4, <1>5, <1>6, <1>7, <1>8, <1>9, <1>10, <1>11, <1>12, <1>13,
     <1>15, <1>16, <1>17, <1>18, <1>19
     DEF Next, Advance

LEMMA CacheInit == Init => CacheInv
<1> SUFFICES ASSUME Init PROVE CacheInv
  OBVIOUS
<1>1. TypeOK
  BY IdleType, RepositoryAssumption DEF Init, TypeOK, NoMirror, Mirror
<1>2. \A w \in Workers : call[w].step = "idle"
  BY DEF Init, Idle
<1> QED
  BY <1>1, <1>2 DEF Init, CacheInv, CheckoutsOK, CallOK, At, InMirror, WithCommit

\* The types of the cache.
THEOREM RepositoryTypeCorrect == Spec => []TypeOK
<1>1. CacheInv => TypeOK
  BY DEF CacheInv
<1> QED
  BY CacheInit, CacheStep, <1>1, PTL DEF Spec

\* A worker renders from the complete tree of the commit it was told, for
\* any number of workers, pushes, failed commands, crashes and damages.
THEOREM CheckoutIsComplete == Spec => []HandedOutIsComplete
<1>1. CacheInv => HandedOutIsComplete
  BY DEF CacheInv, CallOK, HandedOutIsComplete
<1> QED
  BY CacheInit, CacheStep, <1>1, PTL DEF Spec

\* The lock of the mirror does its work: a fetch finds its remote.
THEOREM FetchIsConfigured == Spec => []FetchHasOrigin
<1>1. CacheInv => FetchHasOrigin
  BY DEF CacheInv, CallOK, FetchHasOrigin
<1> QED
  BY CacheInit, CacheStep, <1>1, PTL DEF Spec

(***************************************************************************)
(* The locks, and the length of a call.                                    *)
(***************************************************************************)
UnderCheckout == {"clone", "checkout", "rename"}

\* A step that is of the call of w alone.
Becomes(w, k) == call' = [call EXCEPT ![w] = k]

\* What w holds it works under.
HoldsRightly(w) ==
  /\ mirrorLock = w => call[w].step \in InMirror
  /\ \A c \in Commits : checkoutLock[c] = w => call[w].step \in UnderCheckout /\ call[w].sha = c

LEMMA NoLockByWorker ==
  ASSUME TypeOK
  PROVE  NoLockIsLeaked <=> \A w \in Workers : HoldsRightly(w)
<1>1. None \notin Workers
  BY RepositoryAssumption
<1> QED
  BY <1>1 DEF TypeOK, NoLockIsLeaked, HoldsRightly, InMirror, UnderCheckout

\* A call that stays as it is and takes no lock.
LEMMA HoldsFrame ==
  ASSUME NEW v \in Workers, HoldsRightly(v), call'[v] = call[v],
         mirrorLock' = v => mirrorLock = v,
         \A c \in Commits : checkoutLock'[c] = v => checkoutLock[c] = v
  PROVE  HoldsRightly(v)'
BY DEF HoldsRightly

\* A step of one call: the others take no lock, and it keeps none that it
\* does not work under.
LEMMA HoldsStep ==
  ASSUME TypeOK, \A v \in Workers : HoldsRightly(v),
         NEW w \in Workers, NEW k, Becomes(w, k),
         mirrorLock' \in {w, mirrorLock, None},
         mirrorLock' = w => k.step \in InMirror,
         \A c \in Commits : /\ checkoutLock'[c] \in {w, checkoutLock[c], None}
                            /\ checkoutLock'[c] = w => k.step \in UnderCheckout /\ k.sha = c
  PROVE  \A v \in Workers : HoldsRightly(v)'
<1> SUFFICES ASSUME NEW v \in Workers PROVE HoldsRightly(v)'
  OBVIOUS
<1>1. call'[w] = k /\ (v # w => call'[v] = call[v])
  BY DEF TypeOK, Becomes
<1>2. CASE v = w
  BY <1>1, <1>2 DEF HoldsRightly
<1>3. CASE v # w
  BY <1>1, <1>3, RepositoryAssumption, HoldsFrame
<1> QED
  BY <1>2, <1>3

\* Calls that are over let go of what they hold.
LEMMA HoldsError ==
  ASSUME TypeOK, \A v \in Workers : HoldsRightly(v), NEW W \in SUBSET Workers, ReturnError(W)
  PROVE  \A v \in Workers : HoldsRightly(v)'
<1> SUFFICES ASSUME NEW v \in Workers PROVE HoldsRightly(v)'
  OBVIOUS
<1>1. /\ mirrorLock' = v => mirrorLock = v /\ v \notin W
      /\ \A c \in Commits : checkoutLock'[c] = v => checkoutLock[c] = v /\ v \notin W
  BY RepositoryAssumption DEF ReturnError, Unlock
<1>2. v \notin W => call'[v] = call[v]
  BY DEF ReturnError
<1> QED
  BY <1>1, <1>2 DEF HoldsRightly

\* A call goes on at the locks it has.
LEMMA HoldsOn ==
  ASSUME TypeOK, \A v \in Workers : HoldsRightly(v),
         NEW w \in Workers, NEW k, Becomes(w, k), UNCHANGED locks,
         call[w].step \in InMirror => k.step \in InMirror,
         call[w].step \in UnderCheckout => k.step \in UnderCheckout /\ k.sha = call[w].sha
  PROVE  \A v \in Workers : HoldsRightly(v)'
<1>1. /\ mirrorLock' = mirrorLock /\ (mirrorLock' = w => k.step \in InMirror)
      /\ \A c \in Commits : /\ checkoutLock'[c] = checkoutLock[c]
                            /\ checkoutLock'[c] = w => k.step \in UnderCheckout /\ k.sha = c
  BY DEF HoldsRightly, locks
<1>2. mirrorLock' \in {w, mirrorLock, None} /\ (mirrorLock' = w => k.step \in InMirror)
  BY <1>1
<1>3. \A c \in Commits : /\ checkoutLock'[c] \in {w, checkoutLock[c], None}
                         /\ checkoutLock'[c] = w => k.step \in UnderCheckout /\ k.sha = c
  BY <1>1
<1> QED
  BY <1>2, <1>3, HoldsStep

\* A call lets go of everything it has.
LEMMA HoldsNothing ==
  ASSUME TypeOK, \A v \in Workers : HoldsRightly(v),
         NEW w \in Workers, NEW k, Becomes(w, k), Unlock({w})
  PROVE  \A v \in Workers : HoldsRightly(v)'
<1>1. /\ mirrorLock' \in {mirrorLock, None} /\ mirrorLock' # w
      /\ \A c \in Commits : checkoutLock'[c] \in {checkoutLock[c], None} /\ checkoutLock'[c] # w
  BY RepositoryAssumption DEF Unlock
<1>2. mirrorLock' \in {w, mirrorLock, None} /\ (mirrorLock' = w => k.step \in InMirror)
  BY <1>1
<1>3. \A c \in Commits : /\ checkoutLock'[c] \in {w, checkoutLock[c], None}
                         /\ checkoutLock'[c] = w => k.step \in UnderCheckout /\ k.sha = c
  BY <1>1
<1> QED
  BY <1>2, <1>3, HoldsStep

LEMMA GotoBecomes == ASSUME NEW w \in Workers, NEW s, Goto(w, s) PROVE \E k : Becomes(w, k)
BY DEF Goto, Becomes

LEMMA HoldsRecover ==
  ASSUME TypeOK, \A v \in Workers : HoldsRightly(v),
         NEW w \in Workers, call[w].step \in InMirror, Recover(w)
  PROVE  \A v \in Workers : HoldsRightly(v)'
<1>1. CASE ReturnError({w})
  BY <1>1, HoldsError
<1>2. CASE call' = [call EXCEPT ![w].step = "init", ![w].recovered = TRUE] /\ UNCHANGED locks
  <2> DEFINE k == [call[w] EXCEPT !.step = "init", !.recovered = TRUE]
  <2>1. Becomes(w, k) /\ UNCHANGED locks
    BY <1>2 DEF Becomes
  <2>2. k.step = "init"
    BY DEF TypeOK, Call
  <2> HIDE DEF k
  <2> QED
    BY <2>1, <2>2, HoldsOn DEF InMirror, UnderCheckout
<1> QED
  BY <1>1, <1>2 DEF Recover

\* A call goes to step s, with its locks as they are.
LEMMA HoldsGoto ==
  ASSUME TypeOK, \A v \in Workers : HoldsRightly(v),
         NEW w \in Workers, NEW s \in Steps, Goto(w, s), UNCHANGED locks,
         call[w].step \in InMirror => s \in InMirror,
         call[w].step \notin UnderCheckout
  PROVE  \A v \in Workers : HoldsRightly(v)'
<1> DEFINE k == [call[w] EXCEPT !.step = s]
<1>1. Becomes(w, k)
  BY DEF Goto, Becomes
<1>2. k.step = s
  BY DEF TypeOK, Call
<1> HIDE DEF k
<1> QED
  BY <1>1, <1>2, HoldsOn

LEMMA LocksStep ==
  ASSUME CacheInv, \A v \in Workers : HoldsRightly(v), [Next]_vars
  PROVE  \A v \in Workers : HoldsRightly(v)'
<1> DEFINE Goal == \A v \in Workers : HoldsRightly(v)'
<1> SUFFICES Goal
  OBVIOUS
<1>t. TypeOK
  BY DEF CacheInv
<1>1. ASSUME NEW w \in Workers, Begin(w) PROVE Goal
  <2>1. PICK r \in Commits \cup {Branch} :
          call' = [call EXCEPT ![w] = [Idle EXCEPT !.step = "lockMirror", !.revision = r]]
    BY <1>1 DEF Begin
  <2>2. call[w].step = "idle" /\ UNCHANGED locks
    BY <1>1 DEF Begin, At
  <2> QED
    BY <1>t, <2>1, <2>2, HoldsOn DEF InMirror, UnderCheckout, Becomes
<1>2. ASSUME NEW w \in Workers, LockMirror(w) PROVE Goal
  <2> DEFINE k == [call[w] EXCEPT !.step = "init"]
  <2>1. Becomes(w, k)
    BY <1>2 DEF LockMirror, Goto, Becomes
  <2>2. call[w].step = "lockMirror" /\ mirrorLock' = w /\ UNCHANGED checkoutLock
    BY <1>2 DEF LockMirror, At
  <2>3. k.step = "init"
    BY CallType DEF Call
  <2>4. \A c \in Commits : checkoutLock'[c] = checkoutLock[c] /\ checkoutLock[c] # w
    BY <2>2 DEF HoldsRightly, UnderCheckout
  <2> HIDE DEF k
  <2> QED
    BY <1>t, <2>1, <2>2, <2>3, <2>4, HoldsStep DEF InMirror
<1>3. ASSUME NEW w \in Workers, LockTimeout(w) \/ ResolveFails(w) \/ CloneFails(w) \/ CommandFails(w)
      PROVE  Goal
  <2>1. ReturnError({w})
    BY <1>3 DEF LockTimeout, ResolveFails, CloneFails, CommandFails
  <2> QED
    BY <1>t, <2>1, HoldsError
<1>4. ASSUME NEW w \in Workers, InitMirror(w) PROVE Goal
  BY <1>t, <1>4, HoldsRecover, HoldsGoto DEF InitMirror, At, InMirror, UnderCheckout, Steps
<1>5. ASSUME NEW w \in Workers, RemoveRemote(w) \/ RemoveRemoteFails(w) PROVE Goal
  BY <1>t, <1>5, HoldsGoto DEF RemoveRemote, RemoveRemoteFails, At, InMirror, UnderCheckout, Steps
<1>6. ASSUME NEW w \in Workers, AddRemote(w) PROVE Goal
  <2>1. CASE Recover(w)
    BY <1>t, <1>6, <2>1, HoldsRecover DEF AddRemote, At, InMirror
  <2>2. CASE ReturnError({w})
    BY <1>t, <2>2, HoldsError
  <2>3. CASE Goto(w, "fetch") /\ UNCHANGED locks
    BY <1>t, <1>6, <2>3, HoldsGoto DEF AddRemote, At, InMirror, UnderCheckout, Steps
  <2> QED
    BY <1>6, <2>1, <2>2, <2>3 DEF AddRemote
<1>7. ASSUME NEW w \in Workers, Fetch(w) PROVE Goal
  <2>1. CASE Recover(w)
    BY <1>t, <1>7, <2>1, HoldsRecover DEF Fetch, At, InMirror
  <2>2. CASE ReturnError({w})
    BY <1>t, <2>2, HoldsError
  <2>3. CASE Goto(w, "resolve") /\ Unlock({w})
    BY <1>t, <2>3, GotoBecomes, HoldsNothing
  <2> QED
    BY <1>7, <2>1, <2>2, <2>3 DEF Fetch
<1>8. ASSUME NEW w \in Workers, Resolve(w) PROVE Goal
  <2>1. PICK k : Becomes(w, k)
    BY <1>8 DEF Resolve, Becomes
  <2>2. call[w].step = "resolve" /\ UNCHANGED locks
    BY <1>8 DEF Resolve, At
  <2> QED
    BY <1>t, <2>1, <2>2, HoldsOn DEF InMirror, UnderCheckout
\* The lock is taken, or given back at once.
<1>9. ASSUME NEW w \in Workers, LockCheckout(w) PROVE Goal
  <2>1. call[w].step = "lockCheckout" /\ UNCHANGED mirrorLock /\ call[w].sha \in Commits
    BY <1>9 DEF LockCheckout, At, CacheInv, CallOK, WithCommit
  <2>2. CASE Goto(w, "use") /\ UNCHANGED checkoutLock
    BY <1>t, <2>1, <2>2, HoldsGoto DEF locks, InMirror, UnderCheckout, Steps
  <2>3. CASE Goto(w, "clone") /\ checkoutLock' = [checkoutLock EXCEPT ![call[w].sha] = w]
    <3> DEFINE k == [call[w] EXCEPT !.step = "clone"]
    <3>1. Becomes(w, k)
      BY <2>3 DEF Goto, Becomes
    <3>2. k.step = "clone" /\ k.sha = call[w].sha
      BY CallType DEF Call
    <3>3. mirrorLock # w /\ \A c \in Commits : checkoutLock[c] # w
      BY <2>1 DEF HoldsRightly, InMirror, UnderCheckout
    <3>4. \A c \in Commits : checkoutLock'[c] = IF c = call[w].sha THEN w ELSE checkoutLock[c]
      BY <1>t, <2>1, <2>3 DEF TypeOK
    <3> HIDE DEF k
    <3>5. \A c \in Commits :
            /\ checkoutLock'[c] \in {w, checkoutLock[c], None}
            /\ checkoutLock'[c] = w => k.step \in UnderCheckout /\ k.sha = c
      BY <3>2, <3>3, <3>4 DEF UnderCheckout
    <3>6. mirrorLock' \in {w, mirrorLock, None} /\ mirrorLock' # w
      BY <2>1, <3>3
    <3> QED
      BY <1>t, <3>1, <3>5, <3>6, HoldsStep
  <2> QED
    BY <1>9, <2>2, <2>3 DEF LockCheckout
<1>10. ASSUME NEW w \in Workers, Clone(w) PROVE Goal
  <2> DEFINE k == [call[w] EXCEPT !.cloned = mirror.commits, !.step = "checkout"]
  <2>1. Becomes(w, k) /\ UNCHANGED locks /\ call[w].step = "clone"
    BY <1>10 DEF Clone, At, Becomes
  <2>2. k.step = "checkout" /\ k.sha = call[w].sha
    BY CallType DEF Call
  <2> HIDE DEF k
  <2> QED
    BY <1>t, <2>1, <2>2, HoldsOn DEF InMirror, UnderCheckout
<1>11. ASSUME NEW w \in Workers, CheckoutTree(w) PROVE Goal
  <2>1. CASE ReturnError({w})
    BY <1>t, <2>1, HoldsError
  <2>2. CASE call' = [call EXCEPT ![w].tree = call[w].sha, ![w].step = "rename"] /\ UNCHANGED locks
    <3> DEFINE k == [call[w] EXCEPT !.tree = call[w].sha, !.step = "rename"]
    <3>1. Becomes(w, k) /\ call[w].step = "checkout"
      BY <1>11, <2>2 DEF CheckoutTree, At, Becomes
    <3>2. k.step = "rename" /\ k.sha = call[w].sha
      BY CallType DEF Call
    <3> HIDE DEF k
    <3> QED
      BY <1>t, <2>2, <3>1, <3>2, HoldsOn DEF InMirror, UnderCheckout
  <2> QED
    BY <1>11, <2>1, <2>2 DEF CheckoutTree
<1>12. ASSUME NEW w \in Workers, Rename(w) PROVE Goal
  BY <1>t, <1>12, GotoBecomes, HoldsNothing DEF Rename
<1>13. ASSUME NEW w \in Workers, Return(w) PROVE Goal
  <2>1. Becomes(w, Idle) /\ UNCHANGED locks /\ call[w].step = "use"
    BY <1>13 DEF Return, At, Becomes
  <2> QED
    BY <1>t, <2>1, HoldsOn DEF InMirror, UnderCheckout
<1>14. ASSUME Crash PROVE Goal
  BY <1>t, <1>14, HoldsError DEF Crash
<1>15. ASSUME Push \/ Damage \/ UNCHANGED vars PROVE Goal
  <2>1. UNCHANGED <<call, mirrorLock, checkoutLock>>
    BY <1>15 DEF Push, Damage, vars, locks
  <2> QED
    BY <2>1 DEF HoldsRightly
<1> QED
  BY <1>1, <1>2, <1>3, <1>4, <1>5, <1>6, <1>7, <1>8, <1>9, <1>10, <1>11, <1>12, <1>13,
     <1>14, <1>15
     DEF Next, Advance

\* Every lock that is held is held by a call at work under it, for any number
\* of workers and commits, and whatever fails: so it is given back as soon as
\* that call has made its last command, and no call that waits holds one.
THEOREM LocksAreGivenBack == Spec => []NoLockIsLeaked
<1> DEFINE Inv == CacheInv /\ \A w \in Workers : HoldsRightly(w)
<1>1. Init => \A w \in Workers : HoldsRightly(w)
  BY RepositoryAssumption DEF Init, HoldsRightly
<1>2. Init => Inv
  BY <1>1, CacheInit
<1>3. Inv /\ [Next]_vars => Inv'
  BY CacheStep, LocksStep
<1>4. Inv => NoLockIsLeaked
  BY NoLockByWorker DEF CacheInv
<1> HIDE DEF Inv
<1> QED
  BY <1>2, <1>3, <1>4, PTL DEF Spec

\* StepsLeft, of a call by itself.
Left(k) == Remaining[k.step] + IF k.step = "idle" \/ k.recovered THEN 0 ELSE 4

Nearer(w) == ~At(w, "idle") /\ call'[w] # call[w] => StepsLeft(w)' < StepsLeft(w)

LEMMA RemainingValues ==
  /\ Remaining["lockMirror"] = 11 /\ Remaining["init"] = 10 /\ Remaining["remove"] = 9
  /\ Remaining["add"] = 8 /\ Remaining["fetch"] = 7 /\ Remaining["resolve"] = 6
  /\ Remaining["lockCheckout"] = 5 /\ Remaining["clone"] = 4 /\ Remaining["checkout"] = 3
  /\ Remaining["rename"] = 2 /\ Remaining["use"] = 1 /\ Remaining["idle"] = 0
BY DEF Remaining

LEMMA RemainingType ==
  ASSUME NEW s \in Steps
  PROVE  Remaining[s] \in Nat /\ (s # "idle" => Remaining[s] > 0)
BY RemainingValues DEF Steps

LEMMA NearerStep ==
  ASSUME TypeOK, NEW w \in Workers, NEW k, call' = [call EXCEPT ![w] = k],
         call[w].step # "idle" => Left(k) < Left(call[w])
  PROVE  \A v \in Workers : Nearer(v)
<1>1. call'[w] = k /\ \A v \in Workers \ {w} : call'[v] = call[v]
  BY DEF TypeOK
<1>2. StepsLeft(w) = Left(call[w]) /\ StepsLeft(w)' = Left(k)
  BY <1>1 DEF StepsLeft, Left, At
<1> QED
  BY <1>1, <1>2 DEF Nearer, At

LEMMA NearerError ==
  ASSUME TypeOK, NEW W, ReturnError(W)
  PROVE  \A v \in Workers : Nearer(v)
<1> SUFFICES ASSUME NEW v \in Workers, ~At(v, "idle"), call'[v] # call[v]
             PROVE  StepsLeft(v)' < StepsLeft(v)
  BY DEF Nearer
<1>1. call'[v] = Idle
  BY DEF ReturnError
<1>2. StepsLeft(v)' = 0
  <2>1. Idle.step = "idle"
    BY DEF Idle
  <2> QED
    BY <1>1, <2>1, RemainingValues DEF StepsLeft, At
<1>3. call[v].step \in Steps \ {"idle"}
  BY DEF TypeOK, Call, At
<1> QED
  BY <1>2, <1>3, RemainingType DEF StepsLeft

\* The next step of a call that may recover as before.
LEMMA NearerGoto ==
  ASSUME NEW j \in Call, NEW k, k.recovered = j.recovered,
         k.step \in Steps, j.step # "idle", k.step # "idle", Remaining[k.step] < Remaining[j.step]
  PROVE  Left(k) < Left(j)
<1>1. Remaining[k.step] \in Nat /\ Remaining[j.step] \in Nat
  BY RemainingType DEF Call
<1> QED
  BY <1>1 DEF Left

LEMMA NearerRecover ==
  ASSUME TypeOK, NEW w \in Workers, call[w].step \in InMirror, Recover(w)
  PROVE  \A v \in Workers : Nearer(v)
<1>1. CASE ReturnError({w})
  BY <1>1, NearerError
<1>2. CASE call' = [call EXCEPT ![w].step = "init", ![w].recovered = TRUE] /\ ~call[w].recovered
  <2> DEFINE k == [call[w] EXCEPT !.step = "init", !.recovered = TRUE]
  <2>1. call' = [call EXCEPT ![w] = k]
    BY <1>2
  <2>2. k.step = "init" /\ k.recovered
    BY DEF TypeOK, Call
  <2> HIDE DEF k
  <2>3. Left(k) = 10
    BY <2>2, RemainingValues DEF Left
  <2>4. Left(call[w]) > 10
    BY <1>2, RemainingValues DEF Left, InMirror
  <2> QED
    BY <2>1, <2>3, <2>4, NearerStep
<1> QED
  BY <1>1, <1>2 DEF Recover

LEMMA NearerMove ==
  ASSUME TypeOK, NEW w \in Workers, NEW s \in Steps, Goto(w, s),
         s # "idle", call[w].step # "idle", Remaining[s] < Remaining[call[w].step]
  PROVE  \A v \in Workers : Nearer(v)
<1> DEFINE k == [call[w] EXCEPT !.step = s]
<1>1. call' = [call EXCEPT ![w] = k]
  BY DEF Goto
<1>2. call[w] \in Call /\ k.step = s /\ k.recovered = call[w].recovered
  BY DEF TypeOK, Call
<1> HIDE DEF k
<1> QED
  BY <1>1, <1>2, NearerGoto, NearerStep

LEMMA CallStepsNearer == ASSUME TypeOK, [Next]_vars PROVE \A v \in Workers : Nearer(v)
<1> DEFINE Goal == \A v \in Workers : Nearer(v)
<1> SUFFICES Goal
  OBVIOUS
<1> USE RemainingValues DEF Steps
<1>1. ASSUME NEW w \in Workers, Begin(w) PROVE Goal
  <2>1. call[w].step = "idle" /\ \E k : call' = [call EXCEPT ![w] = k]
    BY <1>1 DEF Begin, At
  <2> QED
    BY <2>1, NearerStep
<1>2. ASSUME NEW w \in Workers, LockMirror(w) PROVE Goal
  BY <1>2, NearerMove DEF LockMirror, At
<1>3. ASSUME NEW w \in Workers, LockTimeout(w) \/ ResolveFails(w) \/ CloneFails(w) \/ CommandFails(w)
      PROVE  Goal
  BY <1>3, NearerError DEF LockTimeout, ResolveFails, CloneFails, CommandFails
<1>4. ASSUME NEW w \in Workers, InitMirror(w) PROVE Goal
  BY <1>4, NearerRecover, NearerMove DEF InitMirror, At, InMirror
<1>5. ASSUME NEW w \in Workers, RemoveRemote(w) \/ RemoveRemoteFails(w) PROVE Goal
  BY <1>5, NearerMove DEF RemoveRemote, RemoveRemoteFails, At
<1>6. ASSUME NEW w \in Workers, AddRemote(w) PROVE Goal
  BY <1>6, NearerRecover, NearerError, NearerMove DEF AddRemote, At, InMirror
<1>7. ASSUME NEW w \in Workers, Fetch(w) PROVE Goal
  BY <1>7, NearerRecover, NearerError, NearerMove DEF Fetch, At, InMirror
<1>8. ASSUME NEW w \in Workers, Resolve(w) PROVE Goal
  <2> DEFINE d == IF call[w].revision = Branch THEN FirstMatch ELSE call[w].revision
             s == IF checkouts[d] # None THEN "use" ELSE "lockCheckout"
             k == [call[w] EXCEPT !.sha = d, !.step = s]
  <2>1. call' = [call EXCEPT ![w] = k]
    BY <1>8 DEF Resolve
  <2>2. s \in {"use", "lockCheckout"}
    OBVIOUS
  <2> HIDE DEF d, s
  <2>3. call[w] \in Call /\ k.step = s /\ k.recovered = call[w].recovered
    BY DEF TypeOK, Call
  <2>4. call[w].step = "resolve" /\ Remaining[s] < Remaining["resolve"]
    BY <1>8, <2>2 DEF Resolve, At
  <2> HIDE DEF k
  <2>5. Left(k) < Left(call[w])
    BY <2>2, <2>3, <2>4, NearerGoto
  <2> QED
    BY <2>1, <2>5, NearerStep
<1>9. ASSUME NEW w \in Workers, LockCheckout(w) PROVE Goal
  BY <1>9, NearerMove DEF LockCheckout, At
<1>10. ASSUME NEW w \in Workers, Clone(w) PROVE Goal
  <2> DEFINE k == [call[w] EXCEPT !.cloned = mirror.commits, !.step = "checkout"]
  <2>1. call' = [call EXCEPT ![w] = k] /\ call[w].step = "clone"
    BY <1>10 DEF Clone, At
  <2>2. call[w] \in Call /\ k.step = "checkout" /\ k.recovered = call[w].recovered
    BY DEF TypeOK, Call
  <2> HIDE DEF k
  <2>3. Left(k) < Left(call[w])
    BY <2>1, <2>2, NearerGoto
  <2> QED
    BY <2>1, <2>3, NearerStep
<1>11. ASSUME NEW w \in Workers, CheckoutTree(w) PROVE Goal
  <2>1. CASE ReturnError({w})
    BY <2>1, NearerError
  <2>2. CASE call' = [call EXCEPT ![w].tree = call[w].sha, ![w].step = "rename"]
    <3> DEFINE k == [call[w] EXCEPT !.tree = call[w].sha, !.step = "rename"]
    <3>1. call' = [call EXCEPT ![w] = k] /\ call[w].step = "checkout"
      BY <1>11, <2>2 DEF CheckoutTree, At
    <3>2. call[w] \in Call /\ k.step = "rename" /\ k.recovered = call[w].recovered
      BY DEF TypeOK, Call
    <3> HIDE DEF k
    <3>3. Left(k) < Left(call[w])
      BY <3>1, <3>2, NearerGoto
    <3> QED
      BY <3>1, <3>3, NearerStep
  <2> QED
    BY <1>11, <2>1, <2>2 DEF CheckoutTree
<1>12. ASSUME NEW w \in Workers, Rename(w) PROVE Goal
  BY <1>12, NearerMove DEF Rename, At
<1>13. ASSUME NEW w \in Workers, Return(w) PROVE Goal
  <2>1. call' = [call EXCEPT ![w] = Idle] /\ call[w].step = "use" /\ Idle.step = "idle"
    BY <1>13 DEF Return, At, Idle
  <2>2. Left(Idle) = 0 /\ Left(call[w]) > 0
    BY <2>1 DEF Left
  <2> QED
    BY <2>1, <2>2, NearerStep
<1>14. ASSUME Crash PROVE Goal
  BY <1>14, NearerError DEF Crash
<1>15. ASSUME Push \/ Damage \/ UNCHANGED vars PROVE Goal
  BY <1>15 DEF Push, Damage, vars, Nearer
<1> QED
  BY <1>1, <1>2, <1>3, <1>4, <1>5, <1>6, <1>7, <1>8, <1>9, <1>10, <1>11, <1>12, <1>13,
     <1>14, <1>15
     DEF Next, Advance

\* The safety half of CallsReturn, for any number of workers: no call takes
\* more than fifteen steps, however often the mirror is found broken.
THEOREM CallsAreShort == Spec => NoCallGoesInCircles
<1>1. TypeOK /\ [Next]_vars => [\A w \in Workers : Nearer(w)]_vars
  BY CallStepsNearer
<1>2. (\A w \in Workers : Nearer(w))
        <=> \A w \in Workers :
              ~At(w, "idle") /\ call'[w] # call[w] => StepsLeft(w)' < StepsLeft(w)
  BY DEF Nearer
<1> QED
  BY <1>1, <1>2, RepositoryTypeCorrect, PTL DEF Spec, NoCallGoesInCircles

(***************************************************************************)
(* The cache implements Snapshots.                                         *)
(***************************************************************************)
\* A call knows its revision from the start, and its commit from Resolve on.
RequestOK(w) ==
  /\ call[w].revision = None <=> At(w, "idle")
  /\ call[w].sha = None <=> call[w].step \notin WithCommit

RequestInv == CacheInv /\ \A w \in Workers : RequestOK(w)

Serving == Snapshots!Next \/ UNCHANGED Snapshots!snapshots

\* What a step does to one call, seen from outside.
LEMMA OneCall ==
  ASSUME RequestInv, NEW w \in Workers, NEW c \in Call, call' = [call EXCEPT ![w] = c]
  PROVE  /\ Asks' = [Asks EXCEPT ![w] = c.revision]
         /\ Means' = [Means EXCEPT ![w] = c.sha]
         /\ Has' = [Has EXCEPT ![w] = (c.step = "use")]
         /\ c.revision = call[w].revision => Asks' = Asks
         /\ c.sha = call[w].sha => Means' = Means
         /\ (c.step = "use" <=> call[w].step = "use") => Has' = Has
         /\ RequestOK(w)' <=> /\ c.revision = None <=> c.step = "idle"
                              /\ c.sha = None <=> c.step \notin WithCommit
         /\ \A v \in Workers \ {w} : RequestOK(v)'
<1>1. call'[w] = c /\ \A v \in Workers \ {w} : call'[v] = call[v]
  BY DEF RequestInv, CacheInv, TypeOK
<1>2. /\ Asks' = [Asks EXCEPT ![w] = c.revision]
      /\ Means' = [Means EXCEPT ![w] = c.sha]
  <2>1. Asks' = [Asks EXCEPT ![w] = c.revision]
    <3>1. Asks' = [v \in Workers |-> IF v = w THEN c.revision ELSE call[v].revision]
      BY <1>1 DEF Asks
    <3> QED
      BY <3>1 DEF Asks
  <2>2. Means' = [Means EXCEPT ![w] = c.sha]
    <3>1. Means' = [v \in Workers |-> IF v = w THEN c.sha ELSE call[v].sha]
      BY <1>1 DEF Means
    <3> QED
      BY <3>1 DEF Means
  <2> QED
    BY <2>1, <2>2
<1>3. /\ c.revision = call[w].revision => Asks' = Asks
      /\ c.sha = call[w].sha => Means' = Means
  BY <1>1 DEF Asks, Means
<1>4. /\ Has' = [Has EXCEPT ![w] = (c.step = "use")]
      /\ (c.step = "use" <=> call[w].step = "use") => Has' = Has
  BY <1>1 DEF Has, At
<1>5. RequestOK(w)' <=> /\ c.revision = None <=> c.step = "idle"
                        /\ c.sha = None <=> c.step \notin WithCommit
  BY <1>1 DEF RequestOK, At
<1>6. \A v \in Workers \ {w} : RequestOK(v)'
  BY <1>1 DEF RequestInv, RequestOK, At
<1> QED
  BY <1>2, <1>3, <1>4, <1>5, <1>6

\* A command that is over, while the call goes on.
LEMMA QuietStep ==
  ASSUME RequestInv, NEW w \in Workers, NEW s \in Steps \ {"idle", "use"}, NEW c \in Call,
         call' = [call EXCEPT ![w] = c], UNCHANGED <<head, checkouts>>,
         c.step = s, c.revision = call[w].revision, c.sha = call[w].sha,
         call[w].step \notin {"idle", "use"},
         s \in WithCommit <=> call[w].step \in WithCommit
  PROVE  Serving /\ \A v \in Workers : RequestOK(v)'
<1>1. UNCHANGED <<Asks, Means>>
  BY OneCall DEF Asks, Means
<1>2. Has' = Has
  BY OneCall DEF Has, At
<1>3. UNCHANGED Kept
  BY DEF Kept
<1>4. RequestOK(w)'
  BY OneCall DEF RequestInv, RequestOK, At
<1> QED
  BY <1>1, <1>2, <1>3, <1>4, OneCall DEF Serving, Snapshots!snapshots

\* Calls that are over.
LEMMA EndStep ==
  ASSUME RequestInv, NEW W \in SUBSET Workers, UNCHANGED <<head, checkouts>>,
         call' = [v \in Workers |-> IF v \in W THEN Idle ELSE call[v]]
  PROVE  Serving /\ \A v \in Workers : RequestOK(v)'
<1>1. /\ Asks' = [v \in Workers |-> IF v \in W THEN None ELSE Asks[v]]
      /\ Means' = [v \in Workers |-> IF v \in W THEN None ELSE Means[v]]
      /\ Has' = [v \in Workers |-> IF v \in W THEN FALSE ELSE Has[v]]
  BY DEF Asks, Means, Has, At, Idle
<1>2. UNCHANGED Kept
  BY DEF Kept
<1>3. Snapshots!End(W)
  BY <1>1, <1>2 DEF Snapshots!End
<1>4. ASSUME NEW v \in Workers PROVE RequestOK(v)'
  BY <1>4 DEF RequestInv, RequestOK, At, Idle, WithCommit
<1> QED
  BY <1>3, <1>4 DEF Serving, Snapshots!Next

LEMMA ErrorStep ==
  ASSUME RequestInv, NEW W \in SUBSET Workers, UNCHANGED <<head, checkouts>>, ReturnError(W)
  PROVE  Serving /\ \A v \in Workers : RequestOK(v)'
BY EndStep DEF ReturnError

LEMMA RecoverServes ==
  ASSUME RequestInv, NEW w \in Workers, call[w].step \in InMirror, Recover(w),
         UNCHANGED <<head, checkouts>>
  PROVE  Serving /\ \A v \in Workers : RequestOK(v)'
<1>1. CASE call[w].recovered
  BY <1>1, ErrorStep DEF Recover
<1>2. CASE ~call[w].recovered
  <2> DEFINE c == [call[w] EXCEPT !.step = "init", !.recovered = TRUE]
  <2>1. /\ call' = [call EXCEPT ![w] = c]
        /\ c \in Call /\ c.step = "init" /\ c.revision = call[w].revision /\ c.sha = call[w].sha
    BY <1>2 DEF Recover, RequestInv, CacheInv, TypeOK, Call, Steps
  <2> HIDE DEF c
  <2> QED
    BY <2>1, QuietStep DEF InMirror, WithCommit, Steps
<1> QED
  BY <1>1, <1>2

\* A call goes to step s and nothing more of it changes.
LEMMA GotoServes ==
  ASSUME RequestInv, NEW w \in Workers, NEW s \in Steps \ {"idle", "use"}, Goto(w, s),
         UNCHANGED <<head, checkouts>>, call[w].step \notin {"idle", "use"},
         s \in WithCommit <=> call[w].step \in WithCommit
  PROVE  Serving /\ \A v \in Workers : RequestOK(v)'
<1> DEFINE c == [call[w] EXCEPT !.step = s]
<1>1. /\ call' = [call EXCEPT ![w] = c]
      /\ c \in Call /\ c.step = s /\ c.revision = call[w].revision /\ c.sha = call[w].sha
  BY StepOfCall DEF Goto, RequestInv, CacheInv, TypeOK
<1> HIDE DEF c
<1> QED
  BY <1>1, QuietStep

\* A call that knows its commit is given the directory.
LEMMA GiveServes ==
  ASSUME RequestInv, NEW w \in Workers, call[w].step \in WithCommit \ {"use"}, Goto(w, "use"),
         UNCHANGED head, Kept' = Kept \cup {call[w].sha}
  PROVE  Serving /\ \A v \in Workers : RequestOK(v)'
<1> DEFINE c == [call[w] EXCEPT !.step = "use"]
<1>1. /\ call' = [call EXCEPT ![w] = c]
      /\ c \in Call /\ c.step = "use" /\ c.revision = call[w].revision /\ c.sha = call[w].sha
  BY StepOfCall DEF Goto, RequestInv, CacheInv, TypeOK, Steps
<1> HIDE DEF c
<1>2. RequestOK(w) /\ Means[w] = call[w].sha /\ Means[w] # None /\ ~Has[w]
  BY DEF RequestInv, RequestOK, Means, Has, At
<1>3. Asks' = Asks /\ Means' = Means /\ Has' = [Has EXCEPT ![w] = TRUE]
  BY <1>1, OneCall
<1>4. Snapshots!Give(w)
  BY <1>2, <1>3 DEF Snapshots!Give
<1>5. RequestOK(w)'
  BY <1>1, <1>2, OneCall DEF RequestOK, At, WithCommit
<1> QED
  BY <1>1, <1>4, <1>5, OneCall DEF Serving, Snapshots!Next

LEMMA ServingStep ==
  ASSUME Namesake = None, RequestInv, [Next]_vars
  PROVE  Serving /\ \A v \in Workers : RequestOK(v)'
<1> DEFINE Served == Serving /\ \A v \in Workers : RequestOK(v)'
<1> SUFFICES Served
  OBVIOUS
<1>1. ASSUME NEW w \in Workers, Begin(w) PROVE Served
  <2>1. PICK r \in Commits \cup {Branch} :
          call' = [call EXCEPT ![w] = [Idle EXCEPT !.step = "lockMirror", !.revision = r]]
    BY <1>1 DEF Begin
  <2> DEFINE c == [Idle EXCEPT !.step = "lockMirror", !.revision = r]
  <2>2. c \in Call /\ c.step = "lockMirror" /\ c.revision = r /\ c.sha = None
    BY DEF Idle, Call, Steps
  <2>3. r # None
    BY RepositoryAssumption
  <2>4. call[w].revision = None /\ call[w].sha = None /\ ~At(w, "use")
    BY <1>1 DEF Begin, RequestInv, RequestOK, At, WithCommit
  <2>5. call' = [call EXCEPT ![w] = c]
    BY <2>1
  <2> HIDE DEF c
  <2>6. Asks' = [Asks EXCEPT ![w] = r] /\ Means' = Means /\ Has' = Has
    BY <2>2, <2>4, <2>5, OneCall DEF At
  <2>7. Asks[w] = None /\ UNCHANGED <<head, Kept>>
    BY <1>1, <2>4 DEF Begin, Asks, Kept, disk
  <2>8. Snapshots!Ask(w)
    BY <2>6, <2>7 DEF Snapshots!Ask
  <2> QED
    BY <2>2, <2>3, <2>5, <2>8, OneCall DEF Serving, Snapshots!Next, WithCommit
<1>2. ASSUME NEW w \in Workers, LockMirror(w) PROVE Served
  BY <1>2, GotoServes DEF LockMirror, At, WithCommit, Steps, disk
<1>3. ASSUME NEW w \in Workers, LockTimeout(w) \/ ResolveFails(w) \/ CloneFails(w) \/ CommandFails(w)
      PROVE  Served
  BY <1>3, ErrorStep DEF LockTimeout, ResolveFails, CloneFails, CommandFails, disk
<1>4. ASSUME NEW w \in Workers, InitMirror(w) PROVE Served
  BY <1>4, RecoverServes, GotoServes DEF InitMirror, At, InMirror, WithCommit, Steps
<1>5. ASSUME NEW w \in Workers, RemoveRemote(w) \/ RemoveRemoteFails(w) PROVE Served
  BY <1>5, GotoServes DEF RemoveRemote, RemoveRemoteFails, At, WithCommit, Steps, disk
<1>6. ASSUME NEW w \in Workers, AddRemote(w) PROVE Served
  BY <1>6, RecoverServes, ErrorStep, GotoServes DEF AddRemote, At, InMirror, WithCommit, Steps
<1>7. ASSUME NEW w \in Workers, Fetch(w) PROVE Served
  BY <1>7, RecoverServes, ErrorStep, GotoServes DEF Fetch, At, InMirror, WithCommit, Steps
\* The instant at which the branch is a commit.
<1>8. ASSUME NEW w \in Workers, Resolve(w) PROVE Served
  <2> DEFINE d == IF call[w].revision = Branch THEN head ELSE call[w].revision
             s == IF checkouts[d] # None THEN "use" ELSE "lockCheckout"
             c == [call[w] EXCEPT !.sha = d, !.step = s]
  <2>1. d \in Commits
    BY <1>8 DEF Resolve, Resolvable, RequestInv, CacheInv, TypeOK, Mirror
  <2>2. call' = [call EXCEPT ![w] = c] /\ UNCHANGED <<head, checkouts>>
    BY <1>8 DEF Resolve, FirstMatch, RequestInv, CacheInv, TypeOK, disk
  <2>3. c \in Call /\ c.step = s /\ c.sha = d /\ c.revision = call[w].revision
    <3>1. s \in Steps /\ call[w] \in Call
      BY CallType DEF Steps, RequestInv
    <3> HIDE DEF s, d
    <3> QED
      BY <2>1, <3>1, ResolvedCall
  <2>4. s \in WithCommit \ {"idle"} /\ (s = "use" => d \in Kept)
    <3>1. checkouts[d] # None => checkouts[d] = d
      BY <2>1 DEF RequestInv, CacheInv, CheckoutsOK
    <3> QED
      BY <2>1, <3>1 DEF WithCommit, Kept
  <2>5. d # None /\ call[w].revision # None /\ call[w].sha = None
    BY <1>8, <2>1, RepositoryAssumption DEF Resolve, RequestInv, RequestOK, At, WithCommit
  <2>6. Snapshots!Meant(Asks[w]) = d /\ Asks[w] # None /\ Means[w] = None /\ ~Has[w]
    BY <1>8, <2>5 DEF Resolve, Asks, Means, Has, At, Snapshots!Meant
  <2> HIDE DEF c, d, s
  <2>7. /\ Asks' = Asks /\ Means' = [Means EXCEPT ![w] = d]
        /\ Has' = [Has EXCEPT ![w] = (s = "use")]
    BY <2>2, <2>3, OneCall
  <2>8. s # "use" => Has' = Has
    BY <1>8, <2>2, <2>3, OneCall DEF Resolve, At
  <2>9. UNCHANGED Kept
    BY <2>2 DEF Kept
  <2>10. Snapshots!MakeOut(w)
    BY <2>2, <2>4, <2>6, <2>7, <2>8, <2>9 DEF Snapshots!MakeOut
  <2> QED
    BY <2>2, <2>3, <2>4, <2>5, <2>10, OneCall DEF Serving, Snapshots!Next
<1>9. ASSUME NEW w \in Workers, LockCheckout(w) PROVE Served
  <2>1. CASE checkouts[call[w].sha] # None
    <3>1. call[w].sha \in Kept /\ UNCHANGED Kept
      BY <1>9, <2>1 DEF LockCheckout, RequestInv, CacheInv, CallOK, CheckoutsOK, At, WithCommit, Kept, disk
    <3> QED
      BY <1>9, <2>1, <3>1, GiveServes DEF LockCheckout, At, WithCommit
  <2>2. CASE checkouts[call[w].sha] = None
    BY <1>9, <2>2, GotoServes DEF LockCheckout, At, WithCommit, Steps, disk
  <2> QED
    BY <2>1, <2>2
<1>10. ASSUME NEW w \in Workers, Clone(w) PROVE Served
  <2> DEFINE c == [call[w] EXCEPT !.cloned = mirror.commits, !.step = "checkout"]
  <2>1. call[w] \in Call /\ mirror.commits \in SUBSET Commits
    BY DEF RequestInv, CacheInv, TypeOK, Mirror
  <2>2. /\ c \in Call /\ c.step = "checkout"
        /\ c.sha = call[w].sha /\ c.revision = call[w].revision
    BY <2>1, ClonedCall
  <2>3. /\ call' = [call EXCEPT ![w] = c]
        /\ call[w].step = "clone" /\ UNCHANGED <<head, checkouts>>
    BY <1>10 DEF Clone, At, disk
  <2> HIDE DEF c
  <2> QED
    BY <2>2, <2>3, QuietStep DEF WithCommit, Steps
<1>11. ASSUME NEW w \in Workers, CheckoutTree(w) PROVE Served
  <2>1. CASE call[w].sha \notin call[w].cloned
    BY <1>11, <2>1, ErrorStep DEF CheckoutTree, disk
  <2>2. CASE call[w].sha \in call[w].cloned
    <3> DEFINE c == [call[w] EXCEPT !.tree = call[w].sha, !.step = "rename"]
    <3>1. call[w].sha \in Commits
      BY <1>11 DEF CheckoutTree, RequestInv, CacheInv, CallOK, At, WithCommit
    <3>2. call[w] \in Call /\ call' = [call EXCEPT ![w] = c]
      BY <1>11, <2>2 DEF CheckoutTree, RequestInv, CacheInv, TypeOK
    <3>3. /\ c \in Call /\ c.step = "rename"
          /\ c.sha = call[w].sha /\ c.revision = call[w].revision
      BY <3>1, <3>2, TreeOfCall
    <3>4. call[w].step = "checkout" /\ UNCHANGED <<head, checkouts>>
      BY <1>11, <2>2 DEF CheckoutTree, At, disk
    <3> HIDE DEF c
    <3> QED
      BY <3>2, <3>3, <3>4, QuietStep DEF WithCommit, Steps
  <2> QED
    BY <2>1, <2>2
\* The directory appears as a whole, and takes nobody's place.
<1>12. ASSUME NEW w \in Workers, Rename(w) PROVE Served
  <2>1. call[w].sha \in Commits /\ call[w].tree = call[w].sha
    BY <1>12 DEF Rename, RequestInv, CacheInv, CallOK, At, WithCommit
  <2>2. Kept' = Kept \cup {call[w].sha}
    BY <1>12, <2>1, RepositoryAssumption DEF Rename, Kept, RequestInv, CacheInv, TypeOK, CheckoutsOK
  <2> QED
    BY <1>12, <2>2, GiveServes DEF Rename, At, WithCommit
<1>13. ASSUME NEW w \in Workers, Return(w) PROVE Served
  <2>1. call' = [v \in Workers |-> IF v \in {w} THEN Idle ELSE call[v]]
    BY <1>13 DEF Return, RequestInv, CacheInv, TypeOK
  <2> QED
    BY <1>13, <2>1, EndStep DEF Return, disk
<1>14. ASSUME Crash PROVE Served
  BY <1>14, ErrorStep DEF Crash, disk
<1>15. ASSUME UNCHANGED <<call, checkouts>> PROVE \A v \in Workers : RequestOK(v)'
  BY <1>15 DEF RequestInv, RequestOK, At
<1>16. ASSUME UNCHANGED <<call, checkouts>> PROVE UNCHANGED <<Kept, Asks, Means, Has>>
  BY <1>16 DEF Kept, Asks, Means, Has, At
<1>17. ASSUME Push PROVE Served
  BY <1>15, <1>16, <1>17 DEF Push, disk, Serving, Snapshots!Next, Snapshots!Push
<1>18. ASSUME Damage \/ UNCHANGED vars PROVE Served
  BY <1>15, <1>16, <1>18 DEF Damage, vars, Serving, Snapshots!snapshots
<1> QED
  BY <1>1, <1>2, <1>3, <1>4, <1>5, <1>6, <1>7, <1>8, <1>9, <1>10, <1>11, <1>12, <1>13,
     <1>14, <1>17, <1>18
     DEF Next, Advance

LEMMA ServingInit == Init => Snapshots!Init /\ \A w \in Workers : RequestOK(w)
<1> SUFFICES ASSUME Init PROVE Snapshots!Init /\ \A w \in Workers : RequestOK(w)
  OBVIOUS
<1>1. Kept = {}
  BY RepositoryAssumption DEF Init, Kept
<1>2. /\ Asks = [w \in Workers |-> None] /\ Means = [w \in Workers |-> None]
      /\ Has = [w \in Workers |-> FALSE]
  BY DEF Init, Asks, Means, Has, At, Idle
<1> QED
  BY <1>1, <1>2 DEF Init, Snapshots!Init, RequestOK, At, Idle, WithCommit

\* Where no other branch has its name after a slash, the cache gives every
\* call the whole tree of the commit it named or of the one the branch was
\* at, and keeps what it has given: for any number of workers, commits,
\* pushes, crashes, failed commands and damages.
THEOREM CacheServesSnapshots == ASSUME Namesake = None PROVE Spec => ServesSnapshots
<1>1. Init => Snapshots!Init /\ RequestInv
  BY CacheInit, ServingInit DEF RequestInv
<1>2. RequestInv /\ [Next]_vars => RequestInv' /\ [Snapshots!Next]_(Snapshots!snapshots)
  BY CacheStep, ServingStep DEF RequestInv, Serving
<1> QED
  BY <1>1, <1>2, PTL DEF Spec, ServesSnapshots, Snapshots!Spec

\* There, too, a branch resolves to its own head: seen from outside, the only
\* step after which a call knows its commit is MakeOut.
THEOREM BranchIsResolved == ASSUME Namesake = None PROVE Spec => RequestedIsResolved
<1>1. ASSUME RequestInv, [Next]_vars, NEW w \in Workers,
             At(w, "resolve"), call[w].revision = Branch, call'[w].sha # None
      PROVE  call'[w].sha = head
  <2>1. Asks[w] = Branch /\ Means[w] = None /\ Means'[w] = call'[w].sha
    BY <1>1 DEF Asks, Means, RequestInv, RequestOK, At, WithCommit
  <2>2. Serving
    BY <1>1, ServingStep
  <2>3. ASSUME NEW v \in Workers, Snapshots!MakeOut(v) PROVE call'[w].sha = head
    <3>1. Means' = [Means EXCEPT ![v] = Snapshots!Meant(Asks[v])]
      BY <2>3 DEF Snapshots!MakeOut
    <3>2. Means'[w] = IF w = v THEN Snapshots!Meant(Asks[v]) ELSE Means[w]
      BY <3>1 DEF Means
    <3> QED
      BY <1>1, <2>1, <3>2 DEF Snapshots!Meant
  <2>4. ASSUME NEW W, Snapshots!End(W) PROVE FALSE
    <3>1. Means'[w] = IF w \in W THEN None ELSE Means[w]
      BY <2>4 DEF Snapshots!End
    <3> QED
      BY <1>1, <2>1, <3>1
  <2>5. ASSUME UNCHANGED Means PROVE FALSE
    BY <1>1, <2>1, <2>5
  <2> QED
    BY <2>2, <2>3, <2>4, <2>5
       DEF Serving, Snapshots!Next, Snapshots!Ask, Snapshots!Give, Snapshots!Push, Snapshots!snapshots
<1>2. Init => RequestInv
  BY CacheInit, ServingInit DEF RequestInv
<1>3. RequestInv /\ [Next]_vars => RequestInv'
  BY CacheStep, ServingStep DEF RequestInv
<1>4. RequestInv /\ [Next]_vars =>
        [\A w \in Workers :
           At(w, "resolve") /\ call[w].revision = Branch /\ call'[w].sha # None
             => call'[w].sha = head]_vars
  BY <1>1
<1> QED
  BY <1>2, <1>3, <1>4, PTL DEF Spec, RequestedIsResolved
=============================================================================
