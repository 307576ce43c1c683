----------------------------- MODULE Repository -----------------------------
(***************************************************************************)
(* The git cache: Repository.Checkout, called by the workers of the        *)
(* operator for applications that share one repository URL and so one      *)
(* mirror and one directory of checkouts.                                  *)
(*                                                                         *)
(* A step is one git command, or the taking of one lock, with the local    *)
(* work around it.  Simplifications:                                       *)
(*  - A revision is the tracked branch or a full commit id.                *)
(*  - A command has its whole effect or none: a crash that leaves git's    *)
(*    own lock files behind is not here.                                   *)
(*  - Temporary directories belong to one call (MkdirTemp); those a crash  *)
(*    leaves behind are never looked at again, and are left out.           *)
(***************************************************************************)
EXTENDS Integers

CONSTANTS
  Workers,
  Commits,
  History,   \* History[c]: what a fetch brings when the branch is at c
  Branch,    \* the tracked branch, as a revision
  Namesake,  \* the commit of a branch that sorts before it and has its name
             \* after a slash (feature/main before main), or None
  MaxPushes, \* bound: pushes to the branch
  MaxFaults, \* bound: failed commands, crashes, and damage to the cache
  Partial,   \* a checkout that is not complete
  None       \* no such thing

ASSUME RepositoryAssumption ==
  /\ History \in [Commits -> SUBSET Commits]
  /\ \A c \in Commits : c \in History[c]
  /\ Namesake \in Commits \cup {None}
  /\ Branch \notin Commits /\ Partial \notin Commits
  /\ None \notin Commits \cup Workers \cup {Branch, Partial}
  /\ MaxPushes \in Nat /\ MaxFaults \in Nat

VARIABLES
  head,         \* the commit the branch is at, in the remote repository
  mirror,       \* the bare repository mirrors/<hash>.git
  mirrorLock,   \* who holds its lock file
  checkouts,    \* checkouts[c]: the tree found in checkouts/<hash>/<c>
  checkoutLock, \* checkoutLock[c]: who holds the lock file of that directory
  call,         \* call[w]: the call of Checkout that w is in
  spent         \* how much of each bound is used up

vars == <<head, mirror, mirrorLock, checkouts, checkoutLock, call, spent>>

\* A worker in "use" has its checkout and renders from it.
Steps == {"idle", "lockMirror", "init", "remove", "add", "fetch", "resolve",
          "lockCheckout", "clone", "checkout", "rename", "use"}

\* exists: the HEAD file is there; origin: the remote is configured;
\* commits: the objects it has.
Mirror == [exists : BOOLEAN, corrupt : BOOLEAN, origin : BOOLEAN,
           commits : SUBSET Commits]

NoMirror == [exists |-> FALSE, corrupt |-> FALSE, origin |-> FALSE, commits |-> {}]

\* cloned: the objects of the temporary clone; tree: what it has checked out.
Call == [step : Steps, revision : Commits \cup {Branch, None},
         sha : Commits \cup {None}, cloned : SUBSET Commits,
         tree : Commits \cup {None}, recovered : BOOLEAN]

Idle == [step |-> "idle", revision |-> None, sha |-> None, cloned |-> {},
         tree |-> None, recovered |-> FALSE]

TypeOK ==
  /\ head \in Commits
  /\ mirror \in Mirror
  /\ mirrorLock \in Workers \cup {None}
  /\ checkouts \in [Commits -> Commits \cup {Partial, None}]
  /\ checkoutLock \in [Commits -> Workers \cup {None}]
  /\ call \in [Workers -> Call]
  /\ spent \in [pushes : 0..MaxPushes, faults : 0..MaxFaults]

Init ==
  /\ head \in Commits
  /\ mirror = NoMirror
  /\ mirrorLock = None
  /\ checkouts = [c \in Commits |-> None]
  /\ checkoutLock = [c \in Commits |-> None]
  /\ call = [w \in Workers |-> Idle]
  /\ spent = [pushes |-> 0, faults |-> 0]

CountPush  == spent.pushes < MaxPushes /\ spent' = [spent EXCEPT !.pushes = @ + 1]
CountFault == spent.faults < MaxFaults /\ spent' = [spent EXCEPT !.faults = @ + 1]

At(w, step) == call[w].step = step
Goto(w, step) == call' = [call EXCEPT ![w].step = step]

disk == <<mirror, checkouts>>
locks == <<mirrorLock, checkoutLock>>

\* The deferred unlock of withLock, also run by the kernel on a crash.
Unlock(W) ==
  /\ mirrorLock' = IF mirrorLock \in W THEN None ELSE mirrorLock
  /\ checkoutLock' =
       [c \in Commits |-> IF checkoutLock[c] \in W THEN None ELSE checkoutLock[c]]

\* The calls of W end without a checkout; what is temporary goes.
ReturnError(W) ==
  /\ Unlock(W)
  /\ call' = [w \in Workers |-> IF w \in W THEN Idle ELSE call[w]]

-----------------------------------------------------------------------------
(***************************************************************************)
(* Checkout, command by command.                                           *)
(***************************************************************************)
Begin(w) ==
  /\ At(w, "idle")
  /\ \E r \in Commits \cup {Branch} :
       call' = [call EXCEPT ![w] = [Idle EXCEPT !.step = "lockMirror", !.revision = r]]
  /\ UNCHANGED <<head, disk, locks, spent>>

\* Mutant of LockMirror: nobody looks who holds the lock.
LockMirrorAnyway(w) ==
  /\ At(w, "lockMirror")
  /\ mirrorLock' = w
  /\ Goto(w, "init")
  /\ UNCHANGED <<head, disk, checkoutLock, spent>>

LockMirror(w) ==
  /\ At(w, "lockMirror")
  /\ mirrorLock = None
  /\ mirrorLock' = w
  /\ Goto(w, "init")
  /\ UNCHANGED <<head, disk, checkoutLock, spent>>

\* Mutant of LockTimeout: the deadline is set anew with every attempt.
LockTimeoutRenewed(w) ==
  /\ \/ At(w, "lockMirror") /\ mirrorLock # None
     \/ At(w, "lockCheckout") /\ checkoutLock[call[w].sha] # None
  /\ UNCHANGED vars

\* The lock is still held when the 30 seconds of withLock are over.
LockTimeout(w) ==
  /\ \/ At(w, "lockMirror") /\ mirrorLock # None
     \/ At(w, "lockCheckout") /\ checkoutLock[call[w].sha] # None
  /\ ReturnError({w})
  /\ UNCHANGED <<head, disk, spent>>

\* Mutant of Recover: the broken mirror stays where it is.
RecoverInPlace(w) ==
  IF call[w].recovered
  THEN ReturnError({w}) /\ UNCHANGED mirror
  ELSE /\ call' = [call EXCEPT ![w].step = "init", ![w].recovered = TRUE]
       /\ UNCHANGED <<mirror, locks>>

\* Mutant of Recover: it is not noted that there was a recovery.
RecoverUnnoted(w) ==
  IF call[w].recovered
  THEN ReturnError({w}) /\ UNCHANGED mirror
  ELSE mirror' = NoMirror /\ Goto(w, "init") /\ UNCHANGED locks

\* A command complains about the config: start over with no mirror, once.
Recover(w) ==
  IF call[w].recovered
  THEN ReturnError({w}) /\ UNCHANGED mirror
  ELSE /\ mirror' = NoMirror
       /\ call' = [call EXCEPT ![w].step = "init", ![w].recovered = TRUE]
       /\ UNCHANGED locks

InitMirror(w) ==
  /\ At(w, "init")
  /\ IF ~mirror.exists /\ mirror.corrupt
     THEN Recover(w)
     ELSE /\ mirror' = [mirror EXCEPT !.exists = TRUE]
          /\ Goto(w, "remove")
          /\ UNCHANGED locks
  /\ UNCHANGED <<head, checkouts, spent>>

\* The error of "remote remove" is not looked at.
RemoveRemote(w) ==
  /\ At(w, "remove")
  /\ mirror' = [mirror EXCEPT !.origin = @ /\ (mirror.corrupt \/ ~mirror.exists)]
  /\ Goto(w, "add")
  /\ UNCHANGED <<head, checkouts, locks, spent>>

RemoveRemoteFails(w) ==
  /\ At(w, "remove")
  /\ CountFault
  /\ Goto(w, "add")
  /\ UNCHANGED <<head, disk, locks>>

\* "already exists" is as good as added.
AddRemote(w) ==
  /\ At(w, "add")
  /\ \/ mirror.corrupt /\ Recover(w)
     \/ /\ ~mirror.corrupt /\ ~mirror.exists
        /\ ReturnError({w}) /\ UNCHANGED mirror
     \/ /\ ~mirror.corrupt /\ mirror.exists
        /\ mirror' = [mirror EXCEPT !.origin = TRUE]
        /\ Goto(w, "fetch")
        /\ UNCHANGED locks
  /\ UNCHANGED <<head, checkouts, spent>>

\* All branches are fetched.
Fetched == History[head] \cup IF Namesake = None THEN {} ELSE History[Namesake]

\* The fetch; with it ensureMirror returns and the lock is released.
Fetch(w) ==
  /\ At(w, "fetch")
  /\ \/ mirror.corrupt /\ Recover(w)
     \/ /\ ~mirror.corrupt /\ ~(mirror.exists /\ mirror.origin)
        /\ ReturnError({w}) /\ UNCHANGED mirror
     \/ /\ ~mirror.corrupt /\ mirror.exists /\ mirror.origin
        /\ mirror' = [mirror EXCEPT !.commits = @ \cup Fetched]
        /\ Goto(w, "resolve")
        /\ Unlock({w})
  /\ UNCHANGED <<head, checkouts, spent>>

\* resolveRevision, with no lock: a commit must be in the mirror, the branch
\* is asked of the remote repository once more, through the mirror's config.
\* ls-remote lists every ref that ends in the name; the first one is taken.
FirstMatch == IF Namesake = None THEN head ELSE Namesake

Resolvable(w) ==
  /\ mirror.exists /\ ~mirror.corrupt
  /\ IF call[w].revision = Branch THEN mirror.origin ELSE call[w].revision \in mirror.commits

\* Mutant of Resolve: the revision is used as it is.
ResolveNothing(w) ==
  /\ At(w, "resolve")
  /\ Resolvable(w)
  /\ call' = [call EXCEPT ![w].sha = call[w].revision, ![w].step = "lockCheckout"]
  /\ UNCHANGED <<head, disk, locks, spent>>

\* Mutant of Resolve: a commit that is asked for is taken for the branch.
ResolveBranchAlways(w) ==
  /\ At(w, "resolve")
  /\ Resolvable(w)
  /\ call' = [call EXCEPT ![w].sha = FirstMatch,
                          ![w].step = IF checkouts[FirstMatch] # None THEN "use" ELSE "lockCheckout"]
  /\ UNCHANGED <<head, disk, locks, spent>>

Resolve(w) ==
  /\ At(w, "resolve")
  /\ Resolvable(w)
  /\ LET c == IF call[w].revision = Branch THEN FirstMatch ELSE call[w].revision
     IN call' = [call EXCEPT ![w].sha = c,
                             ![w].step = IF checkouts[c] # None THEN "use" ELSE "lockCheckout"]
  /\ UNCHANGED <<head, disk, locks, spent>>

ResolveFails(w) ==
  /\ At(w, "resolve")
  /\ ~Resolvable(w)
  /\ ReturnError({w})
  /\ UNCHANGED <<head, disk, spent>>

\* Mutant of LockCheckout: the way out with the checkout of another call
\* does not pass the unlock.
LockCheckoutKeptAnyway(w) ==
  LET c == call[w].sha
  IN /\ At(w, "lockCheckout")
     /\ checkoutLock[c] = None
     /\ Goto(w, IF checkouts[c] # None THEN "use" ELSE "clone")
     /\ checkoutLock' = [checkoutLock EXCEPT ![c] = w]
     /\ UNCHANGED <<head, disk, mirrorLock, spent>>

\* Somebody may have made the checkout while this call waited.
LockCheckout(w) ==
  LET c == call[w].sha
  IN /\ At(w, "lockCheckout")
     /\ checkoutLock[c] = None
     /\ IF checkouts[c] # None
        THEN Goto(w, "use") /\ UNCHANGED checkoutLock
        ELSE Goto(w, "clone") /\ checkoutLock' = [checkoutLock EXCEPT ![c] = w]
     /\ UNCHANGED <<head, disk, mirrorLock, spent>>

\* Mutant of Clone: it goes to the final directory at once.
CloneInPlace(w) ==
  /\ At(w, "clone")
  /\ mirror.exists /\ ~mirror.corrupt
  /\ call' = [call EXCEPT ![w].cloned = mirror.commits, ![w].step = "checkout"]
  /\ checkouts' = [checkouts EXCEPT ![call[w].sha] = Partial]
  /\ UNCHANGED <<head, mirror, locks, spent>>

\* Into a temporary directory, and without the lock of the mirror.
Clone(w) ==
  /\ At(w, "clone")
  /\ mirror.exists /\ ~mirror.corrupt
  /\ call' = [call EXCEPT ![w].cloned = mirror.commits, ![w].step = "checkout"]
  /\ UNCHANGED <<head, disk, locks, spent>>

CloneFails(w) ==
  /\ At(w, "clone")
  /\ ~mirror.exists \/ mirror.corrupt
  /\ ReturnError({w})
  /\ UNCHANGED <<head, disk, spent>>

\* The clone may lack the commit, when the branch moved after the fetch.
CheckoutTree(w) ==
  /\ At(w, "checkout")
  /\ IF call[w].sha \in call[w].cloned
     THEN /\ call' = [call EXCEPT ![w].tree = call[w].sha, ![w].step = "rename"]
          /\ UNCHANGED locks
     ELSE ReturnError({w})
  /\ UNCHANGED <<head, disk, spent>>

\* The temporary directory becomes the checkout, unless there is one.
Rename(w) ==
  LET c == call[w].sha
  IN /\ At(w, "rename")
     /\ checkouts' = [checkouts EXCEPT ![c] = IF @ = None THEN call[w].tree ELSE @]
     /\ Goto(w, "use")
     /\ Unlock({w})
     /\ UNCHANGED <<head, mirror, spent>>

\* Rendering is over.
Return(w) ==
  /\ At(w, "use")
  /\ call' = [call EXCEPT ![w] = Idle]
  /\ UNCHANGED <<head, disk, locks, spent>>

\* A command fails, or its context is cancelled.
CommandFails(w) ==
  /\ call[w].step \in {"init", "add", "fetch", "resolve", "clone", "checkout", "rename"}
  /\ CountFault
  /\ ReturnError({w})
  /\ UNCHANGED <<head, disk>>

-----------------------------------------------------------------------------
(***************************************************************************)
(* Everybody else.                                                         *)
(***************************************************************************)
\* The operator is killed; the cache outlives it on its volume.
Crash ==
  /\ \E w \in Workers : ~At(w, "idle")
  /\ CountFault
  /\ ReturnError(Workers)
  /\ UNCHANGED <<head, disk>>

Push ==
  /\ CountPush
  /\ head' \in Commits \ {head}
  /\ UNCHANGED <<disk, locks, call>>

\* The config of the mirror is garbled, its HEAD is lost, or both.
Damage ==
  /\ mirror.exists
  /\ CountFault
  /\ mirror' \in {[mirror EXCEPT !.corrupt = TRUE], [mirror EXCEPT !.exists = FALSE],
                  [mirror EXCEPT !.corrupt = TRUE, !.exists = FALSE]}
  /\ UNCHANGED <<head, checkouts, locks, call>>

-----------------------------------------------------------------------------
\* What a call does when nothing goes wrong that is not in the cache.
Advance(w) ==
  \/ LockMirror(w) \/ LockTimeout(w) \/ InitMirror(w) \/ RemoveRemote(w)
  \/ AddRemote(w) \/ Fetch(w) \/ Resolve(w) \/ ResolveFails(w)
  \/ LockCheckout(w) \/ Clone(w) \/ CloneFails(w) \/ CheckoutTree(w)
  \/ Rename(w) \/ Return(w)

Next ==
  \/ \E w \in Workers : Begin(w) \/ Advance(w) \/ RemoveRemoteFails(w) \/ CommandFails(w)
  \/ Crash \/ Push \/ Damage

Spec == Init /\ [][Next]_vars

\* A call does not stop in the middle: every command ends, and withLock
\* gives up after 30 seconds.
FairSpec == Spec /\ \A w \in Workers : WF_vars(Advance(w))

(***************************************************************************)
(* What the cache promises.                                                *)
(***************************************************************************)
\* The directory a worker renders from holds the whole tree of the commit
\* it was told, whatever other workers and earlier crashed processes were
\* in the middle of: a directory is there only when it is complete.
HandedOutIsComplete ==
  \A w \in Workers : At(w, "use") => checkouts[call[w].sha] = call[w].sha

\* A fetch finds the remote it was told to configure: no other worker takes
\* it away meanwhile, and the errors of remote remove and remote add that
\* are let pass ("already exists") do not leave the mirror without it.
FetchHasOrigin ==
  \A w \in Workers :
    At(w, "fetch") /\ mirror.exists /\ ~mirror.corrupt => mirror.origin

\* Every lock that is taken is taken by a call that is at work under it: no
\* way out of withLock, after an error, a recovery, a crash or with the
\* checkout of another call, leaves a lock behind, and no call holds one
\* lock while it waits for another.
NoLockIsLeaked ==
  /\ mirrorLock # None => call[mirrorLock].step \in {"init", "remove", "add", "fetch"}
  /\ \A c \in Commits : checkoutLock[c] # None =>
       /\ call[checkoutLock[c]].step \in {"clone", "checkout", "rename"}
       /\ call[checkoutLock[c]].sha = c

\* How many steps a call may still take: four more while it may recover.
Remaining ==
  [lockMirror |-> 11, init |-> 10, remove |-> 9, add |-> 8, fetch |-> 7, resolve |-> 6,
   lockCheckout |-> 5, clone |-> 4, checkout |-> 3, rename |-> 2, use |-> 1, idle |-> 0]

StepsLeft(w) == Remaining[call[w].step] + IF At(w, "idle") \/ call[w].recovered THEN 0 ELSE 4

\* Whatever a call meets, a mirror that others damage over and over included,
\* each of its steps takes it nearer to its return: at most fifteen commands
\* and locks, and one recovery, between Begin and the end.
NoCallGoesInCircles ==
  [][\A w \in Workers :
       ~At(w, "idle") /\ call'[w] # call[w] => StepsLeft(w)' < StepsLeft(w)]_vars

\* README.md:38: the requested repository revision is checked out.
RequestedIsResolved ==
  [][\A w \in Workers :
       At(w, "resolve") /\ call[w].revision = Branch /\ call'[w].sha # None
         => call'[w].sha = head]_vars

\* The cache as module Snapshots sees it: a directory counts when it holds
\* the tree of the commit it is named after, a call has made out its commit
\* when it has resolved it, and has been given it when Checkout returns.
Kept  == {c \in Commits : checkouts[c] = c}
Asks  == [w \in Workers |-> call[w].revision]
Means == [w \in Workers |-> call[w].sha]
Has   == [w \in Workers |-> At(w, "use")]

Snapshots == INSTANCE Snapshots WITH kept <- Kept, asks <- Asks, means <- Means, has <- Has

\* README.md:38 once more, as a promise of the whole cache: every call gets
\* the tree of one commit, which is the one it named or the one the branch
\* was at during the call, and keeps it; whatever workers, crashes, failed
\* commands and damages do to the mirror meanwhile.
ServesSnapshots == Snapshots!Spec

\* Every call returns: nobody waits for a lock or starts over for ever.
CallsReturn ==
  \A w \in Workers : ~At(w, "idle") ~> At(w, "idle")

\* TestCheckoutRebuildsCorruptedMirror, from every state of the cache that
\* failed commands, damage and crashes can leave: a worker that asks for the
\* branch again and again, with nobody else about, gets it in the end.
HealsAlone ==
  \A w \in Workers :
    /\ <>[](\A v \in Workers \ {w} : At(v, "idle"))
    /\ <>[](call[w].revision \in {Branch, None})
    /\ []<>~At(w, "idle")
    => []<>At(w, "use")
=============================================================================
