----------------------------- MODULE Snapshots -----------------------------
(***************************************************************************)
(* What the git cache promises to the callers of Checkout, with nothing    *)
(* said of mirrors, locks, commands or their failures.  A caller asks for  *)
(* the branch or for a commit.  What it asks for is made out in one        *)
(* instant between its call and its return: the branch is the commit the   *)
(* branch is at then.  It is given the snapshot of that commit, or nothing *)
(* at all.  Snapshots are kept: one that has been given is never changed   *)
(* or taken away, from this caller or from another.                        *)
(*                                                                         *)
(* Repository implements this where no other branch has the same name      *)
(* after a slash.                                                          *)
(***************************************************************************)
CONSTANTS
  Workers, \* callers
  Commits,
  Branch,  \* the tracked branch, as something to ask for
  None     \* no such thing

VARIABLES
  head,  \* the commit the branch is at
  kept,  \* commits of which there is a snapshot
  asks,  \* asks[w]: what w asks for
  means, \* means[w]: the commit that is, once it is made out
  has    \* has[w]: w has been given its snapshot

snapshots == <<head, kept, asks, means, has>>

Init ==
  /\ head \in Commits
  /\ kept = {}
  /\ asks = [w \in Workers |-> None]
  /\ means = [w \in Workers |-> None]
  /\ has = [w \in Workers |-> FALSE]

Ask(w) ==
  /\ asks[w] = None
  /\ \E r \in Commits \cup {Branch} : asks' = [asks EXCEPT ![w] = r]
  /\ UNCHANGED <<head, kept, means, has>>

Meant(r) == IF r = Branch THEN head ELSE r

\* A snapshot that is kept may be given at once.
MakeOut(w) ==
  /\ asks[w] # None /\ means[w] = None
  /\ means' = [means EXCEPT ![w] = Meant(asks[w])]
  /\ \/ UNCHANGED has
     \/ Meant(asks[w]) \in kept /\ has' = [has EXCEPT ![w] = TRUE]
  /\ UNCHANGED <<head, kept, asks>>

Give(w) ==
  /\ means[w] # None /\ ~has[w]
  /\ kept' = kept \cup {means[w]}
  /\ has' = [has EXCEPT ![w] = TRUE]
  /\ UNCHANGED <<head, asks, means>>

\* Calls end, with their snapshots or without; several at once in a crash.
End(W) ==
  /\ asks' = [w \in Workers |-> IF w \in W THEN None ELSE asks[w]]
  /\ means' = [w \in Workers |-> IF w \in W THEN None ELSE means[w]]
  /\ has' = [w \in Workers |-> IF w \in W THEN FALSE ELSE has[w]]
  /\ UNCHANGED <<head, kept>>

Push ==
  /\ head' \in Commits
  /\ UNCHANGED <<kept, asks, means, has>>

Next ==
  \/ \E w \in Workers : Ask(w) \/ MakeOut(w) \/ Give(w)
  \/ \E W \in SUBSET Workers : End(W)
  \/ Push

Spec == Init /\ [][Next]_snapshots
=============================================================================
