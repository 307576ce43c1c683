------------------------------- MODULE Ledger -------------------------------
(***************************************************************************)
(* What Cabure promises about the objects of a cluster, with nothing said  *)
(* of how: no annotations, no API versions, no queue, no status patches.   *)
(* Every application holds objects and has a record of what it holds.  A   *)
(* pass over an application starts from its record, aims at a set of       *)
(* objects, takes each of them, and releases objects it does not aim at.   *)
(* It may be given up at any time with the record as it was.  It may put   *)
(* its aim on record only when the aim is what it holds of the two.        *)
(*                                                                         *)
(* GitApplicationController implements this for applications that prune.   *)
(***************************************************************************)
CONSTANTS
  Apps,    \* applications
  Objects, \* objects of the cluster
  None     \* no such thing, and no set of objects

VARIABLES
  held,     \* held[a]: the objects a holds
  recorded, \* recorded[a]: the objects a has on record
  basis,    \* basis[a]: the record the pass over a started from
  aim       \* aim[a]: the objects the pass over a wants, once it knows

ledger == <<held, recorded, basis, aim>>

Init ==
  /\ held = [a \in Apps |-> {}]
  /\ recorded = [a \in Apps |-> {}]
  /\ basis = [a \in Apps |-> None]
  /\ aim = [a \in Apps |-> None]

Start(a) ==
  /\ basis[a] = None
  /\ basis' = [basis EXCEPT ![a] = recorded[a]]
  /\ UNCHANGED <<held, recorded, aim>>

Choose(a) ==
  /\ basis[a] # None /\ aim[a] = None
  /\ \E S \in SUBSET Objects : aim' = [aim EXCEPT ![a] = S]
  /\ UNCHANGED <<held, recorded, basis>>

\* The pass ends here, or it goes on.
Ends(a) == basis' = [basis EXCEPT ![a] = None] /\ aim' = [aim EXCEPT ![a] = None]
GoesOn  == UNCHANGED <<basis, aim>>

\* An object has one holder: what a takes is taken from everybody else.
Take(a, o) ==
  /\ aim[a] # None /\ o \in aim[a]
  /\ held' = [b \in Apps |-> IF b = a THEN held[b] \cup {o} ELSE held[b] \ {o}]
  /\ Ends(a) \/ GoesOn
  /\ UNCHANGED recorded

Release(a, o) ==
  /\ aim[a] # None /\ o \in (basis[a] \ aim[a]) \cap held[a]
  /\ held' = [held EXCEPT ![a] = @ \ {o}]
  /\ Ends(a) \/ GoesOn
  /\ UNCHANGED recorded

Report(a) ==
  /\ aim[a] # None
  /\ aim[a] \subseteq held[a]
  /\ (basis[a] \ aim[a]) \cap held[a] = {}
  /\ recorded' = [recorded EXCEPT ![a] = aim[a]]
  /\ Ends(a)
  /\ UNCHANGED held

\* Several passes may be given up at once: a process has many under way.
GiveUp(As) ==
  /\ basis' = [a \in Apps |-> IF a \in As THEN None ELSE basis[a]]
  /\ aim' = [a \in Apps |-> IF a \in As THEN None ELSE aim[a]]
  /\ UNCHANGED <<held, recorded>>

\* The application is deleted, and its record with it.
Forget(a) ==
  /\ recorded' = [recorded EXCEPT ![a] = {}]
  /\ UNCHANGED <<held, basis, aim>>

Next ==
  \/ \E a \in Apps :
       \/ Start(a) \/ Choose(a) \/ Report(a) \/ Forget(a)
       \/ \E o \in Objects : Take(a, o) \/ Release(a, o)
  \/ \E As \in SUBSET Apps : GiveUp(As)

Spec == Init /\ [][Next]_ledger
=============================================================================
