---------------------------- MODULE MCRepository ----------------------------
(***************************************************************************)
(* Small instances of Repository for TLC.                                  *)
(***************************************************************************)
EXTENDS Repository, TLC

CONSTANTS w1, w2, \* workers
          c1, c2  \* commits

\* c2 is built on c1; a push back to c1 rewrites the branch.
Ancestry == c1 :> {c1} @@ c2 :> {c1, c2}
=============================================================================
