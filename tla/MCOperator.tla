----------------------------- MODULE MCOperator -----------------------------
(***************************************************************************)
(* A small instance of Operator for TLC.                                   *)
(***************************************************************************)
EXTENDS Operator

CONSTANTS p1, p2, \* processes
          n1, n2  \* applications

\* Two pods and one application, where the lease changes hands, and one pod
\* with two applications, where the workers have a choice.
MCSites == {[pods |-> {p1, p2}, names |-> {n1}],
            [pods |-> {p1}, names |-> {n1, n2}]}
=============================================================================
