---------------------- MODULE MCGitApplicationController ----------------------
(***************************************************************************)
(* Small instances of GitApplicationController for TLC.                    *)
(***************************************************************************)
EXTENDS GitApplicationController, TLC

CONSTANTS a1, a2,      \* applications
          p, q,        \* paths
          r1, r2,      \* commits
          x, y, z,     \* objects
          v1, v2       \* API versions

At(o, v) == [object |-> o, version |-> v]
V1(S) == {At(o, v1) : o \in S}

SpecOf(path) == [path |-> path, valid |-> TRUE, prune |-> TRUE,
                 suspend |-> FALSE, takeover |-> FALSE]

\* x stays, y leaves path p with r2; z is what path q renders to.
DisjointManifest ==
  p :> (r1 :> V1({x, y}) @@ r2 :> V1({x})) @@
  q :> (r1 :> V1({z}) @@ r2 :> V1({z}))

\* r2 moves y from path p to path q.
MovingManifest ==
  p :> (r1 :> V1({x, y}) @@ r2 :> V1({x})) @@
  q :> (r1 :> V1({z}) @@ r2 :> V1({y, z}))

\* r2 moves x to another API version.
UpgradedManifest == p :> (r1 :> V1({x}) @@ r2 :> {At(x, v2)})

\* One application alone, with everything a user can say of it.
SoloManifest == p :> (r1 :> V1({x, y}) @@ r2 :> V1({x})) @@ q :> (r1 :> {} @@ r2 :> V1({y}))

PlainSpecs == a1 :> {SpecOf(p)} @@ a2 :> {SpecOf(q)}

SoloPlainSpecs == a1 :> {SpecOf(p)}

SoloSpecs ==
  a1 :> {SpecOf(p), [SpecOf(p) EXCEPT !.suspend = TRUE],
         [SpecOf(q) EXCEPT !.takeover = TRUE], [SpecOf(p) EXCEPT !.prune = FALSE],
         [SpecOf(p) EXCEPT !.valid = FALSE]}

\* y before x and z, as a Namespace is before a ConfigMap.
KindPriority == [o \in Objects |-> IF o = y THEN 0 ELSE 3]

SortedKeys ==
  [r \in Refs |-> (CASE r.object = x -> 0 [] r.object = y -> 1 [] r.object = z -> 2)
                  + IF r.version = v1 THEN 0 ELSE 10]

NoErrors == {}
QBroken == {<<q, r1>>}
PRefused == {<<p, r2>>}
=============================================================================
