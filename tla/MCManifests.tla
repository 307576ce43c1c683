---------------------------- MODULE MCManifests ----------------------------
(***************************************************************************)
(* Commits for TLC.                                                        *)
(***************************************************************************)
EXTENDS Manifests, TLC

CONSTANTS c1, c2, c3, c4, c5, c6, c7

Doc(kind, name, namespace) ==
  [kind |-> kind, name |-> name, namespace |-> namespace, flaw |-> "none"]

Flawed(flaw) == [kind |-> None, name |-> None, namespace |-> None, flaw |-> flaw]

File(path, type, docs) == [path |-> path, type |-> type, when |-> None, docs |-> docs]

When(file, k, s) == [file EXCEPT !.when = <<k, s>>]

Namespace == Doc("Namespace", Destination, "other")
CRD == Doc("CustomResourceDefinition", Custom, None)
ConfigMap(name) == Doc("ConfigMap", name, None)
Resource == Doc(Custom, "w", None)

Directory(files) ==
  [type |-> "yaml", files |-> files, includeCRDs |-> FALSE, values |-> <<>>, defaults |-> <<>>]

Chart(files, includeCRDs, values, defaults) ==
  [type |-> "helm", files |-> files, includeCRDs |-> includeCRDs,
   values |-> values, defaults |-> defaults]

MapOf(at) == [tag |-> "map", at |-> at]

\* c1: a directory that brings its own namespace, but not in the first file.
\* c2: a chart with its definition, and a resource that its values switch on.
\* c3: a resource of the kind, and the namespace.
\* c4: a directory with one document for another namespace.
\* c5: a chart with notes.
\* c6: a file that begins with a document of comments only.
\* c7: nothing.
MCTree ==
  (c1 :> Directory({File(1, "yaml", <<ConfigMap("a"), Flawed("blank")>>),
                    File(2, "yaml", <<Namespace, ConfigMap("b")>>), File(3, "other", <<>>)}))
  @@ (c2 :> Chart({File(1, "crd", <<CRD>>), File(1, "template", <<ConfigMap("a")>>),
                   When(File(2, "template", <<Resource>>), "widget", "enabled")},
                  TRUE,
                  <<[widget |-> MapOf([enabled |-> "true"])], [widget |-> MapOf([size |-> "big"])]>>,
                  [widget |-> MapOf([enabled |-> "false"])]))
  @@ (c3 :> Directory({File(1, "yaml", <<Resource, Namespace>>)}))
  @@ (c4 :> Directory({File(1, "yaml", <<ConfigMap("a"), Doc("ConfigMap", "b", "other")>>),
                       File(2, "yaml", <<Doc("ClusterRole", "r", None)>>)}))
  @@ (c5 :> Chart({File(1, "template", <<Flawed("text")>>), File(2, "template", <<ConfigMap("b")>>)},
                  FALSE, <<>>, <<>>))
  @@ (c6 :> Directory({File(1, "yaml", <<Flawed("null"), ConfigMap("b")>>)}))
  @@ (c7 :> Directory({File(1, "other", <<>>)}))

MCRoot == <<"cache", "sha">>

MCPaths ==
  [abs : BOOLEAN, parts : UNION {[1..n -> {"a", "..a", "..", "."}] : n \in 0..3}]
=============================================================================
