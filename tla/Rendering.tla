----------------------------- MODULE Rendering -----------------------------
(***************************************************************************)
(* The renderers: from the files of a commit to the documents that module  *)
(* Manifests goes on with, with the values of a chart and the paths of an  *)
(* application.  All of it is a function of the files.  Simplifications:   *)
(*  - Only the order of the paths of files matters: they are numbers.      *)
(*  - A template is a list of documents, with at most one condition on a   *)
(*    value; values are two levels deep.                                   *)
(***************************************************************************)
EXTENDS Integers, SequencesExt

CONSTANTS
  Commits, \* states of the repository (and of spec.render)
  Tree,    \* Tree[c]: the directory and spec.render of commit c
  Paths,   \* relative and absolute paths, as lists of their parts
  Root,    \* the parts of the path of the checkout
  None     \* nothing

ASSUME RenderingAssumption == DOMAIN Tree = Commits

\* The parts of a path are what is between its slashes, if anything is; the
\* path of a checkout is clean, since the operator makes it.
ASSUME PathAssumption ==
  /\ Paths \subseteq [abs : BOOLEAN, parts : Seq(STRING \ {""})]
  /\ Root \in Seq(STRING \ {"", ".", ".."})

(***************************************************************************)
(* Helm values.  A node is a leaf, a map as a decoder makes it, or a       *)
(* "Values": what deepMerge stores when it has merged two maps.  Go tells  *)
(* the two types apart: a Values is no map[string]any to deepMerge, nor to *)
(* Helm when it adds the defaults of the chart.                            *)
(***************************************************************************)
ASSUME ValuesAssumption ==
  \A c \in Commits : \A i \in DOMAIN Tree[c].values :
    \A k \in DOMAIN Tree[c].values[i] : Tree[c].values[i][k].tag \in {"leaf", "map"}

\* What f says, and what g says where f says nothing (@@ of module TLC, which
\* the prover cannot expand).
Over(f, g) == [x \in DOMAIN f \cup DOMAIN g |-> IF x \in DOMAIN f THEN f[x] ELSE g[x]]

\* Mutant of MergeNode: a map replaces a map.
MergeShallow(existing, value) == value

MergeNode(existing, value) ==
  IF existing.tag = "map" /\ value.tag = "map"
  THEN [tag |-> "Values", at |-> Over(value.at, existing.at)]
  ELSE value

DeepMerge(dst, src) ==
  [k \in DOMAIN dst \cup DOMAIN src |->
     IF k \notin DOMAIN src THEN dst[k]
     ELSE IF k \notin DOMAIN dst THEN src[k]
     ELSE MergeNode(dst[k], src[k])]

\* The values after n of the files.
MergedUpTo(files) ==
  LET upTo[n \in 0..Len(files)] == IF n = 0 THEN <<>> ELSE DeepMerge(upTo[n - 1], files[n])
  IN upTo

ReadHelmValues(files) == MergedUpTo(files)[Len(files)]

\* chartutil.ToRenderValues: values over the defaults of the chart.
Coalesced(values, defaults) ==
  [k \in DOMAIN values \cup DOMAIN defaults |->
     IF k \notin DOMAIN values THEN defaults[k]
     ELSE IF k \notin DOMAIN defaults \/ values[k].tag # "map" \/ defaults[k].tag # "map"
     THEN values[k]
     ELSE [tag |-> "map", at |-> Over(values[k].at, defaults[k].at)]]

\* .Values.k.s, None if there is no such value.
Lookup(values, k, s) ==
  IF k \in DOMAIN values /\ values[k].tag # "leaf" /\ s \in DOMAIN values[k].at
  THEN values[k].at[s] ELSE None

(***************************************************************************)
(* Paths.                                                                  *)
(***************************************************************************)
\* filepath.Clean, one part: an absolute path has nothing above its root.
CleanPart(abs, done, part) ==
  IF part = "." THEN done
  ELSE IF part # ".." THEN Append(done, part)
  ELSE IF done # <<>> /\ Last(done) # ".." THEN Front(done)
  ELSE IF abs THEN done ELSE Append(done, part)

\* The first n parts, cleaned.
CleanUpTo(path) ==
  LET upTo[n \in 0..Len(path.parts)] ==
        IF n = 0 THEN <<>> ELSE CleanPart(path.abs, upTo[n - 1], path.parts[n])
  IN upTo

Clean(path) == CleanUpTo(path)[Len(path.parts)]

\* Mutant of ValidateRelPath: the path is looked at as it was written.
ValidateRelPathUncleaned(path) ==
  path.parts # <<>> /\ path.parts[1] \notin {"..", "..a"} /\ ~path.abs

\* validateRelPath: the clean path may not begin with two dots, those of a
\* name like "..a" included.
ValidateRelPath(path) ==
  /\ path.parts # <<>> /\ ~path.abs
  /\ Clean(path) = <<>> \/ Clean(path)[1] \notin {"..", "..a"}

ValidateValuesFilePath(path) ==
  /\ path.parts # <<>> /\ ~path.abs
  /\ Clean(path) # <<>> /\ Clean(path) = path.parts
  /\ path.parts[1] # ".."

\* ResolveWithinRoot, None for an error.  Joined to the root, an absolute path
\* is one below it.
ResolveWithinRoot(path) ==
  LET joined == Clean([abs |-> TRUE, parts |-> Root \o path.parts])
  IN IF path.parts # <<>> /\ IsPrefix(Root, joined) THEN joined ELSE None

(***************************************************************************)
(* Rendering; the result is None if it fails.                              *)
(***************************************************************************)
InPathOrder(files) == SetToSortSeq(files, LAMBDA f, g : f.path < g.path)

\* renderYAMLFile, decodeManifest: blank documents are passed over; a
\* document of comments only is not, it gives an object without a kind; one
\* that is no mapping is an error.
Decode(docs) ==
  IF \E i \in DOMAIN docs : docs[i].flaw = "text" THEN None
  ELSE SelectSeq(docs, LAMBDA d : d.flaw # "blank")

DecodeAll(files) ==
  LET decoded == [i \in DOMAIN files |-> Decode(files[i].docs)]
  IN IF \E i \in DOMAIN files : decoded[i] = None THEN None ELSE FlattenSeq(decoded)

\* YAMLRenderer.  Any symbolic link is refused; other files are ignored.
RenderYAML(dir) ==
  IF \E f \in dir.files : f.type = "symlink" THEN None
  ELSE DecodeAll(InPathOrder({f \in dir.files : f.type = "yaml"}))

\* engine.Render: a template whose condition does not hold is blank.
Templates(dir) ==
  LET values == Coalesced(ReadHelmValues(dir.values), dir.defaults)
  IN {f \in dir.files :
        f.type = "template" /\ (f.when = None \/ Lookup(values, f.when[1], f.when[2]) = "true")}

\* HelmRenderer.  The notes of a chart are decoded like any template: the
\* names that engine.Render gives begin with that of the chart, so the filter
\* for "templates/NOTES.txt" never holds.
RenderHelm(dir) ==
  DecodeAll((IF dir.includeCRDs THEN InPathOrder({f \in dir.files : f.type = "crd"}) ELSE <<>>)
            \o InPathOrder(Templates(dir)))

Rendered ==
  [c \in Commits |-> IF Tree[c].type = "yaml" THEN RenderYAML(Tree[c]) ELSE RenderHelm(Tree[c])]
=============================================================================
