-------------------------- MODULE Rendering_proofs --------------------------
(***************************************************************************)
(* What the algorithms of Rendering compute, for every input: a path that  *)
(* validation accepts resolves to what its clean parts name below the      *)
(* root, and two values files are merged as Helm merges them.              *)
(*                                                                         *)
(* The induction theorems of the library take a predicate as an operator;  *)
(* here the predicate is the set of the numbers that satisfy it, and the   *)
(* induction is the existence of a least number outside of it.             *)
(***************************************************************************)
EXTENDS Rendering, WellFoundedInduction, SequenceTheorems, TLAPS

LessThan == {p \in Nat \X Nat : p[1] < p[2]}

LEMMA LessThanIsWellFounded == IsWellFoundedOn(LessThan, Nat)
BY NatLessThanWellFounded, Zenon DEF OpToRel, LessThan

LEMMA Induction ==
  ASSUME NEW S, 0 \in S, \A n \in Nat : n \in S => n + 1 \in S
  PROVE  \A n \in Nat : n \in S
<1> SUFFICES ASSUME Nat \ S # {} PROVE FALSE
  OBVIOUS
<1>1. PICK n \in Nat \ S : \A m \in Nat \ S : ~(<<m, n>> \in LessThan)
  BY LessThanIsWellFounded, WFMin
<1>2. n # 0 /\ n - 1 \in Nat /\ <<n - 1, n>> \in LessThan
  BY DEF LessThan
<1>3. n - 1 \in S
  BY <1>1, <1>2
<1> QED
  BY <1>2, <1>3

(***************************************************************************)
(* The two recursive functions satisfy their equations.                    *)
(***************************************************************************)
LEMMA CleanUpToDef ==
  ASSUME NEW path, path.parts \in Seq(STRING)
  PROVE  /\ CleanUpTo(path)[0] = <<>>
         /\ \A n \in 1..Len(path.parts) :
              CleanUpTo(path)[n] = CleanPart(path.abs, CleanUpTo(path)[n - 1], path.parts[n])
<1> DEFINE Rec(g, m) ==
             g = [n \in 0..m |-> IF n = 0 THEN <<>> ELSE CleanPart(path.abs, g[n - 1], path.parts[n])]
           S == {m \in Nat : \E g : Rec(g, m)}
<1>1. 0 \in S
  <2> DEFINE g == [n \in 0..0 |-> <<>>]
  <2>1. Rec(g, 0)
    OBVIOUS
  <2> QED
    BY <2>1
<1>2. ASSUME NEW m \in Nat, m \in S PROVE m + 1 \in S
  <2>1. PICK g : Rec(g, m)
    BY <1>2
  <2> DEFINE h == [n \in 0..m + 1 |->
                     IF n = m + 1 THEN CleanPart(path.abs, g[m], path.parts[m + 1]) ELSE g[n]]
  <2>2. \A n \in 0..m : h[n] = g[n] /\ n \in 0..m + 1
    OBVIOUS
  <2>3. \A n \in 0..m : g[n] = IF n = 0 THEN <<>> ELSE CleanPart(path.abs, g[n - 1], path.parts[n])
    BY <2>1
  <2>4. ASSUME NEW n \in 0..m + 1
        PROVE  h[n] = IF n = 0 THEN <<>> ELSE CleanPart(path.abs, h[n - 1], path.parts[n])
    <3>1. CASE n = m + 1
      BY <2>2, <3>1
    <3>2. CASE n \in 1..m
      <4>1. n - 1 \in 0..m /\ n \in 0..m
        BY <3>2
      <4> QED
        BY <2>2, <2>3, <3>2, <4>1
    <3>3. CASE n = 0
      BY <2>2, <2>3, <3>3
    <3> QED
      BY <3>1, <3>2, <3>3
  <2>5. Rec(h, m + 1)
    BY <2>4
  <2> HIDE DEF h
  <2>6. \E f : Rec(f, m + 1)
    BY <2>5
  <2> QED
    BY <2>6
<1> HIDE DEF S
<1>3. Len(path.parts) \in S
  BY <1>1, <1>2, Induction
<1>4. \E g : Rec(g, Len(path.parts))
  BY <1>3 DEF S
<1>5. Rec(CleanUpTo(path), Len(path.parts))
  BY <1>4 DEF CleanUpTo
<1> DEFINE upTo == CleanUpTo(path)
<1>6. upTo = [n \in 0..Len(path.parts) |->
                IF n = 0 THEN <<>> ELSE CleanPart(path.abs, upTo[n - 1], path.parts[n])]
  BY <1>5
<1>7. Len(path.parts) \in Nat
  OBVIOUS
<1> HIDE DEF upTo
<1>8. \A n \in 0..Len(path.parts) :
        upTo[n] = IF n = 0 THEN <<>> ELSE CleanPart(path.abs, upTo[n - 1], path.parts[n])
  BY <1>6, Zenon
<1>9. 0 \in 0..Len(path.parts) /\ \A n \in 1..Len(path.parts) : n \in 0..Len(path.parts) /\ n # 0
  BY <1>7
<1>10. /\ upTo[0] = <<>>
       /\ \A n \in 1..Len(path.parts) : upTo[n] = CleanPart(path.abs, upTo[n - 1], path.parts[n])
  BY <1>8, <1>9, Zenon
<1> QED
  BY <1>10, Zenon DEF upTo
LEMMA CleanPartType ==
  ASSUME NEW abs, NEW done \in Seq(STRING), NEW part \in STRING
  PROVE  CleanPart(abs, done, part) \in Seq(STRING)
<1>1. Append(done, part) \in Seq(STRING)
  BY AppendProperties
<1>2. done # <<>> => Front(done) \in Seq(STRING)
  BY DEF Front
<1> QED
  BY <1>1, <1>2, Zenon DEF CleanPart

LEMMA CleanUpToType ==
  ASSUME NEW path, path.parts \in Seq(STRING)
  PROVE  \A n \in 0..Len(path.parts) : CleanUpTo(path)[n] \in Seq(STRING)
<1> DEFINE upTo == CleanUpTo(path)
           S == {n \in Nat : n <= Len(path.parts) => upTo[n] \in Seq(STRING)}
<1>1. 0 \in S
  <2>1. upTo[0] = <<>>
    BY CleanUpToDef
  <2> QED
    BY <2>1, EmptySeq
<1>2. ASSUME NEW n \in Nat, n \in S PROVE n + 1 \in S
  <2> SUFFICES ASSUME n + 1 <= Len(path.parts) PROVE upTo[n + 1] \in Seq(STRING)
    OBVIOUS
  <2>1. upTo[n] \in Seq(STRING) /\ path.parts[n + 1] \in STRING /\ n + 1 \in 1..Len(path.parts)
    BY <1>2
  <2>2. upTo[n + 1] = CleanPart(path.abs, upTo[n], path.parts[n + 1])
    BY <2>1, CleanUpToDef
  <2> QED
    BY <2>1, <2>2, CleanPartType
<1> HIDE DEF S
<1>3. \A n \in Nat : n \in S
  BY <1>1, <1>2, Induction
<1> QED
  BY <1>3 DEF S

\* One more part.
LEMMA CleanUpToStep ==
  ASSUME NEW path, path.parts \in Seq(STRING), NEW n \in Nat, n + 1 \in 1..Len(path.parts)
  PROVE  /\ CleanUpTo(path)[n + 1] = CleanPart(path.abs, CleanUpTo(path)[n], path.parts[n + 1])
         /\ CleanUpTo(path)[n] \in Seq(STRING)
         /\ path.parts[n + 1] \in STRING
<1> DEFINE upTo == CleanUpTo(path)
<1>1. \A k \in 1..Len(path.parts) : upTo[k] = CleanPart(path.abs, upTo[k - 1], path.parts[k])
  BY CleanUpToDef
<1>2. n \in 0..Len(path.parts) /\ n + 1 - 1 = n
  BY LenProperties
<1>3. upTo[n] \in Seq(STRING)
  BY <1>2, CleanUpToType
<1>4. path.parts[n + 1] \in STRING
  BY ElementOfSeq
<1> HIDE DEF upTo
<1>5. upTo[n + 1] = CleanPart(path.abs, upTo[n], path.parts[n + 1])
  BY <1>1, <1>2
<1> QED
  BY <1>3, <1>4, <1>5 DEF upTo

(***************************************************************************)
(* Sequences.                                                              *)
(***************************************************************************)
LEMMA ConcatFront ==
  ASSUME NEW S, NEW r \in Seq(S), NEW s \in Seq(S), s # <<>>
  PROVE  /\ r \o s # <<>>
         /\ Last(r \o s) = Last(s)
         /\ Front(r \o s) = r \o Front(s)
<1>1. Len(s) \in Nat /\ Len(s) > 0 /\ Len(r \o s) = Len(r) + Len(s)
  OBVIOUS
<1>2. Last(r \o s) = Last(s)
  BY <1>1 DEF Last
<1>3. Front(r \o s) = r \o Front(s)
  BY <1>1 DEF Front
<1> QED
  BY <1>1, <1>2, <1>3

LEMMA PrefixAppend ==
  ASSUME NEW S, NEW r \in Seq(S), NEW n \in 0..Len(r) - 1
  PROVE  Append(SubSeq(r, 1, n), r[n + 1]) = SubSeq(r, 1, n + 1)
<1>1. /\ SubSeq(r, 1, n) \in Seq(S) /\ r[n + 1] \in S
      /\ 1 \in 1..Len(r) /\ n + 1 \in 1..Len(r)
  OBVIOUS
<1>2. SubSeq(r, 1, n + 1) = SubSeq(r, 1, n) \o <<r[n + 1]>>
  <2>1. n + 1 \in 1..Len(r) /\ n + 1 - 1 = n
    BY <1>1
  <2>2. SubSeq(r, 1, n + 1) = SubSeq(r, 1, n + 1 - 1) \o <<r[n + 1]>>
    BY <1>1, <2>1, SubSeqRecursiveSecond
  <2> QED
    BY <2>1, <2>2
<1>3. Append(SubSeq(r, 1, n), r[n + 1]) = SubSeq(r, 1, n) \o <<r[n + 1]>>
  BY <1>1, AppendIsConcat
<1> QED
  BY <1>2, <1>3

(***************************************************************************)
(* A path that goes up stays above; one that does not ends up below any    *)
(* root it is joined to.                                                   *)
(***************************************************************************)
GoesUp(s) == s # <<>> /\ s[1] = ".."

LEMMA UpStaysUp ==
  ASSUME NEW abs, NEW done \in Seq(STRING), NEW part \in STRING, GoesUp(done)
  PROVE  GoesUp(CleanPart(abs, done, part))
<1>1. Append(done, part) # <<>> /\ Append(done, part)[1] = done[1]
  BY DEF GoesUp
<1>2. ASSUME Last(done) # ".." PROVE Front(done) # <<>> /\ Front(done)[1] = done[1]
  <2>1. Len(done) > 1
    BY <1>2 DEF GoesUp, Last
  <2> QED
    BY <2>1 DEF Front
<1> QED
  BY <1>1, <1>2 DEF GoesUp, CleanPart
LEMMA OnceUpAlwaysUp ==
  ASSUME NEW path, path.parts \in Seq(STRING), NEW m \in 0..Len(path.parts),
         GoesUp(CleanUpTo(path)[m])
  PROVE  GoesUp(CleanUpTo(path)[Len(path.parts)])
<1> DEFINE upTo == CleanUpTo(path)
           S == {n \in Nat : m <= n /\ n <= Len(path.parts) => GoesUp(upTo[n])}
<1>1. 0 \in S
  BY DEF GoesUp
<1>2. ASSUME NEW n \in Nat, n \in S PROVE n + 1 \in S
  <2> SUFFICES ASSUME m <= n + 1, n + 1 <= Len(path.parts) PROVE GoesUp(upTo[n + 1])
    OBVIOUS
  <2>1. CASE m = n + 1
    BY <2>1
  <2>2. CASE m <= n
    <3>1. GoesUp(upTo[n])
      BY <1>2, <2>2
    <3>2. n + 1 \in 1..Len(path.parts)
      OBVIOUS
    <3> QED
      BY <3>1, <3>2, CleanUpToStep, UpStaysUp
  <2> QED
    BY <2>1, <2>2
<1> HIDE DEF S
<1>3. \A n \in Nat : n \in S
  BY <1>1, <1>2, Induction
<1>4. Len(path.parts) \in Nat /\ m <= Len(path.parts)
  BY LenProperties
<1> QED
  BY <1>3, <1>4 DEF S

\* Joined to the root, as ResolveWithinRoot has it cleaned.
Joined(path) == [abs |-> TRUE, parts |-> Root \o path.parts]

\* The parts of the root come out as they are.
LEMMA RootIsClean ==
  ASSUME NEW path, path.parts \in Seq(STRING)
  PROVE  \A n \in 0..Len(Root) : CleanUpTo(Joined(path))[n] = SubSeq(Root, 1, n)
<1> DEFINE joined == Joined(path)
           upTo == CleanUpTo(joined)
           S == {n \in Nat : n <= Len(Root) => upTo[n] = SubSeq(Root, 1, n)}
<1>1. /\ Root \in Seq(STRING) /\ joined.parts = Root \o path.parts /\ joined.parts \in Seq(STRING)
      /\ Len(joined.parts) = Len(Root) + Len(path.parts) /\ joined.abs = TRUE
      /\ \A i \in 1..Len(Root) : joined.parts[i] = Root[i] /\ Root[i] \notin {".", ".."}
  <2>1. Root \in Seq(STRING)
    BY PathAssumption, SeqMonotonic
  <2>2. \A i \in 1..Len(Root) : Root[i] \notin {".", ".."}
    <3>1. \A i \in 1..Len(Root) : Root[i] \in STRING \ {"", ".", ".."}
      BY PathAssumption, ElementOfSeq
    <3> QED
      BY <3>1, Zenon
  <2> QED
    BY <2>1, <2>2, ConcatProperties DEF Joined
<1>2. 0 \in S
  <2>1. upTo[0] = <<>>
    BY <1>1, CleanUpToDef
  <2>2. SubSeq(Root, 1, 0) = <<>>
    BY <1>1, SubSeqEmpty
  <2> QED
    BY <2>1, <2>2
<1>3. ASSUME NEW n \in Nat, n \in S PROVE n + 1 \in S
  <2> SUFFICES ASSUME n + 1 <= Len(Root) PROVE upTo[n + 1] = SubSeq(Root, 1, n + 1)
    OBVIOUS
  <2>1. /\ n + 1 \in 1..Len(joined.parts) /\ n + 1 - 1 = n
        /\ n + 1 \in 1..Len(Root) /\ n \in 0..Len(Root) - 1
    BY <1>1, LenProperties
  <2>2. upTo[n + 1] = CleanPart(TRUE, upTo[n], joined.parts[n + 1])
    BY <1>1, <2>1, CleanUpToStep
  <2>3. CleanPart(TRUE, upTo[n], joined.parts[n + 1]) = Append(upTo[n], Root[n + 1])
    BY <1>1, <2>1 DEF CleanPart
  <2>4. upTo[n] = SubSeq(Root, 1, n)
    BY <1>3
  <2> HIDE DEF upTo, joined
  <2> QED
    BY <1>1, <2>1, <2>2, <2>3, <2>4, PrefixAppend
<1> HIDE DEF S
<1>4. \A n \in Nat : n \in S
  BY <1>2, <1>3, Induction
<1> QED
  BY <1>1, <1>4, LenProperties DEF S

\* A name, or nothing, or the way back from a name: the same above the root.
LEMMA CleanPartBelowRoot ==
  ASSUME NEW done \in Seq(STRING), NEW part \in STRING,
         \A i \in 1..Len(done) : done[i] # "..",
         ~GoesUp(CleanPart(FALSE, done, part))
  PROVE  /\ CleanPart(TRUE, Root \o done, part) = Root \o CleanPart(FALSE, done, part)
         /\ \A i \in 1..Len(CleanPart(FALSE, done, part)) :
              CleanPart(FALSE, done, part)[i] # ".."
<1>1. Root \in Seq(STRING)
  BY PathAssumption, SeqMonotonic
<1>2. CASE part = "."
  BY <1>2 DEF CleanPart
<1>3. CASE part \notin {".", ".."}
  <2>1. Append(Root \o done, part) = Root \o Append(done, part)
    <3>1. PICK S : S = STRING
      OBVIOUS
    <3>2. Root \in Seq(S) /\ done \in Seq(S) /\ part \in S
      BY <1>1, <3>1
    <3>3. /\ Append(done, part) = done \o <<part>>
          /\ Root \o done \in Seq(S) /\ <<part>> \in Seq(S)
          /\ Append(Root \o done, part) = (Root \o done) \o <<part>>
      BY <3>2, AppendIsConcat
    <3> QED
      BY <3>2, <3>3, ConcatAssociative
  <2>2. \A i \in 1..Len(Append(done, part)) : Append(done, part)[i] # ".."
    BY <1>3
  <2> QED
    BY <1>3, <2>1, <2>2 DEF CleanPart
<1>4. CASE part = ".."
  <2>1. done # <<>>
    <3>1. CASE done = <<>>
      <4>1. CleanPart(FALSE, done, part) = Append(done, "..")
        BY <1>4, <3>1, Zenon DEF CleanPart
      <4>2. GoesUp(Append(done, ".."))
        BY <3>1 DEF GoesUp
      <4> QED
        BY <4>1, <4>2
    <3> QED
      BY <3>1
  <2>2. Last(done) # ".."
    BY <2>1 DEF Last
  <2>3. /\ Root \o done # <<>> /\ Last(Root \o done) = Last(done)
        /\ Front(Root \o done) = Root \o Front(done)
    BY <1>1, <2>1, ConcatFront
  <2>4. \A i \in 1..Len(Front(done)) : Front(done)[i] # ".."
    BY <2>1 DEF Front
  <2> QED
    BY <1>4, <2>1, <2>2, <2>3, <2>4 DEF CleanPart
<1> QED
  BY <1>2, <1>3, <1>4

LEMMA Descends ==
  ASSUME NEW path, path.parts \in Seq(STRING), path.abs = FALSE,
         ~GoesUp(CleanUpTo(path)[Len(path.parts)])
  PROVE  CleanUpTo(Joined(path))[Len(Root) + Len(path.parts)]
           = Root \o CleanUpTo(path)[Len(path.parts)]
<1> DEFINE joined == Joined(path)
           upTo == CleanUpTo(path)
           below == CleanUpTo(joined)
           Below(n) == /\ below[Len(Root) + n] = Root \o upTo[n]
                       /\ \A i \in 1..Len(upTo[n]) : upTo[n][i] # ".."
           S == {n \in Nat : n <= Len(path.parts) => Below(n)}
<1>1. /\ Root \in Seq(STRING) /\ joined.parts = Root \o path.parts /\ joined.parts \in Seq(STRING)
      /\ Len(joined.parts) = Len(Root) + Len(path.parts) /\ joined.abs = TRUE
      /\ Len(Root) \in Nat /\ Len(path.parts) \in Nat
      /\ \A i \in 1..Len(path.parts) : joined.parts[Len(Root) + i] = path.parts[i]
  <2>1. Root \in Seq(STRING)
    BY PathAssumption, SeqMonotonic
  <2> QED
    BY <2>1 DEF Joined
<1>2. 0 \in S
  <2>1. upTo[0] = <<>>
    BY CleanUpToDef
  <2>2. below[Len(Root)] = SubSeq(Root, 1, Len(Root))
    BY <1>1, RootIsClean
  <2>3. SubSeq(Root, 1, Len(Root)) = Root /\ Root \o <<>> = Root
    BY <1>1
  <2> HIDE DEF upTo, below
  <2> QED
    BY <1>1, <2>1, <2>2, <2>3
<1>3. ASSUME NEW n \in Nat, n \in S PROVE n + 1 \in S
  <2> SUFFICES ASSUME n + 1 <= Len(path.parts) PROVE Below(n + 1)
    OBVIOUS
  <2>1. n + 1 \in 1..Len(path.parts) /\ n + 1 \in 0..Len(path.parts)
    BY <1>1
  <2>2. /\ upTo[n + 1] = CleanPart(FALSE, upTo[n], path.parts[n + 1])
        /\ upTo[n] \in Seq(STRING) /\ path.parts[n + 1] \in STRING
    BY <2>1, CleanUpToStep
  <2>3. ~GoesUp(upTo[n + 1])
    BY <2>1, OnceUpAlwaysUp
  <2>4. Below(n)
    BY <1>3, <2>1
  <2>5. below[Len(Root) + (n + 1)] = CleanPart(TRUE, below[Len(Root) + n], path.parts[n + 1])
    <3> DEFINE k == Len(Root) + n
    <3>1. k \in Nat /\ k + 1 \in 1..Len(joined.parts) /\ k + 1 = Len(Root) + (n + 1)
      BY <1>1
    <3>2. joined.parts[k + 1] = path.parts[n + 1]
      BY <1>1, <2>1, <3>1
    <3> HIDE DEF k, joined
    <3>3. below[k + 1] = CleanPart(joined.abs, below[k], joined.parts[k + 1])
      BY <1>1, <3>1, CleanUpToStep
    <3> HIDE DEF below
    <3> QED
      BY <1>1, <3>1, <3>2, <3>3 DEF k
  <2> HIDE DEF upTo, below
  <2> QED
    BY <2>2, <2>3, <2>4, <2>5, CleanPartBelowRoot
<1> HIDE DEF S
<1>4. \A n \in Nat : n \in S
  BY <1>2, <1>3, Induction
<1>5. Len(path.parts) \in S
  BY <1>1, <1>4
<1> HIDE DEF Below
<1>6. Below(Len(path.parts))
  BY <1>1, <1>5 DEF S
<1> HIDE DEF upTo, below
<1>7. below[Len(Root) + Len(path.parts)] = Root \o upTo[Len(path.parts)]
  BY <1>6, Zenon DEF Below
<1> QED
  BY <1>7, Zenon DEF upTo, below

\* Whoever checks it, a path that does not go up resolves to what its clean
\* parts name below the root.
LEMMA ResolvesBelowRoot ==
  ASSUME NEW path \in Paths, path.parts # <<>>, ~path.abs, ~GoesUp(Clean(path))
  PROVE  ResolveWithinRoot(path) = Root \o Clean(path)
<1>1. path.parts \in Seq(STRING) /\ path.abs = FALSE
  <2>1. path.parts \in Seq(STRING \ {""}) /\ path.abs \in BOOLEAN
    BY PathAssumption
  <2> QED
    BY <2>1, SeqMonotonic
<1>2. Root \in Seq(STRING) /\ Len(Root \o path.parts) = Len(Root) + Len(path.parts)
  <2>1. Root \in Seq(STRING)
    BY PathAssumption, SeqMonotonic
  <2> QED
    BY <1>1, <2>1
<1>3. Clean(path) \in Seq(STRING)
  BY <1>1, CleanUpToType, LenProperties DEF Clean
<1>4. Clean(Joined(path)) = Root \o Clean(path)
  BY <1>1, <1>2, Descends DEF Clean, Joined
<1>5. IsPrefix(Root, Root \o Clean(path))
  BY <1>2, <1>3 DEF IsPrefix
<1> QED
  BY <1>4, <1>5 DEF ResolveWithinRoot, Joined

(***************************************************************************)
(* Two values files.                                                       *)
(***************************************************************************)
LEMMA ReadTwoFiles ==
  ASSUME NEW a, NEW b
  PROVE  ReadHelmValues(<<a, b>>) = DeepMerge(DeepMerge(<<>>, a), b)
<1> DEFINE files == <<a, b>>
           first == DeepMerge(<<>>, a)
           both == DeepMerge(first, b)
           Rec(g) == g = [n \in 0..Len(files) |->
                            IF n = 0 THEN <<>> ELSE DeepMerge(g[n - 1], files[n])]
           merged == [n \in 0..2 |-> IF n = 0 THEN <<>> ELSE IF n = 1 THEN first ELSE both]
<1>1. Len(files) = 2 /\ files[1] = a /\ files[2] = b
  OBVIOUS
<1>2. merged[0] = <<>> /\ merged[1] = first /\ merged[2] = both
  OBVIOUS
<1> HIDE DEF first, both
<1>3. ASSUME NEW n \in 0..2
      PROVE  merged[n] = IF n = 0 THEN <<>> ELSE DeepMerge(merged[n - 1], files[n])
  <2>1. CASE n = 0
    BY <1>2, <2>1
  <2>2. CASE n = 1
    BY <1>1, <1>2, <2>2 DEF first
  <2>3. CASE n = 2
    BY <1>1, <1>2, <2>3 DEF both
  <2> QED
    BY <2>1, <2>2, <2>3
<1>4. Rec(merged)
  BY <1>1, <1>3
<1> HIDE DEF merged
<1>5. \E g : Rec(g)
  BY <1>4
<1>6. Rec(MergedUpTo(files))
  BY <1>5 DEF MergedUpTo
<1> DEFINE upTo == MergedUpTo(files)
<1>7. upTo = [n \in 0..Len(files) |-> IF n = 0 THEN <<>> ELSE DeepMerge(upTo[n - 1], files[n])]
  BY <1>6
<1> HIDE DEF upTo, files
<1>8. upTo[0] = <<>> /\ upTo[1] = DeepMerge(upTo[0], a) /\ upTo[2] = DeepMerge(upTo[1], b)
  <2>1. \A n \in 0..2 : upTo[n] = IF n = 0 THEN <<>> ELSE DeepMerge(upTo[n - 1], files[n])
    BY <1>1, <1>7, Zenon
  <2> QED
    BY <1>1, <2>1
<1> QED
  BY <1>1, <1>8 DEF ReadHelmValues, upTo, files, first, both

\* What the second file does not set it leaves as it was.
LEMMA SecondFileAdds ==
  ASSUME NEW a, NEW b, NEW k \in DOMAIN a, a[k].tag = "map",
         k \in DOMAIN b => b[k].tag \in {"leaf", "map"},
         NEW s \in DOMAIN a[k].at
  PROVE  Lookup(ReadHelmValues(<<a, b>>), k, s) =
           IF k \in DOMAIN b /\ (b[k].tag = "leaf" \/ s \in DOMAIN b[k].at)
           THEN Lookup(b, k, s) ELSE Lookup(a, k, s)
<1> DEFINE first == DeepMerge(<<>>, a)
           both == DeepMerge(first, b)
<1>1. ReadHelmValues(<<a, b>>) = both
  BY ReadTwoFiles
<1>2. k \in DOMAIN first /\ first[k] = a[k]
  BY DEF DeepMerge
<1> HIDE DEF first
<1>3. k \in DOMAIN both /\ both[k] = IF k \notin DOMAIN b THEN a[k] ELSE MergeNode(a[k], b[k])
  BY <1>2 DEF DeepMerge
<1> HIDE DEF both
<1>4. Lookup(a, k, s) = a[k].at[s]
  BY DEF Lookup
<1>5. CASE k \notin DOMAIN b
  BY <1>1, <1>3, <1>5 DEF Lookup
<1>6. CASE k \in DOMAIN b /\ b[k].tag = "leaf"
  BY <1>1, <1>3, <1>6 DEF Lookup, MergeNode
<1>7. CASE k \in DOMAIN b /\ b[k].tag = "map"
  <2> DEFINE node == [tag |-> "Values", at |-> Over(b[k].at, a[k].at)]
  <2>1. both[k] = node
    BY <1>3, <1>7 DEF MergeNode
  <2>2. Lookup(both, k, s) = IF s \in DOMAIN b[k].at THEN b[k].at[s] ELSE a[k].at[s]
    BY <1>3, <2>1 DEF Lookup, Over
  <2>3. s \in DOMAIN b[k].at => Lookup(b, k, s) = b[k].at[s]
    BY <1>7 DEF Lookup
  <2> QED
    BY <1>1, <1>4, <1>7, <2>2, <2>3
<1> QED
  BY <1>5, <1>6, <1>7
=============================================================================
