---------------------------- MODULE TarStreamProofs ----------------------------
(***************************************************************************)
(* What TarStream's operators return, for every sequence.  They are        *)
(* recursive functions, so their facts are inductions; these are done by   *)
(* the least number for which a fact would be wrong.                       *)
(***************************************************************************)
EXTENDS TarStream, WellFoundedInduction, SequenceTheorems, TLAPS

(* A set of numbers that is not empty has a least one: what all loops over *)
(* the members of an archive are counted with.                             *)
LEMMA LeastElement ==
    ASSUME NEW T \in SUBSET Nat, T # {}
    PROVE  \E n \in T : \A m \in T : n <= m
<1> DEFINE R == OpToRel(<, Nat)
<1>1. IsWellFoundedOn(R, Nat)
  BY NatLessThanWellFounded, Zenon
<1>2. \A x, y \in Nat : x < y => <<x, y>> \in R
  BY Zenon DEF OpToRel
<1> HIDE DEF R
<1>3. PICK n \in T : \A m \in T : ~ (<<m, n>> \in R)
  BY <1>1, WFMin, Zenon
<1>4. ASSUME NEW m \in T PROVE n <= m
  <2>1. ~ (m < n)
    BY <1>2, <1>3
  <2> QED
    BY <2>1
<1> QED
  BY <1>4

(* A set of numbers with zero and every successor has them all: one turn   *)
(* of a loop after the other reaches every member.                         *)
LEMMA Counting ==
    ASSUME NEW P, P \subseteq Nat, 0 \in P, \A n \in P : n + 1 \in P
    PROVE  P = Nat
<1> SUFFICES ASSUME Nat \ P # {} PROVE FALSE
  OBVIOUS
<1>1. PICK n \in Nat \ P : \A m \in Nat \ P : n <= m
  BY LeastElement
<1>2. n # 0 /\ n - 1 \in Nat /\ ~ (n <= n - 1)
  BY <1>1
<1>3. n - 1 \in P
  BY <1>1, <1>2
<1> QED
  BY <1>1, <1>2, <1>3

(* Two records are the same if they agree on the fields that both have:    *)
(* how the settings before a call are compared with those after it.        *)
LEMMA SameFunction ==
    ASSUME NEW D, NEW f, NEW g, f = [x \in D |-> f[x]], g = [x \in D |-> g[x]],
           \A x \in D : f[x] = g[x]
    PROVE  f = g
  OBVIOUS

-----------------------------------------------------------------------------
(* A sequence, whatever its elements are. *)
IsList(s) == s \in Seq({s[i] : i \in DOMAIN s})

(* A sequence over any set is one. *)
LEMMA SeqIsList == ASSUME NEW S, NEW s \in Seq(S) PROVE IsList(s)
<1> DEFINE T == {s[i] : i \in DOMAIN s}
<1>1. Len(s) \in Nat /\ s \in [1..Len(s) -> S] /\ DOMAIN s = 1..Len(s)
  BY LenProperties
<1>2. s \in [1..Len(s) -> T]
  BY <1>1
<1>3. s \in UNION {[1..n -> T] : n \in Nat}
  BY <1>1, <1>2
<1> HIDE DEF T
<1>4. s \in Seq(T)
  BY <1>3, SeqDef
<1> QED
  BY <1>4 DEF IsList, T

(* The empty archive is one. *)
LEMMA EmptyIsList == IsList(<<>>) /\ Len(<<>>) = 0 /\ DOMAIN <<>> = {}
<1>1. <<>> \in Seq({})
  BY EmptySeq
<1>2. IsList(<<>>)
  BY <1>1, SeqIsList
<1> QED
  BY <1>2

(* What the length of a sequence says. *)
LEMMA ListLength == ASSUME NEW s, IsList(s) PROVE Len(s) \in Nat /\ DOMAIN s = 1..Len(s)
  BY LenProperties DEF IsList

(* A member that is appended comes last, and the others stay. *)
LEMMA ListAppend ==
    ASSUME NEW s, IsList(s), NEW x
    PROVE  /\ IsList(Append(s, x))
           /\ Len(Append(s, x)) = Len(s) + 1
           /\ DOMAIN Append(s, x) = 1..(Len(s) + 1)
           /\ Append(s, x)[Len(s) + 1] = x
           /\ \A i \in 1..Len(s) : Append(s, x)[i] = s[i]
<1> DEFINE S == {s[i] : i \in DOMAIN s} \cup {x}
<1>1. s \in Seq(S) /\ x \in S
  BY SeqMonotonic DEF IsList
<1> HIDE DEF S
<1>2. Append(s, x) \in Seq(S)
  BY <1>1, AppendProperties
<1>3. IsList(Append(s, x))
  BY <1>2, SeqIsList
<1>4. DOMAIN Append(s, x) = 1..Len(Append(s, x))
  BY <1>2, LenProperties
<1> QED
  BY <1>1, <1>3, <1>4, AppendProperties

-----------------------------------------------------------------------------
(* f sums up the first numbers of s, up to the Nth. *)
SumsUp(s, N, f) == f = [n \in 0..N |-> IF n = 0 THEN 0 ELSE f[n - 1] + s[n]]

(* The sums an installed size is compared with exist: *)
LEMMA SumsExist == ASSUME NEW s, NEW N \in Nat PROVE \E f : SumsUp(s, N, f)
<1> DEFINE P == {k \in Nat : \E f : SumsUp(s, k, f)}
<1>1. 0 \in P
  <2>1. SumsUp(s, 0, [n \in 0..0 |-> 0])
    BY DEF SumsUp
  <2> QED
    BY <2>1
<1>2. ASSUME NEW k \in P PROVE k + 1 \in P
  <2>1. PICK f : SumsUp(s, k, f)
    OBVIOUS
  <2> DEFINE g == [n \in 0..(k + 1) |-> IF n = k + 1 THEN f[k] + s[n] ELSE f[n]]
  <2>2. SumsUp(s, k + 1, g)
    BY <2>1 DEF SumsUp
  <2> HIDE DEF g
  <2> QED
    BY <2>2
<1>3. P \subseteq Nat
  OBVIOUS
<1> HIDE DEF P
<1>4. P = Nat
  BY <1>1, <1>2, <1>3, Counting
<1> QED
  BY <1>4 DEF P

(* Sums is what its recursive definition says. *)
LEMMA SumsDefined == ASSUME NEW s, Len(s) \in Nat PROVE SumsUp(s, Len(s), Sums(s))
  BY SumsExist DEF SumsUp, Sums

(* An archive without members holds no bytes. *)
LEMMA TotalEmpty == Total(<<>>) = 0
  BY SumsDefined DEF SumsUp, Total

(* An appended member adds its size to the sum of those before it. *)
LEMMA TotalAppend ==
    ASSUME NEW s \in Seq(Nat), NEW x \in Nat
    PROVE  Total(s) \in Nat /\ Total(Append(s, x)) = Total(s) + x
<1> DEFINE a == Append(s, x)
           P == {k \in Nat : k <= Len(s) => Sums(a)[k] = Sums(s)[k] /\ Sums(s)[k] \in Nat}
<1>1. a \in Seq(Nat) /\ Len(a) = Len(s) + 1 /\ a[Len(s) + 1] = x
      /\ \A n \in 1..Len(s) : a[n] = s[n]
  BY AppendProperties
<1> HIDE DEF a
<1>2. SumsUp(s, Len(s), Sums(s)) /\ SumsUp(a, Len(a), Sums(a))
  BY <1>1, SumsDefined
<1>3. 0 \in P
  BY <1>1, <1>2 DEF SumsUp
<1>4. ASSUME NEW k \in P PROVE k + 1 \in P
  <2>1. SUFFICES ASSUME k + 1 <= Len(s)
                 PROVE  Sums(a)[k + 1] = Sums(s)[k + 1] /\ Sums(s)[k + 1] \in Nat
    OBVIOUS
  <2>2. Sums(a)[k + 1] = Sums(a)[k] + a[k + 1] /\ Sums(s)[k + 1] = Sums(s)[k] + s[k + 1]
    BY <1>1, <1>2, <2>1 DEF SumsUp
  <2> QED
    BY <1>1, <2>1, <2>2
<1>5. P \subseteq Nat
  OBVIOUS
<1>6. Len(s) \in P
  <2>1. Len(s) \in Nat
    BY <1>1, LenProperties
  <2> HIDE DEF P
  <2>2. P = Nat
    BY <1>3, <1>4, <1>5, Counting
  <2> QED
    BY <2>1, <2>2
<1>7. Sums(a)[Len(s) + 1] = Sums(a)[Len(s)] + x
  BY <1>1, <1>2 DEF SumsUp
<1> QED
  BY <1>1, <1>6, <1>7 DEF Total, a

-----------------------------------------------------------------------------
(* One turn of the loop over the members: a file is appended. *)
Collected(files, member) == IF member.kind = "file" THEN Append(files, member) ELSE files

(* f collects the files among the first members of s, up to the Nth. *)
Collects(s, N, f) ==
    f = [n \in 0..N |-> IF n = 0 THEN <<>>
                        ELSE IF s[n].kind = "file" THEN Append(f[n - 1], s[n]) ELSE f[n - 1]]

(* A list of files is made one member at a time. *)
LEMMA CollectsUnfolds ==
    ASSUME NEW s, NEW N \in Nat, NEW f, Collects(s, N, f)
    PROVE  f[0] = <<>> /\ \A n \in 1..N : f[n] = Collected(f[n - 1], s[n])
<1>1. \A n \in 0..N : f[n] = IF n = 0 THEN <<>>
                            ELSE IF s[n].kind = "file" THEN Append(f[n - 1], s[n]) ELSE f[n - 1]
  BY DEF Collects
<1>2. \A n \in 1..N : n \in 0..N /\ n # 0
  OBVIOUS
<1> QED
  BY <1>1, <1>2 DEF Collected

(* The lists of files that md5sums is compared with exist: *)
LEMMA FilesExist == ASSUME NEW s, NEW N \in Nat PROVE \E f : Collects(s, N, f)
<1> DEFINE P == {k \in Nat : \E f : Collects(s, k, f)}
<1>1. 0 \in P
  <2>1. Collects(s, 0, [n \in 0..0 |-> <<>>])
    BY DEF Collects
  <2> QED
    BY <2>1
<1>2. ASSUME NEW k \in P PROVE k + 1 \in P
  <2>1. PICK f : Collects(s, k, f)
    OBVIOUS
  <2> DEFINE g == [n \in 0..(k + 1) |->
                      IF n = k + 1 THEN IF s[n].kind = "file" THEN Append(f[k], s[n]) ELSE f[k]
                      ELSE f[n]]
  <2>2. \A n \in 0..k : f[n] = IF n = 0 THEN <<>>
                              ELSE IF s[n].kind = "file" THEN Append(f[n - 1], s[n]) ELSE f[n - 1]
    BY <2>1 DEF Collects
  <2>3. ASSUME NEW n \in 0..(k + 1)
        PROVE  g[n] = IF n = 0 THEN <<>>
                      ELSE IF s[n].kind = "file" THEN Append(g[n - 1], s[n]) ELSE g[n - 1]
    <3>1. CASE n = k + 1
      <4>1. n # 0 /\ n - 1 = k /\ g[n - 1] = f[k]
        BY <3>1
      <4> QED
        BY <3>1, <4>1
    <3>2. CASE n \in 0..k
      <4>1. n # k + 1 /\ g[n] = f[n] /\ (n # 0 => g[n - 1] = f[n - 1])
        BY <3>2
      <4> QED
        BY <2>2, <3>2, <4>1
    <3> QED
      BY <3>1, <3>2
  <2>4. Collects(s, k + 1, g)
    BY <2>3 DEF Collects
  <2> HIDE DEF g
  <2> QED
    BY <2>4
<1>3. P \subseteq Nat
  OBVIOUS
<1> HIDE DEF P
<1>4. P = Nat
  BY <1>1, <1>2, <1>3, Counting
<1> QED
  BY <1>4 DEF P

(* FilesUpTo is what its recursive definition says. *)
LEMMA FilesDefined == ASSUME NEW s, Len(s) \in Nat PROVE Collects(s, Len(s), FilesUpTo(s))
<1>1. \E f : Collects(s, Len(s), f)
  BY FilesExist
<1> QED
  BY <1>1, Zenon DEF Collects, FilesUpTo

(* An archive without members has no files. *)
LEMMA FilesEmpty == Files(<<>>) = <<>>
  BY FilesDefined DEF Collects, Files

(* An appended file comes last, and every other member changes nothing. *)
LEMMA FilesAppend ==
    ASSUME NEW S, NEW s \in Seq(S), NEW x \in S
    PROVE  /\ Files(s) \in Seq(S)
           /\ Files(Append(s, x)) = IF x.kind = "file" THEN Append(Files(s), x) ELSE Files(s)
<1> DEFINE a == Append(s, x)
           P == {k \in Nat : k <= Len(s) => /\ FilesUpTo(a)[k] = FilesUpTo(s)[k]
                                            /\ FilesUpTo(s)[k] \in Seq(S)}
<1>1. a \in Seq(S) /\ Len(a) = Len(s) + 1 /\ a[Len(s) + 1] = x
      /\ \A n \in 1..Len(s) : a[n] = s[n]
  BY AppendProperties
<1> HIDE DEF a
<1>2. /\ FilesUpTo(s)[0] = <<>> /\ FilesUpTo(a)[0] = <<>>
      /\ \A n \in 1..Len(s) : FilesUpTo(s)[n] = Collected(FilesUpTo(s)[n - 1], s[n])
      /\ \A n \in 1..Len(a) : FilesUpTo(a)[n] = Collected(FilesUpTo(a)[n - 1], a[n])
  <2>1. Len(s) \in Nat /\ Len(a) \in Nat
    BY <1>1, LenProperties
  <2> QED
    BY <2>1, FilesDefined, CollectsUnfolds
<1>3. 0 \in P
  <2>1. <<>> \in Seq(S)
    BY EmptySeq
  <2> QED
    BY <1>2, <2>1
<1>4. ASSUME NEW k \in P PROVE k + 1 \in P
  <2>1. SUFFICES ASSUME k + 1 <= Len(s)
                 PROVE  FilesUpTo(a)[k + 1] = FilesUpTo(s)[k + 1] /\ FilesUpTo(s)[k + 1] \in Seq(S)
    OBVIOUS
  <2>2. s[k + 1] \in S /\ a[k + 1] = s[k + 1]
    BY <1>1, <2>1
  <2>3. /\ FilesUpTo(a)[k + 1] = Collected(FilesUpTo(a)[k], a[k + 1])
        /\ FilesUpTo(s)[k + 1] = Collected(FilesUpTo(s)[k], s[k + 1])
    BY <1>1, <1>2, <2>1
  <2> QED
    BY <2>1, <2>2, <2>3, AppendProperties DEF Collected
<1>5. P \subseteq Nat
  OBVIOUS
<1>6. Len(s) \in P
  <2>1. Len(s) \in Nat
    BY <1>1, LenProperties
  <2> HIDE DEF P
  <2>2. P = Nat
    BY <1>3, <1>4, <1>5, Counting
  <2> QED
    BY <2>1, <2>2
<1>7. FilesUpTo(a)[Len(s) + 1] = Collected(FilesUpTo(a)[Len(s)], x)
  BY <1>1, <1>2
<1> QED
  BY <1>1, <1>6, <1>7 DEF Files, Collected, a
===============================================================================
