------------------------ MODULE PrepareContentsProofs ------------------------
(***************************************************************************)
(* Theorems about PrepareContents, for every list of contents, every host  *)
(* and every packager.                                                     *)
(***************************************************************************)
EXTENDS PrepareContentsSpec, SequenceTheorems, FiniteSetTheorems, TLAPS

Loops == INSTANCE TarStreamProofs

-----------------------------------------------------------------------------
(***************************************************************************)
(* The path arithmetic, for paths of every length: what cleaning makes of  *)
(* a destination, and which parents are made for it.                       *)
(***************************************************************************)

(***************************************************************************)
(* The beginnings of a path.                                               *)
(***************************************************************************)
(* The first n components are n components. *)
LEMMA PrefixOf ==
    ASSUME NEW S, NEW s \in Seq(S), NEW n \in 0..Len(s)
    PROVE  /\ Len(s) \in Nat
           /\ Prefix(s, n) \in Seq(S)
           /\ Len(Prefix(s, n)) = n
           /\ \A i \in 1..n : Prefix(s, n)[i] = s[i]
<1> DEFINE p == SubSeq(s, 1, n)
<1>1. Len(s) \in Nat /\ n \in Nat /\ n <= Len(s)
  BY LenProperties
<1>2. \A i \in 1..n : s[i] \in S
  BY <1>1, LenProperties
<1>3. /\ p \in Seq(S)
      /\ Len(p) = IF 1 <= n THEN n - 1 + 1 ELSE 0
      /\ \A i \in 1..(n - 1 + 1) : p[i] = s[1 + i - 1]
  BY <1>1, <1>2, SubSeqProperties
<1> HIDE DEF p
<1>4. Len(p) = n
  BY <1>1, <1>3
<1>5. \A i \in 1..n : p[i] = s[i]
  <2>1. n - 1 + 1 = n /\ \A i \in 1..n : 1 + i - 1 = i
    BY <1>1
  <2> QED
    BY <1>3, <2>1
<1> QED
  BY <1>1, <1>3, <1>4, <1>5 DEF Prefix, p

(* All of them are the path, and none the root. *)
LEMMA WholePrefix ==
    ASSUME NEW S, NEW s \in Seq(S)
    PROVE  Prefix(s, Len(s)) = s /\ Prefix(s, 0) = <<>> /\ Len(s) \in Nat
<1>1. Len(s) \in Nat /\ 0 \in 0..Len(s) /\ Len(s) \in 0..Len(s)
  BY LenProperties
<1>2. Prefix(s, Len(s)) = s
  BY <1>1, PrefixOf, SeqEqual
<1>3. Prefix(s, 0) = <<>>
  BY <1>1, PrefixOf, EmptySeq
<1> QED
  BY <1>1, <1>2, <1>3

(* A path with a component more. *)
LEMMA PrefixNext ==
    ASSUME NEW S, NEW s \in Seq(S), NEW n \in 0..Len(s), n + 1 <= Len(s)
    PROVE  Prefix(s, n + 1) = Append(Prefix(s, n), s[n + 1]) /\ s[n + 1] \in S
<1> DEFINE p == Prefix(s, n)
           q == Prefix(s, n + 1)
           c == s[n + 1]
<1>1. n \in Nat /\ n + 1 \in 0..Len(s) /\ n + 1 \in 1..Len(s)
  BY LenProperties
<1>2. c \in S
  BY <1>1, LenProperties
<1>3. p \in Seq(S) /\ Len(p) = n /\ \A i \in 1..n : p[i] = s[i]
  BY PrefixOf
<1>4. q \in Seq(S) /\ Len(q) = n + 1 /\ \A i \in 1..(n + 1) : q[i] = s[i]
  BY <1>1, PrefixOf
<1> HIDE DEF p, q
<1>5. /\ Append(p, c) \in Seq(S) /\ Len(Append(p, c)) = n + 1
      /\ \A i \in 1..n : Append(p, c)[i] = p[i]
      /\ Append(p, c)[n + 1] = c
  BY <1>2, <1>3, AppendProperties
<1>6. ASSUME NEW i \in 1..(n + 1) PROVE q[i] = Append(p, c)[i]
  <2>1. i \in 1..n \/ i = n + 1
    BY <1>1
  <2> QED
    BY <1>3, <1>4, <1>5, <2>1
<1>7. q = Append(p, c)
  BY <1>4, <1>5, <1>6, SeqEqual
<1> QED
  BY <1>2, <1>7 DEF p, q

(* The parent of a beginning is the beginning before it. *)
LEMMA ParentOfPrefix ==
    ASSUME NEW S, NEW s \in Seq(S), NEW n \in 1..Len(s)
    PROVE  Parent(Prefix(s, n)) = Prefix(s, n - 1)
<1> DEFINE p == Prefix(s, n)
<1>1. Len(s) \in Nat /\ n - 1 \in 0..Len(s) /\ n \in 0..Len(s)
  BY LenProperties
<1>2. p \in Seq(S) /\ Len(p) = n /\ \A i \in 1..n : p[i] = s[i]
  BY <1>1, PrefixOf
<1> HIDE DEF p
<1>3. n - 1 \in 0..Len(p)
  BY <1>1, <1>2
<1>4. /\ Prefix(p, n - 1) \in Seq(S) /\ Len(Prefix(p, n - 1)) = n - 1
      /\ \A i \in 1..(n - 1) : Prefix(p, n - 1)[i] = p[i]
  BY <1>2, <1>3, PrefixOf
<1>5. /\ Prefix(s, n - 1) \in Seq(S) /\ Len(Prefix(s, n - 1)) = n - 1
      /\ \A i \in 1..(n - 1) : Prefix(s, n - 1)[i] = s[i]
  BY <1>1, PrefixOf
<1>6. \A i \in 1..(n - 1) : Prefix(p, n - 1)[i] = Prefix(s, n - 1)[i]
  <2>1. \A i \in 1..(n - 1) : i \in 1..n
    BY <1>1
  <2> QED
    BY <1>2, <1>4, <1>5, <2>1
<1>7. Prefix(p, n - 1) = Prefix(s, n - 1)
  BY <1>4, <1>5, <1>6, SeqEqual
<1> QED
  BY <1>2, <1>7 DEF Parent, p

(* The root is its own parent. *)
LEMMA ParentOfRoot == Parent(<<>>) = <<>>
<1> DEFINE none == <<>>
<1>1. none \in Seq({}) /\ Len(none) = 0
  BY EmptySeq
<1>2. Parent(none) = SubSeq(none, 1, 0 - 1)
  BY <1>1 DEF Parent, Prefix
<1> DEFINE p == SubSeq(none, 1, 0 - 1)
<1>3. \A i \in 1..(0 - 1) : none[i] \in {}
  OBVIOUS
<1> HIDE DEF none
<1>4. p \in Seq({}) /\ Len(p) = 0
  BY <1>3, SubSeqProperties
<1> HIDE DEF p
<1>5. p = <<>>
  BY <1>4, EmptySeq
<1> QED
  BY <1>2, <1>5 DEF p, none
-----------------------------------------------------------------------------
(***************************************************************************)
(* Cleaning, component by component.                                       *)
(***************************************************************************)
(* What a component does to what is clean already; in a relative path a    *)
(* ".." that has nothing to remove stays.                                  *)
Relative == 1
Absolute == 0

Step(path, c, form) ==
    IF c = UP /\ (form = Relative => path # <<>> /\ path[Len(path)] # UP)
    THEN Parent(path) ELSE Append(path, c)

Cleans(dst, N, f, form) ==
    f = [n \in 0..N |-> IF n = 0 THEN <<>> ELSE Step(f[n - 1], dst[n], form)]

(* The components are worked off to the last. *)
LEMMA CleansExist ==
    ASSUME NEW dst, NEW N \in Nat, NEW form \in {Relative, Absolute}
    PROVE  \E f : Cleans(dst, N, f, form)
<1> DEFINE P == {k \in Nat : \E f : Cleans(dst, k, f, form)}
           none == <<>>
<1>1. 0 \in P
  <2>1. Cleans(dst, 0, [n \in 0..0 |-> none], form)
    BY DEF Cleans
  <2> QED
    BY <2>1
<1>2. ASSUME NEW k \in P PROVE k + 1 \in P
  <2>1. PICK f : Cleans(dst, k, f, form)
    OBVIOUS
  <2> DEFINE g == [n \in 0..(k + 1) |->
                      IF n = k + 1 THEN Step(f[k], dst[n], form) ELSE f[n]]
  <2>2. \A n \in 0..k : f[n] = IF n = 0 THEN none ELSE Step(f[n - 1], dst[n], form)
    BY <2>1 DEF Cleans
  <2> HIDE DEF none
  <2>3. ASSUME NEW n \in 0..(k + 1)
        PROVE  g[n] = IF n = 0 THEN none ELSE Step(g[n - 1], dst[n], form)
    <3>1. CASE n = k + 1
      <4>1. n # 0 /\ n - 1 = k /\ g[n - 1] = f[k]
        BY <3>1
      <4> QED
        BY <3>1, <4>1
    <3>2. CASE n \in 0..k
      <4>1. n # k + 1 /\ g[n] = f[n] /\ (n # 0 => g[n - 1] = f[n - 1])
        BY <3>2
      <4> QED
        BY <2>2, <3>2, <4>1
    <3> QED
      BY <3>1, <3>2
  <2>4. Cleans(dst, k + 1, g, form)
    BY <2>3 DEF Cleans, none
  <2> HIDE DEF g
  <2> QED
    BY <2>4
<1>3. P \subseteq Nat
  OBVIOUS
<1> HIDE DEF P
<1>4. P = Nat
  BY <1>1, <1>2, <1>3, Loops!Counting
<1> QED
  BY <1>4 DEF P

(* The two ways to clean are what their recursive definitions say. *)
LEMMA AbsDefined ==
    ASSUME NEW dst, Len(dst) \in Nat
    PROVE  Cleans(dst, Len(dst), CleanAbsUpTo(dst), Absolute)
<1> DEFINE N == Len(dst)
           Abs(f) == f = [n \in 0..N |-> IF n = 0 THEN <<>>
                                         ELSE IF dst[n] = UP THEN Parent(f[n - 1])
                                         ELSE Append(f[n - 1], dst[n])]
<1>1. \A f : Abs(f) <=> Cleans(dst, N, f, Absolute)
  BY DEF Cleans, Step, Relative, Absolute
<1>2. \E f : Abs(f)
  BY <1>1, CleansExist
<1>3. Abs(CleanAbsUpTo(dst))
  BY <1>2, Zenon DEF CleanAbsUpTo
<1> QED
  BY <1>1, <1>3

LEMMA RelDefined ==
    ASSUME NEW dst, Len(dst) \in Nat
    PROVE  Cleans(dst, Len(dst), CleanRelUpTo(dst), Relative)
<1> DEFINE N == Len(dst)
           Rel(f) == f = [n \in 0..N |->
                            IF n = 0 THEN <<>>
                            ELSE IF dst[n] = UP /\ f[n - 1] # <<>>
                                    /\ f[n - 1][Len(f[n - 1])] # UP
                                 THEN Parent(f[n - 1])
                            ELSE Append(f[n - 1], dst[n])]
<1>1. \A f : Rel(f) <=> Cleans(dst, N, f, Relative)
  BY DEF Cleans, Step, Relative, Absolute
<1>2. \E f : Rel(f)
  BY <1>1, CleansExist
<1>3. Rel(CleanRelUpTo(dst))
  BY <1>2, Zenon DEF CleanRelUpTo
<1> QED
  BY <1>1, <1>3

LEMMA CleansUnfolds ==
    ASSUME NEW dst, NEW N \in Nat, NEW f, NEW form, Cleans(dst, N, f, form)
    PROVE  f[0] = <<>> /\ \A n \in 1..N : f[n] = Step(f[n - 1], dst[n], form)
<1> DEFINE none == <<>>
<1>1. \A n \in 0..N : f[n] = IF n = 0 THEN none ELSE Step(f[n - 1], dst[n], form)
  BY DEF Cleans
<1> HIDE DEF none
<1>2. \A n \in 1..N : n \in 0..N /\ n # 0
  OBVIOUS
<1>3. f[0] = none
  BY <1>1
<1> QED
  BY <1>1, <1>2, <1>3 DEF none

(* What becomes of the first component does not depend on what follows. *)
LEMMA CleansAlike ==
    ASSUME NEW S, NEW dst \in Seq(S), NEW N \in 0..Len(dst), NEW form,
           NEW f, Cleans(dst, Len(dst), f, form),
           NEW g, Cleans(Prefix(dst, N), N, g, form)
    PROVE  g[N] = f[N]
<1> DEFINE P == {k \in Nat : k <= N => g[k] = f[k]}
           p == Prefix(dst, N)
<1>1. Len(dst) \in Nat /\ N \in Nat /\ N <= Len(dst) /\ \A i \in 1..N : p[i] = dst[i]
  BY PrefixOf
<1>2. /\ f[0] = <<>> /\ \A n \in 1..Len(dst) : f[n] = Step(f[n - 1], dst[n], form)
      /\ g[0] = <<>> /\ \A n \in 1..N : g[n] = Step(g[n - 1], p[n], form)
  BY <1>1, CleansUnfolds
<1> HIDE DEF p
<1>3. 0 \in P
  BY <1>2
<1>4. ASSUME NEW k \in P PROVE k + 1 \in P
  <2>1. SUFFICES ASSUME k + 1 <= N PROVE g[k + 1] = f[k + 1]
    OBVIOUS
  <2>2. k + 1 \in 1..N /\ k + 1 \in 1..Len(dst) /\ k + 1 - 1 = k /\ k <= N
    BY <1>1, <2>1
  <2> QED
    BY <1>1, <1>2, <2>2
<1>5. P \subseteq Nat
  OBVIOUS
<1>6. N \in P
  <2> HIDE DEF P
  <2>1. P = Nat
    BY <1>3, <1>4, <1>5, Loops!Counting
  <2> QED
    BY <1>1, <2>1
<1> QED
  BY <1>1, <1>6

-----------------------------------------------------------------------------
(***************************************************************************)
(* Clean paths.                                                            *)
(***************************************************************************)
(* A clean relative path climbs k levels and then goes down by names; a    *)
(* clean absolute one is names alone.                                      *)
Reads(S, rel, k, names) ==
    /\ k \in Nat
    /\ rel \in Seq(S \cup {UP})
    /\ names \in Seq(S)
    /\ Len(rel) = k + Len(names)
    /\ \A i \in 1..k : rel[i] = UP
    /\ \A i \in 1..Len(names) : rel[k + i] = names[i]

(* A name goes down. *)
LEMMA NameReads ==
    ASSUME NEW S, NEW rel, NEW k, NEW names, Reads(S, rel, k, names), NEW c \in S
    PROVE  Reads(S, Append(rel, c), k, Append(names, c))
<1>1. /\ k \in Nat /\ rel \in Seq(S \cup {UP}) /\ names \in Seq(S)
      /\ Len(rel) = k + Len(names)
      /\ \A i \in 1..k : rel[i] = UP
      /\ \A i \in 1..Len(names) : rel[k + i] = names[i]
      /\ Len(names) \in Nat /\ Len(rel) \in Nat
  BY LenProperties DEF Reads
<1> DEFINE r == Append(rel, c)
           n == Append(names, c)
<1>2. /\ r \in Seq(S \cup {UP}) /\ Len(r) = Len(rel) + 1
      /\ \A i \in 1..Len(rel) : r[i] = rel[i]
      /\ r[Len(rel) + 1] = c
  <2> DEFINE T == S \cup {UP}
  <2>1. c \in T /\ rel \in Seq(T)
    BY <1>1
  <2> HIDE DEF T
  <2>2. /\ Append(rel, c) \in Seq(T) /\ Len(Append(rel, c)) = Len(rel) + 1
        /\ \A i \in 1..Len(rel) : Append(rel, c)[i] = rel[i]
        /\ Append(rel, c)[Len(rel) + 1] = c
    BY <2>1, AppendProperties
  <2> QED
    BY <2>2 DEF T
<1>3. /\ n \in Seq(S) /\ Len(n) = Len(names) + 1
      /\ \A i \in 1..Len(names) : n[i] = names[i]
      /\ n[Len(names) + 1] = c
  BY <1>1, AppendProperties
<1> HIDE DEF r, n
<1>4. Len(r) = k + Len(n)
  BY <1>1, <1>2, <1>3
<1>5. \A i \in 1..k : r[i] = UP
  <2>1. \A i \in 1..k : i \in 1..Len(rel)
    BY <1>1
  <2> QED
    BY <1>1, <1>2, <2>1
<1>6. ASSUME NEW i \in 1..Len(n) PROVE r[k + i] = n[i]
  <2>1. CASE i \in 1..Len(names)
    <3>1. k + i \in 1..Len(rel)
      BY <1>1, <2>1
    <3> QED
      BY <1>1, <1>2, <1>3, <2>1, <3>1
  <2>2. CASE i = Len(names) + 1
    <3>1. k + i = Len(rel) + 1
      BY <1>1, <2>2
    <3> QED
      BY <1>2, <1>3, <2>2, <3>1
  <2>3. i \in 1..Len(names) \/ i = Len(names) + 1
    BY <1>1, <1>3
  <2> QED
    BY <2>1, <2>2, <2>3
<1> QED
  BY <1>1, <1>2, <1>3, <1>4, <1>5, <1>6 DEF Reads, r, n

(* At the top of a relative path, a ".." climbs. *)
LEMMA UpReads ==
    ASSUME NEW S, NEW rel, NEW k, Reads(S, rel, k, <<>>)
    PROVE  Reads(S, Append(rel, UP), k + 1, <<>>)
<1> DEFINE none == <<>>
           r == Append(rel, UP)
<1>1. /\ k \in Nat /\ rel \in Seq(S \cup {UP}) /\ none \in Seq(S) /\ Len(none) = 0
      /\ Len(rel) = k
      /\ \A i \in 1..k : rel[i] = UP
  BY EmptySeq DEF Reads
<1>2. /\ r \in Seq(S \cup {UP}) /\ Len(r) = Len(rel) + 1
      /\ \A i \in 1..Len(rel) : r[i] = rel[i]
      /\ r[Len(rel) + 1] = UP
  <2>1. UP \in S \cup {UP}
    OBVIOUS
  <2> QED
    BY <1>1, <2>1, AppendProperties
<1> HIDE DEF r, none
<1>3. ASSUME NEW i \in 1..(k + 1) PROVE r[i] = UP
  <2>1. i \in 1..k \/ i = k + 1
    BY <1>1
  <2> QED
    BY <1>1, <1>2, <2>1
<1>4. Len(r) = k + 1 + Len(none) /\ k + 1 \in Nat /\ 1..Len(none) = {}
  BY <1>1, <1>2
<1>5. Reads(S, r, k + 1, none)
  BY <1>1, <1>2, <1>3, <1>4 DEF Reads
<1> QED
  BY <1>5 DEF r, none

(* The beginning of a clean path is clean. *)
LEMMA PrefixReads ==
    ASSUME NEW S, NEW rel, NEW k, NEW names, Reads(S, rel, k, names), NEW n \in k..Len(rel)
    PROVE  /\ n - k \in 0..Len(names)
           /\ Reads(S, Prefix(rel, n), k, Prefix(names, n - k))
<1>1. /\ k \in Nat /\ rel \in Seq(S \cup {UP}) /\ names \in Seq(S)
      /\ Len(rel) = k + Len(names)
      /\ \A i \in 1..k : rel[i] = UP
      /\ \A i \in 1..Len(names) : rel[k + i] = names[i]
      /\ Len(names) \in Nat /\ Len(rel) \in Nat
  BY LenProperties DEF Reads
<1> DEFINE r == Prefix(rel, n)
           m == Prefix(names, n - k)
<1>2. n \in 0..Len(rel) /\ n - k \in 0..Len(names) /\ k + (n - k) = n
  BY <1>1
<1>3. r \in Seq(S \cup {UP}) /\ Len(r) = n /\ \A i \in 1..n : r[i] = rel[i]
  BY <1>1, <1>2, PrefixOf
<1>4. m \in Seq(S) /\ Len(m) = n - k /\ \A i \in 1..(n - k) : m[i] = names[i]
  BY <1>1, <1>2, PrefixOf
<1> HIDE DEF r, m
<1>5. \A i \in 1..k : i \in 1..n
  BY <1>1
<1>6. \A i \in 1..(n - k) : i \in 1..Len(names) /\ k + i \in 1..n
  BY <1>1
<1>7. Reads(S, r, k, m)
  BY <1>1, <1>2, <1>3, <1>4, <1>5, <1>6 DEF Reads
<1> QED
  BY <1>2, <1>7 DEF r, m
LEMMA ClimbReads ==
    ASSUME NEW S, NEW rel, NEW k, NEW names, Reads(S, rel, k, names), NEW n \in 0..k
    PROVE  Reads(S, Prefix(rel, n), n, <<>>)
<1> DEFINE none == <<>>
           r == Prefix(rel, n)
<1>1. /\ k \in Nat /\ rel \in Seq(S \cup {UP}) /\ Len(rel) = k + Len(names)
      /\ \A i \in 1..k : rel[i] = UP
      /\ Len(names) \in Nat /\ none \in Seq(S) /\ Len(none) = 0
  BY LenProperties, EmptySeq DEF Reads
<1>2. n \in 0..Len(rel) /\ n \in Nat
  BY <1>1
<1>3. r \in Seq(S \cup {UP}) /\ Len(r) = n /\ \A i \in 1..n : r[i] = rel[i]
  BY <1>1, <1>2, PrefixOf
<1> HIDE DEF r, none
<1>4. \A i \in 1..n : i \in 1..k
  BY <1>1, <1>2
<1>5. Len(r) = n + Len(none) /\ 1..Len(none) = {}
  BY <1>1, <1>2, <1>3
<1>6. Reads(S, r, n, none)
  BY <1>1, <1>2, <1>3, <1>4, <1>5 DEF Reads
<1> QED
  BY <1>6 DEF r, none

(* Of a relative path and of what it is below the root, the next component *)
(* makes such two paths again.                                             *)
LEMMA StepReads ==
    ASSUME NEW S, UP \notin S, NEW rel, NEW k, NEW names, Reads(S, rel, k, names),
           NEW c \in S \cup {UP}
    PROVE  \E j \in Nat : Reads(S, Step(rel, c, Relative), j, Step(names, c, Absolute))
<1>1. /\ k \in Nat /\ rel \in Seq(S \cup {UP}) /\ names \in Seq(S)
      /\ Len(rel) = k + Len(names)
      /\ \A i \in 1..k : rel[i] = UP
      /\ \A i \in 1..Len(names) : rel[k + i] = names[i] /\ names[i] \in S
      /\ Len(names) \in Nat /\ Len(rel) \in Nat
  BY LenProperties DEF Reads
<1>2. CASE c \in S
  <2>1. Step(rel, c, Relative) = Append(rel, c) /\ Step(names, c, Absolute) = Append(names, c)
    BY <1>2 DEF Step, Relative, Absolute
  <2> QED
    BY <1>1, <1>2, <2>1, NameReads
<1>3. CASE c = UP /\ Len(names) # 0
  <2>1. rel[Len(rel)] # UP
    <3>1. Len(names) \in 1..Len(names) /\ k + Len(names) = Len(rel)
      BY <1>1, <1>3
    <3> QED
      BY <1>1, <3>1
  <2>2. rel # <<>>
    <3>1. Len(rel) # 0
      BY <1>1, <1>3
    <3> QED
      BY <1>1, <3>1, EmptySeq
  <2>3. Step(rel, c, Relative) = Parent(rel) /\ Step(names, c, Absolute) = Parent(names)
    BY <1>3, <2>1, <2>2 DEF Step, Relative, Absolute
  <2> DEFINE n == Len(rel) - 1
  <2>4. n \in k..Len(rel) /\ n - k = Len(names) - 1
    BY <1>1, <1>3
  <2>5. Parent(rel) = Prefix(rel, n) /\ Parent(names) = Prefix(names, n - k)
    BY <2>4 DEF Parent
  <2> HIDE DEF n
  <2> QED
    BY <1>1, <2>3, <2>4, <2>5, PrefixReads
<1>4. CASE c = UP /\ Len(names) = 0
  <2>1. names = <<>>
    BY <1>1, <1>4, EmptySeq
  <2>2. rel = <<>> \/ rel[Len(rel)] = UP
    <3>1. CASE k = 0
      <4>1. Len(rel) = 0
        BY <1>1, <1>4, <3>1
      <4> QED
        BY <1>1, <4>1, EmptySeq
    <3>2. CASE k # 0
      <4>1. Len(rel) = k /\ k \in 1..k
        BY <1>1, <1>4, <3>2
      <4> QED
        BY <1>1, <4>1
    <3> QED
      BY <3>1, <3>2
  <2>3. Step(rel, c, Relative) = Append(rel, UP)
    BY <1>4, <2>2 DEF Step, Relative, Absolute
  <2>4. Step(names, c, Absolute) = <<>>
    BY <1>4, <2>1, ParentOfRoot DEF Step, Relative, Absolute
  <2>5. Reads(S, Append(rel, UP), k + 1, <<>>) /\ k + 1 \in Nat
    BY <1>1, <2>1, UpReads
  <2> QED
    BY <2>3, <2>4, <2>5
<1> QED
  BY <1>2, <1>3, <1>4

(* So cleaning the relative and the absolute form of a destination never   *)
(* part: the one is the other, except for the levels it climbs.            *)
LEMMA CleaningAgrees ==
    ASSUME NEW S, UP \notin S, NEW dst \in Seq(S \cup {UP})
    PROVE  \E k \in Nat : Reads(S, CleanRel(dst), k, CleanAbs(dst))
<1> DEFINE N == Len(dst)
           f == CleanRelUpTo(dst)
           g == CleanAbsUpTo(dst)
           P == {m \in Nat : m <= N => \E k \in Nat : Reads(S, f[m], k, g[m])}
<1>1. N \in Nat /\ \A m \in 1..N : dst[m] \in S \cup {UP}
  BY LenProperties
<1>2. /\ f[0] = <<>> /\ \A m \in 1..N : f[m] = Step(f[m - 1], dst[m], Relative)
      /\ g[0] = <<>> /\ \A m \in 1..N : g[m] = Step(g[m - 1], dst[m], Absolute)
  <2>1. Cleans(dst, N, f, Relative) /\ Cleans(dst, N, g, Absolute)
    BY <1>1, RelDefined, AbsDefined
  <2> HIDE DEF f, g, N
  <2> QED
    BY <1>1, <2>1, CleansUnfolds
<1> HIDE DEF f, g, N
<1>3. 0 \in P
  <2> DEFINE none == <<>>
  <2>1. none \in Seq(S) /\ none \in Seq(S \cup {UP}) /\ Len(none) = 0
    BY EmptySeq
  <2>2. f[0] = none /\ g[0] = none
    BY <1>2
  <2> HIDE DEF none
  <2>3. Reads(S, none, 0, none)
    BY <2>1 DEF Reads
  <2> QED
    BY <2>2, <2>3
<1>4. ASSUME NEW m \in P PROVE m + 1 \in P
  <2>1. SUFFICES ASSUME m + 1 <= N PROVE \E k \in Nat : Reads(S, f[m + 1], k, g[m + 1])
    OBVIOUS
  <2>2. m + 1 \in 1..N /\ m + 1 - 1 = m /\ m <= N
    BY <1>1, <2>1
  <2>3. f[m + 1] = Step(f[m], dst[m + 1], Relative) /\ g[m + 1] = Step(g[m], dst[m + 1], Absolute)
    BY <1>2, <2>2
  <2>4. PICK k \in Nat : Reads(S, f[m], k, g[m])
    BY <2>2
  <2>5. dst[m + 1] \in S \cup {UP}
    BY <1>1, <2>2
  <2> QED
    BY <2>3, <2>4, <2>5, StepReads
<1>5. P \subseteq Nat
  OBVIOUS
<1>6. N \in P
  <2> HIDE DEF P
  <2>1. P = Nat
    BY <1>3, <1>4, <1>5, Loops!Counting
  <2> QED
    BY <1>1, <2>1
<1>7. \E k \in Nat : Reads(S, f[N], k, g[N])
  BY <1>1, <1>6
<1> QED
  BY <1>7 DEF CleanRel, CleanAbs, f, g, N

(* What is left of the first m components: names, once the levels that     *)
(* they climb are worked off.                                              *)
NamesAmong(k, names, m) == IF m <= k THEN <<>> ELSE Prefix(names, m - k)

(* Making a clean path absolute leaves the names. *)
LEMMA AbsOfClean ==
    ASSUME NEW S, UP \notin S, NEW rel, NEW k, NEW names, Reads(S, rel, k, names)
    PROVE  CleanAbs(rel) = names
<1> DEFINE N == Len(rel)
           g == CleanAbsUpTo(rel)
           P == {m \in Nat : m <= N => g[m] = NamesAmong(k, names, m)}
<1>1. /\ k \in Nat /\ rel \in Seq(S \cup {UP}) /\ names \in Seq(S)
      /\ N = k + Len(names)
      /\ \A i \in 1..k : rel[i] = UP
      /\ \A i \in 1..Len(names) : rel[k + i] = names[i] /\ names[i] \in S
      /\ Len(names) \in Nat /\ N \in Nat
  BY LenProperties DEF Reads
<1>2. g[0] = <<>> /\ \A m \in 1..N : g[m] = Step(g[m - 1], rel[m], Absolute)
  <2>1. Cleans(rel, N, g, Absolute)
    BY <1>1, AbsDefined
  <2> HIDE DEF g, N
  <2> QED
    BY <1>1, <2>1, CleansUnfolds
<1> HIDE DEF g, N
<1>3. 0 \in P
  BY <1>1, <1>2 DEF NamesAmong
<1>4. ASSUME NEW m \in P PROVE m + 1 \in P
  <2>1. SUFFICES ASSUME m + 1 <= N PROVE g[m + 1] = NamesAmong(k, names, m + 1)
    OBVIOUS
  <2>2. m + 1 \in 1..N /\ m + 1 - 1 = m /\ m <= N /\ m \in Nat
    BY <1>1, <2>1
  <2>3. g[m + 1] = Step(g[m], rel[m + 1], Absolute)
        /\ g[m] = NamesAmong(k, names, m)
    BY <1>2, <2>2
  <2>4. CASE m + 1 <= k
    <3>1. m + 1 \in 1..k /\ m <= k
      BY <1>1, <2>2, <2>4
    <3>2. rel[m + 1] = UP /\ g[m] = <<>>
      BY <1>1, <2>3, <3>1 DEF NamesAmong
    <3>3. g[m + 1] = <<>>
      BY <2>3, <3>2, ParentOfRoot DEF Step, Relative, Absolute
    <3> QED
      BY <2>4, <3>3 DEF NamesAmong
  <2>5. CASE ~ (m + 1 <= k)
    <3> DEFINE i == m - k
    <3>1. i \in 0..Len(names) /\ i + 1 <= Len(names) /\ i + 1 \in 1..Len(names)
          /\ k + (i + 1) = m + 1 /\ m + 1 - k = i + 1 /\ (m <= k => i = 0)
      BY <1>1, <2>2, <2>5
    <3>2. g[m] = Prefix(names, i)
      <4>1. Prefix(names, 0) = <<>>
        BY <1>1, WholePrefix
      <4> QED
        BY <2>3, <3>1, <4>1 DEF NamesAmong
    <3> HIDE DEF i
    <3>3. rel[m + 1] = names[i + 1] /\ rel[m + 1] # UP
      <4>1. rel[k + (i + 1)] = names[i + 1] /\ names[i + 1] \in S
        BY <1>1, <3>1
      <4> QED
        BY <3>1, <4>1
    <3>4. g[m + 1] = Append(Prefix(names, i), names[i + 1])
      BY <2>3, <3>2, <3>3 DEF Step, Relative, Absolute
    <3>5. Prefix(names, i + 1) = Append(Prefix(names, i), names[i + 1])
      BY <1>1, <3>1, PrefixNext
    <3> DEFINE n == m + 1
    <3>6. n = m + 1 /\ ~ (n <= k) /\ n - k = i + 1
      BY <1>1, <2>2, <2>5, <3>1
    <3> HIDE DEF n
    <3>7. NamesAmong(k, names, n) = Prefix(names, n - k)
      BY <3>6 DEF NamesAmong
    <3> QED
      BY <3>4, <3>5, <3>6, <3>7
  <2> QED
    BY <2>4, <2>5
<1>5. P \subseteq Nat
  OBVIOUS
<1>6. N \in P
  <2> HIDE DEF P
  <2>1. P = Nat
    BY <1>3, <1>4, <1>5, Loops!Counting
  <2> QED
    BY <1>1, <2>1
<1>7. g[N] = names
  <2>1. Prefix(names, Len(names)) = names /\ Prefix(names, 0) = <<>>
    BY <1>1, WholePrefix
  <2>2. g[N] = IF N <= k THEN <<>> ELSE Prefix(names, N - k)
    BY <1>1, <1>6 DEF NamesAmong
  <2>3. N - k = Len(names) /\ (N <= k => Len(names) = 0)
    BY <1>1
  <2> QED
    BY <2>1, <2>2, <2>3
<1> QED
  BY <1>7 DEF CleanAbs, g, N
(* A clean path stays as it is. *)
LEMMA RelOfClean ==
    ASSUME NEW S, UP \notin S, NEW rel, NEW k, NEW names, Reads(S, rel, k, names)
    PROVE  CleanRel(rel) = rel
<1> DEFINE N == Len(rel)
           f == CleanRelUpTo(rel)
           P == {m \in Nat : m <= N => f[m] = Prefix(rel, m)}
<1>1. /\ k \in Nat /\ rel \in Seq(S \cup {UP}) /\ N = k + Len(names)
      /\ \A i \in 1..k : rel[i] = UP
      /\ \A i \in 1..Len(names) : rel[k + i] = names[i] /\ names[i] \in S
      /\ Len(names) \in Nat /\ N \in Nat
  BY LenProperties DEF Reads
<1>2. f[0] = <<>> /\ \A m \in 1..N : f[m] = Step(f[m - 1], rel[m], Relative)
  <2>1. Cleans(rel, N, f, Relative)
    BY <1>1, RelDefined
  <2> HIDE DEF f, N
  <2> QED
    BY <1>1, <2>1, CleansUnfolds
<1>3. /\ \A m \in 0..N : /\ Prefix(rel, m) \in Seq(S \cup {UP})
                        /\ Len(Prefix(rel, m)) = m
                        /\ \A i \in 1..m : Prefix(rel, m)[i] = rel[i]
      /\ \A m \in 0..N : m + 1 <= N => Prefix(rel, m + 1) = Append(Prefix(rel, m), rel[m + 1])
      /\ Prefix(rel, 0) = <<>> /\ Prefix(rel, N) = rel
  BY <1>1, PrefixOf, PrefixNext, WholePrefix
<1> HIDE DEF f, N
<1>4. 0 \in P
  BY <1>2, <1>3
<1>5. ASSUME NEW m \in P PROVE m + 1 \in P
  <2>1. SUFFICES ASSUME m + 1 <= N PROVE f[m + 1] = Prefix(rel, m + 1)
    OBVIOUS
  <2>2. m + 1 \in 1..N /\ m + 1 - 1 = m /\ m \in 0..N /\ m \in Nat
    BY <1>1, <2>1
  <2> DEFINE p == Prefix(rel, m)
  <2>3. f[m + 1] = Step(p, rel[m + 1], Relative)
    BY <1>2, <2>2
  <2>4. /\ Len(p) = m /\ \A i \in 1..m : p[i] = rel[i]
        /\ Prefix(rel, m + 1) = Append(p, rel[m + 1])
        /\ m = 0 => p = <<>>
    BY <1>3, <2>1, <2>2
  <2> HIDE DEF p
  <2>5. rel[m + 1] = UP => p = <<>> \/ p[Len(p)] = UP
    <3>1. CASE m + 1 <= k
      <4>1. m = 0 \/ (m \in 1..k /\ m \in 1..m)
        BY <1>1, <2>2, <3>1
      <4> QED
        BY <1>1, <2>4, <4>1
    <3>2. CASE ~ (m + 1 <= k)
      <4> DEFINE i == m + 1 - k
      <4>1. i \in 1..Len(names) /\ k + i = m + 1
        BY <1>1, <2>2, <3>2
      <4> HIDE DEF i
      <4>2. rel[k + i] = names[i] /\ names[i] \in S
        BY <1>1, <4>1
      <4>3. rel[m + 1] \in S
        BY <4>1, <4>2
      <4> QED
        BY <4>3
    <3> QED
      BY <3>1, <3>2
  <2>6. f[m + 1] = Append(p, rel[m + 1])
    BY <2>3, <2>5 DEF Step
  <2> QED
    BY <2>4, <2>6
<1>6. P \subseteq Nat
  OBVIOUS
<1>7. N \in P
  <2> HIDE DEF P
  <2>1. P = Nat
    BY <1>4, <1>5, <1>6, Loops!Counting
  <2> QED
    BY <1>1, <2>1
<1>8. f[N] = rel
  BY <1>1, <1>3, <1>7
<1> QED
  BY <1>8 DEF CleanRel, f, N

(* Names alone are clean. *)
LEMMA NamesRead == ASSUME NEW S, NEW names \in Seq(S) PROVE Reads(S, names, 0, names)
<1>1. names \in Seq(S \cup {UP}) /\ Len(names) \in Nat
  BY SeqMonotonic, LenProperties
<1>2. 1..0 = {} /\ Len(names) = 0 + Len(names) /\ \A i \in 1..Len(names) : 0 + i = i
  BY <1>1
<1> QED
  BY <1>1, <1>2 DEF Reads

-----------------------------------------------------------------------------
(***************************************************************************)
(* The parents of a destination.                                           *)
(***************************************************************************)
LEMMA ParentIsPath ==
    ASSUME NEW S, NEW s \in Seq(S)
    PROVE  Parent(s) \in Seq(S)
<1>1. CASE s = <<>>
  BY <1>1, ParentOfRoot, EmptySeq
<1>2. CASE s # <<>>
  <2>1. Len(s) \in Nat /\ Len(s) # 0
    BY <1>2, LenProperties, EmptySeq
  <2>2. Len(s) - 1 \in 0..Len(s)
    BY <2>1
  <2> QED
    BY <2>2, PrefixOf DEF Parent
<1> QED
  BY <1>1, <1>2

(* The last component of a destination is worked off last. *)
LEMMA AbsOfLast ==
    ASSUME NEW S, NEW dst \in Seq(S), dst # <<>>
    PROVE  CleanAbs(dst) = Step(CleanAbs(Parent(dst)), dst[Len(dst)], Absolute)
<1> DEFINE N == Len(dst) - 1
           p == Prefix(dst, N)
           f == CleanAbsUpTo(dst)
           g == CleanAbsUpTo(p)
<1>1. Len(dst) \in Nat /\ Len(dst) # 0
  BY LenProperties, EmptySeq
<1>2. N \in 0..Len(dst) /\ N \in Nat /\ Len(dst) \in 1..Len(dst)
  BY <1>1
<1>3. Parent(dst) = p
  BY DEF Parent
<1>4. Len(p) = N
  BY <1>2, PrefixOf
<1>5. Cleans(dst, Len(dst), f, Absolute)
  BY <1>1, AbsDefined
<1> HIDE DEF N, f
<1>6. Cleans(p, N, g, Absolute)
  BY <1>2, <1>4, AbsDefined
<1> HIDE DEF g
<1>7. g[N] = f[N]
  BY <1>2, <1>5, <1>6, CleansAlike
<1>8. f[Len(dst)] = Step(f[N], dst[Len(dst)], Absolute)
  BY <1>1, <1>2, <1>5, CleansUnfolds DEF N
<1>9. CleanAbs(p) = g[N] /\ CleanAbs(dst) = f[Len(dst)]
  BY <1>4 DEF CleanAbs, f, g
<1> QED
  BY <1>3, <1>7, <1>8, <1>9

(* The parents that are made are the beginnings of the directory a         *)
(* destination is in, and, if it climbs out of the root, the root.         *)
LEMMA ParentsOf ==
    ASSUME NEW S, UP \notin S, NEW dst \in Seq(S \cup {UP})
    PROVE  LET names == CleanAbs(Parent(dst)) IN
           /\ names \in Seq(S) /\ Len(names) \in Nat
           /\ \A j \in 1..Len(names) : Prefix(names, j) \in ParentPaths(dst)
           /\ \A p \in ParentPaths(dst) :
                 p = <<>> \/ \E j \in 1..Len(names) : p = Prefix(names, j)
<1> DEFINE d == Parent(dst)
           names == CleanAbs(d)
           rel == CleanRel(d)
<1>1. d \in Seq(S \cup {UP})
  BY ParentIsPath
<1> HIDE DEF d
<1>2. PICK k \in Nat : Reads(S, rel, k, names)
  BY <1>1, CleaningAgrees
<1>3. ParentPaths(dst) = {CleanAbs(Prefix(rel, n)) : n \in 1..Len(rel)}
  BY DEF ParentPaths, d
<1> HIDE DEF names, rel
<1>4. names \in Seq(S) /\ Len(names) \in Nat /\ Len(rel) = k + Len(names)
  BY <1>2, LenProperties DEF Reads
<1>5. ASSUME NEW j \in 1..Len(names) PROVE Prefix(names, j) \in ParentPaths(dst)
  <2> DEFINE n == k + j
  <2>1. n \in k..Len(rel) /\ n \in 1..Len(rel) /\ n - k = j
    BY <1>2, <1>4
  <2> HIDE DEF n
  <2>2. Reads(S, Prefix(rel, n), k, Prefix(names, n - k))
    BY <1>2, <2>1, PrefixReads
  <2>3. CleanAbs(Prefix(rel, n)) = Prefix(names, n - k)
    BY <2>2, AbsOfClean
  <2>4. CleanAbs(Prefix(rel, n)) = Prefix(names, j)
    BY <2>1, <2>3
  <2> QED
    BY <1>3, <2>1, <2>4
<1>6. ASSUME NEW p \in ParentPaths(dst)
      PROVE  p = <<>> \/ \E j \in 1..Len(names) : p = Prefix(names, j)
  <2>1. PICK n \in 1..Len(rel) : p = CleanAbs(Prefix(rel, n))
    BY <1>3
  <2>2. CASE n <= k
    <3>1. n \in 0..k
      BY <1>2, <2>2
    <3>2. Reads(S, Prefix(rel, n), n, <<>>)
      BY <1>2, <3>1, ClimbReads
    <3>3. CleanAbs(Prefix(rel, n)) = <<>>
      BY <3>2, AbsOfClean
    <3> QED
      BY <2>1, <3>3
  <2>3. CASE ~ (n <= k)
    <3>1. n \in k..Len(rel) /\ n - k \in 1..Len(names)
      BY <1>2, <1>4, <2>3
    <3>2. Reads(S, Prefix(rel, n), k, Prefix(names, n - k))
      BY <1>2, <3>1, PrefixReads
    <3>3. CleanAbs(Prefix(rel, n)) = Prefix(names, n - k)
      BY <3>2, AbsOfClean
    <3> QED
      BY <2>1, <3>1, <3>3
  <2> QED
    BY <2>2, <2>3
<1> QED
  BY <1>4, <1>5, <1>6 DEF names, d
-----------------------------------------------------------------------------
(***************************************************************************)
(* What the table of contents needs of the parents it makes.               *)
(***************************************************************************)
(* The parents made for a destination lead from the root to it. *)
LeadsTo(dst, path) ==
    /\ Parent(path) # <<>> => Parent(path) \in ParentPaths(dst)
    /\ \A p \in ParentPaths(dst) : Parent(p) # <<>> => Parent(p) \in ParentPaths(dst)

LEMMA ParentOfAppend ==
    ASSUME NEW S, NEW s \in Seq(S), NEW c \in S
    PROVE  Append(s, c) \in Seq(S) /\ Parent(Append(s, c)) = s
<1> DEFINE t == Append(s, c)
           N == Len(s)
<1>1. /\ t \in Seq(S) /\ Len(t) = N + 1 /\ N \in Nat
      /\ \A i \in 1..N : t[i] = s[i]
  BY AppendProperties, LenProperties
<1> HIDE DEF t
<1>2. N \in 0..Len(t) /\ Len(t) - 1 = N
  BY <1>1
<1>3. /\ Prefix(t, N) \in Seq(S) /\ Len(Prefix(t, N)) = N
      /\ \A i \in 1..N : Prefix(t, N)[i] = t[i]
  BY <1>1, <1>2, PrefixOf
<1>4. Prefix(t, N) = s
  BY <1>1, <1>3, SeqEqual
<1> QED
  BY <1>1, <1>2, <1>4 DEF Parent, t

(* Where a destination is: in the directory its parents lead to, or, when  *)
(* it ends in "..", one above.                                             *)
LEMMA PlaceOf ==
    ASSUME NEW S, UP \notin S, NEW dst \in Seq(S \cup {UP})
    PROVE  LET path == CleanAbs(dst)
               names == CleanAbs(Parent(dst))
           IN /\ path \in Seq(S)
              /\ dst = <<>> => path = <<>>
              /\ Parent(path) = names \/ Parent(path) = Parent(Parent(names))
              /\ dst # <<>> /\ dst[Len(dst)] # UP => Parent(path) = names
<1> DEFINE path == CleanAbs(dst)
           names == CleanAbs(Parent(dst))
           c == dst[Len(dst)]
<1>1. names \in Seq(S)
  BY ParentsOf
<1>2. CASE dst = <<>>
  <2>1. CleanAbs(<<>>) = <<>>
    <3> DEFINE none == <<>>
    <3>1. Len(none) = 0 /\ none \in Seq({})
      BY EmptySeq
    <3> HIDE DEF none
    <3>2. Cleans(none, 0, CleanAbsUpTo(none), Absolute)
      BY <3>1, AbsDefined
    <3>3. CleanAbsUpTo(none)[0] = <<>>
      BY <3>2, CleansUnfolds
    <3> QED
      BY <3>1, <3>3 DEF CleanAbs, none
  <2>2. Parent(dst) = dst
    BY <1>2, ParentOfRoot
  <2>3. path = <<>> /\ names = <<>>
    BY <1>2, <2>1, <2>2
  <2> HIDE DEF path, names
  <2>4. path \in Seq(S) /\ Parent(path) = names
    BY <2>3, ParentOfRoot, EmptySeq
  <2> QED
    BY <1>2, <2>3, <2>4 DEF path, names
<1>3. CASE dst # <<>>
  <2>1. path = Step(names, c, Absolute)
    BY <1>3, AbsOfLast
  <2>2. Len(dst) \in 1..Len(dst) /\ \A i \in 1..Len(dst) : dst[i] \in S \cup {UP}
    <3>1. Len(dst) \in Nat /\ Len(dst) # 0
      BY <1>3, LenProperties, EmptySeq
    <3> QED
      BY <3>1, LenProperties
  <2>3. c \in S \cup {UP}
    BY <2>2
  <2> HIDE DEF path, names, c
  <2>4. path = IF c = UP THEN Parent(names) ELSE Append(names, c)
    BY <2>1 DEF Step, Absolute, Relative
  <2>5. CASE c = UP
    <3>1. path = Parent(names)
      BY <2>4, <2>5
    <3>2. path \in Seq(S)
      BY <1>1, <3>1, ParentIsPath
    <3>3. Parent(path) = names \/ Parent(path) = Parent(Parent(names))
      BY <3>1
    <3> QED
      BY <1>3, <2>5, <3>2, <3>3 DEF path, names, c
  <2>6. CASE c # UP
    <3>1. path = Append(names, c) /\ c \in S
      BY <2>3, <2>4, <2>6
    <3>2. path \in Seq(S) /\ Parent(path) = names
      BY <1>1, <3>1, ParentOfAppend
    <3> QED
      BY <1>3, <3>2 DEF path, names, c
  <2> QED
    BY <2>5, <2>6
<1> QED
  BY <1>2, <1>3

(* The ways up from a path that begins with names are its beginnings. *)
LEMMA UpFromPrefix ==
    ASSUME NEW S, NEW names \in Seq(S), NEW n \in 0..Len(names), NEW made,
           \A j \in 1..Len(names) : Prefix(names, j) \in made
    PROVE  LET p == Prefix(names, n) IN
           /\ p # <<>> => p \in made
           /\ Parent(p) # <<>> => Parent(p) \in made
           /\ Parent(Parent(p)) # <<>> => Parent(Parent(p)) \in made
<1>1. Len(names) \in Nat /\ Prefix(names, 0) = <<>>
  BY WholePrefix
<1>2. ASSUME NEW j \in 0..Len(names) PROVE Prefix(names, j) # <<>> => Prefix(names, j) \in made
  <2>1. CASE j = 0
    BY <1>1, <2>1
  <2>2. CASE j # 0
    <3>1. j \in 1..Len(names)
      BY <1>1, <2>2
    <3> QED
      BY <3>1
  <2> QED
    BY <2>1, <2>2
<1>3. ASSUME NEW j \in 0..Len(names)
      PROVE  \E i \in 0..Len(names) : Parent(Prefix(names, j)) = Prefix(names, i)
  <2>1. CASE j = 0
    <3>1. Parent(Prefix(names, 0)) = Prefix(names, 0)
      BY <1>1, ParentOfRoot
    <3> QED
      BY <2>1, <3>1
  <2>2. CASE j # 0
    <3>1. j \in 1..Len(names) /\ j - 1 \in 0..Len(names)
      BY <1>1, <2>2
    <3>2. Parent(Prefix(names, j)) = Prefix(names, j - 1)
      BY <3>1, ParentOfPrefix
    <3> QED
      BY <3>1, <3>2
  <2> QED
    BY <2>1, <2>2
<1>4. PICK i \in 0..Len(names) : Parent(Prefix(names, n)) = Prefix(names, i)
  BY <1>3
<1>5. PICK h \in 0..Len(names) : Parent(Prefix(names, i)) = Prefix(names, h)
  BY <1>3
<1> QED
  BY <1>2, <1>4, <1>5

(* So the parents made for a destination lead to it. *)
LEMMA PathsLead ==
    ASSUME NEW S, UP \notin S, NEW dst \in Seq(S \cup {UP})
    PROVE  /\ CleanAbs(dst) \in Seq(S)
           /\ dst = <<>> => CleanAbs(dst) = <<>>
           /\ LeadsTo(dst, CleanAbs(dst))
           /\ ParentPaths(dst) \subseteq Seq(S)
<1> DEFINE names == CleanAbs(Parent(dst))
           path == CleanAbs(dst)
           made == ParentPaths(dst)
           N == Len(names)
<1>1. /\ names \in Seq(S) /\ N \in Nat
      /\ \A j \in 1..N : Prefix(names, j) \in made
      /\ \A p \in made : p = <<>> \/ \E j \in 1..N : p = Prefix(names, j)
  BY ParentsOf
<1>2. /\ path \in Seq(S)
      /\ dst = <<>> => path = <<>>
      /\ Parent(path) = names \/ Parent(path) = Parent(Parent(names))
  BY PlaceOf
<1> HIDE DEF names, path, made
<1>3. N \in 0..N /\ Prefix(names, N) = names
  BY <1>1, WholePrefix
<1>4. Parent(path) # <<>> => Parent(path) \in made
  <2>1. /\ names # <<>> => names \in made
        /\ Parent(Parent(names)) # <<>> => Parent(Parent(names)) \in made
    BY <1>1, <1>3, UpFromPrefix
  <2> QED
    BY <1>2, <2>1
<1>5. ASSUME NEW p \in made
      PROVE  /\ p \in Seq(S)
             /\ Parent(p) # <<>> => Parent(p) \in made
  <2>1. CASE p = <<>>
    BY <2>1, ParentOfRoot, EmptySeq
  <2>2. CASE \E j \in 1..N : p = Prefix(names, j)
    <3>1. PICK j \in 1..N : p = Prefix(names, j)
      BY <2>2
    <3>2. j \in 0..N
      BY <1>1
    <3>3. Prefix(names, j) \in Seq(S)
      BY <1>1, <3>2, PrefixOf
    <3>4. Parent(Prefix(names, j)) # <<>> => Parent(Prefix(names, j)) \in made
      BY <1>1, <3>2, UpFromPrefix
    <3> QED
      BY <3>1, <3>3, <3>4
  <2> QED
    BY <1>1, <2>1, <2>2
<1>6. LeadsTo(dst, path)
  BY <1>4, <1>5 DEF LeadsTo, made
<1> QED
  BY <1>2, <1>5, <1>6 DEF path, made

(* Names alone are their own place. *)
LEMMA CleanStays ==
    ASSUME NEW S, UP \notin S, NEW path \in Seq(S)
    PROVE  CleanAbs(path) = path /\ CleanRel(path) = path /\ path \in Seq(S \cup {UP})
<1>1. Reads(S, path, 0, path)
  BY NamesRead
<1> QED
  BY <1>1, AbsOfClean, RelOfClean DEF Reads
(* Unless it ends in "..", the parents made for a destination are above    *)
(* it.                                                                     *)
LEMMA ParentsAbove ==
    ASSUME NEW S, UP \notin S, NEW dst \in Seq(S \cup {UP}), dst = <<>> \/ dst[Len(dst)] # UP
    PROVE  ParentPaths(dst) \subseteq Ancestors(CleanAbs(dst)) \cup {<<>>}
<1> DEFINE names == CleanAbs(Parent(dst))
           path == CleanAbs(dst)
           N == Len(names)
<1>1. /\ names \in Seq(S) /\ N \in Nat
      /\ \A p \in ParentPaths(dst) : p = <<>> \/ \E j \in 1..N : p = Prefix(names, j)
  BY ParentsOf
<1>2. path \in Seq(S) /\ (dst = <<>> => path = <<>>)
  BY PathsLead
<1>3. CASE dst = <<>>
  <2>1. names = path /\ path = <<>>
    BY <1>2, <1>3, ParentOfRoot
  <2> HIDE DEF names, path
  <2>2. 1..N = {}
    BY <1>1, <2>1, EmptySeq
  <2> QED
    BY <1>1, <2>2 DEF path
<1>4. CASE dst # <<>>
  <2>1. Parent(path) = names
    BY <1>4, PlaceOf
  <2> HIDE DEF names, path
  <2>2. ASSUME NEW j \in 1..N PROVE Prefix(names, j) \in Ancestors(path)
    <3>1. path # <<>>
      BY <1>1, <2>1, ParentOfRoot, EmptySeq
    <3>2. Len(path) \in Nat /\ Len(path) # 0
      BY <1>2, <3>1, LenProperties, EmptySeq
    <3>3. Len(path) - 1 \in 0..Len(path)
      BY <3>2
    <3>4. N = Len(path) - 1 /\ \A i \in 1..N : names[i] = path[i]
      BY <1>2, <2>1, <3>3, PrefixOf, SMTT(30) DEF Parent, N
    <3>5. j \in 1..(Len(path) - 1) /\ j \in 0..Len(path) /\ j \in 0..N
      BY <1>1, <3>2, <3>4
    <3>6. /\ Prefix(names, j) \in Seq(S) /\ Len(Prefix(names, j)) = j
          /\ \A i \in 1..j : Prefix(names, j)[i] = names[i]
      BY <1>1, <3>5, PrefixOf
    <3>7. /\ Prefix(path, j) \in Seq(S) /\ Len(Prefix(path, j)) = j
          /\ \A i \in 1..j : Prefix(path, j)[i] = path[i]
      BY <1>2, <3>5, PrefixOf
    <3>8. \A i \in 1..j : i \in 1..N
      BY <1>1, <3>5
    <3>9. Prefix(names, j) = Prefix(path, j)
      BY <3>4, <3>6, <3>7, <3>8, SeqEqual
    <3> QED
      BY <3>5, <3>9 DEF Ancestors
  <2> QED
    BY <1>1, <2>2 DEF path
<1> QED
  BY <1>3, <1>4
-----------------------------------------------------------------------------
(***************************************************************************)
(* The order of strings, a total one.                                      *)
(***************************************************************************)
Strings == Seq(Nat)

(* s and t have the first n characters in common. *)
Common(s, t, n) ==
    n \in Nat /\ n <= Len(s) /\ n <= Len(t) /\ \A i \in 1..n : s[i] = t[i]

(* s sorts before t at the character after the first n. *)
Below(s, t, n) ==
    /\ Common(s, t, n)
    /\ n < Len(t)
    /\ n < Len(s) => s[n + 1] < t[n + 1]

LEMMA CommonPrefix ==
    ASSUME NEW s \in Strings, NEW t \in Strings, NEW n \in Nat, n <= Len(s), n <= Len(t)
    PROVE  Common(s, t, n) <=> Prefix(s, n) = Prefix(t, n)
<1>1. Len(s) \in Nat /\ Len(t) \in Nat
  BY LenProperties DEF Strings
<1>2. n \in 0..Len(s) /\ n \in 0..Len(t)
  BY <1>1
<1>3. /\ Prefix(s, n) \in Seq(Nat) /\ Len(Prefix(s, n)) = n
      /\ \A i \in 1..n : Prefix(s, n)[i] = s[i]
  BY <1>2, PrefixOf DEF Strings
<1>4. /\ Prefix(t, n) \in Seq(Nat) /\ Len(Prefix(t, n)) = n
      /\ \A i \in 1..n : Prefix(t, n)[i] = t[i]
  BY <1>2, PrefixOf DEF Strings
<1>5. ASSUME Common(s, t, n) PROVE Prefix(s, n) = Prefix(t, n)
  <2>1. \A i \in 1..n : Prefix(s, n)[i] = Prefix(t, n)[i]
    BY <1>3, <1>4, <1>5 DEF Common
  <2> QED
    BY <1>3, <1>4, <2>1, SeqEqual
<1>6. ASSUME Prefix(s, n) = Prefix(t, n) PROVE Common(s, t, n)
  BY <1>3, <1>4, <1>6 DEF Common
<1> QED
  BY <1>5, <1>6

LEMMA LessIsBelow ==
    ASSUME NEW s \in Strings, NEW t \in Strings
    PROVE  StringLess(s, t) <=> \E n \in Nat : Below(s, t, n)
<1>1. Len(s) \in Nat /\ Len(t) \in Nat /\ Prefix(s, Len(s)) = s
  BY LenProperties, WholePrefix DEF Strings
<1>2. ASSUME Len(s) < Len(t), Prefix(t, Len(s)) = s PROVE Below(s, t, Len(s))
  <2>1. Len(s) <= Len(s) /\ Len(s) <= Len(t) /\ ~ (Len(s) < Len(s))
    BY <1>1, <1>2
  <2>2. Common(s, t, Len(s))
    BY <1>1, <1>2, <2>1, CommonPrefix
  <2> QED
    BY <1>2, <2>1, <2>2 DEF Below
<1>3. ASSUME NEW i \in 1..Len(s), i <= Len(t), Prefix(s, i - 1) = Prefix(t, i - 1), s[i] < t[i]
      PROVE  Below(s, t, i - 1)
  <2>1. i - 1 \in Nat /\ i - 1 <= Len(s) /\ i - 1 < Len(t) /\ i - 1 <= Len(t) /\ i - 1 + 1 = i
    BY <1>1, <1>3
  <2>2. Common(s, t, i - 1)
    BY <1>3, <2>1, CommonPrefix
  <2> QED
    BY <1>3, <2>1, <2>2 DEF Below
<1>4. ASSUME NEW n \in Nat, Below(s, t, n) PROVE StringLess(s, t)
  <2>1. Common(s, t, n) /\ n <= Len(s) /\ n <= Len(t) /\ n < Len(t)
    BY <1>4 DEF Below, Common
  <2>2. Prefix(s, n) = Prefix(t, n)
    BY <2>1, CommonPrefix
  <2>3. CASE n = Len(s)
    BY <1>1, <2>1, <2>2, <2>3 DEF StringLess
  <2>4. CASE n # Len(s)
    <3> DEFINE i == n + 1
    <3>1. n < Len(s) /\ i \in 1..Len(s) /\ i <= Len(t) /\ i - 1 = n
      BY <1>1, <2>1, <2>4
    <3>2. s[i] < t[i]
      BY <1>4, <3>1 DEF Below
    <3> HIDE DEF i
    <3>3. Prefix(s, i - 1) = Prefix(t, i - 1)
      BY <2>2, <3>1
    <3> QED
      BY <3>1, <3>2, <3>3 DEF StringLess
  <2> QED
    BY <2>3, <2>4
<1>5. ASSUME StringLess(s, t) PROVE \E n \in Nat : Below(s, t, n)
  <2>1. CASE Len(s) < Len(t) /\ Prefix(t, Len(s)) = s
    BY <1>1, <1>2, <2>1
  <2>2. CASE \E i \in 1..Len(s) :
                i <= Len(t) /\ Prefix(s, i - 1) = Prefix(t, i - 1) /\ s[i] < t[i]
    <3>1. PICK i \in 1..Len(s) :
             i <= Len(t) /\ Prefix(s, i - 1) = Prefix(t, i - 1) /\ s[i] < t[i]
      BY <2>2
    <3>2. Below(s, t, i - 1) /\ i - 1 \in Nat
      BY <1>3, <3>1
    <3> QED
      BY <3>2
  <2> QED
    BY <1>5, <2>1, <2>2 DEF StringLess
<1> QED
  BY <1>4, <1>5

(* No string sorts before itself, *)
LEMMA LessIrreflexive == ASSUME NEW s \in Strings PROVE ~ StringLess(s, s)
<1> SUFFICES ASSUME NEW n \in Nat, Below(s, s, n) PROVE FALSE
  BY LessIsBelow
<1>1. Len(s) \in Nat /\ n < Len(s)
  BY LenProperties DEF Strings, Below
<1>2. n + 1 \in 1..Len(s) /\ \A i \in 1..Len(s) : s[i] \in Nat
  BY <1>1, LenProperties DEF Strings
<1>3. s[n + 1] \in Nat /\ s[n + 1] < s[n + 1]
  BY <1>1, <1>2 DEF Below
<1> QED
  BY <1>3

(* a string sorts before all that its followers sort before, *)
LEMMA LessTransitive ==
    ASSUME NEW s \in Strings, NEW t \in Strings, NEW u \in Strings,
           StringLess(s, t), StringLess(t, u)
    PROVE  StringLess(s, u)
<1>1. PICK n \in Nat : Below(s, t, n)
  BY LessIsBelow
<1>2. PICK m \in Nat : Below(t, u, m)
  BY LessIsBelow
<1>3. /\ Len(s) \in Nat /\ Len(t) \in Nat /\ Len(u) \in Nat
      /\ \A i \in 1..Len(s) : s[i] \in Nat
      /\ \A i \in 1..Len(t) : t[i] \in Nat
      /\ \A i \in 1..Len(u) : u[i] \in Nat
  BY LenProperties DEF Strings
<1>4. /\ n <= Len(s) /\ n < Len(t) /\ \A i \in 1..n : s[i] = t[i]
      /\ n < Len(s) => s[n + 1] < t[n + 1]
  BY <1>1 DEF Below, Common
<1>5. /\ m <= Len(t) /\ m < Len(u) /\ \A i \in 1..m : t[i] = u[i]
      /\ m < Len(t) => t[m + 1] < u[m + 1]
  BY <1>2 DEF Below, Common
<1>6. CASE n < m
  <2>1. /\ n < Len(u) /\ n <= Len(u) /\ n + 1 \in 1..m
        /\ \A i \in 1..n : i \in 1..m
    BY <1>3, <1>5, <1>6
  <2>2. \A i \in 1..n : s[i] = u[i]
    BY <1>4, <1>5, <2>1
  <2>3. n < Len(s) => s[n + 1] < u[n + 1]
    BY <1>4, <1>5, <2>1
  <2>4. Below(s, u, n)
    BY <1>4, <2>1, <2>2, <2>3 DEF Below, Common
  <2> QED
    BY <2>4, LessIsBelow
<1>7. CASE ~ (n < m)
  <2>1. /\ m <= n /\ m <= Len(s) /\ m < Len(t) /\ m <= Len(u)
        /\ \A i \in 1..m : i \in 1..n
    BY <1>3, <1>4, <1>5, <1>7
  <2>2. \A i \in 1..m : s[i] = u[i]
    BY <1>4, <1>5, <2>1
  <2>3. ASSUME m < Len(s) PROVE s[m + 1] < u[m + 1]
    <3>1. m + 1 \in 1..Len(s) /\ m + 1 \in 1..Len(t) /\ m + 1 \in 1..Len(u)
      BY <1>3, <1>5, <2>1, <2>3
    <3>2. s[m + 1] \in Nat /\ t[m + 1] \in Nat /\ u[m + 1] \in Nat
      BY <1>3, <3>1
    <3>3. t[m + 1] < u[m + 1]
      BY <1>5, <2>1
    <3>4. CASE m = n
      <4>1. s[m + 1] < t[m + 1]
        BY <1>4, <2>3, <3>4
      <4> QED
        BY <3>2, <3>3, <4>1
    <3>5. CASE m # n
      <4>1. m + 1 \in 1..n
        BY <2>1, <3>5
      <4> QED
        BY <1>4, <3>3, <4>1
    <3> QED
      BY <3>4, <3>5
  <2>4. Below(s, u, m)
    BY <1>5, <2>1, <2>2, <2>3 DEF Below, Common
  <2> QED
    BY <2>4, LessIsBelow
<1> QED
  BY <1>6, <1>7

(* and of two strings one sorts before the other. *)
LEMMA LessTotal ==
    ASSUME NEW s \in Strings, NEW t \in Strings, s # t
    PROVE  StringLess(s, t) \/ StringLess(t, s)
<1> DEFINE P == {n \in Nat : n <= Len(s) /\ n <= Len(t) => \A i \in 1..n : s[i] = t[i]}
<1>1. /\ Len(s) \in Nat /\ Len(t) \in Nat
      /\ \A i \in 1..Len(s) : s[i] \in Nat
      /\ \A i \in 1..Len(t) : t[i] \in Nat
  BY LenProperties DEF Strings
<1>2. 0 \in P /\ P \subseteq Nat
  OBVIOUS
<1>3. CASE \E n \in P : n + 1 \notin P
  <2>1. PICK n \in P : n + 1 \notin P
    BY <1>3
  <2>2. n \in Nat /\ n + 1 <= Len(s) /\ n + 1 <= Len(t)
    BY <2>1
  <2>3. n < Len(s) /\ n < Len(t) /\ n <= Len(s) /\ n <= Len(t)
    BY <1>1, <2>2
  <2>4. \A i \in 1..n : s[i] = t[i]
    BY <2>1, <2>3
  <2>5. s[n + 1] # t[n + 1]
    <3>1. PICK i \in 1..(n + 1) : s[i] # t[i]
      BY <2>1, <2>2
    <3>2. i = n + 1
      BY <2>2, <2>4, <3>1
    <3> QED
      BY <3>1, <3>2
  <2>6. s[n + 1] \in Nat /\ t[n + 1] \in Nat
    BY <1>1, <2>2
  <2>7. s[n + 1] < t[n + 1] \/ t[n + 1] < s[n + 1]
    BY <2>5, <2>6
  <2>8. Below(s, t, n) \/ Below(t, s, n)
    BY <2>2, <2>3, <2>4, <2>7 DEF Below, Common
  <2> QED
    BY <2>2, <2>8, LessIsBelow
<1>4. CASE \A n \in P : n + 1 \in P
  <2>1. P = Nat
    <3> HIDE DEF P
    <3> QED
      BY <1>2, <1>4, Loops!Counting
  <2>2. \A n \in Nat : n <= Len(s) /\ n <= Len(t) => \A i \in 1..n : s[i] = t[i]
    BY <2>1
  <2>3. CASE Len(s) = Len(t)
    <3>1. \A i \in 1..Len(s) : s[i] = t[i]
      BY <1>1, <2>2, <2>3
    <3> QED
      BY <2>3, <3>1, SeqEqual DEF Strings
  <2>4. CASE Len(s) < Len(t)
    <3>1. Below(s, t, Len(s))
      BY <1>1, <2>2, <2>4 DEF Below, Common
    <3> QED
      BY <1>1, <3>1, LessIsBelow
  <2>5. CASE Len(t) < Len(s)
    <3>1. Below(t, s, Len(t))
      BY <1>1, <2>2, <2>5 DEF Below, Common
    <3> QED
      BY <1>1, <3>1, LessIsBelow
  <2> QED
    BY <1>1, <2>3, <2>4, <2>5
<1> QED
  BY <1>3, <1>4
LEMMA OneCharacter ==
    ASSUME NEW S, NEW c \in S
    PROVE  <<c>> \in Seq(S) /\ Len(<<c>>) = 1 /\ <<c>>[1] = c
  OBVIOUS

(* s and a with the character c between them, and what that looks like. *)
Joint(s, c, a) == s \o <<c>> \o a

Joins(j, c, s, a) ==
    /\ j \in Strings
    /\ Len(s) \in Nat /\ Len(a) \in Nat
    /\ Len(j) = Len(s) + 1 + Len(a)
    /\ \A i \in 1..Len(s) : j[i] = s[i]
    /\ j[Len(s) + 1] = c
    /\ \A i \in 1..Len(a) : j[Len(s) + 1 + i] = a[i]

LEMMA JoinedBy ==
    ASSUME NEW c \in Nat, NEW s \in Strings, NEW a \in Strings
    PROVE  Joins(Joint(s, c, a), c, s, a)
<1> DEFINE sc == Append(s, c)
           j == sc \o a
<1>1. s \o <<c>> = sc
  BY AppendIsConcat DEF Strings
<1>2. Len(s) \in Nat /\ Len(a) \in Nat
  BY LenProperties DEF Strings
<1>3. /\ sc \in Strings /\ Len(sc) = Len(s) + 1
      /\ \A i \in 1..Len(s) : sc[i] = s[i]
      /\ sc[Len(s) + 1] = c
  BY AppendProperties DEF Strings
<1> HIDE DEF sc
<1>4. /\ j \in Strings /\ Len(j) = Len(sc) + Len(a)
      /\ \A i \in 1..(Len(sc) + Len(a)) : j[i] = IF i <= Len(sc) THEN sc[i] ELSE a[i - Len(sc)]
  BY <1>3, ConcatProperties DEF Strings
<1> HIDE DEF j
<1>5. \A i \in 1..Len(s) : j[i] = s[i]
  <2>1. \A i \in 1..Len(s) : i \in 1..(Len(sc) + Len(a)) /\ i <= Len(sc)
    BY <1>2, <1>3
  <2> QED
    BY <1>3, <1>4, <2>1
<1>6. j[Len(s) + 1] = c
  BY <1>2, <1>3, <1>4
<1>7. ASSUME NEW i \in 1..Len(a) PROVE j[Len(s) + 1 + i] = a[i]
  <2> DEFINE k == Len(s) + 1 + i
  <2>1. k \in 1..(Len(sc) + Len(a)) /\ ~ (k <= Len(sc)) /\ k - Len(sc) = i
    BY <1>2, <1>3
  <2> HIDE DEF k
  <2>2. j[k] = a[i]
    BY <1>4, <2>1
  <2> QED
    BY <2>2 DEF k
<1>8. Joint(s, c, a) = j
  BY <1>1 DEF j, Joint
<1>9. Joins(j, c, s, a)
  BY <1>2, <1>3, <1>4, <1>5, <1>6, <1>7 DEF Joins
<1> QED
  BY <1>8, <1>9

(* The last c in a string cuts it in one way. *)
Without(c) == Seq(Nat \ {c})

LEMMA CutAtLast ==
    ASSUME NEW c \in Nat, NEW s \in Strings, NEW t \in Strings,
           NEW a \in Without(c), NEW b \in Without(c),
           Joint(s, c, a) = Joint(t, c, b)
    PROVE  s = t /\ a = b
<1> DEFINE j == Joint(s, c, a)
<1>1. a \in Strings /\ b \in Strings
  BY SeqMonotonic DEF Strings, Without
<1>2. /\ \A i \in 1..Len(a) : a[i] # c
      /\ \A i \in 1..Len(b) : b[i] # c
  <2>1. /\ \A i \in 1..Len(a) : a[i] \in Nat \ {c}
        /\ \A i \in 1..Len(b) : b[i] \in Nat \ {c}
    BY LenProperties DEF Without
  <2> QED
    BY <2>1
<1>3. /\ Len(s) \in Nat /\ Len(a) \in Nat
      /\ Len(j) = Len(s) + 1 + Len(a)
      /\ \A i \in 1..Len(s) : j[i] = s[i]
      /\ j[Len(s) + 1] = c
      /\ \A i \in 1..Len(a) : j[Len(s) + 1 + i] = a[i]
  <2>1. Joins(j, c, s, a)
    BY <1>1, JoinedBy
  <2> HIDE DEF j
  <2> QED
    BY <2>1 DEF Joins
<1>4. j = Joint(t, c, b)
  OBVIOUS
<1> HIDE DEF j
<1>5. /\ Len(t) \in Nat /\ Len(b) \in Nat
      /\ Len(j) = Len(t) + 1 + Len(b)
      /\ \A i \in 1..Len(t) : j[i] = t[i]
      /\ j[Len(t) + 1] = c
      /\ \A i \in 1..Len(b) : j[Len(t) + 1 + i] = b[i]
  <2>1. Joins(Joint(t, c, b), c, t, b)
    BY <1>1, JoinedBy
  <2>2. Joins(j, c, t, b)
    BY <1>4, <2>1
  <2> QED
    BY <2>2 DEF Joins
<1>6. ~ (Len(s) < Len(t))
  <2> SUFFICES ASSUME Len(s) < Len(t) PROVE FALSE
    OBVIOUS
  <2> DEFINE i == Len(t) - Len(s)
  <2>1. i \in 1..Len(a) /\ Len(s) + 1 + i = Len(t) + 1
    BY <1>3, <1>5
  <2> HIDE DEF i
  <2>2. j[Len(t) + 1] = a[i]
    BY <1>3, <2>1
  <2> QED
    BY <1>2, <1>5, <2>1, <2>2
<1>7. ~ (Len(t) < Len(s))
  <2> SUFFICES ASSUME Len(t) < Len(s) PROVE FALSE
    OBVIOUS
  <2> DEFINE i == Len(s) - Len(t)
  <2>1. i \in 1..Len(b) /\ Len(t) + 1 + i = Len(s) + 1
    BY <1>3, <1>5
  <2> HIDE DEF i
  <2>2. j[Len(s) + 1] = b[i]
    BY <1>5, <2>1
  <2> QED
    BY <1>2, <1>3, <2>1, <2>2
<1>8. Len(s) = Len(t) /\ Len(a) = Len(b)
  BY <1>3, <1>5, <1>6, <1>7
<1>9. s = t
  <2>1. \A i \in 1..Len(s) : s[i] = t[i]
    BY <1>3, <1>5, <1>8
  <2> QED
    BY <1>8, <2>1, SeqEqual DEF Strings
<1>10. a = b
  <2>1. \A i \in 1..Len(a) : a[i] = b[i]
    BY <1>3, <1>5, <1>8
  <2> QED
    BY <1>1, <1>8, <2>1, SeqEqual DEF Strings
<1> QED
  BY <1>9, <1>10

(* A string sorts before those that it begins. *)
LEMMA BeginningBelow ==
    ASSUME NEW s \in Strings, NEW t \in Strings, Len(s) < Len(t),
           \A i \in 1..Len(s) : s[i] = t[i]
    PROVE  StringLess(s, t)
<1>1. Len(s) \in Nat /\ Len(t) \in Nat
  BY LenProperties DEF Strings
<1>2. Below(s, t, Len(s))
  BY <1>1 DEF Below, Common
<1> QED
  BY <1>1, <1>2, LessIsBelow

-----------------------------------------------------------------------------
(***************************************************************************)
(* The inductive invariant.                                                *)
(***************************************************************************)
(* ParentsPresent and KeyFormMatchesType, of any table. *)
Closed(tab) ==
    \A k \in DOMAIN tab :
        Parent(k.path) # <<>> => DirKey(Parent(k.path)) \in DOMAIN tab

GoodEntry(key, entry) ==
    /\ key.dir \in BOOLEAN
    /\ entry.type \in EntryTypes
    /\ entry.owner \in Owner \ {""}
    /\ key.dir = TRUE <=> entry.type \in DirTypes

WellFormed(tab) == \A k \in DOMAIN tab : GoodEntry(k, tab[k])

(* What a glob that is being added and a tree that is being walked have    *)
(* established: the entry handled is a glob or a tree of the list, and the *)
(* directories visited so far are in the table.                            *)
GlobInv ==
    pc = "glob" =>
        /\ next <= Len(contents)
        /\ IsGlob(Current)
        /\ pending \subseteq Matches[Current.src].files

WalkInv ==
    pc = "walk" =>
        /\ next <= Len(contents)
        /\ IsTree(Current)
        /\ LET path == CleanAbs(Current.dst) IN
              Parent(path) # <<>> => DirKey(Parent(path)) \in DOMAIN table
        /\ \A h \in 1..(node - 1) :
              LET n == TreeOf[Current.src][h] IN
              n.kind = "dir" => \/ NodePath(Current, n) = <<>>
                                \/ DirKey(NodePath(Current, n)) \in DOMAIN table

IInv ==
    /\ contents \in Seq(Contents)
    /\ next \in Nat \ {0}
    /\ node \in Nat \ {0}
    /\ pc \in {"next", "glob", "walk", "done", "error"}
    /\ DOMAIN position \subseteq DOMAIN table
    /\ WellFormed(table)
    /\ Closed(table)
    /\ GlobInv
    /\ WalkInv

-----------------------------------------------------------------------------
(* The parents made for every destination lead to it. *)
LEMMA PathsKnown ==
    ASSUME NEW c \in Contents
    PROVE  /\ CleanAbs(c.dst) \in Seq(Names)
           /\ c.dst = <<>> => CleanAbs(c.dst) = <<>>
           /\ LeadsTo(c.dst, CleanAbs(c.dst))
           /\ ParentPaths(c.dst) \subseteq Seq(Names)
<1>1. UP \notin Names /\ c.dst \in Seq(Names \cup {UP})
  BY NamesAssumption
<1> QED
  BY <1>1, PathsLead

(* A match of a glob goes to a cleaned absolute path of known names.       *)
LEMMA MatchesKnown ==
    ASSUME NEW c \in Contents, c.type \in FileTypes \cup {""},
           NEW m \in Matches[c.src].files
    PROVE  LET dst == GlobDestination(c, m) IN
           /\ dst \in Seq(Names)
           /\ LeadsTo(dst, dst)
           /\ ParentPaths(dst) \subseteq Seq(Names)
<1> DEFINE below == IF c.slash THEN <<m.base>> ELSE m.rel
           dst == GlobDestination(c, m)
<1>1. /\ UP \notin Names /\ c.dst \in Seq(Names \cup {UP})
      /\ m.base \in Names /\ m.rel \in Seq(Names \cup {UP})
  BY NamesAssumption
<1> DEFINE T == Names \cup {UP}
           base == m.base
           list == c.dst
           rel == m.rel
<1>2. list \in Seq(T) /\ base \in T /\ rel \in Seq(T)
  BY <1>1
<1>3. dst = CleanAbs(c.dst \o below)
  BY DEF GlobDestination
<1>4. list \o below \in Seq(T)
  <2>1. CASE c.slash
    <3>1. below = <<base>>
      BY <2>1
    <3> HIDE DEF below, base, list, T
    <3>2. list \o below = Append(list, base)
      BY <1>2, <3>1, AppendIsConcat
    <3>3. Append(list, base) \in Seq(T)
      BY <1>2, AppendProperties
    <3> QED
      BY <3>2, <3>3
  <2>2. CASE ~c.slash
    <3>1. below = rel
      BY <2>2
    <3> HIDE DEF below, rel, list, T
    <3> QED
      BY <1>2, <3>1, ConcatProperties
  <2> QED
    BY <2>1, <2>2
<1> HIDE DEF below, dst
<1>5. dst \in Seq(Names)
  BY <1>1, <1>3, <1>4, PathsLead
<1>6. CleanAbs(dst) = dst /\ dst \in Seq(Names \cup {UP})
  BY <1>1, <1>5, CleanStays
<1>7. LeadsTo(dst, CleanAbs(dst)) /\ ParentPaths(dst) \subseteq Seq(Names)
  BY <1>1, <1>6, PathsLead
<1> QED
  BY <1>5, <1>6, <1>7 DEF dst

(* filepath.Dir of a cleaned path drops its last name.                     *)
LEMMA ParentOfNonEmpty ==
    ASSUME NEW S, NEW t \in Seq(S), t # <<>>
    PROVE  /\ Len(t) \in Nat \ {0}
           /\ Parent(t) \in Seq(S)
           /\ Len(Parent(t)) = Len(t) - 1
           /\ \A i \in 1..(Len(t) - 1) : Parent(t)[i] = t[i]
<1> DEFINE n == Len(t) - 1
<1>1. Len(t) \in Nat \ {0} /\ n \in Nat
  BY EmptySeq, LenProperties
<1>2. \A i \in 1..n : t[i] \in S
  BY <1>1, LenProperties
<1> HIDE DEF n
<1>3. /\ SubSeq(t, 1, n) \in Seq(S)
      /\ Len(SubSeq(t, 1, n)) = IF 1 <= n THEN n - 1 + 1 ELSE 0
      /\ \A i \in 1..(n - 1 + 1) : SubSeq(t, 1, n)[i] = t[1 + i - 1]
  BY <1>1, <1>2, SubSeqProperties
<1>4. Len(SubSeq(t, 1, n)) = n
  BY <1>1, <1>3
<1>5. \A i \in 1..n : SubSeq(t, 1, n)[i] = t[i]
  BY <1>1, <1>3
<1> QED
  BY <1>1, <1>3, <1>4, <1>5 DEF Parent, Prefix, n

(* What is appended to a path hides it from filepath.Dir.                  *)
LEMMA ParentOfConcat ==
    ASSUME NEW S, NEW s \in Seq(S), NEW t \in Seq(S), t # <<>>
    PROVE  Parent(s \o t) = s \o Parent(t)
<1> DEFINE st == s \o t
           p  == Parent(t)
           sp == s \o p
           pst == Parent(st)
<1>1. Len(s) \in Nat
  BY LenProperties
<1>2. /\ Len(t) \in Nat \ {0}
      /\ p \in Seq(S)
      /\ Len(p) = Len(t) - 1
      /\ \A i \in 1..(Len(t) - 1) : p[i] = t[i]
  BY ParentOfNonEmpty
<1> HIDE DEF p
<1>3. /\ st \in Seq(S)
      /\ Len(st) = Len(s) + Len(t)
      /\ \A i \in 1..(Len(s) + Len(t)) :
            st[i] = IF i <= Len(s) THEN s[i] ELSE t[i - Len(s)]
  BY ConcatProperties
<1>4. /\ sp \in Seq(S)
      /\ Len(sp) = Len(s) + Len(p)
      /\ \A i \in 1..(Len(s) + Len(p)) :
            sp[i] = IF i <= Len(s) THEN s[i] ELSE p[i - Len(s)]
  BY <1>2, ConcatProperties
<1> HIDE DEF st, sp
<1>5. st # <<>>
  BY <1>1, <1>2, <1>3, EmptySeq
<1>6. /\ pst \in Seq(S)
      /\ Len(pst) = Len(st) - 1
      /\ \A i \in 1..(Len(st) - 1) : pst[i] = st[i]
  BY <1>3, <1>5, ParentOfNonEmpty
<1> HIDE DEF pst
<1>7. Len(pst) = Len(sp)
  BY <1>1, <1>2, <1>3, <1>4, <1>6
<1>8. ASSUME NEW i \in 1..Len(pst)
      PROVE  pst[i] = sp[i]
  <2>1. /\ i \in 1..(Len(s) + Len(t))
        /\ i \in 1..(Len(s) + Len(p))
        /\ ~(i <= Len(s)) => i - Len(s) \in 1..(Len(t) - 1)
    BY <1>1, <1>2, <1>4, <1>7
  <2>2. pst[i] = st[i]
    BY <1>6
  <2> QED
    BY <1>2, <1>3, <1>4, <2>1, <2>2
<1> QED
  BY <1>4, <1>6, <1>7, <1>8, SeqEqual DEF pst, sp, st, p

(* The fields of a key and of an entry.                                    *)
LEMMA KeyFields ==
    \A p : /\ DirKey(p).path = p  /\ DirKey(p).dir = TRUE
           /\ FileKey(p).path = p /\ FileKey(p).dir = FALSE
BY DEF DirKey, FileKey

LEMMA EntryFields ==
    \A type, owner, src : /\ Entry(type, owner, src).type = type
                          /\ Entry(type, owner, src).owner = OwnerOrRoot(owner)
BY DEF Entry

(* addParents leaves no entry without its directory, and adds the one      *)
(* that the entry to come needs.                                           *)
LEMMA ClosedWithParents ==
    ASSUME Closed(table), NEW dst, NEW path, NEW owner, LeadsTo(dst, path)
    PROVE  /\ Closed(WithParents(dst, owner))
           /\ Parent(path) # <<>> =>
                 DirKey(Parent(path)) \in DOMAIN WithParents(dst, owner)
           /\ DOMAIN table \subseteq DOMAIN WithParents(dst, owner)
<1>1. DOMAIN WithParents(dst, owner) =
         DOMAIN table \cup {DirKey(p) : p \in ParentPaths(dst)}
  BY DEF WithParents
<1>2. ASSUME NEW k \in DOMAIN WithParents(dst, owner), Parent(k.path) # <<>>
      PROVE  DirKey(Parent(k.path)) \in DOMAIN WithParents(dst, owner)
  <2>1. CASE k \in DOMAIN table
    BY <1>1, <1>2, <2>1 DEF Closed
  <2>2. CASE \E p \in ParentPaths(dst) : k = DirKey(p)
    <3>1. PICK p \in ParentPaths(dst) : k = DirKey(p)
      BY <2>2
    <3>2. k.path = p
      BY <3>1, KeyFields
    <3> QED
      BY <1>1, <1>2, <3>2 DEF LeadsTo
  <2> QED
    BY <1>1, <2>1, <2>2
<1> QED
  BY <1>1, <1>2 DEF Closed, LeadsTo

(* Nor does adding an entry whose directory is there.                      *)
LEMMA ClosedPut ==
    ASSUME NEW tab, Closed(tab), NEW key, NEW entry,
           Parent(key.path) # <<>> => DirKey(Parent(key.path)) \in DOMAIN tab
    PROVE  Closed(Put(tab, key, entry))
BY DEF Closed, Put

(* The content being handled is one of a list, and withFileInfoDefaults    *)
(* leaves it an owner.                                                     *)
LEMMA OwnersKnown ==
    ASSUME contents \in Seq(Contents), next \in Nat \ {0}, next <= Len(contents)
    PROVE  /\ Current \in Contents
           /\ OwnerOrRoot(Current.owner) \in Owner \ {""}
           /\ OwnerOrRoot("") \in Owner \ {""}
<1>1. next \in 1..Len(contents)
  BY LenProperties
<1>2. Current \in Contents
  BY <1>1 DEF Current
<1>3. Current.owner \in Owner
  BY <1>1 DEF Current, Owner
<1> QED
  BY <1>2, <1>3 DEF Owner, OwnerOrRoot

(* Every entry that addParents makes is well formed.                       *)
LEMMA WellFormedWithParents ==
    ASSUME WellFormed(table), NEW dst, NEW owner,
           OwnerOrRoot(owner) \in Owner \ {""}
    PROVE  WellFormed(WithParents(dst, owner))
<1>1. DOMAIN WithParents(dst, owner) =
         DOMAIN table \cup {DirKey(p) : p \in ParentPaths(dst)}
  BY DEF WithParents
<1>2. ASSUME NEW k \in DOMAIN table
      PROVE  WithParents(dst, owner)[k] = table[k]
  BY <1>2 DEF WithParents
<1>3. ASSUME NEW k \in DOMAIN WithParents(dst, owner), k \notin DOMAIN table
      PROVE  /\ \E p : k = DirKey(p)
             /\ \/ WithParents(dst, owner)[k] = Entry("implicit dir", "", NoSource)
                \/ WithParents(dst, owner)[k] = Entry("implicit dir", owner, NoSource)
  BY <1>1, <1>3 DEF WithParents
<1>4. ASSUME NEW k \in DOMAIN WithParents(dst, owner), k \notin DOMAIN table
      PROVE  k.dir = TRUE
  BY <1>3, <1>4, KeyFields
<1>5. ASSUME NEW k \in DOMAIN WithParents(dst, owner), k \notin DOMAIN table
      PROVE  /\ WithParents(dst, owner)[k].type = "implicit dir"
             /\ WithParents(dst, owner)[k].owner \in Owner \ {""}
  <2>1. OwnerOrRoot("") \in Owner \ {""}
    BY DEF OwnerOrRoot, Owner
  <2> DEFINE e == WithParents(dst, owner)[k]
  <2> HIDE DEF e
  <2>2. PICK o \in {"", owner} : e = Entry("implicit dir", o, NoSource)
    BY <1>3, <1>5 DEF e
  <2>3. e.type = "implicit dir" /\ e.owner = OwnerOrRoot(o)
    BY <2>2, EntryFields
  <2>4. e.owner \in Owner \ {""}
    BY <2>1, <2>2, <2>3
  <2> QED
    BY <2>3, <2>4 DEF e
<1>6. ASSUME NEW k \in DOMAIN WithParents(dst, owner), k \notin DOMAIN table
      PROVE  GoodEntry(k, WithParents(dst, owner)[k])
  BY <1>4, <1>5, <1>6 DEF GoodEntry, EntryTypes, DirTypes
<1> QED
  BY <1>1, <1>2, <1>6 DEF WellFormed

(* So is the table after a well formed entry is added.                     *)
LEMMA WellFormedPut ==
    ASSUME NEW tab, WellFormed(tab), NEW key, NEW entry, GoodEntry(key, entry)
    PROVE  WellFormed(Put(tab, key, entry))
BY DEF WellFormed, Put

-----------------------------------------------------------------------------
(* The lemmas above, for the entry being handled. *)
LEMMA StoredEntry ==
    ASSUME IInv, next <= Len(contents), NEW dst, NEW owner \in {"", Current.owner},
           NEW key, NEW e, LeadsTo(dst, key.path),
           GoodEntry(key, e)
    PROVE  /\ WellFormed(Put(WithParents(dst, owner), key, e))
           /\ Closed(Put(WithParents(dst, owner), key, e))
           /\ DOMAIN table \subseteq DOMAIN Put(WithParents(dst, owner), key, e)
<1>1. OwnerOrRoot(owner) \in Owner \ {""}
  BY OwnersKnown DEF IInv
<1>2. WellFormed(WithParents(dst, owner))
  BY <1>1, WellFormedWithParents DEF IInv
<1>3. WellFormed(Put(WithParents(dst, owner), key, e))
  BY <1>1, <1>2, WellFormedPut
<1>4. /\ Closed(WithParents(dst, owner))
      /\ Parent(key.path) # <<>> =>
            DirKey(Parent(key.path)) \in DOMAIN WithParents(dst, owner)
      /\ DOMAIN table \subseteq DOMAIN WithParents(dst, owner)
  BY ClosedWithParents DEF IInv
<1>5. Closed(Put(WithParents(dst, owner), key, e))
  BY <1>4, ClosedPut
<1>6. DOMAIN WithParents(dst, owner) \subseteq
         DOMAIN Put(WithParents(dst, owner), key, e)
  BY DEF Put
<1> QED
  BY <1>3, <1>4, <1>5, <1>6

(* The node the walk is at goes below a directory that is in the table. *)
LEMMA NodeHasParent ==
    ASSUME IInv, pc = "walk", node <= Len(TreeOf[Current.src]),
           LET n == TreeOf[Current.src][node]
           IN ~(n.rel = <<>> /\ Current.dst = <<>>)
    PROVE  LET path == NodePath(Current, TreeOf[Current.src][node])
           IN Parent(path) # <<>> => DirKey(Parent(path)) \in DOMAIN table
<1> DEFINE c == Current
           n == TreeOf[Current.src][node]
           base == CleanAbs(c.dst)
<1>1. c \in Contents /\ c.type \in TreeTypes
  BY OwnersKnown DEF IInv, WalkInv, IsTree
<1>2. /\ node \in 1..Len(TreeOf[c.src])
      /\ n.rel \in Seq(DOMAIN Chars)
      /\ n.rel # <<>> =>
            \E h \in 1..(node - 1) : /\ TreeOf[c.src][h].kind = "dir"
                                     /\ TreeOf[c.src][h].rel = Parent(n.rel)
  BY <1>1, WalkAssumption DEF IInv
<1>3. base \in Seq(DOMAIN Chars)
  BY <1>1, PathsKnown DEF Names
<1>4. CASE n.rel = <<>>
  <2>1. NodePath(c, n) = base
    BY <1>3, <1>4, ConcatEmptySeq DEF NodePath
  <2> QED
    BY <2>1 DEF IInv, WalkInv
<1>5. CASE n.rel # <<>>
  <2>1. PICK h \in 1..(node - 1) : /\ TreeOf[c.src][h].kind = "dir"
                                   /\ TreeOf[c.src][h].rel = Parent(n.rel)
    BY <1>2, <1>5
  <2>2. Parent(NodePath(c, n)) = NodePath(c, TreeOf[c.src][h])
    BY <1>2, <1>3, <1>5, <2>1, ParentOfConcat DEF NodePath
  <2> QED
    BY <2>1, <2>2 DEF IInv, WalkInv
<1> QED
  BY <1>4, <1>5

-----------------------------------------------------------------------------
(* Every step preserves the invariant, one lemma per action that writes    *)
(* to the table.                                                           *)
LEMMA FailPreserves == IInv /\ Fail => IInv'
BY DEF IInv, Fail, GlobInv, WalkInv, WellFormed, Closed

(* A content handled in one step leaves the loop between two contents.     *)
LEMMA StorePreserves ==
    ASSUME IInv, pc = "next", NEW tab, Store(tab), WellFormed(tab), Closed(tab),
           DOMAIN table \subseteq DOMAIN tab
    PROVE  IInv'
<1>1. /\ pc' = "next"
      /\ next' \in Nat \ {0}
      /\ table' = tab
      /\ UNCHANGED <<contents, pc, pending, node, position>>
  BY DEF Store, IInv
<1>2. WellFormed(table') /\ Closed(table')
  BY <1>1
<1> QED
  BY <1>1, <1>2 DEF IInv, GlobInv, WalkInv, WellFormed, Closed

(* The actions, one by one: an explicit directory, the types added as      *)
(* they are, a match of a glob, the start and the nodes of a walk.         *)
LEMMA AddDirPreserves == IInv /\ AddDir => IInv'
<1> SUFFICES ASSUME IInv, AddDir PROVE IInv'
  OBVIOUS
<1> DEFINE c == Current
           key == DirKey(CleanAbs(c.dst))
           e == Entry("dir", c.owner, c.src)
           tab == Put(WithParents(c.dst, ""), key, e)
<1>1. /\ pc = "next" /\ next <= Len(contents) /\ c.type = "dir"
      /\ Fail \/ Store(tab)
  BY DEF AddDir, Handling
<1>2. key.path = CleanAbs(c.dst) /\ key.dir = TRUE
  BY KeyFields
<1>3. LeadsTo(c.dst, key.path)
  BY <1>1, <1>2, OwnersKnown, PathsKnown DEF IInv
<1>4. GoodEntry(key, e)
  <2>1. e.type = "dir" /\ e.owner = OwnerOrRoot(c.owner)
    BY EntryFields
  <2> HIDE DEF e, key
  <2> QED
    BY <1>1, <1>2, <2>1, OwnersKnown DEF IInv, GoodEntry, EntryTypes, DirTypes
<1> HIDE DEF e
<1>5. WellFormed(tab) /\ Closed(tab) /\ DOMAIN table \subseteq DOMAIN tab
  BY <1>1, <1>2, <1>3, <1>4, StoredEntry
<1> HIDE DEF tab
<1> QED
  BY <1>1, <1>5, FailPreserves, StorePreserves DEF e, tab

LEMMA AddAsIsPreserves == IInv /\ AddAsIs => IInv'
<1> SUFFICES ASSUME IInv, AddAsIs PROVE IInv'
  OBVIOUS
<1> DEFINE c == Current
           key == FileKey(CleanAbs(c.dst))
           e == Entry(c.type, c.owner, c.src)
           tab == Put(WithParents(c.dst, ""), key, e)
<1>1. /\ pc = "next" /\ next <= Len(contents) /\ c.type \in AsIsTypes
      /\ Fail \/ Store(tab)
  BY DEF AddAsIs, Handling
<1>2. key.path = CleanAbs(c.dst) /\ key.dir = FALSE
  BY KeyFields
<1>3. LeadsTo(c.dst, key.path)
  BY <1>1, <1>2, OwnersKnown, PathsKnown DEF IInv
<1>4. GoodEntry(key, e)
  <2>1. e.type = c.type /\ e.owner = OwnerOrRoot(c.owner)
    BY EntryFields
  <2>2. c.type \in EntryTypes /\ c.type \notin DirTypes
    BY <1>1 DEF EntryTypes, AsIsTypes, RpmTypes, DirTypes
  <2> HIDE DEF e, key
  <2> QED
    BY <1>1, <1>2, <2>1, <2>2, OwnersKnown DEF IInv, GoodEntry
<1> HIDE DEF e
<1>5. WellFormed(tab) /\ Closed(tab) /\ DOMAIN table \subseteq DOMAIN tab
  BY <1>1, <1>2, <1>3, <1>4, StoredEntry
<1> HIDE DEF tab
<1> QED
  BY <1>1, <1>5, FailPreserves, StorePreserves

LEMMA AddGlobbedPreserves == IInv /\ (\E m \in pending : AddGlobbed(m)) => IInv'
<1> SUFFICES ASSUME IInv, NEW m \in pending, AddGlobbed(m) PROVE IInv'
  OBVIOUS
<1> DEFINE c == Current
           dst == GlobDestination(c, m)
           key == FileKey(dst)
           e == Entry(GlobType(c, m), c.owner, m.src)
           tab == Put(WithParents(dst, c.owner), key, e)
<1>1. pc = "glob" /\ next <= Len(contents)
  BY DEF AddGlobbed, IInv, GlobInv
<1>2. /\ c.type \in FileTypes \cup {""}
      /\ m \in Matches[c.src].files
      /\ c \in Contents
  BY <1>1, OwnersKnown DEF IInv, GlobInv, IsGlob
<1>3. key.path = dst /\ key.dir = FALSE
  BY KeyFields
<1>4. LeadsTo(dst, key.path)
  BY <1>2, <1>3, MatchesKnown
<1>5. GoodEntry(key, e)
  <2>1. e.type = GlobType(c, m) /\ e.owner = OwnerOrRoot(c.owner)
    BY EntryFields
  <2>2. GlobType(c, m) \in FileTypes \cup {"symlink"}
    BY <1>2 DEF GlobType, FileTypes
  <2>3. GlobType(c, m) \in EntryTypes /\ GlobType(c, m) \notin DirTypes
    BY <2>2 DEF EntryTypes, FileTypes, AsIsTypes, DirTypes
  <2> HIDE DEF e, key
  <2> QED
    BY <1>1, <1>3, <2>1, <2>3, OwnersKnown DEF IInv, GoodEntry
<1> HIDE DEF e
<1>6. WellFormed(tab) /\ Closed(tab) /\ DOMAIN table \subseteq DOMAIN tab
  BY <1>1, <1>3, <1>4, <1>5, StoredEntry
<1>7. CASE Fail
  BY <1>7, FailPreserves
<1>8. CASE ~Fail
  <2>1. /\ table' = tab
        /\ pending' = pending \ {m}
        /\ UNCHANGED <<contents, next, pc, node, position>>
    BY <1>8 DEF AddGlobbed, e, tab
  <2>2. WellFormed(table') /\ Closed(table')
    BY <1>6, <2>1
  <2>3. GlobInv' /\ WalkInv'
    BY <1>1, <2>1 DEF IInv, GlobInv, WalkInv, Current
  <2> HIDE DEF tab
  <2> QED
    BY <1>6, <2>1, <2>2, <2>3 DEF IInv
<1> QED
  BY <1>7, <1>8

LEMMA BeginTreePreserves == IInv /\ BeginTree => IInv'
<1> SUFFICES ASSUME IInv, BeginTree PROVE IInv'
  OBVIOUS
<1> DEFINE c == Current
           tab == WithParents(c.dst, c.owner)
<1>1. pc = "next" /\ next <= Len(contents) /\ c.type \in TreeTypes
  BY DEF BeginTree, Handling
<1>2. CASE Fail
  BY <1>2, FailPreserves
<1>3. CASE ~Fail
  <2>1. /\ table' = tab /\ pc' = "walk" /\ node' = 1
        /\ UNCHANGED <<contents, next, pending, position>>
    BY <1>3 DEF BeginTree
  <2>2. LeadsTo(c.dst, CleanAbs(c.dst)) /\ OwnerOrRoot(c.owner) \in Owner \ {""}
    BY <1>1, OwnersKnown, PathsKnown DEF IInv
  <2>3. WellFormed(tab)
    BY <2>2, WellFormedWithParents DEF IInv
  <2>4. /\ Closed(tab) /\ DOMAIN table \subseteq DOMAIN tab
        /\ LET path == CleanAbs(c.dst) IN
              Parent(path) # <<>> => DirKey(Parent(path)) \in DOMAIN tab
    BY <2>2, ClosedWithParents DEF IInv
  <2> HIDE DEF tab
  <2>5. WellFormed(table') /\ Closed(table')
    BY <2>1, <2>3, <2>4
  <2>6. GlobInv' /\ WalkInv'
    BY <1>1, <2>1, <2>4 DEF GlobInv, WalkInv, Current, IsTree
  <2> QED
    BY <2>1, <2>4, <2>5, <2>6 DEF IInv
<1> QED
  BY <1>2, <1>3

(* The entry WalkNode writes fits its key. *)
LEMMA NodeEntryGood ==
    ASSUME IInv, pc = "walk", node <= Len(TreeOf[Current.src]),
           TreeOf[Current.src][node].kind # "error"
    PROVE  LET n == TreeOf[Current.src][node] IN
           /\ GoodEntry(NodeKey(Current, n), NodeEntry(Current, n))
           /\ NodeKey(Current, n).path = NodePath(Current, n)
           /\ n.kind = "dir" => NodeKey(Current, n) = DirKey(NodePath(Current, n))
<1> DEFINE c == Current
           n == TreeOf[c.src][node]
           key == NodeKey(c, n)
           e == NodeEntry(c, n)
<1>1. c \in Contents /\ c.type \in TreeTypes /\ next <= Len(contents)
  BY OwnersKnown DEF IInv, WalkInv, IsTree
<1>2. n.kind \in {"dir", "link", "file"}
  BY <1>1, WalkAssumption DEF IInv
<1>3. /\ key.path = NodePath(c, n)
      /\ n.kind = "dir" => key.dir = TRUE /\ key = DirKey(NodePath(c, n))
      /\ n.kind # "dir" => key.dir = FALSE
  BY KeyFields DEF NodeKey
<1>4. /\ NodeType(c, n) \in EntryTypes
      /\ NodeType(c, n) \in DirTypes <=> n.kind = "dir"
  <2>1. TreeFileType[c.type] \in FileTypes
    BY <1>1 DEF TreeTypes, TreeFileType, FileTypes
  <2>2. n.kind = "dir" => NodeType(c, n) \in DirTypes
    BY DEF NodeType, DirTypes
  <2>3. n.kind = "link" => NodeType(c, n) = "symlink"
    BY DEF NodeType
  <2>4. n.kind = "file" => NodeType(c, n) \in FileTypes
    BY <2>1 DEF NodeType
  <2> QED
    BY <1>2, <2>2, <2>3, <2>4 DEF EntryTypes, FileTypes, AsIsTypes, DirTypes
<1>5. e.type = NodeType(c, n) /\ e.owner \in Owner \ {""}
  <2> DEFINE o == IF NodePath(c, n) \in FsOwned THEN "" ELSE c.owner
  <2>1. PICK src : e = Entry(NodeType(c, n), o, src)
    BY DEF NodeEntry
  <2> HIDE DEF o
  <2>2. e.type = NodeType(c, n) /\ e.owner = OwnerOrRoot(o)
    BY <2>1, EntryFields
  <2> HIDE DEF e
  <2>3. /\ OwnerOrRoot(c.owner) \in Owner \ {""}
        /\ OwnerOrRoot("") \in Owner \ {""}
    BY <1>1, OwnersKnown DEF IInv
  <2>4. e.owner \in Owner \ {""}
    BY <2>2, <2>3 DEF o
  <2> QED
    BY <2>2, <2>4
<1> HIDE DEF e, key
<1>6. GoodEntry(key, e)
  BY <1>2, <1>3, <1>4, <1>5 DEF GoodEntry
<1> QED
  BY <1>3, <1>6 DEF e, key

LEMMA WalkNodePreserves == IInv /\ WalkNode => IInv'
<1> SUFFICES ASSUME IInv, WalkNode PROVE IInv'
  OBVIOUS
<1> DEFINE c == Current
           n == TreeOf[c.src][node]
           key == NodeKey(c, n)
           e == NodeEntry(c, n)
           tab == Put(table, key, e)
<1>1. pc = "walk" /\ node <= Len(TreeOf[c.src]) /\ next <= Len(contents) /\ IsTree(c)
  BY DEF WalkNode, IInv, WalkInv
<1>2. CASE /\ n.rel = <<>> /\ c.dst = <<>>
           /\ node' = node + 1
           /\ UNCHANGED <<contents, next, pc, pending, table, position>>
  <2>1. NodePath(c, n) = <<>>
    <3>1. CleanAbs(c.dst) = <<>>
      BY <1>1, <1>2, OwnersKnown, PathsKnown DEF IInv
    <3>2. <<>> \o <<>> = <<>>
      BY EmptySeq, ConcatEmptySeq
    <3> QED
      BY <1>2, <3>1, <3>2 DEF NodePath
  <2>2. WellFormed(table') /\ Closed(table') /\ Current' = c
    BY <1>2 DEF IInv, WellFormed, Closed, Current
  <2>3. ASSUME NEW h \in 1..(node' - 1), TreeOf[c.src][h].kind = "dir"
        PROVE  \/ NodePath(c, TreeOf[c.src][h]) = <<>>
               \/ DirKey(NodePath(c, TreeOf[c.src][h])) \in DOMAIN table
    <3>1. h \in 1..(node - 1) \/ h = node
      BY <1>2 DEF IInv
    <3> QED
      BY <1>1, <2>1, <2>3, <3>1 DEF IInv, WalkInv
  <2>4. GlobInv' /\ WalkInv'
    BY <1>1, <1>2, <2>2, <2>3 DEF IInv, GlobInv, WalkInv
  <2> QED
    BY <1>2, <2>2, <2>4 DEF IInv
<1>3. CASE Fail
  BY <1>3, FailPreserves
<1>4. CASE /\ ~(n.rel = <<>> /\ c.dst = <<>>)
           /\ n.kind # "error"
           /\ table' = tab
           /\ node' = node + 1
           /\ UNCHANGED <<contents, next, pc, pending, position>>
  <2>1. GoodEntry(key, e) /\ key.path = NodePath(c, n)
        /\ (n.kind = "dir" => key = DirKey(NodePath(c, n)))
    BY <1>1, <1>4, NodeEntryGood
  <2>2. Parent(key.path) # <<>> => DirKey(Parent(key.path)) \in DOMAIN table
    BY <1>1, <1>4, <2>1, NodeHasParent
  <2> HIDE DEF e
  <2>3. WellFormed(tab) /\ Closed(tab)
    <3> HIDE DEF key
    <3> QED
      BY <2>1, <2>2, WellFormedPut, ClosedPut DEF IInv
  <2>4. DOMAIN tab = DOMAIN table \cup {key}
    BY DEF Put
  <2> HIDE DEF tab
  <2>5. WellFormed(table') /\ Closed(table') /\ Current' = c
    BY <1>4, <2>3 DEF Current
  <2>6. ASSUME NEW h \in 1..(node' - 1), TreeOf[c.src][h].kind = "dir"
        PROVE  \/ NodePath(c, TreeOf[c.src][h]) = <<>>
               \/ DirKey(NodePath(c, TreeOf[c.src][h])) \in DOMAIN table'
    <3>1. h \in 1..(node - 1) \/ h = node
      BY <1>4 DEF IInv
    <3>2. CASE h = node
      BY <1>4, <2>1, <2>4, <2>6, <3>2
    <3>3. CASE h \in 1..(node - 1)
      BY <1>1, <1>4, <2>4, <2>6, <3>3 DEF IInv, WalkInv
    <3> QED
      BY <3>1, <3>2, <3>3
  <2>7. LET path == CleanAbs(c.dst) IN
           Parent(path) # <<>> => DirKey(Parent(path)) \in DOMAIN table'
    BY <1>1, <1>4, <2>4 DEF IInv, WalkInv
  <2>8. GlobInv' /\ WalkInv'
    BY <1>1, <1>4, <2>5, <2>6, <2>7 DEF IInv, GlobInv, WalkInv
  <2>9. DOMAIN table \subseteq DOMAIN table'
    BY <1>4, <2>4
  <2> QED
    BY <1>4, <2>5, <2>8, <2>9 DEF IInv
<1> QED
  BY <1>2, <1>3, <1>4 DEF WalkNode

-----------------------------------------------------------------------------
(* The empty table of a preparation that starts with whatever list, and    *)
(* every step of it.                                                       *)
Starts ==
    /\ contents \in Seq(Contents)
    /\ next = 1 /\ pc = "next" /\ pending = {} /\ node = 1
    /\ table = [k \in {} |-> NoSource]
    /\ position = [k \in {} |-> 0]

LEMMA InitStarts == Init => Starts
  BY InputsAssumption DEF Init, Starts

LEMMA StartsWell == Starts => IInv
<1> SUFFICES ASSUME Starts PROVE IInv
  OBVIOUS
<1>1. DOMAIN table = {} /\ DOMAIN position = {}
  BY DEF Starts
<1>2. WellFormed(table) /\ Closed(table)
  BY <1>1 DEF WellFormed, Closed
<1> QED
  BY <1>1, <1>2 DEF Starts, IInv, GlobInv, WalkInv

LEMMA Initially == Init => IInv
  BY InitStarts, StartsWell

LEMMA StepPreserves == IInv /\ [Next]_vars => IInv'
<1> SUFFICES ASSUME IInv, [Next]_vars PROVE IInv'
  OBVIOUS
<1>1. CASE Skip
  BY <1>1, StorePreserves DEF Skip, IInv
<1>2. CASE AddDir
  BY <1>2, AddDirPreserves
<1>3. CASE AddAsIs
  BY <1>3, AddAsIsPreserves
<1>4. CASE InvalidType
  BY <1>4, FailPreserves DEF InvalidType
<1>5. CASE Glob
  <2>1. CASE Fail
    BY <2>1, FailPreserves
  <2>2. CASE ~Fail
    <3>1. /\ pc' = "glob"
          /\ pending' = Matches[Current.src].files
          /\ UNCHANGED <<contents, next, node, table, position>>
          /\ next <= Len(contents) /\ IsGlob(Current)
      BY <1>5, <2>2 DEF Glob, Handling, IsGlob
    <3> QED
      BY <3>1 DEF IInv, GlobInv, WalkInv, WellFormed, Closed, Current, IsGlob
  <2> QED
    BY <2>1, <2>2
<1>6. CASE \E m \in pending : AddGlobbed(m)
  BY <1>6, AddGlobbedPreserves
<1>7. CASE EndGlob
  BY <1>7 DEF EndGlob, IInv, GlobInv, WalkInv, WellFormed, Closed
<1>8. CASE BeginTree
  BY <1>8, BeginTreePreserves
<1>9. CASE WalkNode
  BY <1>9, WalkNodePreserves
<1>10. CASE EndTree
  BY <1>10 DEF EndTree, IInv, GlobInv, WalkInv, WellFormed, Closed
<1>11. CASE Finish
  <2>1. DOMAIN position' = DOMAIN table
    BY <1>11 DEF Finish
  <2> QED
    BY <1>11, <2>1 DEF Finish, IInv, GlobInv, WalkInv, WellFormed, Closed
<1>12. CASE UNCHANGED vars
  BY <1>12 DEF vars, IInv, GlobInv, WalkInv, WellFormed, Closed, Current
<1> QED
  BY <1>1, <1>2, <1>3, <1>4, <1>5, <1>6, <1>7, <1>8, <1>9, <1>10, <1>11, <1>12
     DEF Next

(* The inductive invariant, see the comments at its parts. *)
THEOREM InvariantHolds == Spec => []IInv
BY Initially, StepPreserves, PTL DEF Spec

(* The table is well typed for every list of contents and every host. *)
THEOREM TypeCorrect == Spec => []TypeOK
<1>1. IInv => TypeOK
  BY DEF IInv, TypeOK, WellFormed, GoodEntry
<1> QED
  BY <1>1, InvariantHolds, PTL

(* A key with a trailing slash holds a directory and no other does, so the *)
(* collision branch of addParents (files/files.go:390) is never taken.     *)
THEOREM KeysMatchTypes == Spec => []KeyFormMatchesType
<1>1. IInv => KeyFormMatchesType
  BY DEF IInv, KeyFormMatchesType, WellFormed, GoodEntry
<1> QED
  BY <1>1, InvariantHolds, PTL

(* The directory above every entry is in the table, at every moment. *)
THEOREM ParentsAlwaysPresent == Spec => []ParentsPresent
<1>1. IInv => ParentsPresent
  BY DEF IInv, ParentsPresent, Closed
<1> QED
  BY <1>1, InvariantHolds, PTL

(* The path arithmetic has one meaning for a content's key, its parents    *)
(* and a key that is prepared once more (files.go: sortedParents against   *)
(* NormalizeAbsoluteDirPath), whatever ".." a destination holds.           *)
THEOREM PathsNeverPart == Spec => []PathsAgree
<1>1. contents \in Seq(Contents) => PathsAgree
  <2> SUFFICES ASSUME contents \in Seq(Contents), NEW dst \in Destinations
               PROVE  /\ CleanAbs(CleanAbs(dst)) = CleanAbs(dst)
                      /\ CleanAbs(CleanRel(dst)) = CleanAbs(dst)
                      /\ CleanRel(CleanRel(dst)) = CleanRel(dst)
                      /\ (dst = <<>> \/ dst[Len(dst)] # UP) =>
                            ParentPaths(dst) \subseteq Ancestors(CleanAbs(dst)) \cup {<<>>}
    BY DEF PathsAgree
  <2>1. PICK c \in Contents : dst = c.dst
    BY DEF Destinations
  <2>2. UP \notin Names /\ dst \in Seq(Names \cup {UP})
    BY <2>1, NamesAssumption
  <2>3. PICK k \in Nat : Reads(Names, CleanRel(dst), k, CleanAbs(dst))
    BY <2>2, CleaningAgrees
  <2>4. CleanAbs(CleanRel(dst)) = CleanAbs(dst) /\ CleanRel(CleanRel(dst)) = CleanRel(dst)
    BY <2>2, <2>3, AbsOfClean, RelOfClean
  <2>5. CleanAbs(CleanAbs(dst)) = CleanAbs(dst)
    BY <2>2, PathsLead, CleanStays
  <2>6. (dst = <<>> \/ dst[Len(dst)] # UP) =>
            ParentPaths(dst) \subseteq Ancestors(CleanAbs(dst)) \cup {<<>>}
    BY <2>2, ParentsAbove
  <2> QED
    BY <2>4, <2>5, <2>6
<1>2. IInv => contents \in Seq(Contents)
  BY DEF IInv
<1> QED
  BY <1>1, <1>2, InvariantHolds, PTL

-----------------------------------------------------------------------------
(* addParents and the insertion of another key leave what is in the        *)
(* table.                                                                  *)
LEMMA WithParentsKeeps ==
    ASSUME NEW dst, NEW owner, NEW k \in DOMAIN table
    PROVE  /\ k \in DOMAIN WithParents(dst, owner)
           /\ WithParents(dst, owner)[k] = table[k]
BY DEF WithParents

LEMMA PutKeeps ==
    ASSUME NEW tab, NEW key, NEW entry, NEW k \in DOMAIN tab
    PROVE  /\ k \in DOMAIN Put(tab, key, entry)
           /\ k # key => Put(tab, key, entry)[k] = tab[k]
BY DEF Put

LEMMA StoringKept ==
    ASSUME NEW dst, NEW owner, NEW key, NEW entry, NEW k \in DOMAIN table, k # key,
           table' = Put(WithParents(dst, owner), key, entry)
    PROVE  k \in DOMAIN table' /\ table'[k] = table[k]
<1> DEFINE tab == WithParents(dst, owner)
<1>1. k \in DOMAIN tab /\ tab[k] = table[k]
  BY WithParentsKeeps
<1> HIDE DEF tab
<1>2. k \in DOMAIN Put(tab, key, entry) /\ Put(tab, key, entry)[k] = tab[k]
  BY <1>1, PutKeeps
<1> QED
  BY <1>1, <1>2 DEF tab

(* No step drops an entry, and only a node of a tree replaces an explicit  *)
(* one: what the user listed is in the package or the preparation fails.   *)
THEOREM ClaimsAlwaysSurvive == Spec => ClaimsSurvive
<1> DEFINE Kept(k) == /\ k \in DOMAIN table'
                      /\ table'[k] # table[k] =>
                            pc = "walk" \/ table[k].type = "implicit dir"
<1>1. ASSUME [Next]_vars, NEW k \in DOMAIN table
      PROVE  Kept(k)
  <2>1. CASE UNCHANGED table
    BY <2>1
  <2>2. CASE AddDir /\ ~Fail
    <3> DEFINE c == Current
               key == DirKey(CleanAbs(c.dst))
               e == Entry("dir", c.owner, c.src)
    <3>1. table' = Put(WithParents(c.dst, ""), key, e) /\ ~OccupiedExplicitly(key)
      BY <2>2 DEF AddDir, Store
    <3> HIDE DEF key, e
    <3>2. CASE k = key
      <4>1. table[k].type = "implicit dir"
        BY <3>1, <3>2 DEF OccupiedExplicitly
      <4>2. k \in DOMAIN table'
        BY <3>1, <3>2 DEF Put
      <4> QED
        BY <4>1, <4>2
    <3>3. CASE k # key
      <4>1. k \in DOMAIN table' /\ table'[k] = table[k]
        BY <3>1, <3>3, StoringKept
      <4> QED
        BY <4>1
    <3> QED
      BY <3>2, <3>3
  <2>3. CASE AddAsIs /\ ~Fail
    <3> DEFINE c == Current
               key == FileKey(CleanAbs(c.dst))
               e == Entry(c.type, c.owner, c.src)
    <3>1. table' = Put(WithParents(c.dst, ""), key, e) /\ k # key
      BY <2>3 DEF AddAsIs, Store, Occupied
    <3> HIDE DEF key, e
    <3>2. k \in DOMAIN table' /\ table'[k] = table[k]
      BY <3>1, StoringKept
    <3> QED
      BY <3>2
  <2>4. CASE (\E m \in pending : AddGlobbed(m)) /\ ~Fail
    <3> DEFINE c == Current
    <3>1. PICK m \in pending : AddGlobbed(m)
      BY <2>4
    <3> DEFINE dst == GlobDestination(c, m)
               e == Entry(GlobType(c, m), c.owner, m.src)
    <3>2. table' = Put(WithParents(dst, c.owner), FileKey(dst), e) /\ k # FileKey(dst)
      BY <2>4, <3>1 DEF AddGlobbed, Occupied
    <3> HIDE DEF dst, e
    <3>3. k \in DOMAIN table' /\ table'[k] = table[k]
      BY <3>2, StoringKept
    <3> QED
      BY <3>3
  <2>5. CASE BeginTree /\ ~Fail
    <3>1. table' = WithParents(Current.dst, Current.owner)
      BY <2>5 DEF BeginTree
    <3> QED
      BY <3>1, WithParentsKeeps
  <2>6. CASE WalkNode /\ ~Fail
    <3>1. pc = "walk"
      BY <2>6 DEF WalkNode
    <3>2. table' = table \/ \E key, e : table' = Put(table, key, e)
      BY <2>6 DEF WalkNode
    <3> QED
      BY <3>1, <3>2, PutKeeps
  <2>7. CASE Fail
    BY <2>1, <2>7 DEF Fail
  <2>8. CASE Skip \/ InvalidType \/ Glob \/ EndGlob \/ EndTree \/ Finish \/ UNCHANGED vars
    BY <2>1, <2>8 DEF Skip, Store, InvalidType, Fail, Glob, EndGlob, EndTree, Finish, vars
  <2> QED
    BY <1>1, <2>2, <2>3, <2>4, <2>5, <2>6, <2>7, <2>8 DEF Next
<1>2. [Next]_vars => [\A k \in DOMAIN table : Kept(k)]_vars
  BY <1>1
<1> QED
  BY <1>2, PTL DEF Spec, ClaimsSurvive
-----------------------------------------------------------------------------
(***************************************************************************)
(* The sort.  How a key is spelled, name by name:                          *)
(***************************************************************************)
Spells(p, N, f) ==
    f = [n \in 0..N |-> IF n = 0 THEN <<>> ELSE f[n - 1] \o <<Slash>> \o Chars[p[n]]]

(* The spelling of a path, one name at a time, is a function defined on    *)
(* every prefix.                                                           *)
LEMMA SpellsExist == ASSUME NEW p, NEW N \in Nat PROVE \E f : Spells(p, N, f)
<1> DEFINE P == {k \in Nat : \E f : Spells(p, k, f)}
           none == <<>>
           Next1(s, n) == s \o <<Slash>> \o Chars[p[n]]
<1>1. 0 \in P
  <2>1. Spells(p, 0, [n \in 0..0 |-> none])
    BY DEF Spells
  <2> QED
    BY <2>1
<1>2. ASSUME NEW k \in P PROVE k + 1 \in P
  <2>1. PICK f : Spells(p, k, f)
    OBVIOUS
  <2> DEFINE g == [n \in 0..(k + 1) |-> IF n = k + 1 THEN Next1(f[k], n) ELSE f[n]]
  <2>2. \A n \in 0..k : f[n] = IF n = 0 THEN none ELSE Next1(f[n - 1], n)
    BY <2>1 DEF Spells
  <2> HIDE DEF none, Next1
  <2>3. ASSUME NEW n \in 0..(k + 1)
        PROVE  g[n] = IF n = 0 THEN none ELSE Next1(g[n - 1], n)
    <3>1. CASE n = k + 1
      <4>1. n # 0 /\ n - 1 = k /\ g[n - 1] = f[k]
        BY <3>1
      <4> QED
        BY <3>1, <4>1
    <3>2. CASE n \in 0..k
      <4>1. n # k + 1 /\ g[n] = f[n] /\ (n # 0 => g[n - 1] = f[n - 1])
        BY <3>2
      <4> QED
        BY <2>2, <3>2, <4>1
    <3> QED
      BY <3>1, <3>2
  <2>4. Spells(p, k + 1, g)
    BY <2>3 DEF Spells, none, Next1
  <2> HIDE DEF g
  <2> QED
    BY <2>4
<1>3. P \subseteq Nat
  OBVIOUS
<1> HIDE DEF P
<1>4. P = Nat
  BY <1>1, <1>2, <1>3, Loops!Counting
<1> QED
  BY <1>4 DEF P

LEMMA SpellingDefined ==
    ASSUME NEW p, Len(p) \in Nat
    PROVE  Spells(p, Len(p), SpellingUpTo(p))
<1>1. \E f : Spells(p, Len(p), f)
  BY SpellsExist
<1> QED
  BY <1>1, Zenon DEF Spells, SpellingUpTo

LEMMA SpellsUnfolds ==
    ASSUME NEW p, NEW N \in Nat, NEW f, Spells(p, N, f)
    PROVE  f[0] = <<>> /\ \A n \in 1..N : f[n] = f[n - 1] \o <<Slash>> \o Chars[p[n]]
<1> DEFINE none == <<>>
           Next1(s, n) == s \o <<Slash>> \o Chars[p[n]]
<1>1. \A n \in 0..N : f[n] = IF n = 0 THEN none ELSE Next1(f[n - 1], n)
  BY DEF Spells
<1> HIDE DEF none, Next1
<1>2. \A n \in 1..N : n \in 0..N /\ n # 0
  OBVIOUS
<1>3. f[0] = none
  BY <1>1
<1>4. \A n \in 1..N : f[n] = Next1(f[n - 1], n)
  BY <1>1, <1>2
<1> QED
  BY <1>3, <1>4 DEF none, Next1

(* The text of a path, without a slash at its end. *)
Text(p) == SpellingUpTo(p)[Len(p)]

NameOf(p) == Chars[p[Len(p)]]

(* A path is spelled after its parent. *)
LEMMA TextOfParent ==
    ASSUME NEW p \in Seq(Names), p # <<>>
    PROVE  Text(p) = Joint(Text(Parent(p)), Slash, NameOf(p))
<1> DEFINE N == Len(p) - 1
           q == Prefix(p, N)
           f == SpellingUpTo(p)
           g == SpellingUpTo(q)
           P == {k \in Nat : k <= N => g[k] = f[k]}
           Next1(s, name) == s \o <<Slash>> \o Chars[name]
<1>1. Len(p) \in Nat /\ Len(p) # 0
  BY LenProperties, EmptySeq
<1>2. N \in 0..Len(p) /\ N \in Nat /\ Len(p) \in 1..Len(p)
  BY <1>1
<1>3. Len(q) = N /\ \A i \in 1..N : q[i] = p[i]
  BY <1>2, PrefixOf
<1>4. f[0] = <<>> /\ \A n \in 1..Len(p) : f[n] = Next1(f[n - 1], p[n])
  <2>1. Spells(p, Len(p), f)
    BY <1>1, SpellingDefined
  <2> HIDE DEF f
  <2> QED
    BY <1>1, <2>1, SpellsUnfolds
<1>5. g[0] = <<>> /\ \A n \in 1..N : g[n] = Next1(g[n - 1], q[n])
  <2>1. Spells(q, N, g)
    BY <1>2, <1>3, SpellingDefined
  <2> HIDE DEF g, N
  <2> QED
    BY <1>2, <2>1, SpellsUnfolds
<1> HIDE DEF q, f, g, Next1
<1>6. 0 \in P
  BY <1>4, <1>5
<1>7. ASSUME NEW k \in P PROVE k + 1 \in P
  <2>1. SUFFICES ASSUME k + 1 <= N PROVE g[k + 1] = f[k + 1]
    OBVIOUS
  <2>2. k + 1 \in 1..N /\ k + 1 \in 1..Len(p) /\ k + 1 - 1 = k /\ k <= N
    BY <1>1, <2>1
  <2> QED
    BY <1>3, <1>4, <1>5, <2>2
<1>8. N \in P
  <2>1. P \subseteq Nat
    OBVIOUS
  <2> HIDE DEF P
  <2>2. P = Nat
    BY <1>6, <1>7, <2>1, Loops!Counting
  <2> QED
    BY <1>2, <2>2
<1>9. g[N] = f[N]
  BY <1>2, <1>8
<1>10. f[Len(p)] = Next1(g[N], p[Len(p)])
  BY <1>2, <1>4, <1>9
<1>11. Text(p) = f[Len(p)] /\ Text(Parent(p)) = g[N]
  BY <1>3 DEF Text, Parent, f, g, q, N
<1> QED
  BY <1>10, <1>11 DEF Next1, NameOf, Joint

(* The text of the root, of a name and of a path are strings over the      *)
(* code points.                                                            *)
LEMMA TextOfRoot == Text(<<>>) = <<>>
<1> DEFINE none == <<>>
<1>1. Len(none) = 0
  BY EmptySeq
<1> HIDE DEF none
<1>2. Spells(none, 0, SpellingUpTo(none))
  BY <1>1, SpellingDefined
<1>3. SpellingUpTo(none)[0] = <<>>
  BY <1>2, SpellsUnfolds
<1> QED
  BY <1>1, <1>3 DEF Text, none

LEMMA NamesSpelled ==
    ASSUME NEW p \in Seq(Names), p # <<>>
    PROVE  /\ NameOf(p) \in Without(Slash) /\ NameOf(p) \in Strings
           /\ NameOf(p) # <<>>
           /\ Len(NameOf(p)) \in Nat /\ Len(NameOf(p)) >= 1
           /\ p[Len(p)] \in Names
           /\ Slash \in Nat
<1>1. Len(p) \in 1..Len(p)
  <2>1. Len(p) \in Nat /\ Len(p) # 0
    BY LenProperties, EmptySeq
  <2> QED
    BY <2>1
<1>2. p[Len(p)] \in Names
  BY <1>1, LenProperties
<1>3. NameOf(p) \in Without(Slash) /\ NameOf(p) # <<>>
  BY <1>2, CharsAssumption DEF NameOf, Without
<1>4. Len(NameOf(p)) \in Nat /\ Len(NameOf(p)) # 0
  BY <1>3, LenProperties, EmptySeq DEF Without
<1>5. NameOf(p) \in Strings
  BY <1>3, SeqMonotonic DEF Strings, Without
<1> QED
  BY <1>2, <1>3, <1>4, <1>5 DEF Slash
(* A path with a name more has a parent of one name less. *)
LEMMA ParentShorter ==
    ASSUME NEW S, NEW p \in Seq(S), NEW n \in Nat, Len(p) = n + 1
    PROVE  p # <<>> /\ Parent(p) \in Seq(S) /\ Len(Parent(p)) = n
<1>1. p # <<>>
  BY EmptySeq
<1> QED
  BY <1>1, ParentOfNonEmpty

LEMMA TextIsString == ASSUME NEW p \in Seq(Names) PROVE Text(p) \in Strings
<1> DEFINE P == {n \in Nat : \A q \in Seq(Names) : Len(q) = n => Text(q) \in Strings}
<1>1. 0 \in P
  <2>1. ASSUME NEW q \in Seq(Names), Len(q) = 0 PROVE Text(q) \in Strings
    <3>1. q = <<>>
      BY <2>1, EmptySeq
    <3>2. <<>> \in Strings
      BY EmptySeq DEF Strings
    <3> QED
      BY <3>1, <3>2, TextOfRoot
  <2> QED
    BY <2>1
<1>2. ASSUME NEW n \in P PROVE n + 1 \in P
  <2>1. ASSUME NEW q \in Seq(Names), Len(q) = n + 1 PROVE Text(q) \in Strings
    <3>1. q # <<>> /\ Parent(q) \in Seq(Names) /\ Len(Parent(q)) = n
      BY <2>1, ParentShorter
    <3>2. Text(Parent(q)) \in Strings
      BY <3>1
    <3>3. NameOf(q) \in Strings /\ Slash \in Nat
      BY <3>1, NamesSpelled
    <3>4. Joins(Joint(Text(Parent(q)), Slash, NameOf(q)), Slash, Text(Parent(q)), NameOf(q))
      BY <3>2, <3>3, JoinedBy
    <3>5. Joint(Text(Parent(q)), Slash, NameOf(q)) \in Strings
      BY <3>4 DEF Joins
    <3> QED
      BY <3>1, <3>5, TextOfParent
  <2> QED
    BY <2>1
<1>3. P \subseteq Nat
  OBVIOUS
<1>4. Len(p) \in P
  <2> HIDE DEF P
  <2>1. P = Nat
    BY <1>1, <1>2, <1>3, Loops!Counting
  <2> QED
    BY <2>1, LenProperties
<1> QED
  BY <1>4

(* The text of a path that is not the root: a string, a slash, a name. *)
LEMMA TextParts ==
    ASSUME NEW p \in Seq(Names), p # <<>>
    PROVE  /\ Parent(p) \in Seq(Names)
           /\ Text(Parent(p)) \in Strings /\ Text(p) \in Strings
           /\ Joins(Text(p), Slash, Text(Parent(p)), NameOf(p))
<1>1. Parent(p) \in Seq(Names)
  BY ParentOfNonEmpty
<1>2. Text(Parent(p)) \in Strings /\ Text(p) \in Strings
  BY <1>1, TextIsString
<1>3. NameOf(p) \in Strings /\ Slash \in Nat
  BY NamesSpelled
<1>4. Joins(Joint(Text(Parent(p)), Slash, NameOf(p)), Slash, Text(Parent(p)), NameOf(p))
  BY <1>2, <1>3, JoinedBy
<1> QED
  BY <1>1, <1>2, <1>4, TextOfParent

(* It is longer than the text of the root and than a slash. *)
LEMMA TextLong ==
    ASSUME NEW p \in Seq(Names), p # <<>>
    PROVE  Len(Text(p)) \in Nat /\ Len(Text(p)) >= 2
<1>1. Joins(Text(p), Slash, Text(Parent(p)), NameOf(p))
  BY TextParts
<1>2. Len(NameOf(p)) >= 1
  BY NamesSpelled
<1> QED
  BY <1>1, <1>2 DEF Joins

(* Two paths in the same directory with the same last name are the same. *)
LEMMA SamePath ==
    ASSUME NEW p \in Seq(Names), p # <<>>, NEW q \in Seq(Names), q # <<>>,
           Parent(p) = Parent(q), NameOf(p) = NameOf(q)
    PROVE  p = q
<1>1. p[Len(p)] = q[Len(q)]
  <2>1. p[Len(p)] \in Names /\ q[Len(q)] \in Names
    BY NamesSpelled
  <2> QED
    BY <2>1, CharsAssumption DEF NameOf
<1>2. /\ Len(p) \in Nat \ {0} /\ Len(Parent(p)) = Len(p) - 1
      /\ \A i \in 1..(Len(p) - 1) : Parent(p)[i] = p[i]
  BY ParentOfNonEmpty
<1>3. /\ Len(q) \in Nat \ {0} /\ Len(Parent(q)) = Len(q) - 1
      /\ \A i \in 1..(Len(q) - 1) : Parent(q)[i] = q[i]
  BY ParentOfNonEmpty
<1>4. Len(p) = Len(q)
  BY <1>2, <1>3
<1>5. ASSUME NEW i \in 1..Len(p) PROVE p[i] = q[i]
  <2>1. i \in 1..(Len(p) - 1) \/ i = Len(p)
    BY <1>2
  <2> QED
    BY <1>1, <1>2, <1>3, <1>4, <2>1
<1> QED
  BY <1>4, <1>5, SeqEqual

(* So no two paths are spelled alike. *)
LEMMA TextInjective ==
    ASSUME NEW p \in Seq(Names), NEW q \in Seq(Names), Text(p) = Text(q)
    PROVE  p = q
<1> DEFINE P == {n \in Nat : \A r, s \in Seq(Names) :
                                Len(r) = n /\ Text(r) = Text(s) => r = s}
<1>1. 0 \in P
  <2>1. ASSUME NEW r \in Seq(Names), NEW s \in Seq(Names), Len(r) = 0, Text(r) = Text(s)
        PROVE  r = s
    <3>1. r = <<>>
      BY <2>1, EmptySeq
    <3>2. Text(s) = <<>>
      BY <2>1, <3>1, TextOfRoot
    <3>3. Len(Text(s)) = 0
      BY <3>2, EmptySeq
    <3> QED
      BY <3>1, <3>3, TextLong
  <2> QED
    BY <2>1
<1>2. ASSUME NEW n \in P PROVE n + 1 \in P
  <2>1. ASSUME NEW r \in Seq(Names), NEW s \in Seq(Names), Len(r) = n + 1, Text(r) = Text(s)
        PROVE  r = s
    <3>1. r # <<>> /\ Parent(r) \in Seq(Names) /\ Len(Parent(r)) = n
      BY <2>1, ParentShorter
    <3>2. s # <<>>
      <4>1. Len(Text(r)) \in Nat /\ Len(Text(r)) >= 2
        BY <3>1, TextLong
      <4>2. Len(Text(<<>>)) = 0
        BY TextOfRoot, EmptySeq
      <4> QED
        BY <2>1, <4>1, <4>2
    <3>3. /\ Text(r) = Joint(Text(Parent(r)), Slash, NameOf(r))
          /\ Text(s) = Joint(Text(Parent(s)), Slash, NameOf(s))
      BY <3>1, <3>2, TextOfParent
    <3>4. /\ Parent(s) \in Seq(Names)
          /\ Text(Parent(r)) \in Strings /\ Text(Parent(s)) \in Strings
      BY <3>1, <3>2, TextParts
    <3>5. /\ NameOf(r) \in Without(Slash) /\ NameOf(s) \in Without(Slash)
          /\ Slash \in Nat
      BY <3>1, <3>2, NamesSpelled
    <3>6. Text(Parent(r)) = Text(Parent(s)) /\ NameOf(r) = NameOf(s)
      <4> DEFINE tr == Text(Parent(r))
                 ts == Text(Parent(s))
                 nr == NameOf(r)
                 ns == NameOf(s)
      <4>1. Joint(tr, Slash, nr) = Joint(ts, Slash, ns)
        BY <2>1, <3>3
      <4>2. tr \in Strings /\ ts \in Strings
        BY <3>4
      <4>3. nr \in Without(Slash) /\ ns \in Without(Slash) /\ Slash \in Nat
        BY <3>5
      <4> HIDE DEF tr, ts, nr, ns
      <4>4. tr = ts /\ nr = ns
        BY <4>1, <4>2, <4>3, CutAtLast
      <4> QED
        BY <4>4 DEF tr, ts, nr, ns
    <3>7. Parent(r) = Parent(s)
      BY <3>1, <3>4, <3>6
    <3> QED
      BY <3>1, <3>2, <3>6, <3>7, SamePath
  <2> QED
    BY <2>1
<1>3. P \subseteq Nat
  OBVIOUS
<1>4. Len(p) \in P
  <2> HIDE DEF P
  <2>1. P = Nat
    BY <1>1, <1>2, <1>3, Loops!Counting
  <2> QED
    BY <2>1, LenProperties
<1> QED
  BY <1>4
-----------------------------------------------------------------------------
(* A key: a cleaned path, and the slash that a directory's ends in. *)
Keys == [path : Seq(Names), dir : BOOLEAN]

(* What is before the last slash of a spelling but for the one that every  *)
(* directory ends in, and what is after it.                                *)
HeadOf(k) ==
    IF k.dir THEN IF k.path = <<>> THEN <<Slash>> ELSE Text(k.path)
    ELSE IF k.path = <<>> THEN <<>> ELSE Text(Parent(k.path))

RestOf(k) == IF k.dir \/ k.path = <<>> THEN <<>> ELSE NameOf(k.path)

(* The four kinds of keys. *)
Kind(k, kind) ==
    \/ kind = 1 /\ k.dir = TRUE /\ k.path # <<>>
    \/ kind = 2 /\ k.dir = FALSE /\ k.path # <<>>
    \/ kind = 3 /\ k.dir = TRUE /\ k.path = <<>>
    \/ kind = 4 /\ k.dir = FALSE /\ k.path = <<>>

(* A key is spelled in one of four ways.                                   *)
LEMMA EveryKind ==
    ASSUME NEW k \in Keys
    PROVE  k.path \in Seq(Names) /\ \E kind \in 1..4 : Kind(k, kind)
<1>1. k.path \in Seq(Names) /\ k.dir \in BOOLEAN
  BY DEF Keys
<1>2. Kind(k, 1) \/ Kind(k, 2) \/ Kind(k, 3) \/ Kind(k, 4)
  BY <1>1 DEF Kind
<1>3. 1 \in 1..4 /\ 2 \in 1..4 /\ 3 \in 1..4 /\ 4 \in 1..4
  OBVIOUS
<1> QED
  BY <1>1, <1>2, <1>3

(* Strings with nothing to append, and the slash alone.                    *)
LEMMA NoneAfter ==
    ASSUME NEW s \in Strings
    PROVE  s \o <<>> = s /\ <<>> \o s = s /\ <<>> \in Strings /\ <<>> \in Without(Slash)
  BY ConcatEmptySeq, EmptySeq DEF Strings, Without

LEMMA SlashString == Slash \in Nat /\ <<Slash>> \in Strings
<1>1. Slash \in Nat
  BY DEF Slash
<1> QED
  BY <1>1, OneCharacter DEF Strings

(* A key is spelled as what stands before its last slash, and what         *)
(* stands after it.                                                        *)
LEMMA KeySpelled ==
    ASSUME NEW k \in Keys
    PROVE  /\ Spelling(k) = Joint(HeadOf(k), Slash, RestOf(k))
           /\ HeadOf(k) \in Strings
           /\ RestOf(k) \in Without(Slash)
<1> DEFINE p == k.path
           none == <<>>
           one == <<Slash>>
<1>1. p \in Seq(Names) /\ (Kind(k, 1) \/ Kind(k, 2) \/ Kind(k, 3) \/ Kind(k, 4))
  <2>1. PICK kind \in 1..4 : Kind(k, kind)
    BY EveryKind
  <2>2. kind = 1 \/ kind = 2 \/ kind = 3 \/ kind = 4
    OBVIOUS
  <2> QED
    BY <2>1, <2>2, EveryKind
<1>2. p \in Seq(Names) /\ Text(p) \in Strings
  BY EveryKind, TextIsString
<1>3. /\ one \in Strings
      /\ \A s \in Strings : s \o none = s /\ none \o s = s
      /\ none \in Strings /\ none \in Without(Slash)
  BY SlashString, NoneAfter
<1>4. CASE Kind(k, 1)
  <2>1. k.dir = TRUE /\ p # none
    BY <1>4 DEF Kind
  <2>2. Spelling(k) = Text(p) \o one \o none
    BY <2>1 DEF Spelling, Text
  <2>3. HeadOf(k) = Text(p) /\ RestOf(k) = none
    BY <2>1 DEF HeadOf, RestOf
  <2> HIDE DEF p, none
  <2> QED
    BY <1>2, <1>3, <2>2, <2>3 DEF Joint
<1>5. CASE Kind(k, 2)
  <2>1. k.dir = FALSE /\ p # none
    BY <1>5 DEF Kind
  <2>2. Spelling(k) = Text(p) \o none \o none
    BY <2>1 DEF Spelling, Text
  <2>3. HeadOf(k) = Text(Parent(p)) /\ RestOf(k) = NameOf(p)
    BY <2>1 DEF HeadOf, RestOf
  <2>4. Text(Parent(p)) \in Strings /\ Text(p) = Joint(Text(Parent(p)), Slash, NameOf(p))
    BY <1>2, <2>1, TextParts, TextOfParent
  <2>5. NameOf(p) \in Without(Slash)
    BY <1>2, <2>1, NamesSpelled
  <2>6. Spelling(k) = Text(p)
    <3> HIDE DEF p, none
    <3> QED
      BY <1>2, <1>3, <2>2
  <2> QED
    BY <2>3, <2>4, <2>5, <2>6
<1>6. CASE Kind(k, 3)
  <2>1. k.dir = TRUE /\ p = none
    BY <1>6 DEF Kind
  <2>2. Spelling(k) = Text(p) \o one \o one /\ Text(p) = none
    BY <2>1, TextOfRoot DEF Spelling, Text
  <2>3. HeadOf(k) = one /\ RestOf(k) = none
    BY <2>1 DEF HeadOf, RestOf
  <2>4. one \o one \in Strings
    BY <1>3, ConcatProperties DEF Strings
  <2>5. Joint(one, Slash, none) = one \o one \o none
    BY DEF Joint
  <2> HIDE DEF p, none, one
  <2>6. Spelling(k) = one \o one
    BY <1>3, <2>2
  <2>7. Joint(one, Slash, none) = one \o one
    BY <1>3, <2>4, <2>5
  <2> QED
    BY <1>3, <2>3, <2>6, <2>7
<1>7. CASE Kind(k, 4)
  <2>1. k.dir = FALSE /\ p = none
    BY <1>7 DEF Kind
  <2>2. Spelling(k) = Text(p) \o one \o none /\ Text(p) = none
    BY <2>1, TextOfRoot DEF Spelling, Text
  <2>3. HeadOf(k) = none /\ RestOf(k) = none
    BY <2>1 DEF HeadOf, RestOf
  <2>4. Joint(none, Slash, none) = none \o one \o none
    BY DEF Joint
  <2> HIDE DEF p, none, one
  <2> QED
    BY <1>3, <2>2, <2>3, <2>4
<1> QED
  BY <1>1, <1>4, <1>5, <1>6, <1>7

LEMMA SpellingIsString == ASSUME NEW k \in Keys PROVE Spelling(k) \in Strings
<1>1. /\ Spelling(k) = Joint(HeadOf(k), Slash, RestOf(k))
      /\ HeadOf(k) \in Strings /\ RestOf(k) \in Without(Slash) /\ Slash \in Nat
  BY KeySpelled, SlashString
<1>2. RestOf(k) \in Strings
  BY <1>1, SeqMonotonic DEF Strings, Without
<1>3. Joins(Joint(HeadOf(k), Slash, RestOf(k)), Slash, HeadOf(k), RestOf(k))
  BY <1>1, <1>2, JoinedBy
<1> QED
  BY <1>1, <1>3 DEF Joins

(* Two keys with the same head and the same rest are of the same kind. *)
LEMMA SameKind ==
    ASSUME NEW j \in Keys, NEW k \in Keys,
           HeadOf(j) = HeadOf(k), RestOf(j) = RestOf(k), NEW m \in 1..4, Kind(j, m)
    PROVE  Kind(k, m)
<1> DEFINE Sizes(i, kind) ==
             /\ kind = 1 => Len(RestOf(i)) = 0 /\ Len(HeadOf(i)) >= 2
             /\ kind = 2 => Len(RestOf(i)) >= 1
             /\ kind = 3 => Len(RestOf(i)) = 0 /\ Len(HeadOf(i)) = 1
             /\ kind = 4 => Len(RestOf(i)) = 0 /\ Len(HeadOf(i)) = 0
<1>1. ASSUME NEW i \in Keys, NEW kind \in 1..4, Kind(i, kind) PROVE Sizes(i, kind)
  <2>1. i.path \in Seq(Names) /\ Len(<<>>) = 0
    BY EveryKind, EmptySeq
  <2>2. Len(<<Slash>>) = 1
    BY SlashString, OneCharacter
  <2>3. CASE kind = 1
    <3>1. i.dir = TRUE /\ i.path # <<>>
      BY <1>1, <2>3 DEF Kind
    <3>2. RestOf(i) = <<>> /\ HeadOf(i) = Text(i.path)
      BY <3>1 DEF RestOf, HeadOf
    <3>3. Len(Text(i.path)) >= 2
      BY <2>1, <3>1, TextLong
    <3> QED
      BY <2>1, <2>3, <3>2, <3>3
  <2>4. CASE kind = 2
    <3>1. i.dir = FALSE /\ i.path # <<>>
      BY <1>1, <2>4 DEF Kind
    <3>2. RestOf(i) = NameOf(i.path)
      BY <3>1 DEF RestOf
    <3> QED
      BY <2>1, <2>4, <3>1, <3>2, NamesSpelled
  <2>5. CASE kind = 3
    <3>1. i.dir = TRUE /\ i.path = <<>>
      BY <1>1, <2>5 DEF Kind
    <3>2. RestOf(i) = <<>> /\ HeadOf(i) = <<Slash>>
      BY <3>1 DEF RestOf, HeadOf
    <3> QED
      BY <2>1, <2>2, <2>5, <3>2
  <2>6. CASE kind = 4
    <3>1. i.dir = FALSE /\ i.path = <<>>
      BY <1>1, <2>6 DEF Kind
    <3>2. RestOf(i) = <<>> /\ HeadOf(i) = <<>>
      BY <3>1 DEF RestOf, HeadOf
    <3> QED
      BY <2>1, <2>6, <3>2
  <2> QED
    BY <2>3, <2>4, <2>5, <2>6
<1>2. PICK n \in 1..4 : Kind(k, n)
  BY EveryKind
<1>3. Sizes(j, m) /\ Sizes(k, n)
  BY <1>1, <1>2
<1>4. Len(RestOf(k)) \in Nat /\ Len(HeadOf(k)) \in Nat
  BY KeySpelled, LenProperties DEF Strings, Without
<1>5. m = n
  <2> DEFINE h == Len(HeadOf(k))
             r == Len(RestOf(k))
  <2>1. /\ m = 1 => r = 0 /\ h >= 2
        /\ m = 2 => r >= 1
        /\ m = 3 => r = 0 /\ h = 1
        /\ m = 4 => r = 0 /\ h = 0
    BY <1>3
  <2>2. /\ n = 1 => r = 0 /\ h >= 2
        /\ n = 2 => r >= 1
        /\ n = 3 => r = 0 /\ h = 1
        /\ n = 4 => r = 0 /\ h = 0
    BY <1>3
  <2>3. r \in Nat /\ h \in Nat
    BY <1>4
  <2> HIDE DEF h, r
  <2>4. m \in {1, 2, 3, 4} /\ n \in {1, 2, 3, 4}
    BY <1>2
  <2> QED
    BY <2>1, <2>2, <2>3, <2>4
<1> QED
  BY <1>2, <1>5

(* No two keys are spelled alike: a file never like a directory, and the   *)
(* root like nothing else.                                                 *)
LEMMA SpellingInjective ==
    ASSUME NEW j \in Keys, NEW k \in Keys, Spelling(j) = Spelling(k)
    PROVE  j = k
<1>1. HeadOf(j) = HeadOf(k) /\ RestOf(j) = RestOf(k)
  <2> DEFINE hj == HeadOf(j)
             hk == HeadOf(k)
             rj == RestOf(j)
             rk == RestOf(k)
  <2>1. /\ Joint(hj, Slash, rj) = Joint(hk, Slash, rk)
        /\ hj \in Strings /\ hk \in Strings
        /\ rj \in Without(Slash) /\ rk \in Without(Slash)
        /\ Slash \in Nat
    BY KeySpelled, SlashString
  <2> HIDE DEF hj, hk, rj, rk
  <2>2. hj = hk /\ rj = rk
    BY <2>1, CutAtLast
  <2> QED
    BY <2>2 DEF hj, hk, rj, rk
<1>2. PICK m \in 1..4 : Kind(j, m)
  BY EveryKind
<1>3. Kind(k, m)
  BY <1>1, <1>2, SameKind
<1>4. /\ j.path \in Seq(Names) /\ k.path \in Seq(Names)
      /\ j = [path |-> j.path, dir |-> j.dir] /\ k = [path |-> k.path, dir |-> k.dir]
  BY DEF Keys
<1>5. m = 1 \/ m = 2 \/ m = 3 \/ m = 4
  OBVIOUS
<1>6. CASE m = 1
  <2>1. j.dir = TRUE /\ k.dir = TRUE /\ j.path # <<>> /\ k.path # <<>>
    BY <1>2, <1>3, <1>6 DEF Kind
  <2>2. Text(j.path) = Text(k.path)
    BY <1>1, <2>1 DEF HeadOf
  <2>3. j.path = k.path
    BY <1>4, <2>2, TextInjective
  <2> QED
    BY <1>4, <2>1, <2>3
<1>7. CASE m = 2
  <2>1. j.dir = FALSE /\ k.dir = FALSE /\ j.path # <<>> /\ k.path # <<>>
    BY <1>2, <1>3, <1>7 DEF Kind
  <2>2. Text(Parent(j.path)) = Text(Parent(k.path)) /\ NameOf(j.path) = NameOf(k.path)
    BY <1>1, <2>1 DEF HeadOf, RestOf
  <2>3. Parent(j.path) \in Seq(Names) /\ Parent(k.path) \in Seq(Names)
    BY <1>4, <2>1, TextParts
  <2>4. Parent(j.path) = Parent(k.path)
    BY <2>2, <2>3, TextInjective
  <2>5. j.path = k.path
    BY <1>4, <2>1, <2>2, <2>4, SamePath
  <2> QED
    BY <1>4, <2>1, <2>5
<1>8. CASE m = 3
  <2>1. j.dir = TRUE /\ k.dir = TRUE /\ j.path = <<>> /\ k.path = <<>>
    BY <1>2, <1>3, <1>8 DEF Kind
  <2> QED
    BY <1>4, <2>1
<1>9. CASE m = 4
  <2>1. j.dir = FALSE /\ k.dir = FALSE /\ j.path = <<>> /\ k.path = <<>>
    BY <1>2, <1>3, <1>9 DEF Kind
  <2> QED
    BY <1>4, <2>1
<1> QED
  BY <1>5, <1>6, <1>7, <1>8, <1>9

(* Less is a strict order of the keys, and a total one. *)
LEMMA LessOrders ==
    ASSUME NEW i \in Keys, NEW j \in Keys, NEW k \in Keys
    PROVE  /\ ~ Less(k, k)
           /\ Less(i, j) /\ Less(j, k) => Less(i, k)
           /\ j # k => Less(j, k) \/ Less(k, j)
<1>1. Spelling(i) \in Strings /\ Spelling(j) \in Strings /\ Spelling(k) \in Strings
  BY SpellingIsString
<1>2. ~ Less(k, k)
  BY <1>1, LessIrreflexive DEF Less
<1>3. Less(i, j) /\ Less(j, k) => Less(i, k)
  BY <1>1, LessTransitive DEF Less
<1>4. j # k => Less(j, k) \/ Less(k, j)
  BY <1>1, SpellingInjective, LessTotal DEF Less
<1> QED
  BY <1>2, <1>3, <1>4
(* A key is spelled like its path or, a directory, with a slash more. *)
LEMMA KeyBelowPath ==
    ASSUME NEW k \in Keys, k.path # <<>>
    PROVE  /\ k.path \in Seq(Names)
           /\ \A s \in Strings : StringLess(s, Text(k.path)) => StringLess(s, Spelling(k))
<1> DEFINE p == k.path
           t == Text(p)
<1>1. p \in Seq(Names) /\ k.dir \in BOOLEAN
  BY DEF Keys
<1>2. t \in Strings /\ Spelling(k) \in Strings
  BY <1>1, TextIsString, SpellingIsString
<1>3. CASE k.dir = TRUE
  <2>1. Spelling(k) = Joint(t, Slash, <<>>)
    <3>1. HeadOf(k) = t /\ RestOf(k) = <<>>
      BY <1>3 DEF HeadOf, RestOf
    <3> HIDE DEF t
    <3> QED
      BY <3>1, KeySpelled
  <2>2. Slash \in Nat /\ <<>> \in Strings /\ Len(<<>>) = 0
    BY SlashString, NoneAfter, <1>2, EmptySeq
  <2> DEFINE none == <<>>
             u == Spelling(k)
  <2> HIDE DEF t, none, u
  <2>3. Joins(u, Slash, t, none)
    BY <1>2, <2>1, <2>2, JoinedBy DEF none, u
  <2>4. Len(t) \in Nat /\ Len(u) = Len(t) + 1 + Len(none) /\ \A i \in 1..Len(t) : u[i] = t[i]
    BY <2>3 DEF Joins
  <2>5. Len(t) < Len(u)
    BY <2>2, <2>4 DEF none
  <2>6. StringLess(t, u)
    BY <1>2, <2>4, <2>5, BeginningBelow DEF u
  <2>7. \A s \in Strings : StringLess(s, t) => StringLess(s, u)
    BY <1>2, <2>6, LessTransitive DEF u
  <2> QED
    BY <1>1, <2>7 DEF t, u
<1>4. CASE k.dir = FALSE
  <2>1. HeadOf(k) = Text(Parent(p)) /\ RestOf(k) = NameOf(p)
    BY <1>4 DEF HeadOf, RestOf
  <2>2. t = Joint(Text(Parent(p)), Slash, NameOf(p))
    BY <1>1, TextOfParent
  <2>3. Spelling(k) = t
    BY <2>1, <2>2, KeySpelled
  <2> QED
    BY <1>1, <2>3
<1> QED
  BY <1>1, <1>3, <1>4

(* A directory sorts before what is in it, *)
LEMMA DirectoryBelow ==
    ASSUME NEW k \in Keys, Parent(k.path) # <<>>
    PROVE  DirKey(Parent(k.path)) \in Keys /\ Less(DirKey(Parent(k.path)), k)
<1> DEFINE p == k.path
           q == Parent(p)
           above == DirKey(q)
           t == Text(p)
           u == Spelling(above)
<1>1. p \in Seq(Names) /\ p # <<>>
  BY ParentOfRoot DEF Keys
<1>2. q \in Seq(Names) /\ Text(q) \in Strings /\ t \in Strings /\ Joins(t, Slash, Text(q), NameOf(p))
  BY <1>1, TextParts
<1>3. above \in Keys
  BY <1>2 DEF Keys, DirKey
<1>4. u = Joint(Text(q), Slash, <<>>) /\ u \in Strings
  <2>1. HeadOf(above) = Text(q) /\ RestOf(above) = <<>>
    BY KeyFields DEF HeadOf, RestOf
  <2> QED
    BY <1>3, <2>1, KeySpelled, SpellingIsString
<1>5. Slash \in Nat /\ <<>> \in Strings /\ Len(<<>>) = 0
  BY SlashString, EmptySeq DEF Strings
<1>6. Len(NameOf(p)) >= 1
  BY <1>1, NamesSpelled
<1> DEFINE none == <<>>
           tq == Text(q)
<1> HIDE DEF t, u, none, tq
<1>7. Joins(u, Slash, tq, none)
  BY <1>2, <1>4, <1>5, JoinedBy DEF none, tq
<1>8. /\ Len(tq) \in Nat /\ Len(u) = Len(tq) + 1 + Len(none)
      /\ u[Len(tq) + 1] = Slash /\ \A i \in 1..Len(tq) : u[i] = tq[i]
  BY <1>7 DEF Joins
<1>9. /\ Len(t) = Len(tq) + 1 + Len(NameOf(p)) /\ Len(NameOf(p)) \in Nat
      /\ t[Len(tq) + 1] = Slash /\ \A i \in 1..Len(tq) : t[i] = tq[i]
  BY <1>2 DEF Joins, tq
<1>10. Len(u) = Len(tq) + 1 /\ Len(u) < Len(t)
  <2>1. Len(none) = 0
    BY <1>5 DEF none
  <2> QED
    BY <1>6, <1>8, <1>9, <2>1
<1>11. ASSUME NEW i \in 1..Len(u) PROVE u[i] = t[i]
  <2>1. i \in 1..Len(tq) \/ i = Len(tq) + 1
    BY <1>8, <1>10
  <2> QED
    BY <1>8, <1>9, <2>1
<1>12. StringLess(u, t)
  BY <1>2, <1>4, <1>10, <1>11, BeginningBelow DEF t
<1>13. StringLess(u, Spelling(k))
  BY <1>1, <1>4, <1>12, KeyBelowPath DEF t
<1> QED
  BY <1>3, <1>13 DEF Less, u

(* and the root directory before the names that sort after the slash. *)
LEMMA RootBelow ==
    ASSUME NEW k \in Keys, k.path # <<>>, Parent(k.path) = <<>>, Chars[k.path[1]][1] > Slash
    PROVE  DirKey(<<>>) \in Keys /\ Less(DirKey(<<>>), k)
<1> DEFINE p == k.path
           root == DirKey(<<>>)
           t == Text(p)
           u == Spelling(root)
           none == <<>>
           one == <<Slash>>
<1>1. p \in Seq(Names)
  BY DEF Keys
<1>2. t \in Strings /\ Joins(t, Slash, Text(none), NameOf(p)) /\ Text(none) = none
  BY <1>1, TextParts, TextOfRoot
<1>3. root \in Keys
  BY EmptySeq DEF Keys, DirKey
<1>4. u = Joint(one, Slash, none) /\ u \in Strings
  <2>1. HeadOf(root) = one /\ RestOf(root) = none
    BY KeyFields DEF HeadOf, RestOf
  <2> QED
    BY <1>3, <2>1, KeySpelled, SpellingIsString
<1>5. Slash \in Nat /\ none \in Strings /\ Len(none) = 0 /\ one \in Strings
  BY SlashString, EmptySeq DEF Strings
<1>6. Len(one) = 1 /\ one[1] = Slash
  BY <1>5, OneCharacter
<1>7. Len(p) = 1
  <2>1. Len(p) \in Nat \ {0} /\ Len(Parent(p)) = Len(p) - 1
    BY <1>1, ParentOfNonEmpty
  <2> QED
    BY <1>5, <2>1
<1>8. NameOf(p)[1] > Slash /\ Len(NameOf(p)) >= 1 /\ Len(NameOf(p)) \in Nat
  <2>1. NameOf(p) = Chars[p[1]]
    BY <1>7 DEF NameOf
  <2> QED
    BY <1>1, <2>1, NamesSpelled
<1> DEFINE name == NameOf(p)
<1> HIDE DEF t, u, none, one, name
<1>9. Joins(u, Slash, one, none)
  BY <1>4, <1>5, JoinedBy
<1>10. Len(u) = 2 /\ u[1] = Slash /\ u[2] = Slash
  <2>1. /\ Len(u) = Len(one) + 1 + Len(none) /\ u[Len(one) + 1] = Slash
        /\ \A i \in 1..Len(one) : u[i] = one[i]
    BY <1>9 DEF Joins
  <2>2. Len(u) = 2 /\ Len(one) + 1 = 2 /\ 1 \in 1..Len(one)
    BY <1>5, <1>6, <2>1 DEF none
  <2>3. u[1] = Slash
    BY <1>6, <2>1, <2>2
  <2>4. u[2] = Slash
    BY <2>1, <2>2
  <2> QED
    BY <2>2, <2>3, <2>4
<1>11. Len(t) >= 2 /\ Len(t) \in Nat /\ t[1] = Slash /\ t[2] > Slash
  <2>1. Joins(t, Slash, none, name)
    BY <1>2 DEF name
  <2>2. /\ Len(t) = Len(none) + 1 + Len(name) /\ t[Len(none) + 1] = Slash
        /\ \A i \in 1..Len(name) : t[Len(none) + 1 + i] = name[i]
    BY <2>1 DEF Joins
  <2>3. Len(name) >= 1 /\ Len(name) \in Nat /\ name[1] > Slash
    BY <1>8 DEF name
  <2>4. t[0 + 1] = Slash /\ t[0 + 1 + 1] = name[1] /\ Len(t) = 0 + 1 + Len(name)
    BY <1>5, <2>2, <2>3
  <2> QED
    BY <2>3, <2>4
<1>12. StringLess(u, t)
  <2>1. Common(u, t, 1)
    BY <1>10, <1>11 DEF Common
  <2>2. Below(u, t, 1)
    <3>1. u[1 + 1] = Slash /\ t[1 + 1] = t[2] /\ t[2] \in Nat
      <4>1. t[2] \in Nat
        BY <1>2, <1>11, LenProperties DEF Strings, t
      <4> QED
        BY <1>10, <4>1
    <3>2. u[1 + 1] < t[1 + 1]
      BY <1>5, <1>11, <3>1
    <3> QED
      BY <1>11, <2>1, <3>2 DEF Below
  <2> QED
    BY <1>2, <1>4, <2>2, LessIsBelow
<1>13. StringLess(u, Spelling(k))
  BY <1>1, <1>4, <1>12, KeyBelowPath DEF t
<1> QED
  BY <1>3, <1>13 DEF Less, u
-----------------------------------------------------------------------------
(* Of two keys of a finite table, the lower one has fewer keys below it.   *)
KeysBelow(T, k) == {j \in T : Less(j, k)}

(* The position of a key is the number of keys below it.                   *)
LEMMA LowerIsEarlier ==
    ASSUME NEW T, IsFiniteSet(T), T \subseteq Keys, NEW j \in T, NEW k \in T, Less(j, k)
    PROVE  /\ Cardinality(KeysBelow(T, j)) \in Nat /\ Cardinality(KeysBelow(T, k)) \in Nat
           /\ Cardinality(KeysBelow(T, j)) < Cardinality(KeysBelow(T, k))
<1> DEFINE A == KeysBelow(T, j)
           B == KeysBelow(T, k)
<1>1. A \in SUBSET T /\ B \in SUBSET T
  BY DEF KeysBelow
<1>2. IsFiniteSet(A) /\ IsFiniteSet(B)
  BY <1>1, FS_Subset
<1>3. A \in SUBSET B
  <2>1. \A i \in T : Less(i, j) => Less(i, k)
    BY LessOrders
  <2> QED
    BY <2>1 DEF KeysBelow
<1>4. j \in B /\ j \notin A
  <2>1. ~ Less(j, j)
    BY LessOrders
  <2> QED
    BY <2>1 DEF KeysBelow
<1> HIDE DEF A, B
<1>5. Cardinality(A) \in Nat /\ Cardinality(B) \in Nat
  BY <1>2, FS_CardinalityType
<1>6. Cardinality(A) <= Cardinality(B) /\ (Cardinality(B) = Cardinality(A) => B = A)
  BY <1>2, <1>3, FS_Subset
<1> QED
  BY <1>4, <1>5, <1>6 DEF A, B

-----------------------------------------------------------------------------
(* The table is finite and its keys are made of known names.               *)
TableKnown(tab) == IsFiniteSet(DOMAIN tab) /\ DOMAIN tab \subseteq Keys

(* addParents makes finitely many directories.                             *)
LEMMA ParentsFinite ==
    ASSUME NEW dst, Len(CleanRel(Parent(dst))) \in Nat
    PROVE  IsFiniteSet({DirKey(p) : p \in ParentPaths(dst)})
<1> DEFINE rel == CleanRel(Parent(dst))
           I == 1..Len(rel)
           f == [n \in I |-> DirKey(CleanAbs(Prefix(rel, n)))]
           T == {DirKey(p) : p \in ParentPaths(dst)}
<1>1. IsFiniteSet(I)
  <2>1. Len(rel) \in Int /\ 1 \in Int
    OBVIOUS
  <2> HIDE DEF rel
  <2> QED
    BY <2>1, FS_Interval
<1>2. ParentPaths(dst) = {CleanAbs(Prefix(rel, n)) : n \in I}
  BY DEF ParentPaths
<1> HIDE DEF rel, I
<1>3. T = {DirKey(CleanAbs(Prefix(rel, n))) : n \in I}
  BY <1>2
<1>4. f \in [I -> T] /\ \A t \in T : \E n \in I : f[n] = t
  BY <1>3
<1> HIDE DEF f, T
<1>5. f \in Surjection(I, T)
  BY <1>4 DEF Surjection
<1> QED
  BY <1>1, <1>5, FS_Surjection DEF T

(* The keys of the table are paths of known names.                         *)
LEMMA KnownKeys == ASSUME NEW p \in Seq(Names) PROVE DirKey(p) \in Keys /\ FileKey(p) \in Keys
  BY DEF DirKey, FileKey, Keys

LEMMA KnownWithParents ==
    ASSUME TableKnown(table), NEW owner, NEW dst \in Seq(Names \cup {UP})
    PROVE  TableKnown(WithParents(dst, owner))
<1> DEFINE T == {DirKey(p) : p \in ParentPaths(dst)}
<1>1. UP \notin Names
  BY NamesAssumption
<1>2. Len(CleanRel(Parent(dst))) \in Nat
  <2>1. Parent(dst) \in Seq(Names \cup {UP})
    BY ParentIsPath
  <2>2. PICK k \in Nat : Reads(Names, CleanRel(Parent(dst)), k, CleanAbs(Parent(dst)))
    BY <1>1, <2>1, CleaningAgrees
  <2> QED
    BY <2>2, LenProperties DEF Reads
<1>3. IsFiniteSet(T)
  BY <1>2, ParentsFinite
<1>4. T \subseteq Keys
  <2>1. ParentPaths(dst) \subseteq Seq(Names)
    BY <1>1, PathsLead
  <2> QED
    BY <2>1, KnownKeys
<1>5. DOMAIN WithParents(dst, owner) = DOMAIN table \cup T
  BY DEF WithParents
<1> HIDE DEF T
<1>6. IsFiniteSet(DOMAIN table \cup T)
  BY <1>3, FS_Union DEF TableKnown
<1> QED
  BY <1>4, <1>5, <1>6 DEF TableKnown

LEMMA KnownPut ==
    ASSUME NEW tab, TableKnown(tab), NEW key \in Keys, NEW entry
    PROVE  TableKnown(Put(tab, key, entry))
<1>1. DOMAIN Put(tab, key, entry) = DOMAIN tab \cup {key}
  BY DEF Put
<1>2. IsFiniteSet(DOMAIN tab \cup {key})
  BY FS_AddElement DEF TableKnown
<1> QED
  BY <1>1, <1>2 DEF TableKnown

(* The result is sorted. *)
Sorted ==
    pc = "done" =>
        position = [k \in DOMAIN table |-> 1 + Cardinality(KeysBelow(DOMAIN table, k))]

(* Every step keeps to known names.                                        *)
LEMMA StepKnown == IInv /\ TableKnown(table) /\ [Next]_vars => TableKnown(table)'
<1> SUFFICES ASSUME IInv, TableKnown(table), [Next]_vars PROVE TableKnown(table')
  BY DEF TableKnown
<1>1. CASE UNCHANGED table
  BY <1>1
<1>2. ASSUME AddDir \/ AddAsIs, ~Fail PROVE TableKnown(table')
  <2> DEFINE c == Current
             path == CleanAbs(c.dst)
  <2>1. next <= Len(contents) /\ pc = "next"
    BY <1>2 DEF AddDir, AddAsIs, Handling
  <2>2. c \in Contents
    BY <2>1, OwnersKnown DEF IInv
  <2>3. c.dst \in Seq(Names \cup {UP}) /\ path \in Seq(Names)
    BY <2>2, NamesAssumption, PathsKnown
  <2>4. \E key \in {DirKey(path), FileKey(path)} : \E e : table' = Put(WithParents(c.dst, ""), key, e)
    BY <1>2 DEF AddDir, AddAsIs, Store
  <2> HIDE DEF path
  <2>5. DirKey(path) \in Keys /\ FileKey(path) \in Keys
    BY <2>3, KnownKeys
  <2>6. TableKnown(WithParents(c.dst, ""))
    BY <2>3, KnownWithParents
  <2> QED
    BY <2>4, <2>5, <2>6, KnownPut
<1>3. ASSUME NEW m \in pending, AddGlobbed(m), ~Fail PROVE TableKnown(table')
  <2> DEFINE c == Current
             dst == GlobDestination(c, m)
  <2>1. pc = "glob" /\ next <= Len(contents)
    BY <1>3 DEF AddGlobbed, IInv, GlobInv
  <2>2. c.type \in FileTypes \cup {""} /\ m \in Matches[c.src].files /\ c \in Contents
    BY <2>1, OwnersKnown DEF IInv, GlobInv, IsGlob
  <2>3. \E e : table' = Put(WithParents(dst, c.owner), FileKey(dst), e)
    BY <1>3 DEF AddGlobbed
  <2>4. dst \in Seq(Names)
    BY <2>2, MatchesKnown
  <2> HIDE DEF dst
  <2>5. dst \in Seq(Names \cup {UP}) /\ FileKey(dst) \in Keys
    BY <2>4, NamesAssumption, CleanStays, KnownKeys
  <2>6. TableKnown(WithParents(dst, c.owner))
    BY <2>5, KnownWithParents
  <2> QED
    BY <2>3, <2>5, <2>6, KnownPut
<1>4. ASSUME BeginTree, ~Fail PROVE TableKnown(table')
  <2>1. next <= Len(contents) /\ table' = WithParents(Current.dst, Current.owner)
    BY <1>4 DEF BeginTree, Handling
  <2>2. Current.dst \in Seq(Names \cup {UP})
    BY <2>1, OwnersKnown, NamesAssumption DEF IInv
  <2> QED
    BY <2>1, <2>2, KnownWithParents
<1>5. ASSUME WalkNode, ~Fail PROVE TableKnown(table')
  <2> DEFINE c == Current
             n == TreeOf[c.src][node]
             path == NodePath(c, n)
  <2>1. pc = "walk" /\ node <= Len(TreeOf[c.src]) /\ next <= Len(contents) /\ IsTree(c)
    BY <1>5 DEF WalkNode, IInv, WalkInv
  <2>2. c \in Contents /\ c.type \in TreeTypes
    BY <2>1, OwnersKnown DEF IInv, IsTree
  <2>3. CleanAbs(c.dst) \in Seq(Names) /\ n.rel \in Seq(Names)
    <3>1. node \in 1..Len(TreeOf[c.src])
      BY <2>1, <2>2, WalkAssumption DEF IInv
    <3> QED
      BY <2>2, <3>1, PathsKnown, WalkAssumption DEF Names
  <2>4. path \in Seq(Names)
    BY <2>3, ConcatProperties DEF NodePath
  <2>5. table' = table \/ \E key \in {DirKey(path), FileKey(path)} : \E e : table' = Put(table, key, e)
    BY <1>5 DEF WalkNode, NodeKey
  <2> HIDE DEF path
  <2>6. DirKey(path) \in Keys /\ FileKey(path) \in Keys
    BY <2>4, KnownKeys
  <2> QED
    BY <2>5, <2>6, KnownPut
<1>6. CASE Fail
  BY <1>1, <1>6 DEF Fail
<1>7. CASE Skip \/ InvalidType \/ Glob \/ EndGlob \/ EndTree \/ Finish \/ UNCHANGED vars
  BY <1>1, <1>7 DEF Skip, Store, InvalidType, Fail, Glob, EndGlob, EndTree, Finish, vars
<1> QED
  BY <1>2, <1>3, <1>4, <1>5, <1>6, <1>7 DEF Next

(* The list handed on is in the order of its keys.                         *)
LEMMA StepSorted == Sorted /\ [Next]_vars => Sorted'
<1> SUFFICES ASSUME Sorted, [Next]_vars, pc' = "done"
             PROVE  position' = [k \in DOMAIN table' |->
                                    1 + Cardinality(KeysBelow(DOMAIN table', k))]
  BY DEF Sorted
<1>1. CASE Finish
  BY <1>1 DEF Finish, KeysBelow
<1>2. CASE ~Finish
  <2>1. UNCHANGED vars
    BY <1>2 DEF Next, Skip, AddDir, AddAsIs, InvalidType, Glob, AddGlobbed, EndGlob, BeginTree,
               WalkNode, EndTree, Store, Fail, Handling
  <2> QED
    BY <2>1 DEF vars, Sorted
<1> QED
  BY <1>1, <1>2

(* The result is sorted without ties, and a directory comes before what is *)
(* in it, however names are spelled; the root directory, whose destination *)
(* is "//", only before names that sort after the slash (Contents.Less,    *)
(* files/files.go:103).                                                    *)
THEOREM DirectoriesComeFirst == Spec => []ParentsFirst
<1> DEFINE Inv == IInv /\ TableKnown(table) /\ Sorted
<1>1. Init => Inv
  <2>1. Init => DOMAIN table = {} /\ pc # "done"
    BY DEF Init
  <2> QED
    BY <2>1, Initially, FS_EmptySet DEF TableKnown, Sorted
<1>2. Inv /\ [Next]_vars => Inv'
  BY StepPreserves, StepKnown, StepSorted
<1>3. Inv => ParentsFirst
  <2> SUFFICES ASSUME IInv, TableKnown(table), Sorted, pc = "done", NEW k \in DOMAIN table
               PROVE  LET above == DirKey(Parent(k.path)) IN
                      /\ \A j \in DOMAIN table \ {k} : position[j] # position[k]
                      /\ Parent(k.path) # <<>> => position[above] < position[k]
                      /\ k.path # <<>> /\ above \in DOMAIN table /\ Chars[k.path[1]][1] > Slash =>
                            position[above] < position[k]
    BY DEF ParentsFirst
  <2> DEFINE T == DOMAIN table
             above == DirKey(Parent(k.path))
  <2>1. IsFiniteSet(T) /\ T \subseteq Keys /\ k \in T
    BY DEF TableKnown
  <2>2. \A i \in T : position[i] = 1 + Cardinality(KeysBelow(T, i))
    BY DEF Sorted
  <2>3. Parent(k.path) # <<>> => above \in T
    BY DEF IInv, Closed
  <2> HIDE DEF T, above
  <2>4. ASSUME NEW i \in T, NEW j \in T, Less(i, j) PROVE position[i] < position[j]
    <3> DEFINE m == Cardinality(KeysBelow(T, i))
               n == Cardinality(KeysBelow(T, j))
    <3>1. m \in Nat /\ n \in Nat /\ m < n
      BY <2>1, <2>4, LowerIsEarlier
    <3>2. position[i] = 1 + m /\ position[j] = 1 + n
      BY <2>2
    <3> HIDE DEF m, n
    <3> QED
      BY <3>1, <3>2
  <2>5. \A i \in T : position[i] \in Nat
    <3> TAKE i \in T
    <3> DEFINE B == KeysBelow(T, i)
    <3>1. B \in SUBSET T
      BY DEF KeysBelow
    <3>2. position[i] = 1 + Cardinality(B)
      BY <2>2
    <3> HIDE DEF B
    <3>3. Cardinality(B) \in Nat
      BY <2>1, <3>1, FS_Subset, FS_CardinalityType
    <3> QED
      BY <3>2, <3>3
  <2>6. ASSUME NEW j \in T \ {k} PROVE position[j] # position[k]
    <3>1. Less(j, k) \/ Less(k, j)
      BY <2>1, LessOrders
    <3>2. position[j] < position[k] \/ position[k] < position[j]
      BY <2>1, <2>4, <3>1
    <3>3. position[j] \in Nat /\ position[k] \in Nat
      BY <2>1, <2>5
    <3> QED
      BY <3>2, <3>3
  <2>7. ASSUME Parent(k.path) # <<>> PROVE position[above] < position[k]
    <3>1. Less(above, k)
      BY <2>1, <2>7, DirectoryBelow DEF above
    <3> QED
      BY <2>1, <2>3, <2>4, <2>7, <3>1
  <2>8. ASSUME k.path # <<>>, above \in T, Chars[k.path[1]][1] > Slash
        PROVE  position[above] < position[k]
    <3>1. CASE Parent(k.path) # <<>>
      BY <2>7, <3>1
    <3>2. CASE Parent(k.path) = <<>>
      <4>1. Less(above, k)
        BY <2>1, <2>8, <3>2, RootBelow DEF above
      <4> QED
        BY <2>1, <2>4, <2>8, <4>1
    <3> QED
      BY <3>1, <3>2
  <2> QED
    BY <2>6, <2>7, <2>8 DEF T, above
<1> QED
  BY <1>1, <1>2, <1>3, PTL DEF Spec
-----------------------------------------------------------------------------
(***************************************************************************)
(* The table is the meaning of the list so far.                            *)
(***************************************************************************)
Asks(c, key) == \E cl \in Claims(c) : cl.key = key

(* The last and the first of a set of positions.                           *)
LEMMA LastIs ==
    ASSUME NEW S \in SUBSET Nat, NEW i \in S, \A j \in S : j <= i
    PROVE  LastOf(S) = i
<1>1. \A j \in S : (\A h \in S : h <= j) => j = i
  BY SMT
<1> QED
  BY <1>1 DEF LastOf

LEMMA FirstIs ==
    ASSUME NEW S \in SUBSET Nat, NEW i \in S, \A j \in S : i <= j
    PROVE  FirstOf(S) = i
<1>1. \A j \in S : (\A h \in S : j <= h) => j = i
  BY SMT
<1> QED
  BY <1>1 DEF FirstOf

(* Numbers that do not exceed a bound have a greatest. *)
LEMMA GreatestElement ==
    ASSUME NEW S \in SUBSET Nat, S # {}, NEW bound \in Nat, \A i \in S : i <= bound
    PROVE  \E i \in S : \A j \in S : j <= i
<1> DEFINE T == {n \in Nat : \A i \in S : i <= n}
<1>1. PICK n \in T : \A m \in T : n <= m
  <2>1. bound \in T /\ T \in SUBSET Nat /\ T # {}
    OBVIOUS
  <2> HIDE DEF T
  <2> QED
    BY <2>1, Loops!LeastElement
<1>2. n \in S
  <2> SUFFICES ASSUME n \notin S PROVE FALSE
    OBVIOUS
  <2>1. n # 0
    <3>1. PICK i \in S : i \in Nat
      OBVIOUS
    <3>2. i <= n /\ n \in Nat
      BY <1>1, <3>1
    <3> QED
      BY <3>1, <3>2
  <2>2. n - 1 \in T
    BY <1>1, <2>1
  <2> QED
    BY <1>1, <2>1, <2>2
<1> QED
  BY <1>1, <1>2

(* The beginnings of a list. *)
LEMMA ListPrefix ==
    ASSUME NEW list \in Seq(Contents), NEW n \in 0..Len(list)
    PROVE  /\ Len(Prefix(list, n)) = n
           /\ \A i \in 1..n : Prefix(list, n)[i] = list[i]
  BY PrefixOf

(* What Meaning is, without its choices. *)
LEMMA MeaningDomain ==
    ASSUME NEW list \in Seq(Contents), NEW n \in 0..Len(list)
    PROVE  LET M == Meaning(Prefix(list, n)) IN
           /\ M = [k \in DOMAIN M |-> M[k]]
           /\ \A k : k \in DOMAIN M <=>
                 \E i \in 1..n : Asks(list[i], k) \/ k \in Needs(list[i])
<1> DEFINE p == Prefix(list, n)
           M == Meaning(p)
           claimed == UNION {{cl.key : cl \in Claims(p[i])} : i \in 1..Len(p)}
           needed  == UNION {Needs(p[i]) : i \in 1..Len(p)}
<1>1. Len(p) = n /\ \A i \in 1..n : p[i] = list[i]
  BY ListPrefix
<1> HIDE DEF p
<1>2. M = [k \in DOMAIN M |-> M[k]] /\ DOMAIN M = claimed \cup needed
  BY DEF Meaning
<1>3. \A k : k \in claimed <=> \E i \in 1..n : Asks(list[i], k)
  BY <1>1 DEF Asks
<1>4. \A k : k \in needed <=> \E i \in 1..n : k \in Needs(list[i])
  BY <1>1
<1> HIDE DEF claimed, needed, M
<1> QED
  BY <1>2, <1>3, <1>4 DEF M, p

(* A key that contents ask for belongs to the last of them.                *)
LEMMA MeaningOfClaim ==
    ASSUME NEW list \in Seq(Contents), NEW n \in 0..Len(list), NEW k, NEW i \in 1..n,
           Asks(list[i], k), \A j \in 1..n : Asks(list[j], k) => j <= i
    PROVE  Meaning(Prefix(list, n))[k] = ClaimOf(list[i], k)
<1> DEFINE p == Prefix(list, n)
           claimed == UNION {{cl.key : cl \in Claims(p[j])} : j \in 1..Len(p)}
           needed  == UNION {Needs(p[j]) : j \in 1..Len(p)}
<1>1. Len(p) = n /\ \A j \in 1..n : p[j] = list[j]
  BY ListPrefix
<1> HIDE DEF p
<1>2. k \in claimed
  BY <1>1 DEF Asks
<1>3. Claimants(p, k) = {j \in 1..n : Asks(list[j], k)}
  BY <1>1 DEF Claimants, Asks
<1>4. LastOf(Claimants(p, k)) = i
  <2> DEFINE S == {j \in 1..n : Asks(list[j], k)}
  <2>1. S \in SUBSET Nat /\ i \in S /\ \A j \in S : j <= i
    OBVIOUS
  <2> HIDE DEF S
  <2>2. LastOf(S) = i
    BY <2>1, LastIs
  <2> QED
    BY <1>3, <2>2 DEF S
<1>5. Meaning(p)[k] = ClaimOf(p[LastOf(Claimants(p, k))], k)
  BY <1>2 DEF Meaning
<1> QED
  BY <1>1, <1>4, <1>5 DEF p

(* A key that none asks for and some need is an implicit directory,        *)
(* with the owner of the first that needs it.                              *)
LEMMA MeaningOfNeed ==
    ASSUME NEW list \in Seq(Contents), NEW n \in 0..Len(list), NEW k, NEW i \in 1..n,
           k \in Needs(list[i]), \A j \in 1..n : k \in Needs(list[j]) => i <= j,
           \A j \in 1..n : ~ Asks(list[j], k)
    PROVE  Meaning(Prefix(list, n))[k]
              = Entry("implicit dir", ParentOwner(list[i], k), NoSource)
<1> DEFINE p == Prefix(list, n)
           claimed == UNION {{cl.key : cl \in Claims(p[j])} : j \in 1..Len(p)}
           needed  == UNION {Needs(p[j]) : j \in 1..Len(p)}
           S == {j \in 1..Len(p) : k \in Needs(p[j])}
<1>1. Len(p) = n /\ \A j \in 1..n : p[j] = list[j]
  BY ListPrefix
<1> HIDE DEF p
<1>2. k \notin claimed /\ k \in needed
  BY <1>1 DEF Asks
<1>3. FirstOf(S) = i
  <2>1. S \in SUBSET Nat /\ i \in S /\ \A j \in S : i <= j
    BY <1>1
  <2> HIDE DEF S
  <2> QED
    BY <2>1, FirstIs
<1>4. Meaning(p)[k] = Entry("implicit dir", ParentOwner(p[FirstOf(S)], k), NoSource)
  BY <1>2 DEF Meaning
<1> QED
  BY <1>1, <1>3, <1>4 DEF p

(* A table with the claims and needs of one more content. *)
Grown(new, tab, claims, needs, c) ==
    /\ new = [k \in DOMAIN new |-> new[k]]
    /\ \A k : k \in DOMAIN new <=>
          k \in DOMAIN tab \/ k \in needs \/ \E cl \in claims : cl.key = k
    /\ \A cl \in claims : new[cl.key] = cl.entry
    /\ \A k \in DOMAIN new : (\A cl \in claims : cl.key # k) =>
          new[k] = IF k \in DOMAIN tab THEN tab[k]
                   ELSE Entry("implicit dir", ParentOwner(c, k), NoSource)

(* What was claimed last or needed first stays so under a content that     *)
(* does not claim it.                                                      *)
LEMMA MeaningStays ==
    ASSUME NEW list \in Seq(Contents), NEW n \in 1..Len(list), NEW k, ~ Asks(list[n], k),
           k \in DOMAIN Meaning(Prefix(list, n - 1))
    PROVE  Meaning(Prefix(list, n))[k] = Meaning(Prefix(list, n - 1))[k]
<1>1. /\ Len(list) \in Nat /\ n \in Nat \ {0} /\ n \in 0..Len(list) /\ n - 1 \in 0..Len(list)
      /\ \A i : i \in 1..n <=> i \in 1..(n - 1) \/ i = n
  <2>1. Len(list) \in Nat
    BY LenProperties
  <2> QED
    BY <2>1
<1>2. CASE \E i \in 1..(n - 1) : Asks(list[i], k)
  <2> DEFINE S == {i \in 1..(n - 1) : Asks(list[i], k)}
  <2>1. PICK i \in S : \A j \in S : j <= i
    <3>1. S \in SUBSET Nat /\ S # {} /\ n \in Nat /\ \A i \in S : i <= n
      BY <1>1, <1>2
    <3> HIDE DEF S
    <3> QED
      BY <3>1, GreatestElement
  <2>2. /\ i \in 1..(n - 1) /\ i \in 1..n /\ Asks(list[i], k)
        /\ \A j \in 1..n : Asks(list[j], k) => j <= i
        /\ \A j \in 1..(n - 1) : Asks(list[j], k) => j <= i
    BY <1>1, <2>1
  <2>3. Meaning(Prefix(list, n))[k] = ClaimOf(list[i], k)
    BY <1>1, <2>2, MeaningOfClaim
  <2>4. Meaning(Prefix(list, n - 1))[k] = ClaimOf(list[i], k)
    BY <1>1, <2>2, MeaningOfClaim
  <2> QED
    BY <2>3, <2>4
<1>3. CASE ~ \E i \in 1..(n - 1) : Asks(list[i], k)
  <2> DEFINE S == {i \in 1..(n - 1) : k \in Needs(list[i])}
  <2>1. \E i \in 1..(n - 1) : k \in Needs(list[i])
    BY <1>1, <1>3, MeaningDomain
  <2>2. PICK i \in S : \A j \in S : i <= j
    <3>1. S \in SUBSET Nat /\ S # {}
      BY <1>1, <2>1
    <3> HIDE DEF S
    <3> QED
      BY <3>1, Loops!LeastElement
  <2>3. /\ i \in 1..(n - 1) /\ i \in 1..n /\ k \in Needs(list[i])
        /\ \A j \in 1..n : k \in Needs(list[j]) => i <= j
        /\ \A j \in 1..(n - 1) : k \in Needs(list[j]) => i <= j
        /\ \A j \in 1..n : ~ Asks(list[j], k)
        /\ \A j \in 1..(n - 1) : ~ Asks(list[j], k)
    BY <1>1, <1>3, <2>2
  <2>4. Meaning(Prefix(list, n))[k] = Entry("implicit dir", ParentOwner(list[i], k), NoSource)
    BY <1>1, <2>3, MeaningOfNeed
  <2>5. Meaning(Prefix(list, n - 1))[k]
           = Entry("implicit dir", ParentOwner(list[i], k), NoSource)
    BY <1>1, <2>3, MeaningOfNeed
  <2> QED
    BY <2>4, <2>5
<1> QED
  BY <1>2, <1>3

(* One more content grows the meaning of a list by what it claims and      *)
(* needs.                                                                  *)
LEMMA MeaningGrows ==
    ASSUME NEW list \in Seq(Contents), NEW n \in 1..Len(list), NEW new,
           Grown(new, Meaning(Prefix(list, n - 1)), Claims(list[n]), Needs(list[n]), list[n])
    PROVE  new = Meaning(Prefix(list, n))
<1> DEFINE M == Meaning(Prefix(list, n - 1))
           N == Meaning(Prefix(list, n))
           c == list[n]
<1>1. /\ Len(list) \in Nat /\ n \in Nat \ {0} /\ n \in 0..Len(list) /\ n - 1 \in 0..Len(list)
      /\ \A i : i \in 1..n <=> i \in 1..(n - 1) \/ i = n
  <2>1. Len(list) \in Nat
    BY LenProperties
  <2> QED
    BY <2>1
<1>2. N = [k \in DOMAIN N |-> N[k]]
  BY <1>1, MeaningDomain
<1>3. \A k : k \in DOMAIN N <=> \E i \in 1..n : Asks(list[i], k) \/ k \in Needs(list[i])
  BY <1>1, MeaningDomain
<1>4. \A k : k \in DOMAIN M <=> \E i \in 1..(n - 1) : Asks(list[i], k) \/ k \in Needs(list[i])
  BY <1>1, MeaningDomain
<1> HIDE DEF M, N
<1>5. \A k : k \in DOMAIN new <=> k \in DOMAIN M \/ k \in Needs(c) \/ Asks(c, k)
  BY DEF Grown, Asks, M
<1>6. DOMAIN new = DOMAIN N
  BY <1>1, <1>3, <1>4, <1>5
<1>7. ASSUME NEW k \in DOMAIN new PROVE new[k] = N[k]
  <2>1. CASE Asks(c, k)
    <3>1. n \in 1..n /\ \A j \in 1..n : Asks(list[j], k) => j <= n
      BY <1>1
    <3>2. N[k] = ClaimOf(c, k)
      BY <1>1, <2>1, <3>1, MeaningOfClaim DEF N
    <3>3. \E cl \in Claims(c) : cl.key = k /\ ClaimOf(c, k) = cl.entry
      BY <2>1 DEF Asks, ClaimOf
    <3> QED
      BY <3>2, <3>3 DEF Grown
  <2>2. CASE ~ Asks(c, k) /\ k \in DOMAIN M
    <3>1. N[k] = M[k]
      BY <2>2, MeaningStays DEF M, N
    <3> QED
      BY <2>2, <3>1 DEF Grown, Asks, M
  <2>3. CASE ~ Asks(c, k) /\ k \notin DOMAIN M
    <3>1. /\ k \in Needs(c)
          /\ \A j \in 1..n : k \in Needs(list[j]) => n <= j
          /\ \A j \in 1..n : ~ Asks(list[j], k)
      BY <1>1, <1>4, <1>5, <2>3
    <3>2. N[k] = Entry("implicit dir", ParentOwner(c, k), NoSource)
      BY <1>1, <3>1, MeaningOfNeed DEF N
    <3> QED
      BY <2>3, <3>2 DEF Grown, Asks, M
  <2> QED
    BY <2>1, <2>2, <2>3
<1>8. new = [k \in DOMAIN new |-> new[k]]
  BY DEF Grown
<1> QED
  BY <1>2, <1>6, <1>7, <1>8 DEF N
-----------------------------------------------------------------------------
(* The types are told apart by the switch over them. *)
LEMMA DirKind ==
    ASSUME NEW c, c.type = "dir"
    PROVE  ~ IsGlob(c) /\ ~ IsTree(c) /\ c.type # "implicit dir" /\ c.type \in EntryTypes
  BY DEF IsGlob, IsTree, EntryTypes, DirTypes, FileTypes, TreeTypes, TreeFileType

(* The cases of the switch over the types.                                 *)
LEMMA AsIsKind ==
    ASSUME NEW c, c.type \in AsIsTypes
    PROVE  /\ ~ IsGlob(c) /\ ~ IsTree(c) /\ c.type # "implicit dir" /\ c.type # "dir"
           /\ c.type \in EntryTypes
  BY DEF IsGlob, IsTree, EntryTypes, AsIsTypes, RpmTypes, FileTypes, TreeTypes, TreeFileType

LEMMA GlobKind ==
    ASSUME NEW c, c.type \in FileTypes \cup {""}
    PROVE  /\ IsGlob(c) /\ ~ IsTree(c) /\ c.type # "implicit dir"
           /\ c.type \in EntryTypes \cup {""}
  BY DEF IsGlob, IsTree, EntryTypes, FileTypes, TreeTypes, TreeFileType

LEMMA TreeKind ==
    ASSUME NEW c, c.type \in TreeTypes
    PROVE  ~ IsGlob(c) /\ IsTree(c) /\ c.type # "implicit dir"
  BY DEF IsGlob, IsTree, FileTypes, TreeTypes, TreeFileType

LEMMA ImplicitKind ==
    ASSUME NEW c, c.type = "implicit dir"
    PROVE  ~ IsGlob(c) /\ ~ IsTree(c) /\ c.type \in EntryTypes
  BY DEF IsGlob, IsTree, EntryTypes, DirTypes, FileTypes, TreeTypes, TreeFileType

(* What a glob asks for once some of its matches are added, and a tree     *)
(* once the walk is at its i-th node.                                      *)
GlobClaims(c, added) ==
    {Claim(FileKey(GlobDestination(c, m)), Entry(GlobType(c, m), c.owner, m.src)) : m \in added}

GlobNeeds(c, added) ==
    UNION {{DirKey(p) : p \in ParentPaths(GlobDestination(c, m))} : m \in added}

Counts(c, n) == ~(n.rel = <<>> /\ c.dst = <<>>)

Visited(c, i) ==
    {n \in {TreeOf[c.src][h] : h \in {h \in 1..Len(TreeOf[c.src]) : h < i}} : Counts(c, n)}

TreeClaims(c, i) == {Claim(NodeKey(c, n), NodeEntry(c, n)) : n \in Visited(c, i)}

ParentKeys(dst) == {DirKey(p) : p \in ParentPaths(dst)}

(* What each kind of content claims and needs. *)
LEMMA NothingClaimed ==
    ASSUME NEW c, ~ isRelevantForPackager(c) \/ c.type = "implicit dir"
    PROVE  Claims(c) = {} /\ Needs(c) = {}
  BY DEF Claims, Needs

(* An explicit directory claims itself and needs its parents; so do the    *)
(* other kinds.                                                            *)
LEMMA DirClaimed ==
    ASSUME NEW c, isRelevantForPackager(c), c.type = "dir"
    PROVE  /\ Claims(c) = {Claim(DirKey(CleanAbs(c.dst)), Entry("dir", c.owner, c.src))}
           /\ Needs(c) = ParentKeys(c.dst)
<1>1. ~ IsGlob(c) /\ ~ IsTree(c) /\ c.type # "implicit dir"
  BY DirKind
<1> QED
  BY <1>1 DEF Claims, Needs, ParentKeys

LEMMA AsIsClaimed ==
    ASSUME NEW c, isRelevantForPackager(c), c.type \in AsIsTypes
    PROVE  /\ Claims(c) = {Claim(FileKey(CleanAbs(c.dst)), Entry(c.type, c.owner, c.src))}
           /\ Needs(c) = ParentKeys(c.dst)
<1>1. ~ IsGlob(c) /\ ~ IsTree(c) /\ c.type # "implicit dir" /\ c.type # "dir"
  BY AsIsKind
<1> QED
  BY <1>1 DEF Claims, Needs, ParentKeys

LEMMA GlobClaimed ==
    ASSUME NEW c, isRelevantForPackager(c), c.type \in FileTypes \cup {""}
    PROVE  /\ Claims(c) = GlobClaims(c, Matches[c.src].files)
           /\ Needs(c) = GlobNeeds(c, Matches[c.src].files)
<1>1. IsGlob(c) /\ c.type # "implicit dir"
  BY GlobKind
<1>2. Claims(c) = GlobClaims(c, Matches[c.src].files)
  BY <1>1 DEF Claims, GlobClaims
<1>3. Needs(c) = UNION {{DirKey(p) : p \in ParentPaths(d)} :
                           d \in {GlobDestination(c, m) : m \in Matches[c.src].files}}
  BY <1>1 DEF Needs
<1> QED
  BY <1>2, <1>3 DEF GlobNeeds

LEMMA TreeClaimed ==
    ASSUME NEW c, isRelevantForPackager(c), c.type \in TreeTypes
    PROVE  /\ \A i \in Nat : Len(TreeOf[c.src]) < i => Claims(c) = TreeClaims(c, i)
           /\ Needs(c) = ParentKeys(c.dst)
<1>1. ~ IsGlob(c) /\ IsTree(c) /\ c.type # "implicit dir"
  BY TreeKind
<1>2. Needs(c) = ParentKeys(c.dst)
  BY <1>1 DEF Needs, ParentKeys
<1>3. Claims(c) = {Claim(NodeKey(c, n), NodeEntry(c, n)) : n \in Nodes(c)}
  BY <1>1 DEF Claims
<1>4. ASSUME NEW i \in Nat, Len(TreeOf[c.src]) < i, Len(TreeOf[c.src]) \in Nat PROVE Visited(c, i) = Nodes(c)
  BY <1>4 DEF Visited, Nodes, Counts
<1> QED
  BY <1>2, <1>3, <1>4 DEF TreeClaims
-----------------------------------------------------------------------------
(* How a table grows. *)
LEMMA GrownNot ==
    ASSUME NEW tab, tab = [k \in DOMAIN tab |-> tab[k]], NEW c
    PROVE  Grown(tab, tab, {}, {}, c)
  BY DEF Grown

PassedOwner(c) == IF IsGlob(c) \/ IsTree(c) THEN c.owner ELSE ""

(* addParents grows the table by the directories it makes, an insertion    *)
(* by one claim.                                                           *)
LEMMA GrownByParents ==
    ASSUME NEW tab, NEW claims, NEW needs, NEW c, Grown(table, tab, claims, needs, c), NEW dst
    PROVE  Grown(WithParents(dst, PassedOwner(c)), tab, claims, needs \cup ParentKeys(dst), c)
<1> DEFINE owner == PassedOwner(c)
           new == WithParents(dst, owner)
<1>1. /\ DOMAIN new = DOMAIN table \cup ParentKeys(dst)
      /\ new = [k \in DOMAIN new |-> new[k]]
      /\ \A k \in DOMAIN table : new[k] = table[k]
      /\ \A k \in DOMAIN new \ DOMAIN table :
            new[k] = Entry("implicit dir", IF k.path \in FsOwned THEN "" ELSE owner, NoSource)
  BY DEF WithParents, ParentKeys
<1>2. \A k : (IF k.path \in FsOwned THEN "" ELSE owner) = ParentOwner(c, k)
  BY DEF PassedOwner, ParentOwner
<1>3. \A k \in DOMAIN new \ DOMAIN table :
         new[k] = Entry("implicit dir", ParentOwner(c, k), NoSource)
  BY <1>1, <1>2
<1> HIDE DEF new, owner
<1>4. \A k : k \in DOMAIN table <=>
          k \in DOMAIN tab \/ k \in needs \/ \E cl \in claims : cl.key = k
  BY DEF Grown
<1>5. \A cl \in claims : new[cl.key] = cl.entry
  BY <1>1, <1>4 DEF Grown
<1>6. ASSUME NEW k \in DOMAIN new, \A cl \in claims : cl.key # k
      PROVE  new[k] = IF k \in DOMAIN tab THEN tab[k]
                      ELSE Entry("implicit dir", ParentOwner(c, k), NoSource)
  <2>1. CASE k \in DOMAIN table
    BY <1>1, <1>6, <2>1 DEF Grown
  <2>2. CASE k \notin DOMAIN table
    BY <1>3, <1>4, <2>2
  <2> QED
    BY <2>1, <2>2
<1> QED
  BY <1>1, <1>4, <1>5, <1>6 DEF Grown, new, owner

LEMMA GrownByClaim ==
    ASSUME NEW new, NEW tab, NEW claims, NEW needs, NEW c, Grown(new, tab, claims, needs, c),
           NEW key, NEW entry, \A cl \in claims : cl.key # key
    PROVE  Grown(Put(new, key, entry), tab, claims \cup {Claim(key, entry)}, needs, c)
<1> DEFINE put == Put(new, key, entry)
           cl1 == Claim(key, entry)
<1>1. /\ DOMAIN put = DOMAIN new \cup {key}
      /\ put = [k \in DOMAIN put |-> put[k]]
      /\ put[key] = entry
      /\ \A k \in DOMAIN new : k # key => put[k] = new[k]
  BY DEF Put
<1>2. cl1.key = key /\ cl1.entry = entry
  BY DEF Claim
<1> HIDE DEF put, cl1
<1> QED
  BY <1>1, <1>2 DEF Grown, put, cl1
-----------------------------------------------------------------------------
(***************************************************************************)
(* The invariant: what the table is made of at each point, and that every  *)
(* content before it was rightly accepted.                                 *)
(***************************************************************************)
Before == Meaning(Prefix(contents, next - 1))

Added == Matches[Current.src].files \ pending

ListMeans ==
    /\ next <= Len(contents) + 1
    /\ \A i \in 1..(next - 1) : Accepts(contents, i)
    /\ pc \in {"next", "done"} => table = Before

GlobMeans ==
    pc = "glob" =>
        /\ isRelevantForPackager(Current) /\ ~ Matches[Current.src].fails
        /\ Grown(table, Before, GlobClaims(Current, Added), GlobNeeds(Current, Added), Current)
        /\ \A m \in Added : FileKey(GlobDestination(Current, m)) \notin DOMAIN Before
        /\ \A m1, m2 \in Added :
              GlobDestination(Current, m1) = GlobDestination(Current, m2) => m1 = m2

RootClashes(c, tab) ==
    LET key == DirKey(CleanAbs(c.dst)) IN
    c.dst # <<>> /\ key \in DOMAIN tab /\ tab[key].type # "implicit dir"

WalkMeans ==
    pc = "walk" =>
        /\ isRelevantForPackager(Current)
        /\ ~ RootClashes(Current, Before)
        /\ Grown(table, Before, TreeClaims(Current, node), ParentKeys(Current.dst), Current)
        /\ \A n \in Visited(Current, node) : n.kind # "error"

ErrorMeans == pc = "error" => next <= Len(contents) /\ ~ Accepts(contents, next)

MeaningInv == ListMeans /\ GlobMeans /\ WalkMeans /\ ErrorMeans

(* No parent is ever blocked by what is not a directory. *)
LEMMA NeverBlocked == ASSUME IInv, NEW dst PROVE ~ ParentBlocked(dst)
<1> SUFFICES ASSUME NEW p \in ParentPaths(dst), DirKey(p) \in DOMAIN table,
                    table[DirKey(p)].type \notin DirTypes
             PROVE  FALSE
  BY DEF ParentBlocked
<1>1. GoodEntry(DirKey(p), table[DirKey(p)]) /\ DirKey(p).dir = TRUE
  BY KeyFields DEF IInv, WellFormed
<1> QED
  BY <1>1 DEF GoodEntry

(* A content that is handled completely. *)
LEMMA NextMeans ==
    ASSUME IInv, MeaningInv, next <= Len(contents), contents' = contents,
           next' = next + 1, pc' = "next",
           Grown(table', Before, Claims(Current), Needs(Current), Current),
           Accepts(contents, next)
    PROVE  MeaningInv'
<1>1. /\ Len(contents) \in Nat /\ next \in 1..Len(contents) /\ next + 1 - 1 = next
      /\ \A i \in 1..next : i \in 1..(next - 1) \/ i = next
      /\ next + 1 <= Len(contents) + 1
  <2>1. Len(contents) \in Nat
    BY LenProperties DEF IInv
  <2> QED
    BY <2>1 DEF IInv
<1>2. table' = Meaning(Prefix(contents, next))
  BY <1>1, MeaningGrows DEF IInv, Before, Current
<1>3. table' = Before'
  BY <1>1, <1>2 DEF Before
<1>4. \A i \in 1..(next' - 1) : Accepts(contents, i)'
  <2>1. \A i \in 1..next : Accepts(contents, i)
    BY <1>1 DEF MeaningInv, ListMeans
  <2>2. \A i : Accepts(contents, i)' <=> Accepts(contents', i)
    BY DEF Accepts
  <2> QED
    BY <1>1, <2>1
<1> QED
  BY <1>1, <1>3, <1>4 DEF MeaningInv, ListMeans, GlobMeans, WalkMeans, ErrorMeans

(* A content that is refused ends the preparation with its error.          *)
LEMMA FailMeans ==
    ASSUME IInv, MeaningInv, next <= Len(contents), Fail, ~ Accepts(contents, next)
    PROVE  MeaningInv'
  BY DEF Fail, MeaningInv, ListMeans, GlobMeans, WalkMeans, ErrorMeans

(* The verdict on a content, by its kind. *)
LEMMA Verdict ==
    Accepts(contents, next) <=>
        /\ ~ HostRefuses(Current)
        /\ ~ Clashes(Prefix(contents, next - 1), Current)
  BY DEF Accepts, Current

(* A content of another packager, and an implicit directory, are passed    *)
(* over.                                                                   *)
LEMMA NothingAccepted ==
    ASSUME ~ isRelevantForPackager(Current) \/ Current.type = "implicit dir"
    PROVE  Accepts(contents, next)
<1>1. Claims(Current) = {}
  BY NothingClaimed
<1>2. ~ HostRefuses(Current)
  BY ImplicitKind DEF HostRefuses
<1>3. ~ Clashes(Prefix(contents, next - 1), Current)
  <2>1. ~ (IsGlob(Current) /\ isRelevantForPackager(Current))
    BY ImplicitKind
  <2> QED
    BY <1>1, <2>1 DEF Clashes
<1> QED
  BY <1>2, <1>3, Verdict

(* A content with one claim is refused when its key is taken, unless by    *)
(* an implicit directory that it replaces.                                 *)
LEMMA OneClaimVerdict ==
    ASSUME NEW c, c = Current, isRelevantForPackager(c), ~ IsGlob(c), ~ IsTree(c),
           c.type \in EntryTypes, NEW key, NEW entry, Claims(c) = {Claim(key, entry)}
    PROVE  Accepts(contents, next) <=>
              ~ (/\ key \in DOMAIN Before
                 /\ key.dir => Before[key].type # "implicit dir")
<1>1. ~ HostRefuses(c)
  BY DEF HostRefuses
<1>2. Clashes(Prefix(contents, next - 1), c)
         <=> \E cl \in {Claim(key, entry)} :
                IF cl.key.dir
                THEN cl.key \in DOMAIN Before /\ Before[cl.key].type # "implicit dir"
                ELSE cl.key \in DOMAIN Before
  BY DEF Clashes, Before
<1>3. Claim(key, entry).key = key
  BY DEF Claim
<1> QED
  BY <1>1, <1>2, <1>3, Verdict

(* The steps that handle a content at once.                                *)
LEMMA SkipMeans == ASSUME IInv, MeaningInv, Skip PROVE MeaningInv'
<1>1. /\ next <= Len(contents) /\ contents' = contents /\ next' = next + 1 /\ pc' = "next"
      /\ table' = table
  BY DEF Skip, Store
<1>2. ~ isRelevantForPackager(Current) \/ Current.type = "implicit dir"
  BY DEF Skip
<1>3. table = Before
  BY DEF Skip, MeaningInv, ListMeans
<1>4. Before = [k \in DOMAIN Before |-> Before[k]]
  <2>1. next - 1 \in 0..Len(contents) /\ contents \in Seq(Contents)
    BY <1>1, LenProperties DEF IInv
  <2> QED
    BY <2>1, MeaningDomain DEF Before
<1>5. Grown(table', Before, Claims(Current), Needs(Current), Current)
  BY <1>1, <1>2, <1>3, <1>4, NothingClaimed, GrownNot
<1> QED
  BY <1>1, <1>2, <1>5, NothingAccepted, NextMeans
(* Every table a list stands for is a function. *)
LEMMA BeforeIsTable ==
    ASSUME IInv, next <= Len(contents)
    PROVE  Before = [k \in DOMAIN Before |-> Before[k]]
<1>1. next - 1 \in 0..Len(contents) /\ contents \in Seq(Contents)
  <2>1. Len(contents) \in Nat
    BY LenProperties DEF IInv
  <2> QED
    BY <2>1 DEF IInv
<1> QED
  BY <1>1, MeaningDomain DEF Before

(* A directory or a content that is taken as it is: it fails if its key is *)
(* taken, or is put in with its parents.                                   *)
LEMMA OneMeans ==
    ASSUME IInv, MeaningInv, pc = "next", next <= Len(contents),
           NEW c, c = Current, isRelevantForPackager(c), ~ IsGlob(c), ~ IsTree(c),
           c.type \in EntryTypes, NEW key, NEW entry, Claims(c) = {Claim(key, entry)},
           Needs(c) = ParentKeys(c.dst), NEW taken \in BOOLEAN,
           taken <=> key \in DOMAIN table /\ (key.dir => table[key].type # "implicit dir"),
           IF taken \/ ParentBlocked(c.dst) THEN Fail
           ELSE Store(Put(WithParents(c.dst, ""), key, entry))
    PROVE  MeaningInv'
<1>1. table = Before /\ ~ ParentBlocked(c.dst)
  BY NeverBlocked DEF MeaningInv, ListMeans
<1>2. Accepts(contents, next) <=> ~ taken
  BY <1>1, OneClaimVerdict
<1>3. CASE taken
  BY <1>2, <1>3, FailMeans
<1>4. CASE ~ taken
  <2> DEFINE put == Put(WithParents(c.dst, ""), key, entry)
  <2>1. /\ contents' = contents /\ next' = next + 1 /\ pc' = "next" /\ table' = put
    BY <1>1, <1>4 DEF Store
  <2>2. Grown(table, Before, {}, {}, c)
    <3>1. Before = [k \in DOMAIN Before |-> Before[k]]
      BY BeforeIsTable
    <3> QED
      BY <1>1, <3>1, GrownNot
  <2>3. PassedOwner(c) = ""
    BY DEF PassedOwner
  <2>4. Grown(WithParents(c.dst, ""), Before, {}, ParentKeys(c.dst), c)
    <3>1. {} \cup ParentKeys(c.dst) = ParentKeys(c.dst)
      OBVIOUS
    <3>2. Grown(WithParents(c.dst, PassedOwner(c)), Before, {}, {} \cup ParentKeys(c.dst), c)
      BY <2>2, GrownByParents
    <3> QED
      BY <2>3, <3>1, <3>2
  <2>5. Grown(put, Before, {Claim(key, entry)}, ParentKeys(c.dst), c)
    <3> DEFINE none == {}
               new == WithParents(c.dst, "")
    <3>1. \A cl \in none : cl.key # key
      OBVIOUS
    <3>2. none \cup {Claim(key, entry)} = {Claim(key, entry)}
      OBVIOUS
    <3>3. Grown(new, Before, none, ParentKeys(c.dst), c)
      BY <2>4
    <3> HIDE DEF none, new
    <3>4. Grown(Put(new, key, entry), Before, none \cup {Claim(key, entry)}, ParentKeys(c.dst), c)
      BY <3>1, <3>3, GrownByClaim
    <3> QED
      BY <3>2, <3>4 DEF new
  <2> HIDE DEF put
  <2> QED
    BY <1>2, <1>4, <2>1, <2>5, NextMeans
<1> QED
  BY <1>3, <1>4

LEMMA AddDirMeans == ASSUME IInv, MeaningInv, AddDir PROVE MeaningInv'
<1> DEFINE c == Current
           key == DirKey(CleanAbs(c.dst))
           entry == Entry("dir", c.owner, c.src)
           taken == OccupiedExplicitly(key)
<1>1. /\ pc = "next" /\ next <= Len(contents) /\ isRelevantForPackager(c) /\ c.type = "dir"
      /\ IF taken \/ ParentBlocked(c.dst) THEN Fail
         ELSE Store(Put(WithParents(c.dst, ""), key, entry))
  BY DEF AddDir, Handling
<1>2. key.dir = TRUE
  BY KeyFields
<1>3. ~ IsGlob(c) /\ ~ IsTree(c) /\ c.type \in EntryTypes
  BY <1>1, DirKind
<1>4. Claims(c) = {Claim(key, entry)} /\ Needs(c) = ParentKeys(c.dst)
  BY <1>1, DirClaimed
<1>5. /\ taken \in BOOLEAN
      /\ taken <=> key \in DOMAIN table /\ (key.dir => table[key].type # "implicit dir")
  BY <1>2 DEF OccupiedExplicitly
<1> HIDE DEF key, entry, taken
<1> QED
  BY <1>1, <1>3, <1>4, <1>5, OneMeans

LEMMA AddAsIsMeans == ASSUME IInv, MeaningInv, AddAsIs PROVE MeaningInv'
<1> DEFINE c == Current
           key == FileKey(CleanAbs(c.dst))
           entry == Entry(c.type, c.owner, c.src)
           taken == Occupied(key)
<1>1. /\ pc = "next" /\ next <= Len(contents) /\ isRelevantForPackager(c) /\ c.type \in AsIsTypes
      /\ IF taken \/ ParentBlocked(c.dst) THEN Fail
         ELSE Store(Put(WithParents(c.dst, ""), key, entry))
  BY DEF AddAsIs, Handling
<1>2. key.dir = FALSE
  BY KeyFields
<1>3. ~ IsGlob(c) /\ ~ IsTree(c) /\ c.type \in EntryTypes
  BY <1>1, AsIsKind
<1>4. Claims(c) = {Claim(key, entry)} /\ Needs(c) = ParentKeys(c.dst)
  BY <1>1, AsIsClaimed
<1>5. /\ taken \in BOOLEAN
      /\ taken <=> key \in DOMAIN table /\ (key.dir => table[key].type # "implicit dir")
  <2>1. taken \in BOOLEAN /\ (taken <=> key \in DOMAIN table)
    BY DEF Occupied
  <2>2. ~ key.dir
    BY <1>2
  <2> HIDE DEF taken, key
  <2> QED
    BY <2>1, <2>2
<1> HIDE DEF key, entry, taken
<1> QED
  BY <1>1, <1>3, <1>4, <1>5, OneMeans

LEMMA InvalidTypeMeans == ASSUME IInv, MeaningInv, InvalidType PROVE MeaningInv'
<1>1. /\ pc = "next" /\ next <= Len(contents) /\ isRelevantForPackager(Current) /\ Fail
      /\ Current.type \notin EntryTypes \cup TreeTypes \cup {""}
  BY DEF InvalidType, Handling, EntryTypes
<1>2. HostRefuses(Current)
  BY <1>1 DEF HostRefuses
<1> QED
  BY <1>1, <1>2, Verdict, FailMeans
-----------------------------------------------------------------------------
(* A glob. *)
LEMMA GlobClaimKeys ==
    ASSUME NEW c, NEW added
    PROVE  /\ \A cl \in GlobClaims(c, added) :
                 \E m \in added : cl.key = FileKey(GlobDestination(c, m))
           /\ \A m \in added : \E cl \in GlobClaims(c, added) :
                 cl.key = FileKey(GlobDestination(c, m))
<1> DEFINE C(m) == Claim(FileKey(GlobDestination(c, m)), Entry(GlobType(c, m), c.owner, m.src))
<1>1. \A m : C(m).key = FileKey(GlobDestination(c, m))
  BY DEF Claim
<1>2. GlobClaims(c, added) = {C(m) : m \in added}
  BY DEF GlobClaims
<1> HIDE DEF C
<1> QED
  BY <1>1, <1>2

(* A glob is refused when it fails, when a match is in the table, and      *)
(* when two matches go to one destination.                                 *)
LEMMA GlobVerdict ==
    ASSUME NEW c, c = Current, isRelevantForPackager(c), c.type \in FileTypes \cup {""}
    PROVE  Accepts(contents, next) <=>
              /\ ~ Matches[c.src].fails
              /\ \A m \in Matches[c.src].files :
                    FileKey(GlobDestination(c, m)) \notin DOMAIN Before
              /\ \A m1, m2 \in Matches[c.src].files :
                    GlobDestination(c, m1) = GlobDestination(c, m2) => m1 = m2
<1> DEFINE files == Matches[c.src].files
           twice == \E m1, m2 \in files :
                       m1 # m2 /\ GlobDestination(c, m1) = GlobDestination(c, m2)
<1>1. IsGlob(c) /\ ~ IsTree(c) /\ c.type \in EntryTypes \cup {""}
  BY GlobKind
<1>2. HostRefuses(c) <=> Matches[c.src].fails
  BY <1>1 DEF HostRefuses
<1>3. Claims(c) = GlobClaims(c, files)
  BY GlobClaimed
<1>4. Clashes(Prefix(contents, next - 1), c) <=>
         \/ \E cl \in Claims(c) :
               IF cl.key.dir
               THEN cl.key \in DOMAIN Before /\ Before[cl.key].type # "implicit dir"
               ELSE cl.key \in DOMAIN Before
         \/ twice
  BY <1>1 DEF Clashes, Before
<1> HIDE DEF twice
<1>5. \A cl \in GlobClaims(c, files) : cl.key.dir = FALSE
  <2>1. \A m : FileKey(GlobDestination(c, m)).dir = FALSE
    BY KeyFields
  <2> HIDE DEF files
  <2>2. ASSUME NEW cl \in GlobClaims(c, files) PROVE cl.key.dir = FALSE
    <3>1. PICK m \in files : cl.key = FileKey(GlobDestination(c, m))
      BY GlobClaimKeys
    <3> QED
      BY <2>1, <3>1
  <2> QED
    BY <2>2
<1>6. (\E cl \in GlobClaims(c, files) : cl.key \in DOMAIN Before)
         <=> \E m \in files : FileKey(GlobDestination(c, m)) \in DOMAIN Before
  <2> HIDE DEF files
  <2>1. ASSUME NEW cl \in GlobClaims(c, files), cl.key \in DOMAIN Before
        PROVE  \E m \in files : FileKey(GlobDestination(c, m)) \in DOMAIN Before
    <3>1. PICK m \in files : cl.key = FileKey(GlobDestination(c, m))
      BY GlobClaimKeys
    <3> QED
      BY <2>1, <3>1
  <2>2. ASSUME NEW m \in files, FileKey(GlobDestination(c, m)) \in DOMAIN Before
        PROVE  \E cl \in GlobClaims(c, files) : cl.key \in DOMAIN Before
    BY <2>2, GlobClaimKeys, ZenonT(60)
  <2> QED
    BY <2>1, <2>2
<1>7. Clashes(Prefix(contents, next - 1), c) <=>
         (\E m \in files : FileKey(GlobDestination(c, m)) \in DOMAIN Before) \/ twice
  BY <1>3, <1>4, <1>5, <1>6
<1> QED
  BY <1>2, <1>7, Verdict DEF twice

(* The steps of a glob: it matches, its matches are added in any order,    *)
(* it ends.                                                                *)
LEMMA GlobMeansStart == ASSUME IInv, MeaningInv, Glob PROVE MeaningInv'
<1> DEFINE c == Current
<1>1. /\ pc = "next" /\ next <= Len(contents) /\ isRelevantForPackager(c)
      /\ c.type \in FileTypes \cup {""} /\ table = Before
  BY DEF Glob, Handling, MeaningInv, ListMeans
<1>2. CASE Matches[c.src].fails
  <2>1. Fail
    BY <1>2 DEF Glob
  <2> QED
    BY <1>1, <1>2, <2>1, GlobVerdict, FailMeans
<1>3. CASE ~ Matches[c.src].fails
  <2>1. /\ pc' = "glob" /\ pending' = Matches[c.src].files
        /\ UNCHANGED <<contents, next, node, table, position>>
    BY <1>3 DEF Glob
  <2>2. Current' = c /\ Before' = Before /\ Added' = {}
    BY <2>1 DEF Current, Before, Added
  <2>3. GlobClaims(c, {}) = {} /\ GlobNeeds(c, {}) = {}
    BY DEF GlobClaims, GlobNeeds
  <2>4. Grown(table, Before, {}, {}, c)
    <3>1. Before = [k \in DOMAIN Before |-> Before[k]]
      BY <1>1, BeforeIsTable
    <3> QED
      BY <1>1, <3>1, GrownNot
  <2>5. GlobMeans'
    <3>1. Grown(table, Before, {}, {}, c)'
      BY <2>1, <2>2, <2>4
    <3> QED
      BY <1>1, <1>3, <2>2, <2>3, <2>4, <2>1 DEF GlobMeans
  <2>6. ListMeans'
    <3>1. \A i : Accepts(contents, i)' <=> Accepts(contents, i)
      BY <2>1 DEF Accepts
    <3> QED
      BY <2>1, <3>1 DEF MeaningInv, ListMeans
  <2> QED
    BY <2>1, <2>5, <2>6 DEF MeaningInv, WalkMeans, ErrorMeans
<1> QED
  BY <1>2, <1>3

LEMMA AddGlobbedMeans ==
    ASSUME IInv, MeaningInv, NEW m \in pending, AddGlobbed(m)
    PROVE  MeaningInv'
<1> DEFINE c == Current
           dst == GlobDestination(c, m)
           key == FileKey(dst)
           entry == Entry(GlobType(c, m), c.owner, m.src)
           files == Matches[c.src].files
<1>1. /\ pc = "glob" /\ next <= Len(contents) /\ isRelevantForPackager(c)
      /\ c.type \in FileTypes \cup {""} /\ pending \subseteq files
      /\ m \in files /\ m \notin Added
      /\ Grown(table, Before, GlobClaims(c, Added), GlobNeeds(c, Added), c)
      /\ \A x \in Added : FileKey(GlobDestination(c, x)) \notin DOMAIN Before
      /\ \A x, y \in Added : GlobDestination(c, x) = GlobDestination(c, y) => x = y
      /\ Added \subseteq files
  BY DEF AddGlobbed, IInv, GlobInv, IsGlob, MeaningInv, GlobMeans, Added
<1>2. ~ ParentBlocked(dst)
  BY NeverBlocked
<1>3. CASE Occupied(key)
  <2>1. Fail
    BY <1>3 DEF AddGlobbed
  <2>2. key \in DOMAIN table
    BY <1>3 DEF Occupied
  <2>3. key \notin GlobNeeds(c, Added)
    <3>1. \A k \in GlobNeeds(c, Added) : \E p : k = DirKey(p)
      BY DEF GlobNeeds
    <3>2. \A p : DirKey(p) # FileKey(dst)
      BY DEF DirKey, FileKey
    <3> QED
      BY <3>1, <3>2
  <2>4. key \in DOMAIN Before \/ \E cl \in GlobClaims(c, Added) : cl.key = key
    BY <1>1, <2>2, <2>3 DEF Grown
  <2>5. key \in DOMAIN Before \/ \E x \in Added : FileKey(GlobDestination(c, x)) = key
    <3> HIDE DEF key
    <3>1. ASSUME NEW cl \in GlobClaims(c, Added), cl.key = key
          PROVE  \E x \in Added : FileKey(GlobDestination(c, x)) = key
      <4>1. PICK x \in Added : cl.key = FileKey(GlobDestination(c, x))
        BY GlobClaimKeys
      <4> QED
        BY <3>1, <4>1
    <3> QED
      BY <2>4, <3>1
  <2>6. ~ Accepts(contents, next)
    <3>1. \A x : FileKey(GlobDestination(c, x)) = key => GlobDestination(c, x) = dst
      BY KeyFields
    <3>2. CASE key \in DOMAIN Before
      BY <1>1, <3>2, GlobVerdict
    <3>3. CASE \E x \in Added : FileKey(GlobDestination(c, x)) = key
      <4>1. PICK x \in Added : GlobDestination(c, x) = dst
        BY <3>1, <3>3
      <4>2. x \in files /\ x # m
        BY <1>1, <4>1
      <4> QED
        BY <1>1, <4>1, <4>2, GlobVerdict
    <3> QED
      BY <2>5, <3>2, <3>3
  <2> QED
    BY <1>1, <2>1, <2>6, FailMeans
<1>4. CASE ~ Occupied(key)
  <2>1. /\ table' = Put(WithParents(dst, c.owner), key, entry)
        /\ pending' = pending \ {m}
        /\ UNCHANGED <<contents, next, pc, node, position>>
    BY <1>2, <1>4 DEF AddGlobbed
  <2>2. Current' = c /\ Before' = Before /\ Added' = Added \cup {m}
    BY <1>1, <2>1 DEF Current, Before, Added
  <2>3. key \notin DOMAIN table
    BY <1>4 DEF Occupied
  <2>4. \A k : k \in DOMAIN table <=>
           \/ k \in DOMAIN Before \/ k \in GlobNeeds(c, Added)
           \/ \E cl \in GlobClaims(c, Added) : cl.key = k
    BY <1>1 DEF Grown
  <2>5. \A cl \in GlobClaims(c, Added) : cl.key # key
    BY <2>3, <2>4
  <2>6. Grown(table', Before, GlobClaims(c, Added \cup {m}), GlobNeeds(c, Added \cup {m}), c)
    <3>1. PassedOwner(c) = c.owner
      BY <1>1, GlobKind DEF PassedOwner
    <3>2. Grown(WithParents(dst, PassedOwner(c)), Before, GlobClaims(c, Added),
                GlobNeeds(c, Added) \cup ParentKeys(dst), c)
      BY <1>1, GrownByParents
    <3>3. GlobClaims(c, Added \cup {m}) = GlobClaims(c, Added) \cup {Claim(key, entry)}
      BY DEF GlobClaims
    <3>4. GlobNeeds(c, Added \cup {m}) = GlobNeeds(c, Added) \cup ParentKeys(dst)
      BY DEF GlobNeeds, ParentKeys
    <3> DEFINE new == WithParents(dst, c.owner)
    <3>5. Grown(new, Before, GlobClaims(c, Added), GlobNeeds(c, Added) \cup ParentKeys(dst), c)
      BY <3>1, <3>2
    <3> HIDE DEF new, key, entry, dst
    <3>6. Grown(Put(new, key, entry), Before, GlobClaims(c, Added) \cup {Claim(key, entry)},
                GlobNeeds(c, Added) \cup ParentKeys(dst), c)
      BY <2>5, <3>5, GrownByClaim
    <3> QED
      BY <2>1, <3>3, <3>4, <3>6 DEF new
  <2>7. /\ \A x \in Added \cup {m} : FileKey(GlobDestination(c, x)) \notin DOMAIN Before
        /\ \A x, y \in Added \cup {m} :
              GlobDestination(c, x) = GlobDestination(c, y) => x = y
    <3>1. key \notin DOMAIN Before
      BY <2>3, <2>4
    <3>2. \A x \in Added : GlobDestination(c, x) # dst
      <4>1. \A x \in Added : FileKey(GlobDestination(c, x)) # key
        <5> HIDE DEF key
        <5> QED
          BY <2>5, GlobClaimKeys
      <4> QED
        BY <4>1
    <3> QED
      BY <1>1, <3>1, <3>2
  <2>8. GlobMeans'
    BY <1>1, <2>1, <2>2, <2>6, <2>7 DEF GlobMeans, MeaningInv
  <2>9. ListMeans'
    <3>1. \A i : Accepts(contents, i)' <=> Accepts(contents, i)
      BY <2>1 DEF Accepts
    <3> QED
      BY <1>1, <2>1, <3>1 DEF MeaningInv, ListMeans
  <2> QED
    BY <1>1, <2>1, <2>8, <2>9 DEF MeaningInv, WalkMeans, ErrorMeans
<1> QED
  BY <1>3, <1>4

LEMMA EndGlobMeans == ASSUME IInv, MeaningInv, EndGlob PROVE MeaningInv'
<1> DEFINE c == Current
<1>1. /\ pc = "glob" /\ next <= Len(contents) /\ isRelevantForPackager(c)
      /\ c.type \in FileTypes \cup {""} /\ Added = Matches[c.src].files
      /\ ~ Matches[c.src].fails
      /\ Grown(table, Before, GlobClaims(c, Added), GlobNeeds(c, Added), c)
      /\ \A x \in Added : FileKey(GlobDestination(c, x)) \notin DOMAIN Before
      /\ \A x, y \in Added : GlobDestination(c, x) = GlobDestination(c, y) => x = y
  BY DEF EndGlob, IInv, GlobInv, IsGlob, MeaningInv, GlobMeans, Added
<1>2. Accepts(contents, next)
  BY <1>1, GlobVerdict
<1>3. Grown(table, Before, Claims(c), Needs(c), c)
  BY <1>1, GlobClaimed
<1>4. contents' = contents /\ next' = next + 1 /\ pc' = "next" /\ table' = table
  BY DEF EndGlob
<1> QED
  BY <1>1, <1>2, <1>3, <1>4, NextMeans
-----------------------------------------------------------------------------
(* A tree. *)
LEMMA TreeVerdict ==
    ASSUME IInv, next <= Len(contents),
           NEW c, c = Current, isRelevantForPackager(c), c.type \in TreeTypes
    PROVE  Accepts(contents, next) <=>
              (\A n \in Nodes(c) : n.kind # "error") /\ ~ RootClashes(c, Before)
<1>1. ~ IsGlob(c) /\ IsTree(c)
  BY TreeKind
<1>2. HostRefuses(c) <=> \E n \in Nodes(c) : n.kind = "error"
  BY <1>1 DEF HostRefuses
<1>3. Clashes(Prefix(contents, next - 1), c) <=> Claims(c) # {} /\ RootClashes(c, Before)
  BY <1>1 DEF Clashes, RootClashes, Before
<1>4. c.dst # <<>> => Claims(c) # {}
  <2> SUFFICES ASSUME c.dst # <<>> PROVE Claims(c) # {}
    OBVIOUS
  <2> DEFINE nodes == TreeOf[c.src]
  <2>1. Len(nodes) \in Nat \ {0}
    <3>1. c \in Contents
      BY OwnersKnown DEF IInv
    <3> QED
      BY <3>1, WalkAssumption
  <2>2. nodes[1] \in Nodes(c)
    BY <2>1 DEF Nodes
  <2>3. Claims(c) = {Claim(NodeKey(c, n), NodeEntry(c, n)) : n \in Nodes(c)}
    BY <1>1, TreeKind DEF Claims
  <2> QED
    BY <2>2, <2>3
<1>5. RootClashes(c, Before) => c.dst # <<>>
  BY DEF RootClashes
<1> QED
  BY <1>2, <1>3, <1>4, <1>5, Verdict

(* A walk begins with the parents of its root.                             *)
LEMMA BeginTreeMeans == ASSUME IInv, MeaningInv, BeginTree PROVE MeaningInv'
<1> DEFINE c == Current
<1>1. /\ pc = "next" /\ next <= Len(contents) /\ isRelevantForPackager(c)
      /\ c.type \in TreeTypes /\ table = Before
  BY DEF BeginTree, Handling, MeaningInv, ListMeans
<1>2. ~ ParentBlocked(c.dst)
  BY NeverBlocked
<1>3. RootClashes(c, Before) <=> c.dst # <<>> /\ OccupiedExplicitly(DirKey(CleanAbs(c.dst)))
  BY <1>1 DEF RootClashes, OccupiedExplicitly
<1>4. CASE RootClashes(c, Before)
  <2>1. Fail
    BY <1>3, <1>4 DEF BeginTree
  <2> QED
    BY <1>1, <1>4, <2>1, TreeVerdict, FailMeans
<1>5. CASE ~ RootClashes(c, Before)
  <2>1. /\ pc' = "walk" /\ node' = 1 /\ table' = WithParents(c.dst, c.owner)
        /\ UNCHANGED <<contents, next, pending, position>>
    BY <1>2, <1>3, <1>5 DEF BeginTree
  <2>2. Current' = c /\ Before' = Before
    BY <2>1 DEF Current, Before
  <2>3. Visited(c, 1) = {} /\ TreeClaims(c, 1) = {}
    BY DEF Visited, TreeClaims
  <2>4. Grown(table', Before, TreeClaims(c, 1), ParentKeys(c.dst), c)
    <3> DEFINE none == {}
    <3>1. PassedOwner(c) = c.owner
      BY <1>1, TreeKind DEF PassedOwner
    <3>2. Grown(table, Before, {}, none, c)
      BY <1>1, BeforeIsTable, GrownNot
    <3>3. none \cup ParentKeys(c.dst) = ParentKeys(c.dst)
      OBVIOUS
    <3> HIDE DEF none
    <3>4. Grown(WithParents(c.dst, PassedOwner(c)), Before, {}, none \cup ParentKeys(c.dst), c)
      BY <3>2, GrownByParents
    <3> QED
      BY <2>1, <2>3, <3>1, <3>3, <3>4
  <2>5. WalkMeans'
    BY <1>1, <1>5, <2>1, <2>2, <2>3, <2>4 DEF WalkMeans
  <2>6. ListMeans'
    <3>1. \A i : Accepts(contents, i)' <=> Accepts(contents, i)
      BY <2>1 DEF Accepts
    <3> QED
      BY <2>1, <3>1 DEF MeaningInv, ListMeans
  <2> QED
    BY <2>1, <2>5, <2>6 DEF MeaningInv, GlobMeans, ErrorMeans
<1> QED
  BY <1>4, <1>5

(* Behind the same path go different nodes. *)
LEMMA ConcatCancels ==
    ASSUME NEW S, NEW s \in Seq(S), NEW t \in Seq(S), NEW u \in Seq(S), s \o t = s \o u
    PROVE  t = u
<1> DEFINE st == s \o t
           su == s \o u
<1>1. Len(s) \in Nat /\ Len(t) \in Nat /\ Len(u) \in Nat
  BY LenProperties
<1>2. /\ Len(st) = Len(s) + Len(t)
      /\ \A i \in 1..(Len(s) + Len(t)) : st[i] = IF i <= Len(s) THEN s[i] ELSE t[i - Len(s)]
  BY ConcatProperties
<1>3. /\ Len(su) = Len(s) + Len(u)
      /\ \A i \in 1..(Len(s) + Len(u)) : su[i] = IF i <= Len(s) THEN s[i] ELSE u[i - Len(s)]
  BY ConcatProperties
<1>4. st = su
  OBVIOUS
<1> HIDE DEF st, su
<1>5. Len(t) = Len(u)
  BY <1>1, <1>2, <1>3, <1>4
<1>6. ASSUME NEW i \in 1..Len(t) PROVE t[i] = u[i]
  <2>1. Len(s) + i \in 1..(Len(s) + Len(t)) /\ ~ (Len(s) + i <= Len(s)) /\ Len(s) + i - Len(s) = i
    BY <1>1
  <2>2. st[Len(s) + i] = t[i] /\ su[Len(s) + i] = u[i]
    BY <1>2, <1>3, <1>5, <2>1
  <2> QED
    BY <1>4, <2>2
<1> QED
  BY <1>5, <1>6, SeqEqual

(* Two nodes of a walk have different keys.                                *)
LEMMA NodesApart ==
    ASSUME NEW c \in Contents, c.type \in TreeTypes,
           NEW h \in 1..Len(TreeOf[c.src]), NEW i \in 1..Len(TreeOf[c.src]), h # i,
           TreeOf[c.src][h].kind # "error", TreeOf[c.src][i].kind # "error"
    PROVE  NodeKey(c, TreeOf[c.src][h]) # NodeKey(c, TreeOf[c.src][i])
<1> DEFINE m == TreeOf[c.src][h]
           n == TreeOf[c.src][i]
           base == CleanAbs(c.dst)
<1>1. m.rel \in Seq(Names) /\ n.rel \in Seq(Names) /\ m.rel # n.rel
  BY WalkAssumption DEF Names
<1>2. base \in Seq(Names)
  BY PathsKnown
<1>3. base \o m.rel # base \o n.rel
  BY <1>1, <1>2, ConcatCancels
<1>4. NodeKey(c, m).path = base \o m.rel /\ NodeKey(c, n).path = base \o n.rel
  BY KeyFields DEF NodeKey, NodePath
<1> QED
  BY <1>3, <1>4

(* The walk comes to one more node. *)
LEMMA VisitedGrows ==
    ASSUME NEW c, NEW i \in Nat \ {0}, i <= Len(TreeOf[c.src]), Len(TreeOf[c.src]) \in Nat
    PROVE  /\ ~ Counts(c, TreeOf[c.src][i]) => Visited(c, i + 1) = Visited(c, i)
           /\ Counts(c, TreeOf[c.src][i]) =>
                 Visited(c, i + 1) = Visited(c, i) \cup {TreeOf[c.src][i]}
<1> DEFINE nodes == TreeOf[c.src]
           H(j) == {h \in 1..Len(nodes) : h < j}
<1>1. H(i + 1) = H(i) \cup {i}
  OBVIOUS
<1>2. \A j : Visited(c, j) = {n \in {nodes[h] : h \in H(j)} : Counts(c, n)}
  BY DEF Visited
<1> DEFINE R(j) == {nodes[h] : h \in H(j)}
<1>3. R(i + 1) = R(i) \cup {nodes[i]}
  <2> HIDE DEF H
  <2> QED
    BY <1>1
<1>4. Visited(c, i + 1) = {n \in R(i + 1) : Counts(c, n)}
  BY <1>2
<1>5. Visited(c, i) = {n \in R(i) : Counts(c, n)}
  BY <1>2
<1> HIDE DEF R, H
<1> QED
  BY <1>3, <1>4, <1>5

(* A node of a walk, and the end of the walk.                              *)
LEMMA WalkNodeMeans == ASSUME IInv, MeaningInv, WalkNode PROVE MeaningInv'
<1> DEFINE c == Current
           nodes == TreeOf[c.src]
           n == TreeOf[c.src][node]
           key == NodeKey(c, n)
           entry == NodeEntry(c, n)
<1>1. /\ pc = "walk" /\ next <= Len(contents) /\ isRelevantForPackager(c)
      /\ c.type \in TreeTypes /\ ~ RootClashes(c, Before)
      /\ Grown(table, Before, TreeClaims(c, node), ParentKeys(c.dst), c)
      /\ \A x \in Visited(c, node) : x.kind # "error"
      /\ node <= Len(nodes) /\ node \in Nat \ {0}
  BY DEF WalkNode, IInv, WalkInv, IsTree, MeaningInv, WalkMeans
<1>2. c \in Contents
  BY <1>1, OwnersKnown DEF IInv
<1>3. Len(nodes) \in Nat \ {0} /\ node \in 1..Len(nodes)
  BY <1>1, <1>2, WalkAssumption
<1>4. \A tab : contents' = contents /\ next' = next /\ pc' = pc => ListMeans'
  <2> SUFFICES ASSUME contents' = contents, next' = next, pc' = pc PROVE ListMeans'
    OBVIOUS
  <2>1. \A i : Accepts(contents, i)' <=> Accepts(contents, i)
    BY DEF Accepts
  <2> QED
    BY <1>1, <2>1 DEF MeaningInv, ListMeans
<1>5. CASE ~ Counts(c, n)
  <2>1. node' = node + 1 /\ UNCHANGED <<contents, next, pc, pending, table, position>>
    BY <1>5 DEF WalkNode, Counts
  <2>2. Current' = c /\ Before' = Before
    BY <2>1 DEF Current, Before
  <2>3. Visited(c, node + 1) = Visited(c, node) /\ TreeClaims(c, node + 1) = TreeClaims(c, node)
    BY <1>1, <1>3, <1>5, VisitedGrows DEF TreeClaims
  <2>4. WalkMeans'
    BY <1>1, <2>1, <2>2, <2>3 DEF WalkMeans
  <2> QED
    BY <1>1, <1>4, <2>1, <2>4 DEF MeaningInv, GlobMeans, ErrorMeans
<1>6. CASE Counts(c, n) /\ n.kind = "error"
  <2>1. Fail
    BY <1>6 DEF WalkNode, Counts
  <2>2. n \in Nodes(c)
    BY <1>3, <1>6 DEF Nodes, Counts
  <2> QED
    BY <1>1, <1>6, <2>1, <2>2, TreeVerdict, FailMeans
<1>7. CASE Counts(c, n) /\ n.kind # "error"
  <2>1. /\ table' = Put(table, key, entry) /\ node' = node + 1
        /\ UNCHANGED <<contents, next, pc, pending, position>>
    BY <1>7 DEF WalkNode, Counts
  <2>2. Current' = c /\ Before' = Before
    BY <2>1 DEF Current, Before
  <2>3. Visited(c, node + 1) = Visited(c, node) \cup {n}
    BY <1>1, <1>3, <1>7, VisitedGrows
  <2>4. TreeClaims(c, node + 1) = TreeClaims(c, node) \cup {Claim(key, entry)}
    BY <2>3 DEF TreeClaims
  <2>5. \A cl \in TreeClaims(c, node) : cl.key # key
    <3>1. ASSUME NEW x \in Visited(c, node) PROVE NodeKey(c, x) # key
      <4>1. PICK h \in 1..Len(nodes) : x = nodes[h] /\ h < node
        BY DEF Visited
      <4>2. x.kind # "error" /\ h # node
        BY <1>1, <1>3, <4>1
      <4> QED
        BY <1>1, <1>2, <1>3, <1>7, <4>1, <4>2, NodesApart
    <3>2. \A x : Claim(NodeKey(c, x), NodeEntry(c, x)).key = NodeKey(c, x)
      BY DEF Claim
    <3> HIDE DEF key
    <3> QED
      BY <3>1, <3>2 DEF TreeClaims
  <2>6. Grown(table', Before, TreeClaims(c, node + 1), ParentKeys(c.dst), c)
    <3> HIDE DEF key, entry
    <3>1. Grown(Put(table, key, entry), Before, TreeClaims(c, node) \cup {Claim(key, entry)},
                ParentKeys(c.dst), c)
      BY <1>1, <2>5, GrownByClaim
    <3> QED
      BY <2>1, <2>4, <3>1
  <2>7. WalkMeans'
    BY <1>1, <1>7, <2>1, <2>2, <2>3, <2>6 DEF WalkMeans
  <2> QED
    BY <1>1, <1>4, <2>1, <2>7 DEF MeaningInv, GlobMeans, ErrorMeans
<1> QED
  BY <1>5, <1>6, <1>7

LEMMA EndTreeMeans == ASSUME IInv, MeaningInv, EndTree PROVE MeaningInv'
<1> DEFINE c == Current
<1>1. /\ pc = "walk" /\ next <= Len(contents) /\ isRelevantForPackager(c)
      /\ c.type \in TreeTypes /\ ~ RootClashes(c, Before)
      /\ Grown(table, Before, TreeClaims(c, node), ParentKeys(c.dst), c)
      /\ \A x \in Visited(c, node) : x.kind # "error"
      /\ node > Len(TreeOf[c.src]) /\ node \in Nat \ {0}
  BY DEF EndTree, IInv, WalkInv, IsTree, MeaningInv, WalkMeans
<1>2. Len(TreeOf[c.src]) \in Nat
  <2>1. c \in Contents
    BY <1>1, OwnersKnown DEF IInv
  <2> QED
    BY <1>1, <2>1, WalkAssumption
<1>3. Visited(c, node) = Nodes(c)
  BY <1>1, <1>2 DEF Visited, Nodes, Counts
<1>4. Accepts(contents, next)
  BY <1>1, <1>3, TreeVerdict
<1>5. Grown(table, Before, Claims(c), Needs(c), c)
  BY <1>1, <1>2, TreeClaimed
<1>6. contents' = contents /\ next' = next + 1 /\ pc' = "next" /\ table' = table
  BY DEF EndTree
<1> QED
  BY <1>1, <1>4, <1>5, <1>6, NextMeans
-----------------------------------------------------------------------------
(* The invariant holds at the start, and every step preserves it.          *)
LEMMA StartMeans == Starts => MeaningInv
<1> SUFFICES ASSUME Starts PROVE MeaningInv
  OBVIOUS
<1>1. /\ next = 1 /\ pc = "next" /\ contents \in Seq(Contents) /\ Len(contents) \in Nat
      /\ table = [k \in DOMAIN table |-> table[k]] /\ DOMAIN table = {}
  BY LenProperties DEF Starts
<1>2. 0 \in 0..Len(contents) /\ next - 1 = 0 /\ next <= Len(contents) + 1
  BY <1>1
<1>3. Before = [k \in DOMAIN Before |-> Before[k]] /\ DOMAIN Before = {}
  <2>1. Before = Meaning(Prefix(contents, 0))
    BY <1>2 DEF Before
  <2>2. /\ Before = [k \in DOMAIN Before |-> Before[k]]
        /\ \A k : k \in DOMAIN Before <=>
              \E i \in 1..0 : Asks(contents[i], k) \/ k \in Needs(contents[i])
    BY <1>1, <1>2, <2>1, MeaningDomain
  <2>3. \A i \in 1..0 : FALSE
    OBVIOUS
  <2>4. \A k : k \notin DOMAIN Before
    BY <2>2, <2>3, Zenon
  <2>5. DOMAIN Before = {}
    BY <2>4, Zenon
  <2> QED
    BY <2>2, <2>5
<1>4. table = Before
  BY <1>1, <1>3
<1> QED
  BY <1>1, <1>2, <1>4 DEF MeaningInv, ListMeans, GlobMeans, WalkMeans, ErrorMeans

LEMMA FinishMeans == ASSUME IInv, MeaningInv, Finish PROVE MeaningInv'
<1>1. /\ pc = "next" /\ pc' = "done" /\ UNCHANGED <<contents, next, table>>
  BY DEF Finish
<1>2. Before' = Before
  BY <1>1 DEF Before
<1>3. \A i : Accepts(contents, i)' <=> Accepts(contents, i)
  BY <1>1 DEF Accepts
<1> QED
  BY <1>1, <1>2, <1>3 DEF MeaningInv, ListMeans, GlobMeans, WalkMeans, ErrorMeans

LEMMA StutterMeans == ASSUME MeaningInv, UNCHANGED vars PROVE MeaningInv'
<1>1. UNCHANGED <<contents, next, pc, pending, node, table>>
  BY DEF vars
<1>2. Before' = Before /\ Current' = Current /\ Added' = Added
  BY <1>1 DEF Before, Current, Added
<1>3. \A i : Accepts(contents, i)' <=> Accepts(contents, i)
  BY <1>1 DEF Accepts
<1>4. ListMeans'
  BY <1>1, <1>2, <1>3 DEF MeaningInv, ListMeans
<1>5. GlobMeans' /\ WalkMeans'
  BY <1>1, <1>2 DEF MeaningInv, GlobMeans, WalkMeans
<1>6. ErrorMeans'
  BY <1>1, <1>3 DEF MeaningInv, ErrorMeans
<1> QED
  BY <1>4, <1>5, <1>6 DEF MeaningInv

LEMMA StepMeans == ASSUME IInv, MeaningInv, [Next]_vars PROVE MeaningInv'
  BY SkipMeans, AddDirMeans, AddAsIsMeans, InvalidTypeMeans, GlobMeansStart, AddGlobbedMeans,
     EndGlobMeans, BeginTreeMeans, WalkNodeMeans, EndTreeMeans, FinishMeans, StutterMeans
     DEF Next

LEMMA MeaningHolds == Spec => [](IInv /\ MeaningInv)
<1>1. Init => MeaningInv
  BY InitStarts, StartMeans
<1>2. IInv /\ MeaningInv /\ [Next]_vars => MeaningInv'
  BY StepMeans
<1> QED
  BY <1>1, <1>2, InvariantHolds, PTL DEF Spec

(* Between two contents the table is what the list so far stands for,      *)
(* whatever the order in which the matches of a glob are added: no entry   *)
(* is lost, made twice or made by an earlier content than the last that    *)
(* claims it (files/files.go:259-352).                                     *)
THEOREM TableIsWhatTheListMeans == Spec => []TableIsMeaning
<1>1. MeaningInv => TableIsMeaning
  BY DEF MeaningInv, ListMeans, TableIsMeaning, Before
<1> QED
  BY <1>1, MeaningHolds, PTL

(* A preparation fails exactly at the first content that is refused, for   *)
(* every list, every host and every order of the matches.                  *)
THEOREM FailsExactlyWhereRefused == Spec => []FailsWhereRefused
<1>1. IInv /\ MeaningInv => FailsWhereRefused
  <2> SUFFICES ASSUME IInv, MeaningInv PROVE FailsWhereRefused
    OBVIOUS
  <2> DEFINE S == {Len(contents) + 1} \cup
                     {i \in 1..Len(contents) : ~ Accepts(contents, i)}
  <2>1. /\ Len(contents) \in Nat /\ next \in Nat \ {0} /\ next <= Len(contents) + 1
        /\ \A i \in 1..(next - 1) : Accepts(contents, i)
    BY LenProperties DEF IInv, MeaningInv, ListMeans
  <2>2. S \in SUBSET Nat /\ S # {}
    BY <2>1
  <2>3. FirstRefused(contents) = FirstOf(S)
    BY DEF FirstRefused
  <2>4. \A i \in S : next <= i
    BY <2>1
  <2>5. pc = "error" => next \in S
    BY <2>1 DEF MeaningInv, ErrorMeans
  <2> HIDE DEF S
  <2>6. pc = "error" => FirstRefused(contents) = next
    BY <2>1, <2>2, <2>3, <2>4, <2>5, FirstIs
  <2>7. next <= FirstRefused(contents)
    <3>1. PICK i \in S : \A j \in S : i <= j
      BY <2>2, Loops!LeastElement
    <3>2. FirstOf(S) = i
      BY <2>2, <3>1, FirstIs
    <3> QED
      BY <2>3, <2>4, <3>2
  <2> QED
    BY <2>6, <2>7 DEF FailsWhereRefused
<1> QED
  BY <1>1, MeaningHolds, PTL
=============================================================================
