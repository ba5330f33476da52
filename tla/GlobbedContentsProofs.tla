------------------------ MODULE GlobbedContentsProofs ------------------------
(***************************************************************************)
(* Where a glob puts what it finds, for every set of matches with paths of *)
(* every length: the prefix that internal/glob compares character by       *)
(* character cuts every path at the end of a name.                         *)
(***************************************************************************)
EXTENDS GlobbedContents, PrepareContentsProofs

(* The text of a path, name by name. *)
Between(n) == IF n = 1 THEN <<>> ELSE <<Slash>>

Writes(p, N, f) ==
    f = [n \in 0..N |-> IF n = 0 THEN <<>> ELSE f[n - 1] \o Between(n) \o Chars[p[n]]]

(* The text of a path, one name at a time, is a function defined on every  *)
(* prefix.                                                                 *)
LEMMA WritesExist == ASSUME NEW p, NEW N \in Nat PROVE \E f : Writes(p, N, f)
<1> DEFINE P == {k \in Nat : \E f : Writes(p, k, f)}
           none == <<>>
           WithName(s, n) == s \o Between(n) \o Chars[p[n]]
<1>1. 0 \in P
  <2>1. Writes(p, 0, [n \in 0..0 |-> none])
    BY DEF Writes
  <2> QED
    BY <2>1
<1>2. ASSUME NEW k \in P PROVE k + 1 \in P
  <2>1. PICK f : Writes(p, k, f)
    OBVIOUS
  <2> DEFINE g == [n \in 0..(k + 1) |-> IF n = k + 1 THEN WithName(f[k], n) ELSE f[n]]
  <2>2. \A n \in 0..k : f[n] = IF n = 0 THEN none ELSE WithName(f[n - 1], n)
    BY <2>1 DEF Writes
  <2> HIDE DEF none, WithName
  <2>3. ASSUME NEW n \in 0..(k + 1)
        PROVE  g[n] = IF n = 0 THEN none ELSE WithName(g[n - 1], n)
    <3>1. CASE n = k + 1
      <4>1. n # 0 /\ n - 1 = k /\ g[n - 1] = f[k]
        BY <3>1
      <4> QED
        BY <3>1, <4>1
    <3>2. CASE n \in 0..k
      <4>1. n # k + 1 /\ g[n] = f[n] /\ (n # 0 => g[n - 1] = f[n - 1])
        BY <3>2
      <4> QED
        BY <2>2, <3>2, <4>1
    <3> QED
      BY <3>1, <3>2
  <2>4. Writes(p, k + 1, g)
    BY <2>3 DEF Writes, none, WithName
  <2> HIDE DEF g
  <2> QED
    BY <2>4
<1>3. P \subseteq Nat
  OBVIOUS
<1> HIDE DEF P
<1>4. P = Nat
  BY <1>1, <1>2, <1>3, Loops!Counting
<1> QED
  BY <1>4 DEF P

(* It is what TextUpTo says. *)
LEMMA WritingDefined ==
    ASSUME NEW p, Len(p) \in Nat
    PROVE  Writes(p, Len(p), G!TextUpTo(p))
<1>1. \E f : Writes(p, Len(p), f)
  BY WritesExist
<1>2. G!Separator = Slash
  BY DEF G!Separator, Slash
<1> QED
  BY <1>1, <1>2, Zenon DEF Writes, Between, G!TextUpTo

(* One name after the other. *)
LEMMA WritesUnfolds ==
    ASSUME NEW p, NEW N \in Nat, NEW f, Writes(p, N, f)
    PROVE  f[0] = <<>> /\ \A n \in 1..N : f[n] = f[n - 1] \o Between(n) \o Chars[p[n]]
<1> DEFINE none == <<>>
           WithName(s, n) == s \o Between(n) \o Chars[p[n]]
<1>1. \A n \in 0..N : f[n] = IF n = 0 THEN none ELSE WithName(f[n - 1], n)
  BY DEF Writes
<1> HIDE DEF none, WithName
<1>2. \A n \in 1..N : n \in 0..N /\ n # 0
  OBVIOUS
<1>3. f[0] = none
  BY <1>1
<1>4. \A n \in 1..N : f[n] = WithName(f[n - 1], n)
  BY <1>1, <1>2
<1> QED
  BY <1>3, <1>4 DEF none, WithName

(* The text of the first n names. *)
Written(p, n) == G!TextUpTo(p)[n]

LEMMA WrittenSteps ==
    ASSUME NEW p \in Seq(Names)
    PROVE  /\ Len(p) \in Nat
           /\ Written(p, 0) = <<>>
           /\ G!Text(p) = Written(p, Len(p))
           /\ \A n \in 1..Len(p) : Written(p, n) = Written(p, n - 1) \o Between(n) \o Chars[p[n]]
<1> DEFINE f == G!TextUpTo(p)
<1>1. Len(p) \in Nat
  BY LenProperties
<1>2. Writes(p, Len(p), f)
  BY <1>1, WritingDefined
<1>3. G!Text(p) = f[Len(p)]
  BY DEF G!Text
<1> HIDE DEF f
<1>4. f[0] = <<>> /\ \A n \in 1..Len(p) : f[n] = f[n - 1] \o Between(n) \o Chars[p[n]]
  BY <1>1, <1>2, WritesUnfolds
<1>5. \A n : Written(p, n) = f[n]
  BY DEF Written, f
<1> QED
  BY <1>1, <1>3, <1>4, <1>5

(* Names are not empty and have no separator. *)
LEMMA NameSpelled ==
    ASSUME NEW c \in Names
    PROVE  /\ Chars[c] \in Strings
           /\ Len(Chars[c]) \in Nat /\ Len(Chars[c]) >= 1
           /\ \A i \in 1..Len(Chars[c]) : Chars[c][i] # Slash
<1> DEFINE s == Chars[c]
<1>1. s \in Seq(Nat \ {Slash}) /\ s # <<>>
  BY CharsAssumption
<1> HIDE DEF s
<1>2. s \in Seq(Nat)
  BY <1>1, SeqMonotonic
<1>3. Len(s) \in Nat /\ Len(s) # 0
  BY <1>1, LenProperties, EmptySeq
<1>4. \A i \in 1..Len(s) : s[i] \in Nat \ {Slash}
  BY <1>1, LenProperties
<1> QED
  BY <1>2, <1>3, <1>4 DEF s, Strings

(* How many characters there are before name n + 1 in the text of a path.  *)
CharsBefore(p, n) == IF n = 0 THEN 0 ELSE Len(Written(p, n)) + 1

(* What a name adds to a text. *)
Extends(p, n) ==
    LET s == Written(p, n)  t == Written(p, n + 1)  name == Chars[p[n + 1]] IN
    /\ t \in Strings
    /\ Len(t) = CharsBefore(p, n) + Len(name)
    /\ \A i \in 1..Len(s) : t[i] = s[i]
    /\ n # 0 => t[Len(s) + 1] = Slash
    /\ \A i \in 1..Len(name) : t[CharsBefore(p, n) + i] = name[i]

LEMMA NameWritten ==
    ASSUME NEW p \in Seq(Names), NEW n \in Nat, n + 1 <= Len(p), Written(p, n) \in Strings
    PROVE  Extends(p, n)
<1> DEFINE s == Written(p, n)
           t == Written(p, n + 1)
           c == p[n + 1]
           name == Chars[c]
<1>1. n + 1 \in 1..Len(p) /\ n + 1 - 1 = n
  BY WrittenSteps
<1>2. c \in Names
  BY <1>1, LenProperties
<1>3. t = s \o Between(n + 1) \o name
  <2> DEFINE k == n + 1
  <2>1. k \in 1..Len(p) /\ k - 1 = n
    BY <1>1
  <2> HIDE DEF k
  <2>2. Written(p, k) = Written(p, k - 1) \o Between(k) \o Chars[p[k]]
    BY <2>1, WrittenSteps
  <2>3. Written(p, k) = Written(p, n) \o Between(k) \o Chars[p[k]]
    BY <2>1, <2>2
  <2> QED
    BY <2>3 DEF k
<1>4. name \in Strings /\ Len(name) \in Nat /\ s \in Strings
  BY <1>2, NameSpelled
<1>5. n = 0 => s = <<>>
  BY WrittenSteps
<1> HIDE DEF s, t, c, name
<1>6. CASE n = 0
  <2>1. Between(n + 1) = <<>> /\ s = <<>>
    BY <1>5, <1>6 DEF Between
  <2>2. <<>> \o <<>> \o name = name
    BY <1>4, ConcatEmptySeq, EmptySeq DEF Strings
  <2>3. t = name /\ Len(s) = 0
    BY <1>3, <2>1, <2>2
  <2>4. CharsBefore(p, n) = 0
    BY <1>6 DEF CharsBefore
  <2>5. \A i \in 1..Len(name) : 0 + i = i
    BY <1>4
  <2>6. Len(t) = 0 + Len(name)
    BY <1>4, <2>3
  <2> QED
    BY <1>4, <1>6, <2>3, <2>4, <2>5, <2>6 DEF Extends, s, t, c, name
<1>7. CASE n # 0
  <2>1. Between(n + 1) = <<Slash>>
    BY <1>7 DEF Between
  <2>2. t = Joint(s, Slash, name)
    BY <1>3, <2>1 DEF Joint
  <2>3. Slash \in Nat
    BY DEF Slash
  <2>4. Joins(t, Slash, s, name)
    BY <1>4, <2>2, <2>3, JoinedBy
  <2>5. CharsBefore(p, n) = Len(s) + 1
    BY <1>7 DEF CharsBefore, s
  <2> QED
    BY <2>4, <2>5 DEF Joins, Extends, s, t, c, name
<1> QED
  BY <1>6, <1>7

(* All texts are strings. *)
LEMMA WrittenIsString ==
    ASSUME NEW p \in Seq(Names), NEW n \in 0..Len(p)
    PROVE  Written(p, n) \in Strings /\ Len(Written(p, n)) \in Nat /\ Len(p) \in Nat
<1> DEFINE P == {k \in Nat : k <= Len(p) => Written(p, k) \in Strings}
<1>1. 0 \in P
  <2>1. <<>> \in Strings
    BY EmptySeq DEF Strings
  <2> QED
    BY <2>1, WrittenSteps
<1>2. ASSUME NEW k \in P PROVE k + 1 \in P
  <2>1. SUFFICES ASSUME k + 1 <= Len(p) PROVE Written(p, k + 1) \in Strings
    OBVIOUS
  <2>2. k <= Len(p) /\ k \in Nat
    BY <2>1, WrittenSteps
  <2> QED
    BY <2>1, <2>2, NameWritten DEF Extends
<1>3. P \subseteq Nat
  OBVIOUS
<1>4. n \in P
  <2> HIDE DEF P
  <2>1. P = Nat
    BY <1>1, <1>2, <1>3, Loops!Counting
  <2>2. n \in Nat
    BY WrittenSteps
  <2> QED
    BY <2>1, <2>2
<1>5. n <= Len(p) /\ Len(p) \in Nat
  BY WrittenSteps
<1>6. Written(p, n) \in Strings
  BY <1>4, <1>5
<1> QED
  BY <1>5, <1>6, LenProperties DEF Strings

LEMMA NameAfter ==
    ASSUME NEW p \in Seq(Names), NEW n \in Nat, n < Len(p)
    PROVE  /\ Extends(p, n)
           /\ n \in 0..Len(p) /\ n + 1 \in 1..Len(p) /\ n + 1 \in 0..Len(p)
           /\ p[n + 1] \in Names
           /\ CharsBefore(p, n) \in Nat
<1>1. n \in 0..Len(p) /\ n + 1 \in 1..Len(p) /\ n + 1 \in 0..Len(p) /\ n + 1 <= Len(p)
  BY WrittenSteps
<1>2. Written(p, n) \in Strings /\ Len(Written(p, n)) \in Nat
  BY <1>1, WrittenIsString
<1>3. Extends(p, n)
  BY <1>1, <1>2, NameWritten
<1>4. p[n + 1] \in Names
  BY <1>1, LenProperties
<1>5. CharsBefore(p, n) \in Nat
  BY <1>2 DEF CharsBefore
<1> QED
  BY <1>1, <1>3, <1>4, <1>5

(* Every text of a beginning is a beginning of the text of the path, and   *)
(* shorter with every name left out.                                       *)
Begins(s, t) == Len(s) <= Len(t) /\ \A i \in 1..Len(s) : s[i] = t[i]

LEMMA TextExtends ==
    ASSUME NEW p \in Seq(Names), NEW n \in Nat, NEW m \in Nat, n <= m, m <= Len(p)
    PROVE  /\ Begins(Written(p, n), Written(p, m))
           /\ n < m => Len(Written(p, n)) < Len(Written(p, m))
<1> DEFINE Good(k) == /\ Begins(Written(p, n), Written(p, k))
                      /\ n < k => Len(Written(p, n)) < Len(Written(p, k))
           P == {k \in Nat : n <= k /\ k <= Len(p) => Good(k)}
<1>1. Len(p) \in Nat
  BY WrittenSteps
<1>2. \A k \in Nat : k <= Len(p) => Len(Written(p, k)) \in Nat
  BY <1>1, WrittenIsString
<1>3. Good(n)
  BY <1>1, <1>2 DEF Begins
<1>4. 0 \in P
  <2>1. n <= 0 => n = 0
    OBVIOUS
  <2> HIDE DEF Good
  <2> QED
    BY <1>3, <2>1
<1>5. ASSUME NEW k \in P PROVE k + 1 \in P
  <2>1. SUFFICES ASSUME n <= k + 1, k + 1 <= Len(p) PROVE Good(k + 1)
    OBVIOUS
  <2>2. CASE n = k + 1
    <3> HIDE DEF Good
    <3> QED
      BY <1>3, <2>2
  <2>3. CASE n # k + 1
    <3>1. n <= k /\ k < Len(p) /\ k <= Len(p) /\ k \in Nat /\ k + 1 \in Nat
      BY <1>1, <2>1, <2>3
    <3> DEFINE r == Written(p, n)
               s == Written(p, k)
               t == Written(p, k + 1)
               name == Chars[p[k + 1]]
               b == CharsBefore(p, k)
    <3>2. Begins(r, s) /\ (n < k => Len(r) < Len(s))
      BY <3>1
    <3>3. Extends(p, k) /\ p[k + 1] \in Names
      BY <3>1, NameAfter
    <3>4. Len(t) = b + Len(name) /\ \A i \in 1..Len(s) : t[i] = s[i]
      BY <3>3 DEF Extends
    <3>5. Len(name) \in Nat /\ Len(name) >= 1
      BY <3>3, NameSpelled
    <3>6. Len(r) \in Nat /\ Len(s) \in Nat
      BY <1>1, <1>2, <2>1, <3>1
    <3>7. b >= Len(s) /\ b \in Nat
      <4>1. CASE k = 0
        <5>1. s = <<>>
          BY <4>1, WrittenSteps
        <5>2. Len(s) = 0
          BY <5>1, EmptySeq
        <5> QED
          BY <4>1, <5>2 DEF CharsBefore
      <4>2. CASE k # 0
        BY <4>2, <3>6 DEF CharsBefore
      <4> QED
        BY <4>1, <4>2
    <3> HIDE DEF r, s, t, name, b
    <3>8. Len(r) < Len(t)
      BY <3>2, <3>4, <3>5, <3>6, <3>7 DEF Begins
    <3>9. \A i \in 1..Len(r) : r[i] = t[i]
      <4>1. \A i \in 1..Len(r) : i \in 1..Len(s)
        BY <3>2, <3>6 DEF Begins
      <4> QED
        BY <3>2, <3>4, <4>1 DEF Begins
    <3>10. Len(t) \in Nat
      BY <3>4, <3>5, <3>7
    <3>11. Begins(r, t)
      BY <3>6, <3>8, <3>9, <3>10 DEF Begins
    <3> QED
      BY <3>8, <3>11 DEF r, t
  <2> QED
    BY <2>2, <2>3
<1>6. P \subseteq Nat
  OBVIOUS
<1>7. m \in P
  <2> HIDE DEF P
  <2>1. P = Nat
    BY <1>4, <1>5, <1>6, Loops!Counting
  <2> QED
    BY <2>1
<1> HIDE DEF Good
<1>8. Good(m)
  BY <1>7
<1> QED
  BY <1>8 DEF Good

(* The text of a beginning.                                                *)
LEMMA TextOfBeginning ==
    ASSUME NEW p \in Seq(Names), NEW n \in 0..Len(p)
    PROVE  G!Text(SubSeq(p, 1, n)) = Written(p, n)
<1> DEFINE q == SubSeq(p, 1, n)
           P == {k \in Nat : k <= n => Written(q, k) = Written(p, k)}
<1>1. Len(p) \in Nat /\ n \in Nat /\ n <= Len(p)
  BY WrittenSteps
<1>2. q \in Seq(Names) /\ Len(q) = n /\ \A i \in 1..n : q[i] = p[i]
  <2>1. Prefix(p, n) = q
    BY DEF Prefix
  <2> QED
    BY <2>1, PrefixOf
<1> HIDE DEF q
<1>3. 0 \in P
  BY <1>2, WrittenSteps
<1>4. ASSUME NEW k \in P PROVE k + 1 \in P
  <2>1. SUFFICES ASSUME k + 1 <= n PROVE Written(q, k + 1) = Written(p, k + 1)
    OBVIOUS
  <2> DEFINE j == k + 1
  <2>2. j \in 1..n /\ j \in 1..Len(p) /\ j - 1 = k /\ k <= n
    BY <1>1, <2>1
  <2> HIDE DEF j
  <2>3. Written(q, j) = Written(q, j - 1) \o Between(j) \o Chars[q[j]]
    BY <1>2, <2>2, WrittenSteps
  <2>4. Written(p, j) = Written(p, j - 1) \o Between(j) \o Chars[p[j]]
    BY <2>2, WrittenSteps
  <2>5. Written(q, j) = Written(p, j)
    BY <1>2, <2>2, <2>3, <2>4
  <2> QED
    BY <2>5 DEF j
<1>5. n \in P
  <2>1. P \subseteq Nat
    OBVIOUS
  <2> HIDE DEF P
  <2>2. P = Nat
    BY <1>3, <1>4, <2>1, Loops!Counting
  <2> QED
    BY <1>1, <2>2
<1>6. Written(q, n) = Written(p, n)
  BY <1>1, <1>5
<1>7. G!Text(q) = Written(q, n)
  BY <1>2, WrittenSteps
<1> QED
  BY <1>6, <1>7 DEF q

(* The beginnings of strings.                                              *)
LEMMA BeginningOf ==
    ASSUME NEW s \in Strings, NEW t \in Strings
    PROVE  /\ Len(s) \in Nat /\ Len(t) \in Nat
           /\ G!IsPrefix(s, t) <=> Begins(s, t)
           /\ Begins(s, t) => SubSeq(t, 1, Len(s)) = s
<1>1. Len(s) \in Nat /\ Len(t) \in Nat
  BY LenProperties DEF Strings
<1>2. SubSeq(s, 1, Len(s)) = s
  BY WholePrefix DEF Prefix, Strings
<1>3. ASSUME Len(s) <= Len(t)
      PROVE  SubSeq(t, 1, Len(s)) = s <=> \A i \in 1..Len(s) : s[i] = t[i]
  <2>1. Len(s) \in 0..Len(t)
    BY <1>1, <1>3
  <2> DEFINE u == SubSeq(t, 1, Len(s))
  <2>2. u \in Seq(Nat) /\ Len(u) = Len(s) /\ \A i \in 1..Len(s) : u[i] = t[i]
    BY <2>1, PrefixOf DEF Prefix, Strings
  <2> HIDE DEF u
  <2>3. (\A i \in 1..Len(s) : s[i] = t[i]) => u = s
    BY <2>2, SeqEqual DEF Strings
  <2>4. u = s => \A i \in 1..Len(s) : s[i] = t[i]
    BY <2>2
  <2> QED
    BY <2>3, <2>4 DEF u
<1> QED
  BY <1>1, <1>2, <1>3 DEF G!IsPrefix, Begins

-----------------------------------------------------------------------------
(* Relative to the text of its first names, a path is the rest of it:      *)
(* filepath.Rel does not have to step back.                                *)
LEMMA RelOfBeginning ==
    ASSUME NEW p \in Seq(Names), NEW n \in 0..Len(p)
    PROVE  G!Rel(Written(p, n), p) = SubSeq(p, n + 1, Len(p))
<1> DEFINE w == Written(p, n)
           Length(k) == Len(G!Text(SubSeq(p, 1, k)))
           S == {k \in 0..Len(p) : G!IsPrefix(G!Text(SubSeq(p, 1, k)), w)}
           complete == G!Max(S)
           partly == Len(w) > Length(complete) + (IF complete = 0 THEN 0 ELSE 1)
           rest(k) == SubSeq(p, k + 1, Len(p))
<1>1. Len(p) \in Nat /\ n \in Nat /\ n <= Len(p)
  BY WrittenSteps
<1>2. ASSUME NEW k \in 0..Len(p)
      PROVE  /\ G!Text(SubSeq(p, 1, k)) = Written(p, k)
             /\ G!IsPrefix(Written(p, k), w) <=> k <= n
  <2>1. G!Text(SubSeq(p, 1, k)) = Written(p, k)
    BY TextOfBeginning
  <2>2. Written(p, k) \in Strings /\ w \in Strings
    BY WrittenIsString
  <2>3. Len(Written(p, k)) \in Nat /\ Len(w) \in Nat
    BY WrittenIsString
  <2>4. G!IsPrefix(Written(p, k), w) <=> Begins(Written(p, k), w)
    BY <2>2, BeginningOf
  <2>5. k \in Nat /\ k <= Len(p)
    BY <1>1
  <2>6. k <= n => Begins(Written(p, k), w)
    BY <1>1, <2>5, TextExtends
  <2>7. n < k => Len(w) < Len(Written(p, k))
    BY <1>1, <2>5, TextExtends
  <2> HIDE DEF w
  <2>8. ~ (k <= n) => ~ Begins(Written(p, k), w)
    BY <1>1, <2>3, <2>5, <2>7 DEF Begins
  <2> QED
    BY <2>1, <2>4, <2>6, <2>8
<1>3. S = 0..n
  <2>1. \A k \in 0..Len(p) : G!IsPrefix(G!Text(SubSeq(p, 1, k)), w) <=> k <= n
    BY <1>2
  <2> HIDE DEF w
  <2> QED
    BY <1>1, <2>1
<1> HIDE DEF S
<1>4. complete = n
  <2>1. \A x \in 0..n : (\A y \in 0..n : x >= y) <=> x = n
    BY <1>1
  <2>2. n \in 0..n
    BY <1>1
  <2>3. (CHOOSE x \in 0..n : \A y \in 0..n : x >= y) = n
    BY <2>1, <2>2
  <2> QED
    BY <1>3, <2>3 DEF G!Max
<1>5. G!Rel(w, p) = (IF partly THEN <<UP>> ELSE <<>>) \o rest(complete)
  BY DEF G!Rel, S
<1>6. Length(n) = Len(w) /\ Len(w) \in Nat
  BY <1>2, WrittenIsString
<1> HIDE DEF w, Length, complete, rest
<1>7. ~ partly
  BY <1>4, <1>6
<1> HIDE DEF partly
<1>8. G!Rel(w, p) = <<>> \o rest(n)
  BY <1>4, <1>5, <1>7
<1>9. rest(n) \in Seq(Names)
  <2>1. n + 1 >= 1 /\ n + 1 \in Nat
    BY <1>1
  <2>2. \A i \in (n + 1)..Len(p) : p[i] \in Names
    <3>1. \A i \in (n + 1)..Len(p) : i \in 1..Len(p)
      BY <1>1
    <3> QED
      BY <3>1, LenProperties
  <2> QED
    BY <1>1, <2>1, <2>2, SubSeqProperties DEF rest
<1>10. <<>> \o rest(n) = rest(n)
  BY <1>9, ConcatEmptySeq
<1> QED
  BY <1>8, <1>10 DEF w, rest

-----------------------------------------------------------------------------
(* What the first separator behind the first n names of a path says, in    *)
(* any beginning w of its text: there is one name more, it ends before     *)
(* this separator, and the path goes on.                                   *)
LEMMA FirstSlash ==
    ASSUME NEW p \in Seq(Names), NEW n \in Nat, n < Len(p),
           NEW w \in Strings, Begins(w, G!Text(p)),
           NEW k \in 1..Len(w), k > CharsBefore(p, n), w[k] = Slash
    PROVE  LET b == CharsBefore(p, n)  name == Chars[p[n + 1]] IN
           /\ n + 1 < Len(p)
           /\ name \in Strings /\ Len(name) \in Nat /\ b \in Nat
           /\ b + Len(name) + 1 \in 1..Len(w)
           /\ w[b + Len(name) + 1] = Slash
           /\ \A i \in 1..Len(name) :
                 b + i \in 1..Len(w) /\ w[b + i] = name[i] /\ name[i] # Slash
<1> DEFINE b == CharsBefore(p, n)
           c == p[n + 1]
           name == Chars[c]
           s == Written(p, n)
           t == Written(p, n + 1)
           all == G!Text(p)
           e == Len(t)
<1>1. Extends(p, n) /\ c \in Names /\ b \in Nat /\ n + 1 \in 0..Len(p)
  BY NameAfter
<1>2. /\ name \in Strings /\ Len(name) \in Nat /\ Len(name) >= 1
      /\ \A i \in 1..Len(name) : name[i] # Slash
  BY <1>1, NameSpelled
<1>3. /\ e = b + Len(name)
      /\ \A i \in 1..Len(name) : t[b + i] = name[i]
  BY <1>1 DEF Extends
<1>4. Len(p) \in Nat /\ all = Written(p, Len(p)) /\ n + 1 \in Nat /\ n + 1 <= Len(p)
  <2>1. Len(p) \in Nat /\ all = Written(p, Len(p))
    BY WrittenSteps
  <2>2. n + 1 \in Nat /\ n + 1 <= Len(p)
    BY <2>1
  <2> QED
    BY <2>1, <2>2
<1>5. Begins(t, all) /\ (n + 1 < Len(p) => e < Len(all))
  BY <1>4, TextExtends
<1>6. /\ Len(w) \in Nat /\ Len(all) \in Nat
      /\ Len(w) <= Len(all) /\ \A i \in 1..Len(w) : w[i] = all[i]
  <2>1. all \in Strings
    BY <1>4, WrittenIsString
  <2>2. Len(w) \in Nat /\ Len(all) \in Nat
    BY <2>1, LenProperties DEF Strings
  <2> QED
    BY <2>2 DEF Begins
<1>7. k \in Nat /\ k <= Len(w) /\ k > b
  BY <1>6
<1>8. n + 1 < Len(p) => Len(all) >= e + 1 /\ all[e + 1] = Slash
  <2> SUFFICES ASSUME n + 1 < Len(p) PROVE Len(all) >= e + 1 /\ all[e + 1] = Slash
    OBVIOUS
  <2>1. Extends(p, n + 1) /\ p[n + 1 + 1] \in Names
    BY <1>4, NameAfter
  <2> DEFINE t2 == Written(p, n + 1 + 1)
             name2 == Chars[p[n + 1 + 1]]
  <2>2. n + 1 # 0
    BY <1>4
  <2>3. t2[e + 1] = Slash /\ Len(t2) = CharsBefore(p, n + 1) + Len(name2)
    BY <2>1, <2>2 DEF Extends
  <2>4. CharsBefore(p, n + 1) = e + 1
    BY <2>2 DEF CharsBefore
  <2>5. Len(name2) \in Nat
    BY <2>1, NameSpelled
  <2>6. n + 1 + 1 \in Nat /\ n + 1 + 1 <= Len(p)
    BY <1>4
  <2>7. Begins(t2, all)
    BY <1>4, <2>6, TextExtends
  <2>8. e \in Nat
    BY <1>1, <1>2, <1>3
  <2> HIDE DEF t2, name2, e, all
  <2>9. Len(t2) \in Nat /\ e + 1 \in 1..Len(t2)
    BY <2>3, <2>4, <2>5, <2>8
  <2>10. Len(t2) <= Len(all) /\ t2[e + 1] = all[e + 1]
    BY <2>7, <2>9 DEF Begins
  <2> QED
    BY <1>6, <2>3, <2>8, <2>9, <2>10
<1>9. Len(p) = n + 1 => Len(all) = e
  BY <1>4
<1> HIDE DEF b, c, name, s, t, all, e
<1>10. e \in Nat
  BY <1>1, <1>2, <1>3
<1>11. \A i \in 1..Len(name) : b + i \in 1..e
  BY <1>1, <1>2, <1>3
<1>12. \A i \in 1..Len(name) : e <= Len(all) /\ all[b + i] = name[i]
  <2>1. e <= Len(all) /\ \A j \in 1..e : t[j] = all[j]
    BY <1>5 DEF Begins, e
  <2> QED
    BY <1>3, <1>11, <2>1
<1>13. k > e
  <2> SUFFICES ASSUME k <= e PROVE FALSE
    BY <1>7, <1>10
  <2> DEFINE i == k - b
  <2>1. i \in 1..Len(name) /\ b + i = k
    BY <1>1, <1>2, <1>3, <1>7
  <2> HIDE DEF i
  <2>2. all[k] = name[i] /\ name[i] # Slash
    BY <1>2, <1>12, <2>1
  <2>3. w[k] = all[k]
    BY <1>6
  <2> QED
    BY <2>2, <2>3
<1>14. n + 1 < Len(p)
  BY <1>4, <1>6, <1>7, <1>9, <1>10, <1>13
<1>15. e + 1 \in 1..Len(w)
  BY <1>6, <1>7, <1>10, <1>13
<1>16. w[e + 1] = Slash
  BY <1>6, <1>8, <1>14, <1>15
<1>17. ASSUME NEW i \in 1..Len(name) PROVE b + i \in 1..Len(w) /\ w[b + i] = name[i] /\ name[i] # Slash
  <2>1. b + i \in 1..Len(w)
    BY <1>6, <1>10, <1>11, <1>15
  <2>2. w[b + i] = all[b + i]
    BY <1>6, <2>1
  <2> QED
    BY <1>2, <1>12, <2>1, <2>2
<1> QED
  BY <1>1, <1>2, <1>3, <1>14, <1>15, <1>16, <1>17 DEF b, c, name

(* Two paths whose texts agree up to a separator behind their first n      *)
(* names, which they share, share the next name, and both go on.           *)
LEMMA SameName ==
    ASSUME NEW p \in Seq(Names), NEW q \in Seq(Names), NEW n \in Nat,
           n < Len(p), n < Len(q), Written(p, n) = Written(q, n),
           NEW w \in Strings, Begins(w, G!Text(p)), Begins(w, G!Text(q)),
           NEW k \in 1..Len(w), k > CharsBefore(p, n), w[k] = Slash
    PROVE  n + 1 < Len(p) /\ n + 1 < Len(q) /\ p[n + 1] = q[n + 1]
<1> DEFINE b == CharsBefore(p, n)
           c == p[n + 1]
           d == q[n + 1]
           x == Chars[c]
           y == Chars[d]
<1>1. CharsBefore(q, n) = b
  BY DEF CharsBefore
<1>2. c \in Names /\ d \in Names
  BY NameAfter
<1>3. /\ n + 1 < Len(p)
      /\ x \in Strings /\ Len(x) \in Nat /\ b \in Nat
      /\ w[b + Len(x) + 1] = Slash
      /\ \A i \in 1..Len(x) : w[b + i] = x[i] /\ x[i] # Slash
  BY FirstSlash
<1>4. /\ n + 1 < Len(q)
      /\ y \in Strings /\ Len(y) \in Nat
      /\ w[b + Len(y) + 1] = Slash
      /\ \A i \in 1..Len(y) : w[b + i] = y[i] /\ y[i] # Slash
  <2>1. k > CharsBefore(q, n)
    BY <1>1
  <2>2. LET b2 == CharsBefore(q, n)  name == Chars[q[n + 1]] IN
           /\ n + 1 < Len(q)
           /\ name \in Strings /\ Len(name) \in Nat
           /\ w[b2 + Len(name) + 1] = Slash
           /\ \A i \in 1..Len(name) : w[b2 + i] = name[i] /\ name[i] # Slash
    BY <2>1, FirstSlash
  <2> QED
    BY <1>1, <2>2
<1> HIDE DEF b, c, d, x, y
<1>5. ~ (Len(x) < Len(y))
  <2> SUFFICES ASSUME Len(x) < Len(y) PROVE FALSE
    OBVIOUS
  <2> DEFINE i == Len(x) + 1
  <2>1. i \in 1..Len(y) /\ b + i = b + Len(x) + 1
    BY <1>3, <1>4
  <2> HIDE DEF i
  <2>2. w[b + i] # Slash
    BY <1>4, <2>1
  <2> QED
    BY <1>3, <2>1, <2>2
<1>6. ~ (Len(y) < Len(x))
  <2> SUFFICES ASSUME Len(y) < Len(x) PROVE FALSE
    OBVIOUS
  <2> DEFINE i == Len(y) + 1
  <2>1. i \in 1..Len(x) /\ b + i = b + Len(y) + 1
    BY <1>3, <1>4
  <2> HIDE DEF i
  <2>2. w[b + i] # Slash
    BY <1>3, <2>1
  <2> QED
    BY <1>4, <2>1, <2>2
<1>7. Len(x) = Len(y)
  BY <1>3, <1>4, <1>5, <1>6
<1>8. x = y
  BY <1>3, <1>4, <1>7, SeqEqual DEF Strings
<1>9. c = d
  BY <1>2, <1>8, CharsAssumption DEF x, y
<1> QED
  BY <1>3, <1>4, <1>9 DEF c, d

-----------------------------------------------------------------------------
(* The longest common prefix of strings begins them all, and is at least   *)
(* as long as whatever else begins them all.                               *)
LEMMA LongestIs ==
    ASSUME NEW T \in SUBSET Strings, T # {}
    PROVE  LET w == G!LongestCommonPrefix(T) IN
           /\ w \in Strings /\ Len(w) \in Nat
           /\ \A t \in T : Begins(w, t)
           /\ \A v \in Strings : (\A t \in T : Begins(v, t)) => Len(v) <= Len(w)
<1> DEFINE C == G!CommonPrefixes(T)
           w == G!LongestCommonPrefix(T)
           All(v) == \A t \in T : Begins(v, t)
<1>1. PICK t0 \in T : TRUE
  OBVIOUS
<1>2. t0 \in Strings /\ Len(t0) \in Nat
  BY LenProperties DEF Strings
<1>3. ASSUME NEW v \in C PROVE v \in Strings /\ All(v) /\ Len(v) \in 0..Len(t0)
  <2>1. PICK s \in T : v \in G!Prefixes(s)
    BY DEF G!CommonPrefixes
  <2>2. PICK l \in 0..Len(s) : v = SubSeq(s, 1, l)
    BY <2>1 DEF G!Prefixes
  <2>3. s \in Seq(Nat)
    BY DEF Strings
  <2>4. v \in Strings
    BY <2>2, <2>3, PrefixOf DEF Prefix, Strings
  <2>5. \A t \in T : G!IsPrefix(v, t)
    BY DEF G!CommonPrefixes
  <2>6. \A t \in T : Begins(v, t)
    BY <2>4, <2>5, BeginningOf
  <2>7. Len(v) \in Nat /\ Len(v) <= Len(t0)
    BY <1>1, <1>2, <2>4, <2>6, BeginningOf DEF Begins
  <2> QED
    BY <1>2, <2>4, <2>6, <2>7
<1>4. ASSUME NEW v \in Strings, All(v) PROVE v \in C
  <2>1. Len(v) \in 0..Len(t0) /\ v = SubSeq(t0, 1, Len(v))
    <3>1. Begins(v, t0)
      BY <1>1, <1>4
    <3>2. Len(v) \in Nat /\ SubSeq(t0, 1, Len(v)) = v
      BY <1>2, <3>1, BeginningOf
    <3> QED
      BY <1>2, <3>1, <3>2 DEF Begins
  <2>2. v \in G!Prefixes(t0)
    BY <2>1 DEF G!Prefixes
  <2>3. \A t \in T : G!IsPrefix(v, t)
    BY <1>4, BeginningOf
  <2>4. v \in UNION {G!Prefixes(s) : s \in T}
    BY <1>1, <2>2
  <2> QED
    BY <2>3, <2>4 DEF G!CommonPrefixes
<1>5. w = CHOOSE v \in C : \A u \in C : Len(u) <= Len(v)
  BY DEF G!LongestCommonPrefix
<1>6. \E v \in C : TRUE
  <2> DEFINE none == <<>>
  <2>1. none \in Strings /\ Len(none) = 0
    BY EmptySeq DEF Strings
  <2> HIDE DEF none, C
  <2>2. \A t \in T : Begins(none, t)
    <3>1. \A t \in T : Len(t) \in Nat
      BY LenProperties DEF Strings
    <3> QED
      BY <2>1, <3>1 DEF Begins
  <2> QED
    BY <1>4, <2>1, <2>2
<1> HIDE DEF C, w, All
<1>7. \E v \in C : \A u \in C : Len(u) <= Len(v)
  <2> DEFINE L == {Len(v) : v \in C}
  <2>1. L \in SUBSET Nat /\ L # {} /\ \A i \in L : i <= Len(t0)
    <3>1. \A v \in C : Len(v) \in 0..Len(t0)
      BY <1>3
    <3>2. ASSUME NEW i \in L PROVE i \in Nat /\ i <= Len(t0)
      <4>1. PICK v \in C : i = Len(v)
        OBVIOUS
      <4>2. i \in 0..Len(t0)
        BY <3>1, <4>1
      <4> QED
        BY <1>2, <4>2
    <3>3. L # {}
      BY <1>6
    <3> QED
      BY <3>2, <3>3
  <2> HIDE DEF L
  <2>2. PICK i \in L : \A j \in L : j <= i
    BY <1>2, <2>1, GreatestElement
  <2>3. PICK v \in C : i = Len(v)
    BY DEF L
  <2>4. \A u \in C : Len(u) \in L
    BY DEF L
  <2> QED
    BY <2>2, <2>3, <2>4
<1>8. w \in C /\ \A u \in C : Len(u) <= Len(w)
  BY <1>5, <1>7
<1>9. w \in Strings /\ All(w) /\ Len(w) \in Nat
  BY <1>3, <1>8
<1>10. \A v \in Strings : All(v) => Len(v) <= Len(w)
  BY <1>4, <1>8
<1> QED
  BY <1>9, <1>10 DEF w, All

(* filepath.Dir cuts at the last separator, if there is one.               *)
LEMMA DirIs ==
    ASSUME NEW w \in Strings, NEW b \in Nat,
           b # 0 => b \in 1..Len(w) /\ w[b] = Slash,
           \A k \in 1..Len(w) : w[k] = Slash => k <= b
    PROVE  G!Dir(w) = SubSeq(w, 1, IF b = 0 THEN 0 ELSE b - 1)
<1> DEFINE K == {k \in DOMAIN w : w[k] = G!Separator}
           S == {0} \cup {n - 1 : n \in K}
           x == IF b = 0 THEN 0 ELSE b - 1
<1>1. DOMAIN w = 1..Len(w) /\ Len(w) \in Nat
  BY LenProperties DEF Strings
<1>2. G!Separator = Slash
  BY DEF G!Separator, Slash
<1>3. \A k \in K : k \in Nat /\ k >= 1 /\ k <= b
  BY <1>1, <1>2
<1>4. b # 0 => b \in K
  BY <1>1, <1>2
<1> HIDE DEF K
<1>5. x \in S /\ \A y \in S : x >= y /\ y \in Nat
  BY <1>3, <1>4
<1> HIDE DEF S, x
<1>6. G!Max(S) = x
  <2>1. x \in Nat /\ \A y \in S : y \in Nat
    BY <1>5
  <2>2. \A z \in S : (\A y \in S : z >= y) <=> z = x
    BY <1>5, <2>1
  <2>3. (CHOOSE z \in S : \A y \in S : z >= y) = x
    BY <1>5, <2>2
  <2> QED
    BY <2>3 DEF G!Max
<1> QED
  BY <1>6 DEF G!Dir, S, x, K

-----------------------------------------------------------------------------
(* The names that all matches share are where their prefix is cut: what    *)
(* the names that follow have in common does not count.                    *)
LEMMA CutAtName ==
    ASSUME NEW M \in SUBSET Seq(Names), NEW p \in M, NEW n \in Nat,
           \A q, r \in M : n < Len(q) /\ SubSeq(q, 1, n) = SubSeq(r, 1, n),
           ~ \A q, r \in M : n + 1 < Len(q) /\ SubSeq(q, 1, n + 1) = SubSeq(r, 1, n + 1)
    PROVE  G!Dir(G!longestCommonPrefix(M)) = Written(p, n)
<1> DEFINE T == {G!Text(q) : q \in M}
           w == G!longestCommonPrefix(M)
           s == Written(p, n)
           b == CharsBefore(p, n)
<1>1. ASSUME NEW q \in M
      PROVE  /\ q \in Seq(Names) /\ n < Len(q) /\ Len(q) \in Nat
             /\ G!Text(q) \in Strings /\ G!Text(q) = Written(q, Len(q))
             /\ Written(q, n) = s
  <2>1. q \in Seq(Names) /\ p \in Seq(Names) /\ n < Len(q) /\ n < Len(p)
    OBVIOUS
  <2>2. Len(q) \in Nat /\ Len(p) \in Nat /\ G!Text(q) = Written(q, Len(q))
    BY <2>1, WrittenSteps
  <2>3. n \in 0..Len(q) /\ n \in 0..Len(p) /\ Len(q) \in 0..Len(q)
    BY <2>1, <2>2
  <2>4. G!Text(q) \in Strings
    BY <2>1, <2>2, <2>3, WrittenIsString
  <2>5. SubSeq(q, 1, n) = SubSeq(p, 1, n)
    OBVIOUS
  <2>6. Written(q, n) = G!Text(SubSeq(q, 1, n)) /\ Written(p, n) = G!Text(SubSeq(p, 1, n))
    BY <2>1, <2>3, TextOfBeginning
  <2> QED
    BY <2>1, <2>2, <2>4, <2>5, <2>6
<1>2. T \in SUBSET Strings /\ T # {}
  BY <1>1
<1>3. /\ w \in Strings /\ Len(w) \in Nat
      /\ \A q \in M : Begins(w, G!Text(q))
      /\ \A v \in Strings : (\A q \in M : Begins(v, G!Text(q))) => Len(v) <= Len(w)
  <2>1. w = G!LongestCommonPrefix(T)
    BY DEF G!longestCommonPrefix
  <2>2. \A q \in M : G!Text(q) \in T
    OBVIOUS
  <2>3. \A t \in T : \E q \in M : t = G!Text(q)
    OBVIOUS
  <2> HIDE DEF T, w
  <2>4. /\ w \in Strings /\ Len(w) \in Nat
        /\ \A t \in T : Begins(w, t)
        /\ \A v \in Strings : (\A t \in T : Begins(v, t)) => Len(v) <= Len(w)
    BY <1>2, <2>1, LongestIs
  <2> QED
    BY <2>2, <2>3, <2>4
<1> HIDE DEF w, T
<1>4. s \in Strings /\ Len(s) \in Nat
  <2>1. p \in Seq(Names) /\ n \in 0..Len(p)
    BY <1>1
  <2> QED
    BY <2>1, WrittenIsString
<1>5. b = (IF n = 0 THEN 0 ELSE Len(s) + 1) /\ b \in Nat
  BY <1>4 DEF CharsBefore
<1>6. \A k \in 1..Len(w) : w[k] = Slash => k <= b
  <2> SUFFICES ASSUME NEW k \in 1..Len(w), w[k] = Slash, ~ (k <= b) PROVE FALSE
    OBVIOUS
  <2>1. k > b
    BY <1>3, <1>5
  <2>2. ASSUME NEW q \in M, NEW r \in M
        PROVE  n + 1 < Len(q) /\ SubSeq(q, 1, n + 1) = SubSeq(r, 1, n + 1)
    <3>1. /\ q \in Seq(Names) /\ r \in Seq(Names) /\ n < Len(q) /\ n < Len(r)
          /\ Written(q, n) = Written(r, n)
          /\ Begins(w, G!Text(q)) /\ Begins(w, G!Text(r))
          /\ Len(q) \in Nat /\ Len(r) \in Nat
      BY <1>1, <1>3
    <3>2. k > CharsBefore(q, n)
      <4>1. Written(q, n) = s
        BY <1>1
      <4> QED
        BY <2>1, <4>1 DEF CharsBefore
    <3>3. n + 1 < Len(q) /\ n + 1 < Len(r) /\ q[n + 1] = r[n + 1]
      BY <1>3, <3>1, <3>2, SameName
    <3>4. SubSeq(q, 1, n) = SubSeq(r, 1, n)
      OBVIOUS
    <3>5. n \in 0..Len(q) /\ n \in 0..Len(r) /\ n + 1 <= Len(q) /\ n + 1 <= Len(r)
      BY <3>1, <3>3
    <3>6. Prefix(q, n + 1) = Append(Prefix(q, n), q[n + 1])
      BY <3>1, <3>5, PrefixNext
    <3>7. Prefix(r, n + 1) = Append(Prefix(r, n), r[n + 1])
      BY <3>1, <3>5, PrefixNext
    <3> QED
      BY <3>3, <3>4, <3>6, <3>7 DEF Prefix
  <2> QED
    BY <2>2
<1> DEFINE v == Append(s, Slash)
<1>7. /\ v \in Strings /\ Len(v) = Len(s) + 1 /\ v[Len(s) + 1] = Slash
      /\ \A i \in 1..Len(s) : v[i] = s[i]
  <2>1. Slash \in Nat
    BY DEF Slash
  <2> QED
    BY <1>4, <2>1, AppendProperties DEF Strings
<1> HIDE DEF v
<1>8. ASSUME NEW q \in M
      PROVE  Begins(s, G!Text(q)) /\ (n # 0 => Begins(v, G!Text(q)))
  <2> DEFINE all == G!Text(q)
             t == Written(q, n + 1)
  <2>1. /\ q \in Seq(Names) /\ n < Len(q) /\ Len(q) \in Nat /\ Written(q, n) = s
        /\ all = Written(q, Len(q)) /\ all \in Strings
    BY <1>1
  <2>2. Begins(s, all)
    BY <2>1, TextExtends
  <2>3. Len(all) \in Nat
    BY <2>1, LenProperties DEF Strings
  <2>4. n # 0 => Len(s) + 1 \in 1..Len(t) /\ t[Len(s) + 1] = Slash
    <3>1. Extends(q, n) /\ q[n + 1] \in Names /\ n + 1 \in 0..Len(q)
      BY <2>1, NameAfter
    <3> DEFINE name == Chars[q[n + 1]]
    <3>2. Len(name) \in Nat
      BY <3>1, NameSpelled
    <3>3. Len(t) = CharsBefore(q, n) + Len(name) /\ (n # 0 => t[Len(s) + 1] = Slash)
      BY <2>1, <3>1 DEF Extends
    <3>4. n # 0 => CharsBefore(q, n) = Len(s) + 1
      BY <2>1 DEF CharsBefore
    <3> HIDE DEF name, t
    <3> QED
      BY <1>4, <3>2, <3>3, <3>4
  <2>5. Begins(t, all)
    <3>1. n + 1 \in Nat /\ n + 1 <= Len(q)
      BY <2>1
    <3> QED
      BY <2>1, <3>1, TextExtends
  <2> HIDE DEF t, all
  <2>6. ASSUME n # 0 PROVE Begins(v, all)
    <3>1. Len(s) + 1 \in 1..Len(t) /\ t[Len(s) + 1] = Slash
      BY <2>4, <2>6
    <3>2. Len(t) <= Len(all) /\ all[Len(s) + 1] = Slash
      BY <2>5, <3>1 DEF Begins
    <3>3. Len(s) + 1 <= Len(all)
      <4>1. Len(t) \in Nat
        <5>1. n + 1 \in 0..Len(q)
          BY <2>1
        <5> QED
          BY <2>1, <5>1, WrittenIsString DEF t
      <4> QED
        BY <1>4, <2>3, <3>1, <3>2, <4>1
    <3>4. ASSUME NEW i \in 1..Len(v) PROVE v[i] = all[i]
      <4>1. i \in 1..Len(s) \/ i = Len(s) + 1
        BY <1>4, <1>7
      <4> QED
        BY <1>7, <2>2, <3>2, <4>1 DEF Begins
    <3> QED
      BY <1>7, <3>3, <3>4 DEF Begins
  <2> QED
    BY <2>2, <2>6 DEF all
<1>9. b # 0 => b \in 1..Len(w) /\ w[b] = Slash
  <2> SUFFICES ASSUME b # 0 PROVE b \in 1..Len(w) /\ w[b] = Slash
    OBVIOUS
  <2>1. n # 0 /\ b = Len(s) + 1
    BY <1>5
  <2>2. Len(v) <= Len(w)
    BY <1>3, <1>7, <1>8, <2>1
  <2>3. b \in 1..Len(w)
    BY <1>3, <1>4, <1>7, <2>1, <2>2
  <2>4. w[b] = G!Text(p)[b]
    BY <1>3, <2>3 DEF Begins
  <2>5. Len(v) = b /\ b \in 1..Len(v) /\ v[b] = Slash
    BY <1>4, <1>7, <2>1
  <2>6. v[b] = G!Text(p)[b]
    BY <1>8, <2>1, <2>5 DEF Begins
  <2> QED
    BY <2>3, <2>4, <2>5, <2>6
<1>10. G!Dir(w) = SubSeq(w, 1, IF b = 0 THEN 0 ELSE b - 1)
  <2> HIDE DEF b
  <2> QED
    BY <1>3, <1>5, <1>6, <1>9, DirIs
<1>11. (IF b = 0 THEN 0 ELSE b - 1) = Len(s)
  <2>1. n = 0 => Len(s) = 0
    <3>1. n = 0 => s = <<>>
      <4>1. p \in Seq(Names)
        BY <1>1
      <4> QED
        BY <4>1, WrittenSteps
    <3> QED
      BY <3>1, EmptySeq
  <2> HIDE DEF b, s
  <2> QED
    BY <1>4, <1>5, <2>1
<1>12. Begins(s, w)
  <2>1. Len(s) <= Len(w)
    BY <1>3, <1>4, <1>8
  <2>2. ASSUME NEW i \in 1..Len(s) PROVE s[i] = w[i]
    <3>1. i \in 1..Len(w)
      BY <1>3, <1>4, <2>1
    <3> QED
      BY <1>3, <1>8, <3>1 DEF Begins
  <2> QED
    BY <2>1, <2>2 DEF Begins
<1>13. SubSeq(w, 1, Len(s)) = s
  BY <1>3, <1>4, <1>12, BeginningOf
<1> QED
  BY <1>10, <1>11, <1>13 DEF w

-----------------------------------------------------------------------------
(* There is a deepest directory above all matches.                         *)
LEMMA DeepestHolds ==
    ASSUME NEW matches, NEW m \in matches,
           \A k \in matches : k.path \in Seq(Names) \ {<<>>}
    PROVE  \E n \in 0..Len(m.path) : Holds(matches, n) /\ ~Holds(matches, n + 1)
<1> DEFINE S == {n \in Nat : Holds(matches, n)}
           path == m.path
<1>1. path \in Seq(Names) /\ Len(path) \in Nat
  BY LenProperties
<1>2. Holds(matches, 0)
  <2>1. ASSUME NEW k \in matches PROVE 0 < Len(k.path) /\ SubSeq(k.path, 1, 0) = <<>>
    <3> DEFINE q == k.path
    <3>1. q \in Seq(Names) /\ q # <<>>
      OBVIOUS
    <3> HIDE DEF q
    <3>2. Len(q) \in Nat /\ Len(q) # 0
      BY <3>1, LenProperties, EmptySeq
    <3>3. SubSeq(q, 1, 0) = <<>>
      BY <3>1, WholePrefix DEF Prefix
    <3> QED
      BY <3>2, <3>3 DEF q
  <2> QED
    BY <2>1 DEF Holds
<1>3. \A n \in S : n <= Len(path)
  <2>1. \A n \in S : n < Len(path) /\ n \in Nat
    BY DEF Holds
  <2> HIDE DEF S, path
  <2> QED
    BY <1>1, <2>1
<1>4. S \in SUBSET Nat /\ S # {}
  BY <1>2
<1>5. PICK n \in S : \A j \in S : j <= n
  <2> HIDE DEF S, path
  <2> QED
    BY <1>1, <1>3, <1>4, GreatestElement
<1>6. n \in Nat /\ Holds(matches, n) /\ n <= Len(path)
  BY <1>3
<1>7. ~Holds(matches, n + 1)
  <2>1. n + 1 \in Nat /\ ~ (n + 1 <= n)
    BY <1>6
  <2> QED
    BY <1>5, <2>1
<1>8. n \in 0..Len(path)
  BY <1>1, <1>6
<1> QED
  BY <1>6, <1>7, <1>8

(* What a glob keeps of the path of a match is what is below the directory *)
(* of all of them.                                                         *)
LEMMA KeptBelow ==
    ASSUME NEW glob, NEW m \in glob.matches,
           \A k \in glob.matches : k.path \in Seq(Names) \ {<<>>},
           glob.exists => /\ glob.pattern \in Seq(Names)
                          /\ \A k \in glob.matches : G!IsPrefix(glob.pattern, k.path)
    PROVE  G!Rel(G!Prefix(glob), m.path) = BelowMatches(glob, m.path)
<1> DEFINE p == m.path
           M == {k.path : k \in glob.matches}
<1>1. p \in Seq(Names) /\ Len(p) \in Nat
  BY LenProperties
<1>2. CASE glob.exists
  <2> DEFINE q == glob.pattern
             n == Len(q)
  <2>1. q \in Seq(Names) /\ G!IsPrefix(q, p) /\ n \in Nat
    BY <1>2, LenProperties
  <2>2. n <= Len(p) /\ SubSeq(p, 1, n) = q
    <3>1. SubSeq(q, 1, n) = q
      BY <2>1, WholePrefix DEF Prefix
    <3> HIDE DEF q, p
    <3> QED
      BY <2>1, <3>1 DEF G!IsPrefix
  <2>3. n \in 0..Len(p)
    BY <1>1, <2>1, <2>2
  <2>4. G!Prefix(glob) = Written(p, n)
    <3>1. G!Prefix(glob) = G!Text(q)
      BY <1>2 DEF G!Prefix
    <3> HIDE DEF p, q, n
    <3> QED
      BY <1>1, <2>2, <2>3, <3>1, TextOfBeginning
  <2>5. BelowMatches(glob, p) = SubSeq(p, n + 1, Len(p))
    BY <1>2 DEF BelowMatches
  <2> HIDE DEF p, n
  <2>6. G!Rel(Written(p, n), p) = SubSeq(p, n + 1, Len(p))
    BY <1>1, <2>3, RelOfBeginning
  <2> QED
    BY <2>4, <2>5, <2>6 DEF p
<1>3. CASE ~glob.exists
  <2> DEFINE Deepest(n) == Holds(glob.matches, n) /\ ~Holds(glob.matches, n + 1)
             depth == CHOOSE n \in 0..Len(p) : Deepest(n)
  <2>1. \E n \in 0..Len(p) : Deepest(n)
    BY DeepestHolds
  <2>2. BelowMatches(glob, p) = SubSeq(p, depth + 1, Len(p))
    BY <1>3 DEF BelowMatches
  <2>3. depth \in 0..Len(p) /\ Deepest(depth)
    <3> HIDE DEF Deepest, p
    <3> QED
      BY <2>1
  <2> HIDE DEF depth
  <2>4. G!Prefix(glob) = G!Dir(G!longestCommonPrefix(M))
    BY <1>3 DEF G!Prefix
  <2>5. M \in SUBSET Seq(Names) /\ p \in M
    OBVIOUS
  <2>6. \A q, r \in M : depth < Len(q) /\ SubSeq(q, 1, depth) = SubSeq(r, 1, depth)
    BY <2>3 DEF Holds
  <2>7. ~ \A q, r \in M : depth + 1 < Len(q) /\ SubSeq(q, 1, depth + 1) = SubSeq(r, 1, depth + 1)
    BY <2>3 DEF Holds
  <2>8. depth \in Nat
    BY <2>3
  <2> HIDE DEF p, M, Deepest
  <2>9. G!Prefix(glob) = Written(p, depth)
    BY <2>4, <2>5, <2>6, <2>7, <2>8, CutAtName
  <2>10. G!Rel(Written(p, depth), p) = SubSeq(p, depth + 1, Len(p))
    BY <1>1, <2>3, RelOfBeginning
  <2> QED
    BY <2>2, <2>9, <2>10 DEF p
<1> QED
  BY <1>2, <1>3

-----------------------------------------------------------------------------
(* A preparation ends behind its list. *)
Ended == pc = "done" => next > Len(contents)

LEMMA EndedAlways == Spec => []Ended
<1>1. Init => Ended
  BY DEF Init, Ended
<1>2. Ended /\ [Next]_vars => Ended'
  <2> SUFFICES ASSUME Ended, [Next]_vars PROVE Ended'
    OBVIOUS
  <2>1. CASE Finish
    BY <2>1 DEF Finish, Ended
  <2>2. CASE UNCHANGED vars
    BY <2>2 DEF vars, Ended
  <2>3. CASE Fail
    BY <2>3 DEF Fail, Ended
  <2>4. CASE (\E tab : Store(tab)) /\ pc = "next"
    BY <2>4 DEF Store, Ended
  <2>5. CASE Skip \/ AddDir \/ AddAsIs \/ InvalidType
    <3>1. Fail \/ ((\E tab : Store(tab)) /\ pc = "next")
      BY <2>5 DEF Skip, AddDir, AddAsIs, InvalidType, Handling
    <3> QED
      BY <2>3, <2>4, <3>1
  <2>6. CASE Glob \/ (\E m \in pending : AddGlobbed(m)) \/ EndGlob
    BY <2>3, <2>6 DEF Glob, AddGlobbed, EndGlob, Ended
  <2>7. CASE BeginTree \/ WalkNode \/ EndTree
    BY <2>3, <2>7 DEF BeginTree, WalkNode, EndTree, Ended
  <2> QED
    BY <2>1, <2>2, <2>5, <2>6, <2>7 DEF Next
<1> QED
  BY <1>1, <1>2, PTL DEF Spec

(* Wherever the matches of a glob lie and however their names begin, each  *)
(* of them is in the result of a preparation that succeeds, at the place   *)
(* its path below the directory of all matches gives it: comparing texts   *)
(* character by character never cuts a name in two and never leaves the    *)
(* destination (internal/glob/glob.go:79-106).                             *)
THEOREM GlobsAlwaysKeepTheirTree == Spec => []GlobsKeepTheirTree
<1>1. IInv /\ MeaningInv /\ Ended => GlobsKeepTheirTree
  <2> SUFFICES ASSUME IInv, MeaningInv, Ended, pc = "done", NEW i \in DOMAIN contents,
                      IsGlob(contents[i]), isRelevantForPackager(contents[i]),
                      ~contents[i].slash,
                      NEW m \in Globs[contents[i].src].matches, ~m.dir
               PROVE  FileKey(CleanAbs(contents[i].dst
                                 \o BelowMatches(Globs[contents[i].src], m.path)))
                        \in DOMAIN table
    BY DEF GlobsKeepTheirTree
  <2> DEFINE c == contents[i]
             glob == Globs[c.src]
             rel == G!Rel(G!Prefix(glob), m.path)
             file == [src |-> m.src, link |-> m.link, base |-> G!Last(m.path), rel |-> rel]
             key == FileKey(CleanAbs(c.dst \o BelowMatches(glob, m.path)))
  <2>1. contents \in Seq(Contents) /\ Len(contents) \in Nat /\ next \in Nat \ {0}
    BY LenProperties DEF IInv
  <2>2. i \in 1..Len(contents) /\ c \in Contents
    BY <2>1, LenProperties
  <2>3. /\ Matches[c.src] = G!Glob(glob)
        /\ \A k \in glob.matches : k.path \in Seq(Names) \ {<<>>}
        /\ glob.exists => /\ glob.pattern \in Seq(Names)
                          /\ \A k \in glob.matches : G!IsPrefix(glob.pattern, k.path)
    BY <2>2, GlobsAssumption
  <2>4. rel = BelowMatches(glob, m.path)
    BY <2>3, KeptBelow
  <2>5. file \in Matches[c.src].files
    <3>1. Matches[c.src].files =
             {[src |-> k.src, link |-> k.link, base |-> G!Last(k.path),
               rel |-> G!Rel(G!Prefix(glob), k.path)] : k \in {j \in glob.matches : ~j.dir}}
      BY <2>3 DEF G!Glob
    <3> QED
      BY <3>1
  <2>6. FileKey(GlobDestination(c, file)) = key
    <3>1. file.rel = rel
      OBVIOUS
    <3> HIDE DEF file, rel
    <3> QED
      BY <2>4, <3>1 DEF GlobDestination
  <2>7. Asks(c, key)
    <3>1. c.type \in FileTypes \cup {""}
      BY DEF IsGlob
    <3>2. Claims(c) = GlobClaims(c, Matches[c.src].files)
      BY <3>1, GlobClaimed
    <3> HIDE DEF c, key, file, glob, rel
    <3>3. Claim(FileKey(GlobDestination(c, file)), Entry(GlobType(c, file), c.owner, file.src))
            \in Claims(c)
      BY <2>5, <3>2 DEF GlobClaims
    <3>4. \A k, e : Claim(k, e).key = k
      BY DEF Claim
    <3> QED
      BY <2>6, <3>3, <3>4 DEF Asks
  <2>8. table = Meaning(Prefix(contents, Len(contents)))
    <3>1. next <= Len(contents) + 1 /\ table = Before
      BY DEF MeaningInv, ListMeans
    <3>2. next > Len(contents)
      BY DEF Ended
    <3> DEFINE n == next
               l == Len(contents)
    <3>3. n \in Nat /\ l \in Nat /\ n <= l + 1 /\ n > l
      BY <2>1, <3>1, <3>2
    <3> HIDE DEF n, l
    <3>4. n - 1 = l
      BY <3>3
    <3> QED
      BY <3>1, <3>4 DEF n, l, Before
  <2>9. Len(contents) \in 0..Len(contents)
    BY <2>1
  <2> HIDE DEF c, key
  <2>10. key \in DOMAIN Meaning(Prefix(contents, Len(contents)))
    BY <2>1, <2>2, <2>7, <2>9, MeaningDomain DEF c
  <2> QED
    BY <2>8, <2>10 DEF key, c
<1> QED
  BY <1>1, EndedAlways, MeaningHolds, PTL
=============================================================================
