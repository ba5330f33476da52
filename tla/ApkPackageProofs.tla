--------------------------- MODULE ApkPackageProofs ---------------------------
(***************************************************************************)
(* The segments of an apk: what bufio holds back is only late, the digests *)
(* are those of the bytes that are written, the installed size is that of  *)
(* the bytes of files, and the segments are read as one tar, for every     *)
(* block and buffer size, every contents and whatever happens to the files *)
(* of the host.                                                            *)
(***************************************************************************)
EXTENDS ApkPackage, SequenceTheorems, FiniteSetTheorems, TLAPS

Loops == INSTANCE TarStreamProofs

-----------------------------------------------------------------------------
(***************************************************************************)
(* Bytes, and which of them are of files.                                  *)
(***************************************************************************)
Names ==
    Versions \cup {Gone, "", "header", "zero", "pkginfo", "sign", ".PKGINFO", ".SIGN", "script"}
        \cup UNION {{list[i].dst : i \in DOMAIN list} : list \in Inputs}

Stream == Seq([of : Names, size : Nat])

(* The positions of the bytes of files. *)
FilePlaces(bytes) == {i \in DOMAIN bytes : bytes[i].of \in Versions}

(* There are finitely many of them. *)
LEMMA PlacesFinite ==
    ASSUME NEW bytes \in Stream
    PROVE  /\ IsFiniteSet(FilePlaces(bytes))
           /\ OfFiles(bytes) = Cardinality(FilePlaces(bytes))
           /\ OfFiles(bytes) \in Nat
           /\ Len(bytes) \in Nat /\ DOMAIN bytes = 1..Len(bytes)
<1>1. Len(bytes) \in Nat /\ DOMAIN bytes = 1..Len(bytes)
  BY LenProperties DEF Stream
<1>2. IsFiniteSet(1..Len(bytes))
  BY <1>1, FS_Interval
<1>3. FilePlaces(bytes) \in SUBSET (1..Len(bytes))
  BY <1>1 DEF FilePlaces
<1>4. IsFiniteSet(FilePlaces(bytes))
  BY <1>2, <1>3, FS_Subset
<1>5. OfFiles(bytes) = Cardinality(FilePlaces(bytes))
  BY DEF OfFiles, FilePlaces
<1> QED
  BY <1>1, <1>4, <1>5, FS_CardinalityType

(* Bytes that are put behind others bring their own to the count: *)
LEMMA FilesOfConcat ==
    ASSUME NEW s \in Stream, NEW t \in Stream
    PROVE  s \o t \in Stream /\ OfFiles(s \o t) = OfFiles(s) + OfFiles(t)
<1> DEFINE st == s \o t
           moved == {i \in DOMAIN st : i > Len(s) /\ st[i].of \in Versions}
           f == [j \in FilePlaces(t) |-> Len(s) + j]
<1>1. /\ st \in Stream /\ Len(st) = Len(s) + Len(t)
      /\ \A i \in 1..(Len(s) + Len(t)) : st[i] = IF i <= Len(s) THEN s[i] ELSE t[i - Len(s)]
  BY ConcatProperties DEF Stream
<1> HIDE DEF st
<1>2. /\ Len(s) \in Nat /\ DOMAIN s = 1..Len(s)
      /\ Len(t) \in Nat /\ DOMAIN t = 1..Len(t)
      /\ DOMAIN st = 1..(Len(s) + Len(t))
      /\ IsFiniteSet(FilePlaces(s)) /\ IsFiniteSet(FilePlaces(t)) /\ IsFiniteSet(FilePlaces(st))
  BY <1>1, PlacesFinite
<1>3. FilePlaces(st) = FilePlaces(s) \cup moved
  <2>1. ASSUME NEW i \in 1..Len(s) PROVE i \in FilePlaces(st) <=> i \in FilePlaces(s)
    BY <1>1, <1>2 DEF FilePlaces
  <2>2. \A i \in DOMAIN st : i \in 1..Len(s) \/ i > Len(s)
    BY <1>2
  <2>3. FilePlaces(st) \subseteq DOMAIN st /\ FilePlaces(s) \subseteq 1..Len(s)
        /\ 1..Len(s) \subseteq DOMAIN st
    BY <1>2 DEF FilePlaces
  <2> QED
    BY <2>1, <2>2, <2>3 DEF FilePlaces
<1>4. FilePlaces(s) \cap moved = {}
  BY <1>2 DEF FilePlaces
<1>5. f \in Bijection(FilePlaces(t), moved)
  <2>1. ASSUME NEW j \in FilePlaces(t) PROVE f[j] \in moved
    <3>1. j \in 1..Len(t) /\ t[j].of \in Versions
      BY <1>2 DEF FilePlaces
    <3>2. Len(s) + j \in 1..(Len(s) + Len(t)) /\ ~ (Len(s) + j <= Len(s)) /\ Len(s) + j > Len(s)
          /\ (Len(s) + j) - Len(s) = j
      BY <1>2, <3>1
    <3>3. st[Len(s) + j] = t[j]
      BY <1>1, <3>2
    <3> QED
      BY <1>2, <3>1, <3>2, <3>3
  <2>2. ASSUME NEW j \in FilePlaces(t), NEW k \in FilePlaces(t), f[j] = f[k] PROVE j = k
    BY <1>2, <2>2 DEF FilePlaces
  <2>3. ASSUME NEW i \in moved PROVE \E j \in FilePlaces(t) : f[j] = i
    <3>1. i - Len(s) \in 1..Len(t) /\ ~ (i <= Len(s)) /\ Len(s) + (i - Len(s)) = i
      BY <1>2
    <3>2. st[i] = t[i - Len(s)]
      BY <1>1, <1>2, <3>1
    <3>3. i - Len(s) \in FilePlaces(t)
      BY <1>2, <3>1, <3>2 DEF FilePlaces
    <3> QED
      BY <3>1, <3>3
  <2> HIDE DEF moved
  <2>4. f \in [FilePlaces(t) -> moved]
    BY <2>1
  <2> HIDE DEF f
  <2> QED
    BY <2>2, <2>3, <2>4 DEF Bijection, Injection, Surjection, IsInjective
<1>6. IsFiniteSet(moved) /\ Cardinality(moved) = Cardinality(FilePlaces(t))
  <2>1. ExistsBijection(FilePlaces(t), moved)
    BY <1>5 DEF ExistsBijection
  <2> QED
    BY <1>2, <2>1, FS_Bijection
<1> HIDE DEF moved, f
<1>7. Cardinality(FilePlaces(st)) = Cardinality(FilePlaces(s)) + Cardinality(FilePlaces(t))
  <2>1. Cardinality(FilePlaces(st)) =
           Cardinality(FilePlaces(s)) + Cardinality(moved) - Cardinality(FilePlaces(s) \cap moved)
    BY <1>2, <1>3, <1>6, FS_Union
  <2>2. Cardinality(FilePlaces(s) \cap moved) = 0
    BY <1>4, FS_EmptySet
  <2>3. Cardinality(FilePlaces(s)) \in Nat /\ Cardinality(FilePlaces(t)) \in Nat
    BY <1>2, FS_CardinalityType
  <2> QED
    BY <1>6, <2>1, <2>2, <2>3
<1> QED
  BY <1>1, <1>7, PlacesFinite DEF st

(* nothing, if they are not of files, and all of them, if they are. *)
LEMMA FilesOfRepeat ==
    ASSUME NEW name \in Names, NEW n \in Nat
    PROVE  /\ Repeat(name, n) \in Stream
           /\ OfFiles(Repeat(name, n)) = IF name \in Versions THEN n ELSE 0
<1> DEFINE r == Repeat(name, n)
<1>1. r \in [1..n -> [of : Names, size : Nat]]
  BY DEF Repeat, Byte
<1>2. r \in Stream /\ DOMAIN r = 1..n
  BY <1>1, SeqDef DEF Stream
<1>3. \A i \in 1..n : r[i].of = name
  BY DEF Repeat, Byte
<1> HIDE DEF r
<1>4. FilePlaces(r) = IF name \in Versions THEN 1..n ELSE {}
  BY <1>2, <1>3 DEF FilePlaces
<1>5. Cardinality(1..n) = n /\ Cardinality({}) = 0
  BY FS_Interval, FS_EmptySet
<1> QED
  BY <1>2, <1>4, <1>5, PlacesFinite DEF r

(* The fill-ups and the two zero blocks are not of files, *)
LEMMA FilesOfZeros ==
    ASSUME NEW n \in Nat PROVE Zeros(n) \in Stream /\ OfFiles(Zeros(n)) = 0
<1>1. Zeros(n) = Repeat("zero", n)
  BY DEF Zeros, Repeat
<1>2. "zero" \in Names /\ "zero" \notin Versions
  BY InputsAssumption DEF Names
<1> QED
  BY <1>1, <1>2, FilesOfRepeat

(* and neither are the headers. *)
LEMMA FilesOfHeader ==
    ASSUME NEW name \in Names, name \notin Versions, NEW bytes \in Nat
    PROVE  Header(name, bytes) \in Stream /\ OfFiles(Header(name, bytes)) = 0
<1> DEFINE first == <<Byte(name, bytes)>>
<1>1. first \in Stream /\ DOMAIN first = 1..1 /\ first[1].of = name
  BY DEF Byte, Stream
<1>2. FilePlaces(first) = {}
  BY <1>1 DEF FilePlaces
<1>3. OfFiles(first) = 0
  BY <1>1, <1>2, PlacesFinite, FS_EmptySet
<1>4. "header" \in Names /\ "header" \notin Versions
  BY InputsAssumption DEF Names
<1>4a. Block - 1 \in Nat
  BY BlockAssumption
<1>5. Repeat("header", Block - 1) \in Stream /\ OfFiles(Repeat("header", Block - 1)) = 0
  BY <1>4, <1>4a, FilesOfRepeat
<1> HIDE DEF first
<1>6. OfFiles(first \o Repeat("header", Block - 1)) = 0 + 0
      /\ first \o Repeat("header", Block - 1) \in Stream
  BY <1>1, <1>3, <1>5, FilesOfConcat
<1> QED
  BY <1>6 DEF Header, first
-----------------------------------------------------------------------------
(***************************************************************************)
(* The stack of writers of a segment.                                      *)
(***************************************************************************)
(* A segment whose digest is of what was written. *)
IsSegment(s) ==
    /\ s = [out |-> s.out, digested |-> s.digested, buffer |-> s.buffer,
            owed |-> s.owed, pad |-> s.pad]
    /\ s.out \in Stream
    /\ s.digested = s.out
    /\ s.buffer \in Stream
    /\ Len(s.buffer) <= BufSize
    /\ s.owed \in Nat
    /\ s.pad \in 0..(Block - 1)

(* What was written to it, whether it is held back or not. *)
Taken(s) == s.out \o s.buffer

(* r is s, after bytes were written to it. *)
Takes(s, bytes, r) ==
    /\ IsSegment(r)
    /\ Taken(r) = Taken(s) \o bytes
    /\ r.owed = s.owed
    /\ r.pad = s.pad

(* Sequences of bytes can be taken apart and put together again. *)
LEMMA Splitting ==
    ASSUME NEW bytes \in Stream, NEW n \in Nat, n <= Len(bytes)
    PROVE  /\ SubSeq(bytes, 1, n) \in Stream
           /\ Len(SubSeq(bytes, 1, n)) = n
           /\ SubSeq(bytes, n + 1, Len(bytes)) \in Stream
           /\ SubSeq(bytes, 1, n) \o SubSeq(bytes, n + 1, Len(bytes)) = bytes
<1> DEFINE N == Len(bytes)
           S == [of : Names, size : Nat]
           front == SubSeq(bytes, 1, n)
           back == SubSeq(bytes, n + 1, N)
<1>1. N \in Nat /\ DOMAIN bytes = 1..N /\ \A i \in 1..N : bytes[i] \in S
  BY LenProperties DEF Stream
<1> HIDE DEF S
<1>2. front \in Seq(S) /\ Len(front) = n /\ \A i \in 1..n : front[i] = bytes[i]
  <2>1. 1 \in Int /\ n \in Int /\ \A i \in 1..n : bytes[i] \in S
    BY <1>1
  <2>2. /\ front \in Seq(S)
        /\ Len(front) = IF 1 <= n THEN n - 1 + 1 ELSE 0
        /\ \A i \in 1..(n - 1 + 1) : front[i] = bytes[1 + i - 1]
    BY <2>1, SubSeqProperties
  <2> HIDE DEF front
  <2>3. n - 1 + 1 = n /\ \A i \in 1..n : 1 + i - 1 = i
    OBVIOUS
  <2>4. Len(front) = n
    BY <2>2
  <2> QED
    BY <2>2, <2>3, <2>4
<1>3. back \in Seq(S) /\ Len(back) = N - n /\ \A i \in 1..(N - n) : back[i] = bytes[n + i]
  <2>1. n + 1 \in Int /\ N \in Int /\ \A i \in (n + 1)..N : bytes[i] \in S
    BY <1>1
  <2>2. /\ back \in Seq(S)
        /\ Len(back) = IF n + 1 <= N THEN N - (n + 1) + 1 ELSE 0
        /\ \A i \in 1..(N - (n + 1) + 1) : back[i] = bytes[n + 1 + i - 1]
    BY <2>1, SubSeqProperties
  <2> HIDE DEF back, N
  <2>3. Len(back) = N - n
    <3>1. N \in Nat /\ n \in Nat /\ n <= N
      BY <1>1 DEF N
    <3>2. (IF n + 1 <= N THEN N - (n + 1) + 1 ELSE 0) = N - n
      BY <3>1
    <3> QED
      BY <2>2, <3>2
  <2>4. ASSUME NEW i \in 1..(N - n) PROVE back[i] = bytes[n + i]
    <3>1. i \in 1..(N - (n + 1) + 1) /\ n + 1 + i - 1 = n + i
      BY <1>1
    <3> QED
      BY <2>2, <3>1
  <2> QED
    BY <2>2, <2>3, <2>4
<1> HIDE DEF front, back
<1>4. /\ front \o back \in Seq(S)
      /\ Len(front \o back) = Len(front) + Len(back)
      /\ \A i \in 1..(Len(front) + Len(back)) :
            (front \o back)[i] = IF i <= Len(front) THEN front[i] ELSE back[i - Len(front)]
  BY <1>2, <1>3, ConcatProperties
<1>5. Len(front) + Len(back) = N
  BY <1>1, <1>2, <1>3
<1>6. ASSUME NEW i \in 1..N PROVE (front \o back)[i] = bytes[i]
  <2>1. CASE i <= n
    <3>1. i \in 1..n
      BY <2>1
    <3> QED
      BY <1>2, <1>4, <1>5, <2>1, <3>1
  <2>2. CASE ~ (i <= n)
    <3>1. i - n \in 1..(N - n) /\ n + (i - n) = i
      BY <1>1, <2>2
    <3> QED
      BY <1>2, <1>3, <1>4, <1>5, <2>2, <3>1
  <2> QED
    BY <2>1, <2>2
<1>7. front \o back = bytes
  <2>1. bytes \in Seq(S)
    BY DEF Stream, S
  <2> QED
    BY <1>4, <1>5, <1>6, <2>1, SeqEqual
<1> QED
  BY <1>2, <1>3, <1>7 DEF front, back, Stream, S

(* Concatenation, on bytes. *)
LEMMA Concats ==
    ASSUME NEW s \in Stream, NEW t \in Stream
    PROVE  /\ s \o t \in Stream /\ Len(s \o t) = Len(s) + Len(t)
           /\ s \o <<>> = s /\ <<>> \o s = s
           /\ <<>> \in Stream /\ Len(<<>>) = 0
  BY ConcatProperties, ConcatEmptySeq, EmptySeq DEF Stream

(* It can be bracketed either way. *)
LEMMA Associates ==
    ASSUME NEW s \in Stream, NEW t \in Stream, NEW u \in Stream
    PROVE  (s \o t) \o u = s \o (t \o u)
<1> DEFINE T == [of : Names, size : Nat]
<1>1. s \in Seq(T) /\ t \in Seq(T) /\ u \in Seq(T)
  BY DEF Stream
<1> HIDE DEF T
<1> QED
  BY <1>1, ConcatAssociative

(* What goes past the buffer is written and digested. *)
LEMMA PassKeeps ==
    ASSUME NEW s, IsSegment(s), NEW bytes \in Stream
    PROVE  /\ IsSegment(Pass(s, bytes))
           /\ Pass(s, bytes).out = s.out \o bytes
           /\ Pass(s, bytes).buffer = s.buffer
           /\ Pass(s, bytes).owed = s.owed
           /\ Pass(s, bytes).pad = s.pad
<1> DEFINE r == Pass(s, bytes)
<1>1. /\ s = [out |-> s.out, digested |-> s.digested, buffer |-> s.buffer,
              owed |-> s.owed, pad |-> s.pad]
      /\ s.out \in Stream /\ s.digested = s.out
  BY DEF IsSegment
<1>2. r = [out |-> s.out \o bytes, digested |-> s.digested \o bytes, buffer |-> s.buffer,
           owed |-> s.owed, pad |-> s.pad]
  <2> DEFINE o == s.out \o bytes
             d == s.digested \o bytes
  <2>1. r = [s EXCEPT !.out = o, !.digested = d]
    BY DEF Pass
  <2> HIDE DEF r, o, d
  <2>2. r = [out |-> o, digested |-> d, buffer |-> s.buffer, owed |-> s.owed, pad |-> s.pad]
    BY <1>1, <2>1
  <2> QED
    BY <2>2 DEF o, d
<1> HIDE DEF r
<1>3. s.out \o bytes \in Stream
  BY <1>1, Concats
<1> QED
  BY <1>1, <1>2, <1>3 DEF IsSegment, r

(* A flush changes when something is written and not what. *)
LEMMA FlushedKeeps ==
    ASSUME NEW s, IsSegment(s)
    PROVE  Takes(s, <<>>, Flushed(s)) /\ Flushed(s).buffer = <<>> /\ Flushed(s).out = Taken(s)
<1> DEFINE p == Pass(s, s.buffer)
           r == Flushed(s)
<1>1. s.buffer \in Stream /\ s.out \in Stream /\ BufSize \in Nat
  BY BlockAssumption DEF IsSegment
<1>2. /\ IsSegment(p) /\ p.out = s.out \o s.buffer
      /\ p.owed = s.owed /\ p.pad = s.pad
  BY <1>1, PassKeeps
<1>3. r = [p EXCEPT !.buffer = <<>>]
  BY DEF Flushed
<1> HIDE DEF p, r
<1>4. r = [out |-> p.out, digested |-> p.digested, buffer |-> <<>>, owed |-> p.owed, pad |-> p.pad]
  BY <1>2, <1>3 DEF IsSegment
<1>5. <<>> \in Stream /\ Len(<<>>) <= BufSize /\ Len(<<>>) = 0
  BY <1>1, Concats
<1>6. IsSegment(r)
  BY <1>2, <1>4, <1>5 DEF IsSegment
<1>7. Taken(r) = Taken(s) \o <<>>
  <2>1. s.out \o s.buffer \in Stream
    BY <1>1, Concats
  <2> QED
    BY <1>2, <1>4, <2>1 DEF Taken
<1>8. Takes(s, <<>>, r)
  BY <1>2, <1>4, <1>6, <1>7 DEF Takes
<1>9. r.buffer = <<>> /\ r.out = Taken(s)
  BY <1>2, <1>4 DEF Taken
<1> QED
  BY <1>8, <1>9 DEF r
(* The fill-up to the next block boundary is shorter than a block. *)
LEMMA RoundingUp ==
    ASSUME NEW n \in Nat
    PROVE  RoundedUp(n) - n \in 0..(Block - 1) /\ RoundedUp(n) - n \in Nat
<1> DEFINE a == n + Block - 1
           q == a \div Block
<1>1. Block \in Nat \ {0} /\ a \in Nat
  BY BlockAssumption
<1>2. q \in Nat /\ q * Block <= a /\ a < q * Block + Block
  <2> HIDE DEF a
  <2>1. Block \in Nat /\ Block > 0
    BY <1>1
  <2>2. (a \div Block) * Block <= a
    BY <1>1, <2>1, SMTT(20)
  <2>3. a < (a \div Block) * Block + Block
    BY <1>1, <2>1, SMTT(20)
  <2>4. a \div Block \in Nat
    BY <1>1, <2>1
  <2> QED
    BY <2>2, <2>3, <2>4
<1>3. q * Block \in Nat
  BY <1>1, <1>2
<1>4. RoundedUp(n) = q * Block
  BY DEF RoundedUp
<1> DEFINE m == q * Block
<1> HIDE DEF m
<1> QED
  BY <1>1, <1>2, <1>3, <1>4 DEF m

(* bufio may split what is written to it or write it past the buffer: none *)
(* of it is lost, and none of it is in another order.                      *)
LEMMA BufferedKeeps ==
    ASSUME NEW s, IsSegment(s), NEW bytes \in Stream
    PROVE  Takes(s, bytes, Buffered(s, bytes))
<1> DEFINE free  == BufSize - Len(s.buffer)
           first == SubSeq(bytes, 1, free)
           rest  == SubSeq(bytes, free + 1, Len(bytes))
           added == [s EXCEPT !.buffer = @ \o first]
           full  == Flushed(added)
<1>1. /\ s = [out |-> s.out, digested |-> s.digested, buffer |-> s.buffer,
              owed |-> s.owed, pad |-> s.pad]
      /\ s.out \in Stream /\ s.buffer \in Stream /\ s.digested = s.out
      /\ Len(s.buffer) <= BufSize /\ Len(s.buffer) \in Nat /\ BufSize \in Nat
      /\ s.owed \in Nat /\ s.pad \in 0..(Block - 1)
  BY PlacesFinite, BlockAssumption DEF IsSegment
<1>2. free \in Nat /\ Len(bytes) \in Nat
  BY <1>1, PlacesFinite
<1>3. Buffered(s, bytes) =
          IF Len(bytes) <= free THEN [s EXCEPT !.buffer = @ \o bytes]
          ELSE IF s.buffer = <<>> THEN Pass(s, bytes)
          ELSE IF Len(rest) <= BufSize THEN [full EXCEPT !.buffer = rest]
          ELSE Pass(full, rest)
  BY DEF Buffered
<1> HIDE DEF full, rest
<1>4. CASE Len(bytes) <= free
  <2> DEFINE b == s.buffer \o bytes
             r == [s EXCEPT !.buffer = @ \o bytes]
  <2>1a. b \in Stream /\ Len(b) = Len(s.buffer) + Len(bytes)
    BY <1>1, Concats
  <2>1b. s.out \o b = (s.out \o s.buffer) \o bytes
    BY <1>1, Associates
  <2>1. b \in Stream /\ Len(b) = Len(s.buffer) + Len(bytes)
        /\ s.out \o b = (s.out \o s.buffer) \o bytes
    BY <2>1a, <2>1b
  <2>2. Len(b) <= BufSize
    BY <1>1, <1>2, <1>4, <2>1
  <2>3. r = [s EXCEPT !.buffer = b]
    OBVIOUS
  <2> HIDE DEF b, r, free
  <2>4. r = [out |-> s.out, digested |-> s.digested, buffer |-> b, owed |-> s.owed, pad |-> s.pad]
    BY <1>1, <2>3
  <2>5. IsSegment(r)
    BY <1>1, <2>1, <2>2, <2>4 DEF IsSegment
  <2>6. Taken(r) = Taken(s) \o bytes
    BY <2>1, <2>4 DEF Taken
  <2>7. Takes(s, bytes, r)
    BY <2>4, <2>5, <2>6 DEF Takes
  <2> QED
    BY <1>3, <1>4, <2>7 DEF r
<1>5. CASE ~ (Len(bytes) <= free) /\ s.buffer = <<>>
  <2> DEFINE r == Pass(s, bytes)
  <2>1. IsSegment(r) /\ r.out = s.out \o bytes /\ r.buffer = <<>> /\ r.owed = s.owed /\ r.pad = s.pad
    BY <1>5, PassKeeps
  <2> HIDE DEF r
  <2>2. s.out \o bytes \in Stream /\ s.out \o <<>> = s.out
    BY <1>1, Concats
  <2>3. (s.out \o bytes) \o <<>> = s.out \o bytes
    BY <2>2, Concats
  <2>4. Taken(r) = Taken(s) \o bytes
    BY <1>5, <2>1, <2>2, <2>3 DEF Taken
  <2>5. Takes(s, bytes, r)
    BY <2>1, <2>4 DEF Takes
  <2> HIDE DEF free
  <2> QED
    BY <1>3, <1>5, <2>5 DEF r
<1>6. CASE ~ (Len(bytes) <= free) /\ s.buffer # <<>>
  <2>0. free <= Len(bytes)
    <3> HIDE DEF free
    <3> QED
      BY <1>2, <1>6
  <2>1. /\ first \in Stream /\ Len(first) = free
        /\ rest \in Stream /\ first \o rest = bytes
    <3> HIDE DEF free
    <3> QED
      BY <1>2, <2>0, Splitting DEF rest
  <2> HIDE DEF first
  <2> DEFINE b == s.buffer \o first
  <2>2a. b \in Stream /\ Len(b) = Len(s.buffer) + Len(first)
    BY <1>1, <2>1, Concats
  <2>2b. s.out \o b = (s.out \o s.buffer) \o first
    <3>1. s.out \in Stream /\ s.buffer \in Stream /\ first \in Stream
      BY <1>1, <2>1
    <3>2. (s.out \o s.buffer) \o first = s.out \o (s.buffer \o first)
      BY <3>1, Associates, ZenonT(60)
    <3> QED
      BY <3>2
  <2>2c. s.out \o b \in Stream /\ s.out \o s.buffer \in Stream
    BY <1>1, <2>2a, Concats
  <2>2. b \in Stream /\ Len(b) = Len(s.buffer) + Len(first)
        /\ s.out \o b = (s.out \o s.buffer) \o first
        /\ s.out \o b \in Stream /\ s.out \o s.buffer \in Stream
    BY <2>2a, <2>2b, <2>2c
  <2>3. Len(b) <= BufSize
    BY <1>1, <1>2, <2>1, <2>2
  <2>4. added = [s EXCEPT !.buffer = b]
    OBVIOUS
  <2> HIDE DEF b, added, free
  <2>5. added = [out |-> s.out, digested |-> s.digested, buffer |-> b,
                 owed |-> s.owed, pad |-> s.pad]
    BY <1>1, <2>4
  <2>6. IsSegment(added)
    BY <1>1, <2>2, <2>3, <2>5 DEF IsSegment
  <2>7. /\ Takes(added, <<>>, full) /\ full.buffer = <<>> /\ full.out = Taken(added)
    BY <2>6, FlushedKeeps DEF full
  <2>8. /\ IsSegment(full) /\ full.buffer = <<>> /\ full.out = s.out \o b
        /\ full.owed = s.owed /\ full.pad = s.pad
    BY <2>5, <2>7 DEF Takes, Taken
  <2>9. (s.out \o b) \o rest = Taken(s) \o bytes
    <3>1. ((s.out \o s.buffer) \o first) \o rest = (s.out \o s.buffer) \o (first \o rest)
      BY <2>1, <2>2, Associates, ZenonT(60)
    <3> QED
      BY <2>1, <2>2, <3>1 DEF Taken
  <2>10. CASE Len(rest) <= BufSize
    <3> DEFINE r == [full EXCEPT !.buffer = rest]
    <3>0. full = [out |-> full.out, digested |-> full.digested, buffer |-> full.buffer,
                  owed |-> full.owed, pad |-> full.pad]
      BY <2>8 DEF IsSegment
    <3>1. r = [out |-> full.out, digested |-> full.digested, buffer |-> rest,
               owed |-> full.owed, pad |-> full.pad]
      BY <3>0
    <3> HIDE DEF r
    <3>2. IsSegment(r)
      BY <2>1, <2>8, <2>10, <3>1 DEF IsSegment
    <3>3. Taken(r) = Taken(s) \o bytes
      BY <2>8, <2>9, <3>1 DEF Taken
    <3>4. Takes(s, bytes, r)
      BY <2>8, <3>1, <3>2, <3>3 DEF Takes
    <3> QED
      BY <1>3, <1>6, <2>10, <3>4 DEF r
  <2>11. CASE ~ (Len(rest) <= BufSize)
    <3> DEFINE r == Pass(full, rest)
    <3>1. /\ IsSegment(r) /\ r.out = full.out \o rest /\ r.buffer = <<>>
          /\ r.owed = full.owed /\ r.pad = full.pad
      BY <2>1, <2>8, PassKeeps
    <3> HIDE DEF r
    <3>2. (s.out \o b) \o rest \in Stream
      BY <2>1, <2>2, Concats
    <3>3. ((s.out \o b) \o rest) \o <<>> = (s.out \o b) \o rest
      BY <3>2, Concats
    <3>4. Taken(r) = Taken(s) \o bytes
      BY <2>8, <2>9, <3>1, <3>3 DEF Taken
    <3>5. Takes(s, bytes, r)
      BY <2>8, <3>1, <3>4 DEF Takes
    <3> QED
      BY <1>3, <1>6, <2>11, <3>5 DEF r
  <2> QED
    BY <2>10, <2>11
<1> QED
  BY <1>4, <1>5, <1>6
(* r is s, and has taken n more bytes of files. *)
Grows(s, r, n) ==
    /\ IsSegment(r)
    /\ OfFiles(Taken(r)) = OfFiles(Taken(s)) + n
    /\ r.owed = s.owed

(* What is held back counts like what is written. *)
LEMMA TakenCounts ==
    ASSUME NEW s, IsSegment(s)
    PROVE  /\ Taken(s) \in Stream /\ OfFiles(Taken(s)) \in Nat
           /\ s.out \in Stream /\ s.digested = s.out
           /\ Len(s.out) \in Nat /\ s.owed \in Nat /\ s.pad \in Nat
<1>1. s.out \in Stream /\ s.buffer \in Stream /\ s.digested = s.out /\ s.owed \in Nat
  BY DEF IsSegment
<1>2. s.pad \in Nat
  BY BlockAssumption DEF IsSegment
<1>3. Taken(s) \in Stream
  BY <1>1, Concats DEF Taken
<1> QED
  BY <1>1, <1>2, <1>3, PlacesFinite

(* A write counts what it writes. *)
LEMMA BufferedGrows ==
    ASSUME NEW s, IsSegment(s), NEW bytes \in Stream
    PROVE  Grows(s, Buffered(s, bytes), OfFiles(bytes)) /\ Buffered(s, bytes).pad = s.pad
<1> DEFINE r == Buffered(s, bytes)
<1>1. Takes(s, bytes, r)
  BY BufferedKeeps
<1> HIDE DEF r
<1>2. /\ IsSegment(r) /\ Taken(r) = Taken(s) \o bytes
      /\ r.owed = s.owed /\ r.pad = s.pad
  BY <1>1 DEF Takes
<1>3. OfFiles(Taken(r)) = OfFiles(Taken(s)) + OfFiles(bytes)
  BY <1>2, TakenCounts, FilesOfConcat
<1>4. Grows(s, r, OfFiles(bytes)) /\ r.pad = s.pad
  BY <1>2, <1>3 DEF Grows
<1> QED
  BY <1>4 DEF r

(* A block of zeros counts nothing, *)
LEMMA ZerosGrow ==
    ASSUME NEW s, IsSegment(s), NEW n \in Nat
    PROVE  Grows(s, Buffered(s, Zeros(n)), 0)
  BY BufferedGrows, FilesOfZeros

(* two writes after each other count both, *)
LEMMA GrowsTwice ==
    ASSUME NEW s, NEW r, NEW q, NEW m \in Nat, NEW n \in Nat,
           IsSegment(s), Grows(s, r, m), Grows(r, q, n)
    PROVE  Grows(s, q, m + n)
<1>1. OfFiles(Taken(s)) \in Nat
  BY TakenCounts
<1>2. OfFiles(Taken(s)) + m + n = OfFiles(Taken(s)) + (m + n)
  BY <1>1
<1> QED
  BY <1>2 DEF Grows

(* and the fill-up of a block is zeros. *)
LEMMA PaddedGrows ==
    ASSUME NEW s, IsSegment(s) PROVE Grows(s, Padded(s), 0)
<1> DEFINE b == Buffered(s, Zeros(s.pad))
           r == Padded(s)
<1>1. Grows(s, b, 0)
  BY TakenCounts, ZerosGrow
<1>2. r = [b EXCEPT !.pad = 0]
  BY DEF Padded
<1> HIDE DEF b, r
<1>3. /\ b = [out |-> b.out, digested |-> b.digested, buffer |-> b.buffer,
              owed |-> b.owed, pad |-> b.pad]
      /\ IsSegment(b)
  BY <1>1 DEF Grows, IsSegment
<1>4. r = [out |-> b.out, digested |-> b.digested, buffer |-> b.buffer,
           owed |-> b.owed, pad |-> 0]
  BY <1>2, <1>3
<1>5. 0 \in 0..(Block - 1)
  BY BlockAssumption
<1>6. IsSegment(r)
  BY <1>3, <1>4, <1>5 DEF IsSegment
<1>7. Taken(r) = Taken(b)
  BY <1>4 DEF Taken
<1>8. Grows(s, r, 0)
  BY <1>1, <1>4, <1>6, <1>7 DEF Grows
<1> QED
  BY <1>8 DEF r

(* r is s with a member that has n bytes of files and lacks owed bytes.    *)
HasJoined(s, r, n, owed) ==
    /\ IsSegment(r)
    /\ OfFiles(Taken(r)) = OfFiles(Taken(s)) + n
    /\ r.owed = owed

(* A member counts the bytes of its body, if that is of a file, and leaves *)
(* what its header announced too much to be made up for.                   *)
LEMMA MemberGrows ==
    ASSUME NEW s, IsSegment(s), NEW name \in Names, name \notin Versions, NEW announced \in Nat,
           NEW of \in Names, NEW length \in Nat, length <= announced
    PROVE  HasJoined(s, WithMember(s, name, announced, of, length),
                     IF of \in Versions THEN length ELSE 0, announced - length)
<1> DEFINE p == Padded(s)
           h == Buffered(p, Header(name, announced))
           b == Buffered(h, Repeat(of, length))
           n == IF of \in Versions THEN length ELSE 0
           fill == RoundedUp(announced) - announced
           r == WithMember(s, name, announced, of, length)
<1>1. Grows(s, p, 0)
  BY PaddedGrows
<1>2. Grows(p, h, 0)
  <2> HIDE DEF p
  <2>1. IsSegment(p) /\ Header(name, announced) \in Stream /\ OfFiles(Header(name, announced)) = 0
    BY <1>1, FilesOfHeader DEF Grows
  <2> QED
    BY <2>1, BufferedGrows
<1>3. Grows(h, b, n)
  <2> HIDE DEF h
  <2>1. IsSegment(h) /\ Repeat(of, length) \in Stream /\ OfFiles(Repeat(of, length)) = n
    BY <1>2, FilesOfRepeat DEF Grows
  <2> HIDE DEF n
  <2> QED
    BY <2>1, BufferedGrows
<1>4. r = [b EXCEPT !.owed = announced - length, !.pad = fill]
  BY DEF WithMember
<1>5. fill \in 0..(Block - 1) /\ announced - length \in Nat /\ n \in Nat
  BY RoundingUp
<1> HIDE DEF p, h, b, n, fill, r
<1>6. Grows(s, b, n)
  <2>1. 0 \in Nat /\ 0 + n = n
    BY <1>5
  <2>2. Grows(s, h, 0)
    <3>1. Grows(s, h, 0 + 0)
      BY <1>1, <1>2, <2>1, GrowsTwice
    <3> QED
      BY <3>1
  <2>3. Grows(s, b, 0 + n)
    BY <1>3, <1>5, <2>1, <2>2, GrowsTwice
  <2> QED
    BY <2>1, <2>3
<1>7. /\ b = [out |-> b.out, digested |-> b.digested, buffer |-> b.buffer,
              owed |-> b.owed, pad |-> b.pad]
      /\ IsSegment(b)
  BY <1>6 DEF Grows, IsSegment
<1>8. r = [out |-> b.out, digested |-> b.digested, buffer |-> b.buffer,
           owed |-> announced - length, pad |-> fill]
  BY <1>4, <1>7
<1>9. IsSegment(r)
  BY <1>5, <1>7, <1>8 DEF IsSegment
<1>10. Taken(r) = Taken(b)
  BY <1>8 DEF Taken
<1>11. OfFiles(Taken(r)) = OfFiles(Taken(s)) + n
  BY <1>6, <1>10 DEF Grows
<1>12. r.owed = announced - length
  BY <1>8
<1>13. HasJoined(s, r, n, announced - length)
  BY <1>9, <1>11, <1>12 DEF HasJoined
<1> QED
  BY <1>13 DEF r, n

(* The end of a tar is zeros too, *)
LEMMA ClosedGrows ==
    ASSUME NEW s, IsSegment(s) PROVE Grows(s, TarClosed(s), 0)
<1> DEFINE p == Padded(s)
           h == Buffered(p, Zeros(Block))
           c == Buffered(h, Zeros(Block))
<1>0. Block \in Nat /\ 0 \in Nat /\ 0 + 0 = 0
  BY BlockAssumption
<1>1. Grows(s, p, 0)
  BY PaddedGrows
<1>2. Grows(p, h, 0)
  <2> HIDE DEF p
  <2> QED
    BY <1>0, <1>1, ZerosGrow DEF Grows
<1>3. Grows(h, c, 0)
  <2> HIDE DEF h
  <2> QED
    BY <1>0, <1>2, ZerosGrow DEF Grows
<1>4. TarClosed(s) = c
  BY DEF TarClosed
<1> HIDE DEF p, h, c
<1>5. Grows(s, h, 0 + 0)
  BY <1>0, <1>1, <1>2, GrowsTwice
<1>6. Grows(s, h, 0)
  BY <1>0, <1>5
<1>7. Grows(s, c, 0 + 0)
  BY <1>0, <1>3, <1>6, GrowsTwice
<1> QED
  BY <1>0, <1>4, <1>7

(* and so is what aligns it, which is digested like the rest. *)
LEMMA AlignedKeeps ==
    ASSUME NEW s, IsSegment(s)
    PROVE  IsSegment(Aligned(s)) /\ OfFiles(Aligned(s).out) = OfFiles(s.out)
<1> DEFINE n == RoundedUp(Len(s.out)) - Len(s.out)
           z == Zeros(n)
           r == Aligned(s)
<1>1. s.out \in Stream /\ Len(s.out) \in Nat /\ OfFiles(s.out) \in Nat
  BY TakenCounts, PlacesFinite
<1>2. n \in Nat
  BY <1>1, RoundingUp
<1> HIDE DEF n
<1>3. z \in Stream /\ OfFiles(z) = 0
  BY <1>2, FilesOfZeros
<1>4. r = Pass(s, z)
  BY DEF Aligned, n
<1> HIDE DEF z, r
<1>5. IsSegment(r) /\ r.out = s.out \o z
  BY <1>3, <1>4, PassKeeps
<1>6. OfFiles(r.out) = OfFiles(s.out) + 0
  BY <1>1, <1>3, <1>5, FilesOfConcat
<1> QED
  BY <1>1, <1>5, <1>6 DEF r

(* The end of a segment keeps its digest, and a full one writes all it     *)
(* has taken.                                                              *)
LEMMA FinishedKeeps ==
    ASSUME NEW s, IsSegment(s)
    PROVE  /\ IsSegment(Finished(s, "cut"))
           /\ IsSegment(Finished(s, "full"))
           /\ OfFiles(Finished(s, "full").out) = OfFiles(Taken(s))
<1> DEFINE f == Flushed(s)
           closed == TarClosed(f)
           last == Flushed(closed)
<1>1. IsSegment(f) /\ Taken(f) = Taken(s)
  <2>1. Takes(s, <<>>, Flushed(s))
    BY FlushedKeeps
  <2>2. Taken(s) \o <<>> = Taken(s)
    BY TakenCounts, Concats
  <2> QED
    BY <2>1, <2>2 DEF Takes
<1> HIDE DEF f
<1>2. Grows(f, closed, 0)
  BY <1>1, ClosedGrows
<1> HIDE DEF closed
<1>3. IsSegment(closed) /\ OfFiles(Taken(closed)) = OfFiles(Taken(s))
  <2>1. OfFiles(Taken(s)) \in Nat
    BY TakenCounts
  <2> QED
    BY <1>1, <1>2, <2>1 DEF Grows
<1>4. Takes(closed, <<>>, last) /\ last.out = Taken(closed)
  BY <1>3, FlushedKeeps
<1>5. Finished(s, "cut") = Aligned(closed) /\ Finished(s, "full") = Aligned(last)
  BY DEF Finished, closed, f
<1> HIDE DEF last
<1>6. IsSegment(last)
  BY <1>4 DEF Takes
<1>7. IsSegment(Aligned(closed))
  BY <1>3, AlignedKeeps
<1>8. IsSegment(Aligned(last)) /\ OfFiles(Aligned(last).out) = OfFiles(last.out)
  BY <1>6, AlignedKeeps
<1> QED
  BY <1>3, <1>4, <1>5, <1>7, <1>8
-----------------------------------------------------------------------------
(***************************************************************************)
(* The control segment, script by script.                                  *)
(***************************************************************************)
(* f makes it up to the Nth script. *)
Controls(s, scripts, N, f) ==
    f = [n \in 0..N |-> IF n = 0 THEN WithMember(s, ".PKGINFO", 1, "pkginfo", 1)
                        ELSE WithScript(f[n - 1], scripts[n])]

(* The loop over the scripts comes to its end: *)
LEMMA ControlsExist ==
    ASSUME NEW s, NEW scripts, NEW N \in Nat
    PROVE  \E f : Controls(s, scripts, N, f)
<1> DEFINE Holds == {k \in Nat : \E f : Controls(s, scripts, k, f)}
           first == WithMember(s, ".PKGINFO", 1, "pkginfo", 1)
<1>1. 0 \in Holds
  <2>1. Controls(s, scripts, 0, [n \in 0..0 |-> first])
    BY DEF Controls
  <2> QED
    BY <2>1
<1>2. ASSUME NEW k \in Holds PROVE k + 1 \in Holds
  <2>1. PICK f : Controls(s, scripts, k, f)
    OBVIOUS
  <2> DEFINE g == [n \in 0..(k + 1) |->
                      IF n = k + 1 THEN WithScript(f[k], scripts[n]) ELSE f[n]]
  <2> HIDE DEF first
  <2>2. \A n \in 0..k : f[n] = IF n = 0 THEN first ELSE WithScript(f[n - 1], scripts[n])
    BY <2>1 DEF Controls, first
  <2>3. ASSUME NEW n \in 0..(k + 1)
        PROVE  g[n] = IF n = 0 THEN first ELSE WithScript(g[n - 1], scripts[n])
    <3>1. CASE n = k + 1
      <4>1. n # 0 /\ n - 1 = k /\ g[n - 1] = f[k]
        BY <3>1
      <4> QED
        BY <3>1, <4>1
    <3>2. CASE n \in 0..k
      <4>1. n # k + 1 /\ g[n] = f[n] /\ (n # 0 => g[n - 1] = f[n - 1])
        BY <3>2
      <4> QED
        BY <2>2, <3>2, <4>1
    <3> QED
      BY <3>1, <3>2
  <2>4. Controls(s, scripts, k + 1, g)
    BY <2>3 DEF Controls, first
  <2> HIDE DEF g
  <2> QED
    BY <2>4
<1>3. Holds \subseteq Nat
  OBVIOUS
<1> HIDE DEF Holds
<1>4. Holds = Nat
  BY <1>1, <1>2, <1>3, Loops!Counting
<1> QED
  BY <1>4 DEF Holds

(* what it makes is what the recursive definition says, *)
LEMMA ControlDefined ==
    ASSUME NEW s, NEW scripts, Len(scripts) \in Nat
    PROVE  Controls(s, scripts, Len(scripts), ControlUpTo(s, scripts))
<1>1. \E f : Controls(s, scripts, Len(scripts), f)
  BY ControlsExist
<1> QED
  BY <1>1, Zenon DEF Controls, ControlUpTo

(* and if the scripts are there, a segment.  Their bytes are those of the  *)
(* files at this moment, and there are as many as the header announces.    *)
LEMMA ControlKeeps ==
    ASSUME NEW s, IsSegment(s), NEW scripts \in Seq(Sources),
           host \in [Sources -> Versions \cup {Gone}],
           \A i \in DOMAIN scripts : Exists(scripts[i])
    PROVE  IsSegment(ControlUpTo(s, scripts)[Len(scripts)])
<1> DEFINE N == Len(scripts)
           f == ControlUpTo(s, scripts)
           Holds == {k \in Nat : k <= N => IsSegment(f[k])}
<1>1. N \in Nat /\ DOMAIN scripts = 1..N /\ \A n \in 1..N : scripts[n] \in Sources
  BY LenProperties
<1>2. /\ f[0] = WithMember(s, ".PKGINFO", 1, "pkginfo", 1)
      /\ \A n \in 1..N : f[n] = WithScript(f[n - 1], scripts[n])
  <2>1. Controls(s, scripts, N, f)
    BY <1>1, ControlDefined
  <2> HIDE DEF f, N
  <2>2. \A n \in 0..N : f[n] = IF n = 0 THEN WithMember(s, ".PKGINFO", 1, "pkginfo", 1)
                              ELSE WithScript(f[n - 1], scripts[n])
    BY <2>1 DEF Controls
  <2>3. 0 \in 0..N /\ \A n \in 1..N : n \in 0..N /\ n # 0
    BY <1>1
  <2> QED
    BY <2>2, <2>3
<1> HIDE DEF f, N
<1>3. 0 \in Holds
  <2>1. ".PKGINFO" \in Names /\ ".PKGINFO" \notin Versions /\ "pkginfo" \in Names
    BY InputsAssumption DEF Names
  <2>2. IsSegment(WithMember(s, ".PKGINFO", 1, "pkginfo", 1))
    BY <2>1, MemberGrows DEF HasJoined
  <2> QED
    BY <1>2, <2>2
<1>4. ASSUME NEW k \in Holds PROVE k + 1 \in Holds
  <2>1. SUFFICES ASSUME k + 1 <= N PROVE IsSegment(f[k + 1])
    OBVIOUS
  <2>2. k + 1 \in 1..N /\ k + 1 - 1 = k /\ k <= N
    BY <1>1, <2>1
  <2> DEFINE src == scripts[k + 1]
  <2>3. f[k + 1] = WithScript(f[k], src) /\ IsSegment(f[k])
    BY <1>2, <2>2
  <2>4. src \in Sources /\ host[src] \in Versions
    BY <1>1, <2>2 DEF Exists
  <2> HIDE DEF src
  <2>5. Bytes(src) \in Nat
    BY <2>4, LengthAssumption DEF Bytes
  <2>6. "script" \in Names /\ "script" \notin Versions /\ host[src] \in Names
    BY <2>4, InputsAssumption DEF Names
  <2> QED
    BY <2>3, <2>5, <2>6, MemberGrows DEF WithScript, HasJoined
<1>5. Holds \subseteq Nat
  OBVIOUS
<1>6. N \in Holds
  <2> HIDE DEF Holds
  <2>1. Holds = Nat
    BY <1>3, <1>4, <1>5, Loops!Counting
  <2> QED
    BY <1>1, <2>1
<1> QED
  BY <1>1, <1>6 DEF f, N
-----------------------------------------------------------------------------
(***************************************************************************)
(* The invariant.                                                          *)
(***************************************************************************)
Made == {s \in [out : Stream, digested : Stream, buffer : Stream, owed : Nat,
                pad : 0..(Block - 1)] : s.digested = s.out}

(* The first of the segments was made last; the last one is the data. *)
Data == segments[Len(segments)]

(* What every step works with. *)
MadeInv ==
    /\ contents \in Inputs /\ settings \in Settings
    /\ host \in [Sources -> Versions \cup {Gone}]
    /\ segments \in Seq(Made)
    /\ IsSegment(current)
    /\ size \in Nat
    /\ next \in 1..(Len(contents) + 1)
    /\ pc # "start" => sizes \in [DOMAIN contents -> Nat]

(* The data segment while it is made: the installed size is that of the    *)
(* bytes it has taken and those it still waits for.                        *)
DataInv ==
    /\ pc \in {"start", "data"} => Len(segments) = 0
    /\ pc = "start" => current = EmptySegment /\ size = 0
    /\ pc = "data" => OfFiles(Taken(current)) + current.owed = size

(* The data segment once it is made, *)
HashInv ==
    pc \in {"control", "signature", "combine", "done"} =>
        /\ Len(segments) > 0
        /\ datahash = Data.out
        /\ size = OfFiles(Data.out)

(* and the segments before it. *)
ChainInv ==
    /\ pc = "control" => Len(segments) = 1
    /\ pc = "signature" => Len(segments) = 2 /\ Signed(settings.signature)
    /\ Combining =>
          /\ Len(segments) = IF Signed(settings.signature) THEN 3 ELSE 2
          /\ Signed(settings.signature) => signed = segments[2].out

(* What the caller has got. *)
WrittenInv ==
    /\ pc \in {"start", "data", "control", "signature", "combine", "done", "failed"}
    /\ Len(segments) \in 0..3
    /\ written \in 0..Len(segments)
    /\ pc \in {"start", "data", "control", "signature"} => written = 0
    /\ pc = "combine" => written < Len(segments)
    /\ pc = "done" => written = Len(segments)

ApkInv == MadeInv /\ DataInv /\ HashInv /\ ChainInv /\ WrittenInv
(* Segments as members of a set, for the theorems on sequences. *)
LEMMA SegmentIsMade == \A s : IsSegment(s) <=> s \in Made /\ Len(s.buffer) <= BufSize
  BY DEF IsSegment, Made

(* A segment without bytes is one. *)
LEMMA EmptyIsSegment ==
    IsSegment(EmptySegment) /\ OfFiles(Taken(EmptySegment)) = 0 /\ EmptySegment.owed = 0
<1> DEFINE none == <<>>
<1>1. none \in Stream /\ Len(none) = 0 /\ none \o none = none
  BY EmptySeq, ConcatEmptySeq DEF Stream
<1>2. EmptySegment = [out |-> none, digested |-> none, buffer |-> none, owed |-> 0, pad |-> 0]
  BY DEF EmptySegment
<1>3. OfFiles(none) = 0
  <2>1. Zeros(0) = <<>>
    BY DEF Zeros
  <2> QED
    BY <2>1, FilesOfZeros
<1> HIDE DEF none
<1>4. 0 \in 0..(Block - 1) /\ 0 <= BufSize
  BY BlockAssumption
<1>5. IsSegment(EmptySegment)
  BY <1>1, <1>2, <1>4 DEF IsSegment
<1> QED
  BY <1>1, <1>2, <1>3, <1>5 DEF Taken

(* A segment that is put in front of those that are made. *)
LEMMA Prepending ==
    ASSUME NEW made_ \in Seq(Made), NEW s \in Made
    PROVE  /\ <<s>> \o made_ \in Seq(Made)
           /\ Len(made_) \in Nat
           /\ Len(<<s>> \o made_) = Len(made_) + 1
           /\ (<<s>> \o made_)[1] = s
           /\ \A i \in 1..Len(made_) : (<<s>> \o made_)[i + 1] = made_[i]
<1> DEFINE one == <<s>>
<1>1. one \in Seq(Made) /\ Len(one) = 1 /\ one[1] = s
  OBVIOUS
<1>2. Len(made_) \in Nat
  BY LenProperties
<1> HIDE DEF one
<1>3. /\ one \o made_ \in Seq(Made) /\ Len(one \o made_) = Len(one) + Len(made_)
      /\ \A i \in 1..(Len(one) + Len(made_)) :
            (one \o made_)[i] = IF i <= Len(one) THEN one[i] ELSE made_[i - Len(one)]
  BY <1>1, ConcatProperties
<1>4. Len(one \o made_) = Len(made_) + 1
  BY <1>1, <1>2, <1>3
<1>5. (one \o made_)[1] = s
  BY <1>1, <1>2, <1>3
<1>6. ASSUME NEW i \in 1..Len(made_) PROVE (one \o made_)[i + 1] = made_[i]
  <2>1. i + 1 \in 1..(1 + Len(made_)) /\ ~ (i + 1 <= 1) /\ i + 1 - 1 = i
    BY <1>2
  <2> QED
    BY <1>1, <1>3, <2>1
<1> QED
  BY <1>2, <1>3, <1>4, <1>5, <1>6 DEF one

(* What the callers hand over. *)
LEMMA ContentIsListed ==
    ASSUME contents \in Inputs, NEW i \in 1..Len(contents)
    PROVE  /\ contents[i].dst \in Names /\ contents[i].dst \notin Versions
           /\ contents[i].type \in FileTypes => contents[i].src \in Sources
<1>1. i \in DOMAIN contents
  BY InputsAssumption, LenProperties
<1>2. contents[i].dst \in {contents[j].dst : j \in DOMAIN contents}
  BY <1>1
<1>3. contents[i].dst \in Names
  BY <1>2 DEF Names
<1> QED
  BY <1>1, <1>3, InputsAssumption

(* There are as many sizes as contents. *)
LEMMA ContentsAreListed ==
    ASSUME contents \in Inputs
    PROVE  Len(contents) \in Nat /\ DOMAIN contents = 1..Len(contents)
  BY InputsAssumption, LenProperties

(* Nothing is written before anything is made. *)
LEMMA InitApk == Init => ApkInv
<1> SUFFICES ASSUME Init PROVE ApkInv
  OBVIOUS
<1>1. Len(contents) \in Nat
  BY ContentsAreListed DEF Init
<1>2. <<>> \in Seq(Made) /\ Len(<<>>) = 0
  BY EmptySeq
<1>3. host \in [Sources -> Versions \cup {Gone}]
  BY DEF Init, HostInit
<1>4. MadeInv
  BY <1>1, <1>2, <1>3, EmptyIsSegment DEF Init, MadeInv
<1>5. DataInv /\ HashInv /\ ChainInv
  BY <1>2 DEF Init, DataInv, HashInv, ChainInv, Combining
<1>6. WrittenInv
  BY <1>2 DEF Init, WrittenInv
<1> QED
  BY <1>4, <1>5, <1>6 DEF ApkInv

(* The sizes are taken. *)
LEMMA StartApk == ApkInv /\ Start => ApkInv'
<1> SUFFICES ASSUME ApkInv, Start PROVE ApkInv'
  OBVIOUS
<1>1. /\ UNCHANGED <<contents, settings, host, next, current, size, segments, written>>
      /\ pc = "start" /\ pc' \in {"data", "failed"}
  BY DEF Start, segment, made
<1>2. sizes' \in [DOMAIN contents -> Nat]
  <2>1. \A src : SizeNow(src) \in Nat
    BY LengthAssumption DEF SizeNow, Exists, Bytes, ApkInv, MadeInv
  <2> QED
    BY <2>1 DEF Start
<1>3. MadeInv'
  BY <1>1, <1>2 DEF ApkInv, MadeInv, IsSegment
<1>4. DataInv'
  <2>1. current' = EmptySegment /\ size' = 0 /\ Len(segments') = 0 /\ pc' # "start"
    BY <1>1 DEF ApkInv, DataInv
  <2>2. OfFiles(Taken(current')) + current'.owed = size'
    BY <2>1, EmptyIsSegment
  <2> QED
    BY <2>1, <2>2 DEF DataInv
<1>5. HashInv' /\ ChainInv'
  BY <1>1 DEF HashInv, ChainInv, Combining
<1>6. WrittenInv'
  BY <1>1 DEF ApkInv, WrittenInv
<1> QED
  BY <1>3, <1>4, <1>5, <1>6 DEF ApkInv

(* A packager that fails has written what it has written. *)
LEMMA FailApk ==
    ASSUME ApkInv, Fail, UNCHANGED <<input, host, touches>>, pc # "start", pc # "done"
    PROVE  ApkInv'
<1>1. /\ UNCHANGED <<contents, settings, sizes, host, next, current, size, segments, written>>
      /\ pc' = "failed"
  BY DEF Fail, segment, made, input
<1>2. MadeInv'
  BY <1>1 DEF ApkInv, MadeInv, IsSegment
<1>3. DataInv' /\ HashInv' /\ ChainInv'
  BY <1>1 DEF DataInv, HashInv, ChainInv, Combining
<1>4. WrittenInv'
  BY <1>1 DEF ApkInv, WrittenInv
<1> QED
  BY <1>2, <1>3, <1>4 DEF ApkInv
(* A content: the header announces the size of the preparation, the body   *)
(* is what the file holds now, and the segment waits for the difference.   *)
LEMMA AddContentApk ==
    ASSUME ApkInv, pc = "data", next <= Len(contents), AddContent(contents[next]),
           UNCHANGED <<input, host, touches>>
    PROVE  ApkInv'
<1> DEFINE c == contents[next]
           n == sizes[next]
<1>1. /\ MadeInv /\ Len(segments) = 0 /\ IsSegment(current) /\ size \in Nat
      /\ OfFiles(Taken(current)) + current.owed = size
      /\ OfFiles(Taken(current)) \in Nat /\ current.owed \in Nat
      /\ Len(contents) \in Nat /\ next \in 1..Len(contents) /\ next + 1 \in 1..(Len(contents) + 1)
  <2>1. Len(contents) \in Nat /\ next \in 1..(Len(contents) + 1)
    BY ContentsAreListed DEF ApkInv, MadeInv
  <2>2. IsSegment(current) /\ MadeInv
    BY DEF ApkInv, MadeInv
  <2>3. OfFiles(Taken(current)) \in Nat /\ current.owed \in Nat
    BY <2>2, TakenCounts
  <2>4. next \in 1..Len(contents) /\ next + 1 \in 1..(Len(contents) + 1)
    BY <2>1
  <2> QED
    BY <2>1, <2>2, <2>3, <2>4 DEF ApkInv, MadeInv, DataInv
<1>2. n \in Nat /\ c.dst \in Names /\ c.dst \notin Versions
      /\ (c.type \in FileTypes => c.src \in Sources)
  <2>1. sizes \in [DOMAIN contents -> Nat] /\ DOMAIN contents = 1..Len(contents)
    BY <1>1, ContentsAreListed DEF MadeInv
  <2>2. n \in Nat
    BY <1>1, <2>1
  <2> QED
    BY <1>1, <2>2, ContentIsListed DEF MadeInv
<1>3. UNCHANGED <<contents, settings, sizes, host>>
  BY DEF input
<1>4. SUFFICES ASSUME ~ Fail PROVE ApkInv'
  BY FailApk
<1>5. /\ UNCHANGED <<pc, segments, datahash, signed, written>>
      /\ next' = next + 1 /\ Settled(current)
      /\ \/ /\ c.type \in FileTypes /\ Exists(c.src) /\ Bytes(c.src) <= n
            /\ current' = WithMember(current, c.dst, n, host[c.src], Bytes(c.src))
            /\ size' = size + n
         \/ /\ current' = WithMember(current, c.dst, 0, "", 0)
            /\ size' = size
  BY <1>4 DEF AddContent, made
<1> HIDE DEF c, n
<1>6. IsSegment(current') /\ size' \in Nat /\ OfFiles(Taken(current')) + current'.owed = size'
  <2>0. current.owed = 0
    BY <1>5 DEF Settled
  <2>1. CASE /\ c.type \in FileTypes /\ Exists(c.src) /\ Bytes(c.src) <= n
             /\ current' = WithMember(current, c.dst, n, host[c.src], Bytes(c.src))
             /\ size' = size + n
    <3> DEFINE v == host[c.src]
               b == Bytes(c.src)
    <3>1. v \in Versions /\ v \in Names /\ b \in Nat /\ b <= n
      <4>1. host[c.src] \in Versions
        BY <1>1, <1>2, <2>1 DEF MadeInv, Exists
      <4> QED
        BY <2>1, <4>1, LengthAssumption DEF Bytes, Names
    <3>2. current' = WithMember(current, c.dst, n, v, b)
      BY <2>1
    <3> HIDE DEF v, b
    <3> DEFINE w == WithMember(current, c.dst, n, v, b)
    <3>3a. HasJoined(current, w, IF v \in Versions THEN b ELSE 0, n - b)
      BY <1>1, <1>2, <3>1, MemberGrows
    <3>3b. current' = w
      BY <3>2
    <3>3c. HasJoined(current, w, b, n - b)
      BY <3>1, <3>3a
    <3> HIDE DEF w
    <3>3. /\ IsSegment(current')
          /\ OfFiles(Taken(current')) = OfFiles(Taken(current)) + b
          /\ current'.owed = n - b
      BY <3>3b, <3>3c DEF HasJoined
    <3>5. size' = size + n
      BY <2>1
    <3> QED
      BY <1>1, <1>2, <2>0, <3>1, <3>3, <3>5
  <2>2. CASE /\ current' = WithMember(current, c.dst, 0, "", 0)
             /\ size' = size
    <3> DEFINE v == ""
    <3>1. v \notin Versions /\ v \in Names
      BY InputsAssumption DEF Names
    <3>2. current' = WithMember(current, c.dst, 0, v, 0)
      BY <2>2
    <3> HIDE DEF v
    <3> DEFINE w == WithMember(current, c.dst, 0, v, 0)
    <3>3. HasJoined(current, w, IF v \in Versions THEN 0 ELSE 0, 0 - 0)
      BY <1>1, <1>2, <3>1, MemberGrows
    <3>4. current' = w
      BY <3>2
    <3> HIDE DEF w
    <3>5. IsSegment(current') /\ OfFiles(Taken(current')) = OfFiles(Taken(current))
          /\ current'.owed = 0
      BY <1>1, <3>3, <3>4 DEF HasJoined
    <3>6. size' = size
      BY <2>2
    <3> QED
      BY <1>1, <2>0, <3>5, <3>6
  <2> QED
    BY <1>5, <2>1, <2>2
<1>7. MadeInv'
  BY <1>1, <1>3, <1>5, <1>6 DEF MadeInv
<1>8. DataInv'
  BY <1>1, <1>5, <1>6 DEF DataInv
<1>9. HashInv' /\ ChainInv' /\ WrittenInv'
  <2>1. pc' = "data"
    BY <1>5
  <2> QED
    BY <1>5, <2>1 DEF ApkInv, HashInv, ChainInv, WrittenInv, Combining
<1> QED
  BY <1>7, <1>8, <1>9 DEF ApkInv

(* The end of the data segment: nothing is held back, and nothing waited   *)
(* for, so the installed size is that of what was written.                 *)
LEMMA FinishApk ==
    ASSUME ApkInv, pc = "data", Settled(current), Finish("full"),
           datahash' = segments'[1].digested, pc' = "control",
           UNCHANGED <<size, signed, written>>, UNCHANGED <<input, host, touches>>
    PROVE  ApkInv'
<1> DEFINE s == Finished(current, "full")
<1>1. /\ MadeInv /\ Len(segments) = 0 /\ IsSegment(current) /\ size \in Nat
      /\ segments \in Seq(Made)
      /\ OfFiles(Taken(current)) + current.owed = size
  BY DEF ApkInv, MadeInv, DataInv
<1>2. IsSegment(s) /\ OfFiles(s.out) = OfFiles(Taken(current))
  BY <1>1, FinishedKeeps
<1>3. OfFiles(s.out) = size
  BY <1>1, <1>2, TakenCounts DEF Settled
<1>4. segments' = <<s>> \o segments /\ current' = EmptySegment /\ next' = 1
  BY DEF Finish
<1> HIDE DEF s
<1>5. segments' \in Seq(Made) /\ Len(segments') = 1 /\ segments'[1] = s
  BY <1>1, <1>2, <1>4, SegmentIsMade, Prepending
<1>6. datahash' = s.out /\ Data' = s
  BY <1>2, <1>5 DEF IsSegment, Data
<1>7. UNCHANGED <<contents, settings, sizes, host>>
  BY DEF input
<1>8. MadeInv'
  <2>1. 1 \in 1..(Len(contents) + 1)
    BY <1>1, ContentsAreListed DEF MadeInv
  <2> QED
    BY <1>1, <1>4, <1>5, <1>7, <2>1, EmptyIsSegment DEF MadeInv
<1>9. DataInv' /\ ChainInv'
  BY <1>5 DEF DataInv, ChainInv, Combining
<1>10. HashInv'
  BY <1>3, <1>5, <1>6 DEF HashInv
<1>11. WrittenInv'
  <2>1. written = 0
    BY DEF ApkInv, WrittenInv
  <2> QED
    BY <1>5, <2>1 DEF WrittenInv
<1> QED
  BY <1>8, <1>9, <1>10, <1>11 DEF ApkInv

(* A step of the data segment adds a content, finishes it or fails. *)
LEMMA DataApk == ApkInv /\ CreateData => ApkInv'
  BY AddContentApk, FinishApk, FailApk DEF CreateData

(* A segment in front of the others leaves what .PKGINFO says of the data. *)
LEMMA BeforeApk ==
    ASSUME ApkInv, pc \in {"control", "signature"}, pc' \in {"signature", "combine"},
           NEW s, IsSegment(s), segments' = <<s>> \o segments,
           UNCHANGED <<segment, datahash, written>>, UNCHANGED <<input, host, touches>>
    PROVE  /\ MadeInv' /\ DataInv' /\ HashInv'
           /\ Len(segments) \in Nat /\ Len(segments') = Len(segments) + 1
           /\ segments'[1] = s
           /\ \A i \in 1..Len(segments) : segments'[i + 1] = segments[i]
           /\ written' = 0
<1>1. /\ UNCHANGED <<contents, settings, sizes, host, next, current, size, datahash, written>>
      /\ segments \in Seq(Made)
  BY DEF input, segment, ApkInv, MadeInv
<1>2. /\ segments' \in Seq(Made)
      /\ Len(segments) \in Nat /\ Len(segments') = Len(segments) + 1
      /\ segments'[1] = s
      /\ \A i \in 1..Len(segments) : segments'[i + 1] = segments[i]
  <2>1. s \in Made
    BY SegmentIsMade
  <2> QED
    BY <1>1, <2>1, Prepending
<1>3. MadeInv'
  BY <1>1, <1>2 DEF ApkInv, MadeInv
<1>4. DataInv'
  BY DEF DataInv
<1>5. Len(segments) > 0 /\ datahash = Data.out /\ size = OfFiles(Data.out) /\ written = 0
  BY DEF ApkInv, HashInv, WrittenInv
<1>6. Data' = Data
  <2>1. Len(segments) \in 1..Len(segments)
    BY <1>2, <1>5
  <2> QED
    BY <1>2, <2>1 DEF Data
<1>7. HashInv'
  <2>1. Len(segments') > 0 /\ datahash' = Data'.out /\ size' = OfFiles(Data'.out)
    BY <1>1, <1>2, <1>5, <1>6
  <2> QED
    BY <2>1 DEF HashInv
<1> QED
  BY <1>1, <1>2, <1>3, <1>4, <1>5, <1>7

(* The control segment is the second to be made. *)
LEMMA ControlApk == ApkInv /\ CreateControl => ApkInv'
<1> SUFFICES ASSUME ApkInv, CreateControl, ~ Fail PROVE ApkInv'
  <2>1. ApkInv /\ CreateControl => pc # "start" /\ pc # "done" /\ UNCHANGED <<input, host, touches>>
    BY DEF CreateControl
  <2> QED
    BY <2>1, FailApk
<1> DEFINE scripts == settings.scripts
           s == Finished(ControlUpTo(current, scripts)[Len(scripts)], "cut")
<1>1. /\ pc = "control"
      /\ \A i \in DOMAIN scripts : Exists(scripts[i])
      /\ segments' = <<s>> \o segments
      /\ pc' = IF Signed(settings.signature) THEN "signature" ELSE "combine"
      /\ UNCHANGED <<segment, datahash, signed, written>>
      /\ UNCHANGED <<input, host, touches>>
  BY DEF CreateControl
<1>2. IsSegment(s)
  <2>1. /\ scripts \in Seq(Sources) /\ IsSegment(current)
        /\ host \in [Sources -> Versions \cup {Gone}]
    BY InputsAssumption DEF ApkInv, MadeInv
  <2>2. IsSegment(ControlUpTo(current, scripts)[Len(scripts)])
    BY <1>1, <2>1, ControlKeeps
  <2> QED
    BY <2>2, FinishedKeeps
<1> HIDE DEF s, scripts
<1>3. pc' \in {"signature", "combine"} /\ pc \in {"control", "signature"}
  BY <1>1
<1>4. /\ MadeInv' /\ DataInv' /\ HashInv'
      /\ Len(segments') = Len(segments) + 1 /\ written' = 0
  BY <1>1, <1>2, <1>3, BeforeApk
<1>5. Len(segments') = 2 /\ settings' = settings
  <2>1. Len(segments) = 1
    BY <1>1 DEF ApkInv, ChainInv
  <2>2. settings' = settings
    BY <1>1 DEF input
  <2> QED
    BY <1>4, <2>1, <2>2
<1>6. ChainInv'
  BY <1>1, <1>5 DEF ChainInv, Combining
<1>7. WrittenInv'
  <2>1. Len(segments') = 2 /\ written' = 0
    BY <1>4, <1>5
  <2>2. Len(segments') \in 0..3 /\ written' \in 0..Len(segments') /\ written' < Len(segments')
    BY <2>1
  <2> QED
    BY <1>3, <1>4, <2>2 DEF WrittenInv
<1> QED
  BY <1>4, <1>6, <1>7 DEF ApkInv

(* The signature is over the segment made before it, which then is second. *)
LEMMA SignatureApk == ApkInv /\ CreateSignature => ApkInv'
<1> SUFFICES ASSUME ApkInv, CreateSignature, ~ Fail PROVE ApkInv'
  <2>1. ApkInv /\ CreateSignature =>
           pc # "start" /\ pc # "done" /\ UNCHANGED <<input, host, touches>>
    BY DEF CreateSignature
  <2> QED
    BY <2>1, FailApk
<1> DEFINE s == Finished(WithMember(current, ".SIGN", 2, "sign", 2), "cut")
<1>1. /\ pc = "signature" /\ pc' = "combine"
      /\ segments' = <<s>> \o segments
      /\ signed' = segments[1].digested
      /\ UNCHANGED <<segment, datahash, written>>
      /\ UNCHANGED <<input, host, touches>>
  BY DEF CreateSignature
<1>2. IsSegment(s)
  <2>1. ".SIGN" \in Names /\ ".SIGN" \notin Versions /\ "sign" \in Names
    BY InputsAssumption DEF Names
  <2>2. IsSegment(WithMember(current, ".SIGN", 2, "sign", 2))
    BY <2>1, MemberGrows DEF HasJoined, ApkInv, MadeInv
  <2> QED
    BY <2>2, FinishedKeeps
<1> HIDE DEF s
<1>3. pc' \in {"signature", "combine"} /\ pc \in {"control", "signature"}
  BY <1>1
<1>4. /\ MadeInv' /\ DataInv' /\ HashInv'
      /\ Len(segments') = Len(segments) + 1 /\ written' = 0
      /\ \A i \in 1..Len(segments) : segments'[i + 1] = segments[i]
  BY <1>1, <1>2, <1>3, BeforeApk
<1>5. /\ Len(segments) = 2 /\ Len(segments') = 3 /\ settings' = settings
      /\ Signed(settings.signature)
  <2>1. Len(segments) = 2 /\ Signed(settings.signature)
    BY <1>1 DEF ApkInv, ChainInv
  <2>2. settings' = settings
    BY <1>1 DEF input
  <2> QED
    BY <1>4, <2>1, <2>2
<1>6. signed' = segments'[2].out
  <2>1. 1 \in 1..Len(segments) /\ 1 + 1 = 2
    BY <1>5
  <2>2. segments'[2] = segments[1]
    BY <1>4, <2>1
  <2>3. segments[1] \in Made
    BY <2>1, LenProperties DEF ApkInv, MadeInv
  <2> QED
    BY <1>1, <2>2, <2>3 DEF Made
<1>7. ChainInv'
  BY <1>1, <1>5, <1>6 DEF ChainInv, Combining
<1>8. WrittenInv'
  BY <1>1, <1>4, <1>5 DEF WrittenInv
<1> QED
  BY <1>4, <1>7, <1>8 DEF ApkInv

(* Copying the segments to the caller changes none of them. *)
LEMMA CombineApk == ApkInv /\ CombineToApk => ApkInv'
<1> SUFFICES ASSUME ApkInv, CombineToApk, ~ Fail PROVE ApkInv'
  <2>1. ApkInv /\ CombineToApk =>
           pc # "start" /\ pc # "done" /\ UNCHANGED <<input, host, touches>>
    BY DEF CombineToApk
  <2> QED
    BY <2>1, FailApk
<1>1. /\ pc = "combine" /\ written' = written + 1
      /\ pc' = IF written + 1 < Len(segments) THEN "combine" ELSE "done"
      /\ UNCHANGED <<contents, settings, sizes, host, next, current, size>>
      /\ UNCHANGED <<segments, datahash, signed>>
  BY DEF CombineToApk, segment, made, input
<1>2. pc' \in {"combine", "done"}
  BY <1>1
<1>3. MadeInv'
  BY <1>1 DEF ApkInv, MadeInv
<1>4. DataInv'
  BY <1>2 DEF DataInv
<1>5. HashInv'
  BY <1>1, <1>2 DEF ApkInv, HashInv, Data
<1>6. ChainInv'
  BY <1>1, <1>2 DEF ApkInv, ChainInv, Combining
<1>7. WrittenInv'
  BY <1>1 DEF ApkInv, WrittenInv
<1> QED
  BY <1>3, <1>4, <1>5, <1>6, <1>7 DEF ApkInv

(* Nothing of it depends on what the host's files hold later. *)
LEMMA MeanwhileApk == ApkInv /\ Meanwhile => ApkInv'
<1> SUFFICES ASSUME ApkInv, Meanwhile PROVE ApkInv'
  OBVIOUS
<1>1. /\ UNCHANGED <<contents, settings, sizes, pc, next, current, size>>
      /\ UNCHANGED <<segments, datahash, signed, written>>
  BY DEF Meanwhile, segment, made, input
<1>2. host' \in [Sources -> Versions \cup {Gone}]
  BY DEF Meanwhile, Touch, ApkInv, MadeInv
<1>3. MadeInv'
  BY <1>1, <1>2 DEF ApkInv, MadeInv
<1>4. DataInv' /\ HashInv' /\ ChainInv' /\ WrittenInv'
  BY <1>1 DEF ApkInv, DataInv, HashInv, ChainInv, WrittenInv, Combining, Data
<1> QED
  BY <1>3, <1>4 DEF ApkInv

(* Every step keeps the invariant, *)
LEMMA StepApk == ApkInv /\ [Next]_vars => ApkInv'
<1>1. ApkInv /\ UNCHANGED vars => ApkInv'
  BY DEF vars, ApkInv, MadeInv, DataInv, HashInv, ChainInv, WrittenInv, Combining, Data
<1> QED
  BY <1>1, StartApk, DataApk, ControlApk, SignatureApk, CombineApk, MeanwhileApk
     DEF Next, Package

(* so it holds at all times. *)
LEMMA ApkInvariant == Spec => []ApkInv
  BY InitApk, StepApk, PTL DEF Spec

-----------------------------------------------------------------------------
(* The variables have the types the model declares for them. *)
THEOREM ApkTypes == Spec => []TypeOK
<1>1. ApkInv => TypeOK
  BY DEF ApkInv, MadeInv, WrittenInv, TypeOK, IsSegment
<1> QED
  BY <1>1, ApkInvariant, PTL

(* .PKGINFO has the digest of the data segment as it is in the package and *)
(* the size of the files' bytes in it, and the signature covers the        *)
(* control segment as it is in the package.                                *)
THEOREM ApkDigests == Spec => []DigestsChain
<1>1. ApkInv => DigestsChain
  BY DEF ApkInv, HashInv, ChainInv, DigestsChain, Combining, Data
<1> QED
  BY <1>1, ApkInvariant, PTL

(* Each step of the apk packager is one its caller may see of a packager. *)
THEOREM ApkPromiseKept == Spec => KeepsPromise
<1>1. Init => P!Init
  BY DEF Init, P!Init, Outcome
<1>2. ApkInv /\ [Next]_vars => [P!Next]_P!vars
  <2> SUFFICES ASSUME ApkInv, [Next]_vars PROVE [P!Next]_P!vars
    OBVIOUS
  <2>1. /\ WrittenInv /\ Len(segments) \in 0..3 /\ written \in 0..Len(segments)
        /\ Combining => Len(segments) > 0
    BY DEF ApkInv, WrittenInv, HashInv, Combining
  <2>2. CASE written' = written /\ written = 0 /\ Outcome' = Outcome
    BY <2>2 DEF P!vars
  <2>3. CASE written' = written /\ Len(segments') = Len(segments) /\ Outcome' = Outcome
    BY <2>3 DEF P!vars
  <2>4. CASE written' = written /\ (written = 0 \/ Len(segments') = Len(segments))
             /\ Outcome = "running" /\ Outcome' = "failed"
    BY <2>4 DEF P!Next, P!Fail
  <2>5. CASE CombineToApk /\ ~ Fail
    <3>1. /\ pc = "combine" /\ written' = written + 1 /\ segments' = segments
          /\ pc' = IF written + 1 < Len(segments) THEN "combine" ELSE "done"
      BY <2>5 DEF CombineToApk, made
    <3>2. written < Len(segments)
      BY <2>1, <3>1 DEF WrittenInv
    <3>3. CASE written + 1 < Len(segments)
      BY <2>1, <3>1, <3>2, <3>3 DEF P!Next, P!Write, Outcome
    <3>4. CASE ~ (written + 1 < Len(segments))
      BY <2>1, <3>1, <3>2, <3>4 DEF P!Next, P!Succeed, Outcome
    <3> QED
      BY <3>3, <3>4
  <2>6. CASE Fail /\ pc \in {"data", "control", "signature", "combine"}
    BY <2>4, <2>6 DEF Fail, made, Outcome
  <2>7. CASE Start \/ CreateData \/ CreateControl \/ CreateSignature
    <3>1. written = 0
      BY <2>1, <2>7 DEF WrittenInv, Start, CreateData, CreateControl, CreateSignature
    <3>2. Fail \/ (written' = written)
      BY <2>7 DEF Start, CreateData, AddContent, CreateControl, CreateSignature
    <3>3. pc' \in {"data", "control", "signature", "combine", "failed"} /\ Outcome = "running"
          /\ written' = 0
      BY <2>7, <3>1 DEF Start, CreateData, AddContent, CreateControl, CreateSignature, Fail, Outcome
    <3> QED
      BY <2>2, <2>4, <3>1, <3>3 DEF Outcome
  <2>8. CASE Meanwhile
    BY <2>3, <2>8 DEF Meanwhile, made, Outcome
  <2>9. CASE UNCHANGED vars
    BY <2>3, <2>9 DEF vars, Outcome
  <2> QED
    BY <2>5, <2>6, <2>7, <2>8, <2>9 DEF Next, Package, CombineToApk
<1> QED
  BY <1>1, <1>2, ApkInvariant, PTL DEF Spec, KeepsPromise, P!Spec
-----------------------------------------------------------------------------
(***************************************************************************)
(* Whole blocks.                                                           *)
(***************************************************************************)
Multiple(n) == \E k \in Nat : n = k * Block

(* Blocks behind blocks are blocks: *)
LEMMA Multiples ==
    ASSUME NEW m \in Nat, NEW n \in Nat, Multiple(m), Multiple(n) PROVE Multiple(m + n)
<1>1. PICK k \in Nat, j \in Nat : m = k * Block /\ n = j * Block
  BY DEF Multiple
<1>2. Block \in Nat
  BY BlockAssumption
<1>3. (k + j) * Block = k * Block + j * Block
  BY <1>2
<1>4. k + j \in Nat /\ m + n = (k + j) * Block
  BY <1>1, <1>3
<1> QED
  BY <1>4 DEF Multiple

(* none, one and two of them are blocks, *)
LEMMA FewBlocks == Multiple(0) /\ Multiple(Block) /\ Multiple(2 * Block) /\ 2 * Block \in Nat
<1>1. Block \in Nat /\ 0 \in Nat /\ 1 \in Nat /\ 2 \in Nat
  BY BlockAssumption
<1>2. 0 = 0 * Block /\ Block = 1 * Block /\ 2 * Block \in Nat
  BY <1>1
<1> QED
  BY <1>1, <1>2 DEF Multiple

(* as many of them end where a block ends, *)
LEMMA MultipleMod == ASSUME NEW n \in Nat, Multiple(n) PROVE n % Block = 0
<1>1. PICK k \in Nat : n = k * Block
  BY DEF Multiple
<1>2. Block \in Nat /\ Block > 0
  BY BlockAssumption
<1> QED
  BY <1>1, <1>2, SMTT(30)

(* what is rounded up is some, *)
LEMMA RoundedIsMultiple ==
    ASSUME NEW n \in Nat PROVE Multiple(RoundedUp(n)) /\ RoundedUp(n) \in Nat /\ RoundedUp(n) >= n
<1> DEFINE a == n + Block - 1
           q == a \div Block
<1>1. Block \in Nat /\ Block > 0 /\ a \in Nat
  BY BlockAssumption
<1>2. q \in Nat
  BY <1>1
<1>3. RoundedUp(n) = q * Block
  BY DEF RoundedUp
<1>4. Multiple(RoundedUp(n))
  BY <1>2, <1>3 DEF Multiple
<1>5. q * Block \in Nat
  <2> HIDE DEF q
  <2> QED
    BY <1>1, <1>2
<1>6. RoundedUp(n) \in Nat
  BY <1>3, <1>5
<1>7. RoundedUp(n) - n \in Nat
  BY RoundingUp
<1> QED
  BY <1>4, <1>6, <1>7

(* and there is one way to fill up the last block. *)
LEMMA FillIsUnique ==
    ASSUME NEW n \in Nat, NEW p \in 0..(Block - 1), Multiple(n + p)
    PROVE  RoundedUp(n) - n = p
<1>1. PICK k \in Nat : n + p = k * Block
  BY DEF Multiple
<1>2. Block \in Nat /\ Block > 0 /\ p \in Nat /\ p <= Block - 1
  BY BlockAssumption
<1>3. PICK q \in Nat : RoundedUp(n) = q * Block
  BY RoundedIsMultiple DEF Multiple
<1>4. RoundedUp(n) - n \in 0..(Block - 1) /\ RoundedUp(n) \in Nat
  BY RoundingUp, RoundedIsMultiple
<1> DEFINE K == k * Block
           Q == q * Block
<1>5. K \in Nat /\ Q \in Nat /\ K < Q + Block /\ Q < K + Block
  <2> HIDE DEF K, Q
  <2> QED
    BY <1>1, <1>2, <1>3, <1>4 DEF K, Q
<1>6. ASSUME NEW i \in Nat, NEW j \in Nat, i < j PROVE j * Block >= i * Block + Block
  <2>1. j - i - 1 \in Nat /\ j = i + 1 + (j - i - 1)
    BY <1>6
  <2> DEFINE d == j - i - 1
  <2> HIDE DEF d
  <2>2. d \in Nat /\ j = i + 1 + d
    BY <2>1 DEF d
  <2>3. (i + 1 + d) * Block = i * Block + Block + d * Block
    BY <1>2, <2>2
  <2>4. d * Block \in Nat /\ i * Block \in Nat
    BY <1>2, <2>2
  <2> DEFINE D == d * Block
             I == i * Block
  <2> HIDE DEF D, I
  <2>5. I + Block + D >= I + Block
    BY <1>2, <2>4 DEF D, I
  <2> QED
    BY <2>2, <2>3, <2>5 DEF D, I
<1>7. ~ (k < q) /\ ~ (q < k)
  <2>1. k < q => Q >= K + Block
    BY <1>6
  <2>2. q < k => K >= Q + Block
    BY <1>6
  <2> HIDE DEF K, Q
  <2> QED
    BY <1>2, <1>5, <2>1, <2>2
<1>8. k = q
  BY <1>7
<1> QED
  BY <1>1, <1>2, <1>3, <1>8
-----------------------------------------------------------------------------
(***************************************************************************)
(* Tars: members one behind the other, without an end.                     *)
(***************************************************************************)
(* The bytes of two that are put together are those of the one and the     *)
(* other.                                                                  *)
LEMMA ConcatAt ==
    ASSUME NEW s \in Stream, NEW t \in Stream
    PROVE  /\ s \o t \in Stream /\ Len(s \o t) = Len(s) + Len(t)
           /\ Len(s) \in Nat /\ Len(t) \in Nat
           /\ \A i \in 1..Len(s) : (s \o t)[i] = s[i]
           /\ \A i \in 1..Len(t) : (s \o t)[Len(s) + i] = t[i]
<1> DEFINE st == s \o t
<1>1. /\ st \in Stream /\ Len(st) = Len(s) + Len(t)
      /\ \A i \in 1..(Len(s) + Len(t)) : st[i] = IF i <= Len(s) THEN s[i] ELSE t[i - Len(s)]
  BY ConcatProperties DEF Stream
<1>2. Len(s) \in Nat /\ Len(t) \in Nat
  BY PlacesFinite
<1> HIDE DEF st
<1>3. ASSUME NEW i \in 1..Len(s) PROVE st[i] = s[i]
  <2>1. i \in 1..(Len(s) + Len(t)) /\ i <= Len(s)
    BY <1>2
  <2> QED
    BY <1>1, <2>1
<1>4. ASSUME NEW i \in 1..Len(t) PROVE st[Len(s) + i] = t[i]
  <2>1. Len(s) + i \in 1..(Len(s) + Len(t)) /\ ~ (Len(s) + i <= Len(s)) /\ (Len(s) + i) - Len(s) = i
    BY <1>2
  <2> QED
    BY <1>1, <2>1
<1> QED
  BY <1>1, <1>2, <1>3, <1>4 DEF st

(* A header is one in front of whatever follows it, *)
LEMMA HeaderStays ==
    ASSUME NEW s \in Stream, NEW t \in Stream, NEW p \in Nat \ {0}, IsHeader(s, p)
    PROVE  IsHeader(s \o t, p) /\ (s \o t)[p] = s[p]
<1> DEFINE st == s \o t
<1>1. /\ Len(st) = Len(s) + Len(t) /\ Len(s) \in Nat /\ Len(t) \in Nat
      /\ \A i \in 1..Len(s) : st[i] = s[i]
  BY ConcatAt
<1> HIDE DEF st
<1>2. Block \in Nat \ {0}
  BY BlockAssumption
<1>3. p + Block - 1 <= Len(s)
  BY DEF IsHeader
<1>4. p \in 1..Len(s) /\ p + Block - 1 <= Len(st)
  BY <1>1, <1>2, <1>3
<1>5. st[p] = s[p]
  BY <1>1, <1>4
<1>6. ASSUME NEW i \in 1..(Block - 1) PROVE st[p + i] = s[p + i]
  <2>1. p + i \in 1..Len(s)
    BY <1>1, <1>2, <1>3
  <2> QED
    BY <1>1, <2>1
<1>7. IsHeader(st, p)
  BY <1>4, <1>5, <1>6 DEF IsHeader
<1> QED
  BY <1>5, <1>7 DEF st

(* and behind whatever it follows. *)
LEMMA HeaderMoves ==
    ASSUME NEW s \in Stream, NEW t \in Stream, NEW p \in Nat \ {0}, IsHeader(t, p)
    PROVE  IsHeader(s \o t, Len(s) + p) /\ (s \o t)[Len(s) + p] = t[p]
<1> DEFINE st == s \o t
           q == Len(s) + p
<1>1. /\ Len(st) = Len(s) + Len(t) /\ Len(s) \in Nat /\ Len(t) \in Nat
      /\ \A i \in 1..Len(t) : st[Len(s) + i] = t[i]
  BY ConcatAt
<1> HIDE DEF st
<1>2. Block \in Nat \ {0}
  BY BlockAssumption
<1>3. p + Block - 1 <= Len(t)
  BY DEF IsHeader
<1>4. p \in 1..Len(t) /\ q + Block - 1 <= Len(st)
  BY <1>1, <1>2, <1>3
<1>5. st[q] = t[p]
  BY <1>1, <1>4
<1>6. ASSUME NEW i \in 1..(Block - 1) PROVE st[q + i] = t[p + i]
  <2>1. p + i \in 1..Len(t) /\ Len(s) + (p + i) = q + i
    BY <1>1, <1>2, <1>3
  <2> QED
    BY <1>1, <2>1
<1> HIDE DEF q
<1>7. IsHeader(st, q)
  BY <1>4, <1>5, <1>6 DEF IsHeader
<1> QED
  BY <1>5, <1>7 DEF st, q

(* The members of bytes are called names, and at says where each begins.   *)
Places(bytes, names, at) ==
    /\ at[0] = 1 /\ at[Len(names)] = Len(bytes) + 1
    /\ \A i \in 1..Len(names) :
          /\ IsHeader(bytes, at[i - 1])
          /\ bytes[at[i - 1]].of = names[i]
          /\ at[i] = at[i - 1] + Block + RoundedUp(bytes[at[i - 1]].size)

Tar(bytes, names) ==
    /\ bytes \in Stream /\ names \in Seq(Names)
    /\ Multiple(Len(bytes))
    /\ \E at \in [0..Len(names) -> Nat \ {0}] : Places(bytes, names, at)

(* No bytes are a tar without members, *)
LEMMA EmptyIsTar == Tar(<<>>, <<>>)
<1> DEFINE none == <<>>
           at == [i \in 0..0 |-> 1]
<1>1. none \in Stream /\ none \in Seq(Names) /\ Len(none) = 0
  BY EmptySeq DEF Stream
<1> HIDE DEF none
<1>2. at[0] = 1 /\ at \in [0..Len(none) -> Nat \ {0}]
  BY <1>1
<1>3. 1..Len(none) = {}
  BY <1>1
<1> HIDE DEF at
<1>4. Places(none, none, at)
  BY <1>1, <1>2, <1>3 DEF Places
<1>5. Multiple(Len(none))
  BY <1>1, FewBlocks
<1> QED
  BY <1>1, <1>2, <1>4, <1>5 DEF Tar, none

(* and a tar behind a tar is one with the members of both. *)
LEMMA JoinTars ==
    ASSUME NEW s, NEW t, NEW a, NEW b, Tar(s, a), Tar(t, b)
    PROVE  Tar(s \o t, a \o b)
<1> DEFINE st == s \o t
           ab == a \o b
<1>1. /\ s \in Stream /\ t \in Stream /\ a \in Seq(Names) /\ b \in Seq(Names)
      /\ Multiple(Len(s)) /\ Multiple(Len(t))
  BY DEF Tar
<1>2. PICK f \in [0..Len(a) -> Nat \ {0}] : Places(s, a, f)
  BY DEF Tar
<1>3. PICK g \in [0..Len(b) -> Nat \ {0}] : Places(t, b, g)
  BY DEF Tar
<1>4. st \in Stream /\ Len(st) = Len(s) + Len(t) /\ Len(s) \in Nat /\ Len(t) \in Nat
  BY <1>1, ConcatAt
<1>5. /\ ab \in Seq(Names) /\ Len(ab) = Len(a) + Len(b) /\ Len(a) \in Nat /\ Len(b) \in Nat
      /\ \A i \in 1..(Len(a) + Len(b)) : ab[i] = IF i <= Len(a) THEN a[i] ELSE b[i - Len(a)]
  BY <1>1, ConcatProperties, LenProperties
<1> HIDE DEF st, ab
<1>6. Multiple(Len(st))
  BY <1>1, <1>4, Multiples
<1> DEFINE at == [i \in 0..Len(ab) |-> IF i <= Len(a) THEN f[i] ELSE Len(s) + g[i - Len(a)]]
<1>7. at \in [0..Len(ab) -> Nat \ {0}]
  <2>1. ASSUME NEW i \in 0..Len(ab) PROVE at[i] \in Nat \ {0}
    <3>1. CASE i <= Len(a)
      <4>1. i \in 0..Len(a)
        BY <1>5, <3>1
      <4> QED
        BY <1>2, <3>1, <4>1
    <3>2. CASE ~ (i <= Len(a))
      <4>1. i - Len(a) \in 0..Len(b)
        BY <1>5, <3>2
      <4> QED
        BY <1>3, <1>4, <3>2, <4>1
    <3> QED
      BY <3>1, <3>2
  <2> QED
    BY <2>1
<1>8. /\ f[0] = 1 /\ f[Len(a)] = Len(s) + 1
      /\ \A i \in 1..Len(a) : /\ IsHeader(s, f[i - 1]) /\ s[f[i - 1]].of = a[i]
                              /\ f[i] = f[i - 1] + Block + RoundedUp(s[f[i - 1]].size)
  BY <1>2 DEF Places
<1>9. /\ g[0] = 1 /\ g[Len(b)] = Len(t) + 1
      /\ \A i \in 1..Len(b) : /\ IsHeader(t, g[i - 1]) /\ t[g[i - 1]].of = b[i]
                              /\ g[i] = g[i - 1] + Block + RoundedUp(t[g[i - 1]].size)
  BY <1>3 DEF Places
<1>10. \A i \in 0..Len(a) : at[i] = f[i]
  BY <1>5
<1>11. ASSUME NEW i \in 0..Len(b) PROVE at[Len(a) + i] = Len(s) + g[i]
  <2>1. CASE i = 0
    <3>1. Len(a) + i = Len(a) /\ Len(a) \in 0..Len(a)
      BY <1>5, <2>1
    <3> QED
      BY <1>4, <1>8, <1>9, <1>10, <2>1, <3>1
  <2>2. CASE i # 0
    <3>1. Len(a) + i \in 0..Len(ab) /\ ~ (Len(a) + i <= Len(a)) /\ (Len(a) + i) - Len(a) = i
      BY <1>5, <2>2
    <3> QED
      BY <3>1
  <2> QED
    BY <2>1, <2>2
<1> HIDE DEF at
<1>12. at[0] = 1
  <2>1. 0 \in 0..Len(a)
    BY <1>5
  <2> QED
    BY <1>8, <1>10, <2>1
<1>13. at[Len(ab)] = Len(st) + 1
  <2>1. Len(b) \in 0..Len(b)
    BY <1>5
  <2>2. at[Len(a) + Len(b)] = Len(s) + (Len(t) + 1)
    BY <1>9, <1>11, <2>1
  <2>3. Len(s) + (Len(t) + 1) = Len(st) + 1
    BY <1>4
  <2> QED
    BY <1>5, <2>2, <2>3
<1>14. ASSUME NEW i \in 1..Len(ab)
       PROVE  /\ IsHeader(st, at[i - 1]) /\ st[at[i - 1]].of = ab[i]
              /\ at[i] = at[i - 1] + Block + RoundedUp(st[at[i - 1]].size)
  <2>1. CASE i <= Len(a)
    <3>1. i \in 1..Len(a) /\ i \in 0..Len(a) /\ i - 1 \in 0..Len(a)
          /\ i \in 1..(Len(a) + Len(b))
      BY <1>5, <2>1
    <3>2. at[i - 1] = f[i - 1] /\ at[i] = f[i] /\ ab[i] = a[i] /\ f[i - 1] \in Nat \ {0}
      BY <1>2, <1>5, <1>10, <2>1, <3>1
    <3>3. /\ IsHeader(s, f[i - 1]) /\ s[f[i - 1]].of = a[i]
          /\ f[i] = f[i - 1] + Block + RoundedUp(s[f[i - 1]].size)
      BY <1>8, <3>1
    <3>4. IsHeader(st, f[i - 1]) /\ st[f[i - 1]] = s[f[i - 1]]
      BY <1>1, <3>2, <3>3, HeaderStays DEF st
    <3> QED
      BY <3>2, <3>3, <3>4
  <2>2. CASE ~ (i <= Len(a))
    <3> DEFINE j == i - Len(a)
    <3>1. j \in 1..Len(b) /\ j \in 0..Len(b) /\ j - 1 \in 0..Len(b)
          /\ i \in 1..(Len(a) + Len(b)) /\ Len(a) + j = i /\ Len(a) + (j - 1) = i - 1
      BY <1>5, <2>2
    <3>2. ab[i] = b[j]
      BY <1>5, <2>2, <3>1
    <3> HIDE DEF j
    <3>3. at[i - 1] = Len(s) + g[j - 1] /\ at[i] = Len(s) + g[j] /\ g[j - 1] \in Nat \ {0}
      <4>1. at[Len(a) + (j - 1)] = Len(s) + g[j - 1] /\ at[Len(a) + j] = Len(s) + g[j]
        BY <1>11, <3>1
      <4> QED
        BY <1>3, <3>1, <4>1
    <3>4. /\ IsHeader(t, g[j - 1]) /\ t[g[j - 1]].of = b[j]
          /\ g[j] = g[j - 1] + Block + RoundedUp(t[g[j - 1]].size)
      BY <1>9, <3>1
    <3>5. IsHeader(st, Len(s) + g[j - 1]) /\ st[Len(s) + g[j - 1]] = t[g[j - 1]]
      BY <1>1, <3>3, <3>4, HeaderMoves DEF st
    <3> DEFINE T == t[g[j - 1]]
               R == RoundedUp(T.size)
    <3>6. g[j] \in Nat /\ g[j] = g[j - 1] + Block + R /\ Block \in Nat
      BY <1>3, <3>1, <3>4, BlockAssumption
    <3>8. st[at[i - 1]] = T
      BY <3>3, <3>5
    <3> SUFFICES at[i] = at[i - 1] + Block + R
      BY <3>2, <3>3, <3>4, <3>5, <3>8
    <3>9. g[j - 1] \in 1..Len(t)
      <4>1. g[j - 1] + Block - 1 <= Len(t)
        BY <3>4 DEF IsHeader
      <4> QED
        BY <1>4, <3>3, <4>1, BlockAssumption
    <3>10. T.size \in Nat
      <4>1. \A k \in 1..Len(t) : t[k] \in [of : Names, size : Nat]
        BY <1>1, ElementOfSeq DEF Stream
      <4> QED
        BY <3>9, <4>1
    <3>11. R \in Nat
      BY <3>10, RoundedIsMultiple
    <3> HIDE DEF R
    <3> QED
      BY <1>4, <3>3, <3>6, <3>11
  <2> QED
    BY <2>1, <2>2
<1>15. Places(st, ab, at)
  BY <1>12, <1>13, <1>14 DEF Places
<1> QED
  BY <1>4, <1>5, <1>6, <1>7, <1>15 DEF Tar, st, ab

(* A header, the body it announces and the fill-up of its last block. *)
Member(name, of, n) == (Header(name, n) \o Repeat(of, n)) \o Zeros(RoundedUp(n) - n)

(* Bytes that are all alike: *)
LEMMA RepeatAt ==
    ASSUME NEW name \in Names, NEW n \in Nat
    PROVE  /\ Repeat(name, n) \in Stream /\ Len(Repeat(name, n)) = n
           /\ \A i \in 1..n : Repeat(name, n)[i] = Byte(name, 0)
<1> DEFINE r == Repeat(name, n)
<1>1. r \in [1..n -> [of : Names, size : Nat]]
  BY DEF Repeat, Byte
<1>2. r \in Stream /\ DOMAIN r = 1..n
  BY <1>1, SeqDef DEF Stream
<1>3. \A i \in 1..n : r[i] = Byte(name, 0)
  BY DEF Repeat
<1> HIDE DEF r
<1>4. Len(r) = n
  BY <1>2, PlacesFinite
<1> QED
  BY <1>2, <1>3, <1>4 DEF r

(* as the zeros are, *)
LEMMA ZerosAt ==
    ASSUME NEW n \in Nat
    PROVE  /\ Zeros(n) \in Stream /\ Len(Zeros(n)) = n
           /\ \A i \in 1..n : Zeros(n)[i] = Byte("zero", 0)
<1>1. Zeros(n) = Repeat("zero", n)
  BY DEF Zeros, Repeat
<1>2. "zero" \in Names
  BY DEF Names
<1> QED
  BY <1>1, <1>2, RepeatAt

(* a header is a block, and is seen as one. *)
LEMMA HeaderIsOne ==
    ASSUME NEW name \in Names \ {"header", "zero"}, NEW n \in Nat
    PROVE  /\ Header(name, n) \in Stream /\ Len(Header(name, n)) = Block
           /\ IsHeader(Header(name, n), 1) /\ Header(name, n)[1] = Byte(name, n)
<1> DEFINE first == <<Byte(name, n)>>
           tail == Repeat("header", Block - 1)
           h == Header(name, n)
<1>1. first \in Stream /\ Len(first) = 1 /\ first[1] = Byte(name, n)
  BY DEF Byte, Stream
<1>2. "header" \in Names /\ Block - 1 \in Nat /\ Block \in Nat
  <2>1. "header" \in Names
    BY DEF Names
  <2> QED
    BY <2>1, BlockAssumption
<1>3. /\ tail \in Stream /\ Len(tail) = Block - 1
      /\ \A i \in 1..(Block - 1) : tail[i] = Byte("header", 0)
  BY <1>2, RepeatAt
<1>4. h = first \o tail
  BY DEF Header
<1> HIDE DEF first, tail, h
<1>5. /\ h \in Stream /\ Len(h) = Len(first) + Len(tail)
      /\ \A i \in 1..Len(first) : h[i] = first[i]
      /\ \A i \in 1..Len(tail) : h[Len(first) + i] = tail[i]
  BY <1>1, <1>3, <1>4, ConcatAt
<1>6. Len(h) = Block
  BY <1>1, <1>2, <1>3, <1>5
<1>7. h[1] = Byte(name, n)
  BY <1>1, <1>5
<1>8. h[1].of \notin {"header", "zero"}
  BY <1>7 DEF Byte
<1>9. \A i \in 1..(Block - 1) : h[1 + i] = Byte("header", 0)
  BY <1>1, <1>3, <1>5
<1>10. IsHeader(h, 1)
  BY <1>2, <1>6, <1>8, <1>9 DEF IsHeader
<1> QED
  BY <1>5, <1>6, <1>7, <1>10 DEF h

(* A member is a tar. *)
LEMMA MemberIsTar ==
    ASSUME NEW name \in Names \ {"header", "zero"}, NEW of \in Names, NEW n \in Nat
    PROVE  Tar(Member(name, of, n), <<name>>)
<1> DEFINE h == Header(name, n)
           b == Repeat(of, n)
           z == Zeros(RoundedUp(n) - n)
           hb == h \o b
           m == Member(name, of, n)
           names == <<name>>
<1>1. h \in Stream /\ Len(h) = Block /\ IsHeader(h, 1) /\ h[1] = Byte(name, n)
  BY HeaderIsOne
<1>2. b \in Stream /\ Len(b) = n
  BY RepeatAt
<1>3. RoundedUp(n) - n \in Nat /\ RoundedUp(n) \in Nat /\ Multiple(RoundedUp(n))
  BY RoundingUp, RoundedIsMultiple
<1>4. z \in Stream /\ Len(z) = RoundedUp(n) - n
  BY <1>3, ZerosAt
<1>5. m = hb \o z
  BY DEF Member
<1>6. names \in Seq(Names) /\ Len(names) = 1 /\ names[1] = name
  OBVIOUS
<1>7. Block \in Nat
  BY BlockAssumption
<1> HIDE DEF h, b, z, m, names
<1>8. hb \in Stream /\ Len(hb) = Block + n
  BY <1>1, <1>2, Concats
<1>8a. 1 \in Nat \ {0}
  OBVIOUS
<1>9. IsHeader(hb, 1) /\ hb[1] = Byte(name, n)
  BY <1>1, <1>2, <1>8a, HeaderStays DEF hb
<1> HIDE DEF hb
<1>10. IsHeader(m, 1) /\ m[1] = Byte(name, n)
  BY <1>4, <1>5, <1>8, <1>8a, <1>9, HeaderStays
<1>11. m \in Stream /\ Len(m) = Block + RoundedUp(n)
  <2>1. m \in Stream /\ Len(m) = Len(hb) + Len(z)
    BY <1>4, <1>5, <1>8, Concats
  <2> QED
    BY <1>3, <1>4, <1>7, <1>8, <2>1
<1>12. Multiple(Len(m))
  BY <1>3, <1>7, <1>11, FewBlocks, Multiples
<1> DEFINE at == [i \in 0..1 |-> IF i = 0 THEN 1 ELSE Len(m) + 1]
<1>13. at[0] = 1 /\ at[1] = Len(m) + 1 /\ at \in [0..1 -> Nat \ {0}]
  BY <1>3, <1>7, <1>11
<1> HIDE DEF at
<1>14. m[1].of = name /\ m[1].size = n
  BY <1>10 DEF Byte
<1>15. at[1] = at[0] + Block + RoundedUp(m[at[0]].size)
  BY <1>3, <1>7, <1>11, <1>13, <1>14
<1>16. ASSUME NEW i \in 1..1
       PROVE  /\ IsHeader(m, at[i - 1]) /\ m[at[i - 1]].of = names[i]
              /\ at[i] = at[i - 1] + Block + RoundedUp(m[at[i - 1]].size)
  <2>1. i = 1 /\ i - 1 = 0
    OBVIOUS
  <2> QED
    BY <1>6, <1>10, <1>13, <1>14, <1>15, <2>1
<1>17. Places(m, names, at)
  BY <1>6, <1>13, <1>16 DEF Places
<1> QED
  BY <1>6, <1>11, <1>12, <1>13, <1>17 DEF Tar, m, names
-----------------------------------------------------------------------------
(***************************************************************************)
(* Segments as tars.                                                       *)
(***************************************************************************)
(* What a segment has taken, with its last block filled up. *)
Whole(s) == Taken(s) \o Zeros(s.pad)

(* These are bytes, too. *)
LEMMA WholeIsStream ==
    ASSUME NEW s, IsSegment(s)
    PROVE  /\ Whole(s) \in Stream /\ Len(Whole(s)) = Len(Taken(s)) + s.pad
           /\ Taken(s) \in Stream /\ Len(Taken(s)) \in Nat /\ s.pad \in Nat
<1>1. Taken(s) \in Stream /\ s.pad \in Nat
  BY TakenCounts
<1>2. Zeros(s.pad) \in Stream /\ Len(Zeros(s.pad)) = s.pad
  BY <1>1, ZerosAt
<1>3. Len(Taken(s)) \in Nat
  BY <1>1, PlacesFinite
<1> QED
  BY <1>1, <1>2, <1>3, Concats DEF Whole

(* The next header follows the fill-up of the last block, *)
LEMMA PaddedKeeps ==
    ASSUME NEW s, IsSegment(s)
    PROVE  /\ IsSegment(Padded(s)) /\ Taken(Padded(s)) = Whole(s)
           /\ Padded(s).owed = s.owed /\ Padded(s).pad = 0
<1> DEFINE b == Buffered(s, Zeros(s.pad))
           r == Padded(s)
<1>1. s.pad \in Nat
  BY TakenCounts
<1>2. Takes(s, Zeros(s.pad), b)
  BY <1>1, ZerosAt, BufferedKeeps
<1>3. r = [b EXCEPT !.pad = 0]
  BY DEF Padded
<1> HIDE DEF b, r
<1>4. /\ b = [out |-> b.out, digested |-> b.digested, buffer |-> b.buffer,
              owed |-> b.owed, pad |-> b.pad]
      /\ IsSegment(b) /\ Taken(b) = Whole(s) /\ b.owed = s.owed
  BY <1>2 DEF Takes, IsSegment, Whole
<1>5. r = [out |-> b.out, digested |-> b.digested, buffer |-> b.buffer,
           owed |-> b.owed, pad |-> 0]
  BY <1>3, <1>4
<1>6. 0 \in 0..(Block - 1)
  BY BlockAssumption
<1>7. IsSegment(r)
  BY <1>4, <1>5, <1>6 DEF IsSegment
<1>8. Taken(r) = Taken(b)
  BY <1>5 DEF Taken
<1>9. r.owed = s.owed /\ r.pad = 0
  BY <1>4, <1>5
<1> QED
  BY <1>4, <1>7, <1>8, <1>9 DEF r

(* so a member with the body its header announces comes whole behind       *)
(* whole members.                                                          *)
LEMMA MemberIsTaken ==
    ASSUME NEW s, IsSegment(s), NEW name \in Names \ {"header", "zero"}, NEW of \in Names,
           NEW n \in Nat
    PROVE  /\ IsSegment(WithMember(s, name, n, of, n))
           /\ WithMember(s, name, n, of, n).owed = 0
           /\ Whole(WithMember(s, name, n, of, n)) = Whole(s) \o Member(name, of, n)
<1> DEFINE p == Padded(s)
           head == Header(name, n)
           body == Repeat(of, n)
           h == Buffered(p, head)
           b == Buffered(h, body)
           fill == RoundedUp(n) - n
           r == WithMember(s, name, n, of, n)
<1>1. IsSegment(p) /\ Taken(p) = Whole(s)
  BY PaddedKeeps
<1>2. head \in Stream /\ body \in Stream
  BY HeaderIsOne, RepeatAt
<1>3. fill \in 0..(Block - 1) /\ fill \in Nat /\ n - n = 0
  BY RoundingUp
<1>4. Zeros(fill) \in Stream
  BY <1>3, ZerosAt
<1>5. r = [b EXCEPT !.owed = n - n, !.pad = fill]
  BY DEF WithMember
<1>6. Member(name, of, n) = (head \o body) \o Zeros(fill)
  BY DEF Member
<1> HIDE DEF p, head, body, fill, r
<1>7. Takes(p, head, h)
  BY <1>1, <1>2, BufferedKeeps
<1> HIDE DEF h
<1>8. IsSegment(h) /\ Taken(h) = Whole(s) \o head
  BY <1>1, <1>7 DEF Takes
<1>9. Takes(h, body, b)
  BY <1>2, <1>8, BufferedKeeps
<1> HIDE DEF b
<1>10. /\ b = [out |-> b.out, digested |-> b.digested, buffer |-> b.buffer,
               owed |-> b.owed, pad |-> b.pad]
       /\ IsSegment(b) /\ Taken(b) = (Whole(s) \o head) \o body
  BY <1>8, <1>9 DEF Takes, IsSegment
<1>11. r = [out |-> b.out, digested |-> b.digested, buffer |-> b.buffer,
            owed |-> 0, pad |-> fill]
  BY <1>3, <1>5, <1>10
<1>12. IsSegment(r)
  <2>1. 0 \in Nat
    OBVIOUS
  <2> QED
    BY <1>3, <1>10, <1>11, <2>1 DEF IsSegment
<1>13. Taken(r) = Taken(b) /\ r.owed = 0 /\ r.pad = fill
  BY <1>11 DEF Taken
<1>14. Whole(r) = ((Whole(s) \o head) \o body) \o Zeros(fill)
  BY <1>10, <1>13 DEF Whole
<1>15. ((Whole(s) \o head) \o body) \o Zeros(fill) = Whole(s) \o ((head \o body) \o Zeros(fill))
  <2> DEFINE w == Whole(s)
             z == Zeros(fill)
  <2>1. w \in Stream /\ z \in Stream
    BY <1>4, WholeIsStream
  <2> HIDE DEF w, z
  <2>2. (w \o head) \o body = w \o (head \o body)
    BY <1>2, <2>1, Associates
  <2>3. head \o body \in Stream
    BY <1>2, Concats
  <2>4. (w \o (head \o body)) \o z = w \o ((head \o body) \o z)
    BY <2>1, <2>3, Associates
  <2> QED
    BY <2>2, <2>4 DEF w, z
<1> QED
  BY <1>6, <1>12, <1>13, <1>14, <1>15 DEF r

(* Whole members with one more behind them are a tar with one more name. *)
LEMMA MemberKeepsTar ==
    ASSUME NEW s, IsSegment(s), NEW names, Tar(Whole(s), names),
           NEW name \in Names \ {"header", "zero"}, NEW of \in Names, NEW n \in Nat
    PROVE  Tar(Whole(WithMember(s, name, n, of, n)), names \o <<name>>)
<1>1. Tar(Whole(s) \o Member(name, of, n), names \o <<name>>)
  BY MemberIsTar, JoinTars
<1> QED
  BY <1>1, MemberIsTaken

(* A segment without members, *)
LEMMA EmptyIsWhole == Whole(EmptySegment) = <<>>
<1> DEFINE none == <<>>
<1>1. EmptySegment = [out |-> none, digested |-> none, buffer |-> none, owed |-> 0, pad |-> 0]
  BY DEF EmptySegment
<1>2. Zeros(0) = none
  BY DEF Zeros
<1>3. none \in Stream /\ none \o none = none
  BY EmptySeq, ConcatEmptySeq DEF Stream
<1> HIDE DEF none
<1>4. Taken(EmptySegment) = none /\ EmptySegment.pad = 0
  BY <1>1, <1>3 DEF Taken
<1> QED
  BY <1>2, <1>3, <1>4 DEF Whole, none

(* bufio holds back what it has room for: *)
LEMMA BufferedHolds ==
    ASSUME NEW s, IsSegment(s), NEW bytes \in Stream, Len(s.buffer) + Len(bytes) <= BufSize
    PROVE  /\ Buffered(s, bytes).out = s.out
           /\ Len(Buffered(s, bytes).buffer) = Len(s.buffer) + Len(bytes)
<1> DEFINE b == s.buffer \o bytes
           r == Buffered(s, bytes)
<1>1. /\ s = [out |-> s.out, digested |-> s.digested, buffer |-> s.buffer,
              owed |-> s.owed, pad |-> s.pad]
      /\ s.buffer \in Stream /\ Len(s.buffer) \in Nat /\ Len(bytes) \in Nat /\ BufSize \in Nat
  BY PlacesFinite, BlockAssumption DEF IsSegment
<1>2. Len(bytes) <= BufSize - Len(s.buffer)
  BY <1>1
<1>3. r = [s EXCEPT !.buffer = b]
  BY <1>2 DEF Buffered
<1>4. Len(b) = Len(s.buffer) + Len(bytes)
  BY <1>1, Concats
<1> HIDE DEF b, r
<1>5. r = [out |-> s.out, digested |-> s.digested, buffer |-> b, owed |-> s.owed, pad |-> s.pad]
  BY <1>1, <1>3
<1> QED
  BY <1>4, <1>5 DEF r

(* so the Close of a tar behind a flush writes nothing but to the buffer. *)
LEMMA ClosedHolds ==
    ASSUME NEW s, IsSegment(s), s.buffer = <<>>
    PROVE  /\ IsSegment(TarClosed(s)) /\ TarClosed(s).out = s.out
           /\ Taken(TarClosed(s)) = (Whole(s) \o Zeros(Block)) \o Zeros(Block)
<1> DEFINE z == Zeros(Block)
           f == Zeros(s.pad)
           b == Buffered(s, f)
           p == Padded(s)
           h == Buffered(p, z)
           c == Buffered(h, z)
<1>1. /\ Block \in Nat /\ BufSize \in Nat /\ s.pad \in Nat /\ s.pad <= Block - 1
      /\ Len(s.buffer) = 0 /\ 3 * Block <= BufSize
  <2>1. s.pad \in 0..(Block - 1) /\ Block \in Nat /\ BufSize \in Nat /\ BufSize >= 3 * Block
    BY BlockAssumption DEF IsSegment
  <2>2. Len(s.buffer) = 0
    OBVIOUS
  <2> QED
    BY <2>1, <2>2
<1>2. z \in Stream /\ Len(z) = Block
  BY <1>1, ZerosAt
<1>3. f \in Stream /\ Len(f) = s.pad
  BY <1>1, ZerosAt
<1>4. IsSegment(p) /\ Taken(p) = Whole(s)
  BY PaddedKeeps
<1>5. p = [b EXCEPT !.pad = 0]
  BY DEF Padded
<1>6. TarClosed(s) = c
  BY DEF TarClosed
<1> HIDE DEF z, f, p, c, h
<1>7. b.out = s.out /\ Len(b.buffer) = s.pad
  <2>1. Len(s.buffer) + Len(f) <= BufSize
    BY <1>1, <1>3
  <2>2. b.out = s.out /\ Len(b.buffer) = Len(s.buffer) + Len(f)
    BY <1>3, <2>1, BufferedHolds
  <2> QED
    BY <1>1, <1>3, <2>2
<1>8. Takes(s, f, b)
  BY <1>3, BufferedKeeps
<1> HIDE DEF b
<1>9. b = [out |-> b.out, digested |-> b.digested, buffer |-> b.buffer,
           owed |-> b.owed, pad |-> b.pad]
  BY <1>8 DEF Takes, IsSegment
<1>10. p.out = s.out /\ Len(p.buffer) = s.pad
  BY <1>5, <1>7, <1>9
<1>11. Takes(p, z, h) /\ h.out = s.out /\ Len(h.buffer) = s.pad + Block
  <2>1. Len(p.buffer) + Len(z) <= BufSize
    BY <1>1, <1>2, <1>10
  <2>2. h.out = p.out /\ Len(h.buffer) = Len(p.buffer) + Len(z)
    BY <1>2, <1>4, <2>1, BufferedHolds DEF h
  <2>3. Takes(p, z, h)
    BY <1>2, <1>4, BufferedKeeps DEF h
  <2> QED
    BY <1>2, <1>10, <2>2, <2>3
<1>12. IsSegment(h) /\ Taken(h) = Whole(s) \o z
  BY <1>4, <1>11 DEF Takes
<1>13. Takes(h, z, c) /\ c.out = s.out
  <2>1. Len(h.buffer) + Len(z) <= BufSize
    BY <1>1, <1>2, <1>11
  <2>2. c.out = h.out
    BY <1>2, <1>12, <2>1, BufferedHolds DEF c
  <2>3. Takes(h, z, c)
    BY <1>2, <1>12, BufferedKeeps DEF c
  <2> QED
    BY <1>11, <2>2, <2>3
<1>14. IsSegment(c) /\ Taken(c) = (Whole(s) \o z) \o z
  BY <1>12, <1>13 DEF Takes
<1> QED
  BY <1>6, <1>13, <1>14 DEF z

(* Zeros behind zeros. *)
LEMMA ZerosJoin ==
    ASSUME NEW m \in Nat, NEW n \in Nat PROVE Zeros(m) \o Zeros(n) = Zeros(m + n)
<1> DEFINE a == Zeros(m)
           b == Zeros(n)
           c == Zeros(m + n)
<1>1. a \in Stream /\ Len(a) = m /\ \A i \in 1..m : a[i] = Byte("zero", 0)
  BY ZerosAt
<1>2. b \in Stream /\ Len(b) = n /\ \A i \in 1..n : b[i] = Byte("zero", 0)
  BY ZerosAt
<1>3. c \in Stream /\ Len(c) = m + n /\ \A i \in 1..(m + n) : c[i] = Byte("zero", 0)
  BY ZerosAt
<1> HIDE DEF a, b, c
<1> DEFINE ab == a \o b
<1>4. /\ ab \in Stream /\ Len(ab) = m + n
      /\ \A i \in 1..m : ab[i] = a[i]
      /\ \A i \in 1..n : ab[m + i] = b[i]
  BY <1>1, <1>2, ConcatAt
<1> HIDE DEF ab
<1>5. ASSUME NEW i \in 1..(m + n) PROVE ab[i] = c[i]
  <2>1. CASE i \in 1..m
    BY <1>1, <1>3, <1>4, <2>1
  <2>2. CASE i \notin 1..m
    <3>1. i - m \in 1..n /\ m + (i - m) = i
      BY <2>2
    <3>2. ab[i] = b[i - m]
      BY <1>4, <3>1
    <3> QED
      BY <1>2, <1>3, <3>1, <3>2
  <2> QED
    BY <2>1, <2>2
<1>6. ab = c
  BY <1>3, <1>4, <1>5, SeqEqual DEF Stream
<1> QED
  BY <1>6 DEF ab, a, b, c

(* What is aligned ends with a block. *)
LEMMA AlignedFills ==
    ASSUME NEW s, IsSegment(s), NEW p \in 0..(Block - 1), Multiple(Len(s.out) + p)
    PROVE  Aligned(s).out = s.out \o Zeros(p)
<1> DEFINE n == RoundedUp(Len(s.out)) - Len(s.out)
<1>1. Len(s.out) \in Nat
  BY TakenCounts
<1>2. n = p
  BY <1>1, FillIsUnique
<1>3. p \in Nat
  BY BlockAssumption
<1>4. Zeros(p) \in Stream
  BY <1>3, ZerosAt
<1>5. Pass(s, Zeros(p)).out = s.out \o Zeros(p)
  BY <1>4, PassKeeps
<1>6. Aligned(s) = Pass(s, Zeros(n))
  BY DEF Aligned
<1> HIDE DEF n
<1> QED
  BY <1>2, <1>5, <1>6

(* A cut segment is the members it has taken; a full one has the end of a  *)
(* tar behind them.                                                        *)
LEMMA SegmentEnds ==
    ASSUME NEW s, IsSegment(s), Multiple(Len(Whole(s)))
    PROVE  /\ Finished(s, "cut").out = Whole(s)
           /\ Finished(s, "full").out = Whole(s) \o Zeros(2 * Block)
<1> DEFINE f == Flushed(s)
           closed == TarClosed(f)
           last == Flushed(closed)
           w == Whole(s)
           z == Zeros(Block)
<1>1. w \in Stream /\ Len(w) = Len(Taken(s)) + s.pad /\ Len(Taken(s)) \in Nat /\ Taken(s) \in Stream
  BY WholeIsStream
<1>2. /\ IsSegment(f) /\ Taken(f) = Taken(s) /\ f.pad = s.pad
      /\ f.buffer = <<>> /\ f.out = Taken(s)
  <2>1. Takes(s, <<>>, f) /\ f.buffer = <<>> /\ f.out = Taken(s)
    BY FlushedKeeps
  <2>2. Taken(s) \o <<>> = Taken(s)
    BY <1>1, Concats
  <2> QED
    BY <2>1, <2>2 DEF Takes
<1>3. Finished(s, "cut") = Aligned(closed) /\ Finished(s, "full") = Aligned(last)
  BY DEF Finished
<1> HIDE DEF f
<1>4. Whole(f) = w
  BY <1>2 DEF Whole
<1>5. /\ IsSegment(closed) /\ closed.out = Taken(s)
      /\ Taken(closed) = (w \o z) \o z
  <2>1. /\ IsSegment(closed) /\ closed.out = f.out
        /\ Taken(closed) = (Whole(f) \o z) \o z
    BY <1>2, ClosedHolds
  <2> QED
    BY <1>2, <1>4, <2>1
<1> HIDE DEF closed
<1>6. s.pad \in 0..(Block - 1)
  BY DEF IsSegment
<1>7. Multiple(Len(closed.out) + s.pad)
  BY <1>1, <1>5
<1>8. Aligned(closed).out = w
  <2>1. Aligned(closed).out = closed.out \o Zeros(s.pad)
    BY <1>5, <1>6, <1>7, AlignedFills
  <2> QED
    BY <1>5, <2>1 DEF Whole
<1>9. IsSegment(last) /\ last.out = (w \o z) \o z
  <2>1. Takes(closed, <<>>, last) /\ last.out = Taken(closed)
    BY <1>5, FlushedKeeps
  <2> QED
    BY <1>5, <2>1 DEF Takes
<1> HIDE DEF last
<1>10. Block \in Nat /\ z \in Stream /\ Len(z) = Block
  <2>1. Block \in Nat
    BY BlockAssumption
  <2> QED
    BY <2>1, ZerosAt
<1>11. (w \o z) \o z = w \o Zeros(2 * Block)
  <2>1. z \o z = Zeros(Block + Block)
    BY <1>10, ZerosJoin
  <2>2. Block + Block = 2 * Block
    BY <1>10
  <2> HIDE DEF z, w
  <2>3. (w \o z) \o z = w \o (z \o z)
    BY <1>1, <1>10, Associates
  <2> QED
    BY <2>1, <2>2, <2>3
<1> DEFINE zz == Zeros(2 * Block)
           wz == w \o zz
<1>12. wz \in Stream /\ Len(wz) \in Nat /\ Multiple(Len(wz) + 0)
  <2>1. 2 * Block \in Nat /\ Multiple(2 * Block)
    BY FewBlocks
  <2>2. zz \in Stream /\ Len(zz) = 2 * Block
    BY <2>1, ZerosAt
  <2> HIDE DEF zz, w
  <2>3. wz \in Stream /\ Len(wz) = Len(w) + Len(zz) /\ Len(w) \in Nat
    BY <1>1, <2>2, Concats, PlacesFinite
  <2>4. Multiple(Len(w) + 2 * Block)
    BY <2>1, <2>3, Multiples DEF w
  <2>5. Len(wz) \in Nat /\ Len(wz) + 0 = Len(w) + 2 * Block
    <3> DEFINE B2 == 2 * Block
    <3> HIDE DEF B2
    <3> QED
      BY <2>1, <2>2, <2>3 DEF B2
  <2> QED
    BY <2>3, <2>4, <2>5
<1>13. Aligned(last).out = wz
  <2>1. 0 \in 0..(Block - 1)
    BY BlockAssumption
  <2>2. last.out = wz
    BY <1>9, <1>11
  <2> HIDE DEF wz
  <2>3. Aligned(last).out = last.out \o Zeros(0)
    BY <1>9, <1>12, <2>1, <2>2, AlignedFills
  <2>4. Zeros(0) = <<>>
    BY DEF Zeros
  <2> QED
    BY <1>12, <2>2, <2>3, <2>4, Concats
<1> QED
  BY <1>3, <1>8, <1>13
-----------------------------------------------------------------------------
(***************************************************************************)
(* The reader.                                                             *)
(***************************************************************************)
(* f says where the reader is after up to N members. *)
Follows(bytes, N, f) ==
    f = [i \in 0..N |-> IF i = 0 THEN 1 ELSE Behind(bytes, f[i - 1])]

(* The reader comes as far as it is asked to, *)
LEMMA StopsExist ==
    ASSUME NEW bytes, NEW N \in Nat PROVE \E f : Follows(bytes, N, f)
<1> DEFINE Holds == {k \in Nat : \E f : Follows(bytes, k, f)}
<1>1. 0 \in Holds
  <2>1. Follows(bytes, 0, [i \in 0..0 |-> 1])
    BY DEF Follows
  <2> QED
    BY <2>1
<1>2. ASSUME NEW k \in Holds PROVE k + 1 \in Holds
  <2>1. PICK f : Follows(bytes, k, f)
    OBVIOUS
  <2> DEFINE g == [i \in 0..(k + 1) |-> IF i = k + 1 THEN Behind(bytes, f[k]) ELSE f[i]]
  <2>2. \A i \in 0..k : f[i] = IF i = 0 THEN 1 ELSE Behind(bytes, f[i - 1])
    BY <2>1 DEF Follows
  <2>3. ASSUME NEW i \in 0..(k + 1)
        PROVE  g[i] = IF i = 0 THEN 1 ELSE Behind(bytes, g[i - 1])
    <3>1. CASE i = k + 1
      <4>1. i # 0 /\ i - 1 = k /\ g[i - 1] = f[k]
        BY <3>1
      <4> QED
        BY <3>1, <4>1
    <3>2. CASE i \in 0..k
      <4>1. i # k + 1 /\ g[i] = f[i] /\ (i # 0 => g[i - 1] = f[i - 1])
        BY <3>2
      <4> QED
        BY <2>2, <3>2, <4>1
    <3> QED
      BY <3>1, <3>2
  <2>4. Follows(bytes, k + 1, g)
    BY <2>3 DEF Follows
  <2> HIDE DEF g
  <2> QED
    BY <2>4
<1>3. Holds \subseteq Nat
  OBVIOUS
<1> HIDE DEF Holds
<1>4. Holds = Nat
  BY <1>1, <1>2, <1>3, Loops!Counting
<1> QED
  BY <1>4 DEF Holds

(* and its stops are those of the recursive definition, *)
LEMMA StopsDefined ==
    ASSUME NEW bytes, NEW n \in Nat
    PROVE  /\ Stops(bytes, n)[0] = 1
           /\ \A i \in 1..n : Stops(bytes, n)[i] = Behind(bytes, Stops(bytes, n)[i - 1])
<1> DEFINE f == Stops(bytes, n)
<1>1. \E g : Follows(bytes, n, g)
  BY StopsExist
<1>2. Follows(bytes, n, f)
  BY <1>1, Zenon DEF Follows, Stops
<1> HIDE DEF f
<1>3. \A i \in 0..n : f[i] = IF i = 0 THEN 1 ELSE Behind(bytes, f[i - 1])
  BY <1>2 DEF Follows
<1>4. 0 \in 0..n /\ \A i \in 1..n : i \in 0..n /\ i # 0
  OBVIOUS
<1>5. f[0] = 1 /\ \A i \in 1..n : f[i] = Behind(bytes, f[i - 1])
  BY <1>3, <1>4
<1> QED
  BY <1>5 DEF f

(* and of a tar with an end behind it it finds the members and the end. *)
LEMMA TarIsRead ==
    ASSUME NEW bytes, NEW names, Tar(bytes, names)
    PROVE  /\ Len(bytes \o Zeros(2 * Block)) % Block = 0
           /\ Reads(bytes \o Zeros(2 * Block), names)
<1> DEFINE z == Zeros(2 * Block)
           all == bytes \o z
           n == Len(names)
           f == Stops(all, n)
<1>1. bytes \in Stream /\ names \in Seq(Names) /\ Multiple(Len(bytes))
  BY DEF Tar
<1>2. PICK at \in [0..n -> Nat \ {0}] : Places(bytes, names, at)
  BY DEF Tar
<1>3. 2 * Block \in Nat /\ Multiple(2 * Block)
  BY FewBlocks
<1>4. z \in Stream /\ Len(z) = 2 * Block /\ \A i \in 1..(2 * Block) : z[i] = Byte("zero", 0)
  BY <1>3, ZerosAt
<1>5. n \in Nat /\ DOMAIN names = 1..n
  BY <1>1, LenProperties
<1>6. f[0] = 1 /\ \A i \in 1..n : f[i] = Behind(all, f[i - 1])
  BY <1>5, StopsDefined
<1>7. Reads(all, names) <=>
         /\ \A i \in 1..n : IsHeader(all, f[i - 1]) /\ all[f[i - 1]].of = names[i]
         /\ IsEnd(all, f[n])
  BY <1>5 DEF Reads
<1> HIDE DEF z
<1>8. /\ all \in Stream /\ Len(all) = Len(bytes) + Len(z) /\ Len(bytes) \in Nat
      /\ \A i \in 1..Len(z) : all[Len(bytes) + i] = z[i]
  BY <1>1, <1>4, ConcatAt
<1> HIDE DEF n, f
<1>9. /\ at[0] = 1 /\ at[n] = Len(bytes) + 1
      /\ \A i \in 1..n : /\ IsHeader(bytes, at[i - 1]) /\ bytes[at[i - 1]].of = names[i]
                         /\ at[i] = at[i - 1] + Block + RoundedUp(bytes[at[i - 1]].size)
  BY <1>2 DEF Places, n
<1>10. ASSUME NEW i \in 1..n
       PROVE  IsHeader(all, at[i - 1]) /\ all[at[i - 1]] = bytes[at[i - 1]]
  <2>1. at[i - 1] \in Nat \ {0}
    <3>1. i - 1 \in 0..n
      BY <1>5
    <3> QED
      BY <1>2, <3>1
  <2> QED
    BY <1>1, <1>4, <1>9, <2>1, HeaderStays
<1>11. \A i \in 1..n : Behind(all, at[i - 1]) = at[i]
  BY <1>9, <1>10 DEF Behind
<1> HIDE DEF all
<1>12. \A i \in 0..n : f[i] = at[i]
  <2> DEFINE Holds == {k \in Nat : k <= n => f[k] = at[k]}
  <2>1. 0 \in Holds
    BY <1>6, <1>9
  <2>2. ASSUME NEW k \in Holds PROVE k + 1 \in Holds
    <3>1. SUFFICES ASSUME k + 1 <= n PROVE f[k + 1] = at[k + 1]
      OBVIOUS
    <3>2. k + 1 \in 1..n /\ (k + 1) - 1 = k /\ f[k] = at[k]
      BY <1>5, <3>1
    <3> QED
      BY <1>6, <1>11, <3>2
  <2>3. Holds \subseteq Nat
    OBVIOUS
  <2>4. Holds = Nat
    <3> HIDE DEF Holds
    <3> QED
      BY <2>1, <2>2, <2>3, Loops!Counting
  <2>5. ASSUME NEW i \in 0..n PROVE f[i] = at[i]
    <3>1. i \in Nat /\ i <= n
      BY <1>5
    <3>2. i \in Holds
      BY <2>4, <3>1
    <3> QED
      BY <3>1, <3>2
  <2> QED
    BY <2>5
<1>13. \A i \in 1..n : IsHeader(all, f[i - 1]) /\ all[f[i - 1]].of = names[i]
  <2>1. \A i \in 1..n : i - 1 \in 0..n
    BY <1>5
  <2> QED
    BY <1>9, <1>10, <1>12, <2>1
<1>14. IsEnd(all, f[n])
  <2>1. f[n] = Len(bytes) + 1
    BY <1>5, <1>9, <1>12
  <2> DEFINE B2 == 2 * Block
  <2>2. B2 \in Nat
    BY <1>3
  <2>3. f[n] + B2 - 1 <= Len(all) /\ Len(z) = B2
    <3> HIDE DEF B2
    <3> QED
      BY <1>4, <1>8, <2>1, <2>2 DEF B2
  <2>4. ASSUME NEW i \in 0..(B2 - 1) PROVE all[f[n] + i] = Byte("zero", 0)
    <3>1. i + 1 \in 1..B2 /\ Len(bytes) + (i + 1) = f[n] + i
      <4> HIDE DEF B2
      <4> QED
        BY <1>8, <2>1, <2>2
    <3>2. all[Len(bytes) + (i + 1)] = z[i + 1]
      BY <1>8, <2>3, <3>1
    <3> QED
      BY <1>4, <3>1, <3>2
  <2> QED
    BY <2>3, <2>4 DEF IsEnd
<1>15. Len(all) % Block = 0
  <2>1. Len(all) \in Nat /\ Multiple(Len(all))
    BY <1>1, <1>3, <1>4, <1>8, Multiples
  <2> QED
    BY <2>1, MultipleMod
<1>16. Reads(all, names)
  BY <1>7, <1>13, <1>14
<1> QED
  BY <1>15, <1>16 DEF all, z

(* Sequences, one element longer. *)
LEMMA Appending ==
    ASSUME NEW f, NEW g, NEW k \in Nat, NEW x \in Names,
           f \in [1..k -> Names], g \in [1..(k + 1) -> Names],
           \A i \in 1..k : g[i] = f[i], g[k + 1] = x
    PROVE  g = f \o <<x>> /\ f \in Seq(Names)
<1> DEFINE one == <<x>>
           h == f \o one
<1>1. one \in Seq(Names) /\ Len(one) = 1 /\ one[1] = x
  OBVIOUS
<1>2. f \in Seq(Names) /\ g \in Seq(Names) /\ DOMAIN f = 1..k /\ DOMAIN g = 1..(k + 1)
  BY SeqDef
<1>3. Len(f) = k /\ Len(g) = k + 1
  BY <1>2, LenProperties
<1> HIDE DEF one
<1>4. /\ h \in Seq(Names) /\ Len(h) = Len(f) + Len(one)
      /\ \A i \in 1..(Len(f) + Len(one)) : h[i] = IF i <= Len(f) THEN f[i] ELSE one[i - Len(f)]
  BY <1>1, <1>2, ConcatProperties
<1> HIDE DEF h
<1>5. Len(h) = Len(g)
  BY <1>1, <1>3, <1>4
<1>6. ASSUME NEW i \in 1..Len(g) PROVE h[i] = g[i]
  <2>1. CASE i <= k
    BY <1>1, <1>3, <1>4, <2>1
  <2>2. CASE ~ (i <= k)
    <3>1. i = k + 1 /\ i - k = 1
      BY <1>3, <2>2
    <3> QED
      BY <1>1, <1>3, <1>4, <3>1
  <2> QED
    BY <2>1, <2>2
<1>7. h = g
  BY <1>2, <1>4, <1>5, <1>6, SeqEqual
<1> QED
  BY <1>2, <1>7 DEF h, one

(* The members of the control segment behind .PKGINFO, and those of the    *)
(* data segment.                                                           *)
ScriptNames(n) == [i \in 1..n |-> "script"]

ContentNames(n) == [i \in 1..n |-> contents[i].dst]

(* One script more is one name more, *)
LEMMA ScriptNamesGrow ==
    ASSUME NEW k \in Nat
    PROVE  /\ ScriptNames(k) \in Seq(Names) /\ ScriptNames(0) = <<>>
           /\ ScriptNames(k + 1) = ScriptNames(k) \o <<"script">>
<1> DEFINE x == "script"
           f == ScriptNames(k)
           g == ScriptNames(k + 1)
<1>1. x \in Names
  BY DEF Names
<1>2. f \in [1..k -> Names] /\ g \in [1..(k + 1) -> Names]
  BY <1>1 DEF ScriptNames
<1>3. \A i \in 1..k : g[i] = f[i]
  BY DEF ScriptNames
<1>4. g[k + 1] = x
  BY DEF ScriptNames
<1>5. ScriptNames(0) = <<>>
  BY DEF ScriptNames
<1> HIDE DEF x, f, g
<1>6. g = f \o <<x>> /\ f \in Seq(Names)
  BY <1>1, <1>2, <1>3, <1>4, Appending
<1> QED
  BY <1>5, <1>6 DEF x, f, g

(* and one content more, too. *)
LEMMA ContentNamesGrow ==
    ASSUME contents \in Inputs, NEW k \in Nat, k < Len(contents)
    PROVE  /\ ContentNames(0) = <<>>
           /\ ContentNames(k + 1) = ContentNames(k) \o <<contents[k + 1].dst>>
<1> DEFINE x == contents[k + 1].dst
           f == ContentNames(k)
           g == ContentNames(k + 1)
<1>1. Len(contents) \in Nat /\ \A i \in 1..Len(contents) : contents[i].dst \in Names
  BY ContentsAreListed, ContentIsListed
<1>2. x \in Names
  BY <1>1
<1>3. f \in [1..k -> Names] /\ g \in [1..(k + 1) -> Names]
  BY <1>1 DEF ContentNames
<1>4. \A i \in 1..k : g[i] = f[i]
  BY DEF ContentNames
<1>5. g[k + 1] = x
  BY DEF ContentNames
<1>6. ContentNames(0) = <<>>
  BY DEF ContentNames
<1> HIDE DEF x, f, g
<1>7. g = f \o <<x>>
  BY <1>2, <1>3, <1>4, <1>5, Appending
<1> QED
  BY <1>6, <1>7 DEF x, f, g

(* The control segment is .PKGINFO and the scripts. *)
LEMMA ControlIsTar ==
    ASSUME NEW s, IsSegment(s), Tar(Whole(s), <<>>), NEW scripts \in Seq(Sources),
           host \in [Sources -> Versions \cup {Gone}],
           \A i \in DOMAIN scripts : Exists(scripts[i])
    PROVE  Tar(Whole(ControlUpTo(s, scripts)[Len(scripts)]),
               <<".PKGINFO">> \o ScriptNames(Len(scripts)))
<1> DEFINE N == Len(scripts)
           f == ControlUpTo(s, scripts)
           first == <<".PKGINFO">>
           Holds == {k \in Nat : k <= N =>
                        IsSegment(f[k]) /\ Tar(Whole(f[k]), first \o ScriptNames(k))}
<1>1. N \in Nat /\ DOMAIN scripts = 1..N /\ \A n \in 1..N : scripts[n] \in Sources
  BY LenProperties
<1>2. /\ f[0] = WithMember(s, ".PKGINFO", 1, "pkginfo", 1)
      /\ \A n \in 1..N : f[n] = WithScript(f[n - 1], scripts[n])
  <2>1. Controls(s, scripts, N, f)
    BY <1>1, ControlDefined
  <2> HIDE DEF f, N
  <2>2. \A n \in 0..N : f[n] = IF n = 0 THEN WithMember(s, ".PKGINFO", 1, "pkginfo", 1)
                              ELSE WithScript(f[n - 1], scripts[n])
    BY <2>1 DEF Controls
  <2>3. 0 \in 0..N /\ \A n \in 1..N : n \in 0..N /\ n # 0
    BY <1>1
  <2> QED
    BY <2>2, <2>3
<1>3. first \in Seq(Names)
  BY DEF Names
<1> HIDE DEF f, N
<1>4. 0 \in Holds
  <2> DEFINE name == ".PKGINFO"
             of == "pkginfo"
  <2>1. name \in Names \ {"header", "zero"} /\ of \in Names
    BY DEF Names
  <2>2. f[0] = WithMember(s, name, 1, of, 1) /\ first = <<name>>
    BY <1>2
  <2> HIDE DEF name, of, first
  <2>3. IsSegment(f[0]) /\ Tar(Whole(f[0]), <<>> \o first)
    <3>1. IsSegment(WithMember(s, name, 1, of, 1))
      BY <2>1, MemberIsTaken
    <3>2. Tar(Whole(WithMember(s, name, 1, of, 1)), <<>> \o <<name>>)
      BY <2>1, MemberKeepsTar
    <3> QED
      BY <2>2, <3>1, <3>2
  <2>4. <<>> \o first = first /\ first \o <<>> = first
    BY <1>3, ConcatEmptySeq
  <2>5. ScriptNames(0) = <<>>
    BY ScriptNamesGrow
  <2> QED
    BY <2>3, <2>4, <2>5
<1>5. ASSUME NEW k \in Holds PROVE k + 1 \in Holds
  <2>1. SUFFICES ASSUME k + 1 <= N
                 PROVE  IsSegment(f[k + 1]) /\ Tar(Whole(f[k + 1]), first \o ScriptNames(k + 1))
    OBVIOUS
  <2>2. k + 1 \in 1..N /\ k + 1 - 1 = k /\ k <= N /\ k \in Nat
    BY <1>1, <2>1
  <2> DEFINE src == scripts[k + 1]
             name == "script"
             of == host[src]
             n == Bytes(src)
  <2>3. f[k + 1] = WithMember(f[k], name, n, of, n)
    BY <1>2, <2>2 DEF WithScript
  <2>4. IsSegment(f[k]) /\ Tar(Whole(f[k]), first \o ScriptNames(k))
    BY <2>2
  <2>5. src \in Sources /\ of \in Versions
    BY <1>1, <2>2 DEF Exists
  <2>6. n \in Nat
    BY <2>5, LengthAssumption DEF Bytes
  <2>7. name \in Names \ {"header", "zero"} /\ of \in Names
    <3>1. name \in Names \ {"header", "zero"}
      BY DEF Names
    <3>2. of \in Names
      BY <2>5 DEF Names
    <3> QED
      BY <3>1, <3>2
  <2>8. /\ ScriptNames(k) \in Seq(Names)
        /\ ScriptNames(k + 1) = ScriptNames(k) \o <<name>>
    BY <2>2, ScriptNamesGrow
  <2> HIDE DEF src, name, of, n, first
  <2>9. IsSegment(f[k + 1])
    BY <2>3, <2>4, <2>6, <2>7, MemberIsTaken
  <2>10. Tar(Whole(f[k + 1]), (first \o ScriptNames(k)) \o <<name>>)
    BY <2>3, <2>4, <2>6, <2>7, MemberKeepsTar
  <2>11. (first \o ScriptNames(k)) \o <<name>> = first \o (ScriptNames(k) \o <<name>>)
    <3>1. <<name>> \in Seq(Names)
      BY <2>7
    <3> QED
      BY <1>3, <2>8, <3>1, ConcatAssociative
  <2> QED
    BY <2>8, <2>9, <2>10, <2>11
<1>6. Holds \subseteq Nat
  OBVIOUS
<1>7. N \in Holds
  <2> HIDE DEF Holds
  <2>1. Holds = Nat
    BY <1>4, <1>5, <1>6, Loops!Counting
  <2> QED
    BY <1>1, <2>1
<1> QED
  BY <1>1, <1>7 DEF f, N

(* The segments one behind the other: the first N of them, *)
Behinds(parts, N, f) ==
    f = [i \in 0..N |-> IF i = 0 THEN <<>> ELSE f[i - 1] \o parts[i].out]

(* which exist, *)
LEMMA BehindsExist ==
    ASSUME NEW parts, NEW N \in Nat PROVE \E f : Behinds(parts, N, f)
<1> DEFINE Holds == {k \in Nat : \E f : Behinds(parts, k, f)}
           none == <<>>
<1>1. 0 \in Holds
  <2>1. Behinds(parts, 0, [i \in 0..0 |-> none])
    BY DEF Behinds
  <2> QED
    BY <2>1
<1>2. ASSUME NEW k \in Holds PROVE k + 1 \in Holds
  <2>1. PICK f : Behinds(parts, k, f)
    OBVIOUS
  <2> DEFINE last == f[k] \o parts[k + 1].out
             g == [i \in 0..(k + 1) |-> IF i = k + 1 THEN last ELSE f[i]]
  <2>2. \A i \in 0..k : f[i] = IF i = 0 THEN none ELSE f[i - 1] \o parts[i].out
    BY <2>1 DEF Behinds
  <2>3. ASSUME NEW i \in 0..(k + 1)
        PROVE  g[i] = IF i = 0 THEN none ELSE g[i - 1] \o parts[i].out
    <3>1. CASE i = k + 1
      <4>1. i # 0 /\ i - 1 = k /\ g[i - 1] = f[k] /\ g[i] = last
        BY <3>1
      <4> QED
        BY <3>1, <4>1
    <3>2. CASE i \in 0..k
      <4>1. i # k + 1 /\ g[i] = f[i] /\ (i # 0 => g[i - 1] = f[i - 1])
        BY <3>2
      <4> QED
        BY <2>2, <3>2, <4>1
    <3> QED
      BY <3>1, <3>2
  <2>4. Behinds(parts, k + 1, g)
    BY <2>3 DEF Behinds
  <2> HIDE DEF g
  <2> QED
    BY <2>4
<1>3. Holds \subseteq Nat
  OBVIOUS
<1> HIDE DEF Holds
<1>4. Holds = Nat
  BY <1>1, <1>2, <1>3, Loops!Counting
<1> QED
  BY <1>4 DEF Holds

(* and all of them. *)
LEMMA ConcatDefined ==
    ASSUME NEW parts, Len(parts) \in Nat, Len(parts) > 1, parts[1].out \in Stream
    PROVE  /\ ConcatUpTo(parts)[1] = parts[1].out
           /\ \A i \in 2..Len(parts) :
                 ConcatUpTo(parts)[i] = ConcatUpTo(parts)[i - 1] \o parts[i].out
<1> DEFINE f == ConcatUpTo(parts)
           n == Len(parts)
           first == parts[1].out
<1>1. \E g : Behinds(parts, n, g)
  BY BehindsExist
<1>2. Behinds(parts, n, f)
  BY <1>1, Zenon DEF Behinds, ConcatUpTo
<1>3. <<>> \o first = first
  BY Concats
<1> HIDE DEF f, n, first
<1>4. \A i \in 0..n : f[i] = IF i = 0 THEN <<>> ELSE f[i - 1] \o parts[i].out
  BY <1>2 DEF Behinds
<1>5. 0 \in 0..n /\ 1 \in 0..n /\ \A i \in 2..n : i \in 0..n /\ i # 0
  BY DEF n
<1>6. f[0] = <<>>
  BY <1>4, <1>5
<1>7. f[1] = first
  <2>1. f[1] = f[1 - 1] \o parts[1].out
    BY <1>4, <1>5
  <2>2. 1 - 1 = 0
    OBVIOUS
  <2> QED
    BY <1>3, <1>6, <2>1, <2>2 DEF first
<1>8. \A i \in 2..n : f[i] = f[i - 1] \o parts[i].out
  BY <1>4, <1>5
<1> QED
  BY <1>7, <1>8 DEF f, n, first

(* Two segments are those of a package without a signature, *)
LEMMA ConcatOfTwo ==
    ASSUME NEW parts, Len(parts) = 2, parts[1].out \in Stream
    PROVE  Concat(parts) = parts[1].out \o parts[2].out
<1>1. Len(parts) \in Nat /\ Len(parts) > 1 /\ 2 \in 2..Len(parts) /\ 2 - 1 = 1
  OBVIOUS
<1> QED
  BY <1>1, ConcatDefined DEF Concat

(* three those of one with it. *)
LEMMA ConcatOfThree ==
    ASSUME NEW parts, Len(parts) = 3, parts[1].out \in Stream
    PROVE  Concat(parts) = (parts[1].out \o parts[2].out) \o parts[3].out
<1>1. Len(parts) \in Nat /\ Len(parts) > 1 /\ 2 \in 2..Len(parts) /\ 2 - 1 = 1
      /\ 3 \in 2..Len(parts) /\ 3 - 1 = 2
  OBVIOUS
<1> DEFINE f == ConcatUpTo(parts)
<1>2. f[1] = parts[1].out /\ \A i \in 2..Len(parts) : f[i] = f[i - 1] \o parts[i].out
  BY <1>1, ConcatDefined
<1>3. Concat(parts) = f[3]
  BY DEF Concat
<1> HIDE DEF f
<1>4. f[2] = f[2 - 1] \o parts[2].out /\ f[3] = f[3 - 1] \o parts[3].out
  BY <1>1, <1>2
<1> QED
  BY <1>1, <1>2, <1>3, <1>4
-----------------------------------------------------------------------------
(***************************************************************************)
(* The members of the segments, at every step.                             *)
(***************************************************************************)
(* The last segment alone has the end of a tar. *)
DataTar(s) ==
    \E bytes : Tar(bytes, ContentNames(Len(contents))) /\ s.out = bytes \o Zeros(2 * Block)

ControlNames == <<".PKGINFO">> \o ScriptNames(Len(settings.scripts))

TarInv ==
    /\ pc = "start" => next = 1
    /\ pc \in {"start", "data"} /\ Settled(current) =>
          Tar(Whole(current), ContentNames(next - 1))
    /\ pc \in {"control", "signature"} => current = EmptySegment
    /\ pc \in {"control", "signature", "combine", "done"} => DataTar(Data)
    /\ pc \in {"signature", "combine", "done"} =>
          Tar(segments[Len(segments) - 1].out, ControlNames)
    /\ Combining /\ Signed(settings.signature) => Tar(segments[1].out, <<".SIGN">>)

(* Nothing is in any segment at first. *)
LEMMA InitTar == Init => TarInv
<1> SUFFICES ASSUME Init PROVE TarInv
  OBVIOUS
<1>1. pc = "start" /\ next = 1 /\ current = EmptySegment /\ next - 1 = 0 /\ contents \in Inputs
  BY DEF Init
<1>2. ContentNames(0) = <<>>
  BY DEF ContentNames
<1>3. Tar(Whole(current), ContentNames(next - 1))
  BY <1>1, <1>2, EmptyIsWhole, EmptyIsTar
<1> QED
  BY <1>1, <1>3 DEF TarInv, Combining

(* Taking the sizes changes no segment. *)
LEMMA StartTar == ApkInv /\ TarInv /\ Start => TarInv'
<1> SUFFICES ASSUME ApkInv, TarInv, Start PROVE TarInv'
  OBVIOUS
<1>1. /\ UNCHANGED <<contents, settings, host, next, current, segments>>
      /\ pc = "start" /\ pc' \in {"data", "failed"}
  BY DEF Start, segment, made
<1>2. (Settled(current) => Tar(Whole(current), ContentNames(next - 1)))'
  BY <1>1 DEF TarInv, Settled, Whole, Taken, ContentNames
<1> QED
  BY <1>1, <1>2 DEF TarInv, Combining

(* A packager that fails promises nothing. *)
LEMMA FailTar == ASSUME pc' = "failed" PROVE TarInv'
  BY DEF TarInv, Combining

(* A content whose file has as many bytes as the preparation found is a    *)
(* member more; with any other the segment is never settled again.         *)
LEMMA AddContentTar ==
    ASSUME ApkInv, TarInv, pc = "data", next <= Len(contents), AddContent(contents[next]),
           UNCHANGED <<input, host, touches>>
    PROVE  TarInv'
<1> DEFINE c == contents[next]
           n == sizes[next]
           names == ContentNames(next - 1)
<1>1. /\ contents \in Inputs /\ IsSegment(current)
      /\ host \in [Sources -> Versions \cup {Gone}]
      /\ Len(contents) \in Nat /\ next \in 1..Len(contents)
      /\ n \in Nat
  <2>1. /\ contents \in Inputs /\ IsSegment(current) /\ next \in 1..(Len(contents) + 1)
        /\ sizes \in [DOMAIN contents -> Nat]
        /\ host \in [Sources -> Versions \cup {Gone}]
    BY DEF ApkInv, MadeInv
  <2>2. Len(contents) \in Nat /\ DOMAIN contents = 1..Len(contents)
    BY <2>1, ContentsAreListed
  <2>3. next \in 1..Len(contents)
    BY <2>1, <2>2
  <2> QED
    BY <2>1, <2>2, <2>3
<1>2. /\ c.dst \in Names \ {"header", "zero"}
      /\ c.type \in FileTypes => c.src \in Sources
  <2>1. next \in DOMAIN contents
    BY <1>1, ContentsAreListed
  <2> QED
    BY <1>1, <2>1, ContentIsListed, InputsAssumption
<1>3. UNCHANGED <<contents, settings, sizes, host>>
  BY DEF input
<1>4. SUFFICES ASSUME ~ Fail PROVE TarInv'
  BY FailTar DEF Fail
<1>5. /\ UNCHANGED <<pc, segments>> /\ next' = next + 1 /\ Settled(current)
      /\ \/ /\ c.type \in FileTypes /\ Exists(c.src) /\ Bytes(c.src) <= n
            /\ current' = WithMember(current, c.dst, n, host[c.src], Bytes(c.src))
         \/ current' = WithMember(current, c.dst, 0, "", 0)
  BY <1>4 DEF AddContent, made
<1>6. /\ Tar(Whole(current), names)
      /\ ContentNames(next) = names \o <<c.dst>>
  <2>1. next - 1 \in Nat /\ next - 1 < Len(contents) /\ (next - 1) + 1 = next
    BY <1>1
  <2>2. ContentNames((next - 1) + 1) = ContentNames(next - 1) \o <<contents[(next - 1) + 1].dst>>
    BY <1>1, <2>1, ContentNamesGrow
  <2> QED
    BY <1>5, <2>1, <2>2 DEF TarInv
<1> HIDE DEF c, n, names
<1>7. ASSUME Settled(current') PROVE Tar(Whole(current'), ContentNames(next))
  <2>1. CASE /\ c.type \in FileTypes /\ Exists(c.src) /\ Bytes(c.src) <= n
             /\ current' = WithMember(current, c.dst, n, host[c.src], Bytes(c.src))
    <3> DEFINE v == host[c.src]
               b == Bytes(c.src)
    <3>1. v \in Names /\ b \in Nat
      <4>1. host[c.src] \in Versions
        BY <1>1, <1>2, <2>1 DEF Exists
      <4> QED
        BY <4>1, LengthAssumption DEF Bytes, Names
    <3>2. current' = WithMember(current, c.dst, n, v, b)
      BY <2>1
    <3> HIDE DEF v, b
    <3>3. current'.owed = n - b
      <4> DEFINE z == Buffered(Buffered(Padded(current), Header(c.dst, n)), Repeat(v, b))
      <4>1. current' = [z EXCEPT !.owed = n - b, !.pad = RoundedUp(n) - n]
        BY <3>2 DEF WithMember
      <4>2. HasJoined(current, WithMember(current, c.dst, n, v, b),
                      IF v \in Versions THEN b ELSE 0, n - b)
        <5>1. c.dst \in Names /\ c.dst \notin Versions /\ b <= n
          BY <1>1, <1>2, <2>1, ContentIsListed DEF b, c
        <5> QED
          BY <1>1, <3>1, <5>1, MemberGrows
      <4> QED
        BY <3>2, <4>2 DEF HasJoined
    <3>4. b = n
      BY <1>1, <1>7, <3>1, <3>3 DEF Settled
    <3> QED
      BY <1>1, <1>2, <1>6, <3>1, <3>2, <3>4, MemberKeepsTar
  <2>2. CASE current' = WithMember(current, c.dst, 0, "", 0)
    <3> DEFINE v == ""
    <3>1. v \in Names /\ 0 \in Nat
      BY DEF Names
    <3>2. current' = WithMember(current, c.dst, 0, v, 0)
      BY <2>2
    <3> HIDE DEF v
    <3> QED
      BY <1>1, <1>2, <1>6, <3>1, <3>2, MemberKeepsTar
  <2> QED
    BY <1>5, <2>1, <2>2
<1>8. pc' = "data" /\ next' - 1 = next
  <2>1. next \in Int
    BY <1>1
  <2>2. next' - 1 = next
    <3>1. next' = next + 1
      BY <1>5
    <3> QED
      BY <2>1, <3>1
  <2>3. pc' = "data"
    BY <1>5
  <2> QED
    BY <2>2, <2>3
<1>9. (Settled(current) => Tar(Whole(current), ContentNames(next - 1)))'
  <2>1. ContentNames(next - 1)' = ContentNames(next)
    BY <1>3, <1>8 DEF ContentNames
  <2>2. Tar(Whole(current), ContentNames(next - 1))' <=> Tar(Whole(current'), ContentNames(next))
    BY <2>1 DEF Whole, Taken
  <2> QED
    BY <1>7, <2>2 DEF Settled
<1> QED
  BY <1>8, <1>9 DEF TarInv, Combining

(* The data segment ends with its contents: all of them, for it is         *)
(* finished when there is none left.                                       *)
LEMMA FinishTar ==
    ASSUME ApkInv, TarInv, pc = "data", Settled(current), ~ (next <= Len(contents)),
           Finish("full"), pc' = "control", UNCHANGED <<input, host, touches>>
    PROVE  TarInv'
<1> DEFINE s == Finished(current, "full")
           w == Whole(current)
           names == ContentNames(Len(contents))
<1>1. /\ IsSegment(current) /\ contents \in Inputs /\ segments \in Seq(Made)
      /\ Len(segments) = 0 /\ next - 1 = Len(contents)
  <2>1. /\ IsSegment(current) /\ contents \in Inputs /\ segments \in Seq(Made)
        /\ Len(segments) = 0 /\ next \in 1..(Len(contents) + 1)
    BY DEF ApkInv, MadeInv, DataInv
  <2>2. next - 1 = Len(contents)
    BY <2>1, ContentsAreListed
  <2> QED
    BY <2>1, <2>2
<1>2. Tar(w, names)
  BY <1>1 DEF TarInv
<1>3. s.out = w \o Zeros(2 * Block) /\ IsSegment(s)
  <2>1. Multiple(Len(w))
    BY <1>2 DEF Tar
  <2> QED
    BY <1>1, <2>1, SegmentEnds, FinishedKeeps
<1>4. segments' = <<s>> \o segments /\ current' = EmptySegment
  BY DEF Finish
<1> HIDE DEF s, w, names
<1>5. Len(segments') = 1 /\ segments'[1] = s
  BY <1>1, <1>3, <1>4, SegmentIsMade, Prepending
<1>6. Data' = s
  BY <1>5 DEF Data
<1>7. ContentNames(Len(contents))' = names
  BY DEF ContentNames, input, names
<1>8. DataTar(Data)'
  <2>1. \E bytes : Tar(bytes, names) /\ s.out = bytes \o Zeros(2 * Block)
    BY <1>2, <1>3
  <2> QED
    BY <1>6, <1>7, <2>1 DEF DataTar
<1> QED
  BY <1>4, <1>8 DEF TarInv, Combining

(* A step of the data segment adds a content or finishes it. *)
LEMMA DataStepTar == ApkInv /\ TarInv /\ CreateData => TarInv'
<1> SUFFICES ASSUME ApkInv, TarInv, CreateData, ~ Fail PROVE TarInv'
  BY FailTar DEF Fail
<1>1. pc = "data" /\ UNCHANGED <<input, host, touches>>
  BY DEF CreateData
<1>2. CASE next <= Len(contents)
  BY <1>1, <1>2, AddContentTar DEF CreateData
<1>3. CASE ~ (next <= Len(contents))
  <2>1. Settled(current) /\ Finish("full") /\ pc' = "control"
    BY <1>3 DEF CreateData
  <2> QED
    BY <1>1, <1>3, <2>1, FinishTar
<1> QED
  BY <1>2, <1>3

(* A segment in front of the others leaves the data what they are. *)
LEMMA BeforeTar ==
    ASSUME ApkInv, TarInv, pc \in {"control", "signature"},
           NEW s, IsSegment(s), segments' = <<s>> \o segments,
           UNCHANGED <<input, host, touches>>
    PROVE  /\ DataTar(Data)' /\ ControlNames' = ControlNames
           /\ Len(segments) \in Nat /\ Len(segments) > 0
           /\ Len(segments') = Len(segments) + 1 /\ segments'[1] = s
           /\ \A i \in 1..Len(segments) : segments'[i + 1] = segments[i]
<1>1. segments \in Seq(Made) /\ s \in Made
  BY SegmentIsMade DEF ApkInv, MadeInv
<1>2. /\ Len(segments) \in Nat /\ Len(segments') = Len(segments) + 1
      /\ segments'[1] = s
      /\ \A i \in 1..Len(segments) : segments'[i + 1] = segments[i]
  BY <1>1, Prepending
<1>3. Len(segments) > 0
  BY DEF ApkInv, HashInv
<1>4. Data' = Data
  <2>1. Len(segments) \in 1..Len(segments)
    BY <1>2, <1>3
  <2> QED
    BY <1>2, <2>1 DEF Data
<1>5. DataTar(Data)
  BY DEF TarInv
<1>6. DataTar(Data)'
  BY <1>4, <1>5 DEF DataTar, ContentNames, input
<1>7. ControlNames' = ControlNames
  BY DEF ControlNames, ScriptNames, input
<1> QED
  BY <1>2, <1>3, <1>6, <1>7

(* The control segment is made whole, *)
LEMMA ControlStepTar == ApkInv /\ TarInv /\ CreateControl => TarInv'
<1> SUFFICES ASSUME ApkInv, TarInv, CreateControl, ~ Fail PROVE TarInv'
  BY FailTar DEF Fail
<1> DEFINE scripts == settings.scripts
           c == ControlUpTo(current, scripts)[Len(scripts)]
           s == Finished(c, "cut")
<1>1. /\ pc = "control"
      /\ \A i \in DOMAIN scripts : Exists(scripts[i])
      /\ segments' = <<s>> \o segments
      /\ pc' = IF Signed(settings.signature) THEN "signature" ELSE "combine"
      /\ UNCHANGED <<segment, input, host, touches>>
  BY DEF CreateControl
<1>2. /\ scripts \in Seq(Sources) /\ host \in [Sources -> Versions \cup {Gone}]
      /\ current = EmptySegment /\ Len(segments) = 1
  BY <1>1, InputsAssumption DEF ApkInv, MadeInv, ChainInv, TarInv
<1>3. IsSegment(current) /\ Tar(Whole(current), <<>>)
  BY <1>2, EmptyIsSegment, EmptyIsWhole, EmptyIsTar
<1>4. IsSegment(c)
  BY <1>1, <1>2, <1>3, ControlKeeps
<1>5. Tar(Whole(c), ControlNames)
  BY <1>1, <1>2, <1>3, ControlIsTar DEF ControlNames
<1> HIDE DEF scripts, c
<1>6. s.out = Whole(c) /\ IsSegment(s)
  <2>1. Multiple(Len(Whole(c)))
    BY <1>5 DEF Tar
  <2> QED
    BY <1>4, <2>1, SegmentEnds, FinishedKeeps
<1> HIDE DEF s
<1>7. /\ DataTar(Data)' /\ ControlNames' = ControlNames
      /\ Len(segments') = Len(segments) + 1 /\ segments'[1] = s
  BY <1>1, <1>6, BeforeTar
<1>8. Len(segments') - 1 = 1
  BY <1>2, <1>7
<1>9. Tar(segments[Len(segments) - 1].out, ControlNames)'
  BY <1>5, <1>6, <1>7, <1>8
<1>10. current' = EmptySegment /\ settings' = settings
  BY <1>1, <1>2 DEF segment, input
<1>11. pc' \in {"signature", "combine"} /\ (Combining' => ~ Signed(settings.signature)')
  <2>1. Signed(settings.signature)' = Signed(settings.signature)
    BY <1>10
  <2>2. CASE Signed(settings.signature)
    BY <1>1, <2>2 DEF Combining
  <2>3. CASE ~ Signed(settings.signature)
    BY <1>1, <1>10, <2>3 DEF Combining
  <2> QED
    BY <2>2, <2>3
<1> QED
  BY <1>7, <1>9, <1>10, <1>11 DEF TarInv

(* and so is the signature. *)
LEMMA SignatureStepTar == ApkInv /\ TarInv /\ CreateSignature => TarInv'
<1> SUFFICES ASSUME ApkInv, TarInv, CreateSignature, ~ Fail PROVE TarInv'
  BY FailTar DEF Fail
<1> DEFINE name == ".SIGN"
           of == "sign"
           c == WithMember(current, name, 2, of, 2)
           s == Finished(c, "cut")
<1>1. /\ pc = "signature" /\ pc' = "combine"
      /\ segments' = <<s>> \o segments
      /\ UNCHANGED <<segment, input, host, touches>>
  BY DEF CreateSignature
<1>2. current = EmptySegment /\ Len(segments) = 2
      /\ Tar(segments[Len(segments) - 1].out, ControlNames)
  BY <1>1 DEF ApkInv, ChainInv, TarInv
<1>3. IsSegment(current) /\ Tar(Whole(current), <<>>)
  BY <1>2, EmptyIsSegment, EmptyIsWhole, EmptyIsTar
<1>4. name \in Names \ {"header", "zero"} /\ of \in Names /\ 2 \in Nat
  BY DEF Names
<1>5. <<name>> \in Seq(Names) /\ <<>> \o <<name>> = <<name>>
  <2>1. <<name>> \in Seq(Names)
    BY <1>4
  <2> QED
    BY <2>1, ConcatEmptySeq
<1> HIDE DEF name, of
<1>7. IsSegment(c) /\ Tar(Whole(c), <<name>>)
  <2>1. IsSegment(c)
    BY <1>3, <1>4, MemberIsTaken
  <2>2. Tar(Whole(c), <<>> \o <<name>>)
    BY <1>3, <1>4, MemberKeepsTar
  <2> QED
    BY <1>5, <2>1, <2>2
<1> HIDE DEF c
<1>8. s.out = Whole(c) /\ IsSegment(s)
  <2>1. Multiple(Len(Whole(c)))
    BY <1>7 DEF Tar
  <2> QED
    BY <1>7, <2>1, SegmentEnds, FinishedKeeps
<1> HIDE DEF s
<1>9. /\ DataTar(Data)' /\ ControlNames' = ControlNames
      /\ Len(segments') = Len(segments) + 1 /\ segments'[1] = s
      /\ \A i \in 1..Len(segments) : segments'[i + 1] = segments[i]
  BY <1>1, <1>8, BeforeTar
<1>10. Len(segments') - 1 = 2 /\ segments'[2] = segments[1]
  <2>1. 1 \in 1..Len(segments) /\ 1 + 1 = 2
    BY <1>2
  <2> QED
    BY <1>2, <1>9, <2>1
<1>11. Tar(segments[Len(segments) - 1].out, ControlNames)'
  <2>1. Len(segments) - 1 = 1
    BY <1>2
  <2> QED
    BY <1>2, <1>9, <1>10, <2>1
<1>12. Tar(segments'[1].out, <<".SIGN">>)
  BY <1>7, <1>8, <1>9 DEF name
<1> QED
  BY <1>1, <1>9, <1>11, <1>12 DEF TarInv

(* What is written out stays what it is, *)
LEMMA CombineStepTar == TarInv /\ CombineToApk => TarInv'
<1> SUFFICES ASSUME TarInv, CombineToApk, ~ Fail PROVE TarInv'
  BY FailTar DEF Fail
<1>1. /\ UNCHANGED <<contents, settings, segments>>
      /\ pc = "combine" /\ pc' \in {"combine", "done"}
  BY DEF CombineToApk, input, made
<1>2. /\ DataTar(Data) /\ Tar(segments[Len(segments) - 1].out, ControlNames)
      /\ Signed(settings.signature) => Tar(segments[1].out, <<".SIGN">>)
  BY <1>1 DEF TarInv, Combining
<1>3. DataTar(Data)'
  BY <1>1, <1>2 DEF DataTar, Data, ContentNames
<1>4. Tar(segments[Len(segments) - 1].out, ControlNames)'
  BY <1>1, <1>2 DEF ControlNames, ScriptNames
<1>5. (Signed(settings.signature) => Tar(segments[1].out, <<".SIGN">>))'
  BY <1>1, <1>2
<1> QED
  BY <1>1, <1>3, <1>4, <1>5 DEF TarInv

(* and the files of the host are in it already. *)
LEMMA QuietStepTar ==
    ASSUME TarInv, UNCHANGED <<contents, settings, pc, next, current, segments>> PROVE TarInv'
<1>1. ContentNames(Len(contents))' = ContentNames(Len(contents))
      /\ ContentNames(next - 1)' = ContentNames(next - 1)
  BY DEF ContentNames
<1>2. Data' = Data /\ ControlNames' = ControlNames
  BY DEF Data, ControlNames, ScriptNames
<1>3. DataTar(Data)' <=> DataTar(Data)
  BY <1>1, <1>2 DEF DataTar
<1>4. Whole(current)' = Whole(current) /\ (Settled(current)' <=> Settled(current))
  BY DEF Whole, Taken, Settled
<1>5. Combining' <=> Combining
  BY DEF Combining
<1> QED
  BY <1>1, <1>2, <1>3, <1>4, <1>5 DEF TarInv

(* Every step keeps the members of the segments, *)
LEMMA StepTar == ApkInv /\ TarInv /\ [Next]_vars => TarInv'
<1> SUFFICES ASSUME ApkInv, TarInv, [Next]_vars PROVE TarInv'
  OBVIOUS
<1>1. CASE Package
  BY <1>1, StartTar, DataStepTar, ControlStepTar, SignatureStepTar, CombineStepTar DEF Package
<1>2. CASE Meanwhile
  BY <1>2, QuietStepTar DEF Meanwhile, input, segment, made
<1>3. CASE UNCHANGED vars
  BY <1>3, QuietStepTar DEF vars
<1> QED
  BY <1>1, <1>2, <1>3 DEF Next

(* so they are what they should be at all times. *)
LEMMA TarInvariant == Spec => []TarInv
<1>1. Init => TarInv
  BY InitTar
<1>2. ApkInv /\ TarInv /\ [Next]_vars => TarInv'
  BY StepTar
<1> QED
  BY <1>1, <1>2, ApkInvariant, PTL DEF Spec

(* The names that are promised, in the order the segments have them. *)
LEMMA PromisedNames ==
    ASSUME ApkInv
    PROVE  Promised = ((IF Signed(settings.signature) THEN <<".SIGN">> ELSE <<>>)
                          \o ControlNames) \o ContentNames(Len(contents))
<1> DEFINE signature == IF Signed(settings.signature) THEN <<".SIGN">> ELSE <<>>
           first == <<".PKGINFO">>
           scripts == ScriptNames(Len(settings.scripts))
           names == ContentNames(Len(contents))
<1>1. settings.scripts \in Seq(Sources) /\ contents \in Inputs
  BY InputsAssumption DEF ApkInv, MadeInv
<1>2. [i \in DOMAIN settings.scripts |-> "script"] = scripts
  BY <1>1, LenProperties DEF ScriptNames
<1>3. [i \in DOMAIN contents |-> contents[i].dst] = names
  BY <1>1, ContentsAreListed DEF ContentNames
<1>4. signature \in Seq(Names) /\ first \in Seq(Names)
  <2> DEFINE sign == ".SIGN"
             info == ".PKGINFO"
  <2>1. sign \in Names /\ info \in Names
    BY DEF Names
  <2>2. signature = <<sign>> \/ signature = <<>>
    OBVIOUS
  <2>3. first = <<info>>
    OBVIOUS
  <2>4. <<sign>> \in Seq(Names) /\ <<info>> \in Seq(Names)
    BY <2>1
  <2>5. <<>> \in Seq(Names)
    BY EmptySeq
  <2> HIDE DEF sign, info, signature, first
  <2> QED
    BY <2>2, <2>3, <2>4, <2>5
<1>5. scripts \in Seq(Names)
  BY <1>1, LenProperties, ScriptNamesGrow
<1> DEFINE scripts0 == [i \in DOMAIN settings.scripts |-> "script"]
           names0 == [i \in DOMAIN contents |-> contents[i].dst]
<1>6. Promised = ((signature \o first) \o scripts0) \o names0
  BY DEF Promised
<1>7. ControlNames = first \o scripts
  BY DEF ControlNames
<1> HIDE DEF signature, first, scripts, names, scripts0, names0
<1>8. scripts0 = scripts /\ names0 = names
  BY <1>2, <1>3 DEF scripts0, names0
<1>9. (signature \o first) \o scripts = signature \o (first \o scripts)
  BY <1>4, <1>5, ConcatAssociative
<1> QED
  BY <1>6, <1>7, <1>8, <1>9 DEF signature, names

(* Whatever the block size, the contents, the scripts and the files of the *)
(* host: a reader that takes the segments for one tar finds the signature, *)
(* .PKGINFO, the scripts and every content, in this order, and the end.    *)
THEOREM ApkReadsAsOneTar == Spec => []ReadsAsOneTar
<1>1. ApkInv /\ TarInv => ReadsAsOneTar
  <2> SUFFICES ASSUME ApkInv, TarInv, Combining
               PROVE  Len(Concat(segments)) % Block = 0 /\ Reads(Concat(segments), Promised)
    BY DEF ReadsAsOneTar
  <2> DEFINE names == ContentNames(Len(contents))
             zz == Zeros(2 * Block)
             n == Len(segments)
  <2>1. DataTar(Data) /\ Tar(segments[n - 1].out, ControlNames)
    BY DEF TarInv, Combining
  <2>2. PICK d : Tar(d, names) /\ segments[n].out = d \o zz
    BY <2>1 DEF DataTar, Data
  <2>3. /\ n = IF Signed(settings.signature) THEN 3 ELSE 2
        /\ segments \in Seq(Made)
    BY DEF ApkInv, MadeInv, ChainInv
  <2>4. segments[1].out \in Stream
    <3>1. 1 \in 1..n
      BY <2>3
    <3>2. segments[1] \in Made
      BY <2>3, <3>1, ElementOfSeq
    <3> QED
      BY <3>2 DEF Made
  <2>5. zz \in Stream
    BY FewBlocks, ZerosAt
  <2> DEFINE c == segments[n - 1].out
  <2>6. Tar(c, ControlNames)
    BY <2>1
  <2>7. c \in Stream /\ d \in Stream /\ c \o d \in Stream
        /\ ControlNames \in Seq(Names) /\ names \in Seq(Names)
    <3>1. c \in Stream /\ d \in Stream /\ ControlNames \in Seq(Names) /\ names \in Seq(Names)
      BY <2>2, <2>6 DEF Tar
    <3> HIDE DEF c
    <3> QED
      BY <3>1, Concats
  <2> HIDE DEF c, names, zz
  <2>8. CASE ~ Signed(settings.signature)
    <3>1. n = 2 /\ c = segments[1].out
      BY <2>3, <2>8 DEF c
    <3>2. Concat(segments) = c \o (d \o zz)
      BY <2>2, <2>4, <3>1, ConcatOfTwo
    <3>3. c \o (d \o zz) = (c \o d) \o zz
      BY <2>5, <2>7, Associates
    <3>4. Promised = ControlNames \o names
      <4>1. Promised = (<<>> \o ControlNames) \o names
        BY <2>8, PromisedNames DEF names
      <4>2. <<>> \o ControlNames = ControlNames
        BY <2>7, ConcatEmptySeq
      <4> QED
        BY <4>1, <4>2
    <3>5. Tar(c \o d, ControlNames \o names)
      BY <2>2, <2>6, JoinTars
    <3> QED
      BY <3>2, <3>3, <3>4, <3>5, TarIsRead DEF zz
  <2>9. CASE Signed(settings.signature)
    <3> DEFINE s == segments[1].out
               sign == <<".SIGN">>
    <3>1. n = 3 /\ c = segments[2].out /\ Tar(s, sign)
      BY <2>3, <2>9 DEF c, TarInv
    <3>2. Promised = (sign \o ControlNames) \o names
      BY <2>9, PromisedNames DEF names
    <3>3. Concat(segments) = (s \o c) \o (d \o zz)
      BY <2>2, <2>4, <3>1, ConcatOfThree
    <3> HIDE DEF s, sign
    <3>4. s \in Stream /\ s \o c \in Stream
      BY <2>7, <3>1, Concats DEF Tar
    <3>5. (s \o c) \o (d \o zz) = ((s \o c) \o d) \o zz
      BY <2>5, <2>7, <3>4, Associates
    <3>6. Tar(s \o c, sign \o ControlNames)
      BY <2>6, <3>1, JoinTars
    <3>7. Tar((s \o c) \o d, (sign \o ControlNames) \o names)
      BY <2>2, <3>6, JoinTars
    <3> QED
      BY <3>2, <3>3, <3>5, <3>7, TarIsRead DEF zz
  <2> QED
    BY <2>8, <2>9
<1> QED
  BY <1>1, ApkInvariant, TarInvariant, PTL
=============================================================================
