----------------------------- MODULE ConfigProofs -----------------------------
(***************************************************************************)
(* What each format gets from a configuration, whatever is written in it   *)
(* and in whatever order and interleaving the formats are packaged.        *)
(***************************************************************************)
EXTENDS Config, TarStreamProofs

Texts == STRING

IsNothing(text) == text = ""

(* A text expands to a text. *)
LEMMA ValueIsText == \A text \in DOMAIN Value : Value[text] \in Texts
  BY ConfigsAssumption DEF Texts

-----------------------------------------------------------------------------
(***************************************************************************)
(* Expanding a list and deleting what expands to nothing.                  *)
(***************************************************************************)
(* One text more: it is kept unless it expands to nothing. *)
Left(kept, text) == IF Value[text] = "" THEN kept ELSE Append(kept, Value[text])

(* f has what is left of the first texts of list, up to the Nth. *)
Leaves(list, N, f) ==
    f = [n \in 0..N |-> IF n = 0 THEN <<>>
                        ELSE IF Value[list[n]] = "" THEN f[n - 1]
                        ELSE Append(f[n - 1], Value[list[n]])]

(* What is left of a list is made one text at a time. *)
LEMMA LeavesUnfolds ==
    ASSUME NEW list, NEW N \in Nat, NEW f, Leaves(list, N, f)
    PROVE  f[0] = <<>> /\ \A n \in 1..N : f[n] = Left(f[n - 1], list[n])
<1>1. \A n \in 0..N : f[n] = IF n = 0 THEN <<>>
                            ELSE IF Value[list[n]] = "" THEN f[n - 1]
                            ELSE Append(f[n - 1], Value[list[n]])
  BY DEF Leaves
<1>2. 0 \in 0..N /\ \A n \in 1..N : n \in 0..N /\ n # 0
  OBVIOUS
<1>3. f[0] = <<>>
  BY <1>1, <1>2
<1>4. ASSUME NEW n \in 1..N PROVE f[n] = Left(f[n - 1], list[n])
  BY <1>1, <1>2, Zenon DEF Left
<1> QED
  BY <1>3, <1>4

(* The lists that the formats' dependencies are compared with exist: *)
LEMMA LeavesExist == ASSUME NEW list, NEW N \in Nat PROVE \E f : Leaves(list, N, f)
<1> DEFINE P == {k \in Nat : \E f : Leaves(list, k, f)}
<1>1. 0 \in P
  <2>1. Leaves(list, 0, [n \in 0..0 |-> <<>>])
    BY DEF Leaves
  <2> QED
    BY <2>1
<1>2. ASSUME NEW k \in P PROVE k + 1 \in P
  <2>1. PICK f : Leaves(list, k, f)
    OBVIOUS
  <2> DEFINE g == [n \in 0..(k + 1) |-> IF n = k + 1 THEN Left(f[k], list[n]) ELSE f[n]]
  <2>2. \A n \in 0..k : f[n] = IF n = 0 THEN <<>>
                              ELSE IF Value[list[n]] = "" THEN f[n - 1]
                              ELSE Append(f[n - 1], Value[list[n]])
    BY <2>1 DEF Leaves
  <2>3. ASSUME NEW n \in 0..(k + 1)
        PROVE  g[n] = IF n = 0 THEN <<>>
                      ELSE IF Value[list[n]] = "" THEN g[n - 1]
                      ELSE Append(g[n - 1], Value[list[n]])
    <3>1. CASE n = k + 1
      <4>1. n # 0 /\ n - 1 = k /\ g[n - 1] = f[k]
        BY <3>1
      <4> QED
        BY <3>1, <4>1 DEF Left
    <3>2. CASE n \in 0..k
      <4>1. n # k + 1 /\ g[n] = f[n] /\ (n # 0 => g[n - 1] = f[n - 1])
        BY <3>2
      <4> QED
        BY <2>2, <3>2, <4>1
    <3>3. k \in Nat
      OBVIOUS
    <3>4. n = k + 1 \/ n \in 0..k
      BY <3>3
    <3> QED
      BY <3>1, <3>2, <3>4
  <2>4. Leaves(list, k + 1, g)
    BY <2>3 DEF Leaves
  <2> HIDE DEF g
  <2> QED
    BY <2>4
<1>3. P \subseteq Nat
  OBVIOUS
<1> HIDE DEF P
<1>4. P = Nat
  BY <1>1, <1>2, <1>3, Counting
<1> QED
  BY <1>4 DEF P

(* LeftUpTo is what its recursive definition says. *)
LEMMA LeftDefined == ASSUME NEW list, Len(list) \in Nat PROVE Leaves(list, Len(list), LeftUpTo(list))
<1>1. \E f : Leaves(list, Len(list), f)
  BY LeavesExist
<1> QED
  BY <1>1, Zenon DEF Leaves, LeftUpTo

(* What is left are texts, and not more than there were. *)
LEMMA LeftIsList ==
    ASSUME NEW list \in Seq(DOMAIN Value)
    PROVE  /\ LeftUpTo(list)[0] = <<>>
           /\ \A n \in 0..Len(list) : LeftUpTo(list)[n] \in Seq(Texts)
           /\ \A n \in 1..Len(list) : LeftUpTo(list)[n] = Left(LeftUpTo(list)[n - 1], list[n])
<1> DEFINE P == {k \in Nat : k <= Len(list) => LeftUpTo(list)[k] \in Seq(Texts)}
<1>1. Len(list) \in Nat /\ \A n \in 1..Len(list) : Value[list[n]] \in Texts
  BY ValueIsText
<1>2. /\ LeftUpTo(list)[0] = <<>>
      /\ \A n \in 1..Len(list) : LeftUpTo(list)[n] = Left(LeftUpTo(list)[n - 1], list[n])
  BY <1>1, LeftDefined, LeavesUnfolds
<1>3. 0 \in P
  <2>1. <<>> \in Seq(Texts)
    BY EmptySeq
  <2> QED
    BY <1>2, <2>1
<1>4. ASSUME NEW k \in P PROVE k + 1 \in P
  <2>1. SUFFICES ASSUME k + 1 <= Len(list) PROVE LeftUpTo(list)[k + 1] \in Seq(Texts)
    OBVIOUS
  <2>2. k + 1 \in 1..Len(list) /\ k + 1 - 1 = k /\ k <= Len(list)
    BY <1>1, <2>1
  <2>3. LeftUpTo(list)[k + 1] = Left(LeftUpTo(list)[k], list[k + 1])
    BY <1>2, <2>2
  <2>4. LeftUpTo(list)[k] \in Seq(Texts) /\ Value[list[k + 1]] \in Texts
    BY <1>1, <2>2
  <2> QED
    BY <2>3, <2>4, AppendProperties, ZenonT(60) DEF Left
<1>5. P \subseteq Nat
  OBVIOUS
<1>6. \A n \in 0..Len(list) : n \in P
  <2> HIDE DEF P
  <2>1. P = Nat
    BY <1>3, <1>4, <1>5, Counting
  <2> QED
    BY <1>1, <2>1
<1> QED
  BY <1>1, <1>2, <1>6
(* Where the deletion is in a list: n of the given texts are done, and     *)
(* what is left of them is before the index; the others are behind it.     *)
Cleaning(given, list, at, n) ==
    /\ n \in 0..Len(given)
    /\ list \in Seq(Texts)
    /\ at = Len(LeftUpTo(given)[n]) + 1
    /\ Len(list) = Len(LeftUpTo(given)[n]) + (Len(given) - n)
    /\ \A m \in 1..Len(LeftUpTo(given)[n]) : list[m] = LeftUpTo(given)[n][m]
    /\ \A m \in (n + 1)..Len(given) :
          list[Len(LeftUpTo(given)[n]) + (m - n)] = Value[given[m]]

(* At first nothing is done. *)
LEMMA CleaningStarts ==
    ASSUME NEW given \in Seq(DOMAIN Value)
    PROVE  Cleaning(given, [n \in DOMAIN given |-> Value[given[n]]], 1, 0)
<1> DEFINE list == [n \in DOMAIN given |-> Value[given[n]]]
<1>1. Len(given) \in Nat /\ DOMAIN given = 1..Len(given)
      /\ \A n \in 1..Len(given) : Value[given[n]] \in Texts
  BY ValueIsText
<1>2. list \in Seq(Texts) /\ Len(list) = Len(given)
  <2>1. list \in [1..Len(given) -> Texts]
    BY <1>1
  <2> QED
    BY <1>1, <2>1, SeqDef, LenProperties
<1>3. LeftUpTo(given)[0] = <<>> /\ Len(<<>>) = 0
  BY LeftIsList
<1>4. \A n \in 1..Len(given) : list[n] = Value[given[n]]
  BY <1>1
<1> HIDE DEF list
<1>5. Cleaning(given, list, 1, 0)
  BY <1>1, <1>2, <1>3, <1>4 DEF Cleaning
<1> QED
  BY <1>5 DEF list

(* What stands at the index is the next text. *)
LEMMA CleaningReads ==
    ASSUME NEW given \in Seq(DOMAIN Value), NEW list, NEW at, NEW n,
           Cleaning(given, list, at, n), at \in DOMAIN list
    PROVE  /\ n \in Nat /\ n + 1 \in 1..Len(given) /\ Len(given) \in Nat
           /\ list[at] = Value[given[n + 1]]
           /\ LeftUpTo(given)[n + 1] = Left(LeftUpTo(given)[n], given[n + 1])
           /\ LeftUpTo(given)[n] \in Seq(Texts)
           /\ Value[given[n + 1]] \in Texts
<1>1. Len(given) \in Nat /\ Len(list) \in Nat /\ at \in 1..Len(list) /\ n \in 0..Len(given)
      /\ \A m \in 1..Len(given) : Value[given[m]] \in Texts
  BY ValueIsText DEF Cleaning
<1>2. LeftUpTo(given)[n] \in Seq(Texts) /\ Len(LeftUpTo(given)[n]) \in Nat
  BY <1>1, LeftIsList, LenProperties
<1>3. n \in Nat /\ n + 1 \in 1..Len(given)
  BY <1>1, <1>2 DEF Cleaning
<1>4. LeftUpTo(given)[n + 1] = Left(LeftUpTo(given)[n], given[n + 1])
  <2>1. n + 1 - 1 = n
    BY <1>3
  <2> QED
    BY <1>3, <2>1, LeftIsList
<1>5. list[at] = Value[given[n + 1]]
  <2>1. n + 1 \in (n + 1)..Len(given) /\ (n + 1) - n = 1
    BY <1>1, <1>3
  <2> QED
    BY <2>1 DEF Cleaning
<1> QED
  BY <1>1, <1>2, <1>3, <1>4, <1>5

(* A text stays: the index moves on. *)
LEMMA CleaningKeeps ==
    ASSUME NEW given \in Seq(DOMAIN Value), NEW list, NEW at, NEW n,
           Cleaning(given, list, at, n), at \in DOMAIN list, ~ IsNothing(list[at])
    PROVE  Cleaning(given, list, at + 1, n + 1)
<1> DEFINE kept == LeftUpTo(given)[n]
           more == LeftUpTo(given)[n + 1]
           N == Len(given)
<1>1. /\ n \in Nat /\ n + 1 \in 1..N /\ N \in Nat
      /\ list[at] = Value[given[n + 1]]
      /\ more = Append(kept, list[at]) /\ kept \in Seq(Texts) /\ list[at] \in Texts
  <2>1. /\ n \in Nat /\ n + 1 \in 1..Len(given) /\ Len(given) \in Nat
        /\ list[at] = Value[given[n + 1]]
        /\ LeftUpTo(given)[n + 1] = Left(LeftUpTo(given)[n], given[n + 1])
        /\ LeftUpTo(given)[n] \in Seq(Texts)
        /\ Value[given[n + 1]] \in Texts
    BY CleaningReads
  <2> QED
    BY <2>1 DEF Left, IsNothing
<1>2. /\ list \in Seq(Texts) /\ at = Len(kept) + 1 /\ Len(list) = Len(kept) + (N - n)
      /\ \A m \in 1..Len(kept) : list[m] = kept[m]
      /\ \A m \in (n + 1)..N : list[Len(kept) + (m - n)] = Value[given[m]]
  BY DEF Cleaning
<1> HIDE DEF kept, more, N
<1>3. Len(kept) \in Nat /\ Len(more) = Len(kept) + 1 /\ more[Len(kept) + 1] = list[at]
      /\ \A m \in 1..Len(kept) : more[m] = kept[m]
  BY <1>1, AppendProperties, LenProperties
<1>4. \A m \in 1..Len(more) : list[m] = more[m]
  BY <1>2, <1>3
<1>5. ASSUME NEW m \in (n + 1 + 1)..N PROVE list[Len(more) + (m - (n + 1))] = Value[given[m]]
  <2>1. m \in (n + 1)..N /\ Len(more) + (m - (n + 1)) = Len(kept) + (m - n)
    BY <1>1, <1>3
  <2> QED
    BY <1>2, <2>1
<1>6. n + 1 \in 0..N /\ at + 1 = Len(more) + 1 /\ Len(list) = Len(more) + (N - (n + 1))
  BY <1>1, <1>2, <1>3
<1> QED
  BY <1>2, <1>4, <1>5, <1>6 DEF Cleaning, more, N

(* An empty one goes, and the index stays where it is. *)
LEMMA CleaningDeletes ==
    ASSUME NEW given \in Seq(DOMAIN Value), NEW list, NEW at, NEW n,
           Cleaning(given, list, at, n), at \in DOMAIN list, IsNothing(list[at])
    PROVE  Cleaning(given, SubSeq(list, 1, at - 1) \o SubSeq(list, at + 1, Len(list)), at, n + 1)
<1> DEFINE kept == LeftUpTo(given)[n]
           N == Len(given)
           front == SubSeq(list, 1, at - 1)
           back == SubSeq(list, at + 1, Len(list))
           rest == front \o back
<1>1. /\ n \in Nat /\ n + 1 \in 1..N /\ N \in Nat
      /\ LeftUpTo(given)[n + 1] = kept /\ kept \in Seq(Texts)
  <2>1. /\ n \in Nat /\ n + 1 \in 1..Len(given) /\ Len(given) \in Nat
        /\ list[at] = Value[given[n + 1]]
        /\ LeftUpTo(given)[n + 1] = Left(LeftUpTo(given)[n], given[n + 1])
        /\ LeftUpTo(given)[n] \in Seq(Texts)
        /\ Value[given[n + 1]] \in Texts
    BY CleaningReads
  <2> QED
    BY <2>1 DEF Left, IsNothing
<1>2. /\ list \in Seq(Texts) /\ at = Len(kept) + 1 /\ Len(list) = Len(kept) + (N - n)
      /\ \A m \in 1..Len(kept) : list[m] = kept[m]
      /\ \A m \in (n + 1)..N : list[Len(kept) + (m - n)] = Value[given[m]]
  BY DEF Cleaning
<1> HIDE DEF kept, N
<1>3. Len(kept) \in Nat /\ Len(list) \in Nat /\ at \in 1..Len(list) /\ at \in Nat
  BY <1>1, <1>2, LenProperties
<1>4. front \in Seq(Texts) /\ Len(front) = at - 1 /\ \A m \in 1..(at - 1) : front[m] = list[m]
  <2>1. 1 \in 1..(Len(list) + 1) /\ at - 1 \in (1 - 1)..Len(list)
    BY <1>3
  <2> QED
    BY <1>2, <1>3, <2>1, SubSeqProperties
<1>5. back \in Seq(Texts) /\ Len(back) = Len(list) - at
      /\ \A m \in 1..(Len(list) - at) : back[m] = list[at + m]
  <2>1. at + 1 \in 1..(Len(list) + 1) /\ Len(list) \in (at + 1 - 1)..Len(list)
    BY <1>3
  <2>2. /\ back \in Seq(Texts)
        /\ Len(back) = IF at + 1 <= Len(list) THEN Len(list) - (at + 1) + 1 ELSE 0
        /\ \A m \in 1..(Len(list) - (at + 1) + 1) : back[m] = list[at + 1 + m - 1]
    BY <1>2, <2>1, SubSeqProperties
  <2>4. Len(back) = Len(list) - at
    BY <1>3, <2>2
  <2>5. ASSUME NEW m \in 1..(Len(list) - at) PROVE back[m] = list[at + m]
    <3>1. m \in 1..(Len(list) - (at + 1) + 1) /\ at + 1 + m - 1 = at + m
      BY <1>3
    <3> QED
      BY <2>2, <3>1
  <2> QED
    BY <2>2, <2>4, <2>5
<1> HIDE DEF front, back
<1>6. rest \in Seq(Texts) /\ Len(rest) = Len(front) + Len(back)
      /\ \A m \in 1..(Len(front) + Len(back)) :
            rest[m] = IF m <= Len(front) THEN front[m] ELSE back[m - Len(front)]
  BY <1>4, <1>5, ConcatProperties
<1> HIDE DEF rest
<1>7. Len(rest) = Len(kept) + (N - (n + 1)) /\ n + 1 \in 0..N
  BY <1>1, <1>2, <1>3, <1>4, <1>5, <1>6
<1>8. ASSUME NEW m \in 1..Len(kept) PROVE rest[m] = kept[m]
  <2>1. /\ m \in 1..(Len(front) + Len(back)) /\ m <= Len(front) /\ m \in 1..(at - 1)
    BY <1>2, <1>3, <1>4, <1>5
  <2> QED
    BY <1>2, <1>4, <1>6, <2>1
<1>9. ASSUME NEW m \in (n + 1 + 1)..N PROVE rest[Len(kept) + (m - (n + 1))] = Value[given[m]]
  <2> DEFINE k == Len(kept) + (m - (n + 1))
  <2>1. /\ k \in 1..(Len(front) + Len(back)) /\ ~ (k <= Len(front))
        /\ k - Len(front) \in 1..(Len(list) - at)
        /\ at + (k - Len(front)) = Len(kept) + (m - n)
        /\ m \in (n + 1)..N
    BY <1>1, <1>2, <1>3, <1>4, <1>5
  <2> HIDE DEF k
  <2>2. rest[k] = list[Len(kept) + (m - n)]
    BY <1>5, <1>6, <2>1
  <2> QED
    BY <1>2, <2>1, <2>2 DEF k
<1> QED
  BY <1>1, <1>2, <1>6, <1>7, <1>8, <1>9 DEF Cleaning, kept, N, rest, front, back

(* At the end nothing but what is left of all the texts is in the list. *)
LEMMA CleaningEnds ==
    ASSUME NEW given \in Seq(DOMAIN Value), NEW list, NEW at, NEW n,
           Cleaning(given, list, at, n), at > Len(list)
    PROVE  list = LeftUpTo(given)[Len(given)]
<1> DEFINE kept == LeftUpTo(given)[n]
<1>1. Len(given) \in Nat /\ n \in 0..Len(given) /\ kept \in Seq(Texts) /\ Len(kept) \in Nat
  BY LeftIsList, LenProperties DEF Cleaning
<1>2. list \in Seq(Texts) /\ at = Len(kept) + 1 /\ Len(list) = Len(kept) + (Len(given) - n)
      /\ \A m \in 1..Len(kept) : list[m] = kept[m]
  BY DEF Cleaning
<1> HIDE DEF kept
<1>3. n = Len(given) /\ Len(list) = Len(kept)
  BY <1>1, <1>2
<1>4. list = kept
  BY <1>1, <1>2, <1>3, SeqEqual
<1> QED
  BY <1>3, <1>4 DEF kept
-----------------------------------------------------------------------------
(***************************************************************************)
(* Parse and Get.                                                          *)
(***************************************************************************)
Everyone == Formats \cup {Base}

(* The list a deletion goes through is between what was written and what   *)
(* is left; the others are one or the other.                               *)
ListsInv ==
    /\ config \in Configs
    /\ lists = [o \in Everyone |-> lists[o]]
    /\ unexpanded \subseteq Owners
    /\ walk = [owner |-> walk.owner, at |-> walk.at]
    /\ walk.owner \in Owners
    /\ walk.at \in Nat
    /\ walk.at = 0 => walk = NoWalk
    /\ walk.at # 0 =>
          /\ walk.owner \in unexpanded
          /\ \E n : Cleaning(config.depends[walk.owner], lists[walk.owner], walk.at, n)
    /\ \A o \in Owners \ unexpanded : lists[o] = Meant(o)
    /\ \A o \in unexpanded : lists[o] = config.depends[o] \/ (walk.at # 0 /\ o = walk.owner)

(* What the merge of an override gives a format. *)
MergedContents(f) ==
    LET contents == IF Overrides(f) /\ config.contents[f] # {}
                    THEN config.contents[f] ELSE config.contents[Base]
    IN IF Overrides(f) THEN {i \in contents : Packager[i] \in {"", f}} ELSE contents

MergedDepends(f) == IF Overrides(f) /\ Meant(f) # <<>> THEN Meant(f) ELSE Meant(Base)

InfoInv ==
    /\ info = [f \in Formats |-> info[f]]
    /\ unchecked \subseteq Registered
    /\ \A f \in Formats : info[f] # NoInfo =>
          Parsed /\ info[f].depends = MergedDepends(f) /\ info[f].contents = MergedContents(f)

ConfigInv == ListsInv /\ InfoInv

(* The base and the given overrides have the lists. *)
LEMMA OwnersHaveLists ==
    ASSUME config \in Configs
    PROVE  /\ Base \in Owners /\ Owners \subseteq Everyone
           /\ \A f \in Formats : Overrides(f) => f \in Owners
           /\ \A o \in Everyone : config.depends[o] \in Seq(DOMAIN Value)
           /\ config.depends = [o \in Everyone |-> config.depends[o]]
<1>1. config.depends \in [Everyone -> Seq(DOMAIN Value)]
  BY ConfigsAssumption DEF Everyone
<1>2. /\ Base \in Owners /\ Owners \subseteq Everyone
      /\ \A f \in Formats : Overrides(f) => f \in Owners
  BY DEF Owners, Everyone
<1> QED
  BY <1>1, <1>2

(* Parse begins with the lists as they are written. *)
LEMMA InitConfig == Init => ConfigInv
<1> SUFFICES ASSUME Init PROVE ConfigInv
  OBVIOUS
<1>1. config \in Configs /\ lists = config.depends /\ unexpanded = Owners /\ walk = NoWalk
      /\ info = [f \in Formats |-> NoInfo] /\ unchecked = Registered
  BY DEF Init
<1>2. Base \in Owners /\ lists = [o \in Everyone |-> lists[o]]
  BY <1>1, OwnersHaveLists
<1>3. walk = [owner |-> walk.owner, at |-> walk.at] /\ walk.owner \in Owners /\ walk.at = 0
  BY <1>1, <1>2 DEF NoWalk
<1>4. ListsInv
  BY <1>1, <1>2, <1>3 DEF ListsInv
<1>5. InfoInv
  BY <1>1 DEF InfoInv
<1> QED
  BY <1>4, <1>5 DEF ConfigInv

(* What the configuration means does not change. *)
LEMMA MeaningStays ==
    ASSUME UNCHANGED config
    PROVE  /\ Owners' = Owners
           /\ \A o : Meant(o)' = Meant(o)
           /\ \A f : Overrides(f)' = Overrides(f)
           /\ \A f : MergedDepends(f)' = MergedDepends(f)
           /\ \A f : MergedContents(f)' = MergedContents(f)
  BY DEF Owners, Meant, Overrides, MergedDepends, MergedContents

(* A list is expanded only after the one before it is done, and its turn   *)
(* begins with all its texts.                                              *)
LEMMA ExpandStays == ASSUME ConfigInv, NEW owner \in Owners, Expand(owner) PROVE ConfigInv'
<1> DEFINE given == config.depends[owner]
<1>1. /\ walk = NoWalk /\ owner \in unexpanded /\ config \in Configs
      /\ lists' = [lists EXCEPT ![owner] = [n \in DOMAIN @ |-> Value[@[n]]]]
      /\ walk' = [owner |-> owner, at |-> 1]
      /\ UNCHANGED <<config, unexpanded, info, unchecked>>
  BY DEF Expand, infoVars, ConfigInv, ListsInv
<1>2. walk.at = 0
  BY <1>1 DEF NoWalk
<1>3. lists[owner] = given /\ given \in Seq(DOMAIN Value) /\ owner \in Everyone
  BY <1>1, <1>2, OwnersHaveLists DEF ConfigInv, ListsInv
<1>4. lists'[owner] = [n \in DOMAIN given |-> Value[given[n]]]
      /\ \A o \in Everyone \ {owner} : lists'[o] = lists[o]
  BY <1>1, <1>3 DEF ConfigInv, ListsInv
<1>4a. lists' = [o \in Everyone |-> lists'[o]]
  BY <1>1, <1>3 DEF ConfigInv, ListsInv
<1> HIDE DEF given
<1>5. Cleaning(given, lists'[owner], 1, 0)
  BY <1>3, <1>4, CleaningStarts
<1>6. walk'.owner = owner /\ walk'.at = 1
      /\ walk' = [owner |-> walk'.owner, at |-> walk'.at]
  BY <1>1
<1>7. Owners' = Owners /\ Owners \subseteq Everyone /\ \A o : Meant(o)' = Meant(o)
  BY <1>1, MeaningStays, OwnersHaveLists
<1>8. ListsInv'
  <2>1. \A o \in Owners \ unexpanded : lists'[o] = Meant(o)
    BY <1>1, <1>4, <1>7 DEF ConfigInv, ListsInv
  <2>2. \A o \in unexpanded : o = owner \/ lists'[o] = config.depends[o]
    BY <1>2, <1>4, <1>7 DEF ConfigInv, ListsInv
  <2>3. \E n : Cleaning(config'.depends[walk'.owner], lists'[walk'.owner], walk'.at, n)
    BY <1>1, <1>5, <1>6 DEF given
  <2>4. config' \in Configs /\ unexpanded' \subseteq Owners' /\ walk'.at \in Nat /\ walk'.at # 0
        /\ walk'.owner \in Owners' /\ walk'.owner \in unexpanded'
    BY <1>1, <1>6, <1>7 DEF ConfigInv, ListsInv
  <2>5. \A o \in Owners' \ unexpanded' : lists'[o] = Meant(o)'
    BY <1>1, <1>7, <2>1
  <2>6. \A o \in unexpanded' :
           lists'[o] = config'.depends[o] \/ (walk'.at # 0 /\ o = walk'.owner)
    BY <1>1, <1>6, <2>2, <2>4
  <2> QED
    BY <1>6, <1>4a, <2>3, <2>4, <2>5, <2>6, Zenon DEF ListsInv
<1>9. InfoInv'
  BY <1>1, MeaningStays DEF ConfigInv, InfoInv, Parsed
<1> QED
  BY <1>8, <1>9 DEF ConfigInv

(* Deleting goes on with the next text, whether it stays or goes. *)
LEMMA DeleteEmptyStays == ASSUME ConfigInv, DeleteEmpty PROVE ConfigInv'
<1> DEFINE owner == walk.owner
           given == config.depends[owner]
           list == lists[owner]
           shorter == SubSeq(list, 1, walk.at - 1) \o SubSeq(list, walk.at + 1, Len(list))
<1>1. /\ walk.at \in DOMAIN list /\ config \in Configs
      /\ \/ /\ IsNothing(list[walk.at])
            /\ lists' = [lists EXCEPT ![owner] = shorter]
            /\ UNCHANGED walk
         \/ /\ ~ IsNothing(list[walk.at])
            /\ walk' = [walk EXCEPT !.at = @ + 1]
            /\ UNCHANGED lists
      /\ UNCHANGED <<config, unexpanded, info, unchecked>>
  BY DEF DeleteEmpty, infoVars, IsNothing, ConfigInv, ListsInv
<1> HIDE DEF shorter
<1>2. owner \in Everyone /\ owner \in Owners
  BY <1>1, OwnersHaveLists DEF ConfigInv, ListsInv
<1>3. walk.at # 0 /\ walk.at \in Nat
  <2>1. CASE walk.at = 0
    <3>1. Base \in unexpanded => lists[Base] \in Seq(DOMAIN Value)
      BY <1>1, <2>1, OwnersHaveLists DEF ConfigInv, ListsInv
    <3>2. owner = Base
      BY <2>1 DEF ConfigInv, ListsInv, NoWalk
    <3>3. lists[Base] \in Seq(DOMAIN Value) \/ lists[Base] \in Seq(Texts)
      <4>1. config.depends[Base] \in Seq(DOMAIN Value)
        BY <1>1, OwnersHaveLists DEF Everyone
      <4>2. Meant(Base) \in Seq(Texts)
        BY <4>1, LeftIsList, LenProperties DEF Meant
      <4> QED
        BY <1>2, <3>1, <3>2, <4>2 DEF ConfigInv, ListsInv
    <3>4. DOMAIN list = 1..Len(list) /\ Len(list) \in Nat
      BY <3>2, <3>3, LenProperties
    <3> QED
      BY <1>1, <2>1, <3>4
  <2> QED
    BY <2>1 DEF ConfigInv, ListsInv
<1>4. PICK n : Cleaning(given, list, walk.at, n)
  BY <1>3 DEF ConfigInv, ListsInv
<1>5. given \in Seq(DOMAIN Value)
  BY <1>1, <1>2, OwnersHaveLists
<1>6. /\ lists' = [o \in Everyone |-> lists'[o]]
      /\ \A o \in Everyone \ {owner} : lists'[o] = lists[o]
      /\ walk' = [owner |-> walk'.owner, at |-> walk'.at]
      /\ walk'.owner = owner /\ walk'.at \in Nat /\ walk'.at # 0
  BY <1>1, <1>2, <1>3 DEF ConfigInv, ListsInv
<1>7. Cleaning(given, lists'[owner], walk'.at, n + 1)
  <2>1. CASE IsNothing(list[walk.at])
    <3>1. lists'[owner] = shorter /\ walk'.at = walk.at
      BY <1>1, <1>2, <2>1 DEF ConfigInv, ListsInv
    <3> QED
      BY <1>1, <1>4, <1>5, <2>1, <3>1, CleaningDeletes DEF shorter
  <2>2. CASE ~ IsNothing(list[walk.at])
    <3>1. lists'[owner] = list /\ walk'.at = walk.at + 1
      BY <1>1, <1>2, <2>2 DEF ConfigInv, ListsInv
    <3> HIDE DEF list, given
    <3> QED
      BY <1>1, <1>4, <1>5, <2>2, <3>1, CleaningKeeps
  <2> QED
    BY <2>1, <2>2
<1>8. Owners' = Owners /\ Owners \subseteq Everyone /\ \A o : Meant(o)' = Meant(o)
  BY <1>1, MeaningStays, OwnersHaveLists
<1>9. ListsInv'
  <2>1. owner \in unexpanded /\ unexpanded \subseteq Owners
    BY <1>3 DEF ConfigInv, ListsInv
  <2>2. \A o \in Owners \ unexpanded : lists'[o] = Meant(o)
    BY <1>6, <1>8, <2>1 DEF ConfigInv, ListsInv
  <2>3. \A o \in unexpanded : o = owner \/ lists'[o] = config.depends[o]
    BY <1>6, <1>8 DEF ConfigInv, ListsInv
  <2>4. \E m : Cleaning(config'.depends[walk'.owner], lists'[walk'.owner], walk'.at, m)
    BY <1>1, <1>6, <1>7
  <2> QED
    BY <1>1, <1>2, <1>6, <1>8, <2>1, <2>2, <2>3, <2>4 DEF ListsInv, ConfigInv
<1>10. InfoInv'
  BY <1>1, MeaningStays DEF ConfigInv, InfoInv, Parsed
<1> QED
  BY <1>9, <1>10 DEF ConfigInv
(* At the end of a list nothing is left in it but what was meant. *)
LEMMA ExpandedStays == ASSUME ConfigInv, Expanded PROVE ConfigInv'
<1> DEFINE owner == walk.owner
           given == config.depends[owner]
<1>1. /\ walk.at > Len(lists[owner]) /\ config \in Configs
      /\ unexpanded' = unexpanded \ {owner}
      /\ walk' = NoWalk
      /\ UNCHANGED <<config, lists, info, unchecked>>
  BY DEF Expanded, infoVars, ConfigInv, ListsInv
<1>2. owner \in Owners /\ Base \in Owners /\ Owners \subseteq Everyone /\ Owners' = Owners
      /\ \A o : Meant(o)' = Meant(o)
  BY <1>1, OwnersHaveLists, MeaningStays DEF ConfigInv, ListsInv
<1>3. given \in Seq(DOMAIN Value)
  BY <1>1, <1>2, OwnersHaveLists
<1>4. walk.at # 0
  <2>1. CASE walk.at = 0
    <3>1. owner = Base
      BY <2>1 DEF ConfigInv, ListsInv, NoWalk
    <3>2. lists[Base] \in Seq(DOMAIN Value) \/ lists[Base] \in Seq(Texts)
      <4>1. config.depends[Base] \in Seq(DOMAIN Value)
        BY <1>1, OwnersHaveLists DEF Everyone
      <4>2. Meant(Base) \in Seq(Texts)
        BY <4>1, LeftIsList, LenProperties DEF Meant
      <4> QED
        BY <1>2, <2>1, <4>1, <4>2 DEF ConfigInv, ListsInv
    <3>3. Len(lists[owner]) \in Nat
      BY <3>1, <3>2, LenProperties
    <3> QED
      BY <1>1, <2>1, <3>3
  <2> QED
    BY <2>1
<1>5. owner \in unexpanded /\ lists[owner] = Meant(owner)
  <2>1. PICK n : Cleaning(given, lists[owner], walk.at, n)
    BY <1>4 DEF ConfigInv, ListsInv
  <2>2. lists[owner] = LeftUpTo(given)[Len(given)]
    BY <1>1, <1>3, <2>1, CleaningEnds
  <2> QED
    BY <1>4, <2>2 DEF Meant, ConfigInv, ListsInv
<1>6. ListsInv'
  <2>1. walk' = [owner |-> walk'.owner, at |-> walk'.at] /\ walk'.owner = Base /\ walk'.at = 0
    BY <1>1 DEF NoWalk
  <2>2. \A o \in Owners' \ unexpanded' : lists'[o] = Meant(o)'
    BY <1>1, <1>2, <1>5 DEF ConfigInv, ListsInv
  <2>3. \A o \in unexpanded' :
           lists'[o] = config'.depends[o] \/ (walk'.at # 0 /\ o = walk'.owner)
    BY <1>1 DEF ConfigInv, ListsInv
  <2>4. lists' = [o \in Everyone |-> lists'[o]] /\ unexpanded' \subseteq Owners'
        /\ config' \in Configs
    BY <1>1, <1>2 DEF ConfigInv, ListsInv
  <2>5. walk'.owner \in Owners' /\ walk'.at \in Nat
    BY <1>2, <2>1
  <2>6. walk'.at # 0 => FALSE
    BY <2>1
  <2> HIDE DEF owner, given
  <2> QED
    BY <1>1, <2>1, <2>2, <2>3, <2>4, <2>5, <2>6, Zenon DEF ListsInv, NoWalk
<1>7. InfoInv'
  BY <1>1, MeaningStays DEF ConfigInv, InfoInv, Parsed
<1> QED
  BY <1>6, <1>7 DEF ConfigInv

(* Get merges lists that are what was meant. *)
LEMMA GetStays == ASSUME ConfigInv, NEW f \in Formats, Get(f) PROVE ConfigInv'
<1> DEFINE contents == IF Overrides(f) /\ config.contents[f] # {}
                       THEN config.contents[f] ELSE config.contents[Base]
           got == [depends  |-> IF Overrides(f) /\ lists[f] # <<>> THEN lists[f] ELSE lists[Base],
                   contents |-> IF Overrides(f)
                                THEN {i \in contents : Packager[i] \in {"", f}} ELSE contents]
<1>1. /\ Parsed
      /\ info' = [info EXCEPT ![f] = got]
      /\ UNCHANGED <<config, lists, unexpanded, walk, unchecked>>
  BY DEF Get, infoVars
<1>2. config \in Configs /\ unexpanded = {}
      /\ \A o \in Owners \ unexpanded : lists[o] = Meant(o)
  BY <1>1 DEF ConfigInv, ListsInv, Parsed
<1>3. lists[Base] = Meant(Base) /\ (Overrides(f) => lists[f] = Meant(f))
  BY <1>2, OwnersHaveLists
<1>4. got.depends = MergedDepends(f) /\ got.contents = MergedContents(f)
  BY <1>3 DEF MergedDepends, MergedContents
<1> HIDE DEF got, contents
<1>5. \A g : MergedDepends(g)' = MergedDepends(g) /\ MergedContents(g)' = MergedContents(g)
  BY <1>1, MeaningStays
<1>6. InfoInv'
  BY <1>1, <1>4, <1>5 DEF ConfigInv, InfoInv, Parsed
<1>7. ListsInv'
  BY <1>1, MeaningStays DEF ConfigInv, ListsInv
<1> QED
  BY <1>6, <1>7 DEF ConfigInv

(* The preparations leave the configuration alone. *)
LEMMA ConfigStays == ASSUME ConfigInv, [Next]_vars PROVE ConfigInv'
<1>1. CASE \E owner \in Owners : Expand(owner)
  BY <1>1, ExpandStays
<1>2. CASE DeleteEmpty \/ Expanded
  BY <1>2, DeleteEmptyStays, ExpandedStays
<1>3. CASE \E f \in Formats : Get(f)
  BY <1>3, GetStays
<1>4. ASSUME UNCHANGED <<config, lists, unexpanded, walk, info>>,
             unchecked' \subseteq unchecked
      PROVE  ConfigInv'
  BY <1>4, MeaningStays DEF ConfigInv, ListsInv, InfoInv, Parsed
<1>5. CASE (\E f \in Formats : Package(f)) \/ Infos \/ UNCHANGED vars
  BY <1>4, <1>5 DEF Package, Infos, vars, configVars
<1>6. CASE \E packager \in Registered : ValidateFor(packager)
  BY <1>4, <1>6 DEF ValidateFor
<1> QED
  BY <1>1, <1>2, <1>3, <1>5, <1>6 DEF Next

(* A format gets the dependencies that are left of its override's list, or *)
(* of the base's if there are none, in their order (nfpm.go:178-192,       *)
(* 147-155).                                                               *)
THEOREM ListsMeant == Spec => []ListsAsMeant
<1>1. Init => ConfigInv
  BY InitConfig
<1>2. ConfigInv /\ [Next]_vars => ConfigInv'
  BY ConfigStays
<1>3. ConfigInv => ListsAsMeant
  BY DEF ConfigInv, InfoInv, ListsAsMeant, MergedDepends
<1> QED
  BY <1>1, <1>2, <1>3, PTL DEF Spec
-----------------------------------------------------------------------------
(***************************************************************************)
(* What WithFileInfoDefaults does to a FileInfo, field by field.           *)
(***************************************************************************)
OwnerOf(owner) == IF owner = "" THEN "root" ELSE owner

FirstMode(mode, default) == IF mode = {} THEN default ELSE mode

Earliest(time, default) == IF time = NoTime THEN default ELSE time

InfoOwners == {"", "root"} \cup {Given[i].owner : i \in {j \in Index : Given[j] # NoInfo}}

InfoModes ==
    {{}, DirMode} \cup {Given[i].mode : i \in {j \in Index : Given[j] # NoInfo}}
        \cup UNION {SUBSET Host[i].mode : i \in {j \in Index : Host[j] # NoInfo}}

(* What a FileInfo is made of, and what the host adds to it. *)
LEMMA InfoParts ==
    /\ FileInfo = [owner : InfoOwners, mode : InfoModes, mtime : Nat, size : Nat]
    /\ {} \in InfoModes /\ DirMode \in InfoModes
    /\ \A owner \in InfoOwners : OwnerOf(owner) \in InfoOwners
    /\ \A i \in Index : \A umask : Host[i] # NoInfo => Host[i].mode \ umask \in InfoModes
<1>1. FileInfo = [owner : InfoOwners, mode : InfoModes, mtime : Nat, size : Nat]
  BY DEF FileInfo, InfoOwners, InfoModes
<1>2. {} \in InfoModes /\ DirMode \in InfoModes
  BY DEF InfoModes
<1>3. \A owner \in InfoOwners : OwnerOf(owner) \in InfoOwners
  BY DEF InfoOwners, OwnerOf
<1>4. ASSUME NEW i \in Index, NEW umask, Host[i] # NoInfo
      PROVE  Host[i].mode \ umask \in InfoModes
  <2>1. Host[i].mode \ umask \in SUBSET Host[i].mode
    OBVIOUS
  <2> QED
    BY <1>4, <2>1 DEF InfoModes
<1> QED
  BY <1>1, <1>2, <1>3, <1>4

(* The owner, a directory's mode and Info.MTime fill what is empty. *)
LEMMA FilledFields ==
    ASSUME NEW i \in Index, NEW x \in FileInfo, NEW r, r = Filled(i, x)
    PROVE  /\ r \in FileInfo
           /\ r.owner = OwnerOf(x.owner)
           /\ r.mode = IF IsDir(i) THEN FirstMode(x.mode, DirMode) ELSE x.mode
           /\ r.mtime = Earliest(x.mtime, MTime)
           /\ r.size = x.size
<1>1. x \in [owner : InfoOwners, mode : InfoModes, mtime : Nat, size : Nat]
  BY InfoParts
<1>2. r = [owner |-> OwnerOf(x.owner),
           mode  |-> IF IsDir(i) THEN FirstMode(x.mode, DirMode) ELSE x.mode,
           mtime |-> Earliest(x.mtime, MTime),
           size  |-> x.size]
  BY <1>1 DEF Filled, OwnerOf, FirstMode, Earliest
<1>3. /\ OwnerOf(x.owner) \in InfoOwners
      /\ (IF IsDir(i) THEN FirstMode(x.mode, DirMode) ELSE x.mode) \in InfoModes
      /\ Earliest(x.mtime, MTime) \in Nat
      /\ x.size \in Nat
  BY <1>1, InfoParts, InfosAssumption DEF FirstMode, Earliest
<1>4. r \in FileInfo
  BY <1>2, <1>3, InfoParts
<1> QED
  BY <1>2, <1>4

(* The stat fills the time and the mode and gives the size, and no time is *)
(* left empty.                                                             *)
StatGives(i, umask, x, r) ==
    /\ r \in FileInfo
    /\ r.owner = x.owner
    /\ r.mode = IF Host[i] = NoInfo THEN x.mode
                ELSE FirstMode(x.mode, Host[i].mode \ umask)
    /\ r.mtime = IF Host[i] = NoInfo THEN Earliest(x.mtime, Now)
                 ELSE Earliest(Earliest(x.mtime, Host[i].mtime), Now)
    /\ r.size = IF Host[i] = NoInfo THEN x.size ELSE Host[i].size

(* That is what the code after the stat computes. *)
LEMMA StatedFields ==
    ASSUME NEW i \in Index, NEW umask, NEW x \in FileInfo
    PROVE  StatGives(i, umask, x, AtLeastNow(Stated(i, umask, x)))
<1> DEFINE r == AtLeastNow(Stated(i, umask, x))
<1>1. x \in [owner : InfoOwners, mode : InfoModes, mtime : Nat, size : Nat]
  BY InfoParts
<1>2. CASE Host[i] = NoInfo
  <2>1. r = [owner |-> x.owner, mode |-> x.mode,
             mtime |-> Earliest(x.mtime, Now), size |-> x.size]
    BY <1>1, <1>2 DEF Stated, AtLeastNow, Earliest
  <2>2. Earliest(x.mtime, Now) \in Nat
    BY <1>1 DEF Earliest, Now
  <2>3. r \in FileInfo
    BY <1>1, <2>1, <2>2, InfoParts
  <2> HIDE DEF r
  <2>5. StatGives(i, umask, x, r)
    BY <1>2, <2>1, <2>3 DEF StatGives
  <2> QED
    BY <2>5 DEF r
<1>3. CASE Host[i] # NoInfo
  <2> DEFINE s == Stated(i, umask, x)
  <2>1. s = [owner |-> x.owner, mode |-> FirstMode(x.mode, Host[i].mode \ umask),
             mtime |-> Earliest(x.mtime, Host[i].mtime), size |-> Host[i].size]
    BY <1>1, <1>3 DEF Stated, FirstMode, Earliest
  <2> HIDE DEF s
  <2>2. r = [owner |-> s.owner, mode |-> s.mode,
             mtime |-> Earliest(s.mtime, Now), size |-> s.size]
    BY <2>1 DEF AtLeastNow, Earliest, s
  <2>3. /\ x.owner \in InfoOwners /\ Host[i].size \in Nat
        /\ FirstMode(x.mode, Host[i].mode \ umask) \in InfoModes
        /\ Earliest(Earliest(x.mtime, Host[i].mtime), Now) \in Nat
    BY <1>1, <1>3, InfoParts, InfosAssumption DEF FirstMode, Earliest, Now
  <2>4. r \in FileInfo
    BY <2>1, <2>2, <2>3, InfoParts
  <2> HIDE DEF r
  <2>5. StatGives(i, umask, x, r)
    BY <1>3, <2>1, <2>2, <2>4 DEF StatGives
  <2> QED
    BY <2>5 DEF r
<1> QED
  BY <1>2, <1>3

(* What the formats start from: the copy of a glob's FileInfo, what the    *)
(* walk of a tree found, or the FileInfo itself.                           *)
StartFrom(a, i, x) ==
    LET given == IF x = NoInfo THEN Blank ELSE x IN
    [owner |-> given.owner,
     mode  |-> IF Kind[i] = "tree" THEN FirstMode(given.mode, Host[i].mode \ Umask[a])
               ELSE given.mode,
     mtime |-> IF Kind[i] = "tree" THEN Host[i].mtime ELSE given.mtime,
     size  |-> IF Kind[i] \in {"file", "tree"} THEN 0 ELSE given.size]

(* Start is just that, and a FileInfo. *)
LEMMA StartFields ==
    ASSUME NEW a, NEW i \in Index, heap[i] \in FileInfo \cup {NoInfo}
    PROVE  Start(a, i) = StartFrom(a, i, heap[i]) /\ Start(a, i) \in FileInfo
<1> DEFINE x == heap[i]
           given == IF x = NoInfo THEN Blank ELSE x
<1>1. given \in [owner : InfoOwners, mode : InfoModes, mtime : Nat, size : Nat]
  <2>1. Blank \in [owner : InfoOwners, mode : InfoModes, mtime : Nat, size : Nat]
    BY InfoParts DEF Blank, InfoOwners, NoTime
  <2> QED
    BY <2>1, InfoParts
<1>2. Kind[i] \in {"dir", "as is", "file", "tree"}
      /\ (Kind[i] \in {"file", "tree"} => Host[i] # NoInfo)
  BY ConstantsAssumption
<1>3. Start(a, i) =
         CASE Kind[i] = "file" -> [given EXCEPT !.size = 0]
           [] Kind[i] = "tree" ->
                 [owner |-> given.owner,
                  mode  |-> IF given.mode # {} THEN given.mode ELSE Host[i].mode \ Umask[a],
                  mtime |-> Host[i].mtime,
                  size  |-> 0]
           [] OTHER -> given
  BY DEF Start
<1> HIDE DEF given
<1>4. given = [owner |-> given.owner, mode |-> given.mode,
               mtime |-> given.mtime, size |-> given.size]
  BY <1>1
<1>5. Start(a, i) = StartFrom(a, i, x)
  <2>1. StartFrom(a, i, x) =
           [owner |-> given.owner,
            mode  |-> IF Kind[i] = "tree" THEN FirstMode(given.mode, Host[i].mode \ Umask[a])
                      ELSE given.mode,
            mtime |-> IF Kind[i] = "tree" THEN Host[i].mtime ELSE given.mtime,
            size  |-> IF Kind[i] \in {"file", "tree"} THEN 0 ELSE given.size]
    BY DEF StartFrom, given
  <2>2. CASE Kind[i] = "file"
    BY <1>3, <1>4, <2>1, <2>2
  <2>3. CASE Kind[i] = "tree"
    BY <1>3, <1>4, <2>1, <2>3 DEF FirstMode
  <2>4. CASE Kind[i] \in {"dir", "as is"}
    BY <1>3, <1>4, <2>1, <2>4
  <2> QED
    BY <1>2, <2>2, <2>3, <2>4
<1>6. Start(a, i) \in FileInfo
  <2>1. CASE Kind[i] = "tree"
    <3>1. /\ Host[i].mtime \in Nat
          /\ FirstMode(given.mode, Host[i].mode \ Umask[a]) \in InfoModes
      BY <1>1, <1>2, <2>1, InfoParts, InfosAssumption DEF FirstMode
    <3> QED
      BY <1>1, <1>5, <2>1, <3>1, InfoParts DEF StartFrom, given
  <2>2. CASE Kind[i] = "file"
    BY <1>1, <1>3, <1>4, <2>2, InfoParts
  <2>3. CASE Kind[i] \in {"dir", "as is"}
    BY <1>1, <1>3, <2>3, InfoParts
  <2> QED
    BY <1>2, <2>1, <2>2, <2>3
<1> QED
  BY <1>5, <1>6
(* The first time that is not empty is found by going through them. *)
LEMMA FirstTimeIs ==
    ASSUME NEW x \in Nat, NEW y \in Nat, NEW z \in Nat
    PROVE  /\ FirstTime(<<x, y, Now>>) = Earliest(Earliest(x, y), Now)
           /\ FirstTime(<<x, y, z, Now>>) = Earliest(Earliest(Earliest(x, y), z), Now)
<1>1. FirstTime(<<x, y, Now>>) = Earliest(Earliest(x, y), Now)
  <2> DEFINE times == <<x, y, Now>>
             IsFirst(n) == times[n] # NoTime /\ \A m \in 1..3 : m < n => times[m] = NoTime
  <2>1. DOMAIN times = 1..3 /\ times[1] = x /\ times[2] = y /\ times[3] = Now
    OBVIOUS
  <2>2. FirstTime(times) = times[CHOOSE n \in 1..3 : IsFirst(n)]
    BY <2>1 DEF FirstTime
  <2>3. \E n \in 1..3 : IsFirst(n)
    BY <2>1 DEF Now, NoTime
  <2>4. PICK n \in 1..3 : IsFirst(n) /\ FirstTime(times) = times[n]
    BY <2>2, <2>3
  <2>5. times[n] = Earliest(Earliest(x, y), Now)
    <3>1. n = 1 \/ n = 2 \/ n = 3
      OBVIOUS
    <3> QED
      BY <2>1, <2>4, <3>1 DEF Earliest
  <2> QED
    BY <2>4, <2>5
<1>2. FirstTime(<<x, y, z, Now>>) = Earliest(Earliest(Earliest(x, y), z), Now)
  <2> DEFINE times == <<x, y, z, Now>>
             IsFirst(n) == times[n] # NoTime /\ \A m \in 1..4 : m < n => times[m] = NoTime
  <2>1. DOMAIN times = 1..4 /\ times[1] = x /\ times[2] = y /\ times[3] = z /\ times[4] = Now
    OBVIOUS
  <2>2. FirstTime(times) = times[CHOOSE n \in 1..4 : IsFirst(n)]
    BY <2>1 DEF FirstTime
  <2>3. \E n \in 1..4 : IsFirst(n)
    BY <2>1 DEF Now, NoTime
  <2>4. PICK n \in 1..4 : IsFirst(n) /\ FirstTime(times) = times[n]
    BY <2>2, <2>3
  <2>5. times[n] = Earliest(Earliest(Earliest(x, y), z), Now)
    <3>1. n = 1 \/ n = 2 \/ n = 3 \/ n = 4
      OBVIOUS
    <3> QED
      BY <2>1, <2>4, <3>1 DEF Earliest
  <2> QED
    BY <2>4, <2>5
<1> QED
  BY <1>1, <1>2

(* What the Config and the host say of a content, with nothing for nothing. *)
FromConfig(i) == IF Given[i] = NoInfo THEN Blank ELSE Given[i]

FromHost(i) == IF Host[i] = NoInfo THEN Blank ELSE Host[i]

AloneTime(i) ==
    IF Kind[i] = "tree"
    THEN Earliest(Earliest(FromHost(i).mtime, MTime), Now)
    ELSE Earliest(Earliest(Earliest(FromConfig(i).mtime, MTime), FromHost(i).mtime), Now)

AloneMode(a, i) ==
    FirstMode(FromConfig(i).mode, IF IsDir(i) THEN DirMode ELSE FromHost(i).mode \ Umask[a])

(* The file info an actor gives alone, field by field; only the mode       *)
(* depends on the actor.                                                   *)
LEMMA AloneFields ==
    ASSUME NEW a, NEW i \in Index
    PROVE  /\ Alone(a, i) = [owner |-> OwnerOf(FromConfig(i).owner),
                             mode  |-> AloneMode(a, i),
                             mtime |-> AloneTime(i)]
           /\ AloneTime(i) # NoTime
           /\ FromConfig(i) \in FileInfo
           /\ FromHost(i).mtime \in Nat /\ FromHost(i).size \in Nat
           /\ (Host[i] = NoInfo => FromHost(i).mtime = NoTime /\ FromHost(i).mode = {})
<1>1. FromConfig(i) \in FileInfo
  <2>1. Blank \in FileInfo
    BY InfoParts DEF Blank, InfoOwners, NoTime
  <2> QED
    BY <2>1, InfosAssumption DEF FromConfig
<1>2. /\ FromHost(i).mtime \in Nat /\ FromHost(i).size \in Nat
      /\ (Host[i] = NoInfo => FromHost(i).mtime = NoTime /\ FromHost(i).mode = {})
  BY InfosAssumption DEF FromHost, Blank, NoTime
<1>3. FromConfig(i).mtime \in Nat /\ MTime \in Nat
  BY <1>1, InfoParts, InfosAssumption
<1>4. AloneTime(i) # NoTime
  BY DEF AloneTime, Earliest, Now, NoTime
<1> DEFINE given == FromConfig(i)
           host == FromHost(i)
<1>5. Alone(a, i) =
         [owner |-> IF given.owner = "" THEN "root" ELSE given.owner,
          mode  |-> IF given.mode # {} THEN given.mode
                    ELSE IF IsDir(i) THEN DirMode ELSE host.mode \ Umask[a],
          mtime |-> IF Kind[i] = "tree" THEN FirstTime(<<host.mtime, MTime, Now>>)
                    ELSE FirstTime(<<given.mtime, MTime, host.mtime, Now>>)]
  BY DEF Alone, FromConfig, FromHost
<1>6. FirstTime(<<host.mtime, MTime, Now>>) = Earliest(Earliest(host.mtime, MTime), Now)
      /\ FirstTime(<<given.mtime, MTime, host.mtime, Now>>)
            = Earliest(Earliest(Earliest(given.mtime, MTime), host.mtime), Now)
  BY <1>2, <1>3, FirstTimeIs
<1> HIDE DEF given, host
<1>7. Alone(a, i) = [owner |-> OwnerOf(given.owner),
                     mode  |-> AloneMode(a, i),
                     mtime |-> AloneTime(i)]
  <2>1. AloneMode(a, i) = IF given.mode # {} THEN given.mode
                          ELSE IF IsDir(i) THEN DirMode ELSE host.mode \ Umask[a]
    BY DEF AloneMode, FirstMode, given, host
  <2>2. AloneTime(i) = IF Kind[i] = "tree" THEN FirstTime(<<host.mtime, MTime, Now>>)
                       ELSE FirstTime(<<given.mtime, MTime, host.mtime, Now>>)
    BY <1>6 DEF AloneTime, given, host
  <2>3. OwnerOf(given.owner) = IF given.owner = "" THEN "root" ELSE given.owner
    BY DEF OwnerOf
  <2> QED
    BY <1>5, <2>1, <2>2, <2>3
<1> QED
  BY <1>1, <1>2, <1>4, <1>7 DEF given

-----------------------------------------------------------------------------
(***************************************************************************)
(* A FileInfo of its own.                                                  *)
(***************************************************************************)
(* What an actor makes of a content up to the stat, when nobody has        *)
(* touched the Config's FileInfo.                                          *)
BeforeStat(a, i) == Filled(i, StartFrom(a, i, Given[i]))

IsOwn(a, i, x) ==
    /\ Essence(x) = Alone(a, i)
    /\ Host[i] # NoInfo /\ ~ IsDir(i) => x.size = Host[i].size

(* StartFrom depends on the heap only by the FileInfo it starts from. *)
LEMMA StartFromGiven ==
    ASSUME NEW a, NEW i \in Index
    PROVE  /\ StartFrom(a, i, Given[i]) \in FileInfo
           /\ StartFrom(a, i, Given[i]).owner = FromConfig(i).owner
           /\ StartFrom(a, i, Given[i]).mode =
                 IF Kind[i] = "tree" THEN FirstMode(FromConfig(i).mode, Host[i].mode \ Umask[a])
                 ELSE FromConfig(i).mode
           /\ StartFrom(a, i, Given[i]).mtime =
                 IF Kind[i] = "tree" THEN Host[i].mtime ELSE FromConfig(i).mtime
           /\ StartFrom(a, i, Given[i]).size =
                 IF Kind[i] \in {"file", "tree"} THEN 0 ELSE FromConfig(i).size
<1> DEFINE given == FromConfig(i)
           s == [owner |-> given.owner,
                 mode  |-> IF Kind[i] = "tree" THEN FirstMode(given.mode, Host[i].mode \ Umask[a])
                           ELSE given.mode,
                 mtime |-> IF Kind[i] = "tree" THEN Host[i].mtime ELSE given.mtime,
                 size  |-> IF Kind[i] \in {"file", "tree"} THEN 0 ELSE given.size]
<1>1. StartFrom(a, i, Given[i]) = s
  BY DEF StartFrom, FromConfig
<1>2. given \in [owner : InfoOwners, mode : InfoModes, mtime : Nat, size : Nat]
  BY AloneFields, InfoParts
<1>3. Kind[i] = "tree" => Host[i] # NoInfo
  BY ConstantsAssumption
<1>4. (IF Kind[i] = "tree" THEN FirstMode(given.mode, Host[i].mode \ Umask[a])
       ELSE given.mode) \in InfoModes
  BY <1>2, <1>3, InfoParts DEF FirstMode
<1>5. (IF Kind[i] = "tree" THEN Host[i].mtime ELSE given.mtime) \in Nat
  BY <1>2, <1>3, InfosAssumption
<1>6. s \in FileInfo
  BY <1>2, <1>4, <1>5, InfoParts
<1> QED
  BY <1>1, <1>6

(* The stat makes of it what the actor would have made alone; only a       *)
(* directory can be complete without one.                                  *)
LEMMA OwnIsAlone ==
    ASSUME NEW a, NEW i \in Index
    PROVE  /\ IsOwn(a, i, AtLeastNow(Stated(i, Umask[a], BeforeStat(a, i))))
           /\ ~ Shared(i) /\ Complete(i, BeforeStat(a, i))
                 => IsOwn(a, i, AtLeastNow(BeforeStat(a, i)))
<1> DEFINE g == FromConfig(i)
           h == FromHost(i)
           x == StartFrom(a, i, Given[i])
           p == BeforeStat(a, i)
           q == AtLeastNow(Stated(i, Umask[a], p))
<1>1. /\ x \in FileInfo
      /\ x.owner = g.owner
      /\ x.mode = IF Kind[i] = "tree" THEN FirstMode(g.mode, Host[i].mode \ Umask[a]) ELSE g.mode
      /\ x.mtime = IF Kind[i] = "tree" THEN Host[i].mtime ELSE g.mtime
      /\ x.size = IF Kind[i] \in {"file", "tree"} THEN 0 ELSE g.size
  BY StartFromGiven
<1>2. p = Filled(i, x)
  BY DEF BeforeStat
<1> HIDE DEF x
<1>3. /\ p \in FileInfo
      /\ p.owner = OwnerOf(x.owner)
      /\ p.mode = IF IsDir(i) THEN FirstMode(x.mode, DirMode) ELSE x.mode
      /\ p.mtime = Earliest(x.mtime, MTime)
      /\ p.size = x.size
  BY <1>1, <1>2, FilledFields
<1>3a. q = AtLeastNow(Stated(i, Umask[a], p))
  OBVIOUS
<1> HIDE DEF p, q
<1>4. /\ q \in FileInfo
      /\ q.owner = p.owner
      /\ q.mode = IF Host[i] = NoInfo THEN p.mode ELSE FirstMode(p.mode, Host[i].mode \ Umask[a])
      /\ q.mtime = IF Host[i] = NoInfo THEN Earliest(p.mtime, Now)
                   ELSE Earliest(Earliest(p.mtime, Host[i].mtime), Now)
      /\ q.size = IF Host[i] = NoInfo THEN p.size ELSE Host[i].size
  <2>1. StatGives(i, Umask[a], p, q)
    BY <1>3, <1>3a, StatedFields
  <2> QED
    BY <2>1 DEF StatGives
<1>5. /\ Kind[i] \in {"dir", "as is", "file", "tree"}
      /\ (Kind[i] \in {"file", "tree"} => Host[i] # NoInfo)
      /\ (IsDir(i) <=> Kind[i] = "dir")
      /\ DirMode # {}
  BY ConstantsAssumption DEF IsDir
<1>6. /\ (Host[i] # NoInfo => h = Host[i])
      /\ (Host[i] = NoInfo => h.mtime = NoTime /\ h.mode = {})
  BY AloneFields DEF FromHost
<1>7. Alone(a, i) = [owner |-> OwnerOf(g.owner), mode |-> AloneMode(a, i), mtime |-> AloneTime(i)]
  BY AloneFields
<1>8. AloneMode(a, i) = FirstMode(g.mode, IF IsDir(i) THEN DirMode ELSE h.mode \ Umask[a])
      /\ AloneTime(i) = IF Kind[i] = "tree" THEN Earliest(Earliest(h.mtime, MTime), Now)
                        ELSE Earliest(Earliest(Earliest(g.mtime, MTime), h.mtime), Now)
  BY DEF AloneMode, AloneTime
<1> HIDE DEF g, h
<1>9. q.mode = AloneMode(a, i)
  <2>1. CASE IsDir(i)
    BY <1>1, <1>3, <1>4, <1>5, <1>8, <2>1 DEF FirstMode
  <2>2. CASE ~ IsDir(i)
    BY <1>1, <1>3, <1>4, <1>5, <1>6, <1>8, <2>2 DEF FirstMode
  <2> QED
    BY <2>1, <2>2
<1>10. q.mtime = AloneTime(i)
  BY <1>1, <1>3, <1>4, <1>5, <1>6, <1>8 DEF Earliest, NoTime
<1>11. IsOwn(a, i, q)
  <2>1. q.owner = OwnerOf(g.owner)
    BY <1>1, <1>3, <1>4
  <2> QED
    BY <1>4, <1>7, <1>9, <1>10, <2>1 DEF IsOwn, Essence
<1>12. ASSUME ~ Shared(i), Complete(i, p) PROVE IsOwn(a, i, AtLeastNow(p))
  <2>1. p.mtime # NoTime /\ p.mode # {} /\ (p.size # 0 \/ IsDir(i))
    BY <1>12 DEF Complete
  <2>2. IsDir(i) /\ Given[i] = NoInfo
    <3>1. Given[i] = NoInfo => g.size = 0
      BY DEF g, FromConfig, Blank
    <3> QED
      BY <1>1, <1>3, <1>5, <1>12, <2>1, <3>1 DEF Shared
  <2>3. AtLeastNow(p) = p
    <3>1. p = [owner |-> p.owner, mode |-> p.mode, mtime |-> p.mtime, size |-> p.size]
      BY <1>3, InfoParts
    <3> QED
      BY <2>1, <3>1 DEF AtLeastNow
  <2>4. p.mode = AloneMode(a, i)
    BY <1>1, <1>3, <1>5, <1>8, <2>2 DEF FirstMode
  <2>5. p.mtime = AloneTime(i)
    BY <1>1, <1>3, <1>5, <1>8, <2>1, <2>2 DEF Earliest
  <2>6. p.owner = OwnerOf(g.owner)
    BY <1>1, <1>3
  <2> QED
    BY <1>7, <2>2, <2>3, <2>4, <2>5, <2>6 DEF IsOwn, Essence
<1> QED
  BY <1>11, <1>12 DEF p, q
-----------------------------------------------------------------------------
(***************************************************************************)
(* The preparations, in any interleaving.                                  *)
(***************************************************************************)
(* The contents an actor has been through, and those it is done with. *)
Reached(a) == handed[a] \ todo[a]

Prepared(a) == Reached(a) \ stating[a]

Infomaps == [Actors -> [Index -> FileInfo \cup {NoInfo}]]

InfosTypes ==
    /\ heap \in [Index -> FileInfo \cup {NoInfo}]
    /\ \A i \in Index : heap[i] = NoInfo <=> Given[i] = NoInfo
    /\ handed \in [Actors -> SUBSET Index]
    /\ todo \in [Actors -> SUBSET Index]
    /\ stating \in [Actors -> SUBSET Index]
    /\ \A a \in Actors : todo[a] \subseteq handed[a] /\ stating[a] \subseteq Reached(a)
    /\ \A a \in Actors : \A i, j \in stating[a] : i = j
    /\ private \in Infomaps
    /\ \A a \in Actors, i \in Index :
          i \in Reached(a) /\ ~ Shared(i) => private[a][i] \in FileInfo
    /\ written \in Infomaps

(* What a FileInfo of its own is: untouched in the Config, what the actor  *)
(* would make of it alone in the actor's hands.                            *)
OwnInv ==
    /\ \A i \in Index : ~ Shared(i) => heap[i] = Given[i]
    /\ \A a \in Actors, i \in Index : ~ Shared(i) =>
          /\ i \in stating[a] => private[a][i] = BeforeStat(a, i)
          /\ i \in Prepared(a) => IsOwn(a, i, private[a][i])
          /\ written[a][i] # NoInfo => IsOwn(a, i, written[a][i])

(* A step of a preparation, in which Get and the package commands play no  *)
(* part any more.                                                          *)
InfosStep ==
    \/ UNCHANGED infoVars
    \/ \E a \in Actors, indices \in SUBSET Index : Begin(a, indices)
    \/ \E a \in Actors, i \in Index : Fill(a, i) \/ Stat(a, i) \/ Write(a, i)

(* Every step is one. *)
LEMMA EveryStep == ASSUME ConfigInv, [Next]_vars PROVE InfosStep
<1>1. config \in Configs /\ config.contents \in [Everyone -> SUBSET Index]
      /\ Actors = Formats \cup {Validate}
  BY ConfigsAssumption DEF ConfigInv, ListsInv, Everyone
<1>2. CASE \E f \in Formats : Package(f)
  <2>1. PICK f \in Formats :
           info[f] # NoInfo /\ Begin(f, {i \in info[f].contents : Relevant(PreparedFor(f), i)})
    BY <1>2 DEF Package
  <2>2. info[f].contents \in SUBSET Index
    BY <1>1, <2>1 DEF ConfigInv, InfoInv, MergedContents, Everyone
  <2> QED
    BY <1>1, <2>1, <2>2 DEF InfosStep
<1>3. CASE \E packager \in Registered : ValidateFor(packager)
  <2>1. PICK packager \in Registered :
           Begin(Validate, {i \in config.contents[Base] : Relevant(packager, i)})
    BY <1>3 DEF ValidateFor
  <2>2. config.contents[Base] \in SUBSET Index
    BY <1>1 DEF Everyone
  <2> QED
    BY <1>1, <2>1, <2>2 DEF InfosStep
<1>4. CASE Infos
  BY <1>4 DEF Infos, InfosStep
<1>5. CASE UNCHANGED vars
  BY <1>5 DEF vars, InfosStep
<1>6. CASE (\E owner \in Owners : Expand(owner)) \/ DeleteEmpty \/ Expanded \/ \E f \in Formats : Get(f)
  BY <1>6 DEF Expand, DeleteEmpty, Expanded, Get, InfosStep
<1> QED
  BY <1>2, <1>3, <1>4, <1>5, <1>6 DEF Next

(* Nobody has been handed anything yet. *)
LEMMA InitInfos == Init => InfosTypes /\ OwnInv
<1> SUFFICES ASSUME Init PROVE InfosTypes /\ OwnInv
  OBVIOUS
<1>1. InfosInit /\ Given \in [Index -> FileInfo \cup {NoInfo}]
  BY InfosAssumption DEF Init
<1>2. \A a \in Actors, i \in Index :
         /\ handed[a] = {} /\ todo[a] = {} /\ stating[a] = {}
         /\ private[a][i] = NoInfo /\ written[a][i] = NoInfo
  BY <1>1 DEF InfosInit
<1>3. InfosTypes
  <2>1. private \in Infomaps /\ written \in Infomaps
    BY <1>1 DEF InfosInit, Infomaps
  <2> QED
    BY <1>1, <1>2, <2>1 DEF InfosInit, InfosTypes, Reached
<1>4. OwnInv
  BY <1>1, <1>2 DEF InfosInit, OwnInv, Prepared, Reached
<1> QED
  BY <1>3, <1>4

(* Everybody else's place is as it was. *)
LEMMA PlaceSet ==
    ASSUME NEW m \in Infomaps, NEW a \in Actors, NEW i \in Index, NEW x \in FileInfo \cup {NoInfo},
           NEW n, n = [m EXCEPT ![a][i] = x]
    PROVE  /\ n \in Infomaps
           /\ n[a][i] = x
           /\ \A b \in Actors, j \in Index : b # a \/ j # i => n[b][j] = m[b][j]
  BY DEF Infomaps
(* What a content's turn leaves, y being what it made of the FileInfo: the *)
(* content is behind the actor, and prepared unless a stat is to come.     *)
AfterTurn(a, i, y) ==
    /\ i \in todo[a] /\ stating[a] = {}
    /\ todo' = [todo EXCEPT ![a] = @ \ {i}]
    /\ stating' = [stating EXCEPT ![a] = IF Complete(i, y) THEN {} ELSE {i}]
    /\ IF Shared(i) THEN heap' = [heap EXCEPT ![i] = y] /\ UNCHANGED private
       ELSE private' = [private EXCEPT ![a][i] = y] /\ UNCHANGED heap
    /\ UNCHANGED <<handed, written>>

AfterStat(a, i, y) ==
    /\ i \in stating[a]
    /\ stating' = [stating EXCEPT ![a] = {}]
    /\ IF Shared(i) THEN heap' = [heap EXCEPT ![i] = y] /\ UNCHANGED private
       ELSE private' = [private EXCEPT ![a][i] = y] /\ UNCHANGED heap
    /\ UNCHANGED <<handed, todo, written>>

(* What is complete has its time. *)
LEMMA CompleteHasTime ==
    ASSUME NEW i, NEW y \in FileInfo, Complete(i, y)
    PROVE  AtLeastNow(y) = y
<1>1. y = [owner |-> y.owner, mode |-> y.mode, mtime |-> y.mtime, size |-> y.size]
  BY InfoParts
<1>2. y.mtime # NoTime
  BY DEF Complete
<1> QED
  BY <1>1, <1>2 DEF AtLeastNow

(* A turn and a stat do just that. *)
LEMMA FillIs ==
    ASSUME InfosTypes, NEW a \in Actors, NEW i \in Index, Fill(a, i)
    PROVE  LET y == Filled(i, StartFrom(a, i, heap[i]))
           IN  /\ AfterTurn(a, i, y)
               /\ StartFrom(a, i, heap[i]) \in FileInfo
               /\ y \in FileInfo
<1> DEFINE x == StartFrom(a, i, heap[i])
           y == Filled(i, x)
<1>1. Start(a, i) = x /\ x \in FileInfo
  BY StartFields DEF InfosTypes
<1>2. y \in FileInfo
  BY <1>1, FilledFields
<1> HIDE DEF x, y
<1>3. y = Filled(i, Start(a, i))
  BY <1>1 DEF y
<1> DEFINE result == IF Complete(i, y) THEN AtLeastNow(y) ELSE y
<1>4. result = y
  BY <1>2, CompleteHasTime
<1>5. /\ stating[a] = {} /\ i \in todo[a]
      /\ todo' = [todo EXCEPT ![a] = @ \ {i}]
      /\ stating' = [stating EXCEPT ![a] = IF Complete(i, y) THEN {} ELSE {i}]
      /\ IF Shared(i)
         THEN heap' = [heap EXCEPT ![i] = result] /\ UNCHANGED private
         ELSE private' = [private EXCEPT ![a][i] = result] /\ UNCHANGED heap
      /\ UNCHANGED <<handed, written>>
  BY <1>3 DEF Fill
<1>6. AfterTurn(a, i, y)
  BY <1>4, <1>5 DEF AfterTurn
<1> QED
  BY <1>1, <1>2, <1>6 DEF x, y

(* The stat works on what the actor or somebody else left in between. *)
LEMMA StatIs ==
    ASSUME InfosTypes, NEW a \in Actors, NEW i \in Index, Stat(a, i)
    PROVE  LET x == IF Shared(i) THEN heap[i] ELSE private[a][i]
               y == AtLeastNow(Stated(i, Umask[a], x))
           IN  /\ AfterStat(a, i, y)
               /\ x \in FileInfo
               /\ StatGives(i, Umask[a], x, y)
<1> DEFINE x == IF Shared(i) THEN heap[i] ELSE private[a][i]
           y == AtLeastNow(Stated(i, Umask[a], x))
<1>1. /\ i \in stating[a]
      /\ stating' = [stating EXCEPT ![a] = {}]
      /\ UNCHANGED <<handed, todo, written>>
  BY DEF Stat
<1>2. x \in FileInfo
  <2>1. CASE Shared(i)
    BY <2>1, InfosAssumption DEF InfosTypes, Shared
  <2>2. CASE ~ Shared(i)
    BY <1>1, <2>2 DEF InfosTypes
  <2> QED
    BY <2>1, <2>2
<1>3. IF Shared(i) THEN heap' = [heap EXCEPT ![i] = y] /\ UNCHANGED private
      ELSE private' = [private EXCEPT ![a][i] = y] /\ UNCHANGED heap
  <2>1. CASE Shared(i)
    <3>1. heap' = [heap EXCEPT ![i] = AtLeastNow(Stated(i, Umask[a], @))] /\ UNCHANGED private
      BY <2>1 DEF Stat
    <3>2. y = AtLeastNow(Stated(i, Umask[a], heap[i]))
      BY <2>1
    <3> QED
      BY <2>1, <3>1, <3>2
  <2>2. CASE ~ Shared(i)
    <3>1. private' = [private EXCEPT ![a][i] = AtLeastNow(Stated(i, Umask[a], @))]
          /\ UNCHANGED heap
      BY <2>2 DEF Stat
    <3>2. y = AtLeastNow(Stated(i, Umask[a], private[a][i]))
      BY <2>2
    <3> QED
      BY <2>2, <3>1, <3>2
  <2> QED
    BY <2>1, <2>2
<1>4. StatGives(i, Umask[a], x, y)
  BY <1>2, StatedFields
<1> HIDE DEF x, y
<1>5. AfterStat(a, i, y)
  BY <1>1, <1>3 DEF AfterStat
<1> QED
  BY <1>2, <1>4, <1>5 DEF x, y

(* How a turn and a stat move the content along. *)
LEMMA TurnMoves ==
    ASSUME InfosTypes, NEW a \in Actors, NEW i \in Index, NEW y, AfterTurn(a, i, y)
    PROVE  /\ i \in handed[a] /\ i \notin Reached(a)
           /\ Reached(a)' = Reached(a) \cup {i}
           /\ Prepared(a)' = IF Complete(i, y) THEN Prepared(a) \cup {i} ELSE Prepared(a)
           /\ \A b \in Actors \ {a} : /\ Reached(b)' = Reached(b)
                                      /\ Prepared(b)' = Prepared(b)
                                      /\ stating'[b] = stating[b]
  BY DEF InfosTypes, AfterTurn, Reached, Prepared

(* After a stat the content is prepared. *)
LEMMA StatMoves ==
    ASSUME InfosTypes, NEW a \in Actors, NEW i \in Index, NEW y, AfterStat(a, i, y)
    PROVE  /\ i \in handed[a] /\ i \in Reached(a)
           /\ stating'[a] = {}
           /\ Prepared(a)' = Prepared(a) \cup {i}
           /\ \A b \in Actors : Reached(b)' = Reached(b)
           /\ \A b \in Actors \ {a} : Prepared(b)' = Prepared(b) /\ stating'[b] = stating[b]
<1>1. stating[a] = {i}
  BY DEF InfosTypes, AfterStat
<1> QED
  BY <1>1 DEF InfosTypes, AfterStat, Reached, Prepared

(* An actor without a turn to take begins; it has prepared nothing now. *)
LEMMA BeginMoves ==
    ASSUME InfosTypes, NEW a \in Actors, NEW indices \in SUBSET Index, Begin(a, indices)
    PROVE  /\ Reached(a)' = {} /\ Prepared(a)' = {} /\ stating' = stating /\ stating[a] = {}
           /\ \A b \in Actors \ {a} : Reached(b)' = Reached(b) /\ Prepared(b)' = Prepared(b)
  BY DEF InfosTypes, Begin, Idle, Reached, Prepared
(* A FileInfo that is put where it belongs leaves the others in place. *)
LEMMA PutTypes ==
    ASSUME InfosTypes, NEW a \in Actors, NEW i \in Index, NEW y \in FileInfo,
           IF Shared(i) THEN heap' = [heap EXCEPT ![i] = y] /\ UNCHANGED private
           ELSE private' = [private EXCEPT ![a][i] = y] /\ UNCHANGED heap
    PROVE  /\ heap' \in [Index -> FileInfo \cup {NoInfo}]
           /\ \A j \in Index : heap'[j] = NoInfo <=> Given[j] = NoInfo
           /\ private' \in Infomaps
           /\ \A b \in Actors, j \in Index :
                 private'[b][j] = IF b = a /\ j = i /\ ~ Shared(i) THEN y ELSE private[b][j]
           /\ \A j \in Index : heap'[j] = IF j = i /\ Shared(i) THEN y ELSE heap[j]
<1>1. CASE Shared(i)
  <2>1. Given[i] # NoInfo /\ y # NoInfo
    BY <1>1, InfosAssumption DEF Shared
  <2>2. heap' = [heap EXCEPT ![i] = y] /\ private' = private
    BY <1>1
  <2> QED
    BY <1>1, <2>1, <2>2 DEF InfosTypes
<1>2. CASE ~ Shared(i)
  <2>1. heap' = heap /\ private' = [private EXCEPT ![a][i] = y]
    BY <1>2
  <2>2. /\ private' \in Infomaps /\ private'[a][i] = y
        /\ \A b \in Actors, j \in Index : b # a \/ j # i => private'[b][j] = private[b][j]
    <3>1. private \in Infomaps /\ y \in FileInfo \cup {NoInfo}
      BY DEF InfosTypes
    <3> QED
      BY <2>1, <3>1 DEF Infomaps
  <2> QED
    BY <1>2, <2>1, <2>2 DEF InfosTypes
<1> QED
  BY <1>1, <1>2

(* The preparations keep the types. *)
LEMMA InfosTypesStay == ASSUME InfosTypes, InfosStep PROVE InfosTypes'
<1>1. CASE UNCHANGED infoVars
  BY <1>1 DEF infoVars, InfosTypes, Reached
<1>2. CASE \E a \in Actors, indices \in SUBSET Index : Begin(a, indices)
  <2>1. PICK a \in Actors, indices \in SUBSET Index : Begin(a, indices)
    BY <1>2
  <2>2. /\ handed' = [handed EXCEPT ![a] = indices]
        /\ todo' = [todo EXCEPT ![a] = indices]
        /\ UNCHANGED <<heap, stating, private, written>>
    BY <2>1 DEF Begin
  <2>3. handed' \in [Actors -> SUBSET Index] /\ todo' \in [Actors -> SUBSET Index]
        /\ \A b \in Actors : todo'[b] \subseteq handed'[b]
    BY <2>2 DEF InfosTypes
  <2>4. \A b \in Actors : Reached(b)' = Reached(b) \/ (Reached(b)' = {} /\ stating'[b] = {})
    BY <2>1, BeginMoves
  <2> QED
    BY <2>2, <2>3, <2>4 DEF InfosTypes
<1>3. CASE \E a \in Actors, i \in Index : Fill(a, i)
  <2>1. PICK a \in Actors, i \in Index : Fill(a, i)
    BY <1>3
  <2>2. PICK y \in FileInfo : AfterTurn(a, i, y)
    BY <2>1, FillIs
  <2>3. /\ todo' = [todo EXCEPT ![a] = @ \ {i}]
        /\ stating' = [stating EXCEPT ![a] = IF Complete(i, y) THEN {} ELSE {i}]
        /\ stating[a] = {}
        /\ UNCHANGED <<handed, written>>
    BY <2>2 DEF AfterTurn
  <2>4. /\ Reached(a)' = Reached(a) \cup {i}
        /\ \A b \in Actors \ {a} : Reached(b)' = Reached(b) /\ stating'[b] = stating[b]
    BY <2>2, TurnMoves
  <2>5. /\ heap' \in [Index -> FileInfo \cup {NoInfo}]
        /\ \A j \in Index : heap'[j] = NoInfo <=> Given[j] = NoInfo
        /\ private' \in Infomaps
        /\ \A b \in Actors, j \in Index :
              private'[b][j] = IF b = a /\ j = i /\ ~ Shared(i) THEN y ELSE private[b][j]
    BY <2>2, PutTypes DEF AfterTurn
  <2>6. stating' \in [Actors -> SUBSET Index] /\ todo' \in [Actors -> SUBSET Index]
        /\ stating'[a] \subseteq {i}
    BY <2>3 DEF InfosTypes
  <2>7. \A b \in Actors : todo'[b] \subseteq handed'[b] /\ stating'[b] \subseteq Reached(b)'
    BY <2>3, <2>4, <2>6 DEF InfosTypes
  <2>8. \A b \in Actors : \A j, k \in stating'[b] : j = k
    BY <2>4, <2>6 DEF InfosTypes
  <2>9. \A b \in Actors, j \in Index :
           j \in Reached(b)' /\ ~ Shared(j) => private'[b][j] \in FileInfo
    BY <2>4, <2>5 DEF InfosTypes
  <2> QED
    BY <2>3, <2>5, <2>6, <2>7, <2>8, <2>9 DEF InfosTypes, Shared
<1>4. CASE \E a \in Actors, i \in Index : Stat(a, i)
  <2>1. PICK a \in Actors, i \in Index : Stat(a, i)
    BY <1>4
  <2>2. PICK y \in FileInfo : AfterStat(a, i, y)
    BY <2>1, StatIs DEF StatGives
  <2>3. /\ stating' = [stating EXCEPT ![a] = {}]
        /\ UNCHANGED <<handed, todo, written>>
    BY <2>2 DEF AfterStat
  <2>4. \A b \in Actors : Reached(b)' = Reached(b)
    BY <2>2, StatMoves
  <2>5. /\ heap' \in [Index -> FileInfo \cup {NoInfo}]
        /\ \A j \in Index : heap'[j] = NoInfo <=> Given[j] = NoInfo
        /\ private' \in Infomaps
        /\ \A b \in Actors, j \in Index :
              private'[b][j] = IF b = a /\ j = i /\ ~ Shared(i) THEN y ELSE private[b][j]
    BY <2>2, PutTypes DEF AfterStat
  <2>6. stating' \in [Actors -> SUBSET Index] /\ \A b \in Actors : stating'[b] \subseteq stating[b]
    BY <2>3 DEF InfosTypes
  <2>7. \A b \in Actors, j \in Index :
           j \in Reached(b)' /\ ~ Shared(j) => private'[b][j] \in FileInfo
    BY <2>4, <2>5 DEF InfosTypes
  <2>8. \A b \in Actors : todo'[b] \subseteq handed'[b] /\ stating'[b] \subseteq Reached(b)'
    BY <2>3, <2>4, <2>6 DEF InfosTypes
  <2>9. \A b \in Actors : \A j, k \in stating'[b] : j = k
    BY <2>6 DEF InfosTypes
  <2> QED
    BY <2>3, <2>5, <2>6, <2>7, <2>8, <2>9 DEF InfosTypes, Shared
<1>5. CASE \E a \in Actors, i \in Index : Write(a, i)
  <2>1. PICK a \in Actors, i \in Index : Write(a, i)
    BY <1>5
  <2>2. /\ written' = [written EXCEPT ![a][i] = IF Shared(i) THEN heap[i] ELSE private[a][i]]
        /\ UNCHANGED <<heap, handed, todo, stating, private>>
    BY <2>1 DEF Write
  <2>3. (IF Shared(i) THEN heap[i] ELSE private[a][i]) \in FileInfo \cup {NoInfo}
    BY DEF InfosTypes, Infomaps
  <2>4. written' \in Infomaps
    BY <2>2, <2>3, PlaceSet, ZenonT(60) DEF InfosTypes
  <2> QED
    BY <2>2, <2>4 DEF InfosTypes, Reached
<1> QED
  BY <1>1, <1>2, <1>3, <1>4, <1>5 DEF InfosStep

(* A preparation that is alone with its FileInfo makes of it what it would *)
(* make alone, whatever the others do.                                     *)
LEMMA OwnStays == ASSUME InfosTypes, OwnInv, InfosStep PROVE OwnInv'
<1>1. CASE UNCHANGED infoVars
  BY <1>1 DEF infoVars, OwnInv, Prepared, Reached
<1>2. CASE \E a \in Actors, indices \in SUBSET Index : Begin(a, indices)
  <2>1. PICK a \in Actors, indices \in SUBSET Index : Begin(a, indices)
    BY <1>2
  <2>2. UNCHANGED <<heap, stating, private, written>>
    BY <2>1 DEF Begin
  <2>3. \A b \in Actors : Prepared(b)' = Prepared(b) \/ Prepared(b)' = {}
    BY <2>1, BeginMoves
  <2> QED
    BY <2>2, <2>3 DEF OwnInv, Shared
<1>3. CASE \E a \in Actors, i \in Index : Fill(a, i)
  <2>1. PICK a \in Actors, i \in Index : Fill(a, i)
    BY <1>3
  <2> DEFINE y == Filled(i, StartFrom(a, i, heap[i]))
  <2>2. AfterTurn(a, i, y) /\ y \in FileInfo
    BY <2>1, FillIs
  <2>3. ~ Shared(i) => y = BeforeStat(a, i)
    BY DEF OwnInv, BeforeStat
  <2>4. ~ Shared(i) /\ Complete(i, y) => IsOwn(a, i, y)
    <3>1. Complete(i, y) => AtLeastNow(y) = y
      BY <2>2, CompleteHasTime
    <3> HIDE DEF y
    <3> QED
      BY <2>3, <3>1, OwnIsAlone
  <2> HIDE DEF y
  <2>5. /\ \A b \in Actors, j \in Index :
              private'[b][j] = IF b = a /\ j = i /\ ~ Shared(i) THEN y ELSE private[b][j]
        /\ \A j \in Index : heap'[j] = IF j = i /\ Shared(i) THEN y ELSE heap[j]
    BY <2>2, PutTypes DEF AfterTurn
  <2>6. /\ i \notin Reached(a)
        /\ Prepared(a)' = IF Complete(i, y) THEN Prepared(a) \cup {i} ELSE Prepared(a)
        /\ \A b \in Actors \ {a} : Prepared(b)' = Prepared(b) /\ stating'[b] = stating[b]
    BY <2>2, TurnMoves
  <2>7. written' = written /\ stating'[a] \subseteq {i}
    BY <2>2 DEF AfterTurn, InfosTypes
  <2>8. \A j \in Index : ~ Shared(j) => heap'[j] = Given[j]
    BY <2>5 DEF OwnInv
  <2>9. ASSUME NEW b \in Actors, NEW j \in Index, ~ Shared(j)
        PROVE  /\ j \in stating'[b] => private'[b][j] = BeforeStat(b, j)
               /\ j \in Prepared(b)' => IsOwn(b, j, private'[b][j])
               /\ written'[b][j] # NoInfo => IsOwn(b, j, written'[b][j])
    <3>1. CASE b = a /\ j = i
      <4>1. private'[b][j] = y
        BY <2>5, <2>9, <3>1
      <4>2. i \notin Prepared(a)
        BY <2>6 DEF Prepared
      <4> QED
        BY <2>3, <2>4, <2>6, <2>7, <2>9, <3>1, <4>1, <4>2 DEF OwnInv
    <3>2. CASE b # a \/ j # i
      <4>1. private'[b][j] = private[b][j]
        BY <2>5, <3>2
      <4>2. (j \in stating'[b] => j \in stating[b]) /\ (j \in Prepared(b)' => j \in Prepared(b))
        BY <2>6, <2>7, <3>2
      <4> QED
        BY <2>7, <2>9, <4>1, <4>2 DEF OwnInv
    <3> QED
      BY <3>1, <3>2
  <2> QED
    BY <2>8, <2>9 DEF OwnInv, Shared, BeforeStat, IsOwn
<1>4. CASE \E a \in Actors, i \in Index : Stat(a, i)
  <2>1. PICK a \in Actors, i \in Index : Stat(a, i)
    BY <1>4
  <2> DEFINE x == IF Shared(i) THEN heap[i] ELSE private[a][i]
             y == AtLeastNow(Stated(i, Umask[a], x))
  <2>2. AfterStat(a, i, y) /\ x \in FileInfo /\ StatGives(i, Umask[a], x, y)
    BY <2>1, StatIs
  <2>3. ~ Shared(i) => IsOwn(a, i, y)
    <3>1. ~ Shared(i) => x = BeforeStat(a, i)
      BY <2>2 DEF AfterStat, OwnInv
    <3> HIDE DEF x
    <3> QED
      BY <3>1, OwnIsAlone
  <2>4. y \in FileInfo
    BY <2>2 DEF StatGives
  <2> HIDE DEF x, y
  <2>5. /\ \A b \in Actors, j \in Index :
              private'[b][j] = IF b = a /\ j = i /\ ~ Shared(i) THEN y ELSE private[b][j]
        /\ \A j \in Index : heap'[j] = IF j = i /\ Shared(i) THEN y ELSE heap[j]
    BY <2>2, <2>4, PutTypes DEF AfterStat
  <2>6. /\ stating'[a] = {} /\ Prepared(a)' = Prepared(a) \cup {i}
        /\ \A b \in Actors \ {a} : Prepared(b)' = Prepared(b) /\ stating'[b] = stating[b]
        /\ stating[a] = {i}
    <3>1. stating[a] = {i}
      BY <2>2 DEF AfterStat, InfosTypes
    <3> QED
      BY <2>2, <3>1, StatMoves
  <2>7. written' = written
    BY <2>2 DEF AfterStat
  <2>8. \A j \in Index : ~ Shared(j) => heap'[j] = Given[j]
    BY <2>5 DEF OwnInv
  <2>9. ASSUME NEW b \in Actors, NEW j \in Index, ~ Shared(j)
        PROVE  /\ j \in stating'[b] => private'[b][j] = BeforeStat(b, j)
               /\ j \in Prepared(b)' => IsOwn(b, j, private'[b][j])
               /\ written'[b][j] # NoInfo => IsOwn(b, j, written'[b][j])
    <3>1. CASE b = a /\ j = i
      <4>1. private'[b][j] = y
        BY <2>5, <2>9, <3>1
      <4> QED
        BY <2>3, <2>6, <2>7, <2>9, <3>1, <4>1 DEF OwnInv
    <3>2. CASE b # a \/ j # i
      <4>1. private'[b][j] = private[b][j]
        BY <2>5, <3>2
      <4>2. (j \in stating'[b] => j \in stating[b]) /\ (j \in Prepared(b)' => j \in Prepared(b))
        BY <2>6, <3>2
      <4> QED
        BY <2>7, <2>9, <4>1, <4>2 DEF OwnInv
    <3> QED
      BY <3>1, <3>2
  <2> QED
    BY <2>8, <2>9 DEF OwnInv, Shared, BeforeStat, IsOwn
<1>5. CASE \E a \in Actors, i \in Index : Write(a, i)
  <2>1. PICK a \in Actors, i \in Index : Write(a, i)
    BY <1>5
  <2> DEFINE x == IF Shared(i) THEN heap[i] ELSE private[a][i]
  <2>2. /\ Idle(a) /\ i \in handed[a]
        /\ written' = [written EXCEPT ![a][i] = x]
        /\ UNCHANGED <<heap, handed, todo, stating, private>>
    BY <2>1 DEF Write
  <2>3. i \in Prepared(a)
    BY <2>2 DEF Idle, Prepared, Reached
  <2>4. ~ Shared(i) => IsOwn(a, i, x)
    BY <2>3 DEF OwnInv
  <2>5. x \in FileInfo \cup {NoInfo}
    BY DEF InfosTypes, Infomaps
  <2> HIDE DEF x
  <2>6. /\ written'[a][i] = x
        /\ \A b \in Actors, j \in Index : b # a \/ j # i => written'[b][j] = written[b][j]
    <3>1. written \in Infomaps
      BY DEF InfosTypes
    <3> QED
      BY <2>2, <2>5, <3>1 DEF Infomaps
  <2>7. \A b \in Actors : Prepared(b)' = Prepared(b)
    BY <2>2 DEF Prepared, Reached
  <2> QED
    BY <2>2, <2>4, <2>6, <2>7 DEF OwnInv, Shared
<1> QED
  BY <1>1, <1>2, <1>3, <1>4, <1>5 DEF InfosStep
-----------------------------------------------------------------------------
(***************************************************************************)
(* A FileInfo that is shared.  Its fields only ever go from what the       *)
(* Config says to what somebody would put there; once an actor has been    *)
(* through it, only the stat can still be missing, and nobody undoes that. *)
(***************************************************************************)
SomeMode(i, x) == \E b \in Actors : x.mode = AloneMode(b, i)

Plausible(i, x) ==
    /\ x \in FileInfo
    /\ OwnerOf(x.owner) = OwnerOf(FromConfig(i).owner)
    /\ x.mode = FromConfig(i).mode \/ SomeMode(i, x)
    /\ x.mtime = NoTime => FromConfig(i).mtime = NoTime
    /\ x.mtime # NoTime => x.mtime = AloneTime(i)

HasDefaults(i, x) ==
    /\ x.owner = OwnerOf(FromConfig(i).owner)
    /\ IsDir(i) => x.mode # {}
    /\ x.mtime = NoTime => MTime = NoTime

Someones(i, x) ==
    /\ x.owner = OwnerOf(FromConfig(i).owner)
    /\ SomeMode(i, x)
    /\ x.mtime = AloneTime(i)

(* A turn of one of those who share a FileInfo. *)
LEMMA SharedTurn ==
    ASSUME NEW a \in Actors, NEW i \in Index, Shared(i), NEW x, Plausible(i, x),
           NEW y, y = Filled(i, x)
    PROVE  /\ Plausible(i, y) /\ HasDefaults(i, y)
           /\ Someones(i, x) => Someones(i, y)
           /\ Complete(i, y) => Someones(i, y)
<1> DEFINE g == FromConfig(i)
<1>1. x \in FileInfo
  BY DEF Plausible
<1>2. /\ y \in FileInfo
      /\ y.owner = OwnerOf(x.owner)
      /\ y.mode = IF IsDir(i) THEN FirstMode(x.mode, DirMode) ELSE x.mode
      /\ y.mtime = Earliest(x.mtime, MTime)
  BY <1>1, FilledFields
<1>3. x.mtime \in Nat /\ g.mtime \in Nat /\ MTime \in Nat
  BY <1>1, AloneFields, InfoParts, InfosAssumption
<1>4. Kind[i] # "tree" /\ DirMode # {}
  BY ConstantsAssumption DEF Shared
<1>5. AloneTime(i) = Earliest(Earliest(Earliest(g.mtime, MTime), FromHost(i).mtime), Now)
  BY <1>4 DEF AloneTime
<1>6. \A b : AloneMode(b, i) =
               FirstMode(g.mode, IF IsDir(i) THEN DirMode ELSE FromHost(i).mode \ Umask[b])
  BY DEF AloneMode
<1>7. /\ OwnerOf(x.owner) = OwnerOf(g.owner)
      /\ x.mode = g.mode \/ SomeMode(i, x)
      /\ x.mtime = NoTime => g.mtime = NoTime
      /\ x.mtime # NoTime => x.mtime = AloneTime(i)
  BY DEF Plausible
<1>8. OwnerOf(OwnerOf(x.owner)) = OwnerOf(x.owner)
  BY DEF OwnerOf
<1> HIDE DEF g
<1>9. y.mode = g.mode \/ SomeMode(i, y)
  <2>1. CASE x.mode # {} \/ ~ IsDir(i)
    BY <1>2, <1>7, <2>1 DEF FirstMode, SomeMode
  <2>2. CASE x.mode = {} /\ IsDir(i)
    <3>1. g.mode = {}
      BY <1>4, <1>6, <1>7, <2>2 DEF FirstMode, SomeMode
    <3> QED
      BY <1>2, <1>6, <2>2, <3>1 DEF FirstMode, SomeMode
  <2> QED
    BY <2>1, <2>2
<1>10. /\ y.mtime = NoTime => x.mtime = NoTime /\ MTime = NoTime /\ g.mtime = NoTime
       /\ y.mtime # NoTime => y.mtime = AloneTime(i)
  BY <1>2, <1>3, <1>5, <1>7 DEF Earliest
<1>11. Plausible(i, y)
  BY <1>2, <1>7, <1>8, <1>9, <1>10 DEF Plausible, g
<1>12. IsDir(i) => y.mode # {}
  BY <1>2, <1>4 DEF FirstMode
<1>13. HasDefaults(i, y)
  BY <1>2, <1>7, <1>10, <1>12 DEF HasDefaults, g
<1>14. ASSUME y.mode # {} PROVE SomeMode(i, y)
  <2>1. CASE SomeMode(i, y)
    BY <2>1
  <2>2. CASE y.mode = g.mode
    <3>1. AloneMode(a, i) = g.mode
      BY <1>6, <1>14, <2>2 DEF FirstMode
    <3> QED
      BY <2>2, <3>1 DEF SomeMode
  <2> QED
    BY <1>9, <2>1, <2>2
<1>15. Complete(i, y) => Someones(i, y)
  BY <1>2, <1>7, <1>10, <1>14 DEF Complete, Someones, g
<1>16. ASSUME Someones(i, x) PROVE Someones(i, y)
  <2>1. SomeMode(i, x) /\ x.mtime = AloneTime(i) /\ x.mtime # NoTime
    BY <1>16, AloneFields DEF Someones
  <2>2. y.mtime = AloneTime(i)
    BY <1>2, <2>1 DEF Earliest
  <2>3. SomeMode(i, y)
    <3>1. CASE y.mode = {}
      BY <1>2, <2>1, <3>1 DEF FirstMode, SomeMode
    <3> QED
      BY <1>14, <3>1
  <2> QED
    BY <1>2, <1>7, <2>2, <2>3 DEF Someones, g
<1> QED
  BY <1>11, <1>13, <1>15, <1>16

(* A stat by one of those who share a FileInfo. *)
LEMMA SharedStat ==
    ASSUME NEW a \in Actors, NEW i \in Index, Shared(i), NEW x, Plausible(i, x),
           HasDefaults(i, x), NEW y, StatGives(i, Umask[a], x, y)
    PROVE  Plausible(i, y) /\ HasDefaults(i, y) /\ Someones(i, y)
<1> DEFINE g == FromConfig(i)
           h == FromHost(i)
<1>1. /\ y \in FileInfo /\ x \in FileInfo
      /\ y.owner = x.owner
      /\ y.mode = IF Host[i] = NoInfo THEN x.mode ELSE FirstMode(x.mode, Host[i].mode \ Umask[a])
      /\ y.mtime = IF Host[i] = NoInfo THEN Earliest(x.mtime, Now)
                   ELSE Earliest(Earliest(x.mtime, Host[i].mtime), Now)
  BY DEF StatGives, Plausible
<1>2. /\ (Host[i] # NoInfo => h = Host[i])
      /\ (Host[i] = NoInfo => h.mtime = NoTime /\ h.mode = {})
      /\ x.mtime \in Nat /\ h.mtime \in Nat
  BY <1>1, AloneFields, InfoParts DEF FromHost
<1>3. AloneTime(i) = Earliest(Earliest(Earliest(g.mtime, MTime), h.mtime), Now)
      /\ AloneTime(i) # NoTime
  BY AloneFields, ConstantsAssumption DEF AloneTime, Shared
<1>4. \A b : AloneMode(b, i) = FirstMode(g.mode, IF IsDir(i) THEN DirMode ELSE h.mode \ Umask[b])
  BY DEF AloneMode
<1>5. /\ x.owner = OwnerOf(g.owner)
      /\ OwnerOf(x.owner) = OwnerOf(g.owner)
      /\ x.mode = g.mode \/ SomeMode(i, x)
      /\ x.mtime = NoTime => g.mtime = NoTime /\ MTime = NoTime
      /\ x.mtime # NoTime => x.mtime = AloneTime(i)
      /\ IsDir(i) => x.mode # {}
  BY DEF Plausible, HasDefaults
<1> HIDE DEF g, h
<1>6. SomeMode(i, y)
  <2>1. CASE x.mode # {}
    <3>1. y.mode = x.mode
      BY <1>1, <2>1 DEF FirstMode
    <3>2. CASE x.mode = g.mode
      BY <1>4, <2>1, <3>1, <3>2 DEF FirstMode, SomeMode
    <3> QED
      BY <1>5, <3>1, <3>2 DEF SomeMode
  <2>2. CASE x.mode = {}
    <3>1. ~ IsDir(i) /\ g.mode = {}
      BY <1>4, <1>5, <2>2 DEF FirstMode, SomeMode
    <3>2. AloneMode(a, i) = h.mode \ Umask[a]
      BY <1>4, <3>1 DEF FirstMode
    <3>3. y.mode = h.mode \ Umask[a]
      BY <1>1, <1>2, <2>2 DEF FirstMode
    <3> QED
      BY <3>2, <3>3 DEF SomeMode
  <2> QED
    BY <2>1, <2>2
<1>7. y.mtime = AloneTime(i)
  BY <1>1, <1>2, <1>3, <1>5 DEF Earliest, NoTime
<1>8. IsDir(i) => y.mode # {}
  BY <1>1, <1>5 DEF FirstMode
<1> QED
  BY <1>1, <1>3, <1>5, <1>6, <1>7, <1>8 DEF Plausible, HasDefaults, Someones, g
SharedInv ==
    \A i \in Index : Shared(i) =>
        /\ Plausible(i, heap[i])
        /\ \A a \in Actors :
              /\ i \in Reached(a) => HasDefaults(i, heap[i])
              /\ i \in Prepared(a) => Someones(i, heap[i])
              /\ written[a][i] # NoInfo => Someones(i, written[a][i])

(* What is shared is started from as it is. *)
LEMMA SharedStart ==
    ASSUME InfosTypes, NEW a, NEW i \in Index, Shared(i)
    PROVE  StartFrom(a, i, heap[i]) = heap[i]
<1>1. heap[i] \in FileInfo /\ heap[i] # NoInfo
  BY InfosAssumption DEF InfosTypes, Shared
<1>2. Kind[i] \in {"dir", "as is"}
  BY DEF Shared
<1>3. heap[i] = [owner |-> heap[i].owner, mode |-> heap[i].mode,
                 mtime |-> heap[i].mtime, size |-> heap[i].size]
  BY <1>1, InfoParts
<1> QED
  BY <1>1, <1>2, <1>3 DEF StartFrom

(* The Config's FileInfos are plausible as they are given. *)
LEMMA InitShared == Init => SharedInv
<1> SUFFICES ASSUME Init, NEW i \in Index, Shared(i)
             PROVE  /\ Plausible(i, heap[i])
                    /\ \A a \in Actors : /\ i \notin Reached(a) /\ i \notin Prepared(a)
                                         /\ written[a][i] = NoInfo
  BY DEF SharedInv
<1>1. heap[i] = Given[i] /\ Given[i] # NoInfo /\ Kind[i] # "tree"
  BY DEF Init, InfosInit, Shared
<1>2. heap[i] = FromConfig(i) /\ FromConfig(i) \in FileInfo
  BY <1>1, AloneFields DEF FromConfig
<1>3. FromConfig(i).mtime # NoTime => FromConfig(i).mtime = AloneTime(i)
  BY <1>1 DEF AloneTime, Earliest
<1>4. Plausible(i, heap[i])
  BY <1>2, <1>3 DEF Plausible
<1> QED
  BY <1>4 DEF Init, InfosInit, Reached, Prepared

(* Whoever writes to a shared FileInfo leaves it plausible, and what       *)
(* anybody has reached or prepared stays so.                               *)
LEMMA SharedStays == ASSUME InfosTypes, SharedInv, InfosStep PROVE SharedInv'
<1>1. CASE UNCHANGED infoVars
  BY <1>1 DEF infoVars, SharedInv, Prepared, Reached
<1>2. CASE \E a \in Actors, indices \in SUBSET Index : Begin(a, indices)
  <2>1. PICK a \in Actors, indices \in SUBSET Index : Begin(a, indices)
    BY <1>2
  <2>2. UNCHANGED <<heap, written>>
    BY <2>1 DEF Begin
  <2>3. ASSUME NEW b \in Actors
        PROVE  \/ Prepared(b)' = Prepared(b) /\ Reached(b)' = Reached(b)
               \/ Prepared(b)' = {} /\ Reached(b)' = {}
    <3>1. CASE b = a
      BY <2>1, <3>1, BeginMoves
    <3>2. CASE b # a
      BY <2>1, <3>2, BeginMoves
    <3> QED
      BY <3>1, <3>2
  <2> QED
    BY <2>2, <2>3 DEF SharedInv, Shared
<1>3. CASE \E a \in Actors, i \in Index : Fill(a, i)
  <2>1. PICK a \in Actors, i \in Index : Fill(a, i)
    BY <1>3
  <2> DEFINE y == Filled(i, StartFrom(a, i, heap[i]))
  <2>2. AfterTurn(a, i, y) /\ y \in FileInfo
    BY <2>1, FillIs
  <2>3. Shared(i) => y = Filled(i, heap[i])
    BY SharedStart
  <2> HIDE DEF y
  <2>4. Shared(i) => /\ Plausible(i, y) /\ HasDefaults(i, y)
                     /\ Someones(i, heap[i]) => Someones(i, y)
                     /\ Complete(i, y) => Someones(i, y)
    BY <2>3, SharedTurn DEF SharedInv
  <2>5. \A j \in Index : heap'[j] = IF j = i /\ Shared(i) THEN y ELSE heap[j]
    BY <2>2, PutTypes DEF AfterTurn
  <2>6. /\ Reached(a)' = Reached(a) \cup {i}
        /\ Prepared(a)' = IF Complete(i, y) THEN Prepared(a) \cup {i} ELSE Prepared(a)
        /\ \A b \in Actors \ {a} : Prepared(b)' = Prepared(b) /\ Reached(b)' = Reached(b)
    BY <2>2, TurnMoves
  <2>7. written' = written
    BY <2>2 DEF AfterTurn
  <2>8. ASSUME NEW j \in Index, Shared(j)
        PROVE  /\ Plausible(j, heap'[j])
               /\ \A b \in Actors :
                     /\ j \in Reached(b)' => HasDefaults(j, heap'[j])
                     /\ j \in Prepared(b)' => Someones(j, heap'[j])
                     /\ written'[b][j] # NoInfo => Someones(j, written'[b][j])
    <3>1. CASE j = i
      <4>1. heap'[j] = y
        BY <2>5, <2>8, <3>1
      <4>2. ASSUME NEW b \in Actors, j \in Prepared(b)' PROVE Someones(i, y)
        <5>1. i \in Prepared(b) \/ Complete(i, y)
          BY <2>6, <3>1, <4>2
        <5> QED
          BY <2>4, <2>8, <3>1, <5>1 DEF SharedInv
      <4> QED
        BY <2>4, <2>7, <2>8, <3>1, <4>1, <4>2 DEF SharedInv
    <3>2. CASE j # i
      <4>1. heap'[j] = heap[j]
        BY <2>5, <3>2
      <4>2. \A b \in Actors : /\ j \in Reached(b)' => j \in Reached(b)
                              /\ j \in Prepared(b)' => j \in Prepared(b)
        BY <2>6, <3>2
      <4> QED
        BY <2>7, <2>8, <4>1, <4>2 DEF SharedInv
    <3> QED
      BY <3>1, <3>2
  <2> QED
    BY <2>8 DEF SharedInv, Shared, Plausible, HasDefaults, Someones, SomeMode, AloneMode,
                AloneTime, FromConfig, FromHost
<1>4. CASE \E a \in Actors, i \in Index : Stat(a, i)
  <2>1. PICK a \in Actors, i \in Index : Stat(a, i)
    BY <1>4
  <2> DEFINE x == IF Shared(i) THEN heap[i] ELSE private[a][i]
             y == AtLeastNow(Stated(i, Umask[a], x))
  <2>2. AfterStat(a, i, y) /\ x \in FileInfo /\ StatGives(i, Umask[a], x, y)
    BY <2>1, StatIs
  <2>3. y \in FileInfo
    BY <2>2 DEF StatGives
  <2>4. Shared(i) => x = heap[i]
    OBVIOUS
  <2> HIDE DEF x, y
  <2>5. \A j \in Index : heap'[j] = IF j = i /\ Shared(i) THEN y ELSE heap[j]
    BY <2>2, <2>3, PutTypes DEF AfterStat
  <2>6. /\ i \in Reached(a)
        /\ Prepared(a)' = Prepared(a) \cup {i}
        /\ \A b \in Actors : Reached(b)' = Reached(b)
        /\ \A b \in Actors \ {a} : Prepared(b)' = Prepared(b)
    BY <2>2, StatMoves
  <2>7. Shared(i) => Plausible(i, y) /\ HasDefaults(i, y) /\ Someones(i, y)
    BY <2>2, <2>4, <2>6, SharedStat DEF SharedInv
  <2>8. written' = written
    BY <2>2 DEF AfterStat
  <2>9. ASSUME NEW j \in Index, Shared(j)
        PROVE  /\ Plausible(j, heap'[j])
               /\ \A b \in Actors :
                     /\ j \in Reached(b)' => HasDefaults(j, heap'[j])
                     /\ j \in Prepared(b)' => Someones(j, heap'[j])
                     /\ written'[b][j] # NoInfo => Someones(j, written'[b][j])
    <3>1. CASE j = i
      <4>1. heap'[j] = y
        BY <2>5, <2>9, <3>1
      <4> QED
        BY <2>7, <2>8, <2>9, <3>1, <4>1 DEF SharedInv
    <3>2. CASE j # i
      <4>1. heap'[j] = heap[j]
        BY <2>5, <3>2
      <4>2. \A b \in Actors : /\ j \in Reached(b)' => j \in Reached(b)
                              /\ j \in Prepared(b)' => j \in Prepared(b)
        BY <2>6, <3>2
      <4> QED
        BY <2>8, <2>9, <4>1, <4>2 DEF SharedInv
    <3> QED
      BY <3>1, <3>2
  <2> QED
    BY <2>9 DEF SharedInv, Shared, Plausible, HasDefaults, Someones, SomeMode, AloneMode,
                AloneTime, FromConfig, FromHost
<1>5. CASE \E a \in Actors, i \in Index : Write(a, i)
  <2>1. PICK a \in Actors, i \in Index : Write(a, i)
    BY <1>5
  <2>2. /\ Idle(a) /\ i \in handed[a]
        /\ written' = [written EXCEPT ![a][i] = IF Shared(i) THEN heap[i] ELSE private[a][i]]
        /\ UNCHANGED <<heap, handed, todo, stating, private>>
    BY <2>1 DEF Write
  <2>3. i \in Prepared(a)
    BY <2>2 DEF Idle, Prepared, Reached
  <2>4. written \in Infomaps
    BY DEF InfosTypes
  <2>5. /\ Shared(i) => written'[a][i] = heap[i]
        /\ \A b \in Actors, j \in Index : b # a \/ j # i => written'[b][j] = written[b][j]
    BY <2>2, <2>4 DEF Infomaps
  <2>6. \A b \in Actors : Prepared(b)' = Prepared(b) /\ Reached(b)' = Reached(b)
    BY <2>2 DEF Prepared, Reached
  <2>7. ASSUME NEW b \in Actors, NEW j \in Index, Shared(j), written'[b][j] # NoInfo
        PROVE  Someones(j, written'[b][j])
    BY <2>3, <2>5, <2>7 DEF SharedInv
  <2> QED
    BY <2>2, <2>6, <2>7 DEF SharedInv, Shared
<1> QED
  BY <1>1, <1>2, <1>3, <1>4, <1>5 DEF InfosStep

InfosInv == InfosTypes /\ OwnInv /\ SharedInv

(* All of this holds however the formats and the validation interleave. *)
LEMMA InfosAlways == Spec => [](ConfigInv /\ InfosInv)
<1>1. Init => ConfigInv /\ InfosInv
  BY InitConfig, InitInfos, InitShared DEF InfosInv
<1>2. ConfigInv /\ InfosInv /\ [Next]_vars => ConfigInv' /\ InfosInv'
  BY ConfigStays, EveryStep, InfosTypesStay, OwnStays, SharedStays DEF InfosInv
<1> QED
  BY <1>1, <1>2, PTL DEF Spec

(* The types of all the variables. *)
THEOREM ConfigTypes == Spec => []TypeOK
<1>1. ConfigInv /\ InfosInv => TypeOK
  <2> SUFFICES ASSUME ConfigInv, InfosInv PROVE TypeOK
    OBVIOUS
  <2>1. \A i \in Index : IF Given[i] = NoInfo THEN heap[i] = NoInfo ELSE heap[i] \in FileInfo
    BY DEF InfosInv, InfosTypes
  <2>2. \A a \in Actors :
           /\ handed[a] \subseteq Index
           /\ todo[a] \subseteq handed[a]
           /\ stating[a] \subseteq handed[a] \ todo[a]
    BY DEF InfosInv, InfosTypes, Reached
  <2>3. \A a \in Actors, i \in Index :
           private[a][i] \in FileInfo \cup {NoInfo} /\ written[a][i] \in FileInfo \cup {NoInfo}
    BY DEF InfosInv, InfosTypes, Infomaps
  <2>4. InfosTypeOK
    BY <2>1, <2>2, <2>3 DEF InfosTypeOK
  <2> QED
    BY <2>4 DEF TypeOK, ConfigInv, ListsInv, InfoInv
<1> QED
  BY <1>1, InfosAlways, PTL

(* A format with a FileInfo of its own gets what it would get alone: no    *)
(* umask, size or time of another format (files.go:127-178).               *)
THEOREM OwnInfosAlone == Spec => []OwnInfosIndependent
<1>1. InfosInv => OwnInfosIndependent
  BY DEF InfosInv, OwnInv, OwnInfosIndependent, IsOwn, Shared
<1> QED
  BY <1>1, InfosAlways, PTL

(* What a format writes from a shared FileInfo is complete and is, field   *)
(* by field, what one of the actors would have put there alone             *)
(* (files.go:127-178).                                                     *)
THEOREM SharedInfosPlausible == Spec => []SharedInfosSomeones
<1>1. InfosInv => SharedInfosSomeones
  <2> SUFFICES ASSUME InfosInv, NEW a \in Actors, NEW i \in Index, written[a][i] # NoInfo
               PROVE  /\ written[a][i].mtime # NoTime
                      /\ \E b \in Actors : written[a][i].owner = Alone(b, i).owner
                      /\ \E b \in Actors : written[a][i].mode = Alone(b, i).mode
                      /\ \E b \in Actors : written[a][i].mtime = Alone(b, i).mtime
    BY DEF SharedInfosSomeones
  <2>1. \A b : /\ Alone(b, i).owner = OwnerOf(FromConfig(i).owner)
                /\ Alone(b, i).mode = AloneMode(b, i)
                /\ Alone(b, i).mtime = AloneTime(i)
                /\ AloneTime(i) # NoTime
    BY AloneFields
  <2>2. CASE Shared(i)
    <3>1. Someones(i, written[a][i])
      BY <2>2 DEF InfosInv, SharedInv
    <3> QED
      BY <2>1, <3>1 DEF Someones, SomeMode
  <2>3. CASE ~ Shared(i)
    <3>1. Essence(written[a][i]) = Alone(a, i)
      BY <2>3 DEF InfosInv, OwnInv, IsOwn
    <3>2. /\ written[a][i].owner = Essence(written[a][i]).owner
          /\ written[a][i].mode = Essence(written[a][i]).mode
          /\ written[a][i].mtime = Essence(written[a][i]).mtime
      BY DEF Essence
    <3> QED
      BY <2>1, <3>1, <3>2
  <2> QED
    BY <2>2, <2>3
<1> QED
  BY <1>1, InfosAlways, PTL
-----------------------------------------------------------------------------
(***************************************************************************)
(* Whose contents a format packages.  A source package is prepared for     *)
(* another packager than its own, so this is about the others.             *)
(***************************************************************************)
HandInv ==
    /\ \A f \in Formats : handed[f] # {} => handed[f] = ContentsFor(f)
    /\ handed[Validate] \subseteq config.contents[Base]
    /\ \A f \in Formats, i \in Index : written[f][i] # NoInfo => i \in handed[f]
    /\ \A i \in Index \ config.contents[Base] :
          heap[i] # Given[i] => \E f \in Formats : i \in handed[f]

(* The configuration is not written to. *)
LEMMA ConfigConstant == ASSUME [Next]_vars PROVE config' = config
  BY DEF Next, vars, configVars, Expand, DeleteEmpty, Expanded, Get, Package, ValidateFor, Infos

(* The preparation sorts out what Get left in. *)
LEMMA HandedContents ==
    ASSUME ConfigInv, "srpm" \notin Formats, NEW f \in Formats, info[f] # NoInfo
    PROVE  {i \in info[f].contents : Relevant(PreparedFor(f), i)} = ContentsFor(f)
<1>1. PreparedFor(f) = f
  <2>1. f # "srpm"
    OBVIOUS
  <2> QED
    BY <2>1, Zenon DEF PreparedFor
<1>2. info[f].contents = MergedContents(f)
  BY DEF ConfigInv, InfoInv
<1> QED
  BY <1>1, <1>2 DEF Relevant, MergedContents, ContentsFor

(* A turn and a stat only write to what the actor was handed. *)
LEMMA HandedWrites ==
    ASSUME InfosTypes, HandInv, UNCHANGED <<config, handed, written>>,
           NEW a \in Actors, NEW i \in Index, i \in handed[a],
           \A j \in Index : j # i => heap'[j] = heap[j]
    PROVE  HandInv'
<1>1. i \in config.contents[Base] \/ \E f \in Formats : i \in handed[f]
  BY ConfigsAssumption DEF HandInv
<1> QED
  BY <1>1 DEF HandInv, ContentsFor, Overrides

(* Every step keeps the formats apart. *)
LEMMA HandStays ==
    ASSUME "srpm" \notin Formats, ConfigInv, InfosTypes, HandInv, [Next]_vars
    PROVE  HandInv'
<1>1. config' = config
  BY ConfigConstant
<1>2. \A f : ContentsFor(f)' = ContentsFor(f)
  BY <1>1 DEF ContentsFor, Overrides
<1>3. CASE UNCHANGED infoVars
  BY <1>1, <1>2, <1>3 DEF infoVars, HandInv
<1>4. CASE \E f \in Formats : Package(f)
  <2>1. PICK f \in Formats : Package(f)
    BY <1>4
  <2>2. /\ info[f] # NoInfo /\ handed[f] = {}
        /\ \A i \in Index : written[f][i] = NoInfo
        /\ handed' = [handed EXCEPT ![f] = {i \in info[f].contents : Relevant(PreparedFor(f), i)}]
        /\ UNCHANGED <<heap, written>>
    BY <2>1 DEF Package, Begin
  <2>3. handed' = [handed EXCEPT ![f] = ContentsFor(f)]
    BY <2>2, HandedContents
  <2>4. Actors = Formats \cup {Validate} /\ Validate \notin Formats
    BY ConfigsAssumption
  <2>5. /\ handed'[f] = ContentsFor(f)
        /\ \A b \in Actors \ {f} : handed'[b] = handed[b]
    BY <2>3, <2>4 DEF InfosTypes
  <2> QED
    BY <1>1, <1>2, <2>2, <2>4, <2>5 DEF HandInv
<1>5. CASE \E packager \in Registered : ValidateFor(packager)
  <2>1. PICK packager \in Registered : ValidateFor(packager)
    BY <1>5
  <2>2. /\ handed' = [handed EXCEPT ![Validate] =
                          {i \in config.contents[Base] : Relevant(packager, i)}]
        /\ UNCHANGED <<heap, written>>
    BY <2>1 DEF ValidateFor, Begin
  <2>3. Actors = Formats \cup {Validate} /\ Validate \notin Formats
    BY ConfigsAssumption
  <2>4. /\ handed'[Validate] \subseteq config.contents[Base]
        /\ \A f \in Formats : handed'[f] = handed[f]
    BY <2>2, <2>3 DEF InfosTypes
  <2> QED
    BY <1>1, <1>2, <2>2, <2>4 DEF HandInv
<1>6. CASE \E a \in Actors, i \in Index : Fill(a, i)
  <2>1. PICK a \in Actors, i \in Index : Fill(a, i)
    BY <1>6
  <2>2. PICK y \in FileInfo : AfterTurn(a, i, y)
    BY <2>1, FillIs
  <2>3. \A j \in Index : j # i => heap'[j] = heap[j]
    BY <2>2, PutTypes DEF AfterTurn
  <2>4. i \in handed[a] /\ UNCHANGED <<handed, written>>
    BY <2>2, TurnMoves DEF AfterTurn
  <2> QED
    BY <1>1, <2>3, <2>4, HandedWrites
<1>7. CASE \E a \in Actors, i \in Index : Stat(a, i)
  <2>1. PICK a \in Actors, i \in Index : Stat(a, i)
    BY <1>7
  <2>2. PICK y \in FileInfo : AfterStat(a, i, y)
    BY <2>1, StatIs DEF StatGives
  <2>3. \A j \in Index : j # i => heap'[j] = heap[j]
    BY <2>2, PutTypes DEF AfterStat
  <2>4. i \in handed[a] /\ UNCHANGED <<handed, written>>
    BY <2>2, StatMoves DEF AfterStat
  <2> QED
    BY <1>1, <2>3, <2>4, HandedWrites
<1>8. CASE \E a \in Actors, i \in Index : Write(a, i)
  <2>1. PICK a \in Actors, i \in Index : Write(a, i)
    BY <1>8
  <2>2. /\ i \in handed[a]
        /\ written' = [written EXCEPT ![a][i] = IF Shared(i) THEN heap[i] ELSE private[a][i]]
        /\ UNCHANGED <<heap, handed>>
    BY <2>1 DEF Write
  <2>3. written \in Infomaps
    BY DEF InfosTypes
  <2>4. \A b \in Actors, j \in Index : b # a \/ j # i => written'[b][j] = written[b][j]
    BY <2>2, <2>3 DEF Infomaps
  <2>5. Actors = Formats \cup {Validate}
    BY ConfigsAssumption
  <2> QED
    BY <1>1, <1>2, <2>2, <2>4, <2>5 DEF HandInv
<1>9. CASE (\E owner \in Owners : Expand(owner)) \/ DeleteEmpty \/ Expanded \/ \E f \in Formats : Get(f)
  BY <1>3, <1>9 DEF Expand, DeleteEmpty, Expanded, Get
<1> QED
  BY <1>3, <1>4, <1>5, <1>6, <1>7, <1>8, <1>9 DEF Next, Infos, vars

(* A format packages its override's contents, or the base's, and of these  *)
(* those that are for everyone or for it; and what only one override       *)
(* brings in is not touched before that format is packaged (nfpm.go:       *)
(* 147-163, files/files.go:354-367).  It is not so for source packages,    *)
(* which are prepared as if they were binary ones.                         *)
THEOREM FormatsKeepApart ==
    ASSUME "srpm" \notin Formats
    PROVE  Spec => []FormatPackagesItsContents
<1>1. Init => HandInv
  BY ConfigsAssumption DEF Init, InfosInit, HandInv
<1>2. ConfigInv /\ InfosInv /\ HandInv /\ [Next]_vars => HandInv'
  BY HandStays DEF InfosInv
<1>3. InfosInv /\ HandInv => FormatPackagesItsContents
  <2> SUFFICES ASSUME InfosInv, HandInv PROVE FormatPackagesItsContents
    OBVIOUS
  <2>1. \A f \in Formats, i \in Index : written[f][i] # NoInfo => i \in ContentsFor(f)
    BY DEF HandInv
  <2>2. \A i \in Index \ config.contents[Base] :
           heap[i] # Given[i] => \E f \in Formats : i \in ContentsFor(f) /\ handed[f] # {}
    BY DEF HandInv
  <2> QED
    BY <2>1, <2>2 DEF HandInv, FormatPackagesItsContents
<1> QED
  BY <1>1, <1>2, <1>3, InfosAlways, PTL DEF Spec
===============================================================================
