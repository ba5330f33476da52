----------------------- MODULE RepeatedPreparationProofs -----------------------
(***************************************************************************)
(* Theorems about RepeatedPreparation, for every list of contents and      *)
(* every host on which the path of a file is a pattern for that file.      *)
(***************************************************************************)
EXTENDS RepeatedPreparation, PrepareContentsProofs

(* A table as a preparation hands it on: with its directories, and made of *)
(* entries that can be contents of the next one.                           *)
GoodAgain(k, e) ==
    /\ e = Entry(e.type, e.owner, e.src)
    /\ e.type \notin RpmTypes
    /\ AsContent(k, e) \in Contents
    /\ e.type \in FileTypes => FindsItself(e.src)

Prepared(tab) ==
    /\ WellFormed(tab) /\ Closed(tab) /\ TableKnown(tab)
    /\ \A k \in DOMAIN tab : GoodAgain(k, tab[k])

(* list begins with the entries of tab, n of them. *)
Lists(list, n, keys, tab) ==
    /\ list \in Seq(Contents) /\ n \in 0..Len(list)
    /\ \A i \in 1..n : keys[i] \in DOMAIN tab /\ list[i] = AsContent(keys[i], tab[keys[i]])
    /\ \A i, j \in 1..n : keys[i] = keys[j] => i = j
    /\ \A k \in DOMAIN tab : \E i \in 1..n : keys[i] = k

-----------------------------------------------------------------------------
(* The root user owns what nobody else does, however often one asks. *)
LEMMA EntryAgain ==
    ASSUME NEW type, NEW owner, NEW src
    PROVE  LET e == Entry(type, owner, src) IN
           e.type = type /\ e = Entry(e.type, e.owner, e.src)
<1>1. OwnerOrRoot(OwnerOrRoot(owner)) = OwnerOrRoot(owner)
  BY DEF OwnerOrRoot
<1> DEFINE e == Entry(type, owner, src)
<1>2. e.type = type /\ e.owner = OwnerOrRoot(owner) /\ e.src = src
  BY DEF Entry
<1>3. Entry(e.type, e.owner, e.src) = [type |-> type, owner |-> OwnerOrRoot(owner), src |-> src]
  BY <1>1, <1>2 DEF Entry
<1> QED
  BY <1>2, <1>3 DEF Entry

(* The fields of an entry as a content. *)
LEMMA AgainFields ==
    ASSUME NEW k, NEW e
    PROVE  LET c == AsContent(k, e) IN
           /\ c.type = e.type /\ c.src = e.src /\ c.dst = k.path /\ c.owner = e.owner
           /\ c.slash = FALSE /\ c.packager = ""
  BY DEF AsContent

(* It is relevant again. *)
LEMMA AgainRelevant ==
    ASSUME NEW k, NEW e, GoodAgain(k, e)
    PROVE  isRelevantForPackager(AsContent(k, e))
  BY AgainFields, ChangelogAssumption DEF isRelevantForPackager, GoodAgain

LEMMA ChangelogRelevant == isRelevantForPackager(Changelog)
<1>1. Changelog.type \notin RpmTypes
  BY ChangelogAssumption DEF RpmTypes
<1> QED
  BY <1>1, ChangelogAssumption DEF isRelevantForPackager

(* The fields of a claim. *)
LEMMA ClaimFields == \A k, e : Claim(k, e).key = k /\ Claim(k, e).entry = e
  BY DEF Claim

(* What an accepted content claims can be a content again, and is none of  *)
(* the types that only rpm knows.                                          *)
LEMMA ClaimsAgain ==
    ASSUME NEW c \in Contents, ~ HostRefuses(c), NEW cl \in Claims(c)
    PROVE  GoodAgain(cl.key, cl.entry)
<1>1. isRelevantForPackager(c) /\ c.type # "implicit dir"
  BY DEF Claims
<1>2. AsContent(cl.key, cl.entry) \in Contents /\ (cl.entry.type \in FileTypes => FindsItself(cl.entry.src))
  BY AgainAssumption
<1>3. c.type \notin RpmTypes
  BY <1>1, ChangelogAssumption DEF isRelevantForPackager
<1>4. \E type, owner, src : cl.entry = Entry(type, owner, src) /\ type \notin RpmTypes
  <2>1. CASE IsGlob(c)
    <3>1. Claims(c) = {Claim(FileKey(GlobDestination(c, m)), Entry(GlobType(c, m), c.owner, m.src)) :
                          m \in Matches[c.src].files}
      BY <1>1, <2>1 DEF Claims
    <3>2. PICK m \in Matches[c.src].files :
             cl = Claim(FileKey(GlobDestination(c, m)), Entry(GlobType(c, m), c.owner, m.src))
      BY <3>1
    <3>3. cl.entry = Entry(GlobType(c, m), c.owner, m.src)
      BY <3>2, ClaimFields
    <3>4. GlobType(c, m) \notin RpmTypes
      BY <1>3 DEF GlobType, RpmTypes
    <3> QED
      BY <3>3, <3>4
  <2>2. CASE ~ IsGlob(c) /\ IsTree(c)
    <3>1. Claims(c) = {Claim(NodeKey(c, n), NodeEntry(c, n)) : n \in Nodes(c)}
      BY <1>1, <2>2 DEF Claims
    <3>2. PICK n \in Nodes(c) : cl = Claim(NodeKey(c, n), NodeEntry(c, n))
      BY <3>1
    <3>3. cl.entry = NodeEntry(c, n)
      BY <3>2, ClaimFields
    <3>4. NodeType(c, n) \notin RpmTypes
      BY <2>2 DEF IsTree, TreeTypes, TreeFileType, NodeType, RpmTypes
    <3> QED
      BY <3>3, <3>4 DEF NodeEntry
  <2>3. CASE ~ IsGlob(c) /\ ~ IsTree(c)
    <3>1. \E key : Claims(c) = {Claim(key, Entry(c.type, c.owner, c.src))}
      BY <1>1, <2>3 DEF Claims
    <3>2. cl.entry = Entry(c.type, c.owner, c.src)
      BY <3>1, ClaimFields
    <3> QED
      BY <1>3, <3>2
  <2> QED
    BY <2>1, <2>2, <2>3
<1>5. PICK type, owner, src : cl.entry = Entry(type, owner, src) /\ type \notin RpmTypes
  BY <1>4
<1>6. cl.entry.type = type /\ cl.entry = Entry(cl.entry.type, cl.entry.owner, cl.entry.src)
  BY <1>5, EntryAgain
<1> QED
  BY <1>2, <1>5, <1>6 DEF GoodAgain

(* So can the directories it needs. *)
LEMMA NeedsAgain ==
    ASSUME NEW c \in Contents, ~ HostRefuses(c), NEW k \in Needs(c)
    PROVE  GoodAgain(k, Entry("implicit dir", ParentOwner(c, k), NoSource))
<1> DEFINE type == "implicit dir"
           owner == ParentOwner(c, k)
           e == Entry(type, owner, NoSource)
<1>1. AsContent(k, e) \in Contents
  BY AgainAssumption
<1> HIDE DEF type, owner
<1>2. e.type = type /\ e = Entry(e.type, e.owner, e.src)
  BY EntryAgain
<1> HIDE DEF e
<1>3. "implicit dir" \notin RpmTypes /\ "implicit dir" \notin FileTypes
  BY DEF RpmTypes, FileTypes
<1> QED
  BY <1>1, <1>2, <1>3 DEF GoodAgain, e, type, owner

(* What a list of accepted contents stands for can be prepared again. *)
LEMMA MeaningAgain ==
    ASSUME NEW list \in Seq(Contents), NEW n \in 0..Len(list), \A i \in 1..n : ~ HostRefuses(list[i]),
           NEW k \in DOMAIN Meaning(Prefix(list, n))
    PROVE  GoodAgain(k, Meaning(Prefix(list, n))[k])
<1> DEFINE M == Meaning(Prefix(list, n))
           asking == {i \in 1..n : Asks(list[i], k)}
           needing == {i \in 1..n : k \in Needs(list[i])}
<1>1. n \in Nat /\ \A i \in 1..n : list[i] \in Contents
  BY LenProperties
<1>2. asking \in SUBSET Nat /\ needing \in SUBSET Nat
  BY <1>1
<1>3. CASE asking # {}
  <2>1. \A i \in asking : i <= n
    OBVIOUS
  <2>2. \E i \in asking : \A j \in asking : j <= i
    <3> HIDE DEF asking
    <3> QED
      BY <1>1, <1>2, <1>3, <2>1, GreatestElement
  <2>3. PICK i \in asking : \A j \in asking : j <= i
    BY <2>2
  <2>4. M[k] = ClaimOf(list[i], k)
    BY <2>3, MeaningOfClaim
  <2>5. PICK cl \in Claims(list[i]) : cl.key = k /\ ClaimOf(list[i], k) = cl.entry
    BY <2>3 DEF ClaimOf, Asks
  <2> QED
    BY <1>1, <2>3, <2>4, <2>5, ClaimsAgain
<1>4. CASE asking = {}
  <2>1. needing # {}
    BY <1>4, MeaningDomain
  <2>2. PICK i \in needing : \A j \in needing : i <= j
    BY <1>2, <2>1, Loops!LeastElement
  <2>3. M[k] = Entry("implicit dir", ParentOwner(list[i], k), NoSource)
    BY <1>4, <2>2, MeaningOfNeed
  <2> QED
    BY <1>1, <2>2, <2>3, NeedsAgain
<1> QED
  BY <1>3, <1>4
-----------------------------------------------------------------------------
(* The kinds of entry that are not rpm's, and their keys. *)
LEMMA KindsAgain ==
    ASSUME NEW k, NEW e, GoodAgain(k, e), GoodEntry(k, e)
    PROVE  \/ e.type = "implicit dir" /\ k.dir
           \/ e.type = "dir" /\ k.dir
           \/ e.type \in AsIsTypes /\ ~ k.dir
           \/ e.type \in FileTypes /\ ~ k.dir
  BY DEF GoodAgain, GoodEntry, EntryTypes, DirTypes, FileTypes, AsIsTypes

(* A key of known names is the one its path and its form make. *)
LEMMA KeyAgain ==
    ASSUME NEW k \in Keys
    PROVE  /\ CleanAbs(k.path) = k.path
           /\ k.dir => k = DirKey(k.path)
           /\ ~ k.dir => k = FileKey(k.path)
<1>1. UP \notin Names /\ k.path \in Seq(Names)
  BY NamesAssumption DEF Keys
<1>2. CleanAbs(k.path) = k.path
  BY <1>1, CleanStays
<1> QED
  BY <1>2 DEF Keys, DirKey, FileKey

(* The path of a file that was found matches the file, which goes where it *)
(* was: the tree below the pattern is empty.                               *)
LEMMA GlobsItself ==
    ASSUME NEW k \in Keys, NEW e, e.type \in FileTypes, FindsItself(e.src)
    PROVE  LET c == AsContent(k, e) IN
           \E m : /\ Matches[c.src].files = {m} /\ ~ Matches[c.src].fails
                  /\ GlobDestination(c, m) = k.path
                  /\ GlobType(c, m) = e.type /\ m.src = e.src
<1> DEFINE c == AsContent(k, e)
           path == k.path
<1>1. c.src = e.src /\ c.dst = path /\ c.slash = FALSE /\ c.type = e.type
  BY AgainFields
<1>2. PICK m \in Matches[e.src].files :
         Matches[e.src].files = {m} /\ m.src = e.src /\ m.rel = <<>> /\ ~ m.link
  BY DEF FindsItself
<1>3. ~ Matches[e.src].fails
  BY DEF FindsItself
<1>4. path \in Seq(Names) /\ CleanAbs(path) = path
  BY KeyAgain DEF Keys
<1>5. path \o <<>> = path
  <2> HIDE DEF path
  <2> QED
    BY <1>4, ConcatEmptySeq
<1> HIDE DEF c
<1>6. GlobDestination(c, m) = CleanAbs(path \o <<>>)
  BY <1>1, <1>2 DEF GlobDestination
<1>7. GlobType(c, m) = e.type
  <2>1. e.type # ""
    BY DEF FileTypes
  <2> QED
    BY <1>1, <1>2, <2>1 DEF GlobType
<1> QED
  BY <1>1, <1>2, <1>3, <1>4, <1>5, <1>6, <1>7 DEF c

(* An entry asks for itself when it is prepared again, or, if it is an     *)
(* implicit directory, for nothing, and the host refuses it not.           *)
LEMMA ListedClaims ==
    ASSUME NEW k \in Keys, NEW e, GoodAgain(k, e), GoodEntry(k, e)
    PROVE  LET c == AsContent(k, e) IN
           /\ e.type = "implicit dir" => Claims(c) = {} /\ Needs(c) = {}
           /\ e.type # "implicit dir" => Claims(c) = {Claim(k, e)} /\ Needs(c) = ParentKeys(k.path)
           /\ ~ HostRefuses(c) /\ ~ IsTree(c)
           /\ IsGlob(c) => \E m : Matches[c.src].files = {m}
<1> DEFINE c == AsContent(k, e)
           type == e.type
           owner == e.owner
           src == e.src
           path == k.path
<1>1. /\ isRelevantForPackager(c) /\ c.type = type /\ c.src = src /\ c.owner = owner /\ c.dst = path
      /\ e = Entry(type, owner, src)
  BY AgainFields, AgainRelevant DEF GoodAgain
<1>2. CleanAbs(path) = path /\ (k.dir => k = DirKey(path)) /\ (~ k.dir => k = FileKey(path))
  BY KeyAgain
<1>3. type \in FileTypes => FindsItself(src)
  BY DEF GoodAgain
<1>4. \/ type = "implicit dir" /\ k.dir
      \/ type = "dir" /\ k.dir
      \/ type \in AsIsTypes /\ ~ k.dir
      \/ type \in FileTypes /\ ~ k.dir
  BY KindsAgain
<1>5. type \in FileTypes =>
         \E m : /\ Matches[c.src].files = {m} /\ ~ Matches[c.src].fails
                /\ GlobDestination(c, m) = path
                /\ GlobType(c, m) = type /\ m.src = src
  BY <1>3, GlobsItself
<1> HIDE DEF c, type, owner, src, path
<1>6. CASE type = "implicit dir" /\ k.dir
  <2>1. Claims(c) = {} /\ Needs(c) = {}
    BY <1>1, <1>6, NothingClaimed
  <2>2. ~ IsGlob(c) /\ ~ IsTree(c) /\ c.type \in EntryTypes
    BY <1>1, <1>6, ImplicitKind
  <2> QED
    BY <1>6, <2>1, <2>2 DEF HostRefuses, c, type
<1>7. CASE type = "dir" /\ k.dir
  <2>1. /\ Claims(c) = {Claim(DirKey(CleanAbs(c.dst)), Entry("dir", c.owner, c.src))}
        /\ Needs(c) = ParentKeys(c.dst)
    BY <1>1, <1>7, DirClaimed
  <2>2. ~ IsGlob(c) /\ ~ IsTree(c) /\ c.type # "implicit dir" /\ c.type \in EntryTypes
    BY <1>1, <1>7, DirKind
  <2>3. Claims(c) = {Claim(k, e)} /\ Needs(c) = ParentKeys(path)
    BY <1>1, <1>2, <1>7, <2>1
  <2> QED
    BY <1>1, <2>2, <2>3 DEF HostRefuses, c, type, path
<1>8. CASE type \in AsIsTypes /\ ~ k.dir
  <2>1. /\ Claims(c) = {Claim(FileKey(CleanAbs(c.dst)), Entry(c.type, c.owner, c.src))}
        /\ Needs(c) = ParentKeys(c.dst)
    BY <1>1, <1>8, AsIsClaimed
  <2>2. ~ IsGlob(c) /\ ~ IsTree(c) /\ c.type # "implicit dir" /\ c.type \in EntryTypes
    BY <1>1, <1>8, AsIsKind
  <2>3. Claims(c) = {Claim(k, e)} /\ Needs(c) = ParentKeys(path)
    BY <1>1, <1>2, <1>8, <2>1
  <2> QED
    BY <1>1, <2>2, <2>3 DEF HostRefuses, c, type, path
<1>9. CASE type \in FileTypes /\ ~ k.dir
  <2>1. PICK m : /\ Matches[c.src].files = {m} /\ ~ Matches[c.src].fails
                 /\ GlobDestination(c, m) = path
                 /\ GlobType(c, m) = type /\ m.src = src
    BY <1>5, <1>9
  <2>2. IsGlob(c) /\ ~ IsTree(c) /\ c.type # "implicit dir" /\ c.type \in EntryTypes \cup {""}
    BY <1>1, <1>9, GlobKind
  <2>3. Claims(c) = GlobClaims(c, {m}) /\ Needs(c) = GlobNeeds(c, {m})
    BY <1>1, <1>9, <2>1, GlobClaimed
  <2>4. Claims(c) = {Claim(FileKey(path), Entry(type, owner, src))}
    BY <1>1, <2>1, <2>3 DEF GlobClaims
  <2>5. Needs(c) = ParentKeys(path)
    BY <2>1, <2>3 DEF GlobNeeds, ParentKeys
  <2>6. Claims(c) = {Claim(k, e)}
    BY <1>1, <1>2, <1>9, <2>4
  <2> QED
    BY <1>1, <2>1, <2>2, <2>5, <2>6 DEF HostRefuses, c, type, path
<1> QED
  BY <1>4, <1>6, <1>7, <1>8, <1>9
(* The directories it needs are in the table it comes from. *)
LEMMA ParentsListed ==
    ASSUME NEW tab, Closed(tab), NEW k \in DOMAIN tab, k \in Keys
    PROVE  ParentKeys(k.path) \subseteq DOMAIN tab
<1> DEFINE path == k.path
           q == Parent(path)
<1>1. UP \notin Names /\ path \in Seq(Names)
  BY NamesAssumption DEF Keys
<1>2. q \in Seq(Names)
  <2> HIDE DEF path
  <2> QED
    BY <1>1, ParentIsPath
<1>3. CleanRel(q) = q /\ Len(q) \in Nat
  <2> HIDE DEF q
  <2> QED
    BY <1>1, <1>2, CleanStays, LenProperties
<1>4. \A n \in 1..Len(q) : CleanAbs(Prefix(q, n)) = Prefix(q, n) /\ Prefix(q, n) # <<>>
  <2> SUFFICES ASSUME NEW n \in 1..Len(q)
               PROVE  CleanAbs(Prefix(q, n)) = Prefix(q, n) /\ Prefix(q, n) # <<>>
    OBVIOUS
  <2> HIDE DEF q
  <2>1. n \in 0..Len(q) /\ n # 0
    BY <1>3
  <2>2. Prefix(q, n) \in Seq(Names) /\ Len(Prefix(q, n)) = n
    BY <1>2, <2>1, PrefixOf
  <2>3. Prefix(q, n) # <<>>
    BY <2>1, <2>2, EmptySeq
  <2>4. CleanAbs(Prefix(q, n)) = Prefix(q, n)
    <3> DEFINE p == Prefix(q, n)
    <3>1. p \in Seq(Names)
      BY <2>2
    <3> HIDE DEF p
    <3> QED
      BY <1>1, <3>1, CleanStays DEF p
  <2> QED
    BY <2>3, <2>4
<1> DEFINE missing == {n \in 1..Len(q) : DirKey(Prefix(q, n)) \notin DOMAIN tab}
<1>5. missing = {}
  <2> SUFFICES ASSUME missing # {} PROVE FALSE
    OBVIOUS
  <2>1. missing \in SUBSET Nat /\ \A n \in missing : n <= Len(q)
    BY <1>3
  <2>2. \E g \in missing : \A n \in missing : n <= g
    <3> HIDE DEF missing, q
    <3> QED
      BY <1>3, <2>1, GreatestElement
  <2>3. PICK g \in missing : \A n \in missing : n <= g
    BY <2>2
  <2>4. g \in 1..Len(q) /\ g \in Nat /\ DirKey(Prefix(q, g)) \notin DOMAIN tab /\ Prefix(q, g) # <<>>
    BY <1>3, <1>4, <2>3
  <2>5. CASE g = Len(q)
    <3>1. Prefix(q, g) = q
      <4> HIDE DEF q
      <4> QED
        BY <1>2, <2>5, WholePrefix
    <3> QED
      BY <2>4, <3>1 DEF Closed
  <2>6. CASE g # Len(q)
    <3> DEFINE up == Prefix(q, g + 1)
    <3>1. g + 1 \in 1..Len(q) /\ ~ (g + 1 <= g) /\ g + 1 - 1 = g
      BY <1>3, <2>4, <2>6
    <3>2. DirKey(up) \in DOMAIN tab
      BY <2>3, <3>1
    <3>3. Parent(up) = Prefix(q, g)
      <4> HIDE DEF q
      <4> QED
        BY <1>2, <3>1, ParentOfPrefix
    <3>4. DirKey(up).path = up
      BY KeyFields
    <3> QED
      BY <2>4, <3>2, <3>3, <3>4 DEF Closed
  <2> QED
    BY <2>5, <2>6
<1>6. ParentKeys(path) = {DirKey(CleanAbs(Prefix(q, n))) : n \in 1..Len(q)}
  BY <1>3 DEF ParentKeys, ParentPaths
<1> QED
  BY <1>4, <1>5, <1>6

-----------------------------------------------------------------------------
(* The entries somebody asked for. *)
Explicit(tab, k) == tab[k].type # "implicit dir"

(* What a content of a prepared list asks for and needs. *)
LEMMA ListedOne ==
    ASSUME NEW tab, Prepared(tab), NEW list, NEW n, NEW keys, Lists(list, n, keys, tab), NEW i \in 1..n
    PROVE  /\ keys[i] \in DOMAIN tab /\ keys[i] \in Keys /\ list[i] \in Contents
           /\ ~ Explicit(tab, keys[i]) => Claims(list[i]) = {}
           /\ Explicit(tab, keys[i]) => Claims(list[i]) = {Claim(keys[i], tab[keys[i]])}
           /\ Needs(list[i]) \subseteq DOMAIN tab
           /\ \A key \in Needs(list[i]) : key.dir
           /\ ~ HostRefuses(list[i]) /\ ~ IsTree(list[i])
           /\ IsGlob(list[i]) => \E m : Matches[list[i].src].files = {m}
<1> DEFINE k == keys[i]
           c == list[i]
           e == tab[k]
<1>1. k \in DOMAIN tab /\ k \in Keys /\ c = AsContent(k, e)
  BY DEF Lists, Prepared, TableKnown
<1>2. GoodAgain(k, e) /\ GoodEntry(k, e) /\ Closed(tab)
  BY <1>1 DEF Prepared, WellFormed
<1>3. c \in Contents
  BY <1>1, <1>2 DEF GoodAgain
<1>4. ParentKeys(k.path) \subseteq DOMAIN tab
  BY <1>1, <1>2, ParentsListed
<1>5. \A key \in ParentKeys(k.path) : key.dir
  BY KeyFields DEF ParentKeys
<1> HIDE DEF k, c, e
<1>6. /\ e.type = "implicit dir" => Claims(c) = {} /\ Needs(c) = {}
      /\ e.type # "implicit dir" => Claims(c) = {Claim(k, e)} /\ Needs(c) = ParentKeys(k.path)
      /\ ~ HostRefuses(c) /\ ~ IsTree(c)
      /\ IsGlob(c) => \E m : Matches[c.src].files = {m}
  BY <1>1, <1>2, ListedClaims
<1>7. Needs(c) \subseteq DOMAIN tab /\ \A key \in Needs(c) : key.dir
  BY <1>4, <1>5, <1>6
<1>8. Explicit(tab, k) <=> e.type # "implicit dir"
  BY DEF Explicit, e
<1> QED
  BY <1>1, <1>3, <1>6, <1>7, <1>8 DEF k, c, e

(* It asks for its own key only. *)
LEMMA ListedAsks ==
    ASSUME NEW tab, Prepared(tab), NEW list, NEW n, NEW keys, Lists(list, n, keys, tab), NEW i \in 1..n,
           NEW k
    PROVE  /\ Asks(list[i], k) <=> k = keys[i] /\ Explicit(tab, k)
           /\ Asks(list[i], k) => ClaimOf(list[i], k) = tab[k]
<1> DEFINE key == keys[i]
           c == list[i]
<1>1. /\ ~ Explicit(tab, key) => Claims(c) = {}
      /\ Explicit(tab, key) => Claims(c) = {Claim(key, tab[key])}
  BY ListedOne
<1> HIDE DEF key, c
<1>2. Asks(c, k) <=> k = key /\ Explicit(tab, k)
  <2>1. CASE Explicit(tab, key)
    BY <1>1, <2>1, ClaimFields DEF Asks
  <2>2. CASE ~ Explicit(tab, key)
    BY <1>1, <2>2 DEF Asks
  <2> QED
    BY <2>1, <2>2
<1>3. ASSUME Asks(c, k) PROVE ClaimOf(c, k) = tab[k]
  <2>1. k = key /\ Claims(c) = {Claim(key, tab[key])}
    BY <1>1, <1>2, <1>3
  <2> QED
    BY <2>1, ClaimFields DEF ClaimOf
<1> QED
  BY <1>2, <1>3 DEF key, c
(* What a list stands for holds an implicit directory where nobody asks. *)
LEMMA NobodyAsks ==
    ASSUME NEW list \in Seq(Contents), NEW n \in 0..Len(list), NEW k \in DOMAIN Meaning(Prefix(list, n)),
           \A i \in 1..n : ~ Asks(list[i], k)
    PROVE  ~ Explicit(Meaning(Prefix(list, n)), k)
<1> DEFINE needing == {i \in 1..n : k \in Needs(list[i])}
<1>1. n \in Nat
  BY LenProperties
<1>2. needing \in SUBSET Nat /\ needing # {}
  BY <1>1, MeaningDomain
<1>3. PICK i \in needing : \A j \in needing : i <= j
  BY <1>2, Loops!LeastElement
<1>4. Meaning(Prefix(list, n))[k] = Entry("implicit dir", ParentOwner(list[i], k), NoSource)
  BY <1>3, MeaningOfNeed
<1> DEFINE entry == Meaning(Prefix(list, n))[k]
           type == "implicit dir"
           owner == ParentOwner(list[i], k)
<1>5. entry = Entry(type, owner, NoSource)
  BY <1>4
<1> HIDE DEF entry, type, owner
<1>6. entry.type = type
  BY <1>5, EntryFields
<1> QED
  BY <1>6 DEF Explicit, entry, type

(* The beginning of a prepared list stands for a part of the table: all    *)
(* that somebody asked for is as it was.                                   *)
LEMMA ListedMeaning ==
    ASSUME NEW tab, Prepared(tab), NEW list, NEW n, NEW keys, Lists(list, n, keys, tab), NEW i \in 0..n
    PROVE  LET M == Meaning(Prefix(list, i)) IN
           /\ DOMAIN M \subseteq DOMAIN tab
           /\ \A k \in DOMAIN M : Explicit(M, k) \/ ~ k.dir => \E j \in 1..i : keys[j] = k
           /\ \A j \in 1..i : Explicit(tab, keys[j]) => keys[j] \in DOMAIN M
<1> DEFINE M == Meaning(Prefix(list, i))
<1>1. list \in Seq(Contents) /\ n \in 0..Len(list) /\ Len(list) \in Nat
  BY LenProperties DEF Lists
<1>2. i \in 0..Len(list) /\ \A j \in 1..i : j \in 1..n
  BY <1>1
<1>3. \A k : k \in DOMAIN M <=> \E j \in 1..i : Asks(list[j], k) \/ k \in Needs(list[j])
  BY <1>1, <1>2, MeaningDomain
<1>4. \A k \in DOMAIN M : (\A j \in 1..i : ~ Asks(list[j], k)) => ~ Explicit(M, k)
  BY <1>1, <1>2, NobodyAsks
<1> HIDE DEF M
<1>5. \A j \in 1..i : \A k : Asks(list[j], k) <=> k = keys[j] /\ Explicit(tab, k)
  BY <1>2, ListedAsks
<1>6. \A j \in 1..i : /\ keys[j] \in DOMAIN tab /\ Needs(list[j]) \subseteq DOMAIN tab
                      /\ \A key \in Needs(list[j]) : key.dir
  BY <1>2, ListedOne
<1>7. DOMAIN M \subseteq DOMAIN tab
  BY <1>3, <1>5, <1>6
<1>8. ASSUME NEW k \in DOMAIN M, Explicit(M, k) \/ ~ k.dir PROVE \E j \in 1..i : keys[j] = k
  <2>1. CASE \E j \in 1..i : Asks(list[j], k)
    BY <1>5, <2>1
  <2>2. CASE \A j \in 1..i : ~ Asks(list[j], k)
    <3>1. PICK j \in 1..i : k \in Needs(list[j])
      BY <1>3, <2>2
    <3>2. k.dir
      BY <1>6, <3>1
    <3>3. ~ Explicit(M, k)
      BY <1>4, <2>2
    <3> QED
      BY <1>8, <3>2, <3>3
  <2> QED
    BY <2>1, <2>2
<1>9. ASSUME NEW j \in 1..i, Explicit(tab, keys[j]) PROVE keys[j] \in DOMAIN M
  BY <1>3, <1>5, <1>9
<1> QED
  BY <1>7, <1>8, <1>9 DEF M

(* No content of a prepared list is refused, whatever the order in which   *)
(* the entries are listed.                                                 *)
LEMMA ListedAccepted ==
    ASSUME NEW tab, Prepared(tab), NEW list, NEW n, NEW keys, Lists(list, n, keys, tab), NEW i \in 1..n
    PROVE  Accepts(list, i)
<1> DEFINE M == Meaning(Prefix(list, i - 1))
           k == keys[i]
           c == list[i]
<1>1. n \in Nat /\ i - 1 \in 0..n
  BY LenProperties DEF Lists
<1>2. \A key \in DOMAIN M : Explicit(M, key) \/ ~ key.dir => \E j \in 1..(i - 1) : keys[j] = key
  BY <1>1, ListedMeaning
<1>3. \A j \in 1..(i - 1) : keys[j] # k
  BY <1>1 DEF Lists
<1>4. k \in DOMAIN M => ~ Explicit(M, k) /\ k.dir
  BY <1>2, <1>3
<1>5. /\ Claims(c) = {} \/ Claims(c) = {Claim(k, tab[k])}
      /\ ~ HostRefuses(c) /\ ~ IsTree(c)
      /\ IsGlob(c) => \E m : Matches[c.src].files = {m}
  <2>1. /\ ~ Explicit(tab, keys[i]) => Claims(list[i]) = {}
        /\ Explicit(tab, keys[i]) => Claims(list[i]) = {Claim(keys[i], tab[keys[i]])}
    BY ListedOne
  <2>2. ~ HostRefuses(list[i]) /\ ~ IsTree(list[i])
    BY ListedOne
  <2>3. IsGlob(list[i]) => \E m : Matches[list[i].src].files = {m}
    BY ListedOne
  <2> QED
    BY <2>1, <2>2, <2>3
<1> HIDE DEF M, k, c
<1>6. \A cl \in Claims(c) : cl.key = k
  BY <1>5, ClaimFields
<1>7. Explicit(M, k) <=> M[k].type # "implicit dir"
  BY DEF Explicit
<1>8. ~ \E cl \in Claims(c) :
            IF cl.key.dir THEN cl.key \in DOMAIN M /\ M[cl.key].type # "implicit dir"
            ELSE cl.key \in DOMAIN M
  BY <1>4, <1>6, <1>7
<1>9. ~ (IsGlob(c) /\ isRelevantForPackager(c)
           /\ \E m1, m2 \in Matches[c.src].files :
                 m1 # m2 /\ GlobDestination(c, m1) = GlobDestination(c, m2))
  BY <1>5
<1>10. ~ Clashes(Prefix(list, i - 1), c)
  BY <1>5, <1>8, <1>9 DEF Clashes, M
<1> QED
  BY <1>5, <1>10 DEF Accepts, c

(* The changelog behind it is, if the table holds one already.             *)
LEMMA ChangelogClaimed ==
    /\ Claims(Changelog) = {Claim(ChangelogKey, Entry(Changelog.type, Changelog.owner, Changelog.src))}
    /\ Needs(Changelog) = ParentKeys(Changelog.dst)
    /\ ~ IsGlob(Changelog) /\ ~ IsTree(Changelog) /\ ~ HostRefuses(Changelog)
    /\ ~ ChangelogKey.dir
<1>1. Changelog.type \in AsIsTypes
  BY ChangelogAssumption DEF AsIsTypes
<1>2. ~ IsGlob(Changelog) /\ ~ IsTree(Changelog) /\ Changelog.type \in EntryTypes
  BY <1>1, AsIsKind
<1>3. /\ Claims(Changelog) = {Claim(FileKey(CleanAbs(Changelog.dst)),
                                    Entry(Changelog.type, Changelog.owner, Changelog.src))}
      /\ Needs(Changelog) = ParentKeys(Changelog.dst)
  BY <1>1, ChangelogRelevant, AsIsClaimed
<1>4. ~ ChangelogKey.dir
  BY KeyFields DEF ChangelogKey
<1> QED
  BY <1>2, <1>3, <1>4 DEF HostRefuses, ChangelogKey

LEMMA ChangelogAccepted ==
    ASSUME NEW tab, Prepared(tab), NEW list, NEW n, NEW keys, Lists(list, n, keys, tab),
           n + 1 = Len(list), list[n + 1] = Changelog
    PROVE  Accepts(list, n + 1) <=> ChangelogKey \notin DOMAIN tab
<1> DEFINE M == Meaning(Prefix(list, n))
           k == ChangelogKey
<1>1. n \in Nat /\ n \in 0..n /\ n + 1 - 1 = n
  BY LenProperties DEF Lists
<1>2. /\ DOMAIN M \subseteq DOMAIN tab
      /\ \A j \in 1..n : Explicit(tab, keys[j]) => keys[j] \in DOMAIN M
  BY <1>1, ListedMeaning
<1>3. k \in DOMAIN tab => k \in DOMAIN M
  <2> SUFFICES ASSUME k \in DOMAIN tab PROVE k \in DOMAIN M
    OBVIOUS
  <2>1. GoodEntry(k, tab[k]) /\ ~ k.dir
    BY ChangelogClaimed DEF Prepared, WellFormed
  <2>2. Explicit(tab, k)
    BY <2>1 DEF GoodEntry, Explicit, DirTypes
  <2>3. PICK j \in 1..n : keys[j] = k
    BY DEF Lists
  <2> QED
    BY <1>2, <2>2, <2>3
<1>4. k \in DOMAIN M <=> k \in DOMAIN tab
  BY <1>2, <1>3
<1>5. Accepts(list, n + 1) <=> ~ Clashes(Prefix(list, n), Changelog)
  BY <1>1, ChangelogClaimed DEF Accepts
<1>6. Clashes(Prefix(list, n), Changelog) <=>
         \E cl \in Claims(Changelog) :
            IF cl.key.dir THEN cl.key \in DOMAIN M /\ M[cl.key].type # "implicit dir"
            ELSE cl.key \in DOMAIN M
  BY ChangelogClaimed DEF Clashes
<1> HIDE DEF M, k
<1>7. \E cl \in Claims(Changelog) : cl.key = k
  BY ChangelogClaimed, ClaimFields DEF k
<1>8. \A cl \in Claims(Changelog) : cl.key = k /\ ~ k.dir
  BY ChangelogClaimed, ClaimFields DEF k
<1>9. Clashes(Prefix(list, n), Changelog) <=> k \in DOMAIN M
  BY <1>6, <1>7, <1>8
<1> QED
  BY <1>4, <1>5, <1>9 DEF k
-----------------------------------------------------------------------------
(* What a preparation that succeeded returns can be prepared again. *)
LEMMA ResultPrepared ==
    ASSUME IInv, MeaningInv, TableKnown(table), pc = "done"
    PROVE  Prepared(table)
<1>1. contents \in Seq(Contents) /\ next \in Nat \ {0} /\ next <= Len(contents) + 1 /\ Len(contents) \in Nat
  BY LenProperties DEF IInv, MeaningInv, ListMeans
<1>2. next - 1 \in 0..Len(contents)
  BY <1>1
<1>3. \A i \in 1..(next - 1) : ~ HostRefuses(contents[i])
  BY DEF MeaningInv, ListMeans, Accepts
<1>4. table = Meaning(Prefix(contents, next - 1))
  BY DEF MeaningInv, ListMeans, Before
<1>5. \A k \in DOMAIN table : GoodAgain(k, table[k])
  BY <1>1, <1>2, <1>3, <1>4, MeaningAgain
<1> QED
  BY <1>5 DEF Prepared, IInv

LEMMA NothingPrepared == Prepared(Nothing)
<1>1. DOMAIN Nothing = {}
  BY DEF Nothing
<1>2. IsFiniteSet({})
  BY FS_EmptySet
<1> QED
  BY <1>1, <1>2 DEF Prepared, WellFormed, Closed, TableKnown

(* The place of a key, counted from one. *)
LEMMA PlaceKnown ==
    ASSUME NEW T, IsFiniteSet(T), T \subseteq Keys, NEW k \in T
    PROVE  /\ Cardinality(T) \in Nat /\ Cardinality(KeysBelow(T, k)) \in Nat
           /\ 1 + Cardinality(KeysBelow(T, k)) \in 1..Cardinality(T)
<1> DEFINE B == KeysBelow(T, k)
<1>1. B \in SUBSET T
  BY DEF KeysBelow
<1>2. k \notin B
  <2>1. ~ Less(k, k)
    BY LessOrders
  <2> QED
    BY <2>1 DEF KeysBelow
<1> HIDE DEF B
<1>3. IsFiniteSet(B) /\ Cardinality(B) <= Cardinality(T) /\ (Cardinality(T) = Cardinality(B) => T = B)
  BY <1>1, FS_Subset
<1>4. Cardinality(B) \in Nat /\ Cardinality(T) \in Nat
  BY <1>3, FS_CardinalityType
<1>5. Cardinality(B) # Cardinality(T)
  BY <1>2, <1>3
<1>6. 1 + Cardinality(B) \in 1..Cardinality(T)
  BY <1>3, <1>4, <1>5
<1> QED
  BY <1>4, <1>6 DEF B

(* Every place is taken, once. *)
LEMMA EveryPlace ==
    ASSUME NEW T, IsFiniteSet(T), T \subseteq Keys, NEW place,
           place = [k \in T |-> 1 + Cardinality(KeysBelow(T, k))]
    PROVE  /\ Cardinality(T) \in Nat
           /\ \A j, k \in T : place[j] = place[k] => j = k
           /\ \A k \in T : place[k] \in 1..Cardinality(T)
           /\ \A i \in 1..Cardinality(T) : \E k \in T : place[k] = i
<1> DEFINE N == Cardinality(T)
<1>1. N \in Nat
  BY FS_CardinalityType
<1>2. ASSUME NEW k \in T PROVE place[k] \in 1..N
  BY PlaceKnown
<1>3. ASSUME NEW j \in T, NEW k \in T, place[j] = place[k] PROVE j = k
  <2> SUFFICES ASSUME j # k PROVE FALSE
    OBVIOUS
  <2>1. Less(j, k) \/ Less(k, j)
    BY LessOrders
  <2>2. Less(j, k) => Cardinality(KeysBelow(T, j)) < Cardinality(KeysBelow(T, k))
    BY LowerIsEarlier
  <2>3. Less(k, j) => Cardinality(KeysBelow(T, k)) < Cardinality(KeysBelow(T, j))
    BY LowerIsEarlier
  <2>4. Cardinality(KeysBelow(T, j)) \in Nat /\ Cardinality(KeysBelow(T, k)) \in Nat
    BY PlaceKnown
  <2>5. Cardinality(KeysBelow(T, j)) = Cardinality(KeysBelow(T, k))
    <3>1. 1 + Cardinality(KeysBelow(T, j)) = 1 + Cardinality(KeysBelow(T, k))
      BY <1>3
    <3> QED
      BY <2>4, <3>1
  <2> QED
    BY <2>1, <2>2, <2>3, <2>4, <2>5
<1>4. place \in Injection(T, 1..N)
  BY <1>2, <1>3 DEF Injection, IsInjective
<1>5. IsFiniteSet(1..N) /\ Cardinality(1..N) = N
  <2>1. 1 \in Int /\ N \in Int
    BY <1>1
  <2> HIDE DEF N
  <2>2. IsFiniteSet(1..N) /\ Cardinality(1..N) = IF 1 > N THEN 0 ELSE N - 1 + 1
    BY <2>1, FS_Interval
  <2> QED
    BY <1>1, <2>2
<1>6. place \in Surjection(T, 1..N)
  <2>1. Cardinality(T) = Cardinality(1..N) <=> place \in Surjection(T, 1..N)
    BY <1>4, <1>5, FS_Injection
  <2> QED
    BY <1>5, <2>1
<1>7. \A i \in 1..N : \E k \in T : place[k] = i
  BY <1>6 DEF Surjection
<1> QED
  BY <1>1, <1>2, <1>3, <1>7

(* The Info then lists the table, each key once. *)
LEMMA ResultListed ==
    ASSUME IInv, MeaningInv, TableKnown(table), Sorted, pc = "done"
    PROVE  LET n == Cardinality(DOMAIN table) IN
           /\ Lists(InfoContents, n, [i \in 1..n |-> KeyAt(i)], table)
           /\ Len(InfoContents) = n
<1> DEFINE T == DOMAIN table
           n == Cardinality(T)
           keys == [i \in 1..n |-> KeyAt(i)]
<1>1. T \subseteq Keys /\ IsFiniteSet(T)
  BY DEF TableKnown
<1>2. position = [k \in T |-> 1 + Cardinality(KeysBelow(T, k))] /\ DOMAIN position = T
  BY DEF Sorted
<1> HIDE DEF T
<1>3. /\ n \in Nat
      /\ \A j, k \in T : position[j] = position[k] => j = k
      /\ \A k \in T : position[k] \in 1..n
      /\ \A i \in 1..n : \E k \in T : position[k] = i
  BY <1>1, <1>2, EveryPlace
<1> HIDE DEF n
<1>4. \A i \in 1..n : keys[i] = KeyAt(i) /\ keys[i] \in T /\ position[keys[i]] = i
  BY <1>2, <1>3 DEF KeyAt
<1>5. \A k \in T : keys[position[k]] = k
  BY <1>3, <1>4
<1>6. InfoContents = [i \in 1..n |-> AsContent(keys[i], table[keys[i]])]
  BY <1>4 DEF InfoContents, n, T
<1>7. \A i \in 1..n : AsContent(keys[i], table[keys[i]]) \in Contents
  <2>1. Prepared(table)
    BY ResultPrepared
  <2> QED
    BY <1>4, <2>1 DEF Prepared, GoodAgain, T
<1> HIDE DEF keys
<1>8. InfoContents \in Seq(Contents) /\ Len(InfoContents) = n
  BY <1>3, <1>6, <1>7
<1>9. Lists(InfoContents, n, keys, table)
  BY <1>3, <1>4, <1>5, <1>6, <1>8 DEF Lists, T
<1> QED
  BY <1>8, <1>9 DEF keys, n, T
-----------------------------------------------------------------------------
(* The invariant: the table of the first call can be prepared again, and   *)
(* the second call prepares it, with the changelog behind it.              *)
DoneInv == pc = "done" => next = Len(contents) + 1

ListsFirst(n, keys) ==
    /\ Lists(contents, n, keys, first)
    /\ changelog = TRUE => n + 1 = Len(contents) /\ contents[n + 1] = Changelog
    /\ changelog = FALSE => n = Len(contents)

SecondInv == round = 2 => \E n, keys : ListsFirst(n, keys)

OneInv == IInv /\ MeaningInv /\ TableKnown(table) /\ Sorted /\ DoneInv

RInv ==
    /\ OneInv
    /\ round \in 0..2 /\ changelog \in BOOLEAN
    /\ Prepared(first)
    /\ SecondInv

(* Each call starts as a preparation does. *)
LEMMA StartsOne == Starts => OneInv
<1> SUFFICES ASSUME Starts PROVE OneInv
  OBVIOUS
<1>1. IInv /\ MeaningInv
  BY StartsWell, StartMeans
<1>2. pc = "next" /\ DOMAIN table = {}
  BY DEF Starts
<1>3. TableKnown(table)
  BY <1>2, FS_EmptySet DEF TableKnown
<1> QED
  BY <1>1, <1>2, <1>3 DEF OneInv, Sorted, DoneInv

LEMMA StartsOneNext == Starts' => OneInv'
  BY StartsOne, PTL
(* A preparation never changes its list, and is done at the end of it. *)
LEMMA StepContents == [Next]_vars => contents' = contents
  BY DEF Next, Skip, AddDir, AddAsIs, InvalidType, Glob, AddGlobbed, EndGlob, BeginTree, WalkNode,
         EndTree, Finish, Fail, Store, vars

LEMMA StepDone == IInv /\ MeaningInv /\ DoneInv /\ [Next]_vars => DoneInv'
<1> SUFFICES ASSUME IInv, MeaningInv, DoneInv, [Next]_vars PROVE DoneInv'
  OBVIOUS
<1>1. Len(contents) \in Nat /\ next \in Nat /\ next <= Len(contents) + 1
  BY LenProperties DEF IInv, MeaningInv, ListMeans
<1>2. CASE Skip \/ AddDir \/ AddAsIs \/ InvalidType
  <2>1. pc = "next" /\ (pc' = pc \/ pc' = "error")
    BY <1>2 DEF Skip, AddDir, AddAsIs, InvalidType, Handling, Fail, Store
  <2> QED
    BY <2>1 DEF DoneInv
<1>3. CASE Glob \/ (\E m \in pending : AddGlobbed(m)) \/ EndGlob
  <2>1. pc' \in {"glob", "next", "error"}
    BY <1>3 DEF Glob, AddGlobbed, EndGlob, Fail
  <2> QED
    BY <2>1 DEF DoneInv
<1>4. CASE BeginTree \/ WalkNode \/ EndTree
  <2>1. pc' \in {"walk", "next", "error"}
    BY <1>4 DEF BeginTree, WalkNode, EndTree, Fail
  <2> QED
    BY <2>1 DEF DoneInv
<1>5. CASE Finish
  <2>1. next > Len(contents) /\ next' = next /\ contents' = contents
    BY <1>5 DEF Finish
  <2> QED
    BY <1>1, <2>1 DEF DoneInv
<1>6. CASE UNCHANGED vars
  BY <1>6 DEF vars, DoneInv
<1> QED
  BY <1>2, <1>3, <1>4, <1>5, <1>6 DEF Next

LEMMA StepOne == OneInv /\ [Next]_vars => OneInv'
  BY StepPreserves, StepMeans, StepKnown, StepSorted, StepDone DEF OneInv

LEMMA PrepareKeeps == RInv /\ Prepare => RInv'
<1> SUFFICES ASSUME RInv, Prepare PROVE RInv'
  OBVIOUS
<1>1. Next /\ UNCHANGED <<round, first, changelog>> /\ contents' = contents
  BY StepContents DEF Prepare
<1>2. OneInv'
  BY <1>1, StepOne DEF RInv
<1>3. \A n, keys : ListsFirst(n, keys)' <=> ListsFirst(n, keys)
  BY <1>1 DEF ListsFirst
<1>4. SecondInv'
  BY <1>1, <1>3 DEF RInv, SecondInv
<1> QED
  BY <1>1, <1>2, <1>4 DEF RInv

(* With the changelog behind it a list is a list still. *)
LEMMA ListsAppend ==
    ASSUME NEW list, NEW n, NEW keys, NEW tab, Lists(list, n, keys, tab), n = Len(list)
    PROVE  /\ Append(list, Changelog) \in Seq(Contents)
           /\ Len(Append(list, Changelog)) = n + 1
           /\ Append(list, Changelog)[n + 1] = Changelog
           /\ Lists(Append(list, Changelog), n, keys, tab)
<1> DEFINE more == Append(list, Changelog)
<1>1. list \in Seq(Contents) /\ n \in Nat /\ Changelog \in Contents
  BY LenProperties, ChangelogAssumption DEF Lists
<1>2. /\ more \in Seq(Contents) /\ Len(more) = n + 1 /\ more[n + 1] = Changelog
      /\ \A i \in 1..n : more[i] = list[i]
  BY <1>1, AppendProperties
<1> HIDE DEF more
<1>3. n \in 0..Len(more)
  BY <1>1, <1>2
<1>4. Lists(more, n, keys, tab)
  BY <1>2, <1>3 DEF Lists
<1> QED
  BY <1>2, <1>4 DEF more

LEMMA PackageKeeps == RInv /\ Package => RInv'
<1> SUFFICES ASSUME RInv, Package PROVE RInv'
  OBVIOUS
<1> DEFINE before == IF round = 0 THEN contents ELSE InfoContents
<1>1. /\ round' = round + 1 /\ first' = (IF pc = "done" THEN table ELSE Nothing)
      /\ contents' = withChangelogIfRequested(before)
      /\ next' = 1 /\ node' = 1 /\ pc' = "next" /\ pending' = {}
      /\ table' = Nothing /\ position' = [k \in {} |-> 0] /\ changelog' = changelog
      /\ round = 0 \/ (round = 1 /\ Returned)
  BY DEF Package
<1>2. round' \in 0..2 /\ changelog' \in BOOLEAN
  BY <1>1 DEF RInv
<1>3. Prepared(first')
  <2>1. pc = "done" => Prepared(table)
    BY ResultPrepared DEF RInv, OneInv
  <2> QED
    BY <1>1, <2>1, NothingPrepared
<1>4. round = 1 => \E n, keys : Lists(before, n, keys, first') /\ n = Len(before)
  <2> SUFFICES ASSUME round = 1 PROVE \E n, keys : Lists(before, n, keys, first') /\ n = Len(before)
    OBVIOUS
  <2>1. before = InfoContents
    OBVIOUS
  <2>2. CASE pc = "done"
    <3> DEFINE n == Cardinality(DOMAIN table)
               keys == [i \in 1..n |-> KeyAt(i)]
    <3>1. Lists(InfoContents, n, keys, table) /\ Len(InfoContents) = n
      BY <2>2, ResultListed DEF RInv, OneInv
    <3>2. first' = table
      BY <1>1, <2>2
    <3> QED
      BY <2>1, <3>1, <3>2
  <2>3. CASE pc = "error"
    <3>1. first' = Nothing /\ InfoContents = <<>>
      BY <1>1, <2>3 DEF InfoContents
    <3>2. Lists(<<>>, 0, <<>>, Nothing)
      BY DEF Lists, Nothing
    <3>3. Len(<<>>) = 0
      OBVIOUS
    <3> QED
      BY <2>1, <3>1, <3>2, <3>3
  <2> QED
    BY <1>1, <2>2, <2>3 DEF Returned
<1>5. before \in Seq(Contents)
  <2>1. CASE round = 0
    BY <2>1 DEF RInv, OneInv, IInv
  <2>2. CASE round = 1
    BY <1>4, <2>2 DEF Lists
  <2> QED
    BY <1>1, <2>1, <2>2
<1> HIDE DEF before
<1>6. contents' \in Seq(Contents)
  <2>1. Append(before, Changelog) \in Seq(Contents)
    BY <1>5, ChangelogAssumption, AppendProperties
  <2> QED
    BY <1>1, <1>5, <2>1 DEF withChangelogIfRequested
<1>7. OneInv'
  <2>1. Starts'
    BY <1>1, <1>6 DEF Starts, Nothing
  <2> QED
    BY <2>1, StartsOneNext
<1>8. SecondInv'
  <2> SUFFICES ASSUME round = 1 PROVE \E n, keys : ListsFirst(n, keys)'
    BY <1>1 DEF SecondInv, RInv
  <2>1. PICK n, keys : Lists(before, n, keys, first') /\ n = Len(before)
    BY <1>4
  <2>2. CASE changelog = TRUE
    <3>1. contents' = Append(before, Changelog)
      BY <1>1, <2>2 DEF withChangelogIfRequested
    <3>2. /\ Len(contents') = n + 1 /\ contents'[n + 1] = Changelog
          /\ Lists(contents', n, keys, first')
      BY <2>1, <3>1, ListsAppend
    <3>3. ListsFirst(n, keys)'
      BY <1>1, <2>2, <3>2 DEF ListsFirst
    <3> QED
      BY <3>3
  <2>3. CASE changelog = FALSE
    <3>1. contents' = before
      BY <1>1, <2>3 DEF withChangelogIfRequested
    <3>2. ListsFirst(n, keys)'
      BY <1>1, <2>1, <2>3, <3>1 DEF ListsFirst
    <3> QED
      BY <3>2
  <2> QED
    BY <2>2, <2>3 DEF RInv
<1> QED
  BY <1>2, <1>3, <1>7, <1>8 DEF RInv
LEMMA RInvHolds == RSpec => []RInv
<1>1. RInit => RInv
  <2> SUFFICES ASSUME RInit PROVE RInv
    OBVIOUS
  <2>1. Init /\ round = 0 /\ first = Nothing /\ changelog \in BOOLEAN
    BY DEF RInit
  <2>2. OneInv
    BY <2>1, InitStarts, StartsOne
  <2> QED
    BY <2>1, <2>2, NothingPrepared DEF RInv, SecondInv
<1>2. RInv /\ [RNext]_rvars => RInv'
  <2> SUFFICES ASSUME RInv, [RNext]_rvars PROVE RInv'
    OBVIOUS
  <2>1. CASE Package
    BY <2>1, PackageKeeps
  <2>2. CASE Prepare
    BY <2>2, PrepareKeeps
  <2>3. CASE UNCHANGED rvars
    <3>1. UNCHANGED vars /\ UNCHANGED <<round, first, changelog>> /\ contents' = contents
      BY <2>3 DEF rvars, vars
    <3>2. OneInv'
      BY <3>1, StepOne DEF RInv
    <3>3. \A n, keys : ListsFirst(n, keys)' <=> ListsFirst(n, keys)
      BY <3>1 DEF ListsFirst
    <3>4. SecondInv'
      BY <3>1, <3>3 DEF RInv, SecondInv
    <3> QED
      BY <3>1, <3>2, <3>4 DEF RInv
  <2> QED
    BY <2>1, <2>2, <2>3 DEF RNext
<1> QED
  BY <1>1, <1>2, PTL DEF RSpec

(* Calling Package twice with one Info fails the second time exactly if    *)
(* the first call put the changelog in (nfpm.go, deb/deb.go:162-165): what *)
(* a preparation returned is never refused, for any contents and any host  *)
(* on which the path of a file finds this file.                            *)
THEOREM SecondFailsOnlyOnChangelog == RSpec => []SecondFailsOnChangelog
<1>1. RInv => SecondFailsOnChangelog
  <2> SUFFICES ASSUME RInv, round = 2
               PROVE  /\ pc = "error" => changelog /\ ChangelogKey \in DOMAIN first
                      /\ pc = "done"  => ~(changelog /\ ChangelogKey \in DOMAIN first)
    BY DEF SecondFailsOnChangelog
  <2>1. PICK n, keys : ListsFirst(n, keys)
    BY DEF RInv, SecondInv
  <2>2. /\ Lists(contents, n, keys, first) /\ Prepared(first) /\ changelog \in BOOLEAN
        /\ changelog = TRUE => n + 1 = Len(contents) /\ contents[n + 1] = Changelog
        /\ changelog = FALSE => n = Len(contents)
    BY <2>1 DEF RInv, ListsFirst
  <2>3. n \in Nat /\ next \in Nat \ {0} /\ Len(contents) \in Nat
    BY <2>2, LenProperties DEF Lists, RInv, OneInv, IInv
  <2>4. \A i \in 1..n : Accepts(contents, i)
    BY <2>2, ListedAccepted
  <2>5. changelog = TRUE => (Accepts(contents, n + 1) <=> ChangelogKey \notin DOMAIN first)
    BY <2>2, ChangelogAccepted
  <2>6. ASSUME pc = "error" PROVE changelog /\ ChangelogKey \in DOMAIN first
    <3>1. next <= Len(contents) /\ ~ Accepts(contents, next)
      BY <2>6 DEF RInv, OneInv, MeaningInv, ErrorMeans
    <3>2. ~ (next <= n)
      BY <2>3, <2>4, <3>1
    <3>3. changelog = TRUE /\ next = n + 1
      BY <2>2, <2>3, <3>1, <3>2
    <3> QED
      BY <2>5, <3>1, <3>3
  <2>7. ASSUME pc = "done", changelog, ChangelogKey \in DOMAIN first PROVE FALSE
    <3>1. next = Len(contents) + 1 /\ \A i \in 1..(next - 1) : Accepts(contents, i)
      BY <2>7 DEF RInv, OneInv, DoneInv, MeaningInv, ListMeans
    <3>2. changelog = TRUE
      BY <2>2, <2>7
    <3>3. n + 1 \in 1..(next - 1)
      BY <2>2, <2>3, <3>1, <3>2
    <3> QED
      BY <2>5, <2>7, <3>1, <3>2, <3>3
  <2> QED
    BY <2>6, <2>7
<1> QED
  BY <1>1, RInvHolds, PTL

(* A second call that succeeds packages what the first did: each entry     *)
(* somebody asked for as it was, and nothing new but the changelog and its *)
(* directories (nfpm.go, files/files.go:259-352).                          *)
THEOREM SecondPackagesWhatTheFirstDid == RSpec => []SecondPackagesTheFirst
<1>1. RInv => SecondPackagesTheFirst
  <2> SUFFICES ASSUME RInv, round = 2, pc = "done" PROVE SecondPackagesTheFirst
    BY DEF SecondPackagesTheFirst
  <2> DEFINE N == Len(contents)
             mine == {ChangelogKey} \cup ParentKeys(Changelog.dst)
  <2>1. PICK n, keys : ListsFirst(n, keys)
    BY DEF RInv, SecondInv
  <2>2. /\ Lists(contents, n, keys, first) /\ Prepared(first) /\ changelog \in BOOLEAN
        /\ changelog = TRUE => n + 1 = N /\ contents[n + 1] = Changelog
        /\ changelog = FALSE => n = N
    BY <2>1 DEF RInv, ListsFirst
  <2>3. contents \in Seq(Contents) /\ n \in Nat /\ N \in Nat /\ N \in 0..N /\ n \in 0..N
    BY <2>2, LenProperties DEF Lists
  <2>4. /\ next = N + 1 /\ next - 1 = N /\ table = Meaning(Prefix(contents, N))
        /\ \A i \in 1..N : Accepts(contents, i)
    BY <2>3 DEF RInv, OneInv, DoneInv, MeaningInv, ListMeans, Before
  <2> HIDE DEF N
  <2>5. \A k : k \in DOMAIN table <=> \E i \in 1..N : Asks(contents[i], k) \/ k \in Needs(contents[i])
    BY <2>3, <2>4, MeaningDomain DEF N
  <2>6. \A i \in 1..N : i \in 1..n \/ (changelog = TRUE /\ i = n + 1 /\ contents[i] = Changelog)
    BY <2>2, <2>3
  <2>7. \A i \in 1..n : i \in 1..N /\ keys[i] \in DOMAIN first /\ Needs(contents[i]) \subseteq DOMAIN first
    BY <2>2, <2>3, ListedOne
  <2>8. \A i \in 1..n : \A k : /\ Asks(contents[i], k) <=> k = keys[i] /\ Explicit(first, k)
                               /\ Asks(contents[i], k) => ClaimOf(contents[i], k) = first[k]
    BY <2>2, ListedAsks
  <2>9. \A k : Asks(Changelog, k) <=> k = ChangelogKey
    BY ChangelogClaimed, ClaimFields DEF Asks
  <2>10. ASSUME NEW k \in DOMAIN table PROVE k \in DOMAIN first \/ (changelog /\ k \in mine)
    <3>1. PICK i \in 1..N : Asks(contents[i], k) \/ k \in Needs(contents[i])
      BY <2>5
    <3>2. CASE i \in 1..n
      BY <2>7, <2>8, <3>1, <3>2
    <3>3. CASE changelog = TRUE /\ contents[i] = Changelog
      BY <2>9, <3>1, <3>3, ChangelogClaimed
    <3> QED
      BY <2>6, <3>2, <3>3
  <2>11. ASSUME NEW k \in DOMAIN first, Explicit(first, k)
         PROVE  k \in DOMAIN table /\ table[k] = first[k]
    <3>1. PICK i \in 1..n : keys[i] = k
      BY <2>2 DEF Lists
    <3>2. i \in 1..N /\ Asks(contents[i], k) /\ ClaimOf(contents[i], k) = first[k]
      BY <2>7, <2>8, <2>11, <3>1
    <3>3. ASSUME NEW j \in 1..N, Asks(contents[j], k) PROVE j <= i
      <4>1. CASE j \in 1..n
        <5>1. keys[j] = keys[i]
          BY <2>8, <3>1, <3>3, <4>1
        <5>2. j = i
          BY <2>2, <4>1, <5>1 DEF Lists
        <5> QED
          BY <2>3, <5>2
      <4>2. CASE changelog = TRUE /\ j = n + 1 /\ contents[j] = Changelog
        <5>1. k = ChangelogKey
          BY <2>9, <3>3, <4>2
        <5>2. Accepts(contents, n + 1) <=> ChangelogKey \notin DOMAIN first
          BY <2>2, <4>2, ChangelogAccepted DEF N
        <5>3. Accepts(contents, n + 1)
          BY <2>4, <4>2
        <5> QED
          BY <5>1, <5>2, <5>3
      <4> QED
        BY <2>6, <4>1, <4>2
    <3>4. table[k] = ClaimOf(contents[i], k)
      BY <2>3, <2>4, <3>2, <3>3, MeaningOfClaim DEF N
    <3> QED
      BY <2>5, <3>2, <3>4
  <2>12. \A k \in DOMAIN first : first[k].type # "implicit dir" => Explicit(first, k)
    BY DEF Explicit
  <2> QED
    BY <2>10, <2>11, <2>12 DEF SecondPackagesTheFirst, ParentKeys
<1> QED
  BY <1>1, RInvHolds, PTL
===============================================================================
