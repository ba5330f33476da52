--------------------------- MODULE PrepareContents ---------------------------
(***************************************************************************)
(* files.PrepareForPackager (files/files.go): the contents a user lists    *)
(* are turned into the flat table of archive members of one packager.      *)
(*                                                                         *)
(* The program walks the list in order and keeps what it has built so far  *)
(* in contentMap, here the variable table, a function whose domain grows.  *)
(* One action stands for one list entry, or, for a glob and for a tree,    *)
(* for one file the glob matched or one node the walk visits: the matches  *)
(* come out of a Go map and so in any order, the walk is in the order of   *)
(* filepath.WalkDir.  Any error discards the table.                        *)
(*                                                                         *)
(* Of a content's file_info only the owner is kept (the group follows the  *)
(* same code); modes, sizes and times are in module FileInfoSharing.       *)
(***************************************************************************)
EXTENDS ContentPaths, FiniteSets

CONSTANTS
    Contents,     \* what lists of contents are made of
    Inputs,       \* the content lists to prepare
    Packager,     \* the packager they are prepared for; "" for any
    Matches,      \* host: what a glob source matches, or that it fails
    TreeOf,       \* host: the nodes of a tree source, as WalkDir visits them
    FsOwned,      \* paths owned by the filesystem package (files/fs.go)
    Chars         \* the spelling of a component, for the sort

VARIABLES
    contents,     \* rawContents
    next,         \* index of the entry being handled
    pc,           \* "next", "glob", "walk", then "done" or "error"
    pending,      \* the glob matches not yet added
    node,         \* the position of the walk
    table,        \* contentMap
    position      \* the place of each key in the sorted result

vars == <<contents, next, pc, pending, node, table, position>>

FileTypes  == {"file", "config", "config|noreplace", "config|missingok"}
RpmTypes   == {"ghost", "doc", "licence", "license", "readme"}
AsIsTypes  == RpmTypes \cup {"symlink", "debian changelog"}
DirTypes   == {"dir", "implicit dir"}
EntryTypes == FileTypes \cup AsIsTypes \cup DirTypes

(* The type a regular file of a tree gets. *)
TreeFileType ==
    [t \in {"tree", "config|tree", "config|noreplace|tree",
            "config|missingok|tree"} |->
        CASE t = "tree"                  -> "file"
          [] t = "config|tree"           -> "config"
          [] t = "config|noreplace|tree" -> "config|noreplace"
          [] t = "config|missingok|tree" -> "config|missingok"]

TreeTypes == DOMAIN TreeFileType

(* The assumptions that follow say what the code relies on and does not    *)
(* check.  A list is finite and its trees are known to the host.           *)
ASSUME InputsAssumption == Inputs \subseteq Seq(Contents)

(* filepath.WalkDir reports the root, a directory before what is in it,     *)
(* and nothing twice but for the error of a directory it cannot read.      *)
ASSUME WalkAssumption ==
    \A c \in Contents : c.type \in TreeTypes =>
        LET nodes == TreeOf[c.src] IN
        /\ Len(nodes) \in Nat \ {0}
        /\ \A h, i \in 1..Len(nodes) :
              nodes[h].rel = nodes[i].rel =>
                  h = i \/ nodes[h].kind = "error" \/ nodes[i].kind = "error"
        /\ \A i \in 1..Len(nodes) :
              /\ nodes[i].kind \in {"dir", "link", "file", "error"}
              /\ nodes[i].rel \in Seq(DOMAIN Chars)
              /\ nodes[i].rel # <<>> =>
                    \E h \in 1..(i - 1) :
                        nodes[h].kind = "dir" /\ nodes[h].rel = Parent(nodes[i].rel)

(* Destinations are spelled with known names and "..", in the list and in  *)
(* what is left of the path of a match (internal/glob/glob.go).            *)
Names == DOMAIN Chars

ASSUME NamesAssumption ==
    /\ UP \notin Names
    /\ \A c \in Contents :
          /\ c.dst \in Seq(Names \cup {UP})
          /\ c.type \in FileTypes \cup {""} =>
                \A m \in Matches[c.src].files :
                    m.base \in Names /\ m.rel \in Seq(Names \cup {UP})

isRelevantForPackager(c) ==
    \/ Packager = ""
    \/ /\ c.packager \in {"", Packager}
       /\ c.type \in RpmTypes => Packager = "rpm"
       /\ c.type = "debian changelog" => Packager = "deb"

NoSource == "no source"

(* Mutant: the default owner of WithFileInfoDefaults is forgotten. *)
OwnerKept(owner) == owner

OwnerOrRoot(owner) == IF owner = "" THEN "root" ELSE owner

Entry(type, owner, src) ==
    [type |-> type, owner |-> OwnerOrRoot(owner), src |-> src]

-----------------------------------------------------------------------------
(***************************************************************************)
(* addParents.  owner is "" for the callers that pass no file info.        *)
(***************************************************************************)
ParentBlocked(dst) ==
    \E p \in ParentPaths(dst) :
        DirKey(p) \in DOMAIN table /\ table[DirKey(p)].type \notin DirTypes

(* Mutants: only the nearest parent is made; a parent made before is made  *)
(* again.                                                                  *)
WithNearestParent(dst, owner) ==
    LET key == DirKey(Parent(CleanAbs(dst)))
    IN [k \in DOMAIN table \cup {key} |->
          IF k \in DOMAIN table THEN table[k] ELSE Entry("implicit dir", owner, NoSource)]

WithParentsRemade(dst, owner) ==
    [k \in DOMAIN table \cup {DirKey(p) : p \in ParentPaths(dst)} |->
        IF k \in DOMAIN table /\ table[k].type # "implicit dir" THEN table[k]
        ELSE IF ~(k.dir /\ k.path \in ParentPaths(dst)) THEN table[k]
        ELSE Entry("implicit dir",
                   IF k.path \in FsOwned THEN "" ELSE owner, NoSource)]

WithParents(dst, owner) ==
    [k \in DOMAIN table \cup {DirKey(p) : p \in ParentPaths(dst)} |->
        IF k \in DOMAIN table THEN table[k]
        ELSE Entry("implicit dir",
                   IF k.path \in FsOwned THEN "" ELSE owner, NoSource)]

Put(tab, key, entry) ==
    [k \in DOMAIN tab \cup {key} |-> IF k = key THEN entry ELSE tab[k]]

(* Mutant: nothing collides with what is in the table. *)
OccupiedNever(key) == FALSE

Occupied(key) == key \in DOMAIN table

(* Mutant: a directory collides with an implicit one too. *)
OccupiedAtAll(key) == key \in DOMAIN table

OccupiedExplicitly(key) ==
    key \in DOMAIN table /\ table[key].type # "implicit dir"

-----------------------------------------------------------------------------
Current == contents[next]

(* The head of the loop: an entry that is relevant for the packager. *)
Handling(types) ==
    /\ pc = "next"
    /\ next <= Len(contents)
    /\ isRelevantForPackager(Current)
    /\ Current.type \in types

Fail == pc' = "error" /\ UNCHANGED <<contents, next, pending, node, table, position>>

Store(newTable) ==
    /\ table' = newTable
    /\ next' = next + 1
    /\ UNCHANGED <<contents, pc, pending, node, position>>

(* continue, and the empty case for implicit directories. *)
Skip ==
    /\ pc = "next"
    /\ next <= Len(contents)
    /\ isRelevantForPackager(Current) => Current.type = "implicit dir"
    /\ Store(table)

AddDir ==
    LET c == Current  key == DirKey(CleanAbs(c.dst)) IN
    /\ Handling({"dir"})
    /\ IF OccupiedExplicitly(key) \/ ParentBlocked(c.dst)
       THEN Fail
       ELSE Store(Put(WithParents(c.dst, ""), key, Entry("dir", c.owner, c.src)))

AddAsIs ==
    LET c == Current  key == FileKey(CleanAbs(c.dst)) IN
    /\ Handling(AsIsTypes)
    /\ IF Occupied(key) \/ ParentBlocked(c.dst)
       THEN Fail
       ELSE Store(Put(WithParents(c.dst, ""), key, Entry(c.type, c.owner, c.src)))

InvalidType ==
    /\ Handling({Current.type} \ (AsIsTypes \cup DirTypes \cup FileTypes
                                   \cup TreeTypes \cup {""}))
    /\ Fail

-----------------------------------------------------------------------------
(***************************************************************************)
(* glob.Glob followed by addGlobbedFiles.                                  *)
(***************************************************************************)
Glob ==
    /\ Handling(FileTypes \cup {""})
    /\ IF Matches[Current.src].fails
       THEN Fail
       ELSE /\ pc' = "glob"
            /\ pending' = Matches[Current.src].files
            /\ UNCHANGED <<contents, next, node, table, position>>

(* Where a match goes: a destination with a trailing slash flattens the    *)
(* tree below the common prefix, any other one keeps it.                   *)
GlobDestination(c, m) ==
    CleanAbs(c.dst \o (IF c.slash THEN <<m.base>> ELSE m.rel))

GlobType(c, m) ==
    IF m.link THEN "symlink" ELSE IF c.type = "" THEN "file" ELSE c.type

AddGlobbed(m) ==
    LET c == Current  dst == GlobDestination(c, m) IN
    /\ pc = "glob"
    /\ m \in pending
    /\ IF Occupied(FileKey(dst)) \/ ParentBlocked(dst)
       THEN Fail
       ELSE /\ table' = Put(WithParents(dst, c.owner), FileKey(dst),
                            Entry(GlobType(c, m), c.owner, m.src))
            /\ pending' = pending \ {m}
            /\ UNCHANGED <<contents, next, pc, node, position>>

EndGlob ==
    /\ pc = "glob"
    /\ pending = {}
    /\ pc' = "next"
    /\ next' = next + 1
    /\ UNCHANGED <<contents, pending, node, table, position>>

-----------------------------------------------------------------------------
(***************************************************************************)
(* addTree.                                                                *)
(***************************************************************************)
BeginTree ==
    LET c == Current IN
    /\ Handling(TreeTypes)
    /\ IF \/ c.dst # <<>> /\ OccupiedExplicitly(DirKey(CleanAbs(c.dst)))
          \/ ParentBlocked(c.dst)
       THEN Fail
       ELSE /\ pc' = "walk"
            /\ node' = 1
            /\ table' = WithParents(c.dst, c.owner)
            /\ UNCHANGED <<contents, next, pending, position>>

NodePath(c, n) == CleanAbs(c.dst) \o n.rel

(* Mutants: every node is keyed like a file; every node but a file is      *)
(* keyed like a directory.                                                 *)
NodeKeyFile(c, n) == FileKey(NodePath(c, n))

NodeKeyLinkDir(c, n) ==
    IF n.kind # "file" THEN DirKey(NodePath(c, n)) ELSE FileKey(NodePath(c, n))

NodeKey(c, n) ==
    IF n.kind = "dir" THEN DirKey(NodePath(c, n)) ELSE FileKey(NodePath(c, n))

NodeType(c, n) ==
    CASE n.kind = "dir" ->
            IF NodePath(c, n) \in c.disown \cup FsOwned
            THEN "implicit dir" ELSE "dir"
      [] n.kind = "link" -> "symlink"
      [] OTHER -> TreeFileType[c.type]

NodeEntry(c, n) ==
    Entry(NodeType(c, n),
          IF NodePath(c, n) \in FsOwned THEN "" ELSE c.owner,
          IF n.kind = "dir" THEN NoSource ELSE n.src)

WalkNode ==
    LET c == Current  n == TreeOf[c.src][node] IN
    /\ pc = "walk"
    /\ node <= Len(TreeOf[c.src])
    /\ \/ /\ n.rel = <<>> /\ c.dst = <<>>
          /\ node' = node + 1
          /\ UNCHANGED <<contents, next, pc, pending, table, position>>
       \/ /\ ~(n.rel = <<>> /\ c.dst = <<>>)
          /\ n.kind = "error"
          /\ Fail
       \/ /\ ~(n.rel = <<>> /\ c.dst = <<>>)
          /\ n.kind # "error"
          /\ table' = Put(table, NodeKey(c, n), NodeEntry(c, n))
          /\ node' = node + 1
          /\ UNCHANGED <<contents, next, pc, pending, position>>

EndTree ==
    /\ pc = "walk"
    /\ node > Len(TreeOf[Current.src])
    /\ pc' = "next"
    /\ next' = next + 1
    /\ UNCHANGED <<contents, pending, node, table, position>>

-----------------------------------------------------------------------------
(***************************************************************************)
(* The sort of the result (Contents.Less).  Destinations are compared as   *)
(* strings; they are the keys of the table, so Less never gets to compare  *)
(* the types.                                                              *)
(***************************************************************************)
Slash == 2

(* A name is what is between two slashes. *)
ASSUME CharsAssumption ==
    /\ \A c \in Names : Chars[c] \in Seq(Nat \ {Slash}) /\ Chars[c] # <<>>
    /\ \A c, d \in Names : Chars[c] = Chars[d] => c = d

SpellingUpTo(p) ==
    LET upTo[n \in 0..Len(p)] ==
          IF n = 0 THEN <<>> ELSE upTo[n - 1] \o <<Slash>> \o Chars[p[n]]
    IN upTo

Spelling(k) ==
    SpellingUpTo(k.path)[Len(k.path)]
        \o (IF k.dir \/ k.path = <<>> THEN <<Slash>> ELSE <<>>)
        \o (IF k.dir /\ k.path = <<>> THEN <<Slash>> ELSE <<>>)

(* Mutant: the longer destination first. *)
LessReversed(j, k) == StringLess(Spelling(k), Spelling(j))

Less(j, k) == StringLess(Spelling(j), Spelling(k))

Finish ==
    /\ pc = "next"
    /\ next > Len(contents)
    /\ pc' = "done"
    /\ position' = [k \in DOMAIN table |->
                       1 + Cardinality({j \in DOMAIN table : Less(j, k)})]
    /\ UNCHANGED <<contents, next, pending, node, table>>

-----------------------------------------------------------------------------
Init ==
    /\ contents \in Inputs
    /\ next = 1
    /\ pc = "next"
    /\ pending = {}
    /\ node = 1
    /\ table = [k \in {} |-> NoSource]
    /\ position = [k \in {} |-> 0]

Next ==
    \/ Skip \/ AddDir \/ AddAsIs \/ InvalidType
    \/ Glob \/ (\E m \in pending : AddGlobbed(m)) \/ EndGlob
    \/ BeginTree \/ WalkNode \/ EndTree
    \/ Finish

Spec == Init /\ [][Next]_vars
===============================================================================
