------------------------- MODULE PrepareContentsSpec -------------------------
(***************************************************************************)
(* What PrepareContents promises.  The reference definitions below say     *)
(* what a list of contents means without saying in which order it is       *)
(* worked off: which keys each content claims, which claim wins, and which *)
(* lists are refused.  They are not a model of code.                       *)
(***************************************************************************)
EXTENDS PrepareContents

Owner == {"root"} \cup {c.owner : c \in Contents}

IsGlob(c) == c.type \in FileTypes \cup {""}

IsTree(c) == c.type \in TreeTypes

(* What a tree contributes; at the root of the package its own root does   *)
(* not count.                                                              *)
Nodes(c) ==
    {n \in {TreeOf[c.src][i] : i \in 1..Len(TreeOf[c.src])} :
        ~(n.rel = <<>> /\ c.dst = <<>>)}

Claim(key, entry) == [key |-> key, entry |-> entry]

(* The keys content c asks for, each with the entry it asks for. *)
Claims(c) ==
    IF ~isRelevantForPackager(c) \/ c.type = "implicit dir" THEN {}
    ELSE IF IsGlob(c)
    THEN {Claim(FileKey(GlobDestination(c, m)), Entry(GlobType(c, m), c.owner, m.src)) :
            m \in Matches[c.src].files}
    ELSE IF IsTree(c)
    THEN {Claim(NodeKey(c, n), NodeEntry(c, n)) : n \in Nodes(c)}
    ELSE {Claim(IF c.type = "dir" THEN DirKey(CleanAbs(c.dst)) ELSE FileKey(CleanAbs(c.dst)),
                Entry(c.type, c.owner, c.src))}

(* The directories content c needs without asking for them. *)
Needs(c) ==
    IF ~isRelevantForPackager(c) \/ c.type = "implicit dir" THEN {}
    ELSE UNION {{DirKey(p) : p \in ParentPaths(d)} :
                   d \in IF IsGlob(c) THEN {GlobDestination(c, m) : m \in Matches[c.src].files}
                         ELSE {c.dst}}

ParentOwner(c, key) ==
    IF (IsGlob(c) \/ IsTree(c)) /\ key.path \notin FsOwned THEN c.owner ELSE ""

Claimants(list, key) ==
    {i \in 1..Len(list) : \E cl \in Claims(list[i]) : cl.key = key}

LastOf(S)  == CHOOSE i \in S : \A j \in S : j <= i
FirstOf(S) == CHOOSE i \in S : \A j \in S : i <= j

ClaimOf(c, key) == (CHOOSE cl \in Claims(c) : cl.key = key).entry

(* The table a list stands for: a claim beats a need, the last claim beats *)
(* the earlier ones, the first need decides who owns an implicit directory.*)
Meaning(list) ==
    LET Index == 1..Len(list)
        claimed == UNION {{cl.key : cl \in Claims(list[i])} : i \in Index}
        needed  == UNION {Needs(list[i]) : i \in Index}
    IN [k \in claimed \cup needed |->
          IF k \in claimed
          THEN ClaimOf(list[LastOf(Claimants(list, k))], k)
          ELSE Entry("implicit dir",
                     ParentOwner(list[FirstOf({i \in Index : k \in Needs(list[i])})], k),
                     NoSource)]

(* Whether the host refuses content c: no match, an unreadable node, or a  *)
(* type that does not exist.                                               *)
HostRefuses(c) ==
    /\ isRelevantForPackager(c)
    /\ \/ IsGlob(c) /\ Matches[c.src].fails
       \/ IsTree(c) /\ \E n \in Nodes(c) : n.kind = "error"
       \/ c.type \notin EntryTypes \cup TreeTypes \cup {""}

(* Whether content c cannot be added to what the list before it stands     *)
(* for.  Files collide with anything at their destination, directories and *)
(* the root of a tree with explicit directories only; the nodes below the  *)
(* root of a tree collide with nothing.                                    *)
Clashes(before, c) ==
    LET tab == Meaning(before)
        taken(k) == k \in DOMAIN tab
        explicit(k) == taken(k) /\ tab[k].type # "implicit dir"
    IN IF IsTree(c)
       THEN Claims(c) # {} /\ c.dst # <<>> /\ explicit(DirKey(CleanAbs(c.dst)))
       ELSE \/ \E cl \in Claims(c) :
                  IF cl.key.dir THEN explicit(cl.key) ELSE taken(cl.key)
            \/ IsGlob(c) /\ isRelevantForPackager(c)
               /\ \E m1, m2 \in Matches[c.src].files :
                     m1 # m2 /\ GlobDestination(c, m1) = GlobDestination(c, m2)

(* The first content that is refused, or the end of the list. *)
Accepts(list, i) ==
    ~HostRefuses(list[i]) /\ ~Clashes(Prefix(list, i - 1), list[i])

FirstRefused(list) ==
    FirstOf({Len(list) + 1} \cup {i \in 1..Len(list) : ~Accepts(list, i)})

-----------------------------------------------------------------------------
(* Types of the variables: every entry of the table has a final type, a    *)
(* real owner, and a key of the form the code normalises to.               *)
TypeOK ==
    /\ contents \in Seq(Contents)
    /\ next \in Nat
    /\ node \in Nat
    /\ pc \in {"next", "glob", "walk", "done", "error"}
    /\ \A k \in DOMAIN table :
          /\ k.dir \in BOOLEAN
          /\ table[k].type \in EntryTypes
          /\ table[k].owner \in Owner \ {""}
    /\ DOMAIN position \subseteq DOMAIN table

(* A key with a trailing slash always holds a directory and a key without  *)
(* one never does, whatever mixture of files, trees and directories was    *)
(* added: the packagers decide by the type alone how to write a member.    *)
KeyFormMatchesType ==
    \A k \in DOMAIN table : k.dir = TRUE <=> table[k].type \in DirTypes

(* At every moment the directory above every entry is in the table too, so *)
(* the result never asks a package manager to create something in a        *)
(* directory the package does not bring.  In the middle of a walk this     *)
(* rests on WalkDir visiting a directory before what is in it.             *)
ParentsPresent ==
    \A k \in DOMAIN table :
        Parent(k.path) # <<>> => DirKey(Parent(k.path)) \in DOMAIN table

(* Nothing the user asked for disappears: an entry once made stays, and an *)
(* explicit one is only ever replaced by a node of a tree.                 *)
ClaimsSurvive ==
    [][\A k \in DOMAIN table :
          /\ k \in DOMAIN table'
          /\ table'[k] # table[k] =>
                pc = "walk" \/ table[k].type = "implicit dir"]_vars

(* Between two entries of the list the table is the one the list so far    *)
(* stands for: it depends neither on the order in which Go happens to      *)
(* iterate over the matches of a glob nor on the bookkeeping of implicit   *)
(* directories.                                                            *)
TableIsMeaning ==
    pc \in {"next", "done"} => table = Meaning(Prefix(contents, next - 1))

(* A preparation fails exactly on the lists that hold a refused content,   *)
(* at the first such content, in whatever order the matches were added.    *)
FailsWhereRefused ==
    /\ pc = "error" => next = FirstRefused(contents)
    /\ pc \in {"next", "done"} => next <= FirstRefused(contents)

Destinations == {contents[i].dst : i \in DOMAIN contents}

(* The key of a content is computed from its absolute form, its parents    *)
(* from the relative one, and a prepared key is cleaned again when it is   *)
(* prepared a second time.  They never part: cleaning twice is cleaning    *)
(* once, it does not matter whether a destination is cleaned before or     *)
(* after it is made absolute, and unless it ends in ".." itself no other   *)
(* directory is made but, for one that climbs out of the root, the root.   *)
PathsAgree ==
    \A dst \in Destinations :
        /\ CleanAbs(CleanAbs(dst)) = CleanAbs(dst)
        /\ CleanAbs(CleanRel(dst)) = CleanAbs(dst)
        /\ CleanRel(CleanRel(dst)) = CleanRel(dst)
        /\ (dst = <<>> \/ dst[Len(dst)] # UP) =>
              ParentPaths(dst) \subseteq Ancestors(CleanAbs(dst)) \cup {<<>>}

(* The sorted result has no ties, so it is the same on every run, and each *)
(* directory comes before what is in it: tar readers and package managers  *)
(* create members in this order.  The root directory alone is spelled      *)
(* "//" (NormalizeAbsoluteDirPath, files/files.go:646): names that begin   *)
(* with a character that sorts before the slash come before it.            *)
ParentsFirst ==
    pc = "done" =>
        \A k \in DOMAIN table :
            LET above == DirKey(Parent(k.path)) IN
            /\ \A j \in DOMAIN table \ {k} : position[j] # position[k]
            /\ Parent(k.path) # <<>> => position[above] < position[k]
            /\ k.path # <<>> /\ above \in DOMAIN table /\ Chars[k.path[1]][1] > Slash =>
                  position[above] < position[k]

(* No content is put below an earlier one that is a file: addParents walks *)
(* up from the new content to "check for content collision"                *)
(* (files/files.go:382).                                                   *)
CollisionsFound ==
    pc = "done" =>
        \A i, j \in DOMAIN contents : i < j =>
            \A cl \in Claims(contents[i]) :
                cl.key.dir \/ DirKey(cl.key.path) \notin Needs(contents[j])
===============================================================================
