-------------------------- MODULE MCPrepareContents --------------------------
(***************************************************************************)
(* A small instance of PrepareContents: every list of up to three contents *)
(* from a pool that puts files, directories, trees and links at paths that *)
(* meet.                                                                   *)
(***************************************************************************)
EXTENDS GlobbedContents, TLC

LOCAL INSTANCE FiniteSetsExt

CONSTANTS
    MaxContents,  \* the length of the lists
    MaxMatches,   \* the number of paths a glob of its own finds
    MaxPath       \* the length of the destinations the path arithmetic is checked on

a   == "a"
am  == "a-"       \* sorts before "a/"
b   == "b"
dot == ".b"       \* sorts before any name that begins with a letter or "/"
usr == "usr"

MCUp == ".."

MCChars == (dot :> <<1, 4>>) @@ (a :> <<3>>) @@ (am :> <<3, 1>>) @@ (b :> <<4>>) @@ (usr :> <<5>>)

MCFsOwned == {<<usr>>}

(* What the sources find on the host. *)
Match(src, path, dir, link) == [src |-> src, path |-> path, dir |-> dir, link |-> link]

Found(matches) == [exists |-> FALSE, pattern |-> <<>>, matches |-> matches]

Literal(path, matches) == [exists |-> TRUE, pattern |-> path, matches |-> matches]

NamedGlobs ==
    [one     |-> Literal(<<a, b>>, {Match("one", <<a, b>>, FALSE, FALSE)}),
     some    |-> Found({Match("s1", <<a, b>>, FALSE, FALSE),
                        Match("s2", <<a, am, b>>, FALSE, TRUE)}),
     whole   |-> Literal(<<a>>, {Match("w1", <<a, b>>, FALSE, FALSE),
                                 Match("w2", <<a, am, b>>, FALSE, FALSE)}),
     onlydir |-> Literal(<<a>>, {Match("d", <<a>>, TRUE, FALSE)}),
     nothing |-> Found({})]

(* And, under its own name, every set of up to three paths; those with a   *)
(* path below them are directories.                                        *)
Paths == UNION {[1..n -> {a, am, b}] : n \in 1..2}

PathSets == UNION {kSubset(n, Paths) : n \in 1..MaxMatches}

GlobOf(S) ==
    Found({Match(ToString(path), path, \E p \in S : Len(p) > 1 /\ Parent(p) = path, FALSE) :
             path \in S})

PathGlobs ==
    [name \in {ToString(S) : S \in PathSets} |->
        GlobOf(CHOOSE S \in PathSets : ToString(S) = name)]

AllGlobs == NamedGlobs @@ PathGlobs

MCGlobs == AllGlobs

(* LET, @@ and a definition of its own have TLC compute this only once. *)
AllMatches ==
    LET globs == AllGlobs IN [name \in DOMAIN globs |-> G!Glob(globs[name])] @@ <<>>

MCMatches == AllMatches

Node(rel, kind, src) == [rel |-> rel, kind |-> kind, src |-> src]

MCTreeOf ==
    [t1     |-> <<Node(<<>>, "dir", "t1"), Node(<<am>>, "dir", "t1m"),
                  Node(<<am, b>>, "file", "t1mb"), Node(<<b>>, "link", "t1b")>>,
     t2     |-> <<Node(<<>>, "dir", "t2"), Node(<<usr>>, "dir", "t2u"),
                  Node(<<b>>, "dir", "t2b")>>,
     tlink  |-> <<Node(<<>>, "link", "tl")>>,
     broken |-> <<Node(<<>>, "dir", "tb"), Node(<<b>>, "error", "tbb")>>,
     absent |-> <<Node(<<>>, "error", "ta")>>]

Content(type, src, dst) ==
    [type |-> type, src |-> src, dst |-> dst, slash |-> FALSE, owner |-> "",
     packager |-> "", disown |-> {}]

Pool ==
    {Content("dir", NoSource, <<a>>),
     [Content("dir", NoSource, <<a, b>>) EXCEPT !.owner = "alice"],
     Content("", "one", <<a, b>>),
     [Content("config", "some", <<a>>) EXCEPT !.owner = "alice"],
     [Content("file", "some", <<a>>) EXCEPT !.slash = TRUE],
     Content("file", "onlydir", <<b>>),
     Content("config|missingok", "nothing", <<b>>),
     Content("tree", "t1", <<a>>),
     [Content("config|tree", "t1", <<>>) EXCEPT !.owner = "alice", !.disown = {<<am>>}],
     [Content("tree", "t2", <<>>) EXCEPT !.owner = "bob"],
     Content("config|noreplace|tree", "tlink", <<a>>),
     Content("tree", "absent", <<>>),
     Content("config|missingok|tree", "broken", <<usr>>),
     Content("symlink", "target", <<MCUp, a, b, usr>>),
     Content("symlink", "target", <<am>>),
     Content("ghost", NoSource, <<a>>),
     [Content("config|noreplace", "one", <<a, b>>) EXCEPT !.packager = "rpm"],
     Content("implicit dir", NoSource, <<b>>),
     Content("bogus", NoSource, <<b>>)}

(* Every destination of up to MaxPath components, one at a time. *)
Links ==
    {<<Content("symlink", "target", dst)>> :
        dst \in UNION {[1..n -> {a, b, MCUp}] : n \in 1..MaxPath}}

PathContents == {<<Content("file", name, <<b>>)>> : name \in DOMAIN AllGlobs}

(* The root directory and what may be listed beside it. *)
Tops ==
    {<<Content("dir", NoSource, <<>>), Content("symlink", "target", <<dot>>)>>,
     <<Content("dir", NoSource, <<dot, dot>>), Content("dir", NoSource, <<>>),
       Content("symlink", "target", <<a>>)>>,
     <<Content("symlink", "target", <<>>), Content("dir", NoSource, <<>>)>>}

AllInputs ==
    UNION {[1..n -> Pool] : n \in 1..MaxContents} \cup Links \cup PathContents \cup Tops

MCInputs == AllInputs

AllContents ==
    Pool \cup {l[1] : l \in Links \cup PathContents}
         \cup UNION {{l[i] : i \in DOMAIN l} : l \in Tops}

MCContents == AllContents
===============================================================================
