------------------------ MODULE MCRepeatedPreparation ------------------------
(***************************************************************************)
(* RepeatedPreparation on lists of up to three contents.  Every file a    *)
(* first preparation can come upon is a source of its own for the second   *)
(* one: a path without matchers globs to itself.                           *)
(***************************************************************************)
EXTENDS RepeatedPreparation, TLC

a   == "a"
b   == "b"
usr == "usr"

MCUp      == ".."
MCChars   == (a :> <<3>>) @@ (b :> <<4>>) @@ (usr :> <<5>>)
MCFsOwned == {<<usr>>}

Match(src, rel, base, link) ==
    [src |-> src, rel |-> rel, base |-> base, link |-> link]

Found(files) == [fails |-> FALSE, files |-> files]

Itself(src, base) == Found({Match(src, <<>>, base, FALSE)})

MCMatches ==
    [glob |-> Found({Match("f1", <<b>>, b, FALSE), Match("l1", <<a, b>>, b, TRUE)}),
     f1   |-> Itself("f1", b),
     f2   |-> Itself("f2", a),
     f3   |-> Itself("f3", b)]

Node(rel, kind, src) == [rel |-> rel, kind |-> kind, src |-> src]

MCTreeOf ==
    [full  |-> <<Node(<<>>, "dir", "d"), Node(<<a>>, "dir", "da"),
                 Node(<<a, a>>, "file", "f2"), Node(<<b>>, "link", "l2")>>,
     empty |-> <<Node(<<>>, "dir", "e"), Node(<<b>>, "dir", "eb")>>]

Content(type, src, dst) ==
    [type |-> type, src |-> src, dst |-> dst, slash |-> FALSE, owner |-> "",
     packager |-> "", disown |-> {}]

Pool ==
    {Content("dir", NoSource, <<a>>),
     [Content("file", "glob", <<a>>) EXCEPT !.owner = "alice"],
     Content("config", "f3", <<b, b>>),
     Content("tree", "full", <<a>>),
     [Content("config|tree", "full", <<usr>>) EXCEPT !.owner = "bob", !.disown = {<<usr, a>>}],
     [Content("tree", "empty", <<a>>) EXCEPT !.disown = {<<a, b>>}],
     Content("symlink", "target", <<a, usr>>),
     Content("debian changelog", "log", <<b, usr>>)}

(* At a path where a node of a tree may be, too. *)
MCChangelog == Content("debian changelog", NoSource, <<usr, b>>)

MCInputs == UNION {[1..n -> Pool] : n \in 1..3}

(* With what a first preparation makes of them, and a further one of that. *)
Again(C) ==
    C \cup UNION {{AsContent(cl.key, cl.entry) : cl \in Claims(c)} : c \in C}
      \cup UNION {{AsContent(k, Entry("implicit dir", ParentOwner(c, k), NoSource)) :
                      k \in Needs(c)} : c \in C}

AllContents == Again(Again(Pool \cup {MCChangelog}))

MCContents == AllContents
===============================================================================
