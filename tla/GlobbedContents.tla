--------------------------- MODULE GlobbedContents ---------------------------
(***************************************************************************)
(* PrepareContents together with Globbing: what the patterns of a list     *)
(* find on the host, and where what they find ends up in the package.      *)
(***************************************************************************)
EXTENDS PrepareContentsSpec

CONSTANT Globs   \* host: what the pattern of each globbed source finds

G == INSTANCE Globbing

(* A glob source stands for the files internal/glob makes of what its      *)
(* pattern finds.  A path that exists as it is written finds itself or     *)
(* what is below it (fileglob's MatchDirectoryIncludesContents).           *)
ASSUME GlobsAssumption ==
    \A c \in {d \in Contents : IsGlob(d)} :
        LET glob == Globs[c.src] IN
        /\ Matches[c.src] = G!Glob(glob)
        /\ \A m \in glob.matches : m.path \in Seq(Names) \ {<<>>}
        /\ glob.exists =>
              /\ glob.pattern \in Seq(Names)
              /\ \A m \in glob.matches : G!IsPrefix(glob.pattern, m.path)

-----------------------------------------------------------------------------
(* The directory that holds all the matches: the deepest one above each.   *)
Holds(matches, n) ==
    \A m1, m2 \in matches : n < Len(m1.path) /\ SubSeq(m1.path, 1, n) = SubSeq(m2.path, 1, n)

BelowMatches(glob, path) ==
    LET depth == IF glob.exists THEN Len(glob.pattern)
                 ELSE CHOOSE n \in 0..Len(path) :
                        Holds(glob.matches, n) /\ ~Holds(glob.matches, n + 1)
    IN SubSeq(path, depth + 1, Len(path))

(* Globbed files keep their tree below the destination: each is where its  *)
(* path below the directory of all matches says, so none is lost, none is  *)
(* outside and none has a part of a name cut off, although the prefix is   *)
(* compared by characters (internal/glob/glob.go:79-106).                  *)
GlobsKeepTheirTree ==
    pc = "done" =>
        \A i \in DOMAIN contents :
            IsGlob(contents[i]) /\ isRelevantForPackager(contents[i]) /\ ~contents[i].slash =>
                LET glob == Globs[contents[i].src] IN
                \A m \in {k \in glob.matches : ~k.dir} :
                    FileKey(CleanAbs(contents[i].dst \o BelowMatches(glob, m.path)))
                        \in DOMAIN table
===============================================================================
