----------------------------- MODULE ContentPaths -----------------------------
(***************************************************************************)
(* The path arithmetic of files/files.go.  A path is the sequence of its   *)
(* components; the root is the empty sequence and ".." is written UP.  A   *)
(* destination as the user wrote it may contain UP; a cleaned absolute     *)
(* path never does.                                                        *)
(*                                                                         *)
(* contentMap in files.go is keyed by strings, and a directory's key ends  *)
(* in a slash that a file's key does not have.  A key is therefore a       *)
(* cleaned path together with that slash.                                  *)
(***************************************************************************)
EXTENDS Naturals, Sequences

CONSTANT UP      \* the component ".."

(* The first n components of p. *)
Prefix(p, n) == SubSeq(p, 1, n)

(* filepath.Dir of a cleaned path; the root is its own parent. *)
Parent(p) == Prefix(p, Len(p) - 1)

(* The proper ancestors of a cleaned absolute path, the root left out: the *)
(* directories that have to exist before something is created at p.        *)
Ancestors(p) == {Prefix(p, n) : n \in 1..(Len(p) - 1)}

(* filepath.Join("/", dst) for a destination dst as it was written: ".."   *)
(* removes the component before it, and nothing at the root.               *)
CleanAbsUpTo(dst) ==
    LET upTo[n \in 0..Len(dst)] ==
          IF n = 0 THEN <<>>
          ELSE IF dst[n] = UP THEN Parent(upTo[n - 1])
          ELSE Append(upTo[n - 1], dst[n])
    IN upTo

CleanAbs(dst) == CleanAbsUpTo(dst)[Len(dst)]

(* Mutant: a ".." removes the component written before it, and no other.   *)
CleanRelOnce(dst) ==
    LET upTo[n \in 0..Len(dst)] ==
          IF n = 0 THEN <<>>
          ELSE IF dst[n] = UP /\ n > 1 /\ dst[n - 1] # UP THEN Parent(upTo[n - 1])
          ELSE Append(upTo[n - 1], dst[n])
    IN upTo[Len(dst)]

(* filepath.Clean of a relative path: like CleanAbs, but a ".." with       *)
(* nothing left to remove stays.                                           *)
CleanRelUpTo(dst) ==
    LET upTo[n \in 0..Len(dst)] ==
          IF n = 0 THEN <<>>
          ELSE IF dst[n] = UP /\ upTo[n - 1] # <<>>
                  /\ upTo[n - 1][Len(upTo[n - 1])] # UP
               THEN Parent(upTo[n - 1])
          ELSE Append(upTo[n - 1], dst[n])
    IN upTo

CleanRel(dst) == CleanRelUpTo(dst)[Len(dst)]

(* sortedParents, each parent passed through NormalizeAbsoluteDirPath as   *)
(* addParents does.  The slashes around dst are trimmed, which makes it    *)
(* relative, and filepath.Dir is taken until it yields ".".                *)
ParentPaths(dst) ==
    LET rel == CleanRel(Parent(dst))
    IN {CleanAbs(Prefix(rel, n)) : n \in 1..Len(rel)}

(* < of strings, which are sequences of numbers here. *)
StringLess(s, t) ==
    \/ Len(s) < Len(t) /\ Prefix(t, Len(s)) = s
    \/ \E i \in 1..Len(s) :
        /\ i <= Len(t)
        /\ Prefix(s, i - 1) = Prefix(t, i - 1)
        /\ s[i] < t[i]

FileKey(p) == [path |-> p, dir |-> FALSE]   \* NormalizeAbsoluteFilePath
DirKey(p)  == [path |-> p, dir |-> TRUE]    \* NormalizeAbsoluteDirPath
===============================================================================
