------------------------------- MODULE Globbing ------------------------------
(***************************************************************************)
(* What becomes of the files a glob finds (internal/glob/glob.go): each    *)
(* keeps the part of its path that follows a prefix common to all of them. *)
(* The prefix is found character by character and so may end in the middle *)
(* of a name; everything else goes by components.                          *)
(*                                                                         *)
(* A glob is what the host says of its pattern: whether the pattern itself *)
(* exists, as a path without matchers, and what it matches.                *)
(***************************************************************************)
EXTENDS SequencesExt

CONSTANTS
    UP,     \* the component ".."
    Chars   \* the spelling of each component, as numbers other than Separator

Separator == 2

TextUpTo(path) ==
    LET upTo[n \in 0..Len(path)] ==
          IF n = 0 THEN <<>>
          ELSE upTo[n - 1] \o (IF n = 1 THEN <<>> ELSE <<Separator>>) \o Chars[path[n]]
    IN upTo

Text(path) == TextUpTo(path)[Len(path)]

(* Mutant: the prefix is taken as it is. *)
DirUncut(text) == text

(* filepath.Dir: up to the last separator. *)
Dir(text) ==
    SubSeq(text, 1, Max({0} \cup {n - 1 : n \in {k \in DOMAIN text : text[k] = Separator}}))

(* One string after the other is compared with what is common so far. *)
longestCommonPrefix(paths) == LongestCommonPrefix({Text(path) : path \in paths})

Prefix(glob) ==
    IF glob.exists THEN Text(glob.pattern)
    ELSE Dir(longestCommonPrefix({m.path : m \in glob.matches}))

(* filepath.Rel of a path and a prefix of its text: what follows the       *)
(* components that are complete in the prefix, after a step back if the    *)
(* prefix ends within the next one.                                        *)
Rel(prefix, path) ==
    LET Length(n) == Len(Text(SubSeq(path, 1, n)))
        complete == Max({n \in 0..Len(path) : IsPrefix(Text(SubSeq(path, 1, n)), prefix)})
        partly == Len(prefix) > Length(complete) + (IF complete = 0 THEN 0 ELSE 1)
    IN (IF partly THEN <<UP>> ELSE <<>>) \o SubSeq(path, complete + 1, Len(path))

(* Directories are matched too, and left out. *)
Glob(glob) ==
    [fails |-> glob.matches = {},
     files |-> {[src |-> m.src, link |-> m.link,
                 base |-> Last(m.path),
                 rel |-> Rel(Prefix(glob), m.path)] : m \in {k \in glob.matches : ~k.dir}}]
==============================================================================
