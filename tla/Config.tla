------------------------------- MODULE Config --------------------------------
(***************************************************************************)
(* From a configuration to what each format packages (nfpm.go).            *)
(*                                                                         *)
(* Parse expands the variables in the lists of the base configuration and  *)
(* of its overrides and deletes what expands to nothing; Get merges one    *)
(* override into the base; PrepareForPackager and Validate prepare the     *)
(* contents, which everybody shares (FileInfoSharing).                     *)
(*                                                                         *)
(* One list of dependencies stands for the seven lists of a configuration. *)
(* The contents of a configuration are a set of indices, the order in the  *)
(* list being the order of the indices.  No two lists have an index in     *)
(* common: each is decoded into contents of its own.                       *)
(***************************************************************************)
EXTENDS FileInfoSharing, Sequences

CONSTANTS
    Formats,    \* the formats somebody may ask for
    Registered, \* those with a packager, which Validate goes through
    Configs,    \* the configurations: clause, depends, contents, see Init
    Value,      \* what each text expands to, spaces trimmed: "" if nothing
    Packager,   \* the packager of each content, or ""
    TypeFor     \* the only packager that takes the content's type, or ""

Base == "base"

(* Everybody who prepares contents, and what a configuration can say: the  *)
(* umask of the base is Validate's, too, and only an override has another. *)
ASSUME ConfigsAssumption ==
    /\ Actors = Formats \cup {Validate}
    /\ Validate \notin Formats
    /\ Base \notin Formats
    /\ Value \in [DOMAIN Value -> STRING]
    /\ Configs \subseteq
          [clause   : [Formats -> {"absent", "null", "given"}],
           depends  : [Formats \cup {Base} -> Seq(DOMAIN Value)],
           contents : [Formats \cup {Base} -> SUBSET Index]]
    /\ \A c \in Configs, o, p \in Formats \cup {Base} :
          o # p => c.contents[o] \cap c.contents[p] = {}
    /\ \A c \in Configs, f \in Formats :
          c.clause[f] # "given" => Umask[f] = Umask[Validate]

VARIABLES
    config,     \* the configuration as it is written
    lists,      \* the dependencies of the base and of each override
    unexpanded, \* the owners of lists that are still to be expanded
    walk,       \* where the deletion is: the owner of the list and an index
    info,       \* what Get returned for each format
    unchecked   \* the packagers Validate still has to prepare for

configVars == <<config, lists, unexpanded, walk, info, unchecked>>
vars == <<configVars, infoVars>>

NoWalk == [owner |-> Base, at |-> 0]
Parsed == unexpanded = {}

Overrides(f) == config.clause[f] = "given"

-----------------------------------------------------------------------------
(* expandEnvVars, list by list: those of the overrides in the order of a   *)
(* map, then those of the base.  A null override is skipped.               *)
Expand(owner) ==
    /\ walk = NoWalk
    /\ owner \in unexpanded
    /\ owner = Base => unexpanded = {Base}
    /\ lists' = [lists EXCEPT ![owner] = [n \in DOMAIN @ |-> Value[@[n]]]]
    /\ walk' = [owner |-> owner, at |-> 1]
    /\ UNCHANGED <<config, unexpanded, info, unchecked, infoVars>>

(* Mutant: the index moves on after a deletion, too. *)
DeleteEmptyMovingOn ==
    LET list == lists[walk.owner] IN
    /\ walk.at \in DOMAIN list
    /\ lists' = [lists EXCEPT ![walk.owner] =
                    IF list[walk.at] = ""
                    THEN SubSeq(list, 1, walk.at - 1) \o SubSeq(list, walk.at + 1, Len(list))
                    ELSE list]
    /\ walk' = [walk EXCEPT !.at = @ + 1]
    /\ UNCHANGED <<config, unexpanded, info, unchecked, infoVars>>

(* The second loop of expandEnvVarsStringSlice. *)
DeleteEmpty ==
    LET list == lists[walk.owner] IN
    /\ walk.at \in DOMAIN list
    /\ IF list[walk.at] = ""
       THEN /\ lists' = [lists EXCEPT ![walk.owner] =
                    SubSeq(list, 1, walk.at - 1) \o SubSeq(list, walk.at + 1, Len(list))]
            /\ UNCHANGED walk
       ELSE /\ walk' = [walk EXCEPT !.at = @ + 1]
            /\ UNCHANGED lists
    /\ UNCHANGED <<config, unexpanded, info, unchecked, infoVars>>

Expanded ==
    /\ walk.at > Len(lists[walk.owner])
    /\ unexpanded' = unexpanded \ {walk.owner}
    /\ walk' = NoWalk
    /\ UNCHANGED <<config, lists, info, unchecked, infoVars>>

-----------------------------------------------------------------------------
(* Get merges: a list of the override that is not empty replaces the one   *)
(* of the base.  Only with an override are the contents sorted out here.   *)
Get(f) ==
    /\ Parsed
    /\ info[f] = NoInfo
    /\ LET contents == IF Overrides(f) /\ config.contents[f] # {}
                       THEN config.contents[f] ELSE config.contents[Base]
       IN info' = [info EXCEPT ![f] =
            [depends  |-> IF Overrides(f) /\ lists[f] # <<>> THEN lists[f] ELSE lists[Base],
             contents |-> IF Overrides(f)
                          THEN {i \in contents : Packager[i] \in {"", f}} ELSE contents]]
    /\ UNCHANGED <<config, lists, unexpanded, walk, unchecked, infoVars>>

(* Mutant: the preparation trusts Get to have sorted the contents out. *)
RelevantToAll(packager, i) == TypeFor[i] \in {"", packager}

(* isRelevantForPackager *)
Relevant(packager, i) ==
    Packager[i] \in {"", packager} /\ TypeFor[i] \in {"", packager}

(* Package starts with the preparation; a source package is prepared like  *)
(* a binary rpm.                                                           *)
PreparedFor(f) == IF f = "srpm" THEN "rpm" ELSE f

Package(f) ==
    /\ info[f] # NoInfo
    /\ \A i \in Index : written[f][i] = NoInfo
    /\ handed[f] = {}
    /\ Begin(f, {i \in info[f].contents : Relevant(PreparedFor(f), i)})
    /\ UNCHANGED configVars

(* Validate prepares the contents of the base for one packager after the   *)
(* other, in the order of a map.                                           *)
ValidateFor(packager) ==
    /\ Parsed
    /\ packager \in unchecked
    /\ unchecked' = unchecked \ {packager}
    /\ Begin(Validate, {i \in config.contents[Base] : Relevant(packager, i)})
    /\ UNCHANGED <<config, lists, unexpanded, walk, info>>

Infos == (\E a \in Actors, i \in Index : Fill(a, i) \/ Stat(a, i) \/ Write(a, i))
         /\ UNCHANGED configVars

-----------------------------------------------------------------------------
Owners == {Base} \cup {f \in Formats : Overrides(f)}

Init ==
    /\ config \in Configs
    /\ lists = config.depends
    /\ unexpanded = Owners
    /\ walk = NoWalk
    /\ info = [f \in Formats |-> NoInfo]
    /\ unchecked = Registered
    /\ InfosInit

Next ==
    \/ \E owner \in Owners : Expand(owner)
    \/ DeleteEmpty
    \/ Expanded
    \/ \E f \in Formats : Get(f) \/ Package(f)
    \/ \E packager \in Registered : ValidateFor(packager)
    \/ Infos

Spec == Init /\ [][Next]_vars

-----------------------------------------------------------------------------
TypeOK ==
    /\ InfosTypeOK
    /\ config \in Configs
    /\ unexpanded \subseteq Owners
    /\ walk.owner \in Owners
    /\ walk.at \in Nat
    /\ unchecked \subseteq Registered

(***************************************************************************)
(* What the configuration asks for, read off as it is written.             *)
(***************************************************************************)
LeftUpTo(list) ==
    LET upTo[n \in 0..Len(list)] ==
          IF n = 0 THEN <<>>
          ELSE IF Value[list[n]] = "" THEN upTo[n - 1]
          ELSE Append(upTo[n - 1], Value[list[n]])
    IN upTo

Meant(owner) ==
    LET list == config.depends[owner] IN LeftUpTo(list)[Len(list)]

(* A format gets the dependencies that are left of its override's list, in *)
(* their order, or those of the base if none is left, whatever expands to  *)
(* nothing between them (nfpm.go:178-192, 147-155).                        *)
ListsAsMeant ==
    \A f \in Formats : info[f] # NoInfo =>
        info[f].depends = IF Overrides(f) /\ Meant(f) # <<>> THEN Meant(f) ELSE Meant(Base)

(* The contents of a format: its override's, else the base's, and of these *)
(* the ones that are for everyone or for it.                               *)
ContentsFor(f) ==
    {i \in IF Overrides(f) /\ config.contents[f] # {} THEN config.contents[f]
           ELSE config.contents[Base] :
        {Packager[i], TypeFor[i]} \subseteq {"", f}}

(* Each format packages its contents and nobody else's, though without an  *)
(* override Get leaves that to the preparation (nfpm.go:157-163); and what *)
(* only one format's override brings in is not touched before that format  *)
(* is packaged, not by Validate either.                                    *)
FormatPackagesItsContents ==
    /\ \A f \in Formats, i \in Index : written[f][i] # NoInfo => i \in ContentsFor(f)
    /\ \A f \in Formats : handed[f] # {} => handed[f] = ContentsFor(f)
    /\ \A i \in Index \ config.contents[Base] :
          heap[i] # Given[i] => \E f \in Formats : i \in ContentsFor(f) /\ handed[f] # {}

(* The comment at rpm.go:113-114: "a source package bundles the very       *)
(* contents that build the binary rpm", here for configurations that give  *)
(* neither of them contents of its own.                                    *)
SourceBundlesBinary ==
    \A i \in Index :
        /\ config.contents["rpm"] = {} /\ config.contents["srpm"] = {}
        /\ handed["srpm"] # {} /\ written["rpm"][i] # NoInfo
        => i \in handed["srpm"]
==============================================================================
