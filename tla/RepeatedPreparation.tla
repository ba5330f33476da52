------------------------- MODULE RepeatedPreparation -------------------------
(***************************************************************************)
(* Package called twice with one Info, as the deb packager does it.        *)
(* nfpm.PrepareForPackager (nfpm.go) stores the prepared contents back     *)
(* into the Info, so packaging the same Info a second time prepares what   *)
(* has already been prepared; if it fails it stores what it returns then,  *)
(* nothing.  The deb packager appends its changelog to the contents before *)
(* each preparation.                                                       *)
(***************************************************************************)
EXTENDS PrepareContentsSpec

CONSTANT Changelog  \* the content that is appended

VARIABLES
    round,      \* 0, then the number of the call
    first,      \* the table of the first call, empty if it failed
    changelog   \* Info.Changelog is set

rvars == <<contents, next, pc, pending, node, table, position, round, first, changelog>>

Nothing == [k \in {} |-> NoSource]

(* The place of the keys in the sorted result, inverted. *)
KeyAt(i) == CHOOSE k \in DOMAIN position : position[k] = i

(* Mutant: the owner is not kept. *)
AsContentDisowned(key, entry) ==
    [type |-> entry.type, src |-> entry.src, dst |-> key.path,
     slash |-> FALSE, owner |-> "", packager |-> "", disown |-> {}]

(* An entry of the result as a content of the next preparation.  Its file  *)
(* info is complete, so its owner is set; the packager it was restricted   *)
(* to was the one at hand.                                                 *)
AsContent(key, entry) ==
    [type |-> entry.type, src |-> entry.src, dst |-> key.path,
     slash |-> FALSE, owner |-> entry.owner, packager |-> "", disown |-> {}]

ASSUME ChangelogAssumption ==
    /\ Packager = "deb"
    /\ Changelog \in Contents
    /\ Changelog.type = "debian changelog" /\ Changelog.packager = ""

(* What a preparation makes of an accepted content can be a content again. *)
(* The path of a file that was found is a pattern which finds this file:   *)
(* there is no matcher in it.                                              *)
FindsItself(src) ==
    /\ ~Matches[src].fails
    /\ \E m \in Matches[src].files :
          Matches[src].files = {m} /\ m.src = src /\ m.rel = <<>> /\ ~m.link

ASSUME AgainAssumption ==
    \A c \in Contents : ~HostRefuses(c) =>
        /\ \A cl \in Claims(c) :
              /\ AsContent(cl.key, cl.entry) \in Contents
              /\ cl.entry.type \in FileTypes => FindsItself(cl.entry.src)
        /\ \A key \in Needs(c) :
              AsContent(key, Entry("implicit dir", ParentOwner(c, key), NoSource)) \in Contents

Returned == pc \in {"done", "error"}

(* What the Info holds when a call has returned. *)
InfoContents ==
    IF pc = "error" THEN <<>>
    ELSE [i \in 1..Cardinality(DOMAIN table) |-> AsContent(KeyAt(i), table[KeyAt(i)])]

withChangelogIfRequested(list) == IF changelog THEN Append(list, Changelog) ELSE list

(* Mutant: a second preparation gets the contents of the first. *)
PackageAfresh ==
    /\ round = 0 \/ (round = 1 /\ Returned)
    /\ round' = round + 1
    /\ first' = IF pc = "done" THEN table ELSE Nothing
    /\ contents' = IF round = 0 THEN withChangelogIfRequested(contents) ELSE contents
    /\ next' = 1 /\ node' = 1 /\ pc' = "next" /\ pending' = {}
    /\ table' = Nothing
    /\ position' = [k \in {} |-> 0]
    /\ UNCHANGED changelog

(* The call: info.Contents, err = files.PrepareForPackager(...). *)
Package ==
    /\ round = 0 \/ (round = 1 /\ Returned)
    /\ round' = round + 1
    /\ first' = IF pc = "done" THEN table ELSE Nothing
    /\ contents' = withChangelogIfRequested(IF round = 0 THEN contents ELSE InfoContents)
    /\ next' = 1 /\ node' = 1 /\ pc' = "next" /\ pending' = {}
    /\ table' = Nothing
    /\ position' = [k \in {} |-> 0]
    /\ UNCHANGED changelog

Prepare == round > 0 /\ Next /\ UNCHANGED <<round, first, changelog>>

RInit == Init /\ round = 0 /\ first = Nothing /\ changelog \in BOOLEAN

RNext == Package \/ Prepare

RSpec == RInit /\ [][RNext]_rvars

-----------------------------------------------------------------------------
ChangelogKey == FileKey(CleanAbs(Changelog.dst))

(* A second call fails exactly if the first succeeded and put a changelog  *)
(* in, which the second wants to put in again.  Otherwise it never fails:  *)
(* the result of one preparation has no collision in it, in the order it   *)
(* is sorted, and after a failure there is nothing left that could.        *)
SecondFailsOnChangelog ==
    round = 2 =>
        /\ pc = "error" => changelog /\ ChangelogKey \in DOMAIN first
        /\ pc = "done"  => ~(changelog /\ ChangelogKey \in DOMAIN first)

(* A second call that succeeds packages what the first did, each explicit  *)
(* entry the same and nothing added: after a call that failed, nothing at  *)
(* all but the changelog, whatever the user had asked for.                 *)
SecondPackagesTheFirst ==
    round = 2 /\ pc = "done" =>
        /\ \A k \in DOMAIN table :
              \/ k \in DOMAIN first
              \/ /\ changelog
                 /\ k \in {ChangelogKey} \cup {DirKey(p) : p \in ParentPaths(Changelog.dst)}
        /\ \A k \in DOMAIN first : first[k].type # "implicit dir" =>
              k \in DOMAIN table /\ table[k] = first[k]
===============================================================================
