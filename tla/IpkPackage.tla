------------------------------ MODULE IpkPackage ------------------------------
(***************************************************************************)
(* (IPK).Package (ipk/ipk.go, ipk/tar.go): a tarball of the contents, a    *)
(* tarball of control files made from it, and one that holds both.  All    *)
(* are made in memory and given to the caller's writer in one call.        *)
(*                                                                         *)
(* The name of a field is the name in lower case and whether it is spelled *)
(* as the packager spells it.                                              *)
(***************************************************************************)
EXTENDS HostFiles, TarStream, FiniteSets

CONSTANTS
    Inputs,     \* the lists of prepared contents
    Settings,   \* the other fields of the Info that matter here
    KiB         \* the unit of Installed-Size: 1024, and 2 where lengths are small

VARIABLES
    contents,   \* info.Contents after the preparation
    settings,
    pc,         \* "start", "data", "control", "write", then "done" or "failed"
    next,       \* the content populateDataTar is at
    tar,        \* the data tarball
    totalSize,  \* instSize
    meta,       \* the control tarball: what its members say
    output      \* what has reached the caller's writer: "none", "part", "all"

vars == <<contents, settings, host, touches, pc, next, tar, totalSize, meta, output>>

input == <<contents, settings>>
built == <<next, tar, totalSize, meta>>

ConfigTypes == {"config", "config|noreplace", "config|missingok"}
FileTypes   == ConfigTypes \cup {"file"}

Fail == pc' = "failed" /\ UNCHANGED <<built, output>>

(* controlFields, or enough of them: one the template always writes, one   *)
(* it writes if it is not zero, and one opkg reserves for itself.          *)
ControlFields == {"version", "installed-size", "filename"}

(* What stripDisallowedFields leaves of the user's fields. *)
Allowed(fields) == {f \in fields : f.name \notin ControlFields}

(* The preparation finds out if a file is missing; the user's fields are   *)
(* stripped in the Info itself.                                            *)
Start ==
    /\ pc = "start"
    /\ IF \A i \in DOMAIN contents :
             contents[i].type \in FileTypes => Exists(contents[i].src)
       THEN pc' = "data" /\ settings' = [settings EXCEPT !.fields = Allowed(@)]
       ELSE pc' = "failed" /\ UNCHANGED settings
    /\ UNCHANGED <<contents, host, touches, built, output>>

-----------------------------------------------------------------------------
Member(dst, kind, body) == [dst |-> dst, kind |-> kind, body |-> body]

(* populateDataTar for a directory or a symlink. *)
AddWithoutBody(c) ==
    LET kind == IF c.type = "symlink" THEN "link" ELSE "dir" IN
    /\ c.type \in {"dir", "implicit dir", "symlink"}
    /\ tar' = WithMember(tar, Member(c.dst, kind, Gone), 0, 0)
    /\ next' = next + 1
    /\ UNCHANGED <<pc, totalSize, meta>>

(* Mutant: the size of a configuration file is not added up. *)
AddFileUncounted(c) ==
    /\ c.type \in FileTypes
    /\ IF Exists(c.src)
       THEN /\ tar' = WithMember(tar, Member(c.dst, "file", host[c.src]), Bytes(c.src), Bytes(c.src))
            /\ totalSize' = IF c.type = "file" THEN totalSize + Bytes(c.src) ELSE totalSize
            /\ next' = next + 1
            /\ UNCHANGED <<pc, meta>>
       ELSE pc' = "failed" /\ UNCHANGED built

(* writeFile reads the file to its end before it writes the header, so the *)
(* size is that of the bytes.                                              *)
AddFile(c) ==
    /\ c.type \in FileTypes
    /\ IF Exists(c.src)
       THEN /\ tar' = WithMember(tar, Member(c.dst, "file", host[c.src]), Bytes(c.src), Bytes(c.src))
            /\ totalSize' = totalSize + Bytes(c.src)
            /\ next' = next + 1
            /\ UNCHANGED <<pc, meta>>
       ELSE pc' = "failed" /\ UNCHANGED built

AddContent ==
    /\ pc = "data"
    /\ IF next <= Len(contents)
       THEN AddWithoutBody(contents[next]) \/ AddFile(contents[next])
       ELSE pc' = "control" /\ UNCHANGED built
    /\ UNCHANGED <<input, host, touches, output>>

-----------------------------------------------------------------------------
Conffiles ==
    {contents[i].dst : i \in {j \in DOMAIN contents : contents[j].type \in ConfigTypes}}

InstalledSize == totalSize \div KiB

(* The fields renderControl writes of its own. *)
Generated == {"version"} \cup (IF InstalledSize > 0 THEN {"installed-size"} ELSE {})

(* populateControlTar; the scripts are files of the host. *)
PopulateControl ==
    /\ pc = "control"
    /\ IF \A s \in settings.scripts : Exists(s)
       THEN /\ meta' = [generated |-> Generated, fields |-> settings.fields,
                        installedSize |-> InstalledSize, conffiles |-> Conffiles,
                        scripts |-> [s \in settings.scripts |-> host[s]]]
            /\ pc' = "write"
            /\ UNCHANGED <<next, tar, totalSize, output>>
       ELSE Fail
    /\ UNCHANGED <<input, host, touches>>

(* The one call of the caller's writer, which may take a part and fail. *)
Write ==
    /\ pc = "write"
    /\ \/ pc' = "done" /\ output' = "all"
       \/ pc' = "failed" /\ output' \in {"none", "part"}
    /\ UNCHANGED <<input, host, touches, built>>

-----------------------------------------------------------------------------
Meanwhile ==
    /\ pc \notin {"done", "failed"}
    /\ Touch
    /\ UNCHANGED <<input, pc, built, output>>

Init ==
    /\ contents \in Inputs
    /\ settings \in Settings
    /\ HostInit
    /\ pc = "start"
    /\ next = 1
    /\ tar = EmptyTar
    /\ totalSize = 0
    /\ meta = <<>>
    /\ output = "none"

Package == Start \/ AddContent \/ PopulateControl \/ Write

Next == Package \/ Meanwhile

Spec == Init /\ [][Next]_vars

-----------------------------------------------------------------------------
SizeOf(member) == IF member.kind = "file" THEN Length[member.body] ELSE 0

SumOfLengths(members) == Total([i \in DOMAIN members |-> SizeOf(members[i])])

KindOf(type) ==
    CASE type \in FileTypes -> "file" [] type = "symlink" -> "link" [] OTHER -> "dir"

AfterControl == pc \in {"write", "done"}

(* The control file and the data tarball agree: Installed-Size is the size *)
(* of what is in the tarball, and every conffile is a file of it, although *)
(* the files change between the preparation, the data and the control.  No *)
(* content is lost, moved or turned into something else on the way, even   *)
(* if its file vanished.  And "if any values in user supplied Fields are   *)
(* found to be duplicates of the above fields, they will be stripped out"  *)
(* (ipk.go:361): no field is there twice, however the user spells it.      *)
DescribesItself ==
    AfterControl =>
        /\ meta.installedSize = SumOfLengths(tar.members) \div KiB
        /\ \A dst \in meta.conffiles :
              \E i \in DOMAIN tar.members :
                  tar.members[i].dst = dst /\ tar.members[i].kind = "file"
        /\ Len(tar.members) = Len(contents)
        /\ \A i \in DOMAIN contents :
              /\ tar.members[i].dst = contents[i].dst
              /\ tar.members[i].kind = KindOf(contents[i].type)
        /\ \A f \in meta.fields : f.name \notin meta.generated
===============================================================================
