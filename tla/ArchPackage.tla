----------------------------- MODULE ArchPackage -----------------------------
(***************************************************************************)
(* (ArchLinux).Package (arch/arch.go): one tar, written through a zstd     *)
(* encoder to the caller's writer while it is made: the contents, then     *)
(* .PKGINFO, .MTREE and .INSTALL.  Nothing is buffered by the packager     *)
(* itself; the encoder holds back what it has not yet compressed and       *)
(* writes the rest when it is closed, which the code leaves to a defer.    *)
(***************************************************************************)
EXTENDS HostFiles, TarStream, FiniteSets

CONSTANTS
    Inputs,     \* the lists of prepared contents
    Settings,   \* the other fields of the Info that matter here
    Refusals    \* the steps at which the caller's writer may refuse the bytes

VARIABLES
    contents,   \* info.Contents after the preparation
    settings,
    pc,         \* "start", "files", "pkginfo", "mtree", "install", "close",
                \* then "done" or "failed"
    sizes,      \* the size of each content, as the preparation found it
    next,       \* the content createFilesInTar is at
    tar,        \* the members written so far
    entries,    \* the entries of .MTREE
    totalSize,  \* the size that goes into .PKGINFO
    encoder,    \* "clean", "pending" bytes, or "broken" by a refused write
    output      \* what has reached the caller's writer: "none", "part", "all"

vars == <<contents, settings, host, touches, pc, sizes, next, tar, entries,
          totalSize, encoder, output>>

input    == <<contents, settings, sizes>>
manifest == <<next, entries, totalSize>>

ConfigTypes == {"config", "config|noreplace", "config|missingok"}
FileTypes   == ConfigTypes \cup {"file"}

(* An error return.  The deferred Close still writes what the encoder held *)
(* back, if the caller's writer takes it.                                  *)
Fail ==
    /\ pc' = "failed"
    /\ IF encoder = "pending" THEN output' = "part" \/ ("close" \in Refusals /\ UNCHANGED output)
       ELSE UNCHANGED output
    /\ UNCHANGED <<manifest, tar, encoder>>

(* The platform and the name are checked around the preparation. *)
Start ==
    /\ pc = "start"
    /\ sizes' = [i \in DOMAIN contents |-> SizeNow(contents[i].src)]
    /\ pc' = IF /\ settings.platform = "linux"
                /\ \A i \in DOMAIN contents :
                      contents[i].type \in FileTypes => Exists(contents[i].src)
                /\ settings.nameValid
             THEN "files" ELSE "failed"
    /\ UNCHANGED <<contents, settings, host, touches, manifest, tar, encoder, output>>

(* A member goes into the encoder, which may pass some of what it holds on *)
(* to the caller's writer.  Once that has refused, every write fails.      *)
Put(member, size, length) ==
    /\ tar' = WithMember(tar, member, size, length)
    /\ \/ encoder' = "pending" /\ UNCHANGED output
       \/ encoder' = "pending" /\ output' = "part"
       \/ "write" \in Refusals /\ encoder' = "broken" /\ UNCHANGED output

CanPut == Settled(tar) /\ encoder # "broken"

-----------------------------------------------------------------------------
Member(dst, kind, body) == [dst |-> dst, kind |-> kind, body |-> body]

MtreeEntry(dst, kind, body, size) ==
    [dst |-> dst, kind |-> kind, body |-> body, size |-> size]

(* Mutant: what has no body has no entry either. *)
AddWithoutEntry(c) ==
    LET kind == IF c.type = "symlink" THEN "link" ELSE "dir" IN
    /\ c.type \in {"dir", "implicit dir", "symlink"}
    /\ IF CanPut
       THEN Put(Member(c.dst, kind, Gone), 0, 0) /\ next' = next + 1
            /\ UNCHANGED <<pc, entries, totalSize>>
       ELSE Fail

(* createFilesInTar for a directory or a symlink, which have no body. *)
AddWithoutBody(c) ==
    LET kind == IF c.type = "symlink" THEN "link" ELSE "dir" IN
    /\ c.type \in {"dir", "implicit dir", "symlink"}
    /\ IF CanPut
       THEN /\ Put(Member(c.dst, kind, Gone), 0, 0)
            /\ entries' = Append(entries, MtreeEntry(c.dst, kind, Gone, 0))
            /\ next' = next + 1
            /\ UNCHANGED <<pc, totalSize>>
       ELSE Fail

(* and for a file: the bytes go to the tar and to both digests. *)
AddFile(c) ==
    LET size == sizes[next] IN
    /\ c.type \in FileTypes
    /\ IF Exists(c.src) /\ CanPut /\ Fits(size, Bytes(c.src))
       THEN /\ Put(Member(c.dst, "file", host[c.src]), size, Bytes(c.src))
            /\ entries' = Append(entries, MtreeEntry(c.dst, "file", host[c.src], size))
            /\ totalSize' = totalSize + size
            /\ next' = next + 1
            /\ UNCHANGED pc
       ELSE Fail

AddContent ==
    /\ pc = "files"
    /\ IF next <= Len(contents)
       THEN AddWithoutBody(contents[next]) \/ AddFile(contents[next])
       ELSE pc' = "pkginfo" /\ UNCHANGED <<manifest, tar, encoder, output>>
    /\ UNCHANGED <<input, host, touches>>

-----------------------------------------------------------------------------
Backup ==
    {contents[i].dst : i \in {j \in DOMAIN contents : contents[j].type \in ConfigTypes}}

Pkginfo == [size |-> totalSize, backup |-> Backup]

(* Mutant: .PKGINFO is appended to the entries. *)
CreatePkginfoLast ==
    /\ pc = "pkginfo"
    /\ IF CanPut
       THEN /\ Put(Member(<<".PKGINFO">>, "meta", Pkginfo), 0, 0)
            /\ entries' = Append(entries, MtreeEntry(<<".PKGINFO">>, "meta", Pkginfo, 0))
            /\ pc' = "mtree"
            /\ UNCHANGED <<next, totalSize>>
       ELSE Fail
    /\ UNCHANGED <<input, host, touches>>

(* createPkginfo; its entry is put before all others. *)
CreatePkginfo ==
    /\ pc = "pkginfo"
    /\ IF CanPut
       THEN /\ Put(Member(<<".PKGINFO">>, "meta", Pkginfo), 0, 0)
            /\ entries' = <<MtreeEntry(<<".PKGINFO">>, "meta", Pkginfo, 0)>> \o entries
            /\ pc' = "mtree"
            /\ UNCHANGED <<next, totalSize>>
       ELSE Fail
    /\ UNCHANGED <<input, host, touches>>

CreateMtree ==
    /\ pc = "mtree"
    /\ IF CanPut
       THEN /\ Put(Member(<<".MTREE">>, "meta", entries), 0, 0)
            /\ pc' = "install"
            /\ UNCHANGED manifest
       ELSE Fail
    /\ UNCHANGED <<input, host, touches>>

(* createScripts: without scripts there is no .INSTALL. *)
CreateScripts ==
    /\ pc = "install"
    /\ IF settings.scripts = {}
       THEN pc' = "close" /\ UNCHANGED <<manifest, tar, encoder, output>>
       ELSE IF CanPut /\ \A s \in settings.scripts : Exists(s)
       THEN /\ Put(Member(<<".INSTALL">>, "meta", [s \in settings.scripts |-> host[s]]), 0, 0)
            /\ pc' = "close"
            /\ UNCHANGED manifest
       ELSE Fail
    /\ UNCHANGED <<input, host, touches>>

(* Mutant: the deferred calls are forgotten. *)
CloseNothing ==
    /\ pc = "close"
    /\ pc' = "done"
    /\ UNCHANGED <<input, host, touches, manifest, tar, encoder, output>>

(* The return value is settled.  The deferred calls close the tar and the  *)
(* encoder; their errors go nowhere.                                       *)
Close ==
    /\ pc = "close"
    /\ pc' = "done"
    /\ \/ /\ encoder # "broken"
          /\ output' = "all"
          /\ encoder' = "clean"
       \/ /\ encoder # "broken"
          /\ "close" \in Refusals
          /\ encoder' = "broken"
          /\ UNCHANGED output
       \/ /\ encoder = "broken"
          /\ UNCHANGED <<encoder, output>>
    /\ UNCHANGED <<input, host, touches, manifest, tar>>

-----------------------------------------------------------------------------
Meanwhile ==
    /\ pc \notin {"done", "failed"}
    /\ Touch
    /\ UNCHANGED <<input, pc, manifest, tar, encoder, output>>

Init ==
    /\ contents \in Inputs
    /\ settings \in Settings
    /\ HostInit
    /\ pc = "start"
    /\ sizes = <<>>
    /\ next = 1
    /\ tar = EmptyTar
    /\ entries = <<>>
    /\ totalSize = 0
    /\ encoder = "clean"
    /\ output = "none"

Package == Start \/ AddContent \/ CreatePkginfo \/ CreateMtree \/ CreateScripts \/ Close

Next == Package \/ Meanwhile

Spec == Init /\ [][Next]_vars

-----------------------------------------------------------------------------
Stages == {"start", "files", "pkginfo", "mtree", "install", "close", "done", "failed"}

AfterMtree == pc \in {"install", "close", "done"}

SizeOf(member) == IF member.kind = "file" THEN Length[member.body] ELSE 0

SumOfLengths(members) == Total([i \in DOMAIN members |-> SizeOf(members[i])])

(* Types of the variables. *)
TypeOK ==
    /\ contents \in Inputs /\ settings \in Settings
    /\ host \in [Sources -> Versions \cup {Gone}]
    /\ pc \in Stages /\ encoder \in {"clean", "pending", "broken"}
    /\ output \in {"none", "part", "all"}
    /\ next \in 1..(Len(contents) + 1)
    /\ tar.owed \in Nat /\ totalSize \in Nat
    /\ pc = "files" => Len(entries) = next - 1 /\ Len(tar.members) = next - 1

(* pacman -Qkk compares the installed files with .MTREE.  Its first entry  *)
(* is .PKGINFO (the comment at arch.go:158); the others are the members of *)
(* the archive in their order, each file with the digest and the size of   *)
(* the bytes that are in the archive, whatever happened to the files       *)
(* between the preparation, which took the sizes, and the copy.  The size  *)
(* in .PKGINFO, which pacman checks against the free space, is what the    *)
(* archive really brings, and every path in the backup array is one of its *)
(* files.                                                                  *)
DescribesItself ==
    AfterMtree =>
        LET n == Len(contents)
            pkginfo == tar.members[n + 1].body IN
        /\ Len(entries) = n + 1
        /\ entries[1].dst = <<".PKGINFO">> /\ entries[1].body = pkginfo
        /\ \A i \in 1..n :
              /\ entries[i + 1].dst = tar.members[i].dst
              /\ entries[i + 1].kind = tar.members[i].kind
              /\ entries[i + 1].body = tar.members[i].body
              /\ tar.members[i].kind = "file" =>
                    entries[i + 1].size = Length[tar.members[i].body]
        /\ tar.members[n + 2].body = entries
        /\ pkginfo.size = SumOfLengths(tar.members)
        /\ \A dst \in pkginfo.backup :
              \E i \in 1..n : tar.members[i].dst = dst /\ tar.members[i].kind = "file"

(* arch.go:118: Package "writes a new archlinux package to the given       *)
(* writer"; without an error, the package has been written.                *)
SuccessMeansWritten == pc = "done" => output = "all"
===============================================================================
