------------------------------ MODULE DebPackage ------------------------------
(***************************************************************************)
(* (Deb).Package (deb/deb.go): the data tarball, the control tarball made  *)
(* from what went into it, the ar archive of both, the signature.          *)
(*                                                                         *)
(* A mode is reduced to its ModeDir bit.                                   *)
(***************************************************************************)
EXTENDS HostFiles, TarStream, Signing

CONSTANTS
    Inputs,     \* the lists of prepared contents
    Settings,   \* the other fields of the Info that matter here
    KiB         \* the unit of Installed-Size: 1024, and 2 where lengths are small

VARIABLES
    contents,   \* info.Contents after the preparation
    settings,
    pc,         \* "start", "data", "control", "ar", "sign", "done", "failed"
    sizes,      \* the size of each content, as the preparation found it
    next,       \* the content the data tarball is at
    data,       \* the data tarball
    md5sums,    \* the lines of md5sums
    instSize,   \* the installed size
    control,    \* the control tarball: what its members say
    ar          \* the archive written to the caller's writer

vars == <<contents, settings, host, touches, pc, sizes, next, data, md5sums,
          instSize, control, ar>>

input   == <<contents, settings, sizes>>
tarball == <<next, data, md5sums, instSize>>

ConfigTypes == {"config", "config|noreplace", "config|missingok"}
FileTypes   == ConfigTypes \cup {"file"}

Fail == pc' = "failed" /\ UNCHANGED <<tarball, control, ar>>

-----------------------------------------------------------------------------
(* PrepareForPackager takes the size of every file and finds out if there  *)
(* is none.  createDataTarball looks at the compression first.             *)
Start ==
    /\ pc = "start"
    /\ sizes' = [i \in DOMAIN contents |-> SizeNow(contents[i].src)]
    /\ pc' = IF /\ \A i \in DOMAIN contents :
                       contents[i].type \in FileTypes => Exists(contents[i].src)
                /\ settings.compression \in {"gzip", "xz", "zstd", "none"}
             THEN "data" ELSE "failed"
    /\ UNCHANGED <<contents, settings, host, touches, tarball, control, ar>>

Member(c, kind, body) == [dst |-> c.dst, kind |-> kind, body |-> body]

(* tarHeader decides what a member becomes, by its mode before its type.   *)
HeaderKind(c) ==
    IF c.type \in {"dir", "implicit dir"} \/ c.modeDir THEN "dir" ELSE "symlink"

(* createFilesInsideDataTar for one content. *)
AddWithoutBody ==
    LET c == contents[next] IN
    /\ c.type \in {"dir", "implicit dir", "symlink"}
    /\ IF Settled(data)
       THEN /\ data' = WithMember(data, Member(c, HeaderKind(c), Gone), 0, 0)
            /\ next' = next + 1
            /\ UNCHANGED <<pc, md5sums, instSize, control, ar>>
       ELSE Fail

(* Mutant: the digest is that of a file of the announced size, not of the  *)
(* one that was copied.                                                    *)
AddRegularEarlyDigest(c, size) ==
    IF Exists(c.src) /\ Settled(data) /\ Fits(size, Bytes(c.src))
    THEN /\ data' = WithMember(data, Member(c, "file", host[c.src]), size, Bytes(c.src))
         /\ md5sums' = Append(md5sums, [dst |-> c.dst,
                                        digest |-> CHOOSE v \in Versions : Length[v] = size])
         /\ instSize' = instSize + size
         /\ next' = next + 1
         /\ UNCHANGED <<pc, control, ar>>
    ELSE Fail

AddRegular(c, size) ==
    IF Exists(c.src) /\ Settled(data) /\ Fits(size, Bytes(c.src))
    THEN /\ data' = WithMember(data, Member(c, "file", host[c.src]), size, Bytes(c.src))
         /\ md5sums' = Append(md5sums, [dst |-> c.dst, digest |-> host[c.src]])
         /\ instSize' = instSize + size
         /\ next' = next + 1
         /\ UNCHANGED <<pc, control, ar>>
    ELSE Fail

(* A file: the header announces the size the preparation found. *)
AddFile ==
    LET c == contents[next] IN
    /\ c.type \in FileTypes
    /\ AddRegular(c, sizes[next])

(* The changelog is formatted here, so its size is the one it has now. *)
AddChangelog ==
    LET c == contents[next] IN
    /\ c.type = "debian changelog"
    /\ AddRegular(c, IF Exists(c.src) THEN Bytes(c.src) ELSE 0)

(* The end of the contents: the tar and the compressor are closed. *)
CloseData ==
    IF Settled(data)
    THEN pc' = "control" /\ UNCHANGED <<tarball, control, ar>>
    ELSE Fail

AddMember ==
    /\ pc = "data"
    /\ IF next <= Len(contents)
       THEN AddWithoutBody \/ AddFile \/ AddChangelog
       ELSE CloseData
    /\ UNCHANGED <<input, host, touches>>

-----------------------------------------------------------------------------
(* conffiles: the destinations of the configuration files. *)
Conffiles ==
    {contents[i].dst : i \in {j \in DOMAIN contents : contents[j].type \in ConfigTypes}}

NoControl == [installedSize |-> 0, md5sums |-> <<>>, conffiles |-> {}, scripts |-> <<>>]

(* createControl; the scripts are files of the host. *)
CreateControl ==
    /\ pc = "control"
    /\ IF \A s \in settings.scripts : Exists(s)
       THEN /\ control' = [installedSize |-> instSize \div KiB, md5sums |-> md5sums,
                           conffiles |-> Conffiles,
                           scripts |-> [s \in settings.scripts |-> host[s]]]
            /\ pc' = "ar"
            /\ UNCHANGED <<tarball, ar>>
       ELSE Fail
    /\ UNCHANGED <<input, host, touches>>

-----------------------------------------------------------------------------
DataName ==
    CASE settings.compression = "gzip" -> "data.tar.gz"
      [] settings.compression = "xz"   -> "data.tar.xz"
      [] settings.compression = "zstd" -> "data.tar.zst"
      [] settings.compression = "none" -> "data.tar"

PackageFiles ==
    <<[name |-> "debian-binary", body |-> "2.0"],
      [name |-> "control.tar.gz", body |-> control],
      [name |-> DataName, body |-> data.members]>>

(* Mutant: an error of the caller's writer is dropped. *)
AddArFileDeaf ==
    /\ pc = "ar"
    /\ \/ /\ ar' = Append(ar, PackageFiles[Len(ar) + 1])
          /\ pc' = IF Len(ar) + 1 < Len(PackageFiles) THEN "ar"
                   ELSE IF Signed(settings.signature) THEN "sign" ELSE "done"
          /\ UNCHANGED <<tarball, control>>
       \/ pc' = "done" /\ UNCHANGED <<tarball, control, ar>>
    /\ UNCHANGED <<input, host, touches>>

(* One addArFile; the caller's writer may refuse it. *)
AddArFile ==
    /\ pc = "ar"
    /\ \/ /\ ar' = Append(ar, PackageFiles[Len(ar) + 1])
          /\ pc' = IF Len(ar) + 1 < Len(PackageFiles) THEN "ar"
                   ELSE IF Signed(settings.signature) THEN "sign" ELSE "done"
          /\ UNCHANGED <<tarball, control>>
       \/ Fail
    /\ UNCHANGED <<input, host, touches>>

(* doSign: what the signature covers, and under which role. *)
Role ==
    IF settings.role # "" THEN settings.role
    ELSE IF settings.method = "dpkg-sig" THEN "builder" ELSE "origin"

RoleAccepted ==
    settings.method = "dpkg-sig" \/ Role \in {"origin", "maint", "archive"}

SignedNames ==
    IF settings.method = "dpkg-sig" THEN <<"debian-binary", "control.tar.gz", "data.tar.gz">>
    ELSE <<"debian-binary", "control.tar.gz", DataName>>

(* Mutant: the data tarball is left out of what is signed. *)
SignedBodiesButData == <<"2.0", control>>

SignedBodies == <<"2.0", control, data.members>>

(* doSign reads the key only now. *)
Sign ==
    /\ pc = "sign"
    /\ \/ /\ RoleAccepted
          /\ \E keys \in PGPKeys(settings.signature) :
                ar' = Append(ar, [name |-> "_gpg", role |-> Role, bodies |-> SignedBodies,
                                  names |-> SignedNames, keys |-> keys])
          /\ pc' = "done"
          /\ UNCHANGED <<tarball, control>>
       \/ Fail
    /\ UNCHANGED <<input, host, touches>>

-----------------------------------------------------------------------------
Meanwhile ==
    /\ pc \notin {"done", "failed"}
    /\ Touch
    /\ UNCHANGED <<input, pc, tarball, control, ar>>

Init ==
    /\ contents \in Inputs
    /\ settings \in Settings
    /\ HostInit
    /\ pc = "start"
    /\ sizes = <<>>
    /\ next = 1
    /\ data = EmptyTar
    /\ md5sums = <<>>
    /\ instSize = 0
    /\ control = NoControl
    /\ ar = <<>>

Package == Start \/ AddMember \/ CreateControl \/ AddArFile \/ Sign

Next == Package \/ Meanwhile

Spec == Init /\ [][Next]_vars

-----------------------------------------------------------------------------
RegularMembers == Files(data.members)

SizeOf(member) == IF member.kind = "file" THEN Length[member.body] ELSE 0

SumOfLengths(members) == Total([i \in DOMAIN members |-> SizeOf(members[i])])

(* Types of the variables. *)
TypeOK ==
    /\ contents \in Inputs /\ settings \in Settings
    /\ host \in [Sources -> Versions \cup {Gone}]
    /\ pc \in {"start", "data", "control", "ar", "sign", "done", "failed"}
    /\ next \in 1..(Len(contents) + 1)
    /\ data.owed \in Nat /\ instSize \in Nat
    /\ Len(data.members) = next - 1
    /\ Len(md5sums) = Len(RegularMembers)

(* The archive that is written describes itself, although its files may be *)
(* replaced or removed after they were prepared and after they were read:  *)
(* the md5sums name exactly the regular members of the data tarball, in    *)
(* their order, with the digests of the bytes that are in it (the tar      *)
(* writer refuses to close a member of another size than the preparation   *)
(* found); Installed-Size, summed up from the preparation, is the size of  *)
(* these members in whole KiB; dpkg finds every conffile among them; and   *)
(* no content is lost or moved on the way, even if its file vanishes.      *)
DescribesItself ==
    Len(ar) >= 3 =>
        /\ ar[2].body.md5sums =
              [i \in DOMAIN RegularMembers |->
                  [dst |-> RegularMembers[i].dst, digest |-> RegularMembers[i].body]]
        /\ ar[2].body.installedSize = SumOfLengths(data.members) \div KiB
        /\ \A dst \in ar[2].body.conffiles :
              \E i \in DOMAIN data.members :
                  data.members[i].dst = dst /\ data.members[i].kind = "file"
        /\ [i \in DOMAIN ar[3].body |-> ar[3].body[i].dst] =
              [i \in DOMAIN contents |-> contents[i].dst]

(* A signature is the last member and covers every member before it, byte  *)
(* for byte, whichever method made it; a package that should be signed is  *)
(* never finished without one.  It is clear who signed: the caller, or the *)
(* only key of the file that can.                                          *)
SignatureCoversArchive ==
    pc = "done" /\ Signed(settings.signature) =>
        /\ Len(ar) = 4
        /\ ar[4].bodies = [i \in 1..3 |-> ar[i].body]
        /\ settings.signature.fn \/ ar[4].keys = Candidates(settings.signature.keys)

(* What has reached the caller's writer. *)
Wanted == IF Signed(settings.signature) THEN 4 ELSE 3

Output == IF ar = <<>> THEN "none" ELSE IF Len(ar) < Wanted THEN "part" ELSE "all"

(* The assertion of deb/deb_test.go:1684: every file the dpkg-sig message  *)
(* names is in the package.                                                *)
SignatureNamesMembers ==
    pc = "done" /\ Signed(settings.signature) /\ settings.method = "dpkg-sig" =>
        \A i \in DOMAIN ar[4].names : \E j \in 1..3 : ar[j].name = ar[4].names[i]

(* configuration.md:219: source and destination of a symlink are paths     *)
(* inside the package and not in the build environment.                    *)
SymlinksStaySymlinks ==
    Len(ar) >= 3 =>
        \A i \in DOMAIN contents :
            contents[i].type = "symlink" => ar[3].body[i].kind = "symlink"
===============================================================================
