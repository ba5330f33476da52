------------------------------ MODULE RpmPackage ------------------------------
(***************************************************************************)
(* (RPM).Package (rpm/): binary packages, which are described to a library *)
(* that reads the files and writes the package, and source packages: a     *)
(* tarball of the contents in a temporary file, and a spec from which      *)
(* rpmbuild is to make the binary package again.                           *)
(*                                                                         *)
(* A mode is a set of bits, a directive of the spec is named like the flag *)
(* that rpmbuild gives a file for it.                                      *)
(***************************************************************************)
EXTENDS HostFiles, TarStream, Signing

CONSTANTS
    Inputs,     \* the lists of contents prepared for the packager "rpm"
    Settings    \* the other fields of the Info that matter here

VARIABLES
    format,     \* "rpm" or "srpm"
    contents,   \* info.Contents after the preparation
    settings,
    pc,         \* the stage, then "done" or "failed"
    next,       \* the content the source tarball is at
    opened,     \* the size of the file that is being copied and what it held
    tar,        \* the source tarball
    temp,       \* the temporary file: "none", "there", "stuck" if it cannot be removed
    meta,       \* what the header of the package, or the spec, says
    output,     \* what has reached the caller's writer: "none", "part", "all"
    vanished    \* history: whether the changelog went after GetChangeLog saw it

vars == <<format, contents, settings, host, touches, pc, next, opened, tar, temp,
          meta, output, vanished>>

input   == <<format, contents, settings>>
payload == <<next, opened, tar>>

ConfigTypes  == {"config", "config|noreplace", "config|missingok"}
RegularTypes == ConfigTypes \cup {"file", "doc", "license", "readme"}

There(src) == src \in Sources /\ Exists(src)

NoFile == [size |-> 0, held |-> Gone]
NoMeta == [scripts |-> <<>>, changelog |-> Gone, files |-> {}]

(* The error of os.Remove goes nowhere. *)
RemoveTemp == IF temp = "there" THEN temp' \in {"none", "stuck"} ELSE UNCHANGED temp

(* Mutant: an early return is above the defer. *)
ReturnAsIs(verdict) == pc' = verdict /\ UNCHANGED temp

(* A return: what is deferred removes the temporary file, if there is one. *)
Return(verdict) == pc' = verdict /\ RemoveTemp

Fail == Return("failed") /\ UNCHANGED <<payload, meta, output>>

(* Mutant: the caller is to remove a file whose path it did not get. *)
DiscardNothing == pc' = "failed" /\ UNCHANGED <<temp, payload, meta, output>>

(* buildPayloadTar returns no path with an error and removes its file.     *)
Discard == pc' = "failed" /\ RemoveTemp /\ UNCHANGED <<payload, meta, output>>

Continue(stage) == pc' = stage /\ UNCHANGED temp

(* Both formats prepare the contents for "rpm". *)
Start ==
    /\ pc = "start"
    /\ IF \A i \in DOMAIN contents :
             contents[i].type \in RegularTypes => There(contents[i].src)
       THEN Continue(IF format = "srpm" THEN "create temp" ELSE "metadata")
       ELSE Return("failed")
    /\ UNCHANGED <<input, host, touches, payload, meta, output>>

-----------------------------------------------------------------------------
(***************************************************************************)
(* What both formats take from the Info.                                   *)
(***************************************************************************)
(* applyMetadata and applyRelations: the epoch must be a number, the       *)
(* compression a known one.                                                *)
ApplyMetadata ==
    /\ pc = "metadata" /\ format = "rpm"
    /\ IF settings.metadataValid /\ settings.relationsParse
       THEN Continue("scripts") /\ UNCHANGED <<payload, meta, output>>
       ELSE Fail
    /\ UNCHANGED <<input, host, touches>>

(* A source package hands the relations on as text, and comes to this      *)
(* when its spec is ready.                                                 *)
ApplySourceMetadata ==
    /\ pc = "metadata" /\ format = "srpm"
    /\ IF settings.metadataValid
       THEN Continue("build") /\ UNCHANGED <<payload, meta, output>>
       ELSE Fail
    /\ UNCHANGED <<input, host, touches>>

ReadScripts ==
    /\ pc = "scripts"
    /\ IF \A s \in settings.scripts : There(s)
       THEN /\ meta' = [meta EXCEPT !.scripts = [s \in settings.scripts |-> host[s]]]
            /\ Continue(IF settings.changelog = "" THEN "files" ELSE "changelog")
            /\ UNCHANGED <<payload, output>>
       ELSE Fail
    /\ UNCHANGED <<input, host, touches>>

(* Mutant: the parser finds out by itself. *)
StatNothing ==
    /\ pc = "changelog"
    /\ Continue("parse")
    /\ UNCHANGED <<input, host, touches, payload, meta, output>>

(* GetChangeLog looks if the file exists, *)
StatChangelog ==
    /\ pc = "changelog"
    /\ IF There(settings.changelog)
       THEN Continue("parse") /\ UNCHANGED <<payload, meta, output>>
       ELSE Fail
    /\ UNCHANGED <<input, host, touches>>

(* because to the parser a file that does not is an empty changelog. *)
ParseChangelog ==
    /\ pc = "parse"
    /\ meta' = [meta EXCEPT !.changelog =
                    IF There(settings.changelog) THEN host[settings.changelog] ELSE Gone]
    /\ Continue("files")
    /\ UNCHANGED <<input, host, touches, payload, output>>

-----------------------------------------------------------------------------
(***************************************************************************)
(* The files of a binary package and of a spec.                            *)
(***************************************************************************)
(* normalizeFileMode: setuid is found in Go's bit and in Unix's. *)
Normal(mode) ==
    (mode \cap {"r", "w", "x"}) \cup (IF mode \cap {"ModeSetuid", "04000"} # {} THEN {"setuid"} ELSE {})

GhostMode(c) == Normal(IF c.mode = {} THEN {"r", "w"} ELSE c.mode)

FlagsOf(c) ==
    CASE c.type = "config"           -> {"config"}
      [] c.type = "config|noreplace" -> {"config", "noreplace"}
      [] c.type = "config|missingok" -> {"config", "missingok"}
      [] c.type \in {"ghost", "doc", "license", "readme"} -> {c.type}
      [] OTHER                       -> {}

Described(c, flags, kind, mode, lang) ==
    [dst |-> c.dst, flags |-> flags, kind |-> kind, mode |-> mode, lang |-> lang]

(* Mutant: a missing mode stays missing. *)
HeaderEntryRaw(c) ==
    CASE c.type = "ghost"   -> Described(c, FlagsOf(c), "ghost", Normal(c.mode), "")
      [] c.type = "symlink" -> Described(c, {}, "link", {}, "")
      [] c.type = "dir"     -> Described(c, {}, "dir", Normal(c.mode), "")
      [] OTHER              -> Described(c, FlagsOf(c), "file", Normal(c.mode), c.lang)

(* addContents for one content.  A link has mode 0 in the header. *)
HeaderEntry(c) ==
    CASE c.type = "ghost"   -> Described(c, FlagsOf(c), "ghost", GhostMode(c), "")
      [] c.type = "symlink" -> Described(c, {}, "link", {}, "")
      [] c.type = "dir"     -> Described(c, {}, "dir", Normal(c.mode), "")
      [] OTHER              -> Described(c, FlagsOf(c), "file", Normal(c.mode), c.lang)

SpecLine(c, directives, mode, lang) ==
    [dst |-> c.dst, directives |-> directives, mode |-> mode, lang |-> lang]

(* The '-' in an %attr: the file keeps the mode it has on the disk.        *)
AsOnDisk == {"-"}

(* specFileLine.  There is no directive for a readme. *)
SpecFileLine(c) ==
    CASE c.type = "ghost"   -> SpecLine(c, {"ghost"}, GhostMode(c), "")
      [] c.type = "symlink" -> SpecLine(c, {}, AsOnDisk, "")
      [] c.type = "dir"     -> SpecLine(c, {"dir"}, Normal(c.mode), "")
      [] c.type = "readme"  -> SpecLine(c, {"doc"}, Normal(c.mode), c.lang)
      [] OTHER              -> SpecLine(c, FlagsOf(c), Normal(c.mode), c.lang)

(* An implicit directory belongs to no package of rpm. *)
Owned == {contents[i] : i \in {j \in DOMAIN contents : contents[j].type # "implicit dir"}}

AddContents ==
    /\ pc = "files" /\ format = "rpm"
    /\ meta' = [meta EXCEPT !.files = {HeaderEntry(c) : c \in Owned}]
    /\ Continue("build")
    /\ UNCHANGED <<input, host, touches, payload, output>>

WriteFilesSection ==
    /\ pc = "files" /\ format = "srpm"
    /\ meta' = [meta EXCEPT !.files = {SpecFileLine(c) : c \in Owned}]
    /\ Continue("metadata")
    /\ UNCHANGED <<input, host, touches, payload, output>>

-----------------------------------------------------------------------------
(***************************************************************************)
(* The tarball of a source package.                                        *)
(***************************************************************************)
CreateTemp ==
    /\ pc = "create temp"
    /\ \/ pc' = "payload" /\ temp' = "there" /\ UNCHANGED <<payload, meta, output>>
       \/ Fail
    /\ UNCHANGED <<input, host, touches>>

(* The mode of a link is 0777. *)
LinkMode == {"r", "w", "x"}

Member(c, kind, size, body) ==
    [dst |-> c.dst, kind |-> kind, size |-> size, body |-> body,
     mode |-> IF kind = "link" THEN LinkMode ELSE Normal(c.mode)]

(* addTarEntry: a ghost is not shipped, *)
AddNothing(c) ==
    /\ c.type \in {"ghost", "implicit dir"}
    /\ next' = next + 1
    /\ UNCHANGED <<opened, tar>>

(* a symlink and a directory are a header, *)
AddHeader(c) ==
    /\ c.type \in {"symlink", "dir"}
    /\ tar' = WithMember(tar, Member(c, IF c.type = "dir" THEN "dir" ELSE "link", 0, Gone), 0, 0)
    /\ next' = next + 1
    /\ UNCHANGED opened

(* and a file is opened and its size put into the header *)
OpenFile(c) ==
    /\ c.type \in RegularTypes
    /\ There(c.src)
    /\ opened' = [size |-> Bytes(c.src), held |-> host[c.src]]
    /\ UNCHANGED <<next, tar>>

AddEntry ==
    /\ pc = "payload"
    /\ opened = NoFile
    /\ next <= Len(contents)
    /\ LET c == contents[next] IN
       \/ /\ AddNothing(c) \/ (Settled(tar) /\ (AddHeader(c) \/ OpenFile(c)))
          /\ UNCHANGED <<pc, temp, meta, output>>
       \/ /\ c.type \notin {"ghost", "implicit dir"}
          /\ (c.type \in RegularTypes /\ ~There(c.src)) \/ ~Settled(tar)
          /\ Discard
    /\ UNCHANGED <<input, host, touches>>

(* before it is copied.  By then it may have been written in place; if it  *)
(* was replaced or removed, the open file is still the old one.            *)
CopyFile ==
    /\ pc = "payload"
    /\ opened # NoFile
    /\ LET c == contents[next] IN
       \E held \in {opened.held, host[c.src]} \ {Gone} :
          IF Fits(opened.size, Length[held])
          THEN /\ tar' = WithMember(tar, Member(c, "file", opened.size, held), opened.size,
                                    Length[held])
               /\ next' = next + 1
               /\ opened' = NoFile
               /\ UNCHANGED <<pc, temp, meta, output>>
          ELSE Discard
    /\ UNCHANGED <<input, host, touches>>

(* The tar, the compressor and the file are closed; a full disk shows here *)
(* at the latest.                                                          *)
ClosePayload ==
    /\ pc = "payload"
    /\ next > Len(contents)
    /\ \/ Settled(tar) /\ Continue("scripts") /\ UNCHANGED <<payload, meta, output>>
       \/ Discard
    /\ UNCHANGED <<input, host, touches>>

-----------------------------------------------------------------------------
(* signFunc: a package is signed if there is a function or a key file. *)
CanSign == Signed(settings.signature) => PGPKeys(settings.signature) # {}

(* The library's Build, which signs and reads the files of a binary        *)
(* package, *)
Build ==
    /\ pc = "build"
    /\ \/ /\ format = "rpm" =>
                \A c \in Owned : c.type \in RegularTypes => There(c.src)
          /\ CanSign
          /\ Continue("write")
          /\ UNCHANGED <<payload, meta, output>>
       \/ Fail
    /\ UNCHANGED <<input, host, touches>>

(* Mutant: what was written is not told. *)
WriteDeaf ==
    /\ pc = "write"
    /\ Return("done") /\ output' \in {"none", "part", "all"}
    /\ UNCHANGED <<input, host, touches, payload, meta>>

(* and its WriteTo. *)
Write ==
    /\ pc = "write"
    /\ \/ Return("done") /\ output' = "all"
       \/ Return("failed") /\ output' \in {"none", "part"}
    /\ UNCHANGED <<input, host, touches, payload, meta>>

NoteVanishing ==
    vanished' = IF pc = "parse" /\ settings.changelog \in Sources
                THEN host'[settings.changelog] = Gone
                     /\ (There(settings.changelog) \/ vanished)
                ELSE vanished

Meanwhile ==
    /\ pc \notin {"done", "failed"}
    /\ Touch
    /\ NoteVanishing
    /\ UNCHANGED <<input, pc, payload, temp, meta, output>>

Init ==
    /\ format \in {"rpm", "srpm"}
    /\ contents \in Inputs
    /\ settings \in Settings
    /\ HostInit
    /\ pc = "start"
    /\ next = 1
    /\ opened = NoFile
    /\ tar = EmptyTar
    /\ temp = "none"
    /\ meta = NoMeta
    /\ output = "none"
    /\ vanished = FALSE

Package ==
    /\ \/ Start \/ ApplyMetadata \/ ApplySourceMetadata \/ ReadScripts \/ StatChangelog
       \/ ParseChangelog \/ AddContents \/ WriteFilesSection \/ CreateTemp
       \/ AddEntry \/ CopyFile \/ ClosePayload \/ Build \/ Write
    /\ UNCHANGED vanished

Next == Package \/ Meanwhile

Spec == Init /\ [][Next]_vars

-----------------------------------------------------------------------------
Members == {tar.members[i] : i \in DOMAIN tar.members}

SourceMade == format = "srpm" /\ output # "none"

(* What rpmbuild makes of a line of the spec and the member it claims,     *)
(* which %install put on the disk. *)
Rebuilt(l) ==
    LET member == CHOOSE m \in Members : m.dst = l.dst IN
    [dst |-> l.dst, flags |-> l.directives \ {"dir"}, lang |-> l.lang,
     mode |-> IF l.mode = AsOnDisk THEN member.mode ELSE l.mode,
     kind |-> IF "ghost" \in l.directives THEN "ghost" ELSE member.kind]

(* The binary package's entry, with the two things that change.            *)
Expected(c) ==
    CASE c.type = "readme"  -> [HeaderEntry(c) EXCEPT !.flags = {"doc"}]
      [] c.type = "symlink" -> [HeaderEntry(c) EXCEPT !.mode = LinkMode]
      [] OTHER              -> HeaderEntry(c)

(* The comments at srpm.go:28 and spec.go:15: rebuilding the source        *)
(* package "reproduces the binary RPM", file for file with its flags,      *)
(* mode and language; except that a readme comes back as documentation,    *)
(* and a symlink with the mode 0777 it has on the disk, while nfpm's own   *)
(* header gives it mode 0.  rpmbuild stops at a file of the spec that      *)
(* %install did not bring, and at one it brought that the spec does not    *)
(* claim: the %files are the members of the tarball and the ghosts, as     *)
(* what they are.  And no file in it is cut short or filled up because it  *)
(* was changed between the look at its size and the copy.                  *)
RebuildReproduces ==
    SourceMade =>
        /\ {l.dst : l \in {k \in meta.files : "ghost" \notin k.directives}} = {m.dst : m \in Members}
        /\ \A l \in meta.files, m \in Members :
              l.dst = m.dst => ("dir" \in l.directives <=> m.kind = "dir")
        /\ {Rebuilt(l) : l \in meta.files} = {Expected(c) : c \in Owned}
        /\ \A m \in Members : m.kind = "file" => m.size = Length[m.body]

(* However Package is left, the temporary file is gone, unless it cannot   *)
(* be removed.                                                             *)
TempIsRemoved == pc \in {"done", "failed"} => temp # "there"

(* "chglog.Parse will just silently create an empty changelog but we       *)
(* should notify the user instead" (nfpm.go:325): a changelog that is not  *)
(* there is never left out in silence, whatever happens to the host, with  *)
(* the one exception the code is open to: the file vanishes after the look *)
(* and before the parser.                                                  *)
ChangelogNotForgotten ==
    output # "none" /\ settings.changelog # "" /\ ~vanished => meta.changelog # Gone
===============================================================================
