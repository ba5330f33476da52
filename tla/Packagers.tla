------------------------------ MODULE Packagers ------------------------------
(***************************************************************************)
(* The packagers behind one interface: nfpm.Packager's Package is called   *)
(* with an Info and a writer, for a format that is chosen before, on a     *)
(* host whose files change meanwhile.  (The apk packager, which is         *)
(* modelled byte by byte, is checked apart.)                               *)
(***************************************************************************)
EXTENDS HostFiles, Sequences, FiniteSets

CONSTANTS
    Formats,    \* a subset of "archlinux", "deb", "ipk", "rpm", "srpm", "msix"
    Inputs,     \* the lists of prepared contents, for each format
    Settings,   \* the other fields of the Info, for each format
    Refusals,   \* the steps at which the writer behind arch's encoder may refuse
    KiB         \* the unit of Installed-Size: 1024, and 2 where lengths are small

ASSUME KiBAssumption == KiB \in Nat \ {0}

(* What the preparation leaves of the contents for a format: types that it *)
(* knows, a path for each destination, and what the types imply: a file    *)
(* has a source on the host, an implicit directory has none.               *)
FileTypes == {"file", "config", "config|noreplace", "config|missingok"}

Types(f) ==
    FileTypes \cup {"dir", "implicit dir", "symlink"}
        \cup (IF f = "deb" THEN {"debian changelog"} ELSE {})
        \cup (IF f = "rpm" THEN {"ghost", "doc", "license", "readme"} ELSE {})

ASSUME InputsAssumption ==
    /\ "" \notin Sources
    /\ \A f \in Formats \ {"srpm"} : \A list \in Inputs[f] :
          /\ list \in Seq({list[i] : i \in DOMAIN list})
          /\ \A i, j \in DOMAIN list : list[i].dst = list[j].dst => i = j
          /\ \A i \in DOMAIN list :
                /\ list[i].type \in Types(f)
                /\ list[i].type \in FileTypes \cup {"debian changelog"} => list[i].src \in Sources
                /\ list[i].type = "implicit dir" => list[i].src = ""

(* The fields of the settings; a key file holds finitely many keys. *)
ASSUME SettingsAssumption ==
    /\ "deb" \in Formats => \A s \in Settings["deb"] : IsFiniteSet(s.signature.keys)
    /\ "ipk" \in Formats =>
          \A s \in Settings["ipk"] : s = [fields |-> s.fields, scripts |-> s.scripts]
    /\ "msix" \in Formats => \A s \in Settings["msix"] :
          /\ s = [publisher |-> s.publisher, logo |-> s.logo, applications |-> s.applications,
                  restricted |-> s.restricted, families |-> s.families, pfx |-> s.pfx]
          /\ s.restricted \in Seq({s.restricted[i] : i \in DOMAIN s.restricted})
          /\ \A i \in DOMAIN s.applications :
                LET a == s.applications[i] IN
                a = [id |-> a.id, executable |-> a.executable, entryPoint |-> a.entryPoint,
                     tile |-> a.tile]

VARIABLES
    format,
    contents, settings, pc, output,     \* of every packager
    next, tar, totalSize, meta,         \* of several, see there
    sizes, entries,                     \* of ArchPackage and DebPackage
    encoder,                            \* of ArchPackage
    ar,                                 \* of DebPackage
    opened, temp, vanished              \* of RpmPackage

callVars == <<contents, settings, host, touches, pc, output>>
madeVars == <<next, tar, totalSize, meta>>
listVars == <<sizes, entries>>
rpmVars  == <<opened, temp, vanished>>

vars == <<format, callVars, madeVars, listVars, encoder, ar, rpmVars>>

Of(f, perFormat) == IF f \in Formats THEN perFormat[f] ELSE {}

Arch == INSTANCE ArchPackage WITH
            Inputs   <- Of("archlinux", Inputs),
            Settings <- Of("archlinux", Settings)

Deb == INSTANCE DebPackage WITH
            Inputs   <- Of("deb", Inputs),
            Settings <- Of("deb", Settings),
            data     <- tar,
            md5sums  <- entries,
            instSize <- totalSize,
            control  <- meta

Ipk == INSTANCE IpkPackage WITH
            Inputs   <- Of("ipk", Inputs),
            Settings <- Of("ipk", Settings)

(* A source package is made from the contents of the binary package. *)
Rpm == INSTANCE RpmPackage WITH
            Inputs   <- Of("rpm", Inputs),
            Settings <- Of("rpm", Settings)

Msix == INSTANCE MsixPackage WITH
            Inputs   <- Of("msix", Inputs),
            Settings <- Of("msix", Settings)

NoList == sizes = <<>> /\ entries = <<>>
NoArch == encoder = "clean"
NoDeb  == ar = <<>>
NoRpm  == opened = Rpm!NoFile /\ temp = "none"

Init ==
    /\ format \in Formats
    /\ vanished = FALSE
    /\ \/ /\ format = "archlinux"
          /\ Arch!Init /\ NoDeb /\ NoRpm /\ meta = <<>>
       \/ /\ format = "deb"
          /\ Deb!Init /\ NoArch /\ NoRpm /\ output = "none"
       \/ /\ format = "ipk"
          /\ Ipk!Init /\ NoList /\ NoArch /\ NoDeb /\ NoRpm
       \/ /\ format \in {"rpm", "srpm"}
          /\ Rpm!Init /\ NoList /\ NoArch /\ NoDeb /\ totalSize = 0
       \/ /\ format = "msix"
          /\ Msix!Init /\ NoList /\ NoArch /\ NoDeb /\ NoRpm
          /\ next = 1 /\ tar = Arch!EmptyTar /\ totalSize = 0

PackageArch == format = "archlinux" /\ Arch!Package /\ UNCHANGED <<format, rpmVars, ar, meta>>
PackageDeb  == format = "deb" /\ Deb!Package /\ UNCHANGED <<format, rpmVars, encoder, output>>
PackageIpk  == format = "ipk" /\ Ipk!Package /\ UNCHANGED <<format, rpmVars, listVars, encoder, ar>>
PackageRpm  == format \in {"rpm", "srpm"} /\ Rpm!Package
               /\ UNCHANGED <<listVars, encoder, ar, totalSize>>
PackageMsix == format = "msix" /\ Msix!Package
               /\ UNCHANGED <<format, rpmVars, listVars, encoder, ar, next, tar, totalSize>>

Package == PackageArch \/ PackageDeb \/ PackageIpk \/ PackageRpm \/ PackageMsix

Meanwhile ==
    /\ pc \notin {"done", "failed"}
    /\ Touch
    /\ IF format \in {"rpm", "srpm"} THEN Rpm!NoteVanishing ELSE UNCHANGED vanished
    /\ UNCHANGED <<format, contents, settings, pc, output, madeVars, listVars, encoder, ar,
                   opened, temp>>

Next == Package \/ Meanwhile

Spec == Init /\ [][Next]_vars

-----------------------------------------------------------------------------
(* Types of the variables, and of those that only one packager uses.       *)
TypeOK ==
    /\ format \in Formats
    /\ host \in [Sources -> Versions \cup {Gone}]
    /\ output \in {"none", "part", "all"}
    /\ next \in 1..(Len(contents) + 1)
    /\ totalSize \in Nat /\ tar.owed \in Nat
    /\ temp \in {"none", "there", "stuck"}
    /\ format = "archlinux" => Arch!TypeOK
    /\ format = "deb" => Deb!TypeOK
    /\ format # "archlinux" => NoArch
    /\ format # "deb" => NoDeb
    /\ format # "srpm" => NoRpm

(* What Package returns: nil, or an error. *)
Outcome == CASE pc = "done" -> "ok" [] pc = "failed" -> "failed" [] OTHER -> "running"

(* Every packager keeps the promise of its interface: it writes, it        *)
(* returns once, and no error means that all of the package was written.   *)
(* The arch packager keeps the lesser promise of one that streams: it      *)
(* returns nil over a package whose last bytes the writer refused.         *)
Promise == INSTANCE Packaging WITH
              output  <- IF format = "deb" THEN Deb!Output ELSE output,
              outcome <- Outcome,
              streams <- format = "archlinux"

KeepsPromise == Promise!Spec

(* What the packagers write about their packages is true of them: see the  *)
(* properties of this name in their modules.                               *)
DescribesItself ==
    /\ format = "archlinux" => Arch!DescribesItself
    /\ format = "deb" => Deb!DescribesItself
    /\ format = "ipk" => Ipk!DescribesItself
    /\ format = "msix" => Msix!DescribesItself

(* A property of DebPackage, *)
SignatureCoversArchive == format = "deb" => Deb!SignatureCoversArchive

(* those of RpmPackage, *)
RebuildReproduces     == Rpm!RebuildReproduces
TempIsRemoved         == Rpm!TempIsRemoved
ChangelogNotForgotten == format \in {"rpm", "srpm"} => Rpm!ChangelogNotForgotten

(* and one of MsixPackage. *)
DefaultsAreStable == format = "msix" => Msix!DefaultsAreStable
===============================================================================
