------------------------------- MODULE Naming --------------------------------
(***************************************************************************)
(* How a version is spelled: in the conventional file name of a package,   *)
(* and in what the package says of itself (nfpm.go, and each packager's    *)
(* ConventionalFileName and control data).  Spellings are texts, for two   *)
(* versions may be told apart by their parts and not by the joined text.   *)
(* What a library or a loop over characters makes of a text is a table.    *)
(* Name and architecture are the same for all packages, and left out.      *)
(***************************************************************************)
EXTENDS Sequences

CONSTANTS
    Semver,         \* the parts of the texts that are a semantic version
    Underscored,    \* each prerelease with "_" for "-"
    Atoi,           \* the releases that are a number, as it is printed
    ApkMarked       \* the releases with an "r", the metadata with a "p" before them

Or(text, default) == IF text = "" THEN default ELSE text

Mark(mark, text) == IF text = "" THEN "" ELSE mark \o text

(* parseSemver fills in what was not set. *)
parseSemver(info) ==
    IF info.version \notin DOMAIN Semver THEN info
    ELSE LET v == Semver[info.version] IN
         [info EXCEPT !.version = v.core,
                      !.prerelease = Or(@, v.prerelease),
                      !.metadata = Or(@, v.metadata)]

WithDefaults(info) ==
    LET versioned == [info EXCEPT !.version = Or(@, "v0.0.0-rc0")] IN
    IF info.schema = "none" THEN versioned ELSE parseSemver(versioned)

(* Parse sets the defaults, and doPackage sets them again. *)
Defaulted(info) == WithDefaults(WithDefaults(info))

(* The file name of a deb. *)
DebianVersion(info) ==
    info.version \o Mark("~", info.prerelease) \o Mark("+", info.metadata)
                 \o Mark("-", info.release)

(* rpm's formatVersion. *)
formatVersion(info) ==
    info.version \o Mark("~", Underscored[info.prerelease]) \o Mark("+", info.metadata)

(* apk's pkgver. *)
pkgver(info) ==
    info.version \o Mark("_", info.prerelease)
                 \o Mark("-", IF info.release = "" THEN "" ELSE ApkMarked[info.release])
                 \o Mark("-", IF info.metadata = "" THEN "" ELSE ApkMarked[info.metadata])

pkgrel(info) == IF info.release \in DOMAIN Atoi THEN Atoi[info.release] ELSE "1"

(* The file name of an archlinux package. *)
ArchVersion(info) == info.version \o Underscored[info.prerelease] \o "-" \o pkgrel(info)

(* Mutant: the release of a deb is left to the control file. *)
ConventionalUnreleased(format, info) ==
    CASE format = "deb" -> info.version \o Mark("~", info.prerelease) \o ".deb"
      [] format = "rpm" -> formatVersion(info) \o "-" \o Or(info.release, "1") \o ".rpm"
      [] format = "apk" -> pkgver(info) \o ".apk"
      [] format = "archlinux" -> ArchVersion(info) \o ".pkg.tar.zst"

ConventionalFileName(format, info) ==
    CASE format = "deb" -> DebianVersion(info) \o ".deb"
      [] format = "rpm" -> formatVersion(info) \o "-" \o Or(info.release, "1") \o ".rpm"
      [] format = "apk" -> pkgver(info) \o ".apk"
      [] format = "archlinux" -> ArchVersion(info) \o ".pkg.tar.zst"

(* The version in the control file of a deb. *)
controlVersion(info) ==
    info.version \o Mark("~", info.prerelease) \o Mark("+", info.metadata)
                 \o Mark("-", info.release)

(* The version in .PKGINFO has its prerelease only if it has an epoch.     *)
pkginfoVersion(info) ==
    IF info.epoch = "" THEN info.version \o "-" \o pkgrel(info) ELSE ArchVersion(info)

(* What a package manager compares, the epoch aside. *)
StatedVersion(format, info) ==
    CASE format = "deb" -> controlVersion(info)
      [] format = "rpm" -> formatVersion(info) \o "-" \o Or(info.release, "1")
      [] format = "apk" -> pkgver(info)
      [] format = "archlinux" -> pkginfoVersion(info)
==============================================================================
