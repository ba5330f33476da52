----------------------------- MODULE MCPackageCmd -----------------------------
(***************************************************************************)
(* Two runs of the command with every kind of target, with the packager    *)
(* named, guessed and guessed wrong; and, where the name is left to the    *)
(* packager, with versions that are spelled alike.                         *)
(***************************************************************************)
EXTENDS PackageCmd, TLC

MCSemver ==
    [v \in {"v1.0.0-rc1", "v0.0.0-rc0", "1.0.0", "1.0.0+g1"} |->
        [core |-> IF v = "v0.0.0-rc0" THEN "0.0.0" ELSE "1.0.0",
         prerelease |-> CASE v = "v1.0.0-rc1" -> "rc1" [] v = "v0.0.0-rc0" -> "rc0"
                          [] OTHER -> "",
         metadata |-> IF v = "1.0.0+g1" THEN "g1" ELSE ""]] @@ ("0.0.0" :>
        [core |-> "0.0.0", prerelease |-> "", metadata |-> ""])

MCUnderscored ==
    [p \in {"", "rc0", "rc1", "rc_1"} |-> p] @@ ("rc-1" :> "rc_1")

MCAtoi == "2" :> "2" @@ "02" :> "2"

MCApkMarked == "2" :> "r2" @@ "02" :> "r02" @@ "r2" :> "r2" @@ "g1" :> "pg1"

Names == INSTANCE Naming
    WITH Semver <- MCSemver, Underscored <- MCUnderscored, Atoi <- MCAtoi,
         ApkMarked <- MCApkMarked

Plain == [schema |-> "semver", version |-> "1.0.0", prerelease |-> "", metadata |-> "",
          release |-> "", epoch |-> ""]

(* Parts of one version in several fields, and versions that only look     *)
(* alike.                                                                  *)
Infos ==
    {Plain,
     [Plain EXCEPT !.version = "v1.0.0-rc1"],
     [Plain EXCEPT !.prerelease = "rc1"],
     [Plain EXCEPT !.prerelease = "rc1", !.epoch = "1"],
     [Plain EXCEPT !.version = "1.0.0rc1"],
     [Plain EXCEPT !.prerelease = "rc-1"],
     [Plain EXCEPT !.prerelease = "rc_1"],
     [Plain EXCEPT !.version = "1.0.0+g1"],
     [Plain EXCEPT !.version = "1.0.0+g1", !.schema = "none"],
     [Plain EXCEPT !.release = "2"],
     [Plain EXCEPT !.release = "02"],
     [Plain EXCEPT !.release = "r2"],
     [Plain EXCEPT !.version = "1.0.0-2", !.schema = "none"],
     [Plain EXCEPT !.version = ""]}

Formats == {"deb", "rpm", "apk", "archlinux"}

Request(target, extension, packager, good, format, info) ==
    [target |-> target, extension |-> extension, packager |-> packager,
     configGood |-> good, info |-> info,
     conventional |-> Names!ConventionalFileName(format, Names!Defaulted(info))]

MCRequests ==
    {Request("file", extension, packager, good, "deb", Plain) :
        extension \in {"deb", "zst"}, packager \in {"", "deb"}, good \in BOOLEAN}
    \cup {Request("blank", "", packager, good, "deb", Plain) :
        packager \in {"", "deb", "unknown"}, good \in BOOLEAN}
    \cup {Request("directory", "", format, TRUE, format, info) :
        format \in Formats, info \in Infos}

MCPaths == {"named"} \cup {r.conventional : r \in MCRequests}

(* A run that leaves the name to ConventionalFileName does not replace the *)
(* package of another version: the name tells all versions apart that the  *)
(* control data tell apart, except the epoch, which no name has, and the   *)
(* prerelease of an archlinux package, which without an epoch has a place  *)
(* in the name only, joined to the version before it.                      *)
NamesTellVersions ==
    pc = "ok" /\ before[path].amount = "all" =>
        LET earlier == calls[before[path].run]
            Version(r) == Names!StatedVersion(r.packager, Names!Defaulted(r.info))
        IN /\ "file" \notin {earlier.target, request.target}
           /\ earlier.info.epoch = request.info.epoch
           /\ request.packager = "archlinux" => request.info.epoch # ""
           => Version(earlier) = Version(request)
===============================================================================
