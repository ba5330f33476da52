---------------------------- MODULE PackagersProofs ----------------------------
(***************************************************************************)
(* What holds of every packager, whatever the contents, the settings and   *)
(* the files of the host are and however often these change.               *)
(***************************************************************************)
EXTENDS Packagers, TarStreamProofs, FiniteSetTheorems

Names == {"archlinux", "deb", "ipk", "rpm", "srpm", "msix"}

Hosts == [Sources -> Versions \cup {Gone}]

(* The contents of a source package are those prepared for an rpm. *)
InputFormat == IF format = "srpm" THEN "rpm" ELSE format

(* What no packager changes, and what the host is. *)
GivenOK ==
    /\ format \in Formats /\ format \in Names
    /\ contents \in Of(InputFormat, Inputs)
    /\ host \in Hosts
    /\ touches \in Nat

(* What every call leaves as it finds it, except for the host. *)
Kept == UNCHANGED <<format, contents>>

Frozen == Kept /\ UNCHANGED <<host, touches>>

-----------------------------------------------------------------------------
(* Every call starts with contents that were prepared for the format and   *)
(* with the files that they name.                                          *)
LEMMA InitGiven == Init => GivenOK /\ pc = "start"
  BY DEF Init, GivenOK, InputFormat, Hosts, Names, Of,
         Arch!Init, Deb!Init, Ipk!Init, Rpm!Init, Msix!Init,
         Arch!HostInit, Deb!HostInit, Ipk!HostInit, Rpm!HostInit, Msix!HostInit

(* No step of (ArchLinux).Package changes its contents or the host. *)
LEMMA ArchFrozen == PackageArch => Frozen
  BY DEF PackageArch, Arch!Package, Frozen, Kept, Arch!input, Arch!Start, Arch!AddContent,
         Arch!CreatePkginfo, Arch!CreateMtree, Arch!CreateScripts, Arch!Close

(* Neither does one of (Deb).Package, *)
LEMMA DebFrozen == PackageDeb => Frozen
  BY DEF PackageDeb, Deb!Package, Frozen, Kept, Deb!input, Deb!Start, Deb!AddMember,
         Deb!CreateControl, Deb!AddArFile, Deb!Sign

(* of (IPK).Package, *)
LEMMA IpkFrozen == PackageIpk => Frozen
  BY DEF PackageIpk, Ipk!Package, Frozen, Kept, Ipk!input, Ipk!Start, Ipk!AddContent,
         Ipk!PopulateControl, Ipk!Write

(* of (RPM).Package, *)
LEMMA RpmFrozen == PackageRpm => Frozen
  BY DEF PackageRpm, Rpm!Package, Frozen, Kept, Rpm!input, Rpm!Start, Rpm!ApplyMetadata,
         Rpm!ApplySourceMetadata, Rpm!ReadScripts, Rpm!StatChangelog, Rpm!ParseChangelog,
         Rpm!AddContents, Rpm!WriteFilesSection, Rpm!CreateTemp, Rpm!AddEntry, Rpm!CopyFile,
         Rpm!ClosePayload, Rpm!Build, Rpm!Write

(* and of (MSIX).Package. *)
LEMMA MsixFrozen == PackageMsix => Frozen
  BY DEF PackageMsix, Msix!Package, Frozen, Kept, Msix!Start, Msix!BuildManifest,
         Msix!ConfigureSigning, Msix!Build

(* Somebody else's step puts another version into a file or removes it. *)
LEMMA TouchGiven == GivenOK /\ Meanwhile => GivenOK'
<1> SUFFICES ASSUME GivenOK, Meanwhile PROVE GivenOK'
  OBVIOUS
<1>1. touches' \in Nat
  BY DEF Meanwhile, Touch, GivenOK
<1>2. host' \in Hosts
  BY DEF Meanwhile, Touch, GivenOK, Hosts
<1> QED
  BY <1>1, <1>2 DEF GivenOK, Meanwhile, InputFormat

(* A step is one of the packager, which changes nothing it was given, one  *)
(* of somebody else, or none.                                              *)
LEMMA StepGiven ==
    ASSUME GivenOK, [Next]_vars
    PROVE  /\ GivenOK' /\ Kept
           /\ \/ Package /\ Frozen
              \/ Meanwhile
              \/ UNCHANGED vars
<1>1. CASE Package
  <2>1. Frozen
    BY <1>1, ArchFrozen, DebFrozen, IpkFrozen, RpmFrozen, MsixFrozen DEF Package
  <2> QED
    BY <1>1, <2>1 DEF Frozen, Kept, GivenOK, InputFormat
<1>2. CASE Meanwhile
  BY <1>2, TouchGiven DEF Meanwhile, Kept
<1>3. CASE UNCHANGED vars
  BY <1>3 DEF vars, callVars, Kept, GivenOK, InputFormat
<1> QED
  BY <1>1, <1>2, <1>3 DEF Next

(* What a packager is given stays as it is. *)
LEMMA GivenStays == Spec => []GivenOK
<1>1. Init => GivenOK
  BY InitGiven
<1>2. GivenOK /\ [Next]_vars => GivenOK'
  BY StepGiven
<1> QED
  BY <1>1, <1>2, PTL DEF Spec

-----------------------------------------------------------------------------
(* Only a source package has a temporary file. *)
TempInv == TempIsRemoved /\ (format \notin {"rpm", "srpm"} => temp = "none")

(* The temporary file of a source package: on every way out of             *)
(* (RPM).Package it is removed, or the removal itself has failed, whatever *)
(* error ends the call and at whichever step.                              *)
THEOREM TempAlwaysRemoved == Spec => []TempIsRemoved
<1>1. Init => TempInv
  BY InitGiven DEF Init, Deb!Init, Ipk!Init, Msix!Init, Arch!Init, NoRpm, TempInv,
                   TempIsRemoved, Rpm!TempIsRemoved
<1>2. ASSUME TempInv, [Next]_vars PROVE TempInv'
  <2>1. CASE PackageRpm
    BY <1>2, <2>1, RpmFrozen DEF PackageRpm, Frozen, Kept, Rpm!Package, Rpm!Start, Rpm!ApplyMetadata,
         Rpm!ApplySourceMetadata, Rpm!ReadScripts, Rpm!StatChangelog, Rpm!ParseChangelog,
         Rpm!AddContents, Rpm!WriteFilesSection, Rpm!CreateTemp, Rpm!AddEntry, Rpm!CopyFile,
         Rpm!ClosePayload, Rpm!Build, Rpm!Write, Rpm!Fail, Rpm!Return, Rpm!RemoveTemp,
         Rpm!Discard, Rpm!Continue,
         TempInv, TempIsRemoved, Rpm!TempIsRemoved
  <2>2. CASE PackageArch \/ PackageDeb \/ PackageIpk \/ PackageMsix
    BY <1>2, <2>2 DEF PackageArch, PackageDeb, PackageIpk, PackageMsix, rpmVars,
         TempInv, TempIsRemoved, Rpm!TempIsRemoved
  <2>3. CASE Meanwhile \/ UNCHANGED vars
    BY <1>2, <2>3 DEF Meanwhile, vars, callVars, rpmVars, TempInv, TempIsRemoved, Rpm!TempIsRemoved
  <2> QED
    BY <1>2, <2>1, <2>2, <2>3 DEF Next, Package
<1> QED
  BY <1>1, <1>2, PTL DEF Spec, TempInv

-----------------------------------------------------------------------------
(***************************************************************************)
(* The promise of nfpm.Packager.                                           *)
(***************************************************************************)
Running == pc \notin {"done", "failed"}

(* The archive of a deb at the stages of its call. *)
ArStages ==
    /\ IsList(ar)
    /\ pc \in {"start", "data", "control"} => ar = <<>>
    /\ pc = "ar" => Len(ar) < 3
    /\ pc = "sign" => Len(ar) = 3 /\ Deb!Signed(settings.signature)

(* Nobody has written a whole package before the call is at its end, and   *)
(* all but the arch packager, which writes while it works, and the deb     *)
(* packager, which writes an archive of three or four parts, have written  *)
(* nothing.                                                                *)
PromiseInv ==
    /\ format # "archlinux" => encoder = "clean"
    /\ format # "archlinux" /\ Running => output = "none"
    /\ format = "archlinux" /\ Running => output \in {"none", "part"}
    /\ format = "deb" => ArStages

(* Nothing is written before the call. *)
LEMMA InitPromise == Init => PromiseInv /\ Promise!Init
<1> SUFFICES ASSUME Init PROVE PromiseInv /\ Promise!Init
  OBVIOUS
<1>1. pc = "start" /\ output = "none"
  BY DEF Init, Arch!Init, Deb!Init, Ipk!Init, Rpm!Init, Msix!Init
<1>2. format # "archlinux" => encoder = "clean"
  BY DEF Init, NoArch
<1>3. format = "deb" => ar = <<>>
  BY DEF Init, Deb!Init
<1>4. PromiseInv
  BY <1>1, <1>2, <1>3, EmptyIsList DEF PromiseInv, Running, ArStages
<1>5. Promise!Init
  BY <1>1, <1>3 DEF Promise!Init, Outcome, Deb!Output
<1> QED
  BY <1>4, <1>5

(* A step of the arch packager is one of the promise, or none to the       *)
(* caller.                                                                 *)
LEMMA ArchPromise == PromiseInv /\ PackageArch => PromiseInv' /\ [Promise!Next]_Promise!vars
<1> SUFFICES ASSUME PromiseInv, PackageArch PROVE PromiseInv' /\ [Promise!Next]_Promise!vars
  OBVIOUS
<1> USE DEF PackageArch, PromiseInv, Running, Promise!vars, Promise!Next, Promise!Write,
            Promise!Succeed, Promise!SucceedCut, Promise!Fail, Outcome
<1>1. CASE Arch!Start
  BY <1>1 DEF Arch!Start
<1>2. CASE Arch!AddContent
  BY <1>2 DEF Arch!AddContent, Arch!AddWithoutBody, Arch!AddFile, Arch!CanPut, Arch!Put, Arch!Fail
<1>3. CASE Arch!CreatePkginfo
  BY <1>3 DEF Arch!CreatePkginfo, Arch!CanPut, Arch!Put, Arch!Fail
<1>4. CASE Arch!CreateMtree
  BY <1>4 DEF Arch!CreateMtree, Arch!CanPut, Arch!Put, Arch!Fail
<1>5. CASE Arch!CreateScripts
  BY <1>5 DEF Arch!CreateScripts, Arch!CanPut, Arch!Put, Arch!Fail
<1>6. CASE Arch!Close
  BY <1>6 DEF Arch!Close
<1> QED
  BY <1>1, <1>2, <1>3, <1>4, <1>5, <1>6 DEF Arch!Package

(* A step of the deb packager adds a part to its archive, or none. *)
LEMMA DebPromise == PromiseInv /\ PackageDeb => PromiseInv' /\ [Promise!Next]_Promise!vars
<1> SUFFICES ASSUME PromiseInv, PackageDeb PROVE PromiseInv' /\ [Promise!Next]_Promise!vars
  OBVIOUS
<1> USE DEF PackageDeb, PromiseInv, Running, ArStages, Promise!vars, Promise!Next, Promise!Write,
            Promise!Succeed, Promise!SucceedCut, Promise!Fail, Outcome, Deb!Output, Deb!Wanted
<1>1. CASE Deb!Start
  BY <1>1 DEF Deb!Start
<1>2. CASE Deb!AddMember
  BY <1>2 DEF Deb!AddMember, Deb!AddWithoutBody, Deb!AddFile, Deb!AddChangelog, Deb!AddRegular,
              Deb!CloseData, Deb!Fail, Deb!input
<1>3. CASE Deb!CreateControl
  BY <1>3 DEF Deb!CreateControl, Deb!Fail, Deb!input
<1>4. CASE Deb!AddArFile
  <2>1. CASE Deb!Fail
    BY <1>4, <2>1 DEF Deb!AddArFile, Deb!Fail, Deb!input
  <2>2. CASE ~ Deb!Fail
    <3>1. /\ pc = "ar" /\ ar' = Append(ar, Deb!PackageFiles[Len(ar) + 1])
          /\ pc' = IF Len(ar) + 1 < 3 THEN "ar"
                   ELSE IF Deb!Signed(settings.signature) THEN "sign" ELSE "done"
          /\ settings' = settings
      BY <1>4, <2>2 DEF Deb!AddArFile, Deb!input, Deb!PackageFiles
    <3>2. IsList(ar') /\ Len(ar') = Len(ar) + 1 /\ ar' # <<>> /\ Len(ar) \in Nat /\ Len(ar) < 3
      BY <3>1, ListAppend, ListLength, EmptyIsList
    <3>3. PromiseInv'
      BY <3>1, <3>2
    <3> QED
      BY <3>1, <3>2, <3>3
  <2> QED
    BY <2>1, <2>2
<1>5. CASE Deb!Sign
  <2>1. CASE Deb!Fail
    BY <1>5, <2>1 DEF Deb!Sign, Deb!Fail, Deb!input
  <2>2. CASE ~ Deb!Fail
    <3>1. PICK x : ar' = Append(ar, x)
      BY <1>5, <2>2 DEF Deb!Sign
    <3>2. pc = "sign" /\ pc' = "done" /\ settings' = settings
      BY <1>5, <2>2 DEF Deb!Sign, Deb!input
    <3>3. IsList(ar) /\ Len(ar) = 3
      BY <3>2
    <3>4. IsList(ar') /\ Len(ar') = Len(ar) + 1
      BY <3>1, <3>3, ListAppend
    <3>5. Len(ar') = 4 /\ ar' # <<>> /\ ar # <<>>
      BY <3>3, <3>4, EmptyIsList
    <3> QED
      BY <3>2, <3>3, <3>4, <3>5
  <2> QED
    BY <2>1, <2>2
<1> QED
  BY <1>1, <1>2, <1>3, <1>4, <1>5 DEF Deb!Package

(* The others write once. *)
LEMMA OthersPromise ==
    PromiseInv /\ (PackageIpk \/ PackageRpm \/ PackageMsix)
        => PromiseInv' /\ [Promise!Next]_Promise!vars
<1> SUFFICES ASSUME PromiseInv, PackageIpk \/ PackageRpm \/ PackageMsix
             PROVE  PromiseInv' /\ [Promise!Next]_Promise!vars
  OBVIOUS
<1> USE DEF PromiseInv, Running, Promise!vars, Promise!Next, Promise!Write,
            Promise!Succeed, Promise!SucceedCut, Promise!Fail, Outcome
<1>1. CASE PackageIpk
  BY <1>1 DEF PackageIpk, Ipk!Package, Ipk!Start, Ipk!AddContent, Ipk!AddWithoutBody, Ipk!AddFile,
              Ipk!PopulateControl, Ipk!Write, Ipk!Fail
<1>2. CASE PackageMsix
  BY <1>2 DEF PackageMsix, Msix!Package, Msix!Start, Msix!BuildManifest, Msix!ConfigureSigning,
              Msix!Build, Msix!Fail
<1>3. CASE PackageRpm
  BY <1>3, RpmFrozen DEF Frozen, Kept, PackageRpm, Rpm!Package, Rpm!Start, Rpm!ApplyMetadata,
         Rpm!ApplySourceMetadata, Rpm!ReadScripts, Rpm!StatChangelog, Rpm!ParseChangelog,
         Rpm!AddContents, Rpm!WriteFilesSection, Rpm!CreateTemp, Rpm!AddEntry, Rpm!CopyFile,
         Rpm!ClosePayload, Rpm!Build, Rpm!Write, Rpm!Fail, Rpm!Return, Rpm!RemoveTemp,
         Rpm!Discard, Rpm!Continue
<1> QED
  BY <1>1, <1>2, <1>3

(* Every packager keeps its promise, step by step, also when any step      *)
(* fails or the files of the host change: it writes, it returns once, and  *)
(* if it returns no error then all of the package has reached the caller's *)
(* writer, but for archlinux, which keeps the lesser promise of a packager *)
(* that streams and returns nil over a package that was cut short.         *)
THEOREM PromiseKept == Spec => KeepsPromise
<1>1. Init => PromiseInv /\ Promise!Init
  BY InitPromise
<1>2. ASSUME PromiseInv, [Next]_vars PROVE PromiseInv' /\ [Promise!Next]_Promise!vars
  <2>1. CASE Package
    BY <1>2, <2>1, ArchPromise, DebPromise, OthersPromise DEF Package
  <2>2. CASE Meanwhile \/ UNCHANGED vars
    BY <1>2, <2>2 DEF Meanwhile, vars, callVars, PromiseInv, Running, ArStages, Promise!vars,
                      Outcome, Deb!Output, Deb!Wanted
  <2> QED
    BY <1>2, <2>1, <2>2 DEF Next
<1> QED
  BY <1>1, <1>2, PTL DEF Spec, KeepsPromise, Promise!Spec

-----------------------------------------------------------------------------
(***************************************************************************)
(* The defaults of an msix package.                                        *)
(***************************************************************************)
IsApp(a) ==
    a = [id |-> a.id, executable |-> a.executable, entryPoint |-> a.entryPoint, tile |-> a.tile]

(* What the settings of an msix are, before the defaults and after them. *)
MsixInfo(info) ==
    /\ info = [publisher |-> info.publisher, logo |-> info.logo,
               applications |-> info.applications, restricted |-> info.restricted,
               families |-> info.families, pfx |-> info.pfx]
    /\ IsList(info.restricted)
    /\ \A i \in DOMAIN info.applications : IsApp(info.applications[i])

DefaultApps(info) ==
    [i \in DOMAIN info.applications |-> Msix!AppDefaults(info.applications[i], info.logo)]

NeedsFullTrust(info) == \E i \in DOMAIN info.applications :
    DefaultApps(info)[i].entryPoint = Msix!FullTrust

DefaultRestricted(info) ==
    IF NeedsFullTrust(info) /\ "runFullTrust" \notin Msix!Listed(info.restricted)
    THEN Append(info.restricted, "runFullTrust") ELSE info.restricted

DefaultFamilies(info) == IF info.families = <<>> THEN <<"Windows.Desktop">> ELSE info.families

(* SetPackagerDefaults, field by field. *)
LEMMA DefaultFields ==
    ASSUME NEW info, MsixInfo(info)
    PROVE  Msix!SetPackagerDefaults(info) =
               [publisher |-> info.publisher, logo |-> info.logo,
                applications |-> DefaultApps(info), restricted |-> DefaultRestricted(info),
                families |-> DefaultFamilies(info), pfx |-> info.pfx]
<1> DEFINE D == {"publisher", "logo", "applications", "restricted", "families", "pfx"}
           r == [info EXCEPT !.applications = DefaultApps(info),
                             !.restricted = DefaultRestricted(info),
                             !.families = DefaultFamilies(info)]
           q == [publisher |-> info.publisher, logo |-> info.logo,
                 applications |-> DefaultApps(info), restricted |-> DefaultRestricted(info),
                 families |-> DefaultFamilies(info), pfx |-> info.pfx]
<1>1. (\E i \in DOMAIN DefaultApps(info) : DefaultApps(info)[i].entryPoint = Msix!FullTrust)
         <=> NeedsFullTrust(info)
  BY DEF DefaultApps, NeedsFullTrust
<1>2. Msix!SetPackagerDefaults(info) = r
  BY <1>1, Zenon DEF Msix!SetPackagerDefaults, DefaultApps, DefaultRestricted, DefaultFamilies
<1> SUFFICES r = q
  BY <1>2
<1>3. info = [x \in D |-> info[x]]
  BY DEF MsixInfo
<1>4. DOMAIN info = D
  BY <1>3
<1>5. r = [x \in D |-> r[x]]
  BY <1>4
<1>6. q = [x \in D |-> q[x]]
  OBVIOUS
<1>7. r.publisher = info.publisher /\ r.logo = info.logo /\ r.pfx = info.pfx
  BY <1>4
<1>8. r.applications = DefaultApps(info)
  BY <1>4
<1>9. r.restricted = DefaultRestricted(info)
  BY <1>4
<1>10. r.families = DefaultFamilies(info)
  BY <1>4
<1>11. /\ q.publisher = info.publisher /\ q.logo = info.logo /\ q.pfx = info.pfx
       /\ q.applications = DefaultApps(info) /\ q.restricted = DefaultRestricted(info)
       /\ q.families = DefaultFamilies(info)
  OBVIOUS
<1> HIDE DEF r, q
<1>12. \A x \in D : r[x] = q[x]
  BY <1>7, <1>8, <1>9, <1>10, <1>11
<1> HIDE DEF D
<1> QED
  BY <1>5, <1>6, <1>12, SameFunction

(* The fields of an application with its defaults; an entry point that was *)
(* given or set is not empty.                                              *)
LEMMA AppFields ==
    ASSUME NEW a, NEW logo, IsApp(a)
    PROVE  Msix!AppDefaults(a, logo) =
               [id |-> a.id, executable |-> a.executable,
                entryPoint |-> IF a.entryPoint = "" THEN Msix!FullTrust ELSE a.entryPoint,
                tile |-> IF a.tile = "" THEN logo ELSE a.tile]
<1> DEFINE D == {"id", "executable", "entryPoint", "tile"}
           e == IF a.entryPoint = "" THEN Msix!FullTrust ELSE a.entryPoint
           t == IF a.tile = "" THEN logo ELSE a.tile
           r == [a EXCEPT !.entryPoint = e, !.tile = t]
           q == [id |-> a.id, executable |-> a.executable, entryPoint |-> e, tile |-> t]
<1>1. Msix!AppDefaults(a, logo) = r
  BY Zenon DEF Msix!AppDefaults
<1> HIDE DEF e, t
<1> SUFFICES r = q
  BY <1>1, Zenon DEF e, t
<1>2. a = [x \in D |-> a[x]]
  BY DEF IsApp
<1>3. DOMAIN a = D
  BY <1>2
<1>4. r = [x \in D |-> r[x]]
  BY <1>3
<1>5. q = [x \in D |-> q[x]]
  OBVIOUS
<1>6. r.id = a.id /\ r.executable = a.executable
  BY <1>3
<1>7. r.entryPoint = e
  BY <1>3
<1>8. r.tile = t
  BY <1>3
<1>9. q.id = a.id /\ q.executable = a.executable /\ q.entryPoint = e /\ q.tile = t
  OBVIOUS
<1> HIDE DEF r, q
<1>10. \A x \in D : r[x] = q[x]
  BY <1>6, <1>7, <1>8, <1>9
<1> HIDE DEF D
<1> QED
  BY <1>4, <1>5, <1>10, SameFunction

(* The defaults of an application are its defaults. *)
LEMMA AppDefaultsStable ==
    ASSUME NEW a, NEW logo, IsApp(a)
    PROVE  /\ IsApp(Msix!AppDefaults(a, logo))
           /\ Msix!AppDefaults(Msix!AppDefaults(a, logo), logo) = Msix!AppDefaults(a, logo)
<1> DEFINE b == Msix!AppDefaults(a, logo)
<1>1. b = [id |-> a.id, executable |-> a.executable,
           entryPoint |-> IF a.entryPoint = "" THEN Msix!FullTrust ELSE a.entryPoint,
           tile |-> IF a.tile = "" THEN logo ELSE a.tile]
  BY AppFields
<1> HIDE DEF b
<1>2. IsApp(b)
  BY <1>1 DEF IsApp
<1>3. b.entryPoint # ""
  BY <1>1 DEF Msix!FullTrust
<1>4. b.tile = "" => logo = ""
  BY <1>1
<1>5. Msix!AppDefaults(b, logo) = [id |-> b.id, executable |-> b.executable,
                                   entryPoint |-> b.entryPoint, tile |-> b.tile]
  BY <1>2, <1>3, <1>4, AppFields
<1>6. Msix!AppDefaults(b, logo) = b
  BY <1>2, <1>5 DEF IsApp
<1> QED
  BY <1>2, <1>6 DEF b

(* Writing the defaults twice is writing them once. *)
LEMMA DefaultsStable ==
    ASSUME NEW info, MsixInfo(info)
    PROVE  LET done == Msix!SetPackagerDefaults(info) IN
           /\ Msix!SetPackagerDefaults(done) = done
           /\ MsixInfo(done)
<1> DEFINE done == Msix!SetPackagerDefaults(info)
<1>1. done = [publisher |-> info.publisher, logo |-> info.logo,
              applications |-> DefaultApps(info), restricted |-> DefaultRestricted(info),
              families |-> DefaultFamilies(info), pfx |-> info.pfx]
  BY DefaultFields
<1> HIDE DEF done
<1>2. DOMAIN done.applications = DOMAIN info.applications
  BY <1>1 DEF DefaultApps
<1>3. ASSUME NEW i \in DOMAIN info.applications
      PROVE  /\ Msix!AppDefaults(done.applications[i], done.logo) = done.applications[i]
             /\ IsApp(done.applications[i])
  <2>1. done.applications[i] = Msix!AppDefaults(info.applications[i], info.logo) /\ done.logo = info.logo
    BY <1>1 DEF DefaultApps
  <2> QED
    BY <2>1, AppDefaultsStable DEF MsixInfo
<1>4. DefaultApps(done) = done.applications
  <2>1. DefaultApps(done) = [i \in DOMAIN info.applications |-> done.applications[i]]
    BY <1>2, <1>3 DEF DefaultApps
  <2>2. done.applications = [i \in DOMAIN info.applications |-> done.applications[i]]
    BY <1>1 DEF DefaultApps
  <2> QED
    BY <2>1, <2>2
<1>5. NeedsFullTrust(done) <=> NeedsFullTrust(info)
  BY <1>1, <1>2, <1>4 DEF NeedsFullTrust
<1>6. IsList(done.restricted) /\ DefaultRestricted(done) = done.restricted
  <2>1. CASE NeedsFullTrust(info) /\ "runFullTrust" \notin Msix!Listed(info.restricted)
    <3>1. done.restricted = Append(info.restricted, "runFullTrust") /\ IsList(info.restricted)
      BY <1>1, <2>1 DEF DefaultRestricted, MsixInfo
    <3>2. IsList(done.restricted) /\ "runFullTrust" \in Msix!Listed(done.restricted)
      BY <3>1, ListAppend, ListLength DEF Msix!Listed
    <3> QED
      BY <3>2 DEF DefaultRestricted
  <2>2. CASE ~ (NeedsFullTrust(info) /\ "runFullTrust" \notin Msix!Listed(info.restricted))
    <3>1. done.restricted = info.restricted /\ IsList(info.restricted)
      BY <1>1, <2>2 DEF DefaultRestricted, MsixInfo
    <3> QED
      BY <1>5, <2>2, <3>1 DEF DefaultRestricted
  <2> QED
    BY <2>1, <2>2
<1>7. DefaultFamilies(done) = done.families
  <2>1. <<"Windows.Desktop">> # <<>>
    OBVIOUS
  <2> QED
    BY <1>1, <2>1 DEF DefaultFamilies
<1>8. MsixInfo(done)
  BY <1>1, <1>2, <1>3, <1>6 DEF MsixInfo
<1>9. Msix!SetPackagerDefaults(done) = done
  BY <1>1, <1>4, <1>6, <1>7, <1>8, DefaultFields
<1> QED
  BY <1>8, <1>9 DEF done

DefaultsInv ==
    format = "msix" => /\ MsixInfo(settings)
                       /\ pc # "start" => Msix!SetPackagerDefaults(settings) = settings

(* (MSIX).Package writes its defaults into the caller's Info before it     *)
(* checks anything: whatever becomes of the call, writing them again, for  *)
(* a second package from the same Info, changes nothing more.              *)
THEOREM DefaultsStay == Spec => []DefaultsAreStable
<1>1. Init => DefaultsInv
  <2> SUFFICES ASSUME Init, format = "msix" PROVE MsixInfo(settings) /\ pc = "start"
    BY DEF DefaultsInv
  <2>1. settings \in Settings["msix"] /\ "msix" \in Formats /\ pc = "start"
    BY DEF Init, Msix!Init, Of
  <2> QED
    BY <2>1, SettingsAssumption DEF MsixInfo, IsApp, IsList
<1>2. ASSUME DefaultsInv, [Next]_vars PROVE DefaultsInv'
  <2> SUFFICES ASSUME format' = "msix" PROVE DefaultsInv'
    BY DEF DefaultsInv
  <2>1. CASE PackageMsix
    <3>1. CASE Msix!Start
      BY <1>2, <2>1, <3>1, DefaultsStable DEF PackageMsix, DefaultsInv, Msix!Start
    <3>2. CASE Msix!BuildManifest \/ Msix!ConfigureSigning \/ Msix!Build
      BY <1>2, <2>1, <3>2 DEF PackageMsix, DefaultsInv, Msix!BuildManifest, Msix!ConfigureSigning,
                              Msix!Build, Msix!Fail
    <3> QED
      BY <2>1, <3>1, <3>2 DEF PackageMsix, Msix!Package
  <2>2. CASE PackageArch \/ PackageDeb \/ PackageIpk \/ PackageRpm
    BY <2>2, RpmFrozen DEF PackageArch, PackageDeb, PackageIpk, PackageRpm, Frozen, Kept
  <2>3. CASE Meanwhile \/ UNCHANGED vars
    BY <1>2, <2>3 DEF Meanwhile, vars, callVars, DefaultsInv
  <2> QED
    BY <1>2, <2>1, <2>2, <2>3 DEF Next, Package
<1>3. DefaultsInv => DefaultsAreStable
  BY DEF DefaultsInv, DefaultsAreStable, Msix!DefaultsAreStable
<1> QED
  BY <1>1, <1>2, <1>3, PTL DEF Spec

-----------------------------------------------------------------------------
(***************************************************************************)
(* What the rpm packager guarantees besides.                               *)
(***************************************************************************)
IsRpm == format \in {"rpm", "srpm"}

(* What the header of a package, or the spec, is made of. *)
MetaOK == meta = [scripts |-> meta.scripts, changelog |-> meta.changelog, files |-> meta.files]

(* Nothing is written before the last step. *)
WrittenLast == output # "none" => pc \in {"done", "failed"}

(* The stages after the one that parses the changelog. *)
AfterChangelog ==
    \/ pc \in {"files", "build", "write"}
    \/ pc = "metadata" /\ format = "srpm"
    \/ output # "none"

ChangelogInv ==
    IsRpm =>
        /\ MetaOK /\ WrittenLast
        /\ pc = "parse" => settings.changelog \in Sources
        /\ pc = "parse" => Rpm!There(settings.changelog) \/ vanished
        /\ AfterChangelog /\ settings.changelog # "" => meta.changelog # Gone \/ vanished

(* A part of the record that describes a package is replaced by itself. *)
LEMMA MetaUpdate ==
    ASSUME MetaOK, NEW x
    PROVE  /\ [meta EXCEPT !.scripts = x] =
                 [scripts |-> x, changelog |-> meta.changelog, files |-> meta.files]
           /\ [meta EXCEPT !.changelog = x] =
                 [scripts |-> meta.scripts, changelog |-> x, files |-> meta.files]
           /\ [meta EXCEPT !.files = x] =
                 [scripts |-> meta.scripts, changelog |-> meta.changelog, files |-> x]
<1> DEFINE D == {"scripts", "changelog", "files"}
           r1 == [meta EXCEPT !.scripts = x]
           r2 == [meta EXCEPT !.changelog = x]
           r3 == [meta EXCEPT !.files = x]
           q1 == [scripts |-> x, changelog |-> meta.changelog, files |-> meta.files]
           q2 == [scripts |-> meta.scripts, changelog |-> x, files |-> meta.files]
           q3 == [scripts |-> meta.scripts, changelog |-> meta.changelog, files |-> x]
<1> SUFFICES r1 = q1 /\ r2 = q2 /\ r3 = q3
  OBVIOUS
<1>1. DOMAIN meta = D
  BY DEF MetaOK
<1>2. /\ r1 = [f \in D |-> r1[f]] /\ r2 = [f \in D |-> r2[f]] /\ r3 = [f \in D |-> r3[f]]
      /\ q1 = [f \in D |-> q1[f]] /\ q2 = [f \in D |-> q2[f]] /\ q3 = [f \in D |-> q3[f]]
  BY <1>1
<1>3. \A f \in D : r1[f] = q1[f]
  BY <1>1
<1>4. \A f \in D : r2[f] = q2[f]
  BY <1>1
<1>5. \A f \in D : r3[f] = q3[f]
  BY <1>1
<1> HIDE DEF r1, r2, r3, q1, q2, q3, D
<1> QED
  BY <1>2, <1>3, <1>4, <1>5, SameFunction

-----------------------------------------------------------------------------
(***************************************************************************)
(* The changelog.                                                          *)
(***************************************************************************)
(* A step of the packager keeps the invariant: the changelog that was      *)
(* found is there to be parsed unless it vanished.                         *)
LEMMA ChangelogStep == GivenOK /\ ChangelogInv /\ PackageRpm => ChangelogInv'
<1> SUFFICES ASSUME GivenOK, ChangelogInv, PackageRpm PROVE ChangelogInv'
  OBVIOUS
<1>1. /\ format' = format /\ contents' = contents /\ host' = host /\ touches' = touches
      /\ IsRpm /\ MetaOK /\ WrittenLast /\ (vanished' <=> vanished)
      /\ pc = "parse" => settings.changelog \in Sources
      /\ pc = "parse" => Rpm!There(settings.changelog) \/ vanished
      /\ AfterChangelog /\ settings.changelog # "" => meta.changelog # Gone \/ vanished
  BY RpmFrozen DEF Frozen, Kept, ChangelogInv, PackageRpm, Rpm!Package, IsRpm
<1> USE DEF ChangelogInv, IsRpm, WrittenLast, AfterChangelog, Rpm!Fail, Rpm!Return, Rpm!Discard,
            Rpm!Continue, Rpm!input
<1>2. CASE UNCHANGED <<settings, meta>> /\ pc' = "failed" /\ UNCHANGED output
  BY <1>1, <1>2 DEF MetaOK, Rpm!There, Rpm!Exists
<1>3. CASE Rpm!Start
  BY <1>1, <1>3 DEF Rpm!Start, MetaOK, Rpm!There, Rpm!Exists
<1>4. CASE Rpm!ApplyMetadata
  BY <1>1, <1>4 DEF Rpm!ApplyMetadata, MetaOK, Rpm!There, Rpm!Exists
<1>5. CASE Rpm!ApplySourceMetadata
  BY <1>1, <1>5 DEF Rpm!ApplySourceMetadata, MetaOK, Rpm!There, Rpm!Exists
<1>6. CASE Rpm!ReadScripts
  BY <1>1, <1>2, <1>6, MetaUpdate DEF Rpm!ReadScripts, MetaOK
<1>7. CASE Rpm!StatChangelog
  BY <1>1, <1>7 DEF Rpm!StatChangelog, MetaOK, Rpm!There, Rpm!Exists
<1>8. CASE Rpm!ParseChangelog
  <2>1. meta'.changelog = IF Rpm!There(settings.changelog) THEN host[settings.changelog] ELSE Gone
    BY <1>1, <1>8, MetaUpdate DEF Rpm!ParseChangelog
  <2>2. MetaOK'
    BY <1>1, <1>8, MetaUpdate DEF Rpm!ParseChangelog, MetaOK
  <2>3. meta'.changelog # Gone \/ vanished
    BY <1>1, <1>8, <2>1 DEF Rpm!ParseChangelog, Rpm!There, Rpm!Exists
  <2> QED
    BY <1>1, <1>8, <2>2, <2>3 DEF Rpm!ParseChangelog
<1>9. CASE Rpm!AddContents
  <2>1. MetaOK' /\ meta'.changelog = meta.changelog
    BY <1>1, <1>9, MetaUpdate DEF Rpm!AddContents, MetaOK
  <2> QED
    BY <1>1, <1>9, <2>1 DEF Rpm!AddContents
<1>10. CASE Rpm!WriteFilesSection
  <2>1. MetaOK' /\ meta'.changelog = meta.changelog
    BY <1>1, <1>10, MetaUpdate DEF Rpm!WriteFilesSection, MetaOK
  <2> QED
    BY <1>1, <1>10, <2>1 DEF Rpm!WriteFilesSection
<1>11. CASE Rpm!CreateTemp
  BY <1>1, <1>11 DEF Rpm!CreateTemp, MetaOK
<1>12. CASE Rpm!AddEntry
  BY <1>1, <1>12 DEF Rpm!AddEntry, MetaOK
<1>13. CASE Rpm!CopyFile
  BY <1>1, <1>13 DEF Rpm!CopyFile, MetaOK
<1>14. CASE Rpm!ClosePayload
  BY <1>1, <1>14 DEF Rpm!ClosePayload, MetaOK
<1>15. CASE Rpm!Build
  BY <1>1, <1>15 DEF Rpm!Build, MetaOK
<1>16. CASE Rpm!Write
  BY <1>1, <1>16 DEF Rpm!Write, MetaOK
<1> QED
  BY <1>3, <1>4, <1>5, <1>6, <1>7, <1>8, <1>9, <1>10, <1>11, <1>12, <1>13, <1>14, <1>15, <1>16
  DEF PackageRpm, Rpm!Package

(* What is known of the changelog stays known. *)
LEMMA ChangelogStays == Spec => []ChangelogInv
<1>1. Init => ChangelogInv
  BY InitGiven, EmptyIsList DEF Init, Rpm!Init, Rpm!NoMeta, ChangelogInv, IsRpm, MetaOK, WrittenLast,
     AfterChangelog
<1>2. ASSUME GivenOK, ChangelogInv, [Next]_vars PROVE ChangelogInv'
  <2>1. CASE PackageRpm
    BY <1>2, <2>1, ChangelogStep
  <2>2. CASE PackageArch \/ PackageDeb \/ PackageIpk \/ PackageMsix
    BY <2>2 DEF PackageArch, PackageDeb, PackageIpk, PackageMsix, ChangelogInv, IsRpm
  <2>3. CASE Meanwhile
    <3> SUFFICES ASSUME IsRpm PROVE ChangelogInv'
      BY <2>3 DEF Meanwhile, ChangelogInv, IsRpm
    <3>1. /\ UNCHANGED <<format, settings, pc, meta, output>>
          /\ Rpm!NoteVanishing /\ MetaOK /\ WrittenLast
          /\ pc = "parse" => settings.changelog \in Sources
          /\ pc = "parse" => Rpm!There(settings.changelog) \/ vanished
          /\ AfterChangelog /\ settings.changelog # "" => meta.changelog # Gone \/ vanished
      BY <1>2, <2>3 DEF Meanwhile, ChangelogInv, IsRpm, madeVars
    <3>2. CASE pc = "parse"
      <4>1. vanished' <=> /\ host'[settings.changelog] = Gone
                          /\ Rpm!There(settings.changelog) \/ vanished
        BY <3>1, <3>2 DEF Rpm!NoteVanishing
      <4>2. (Rpm!There(settings.changelog) \/ vanished)'
        BY <3>1, <3>2, <4>1 DEF Rpm!There, Rpm!Exists
      <4>3. ~ AfterChangelog'
        BY <3>1, <3>2 DEF AfterChangelog, WrittenLast
      <4> QED
        BY <3>1, <4>2, <4>3 DEF ChangelogInv, MetaOK, WrittenLast
    <3>3. CASE pc # "parse"
      <4>1. vanished' = vanished
        BY <3>1, <3>3 DEF Rpm!NoteVanishing
      <4> QED
        BY <3>1, <3>3, <4>1 DEF ChangelogInv, MetaOK, WrittenLast, AfterChangelog, IsRpm
    <3> QED
      BY <3>2, <3>3
  <2>4. CASE UNCHANGED vars
    BY <1>2, <2>4 DEF vars, callVars, madeVars, rpmVars, ChangelogInv, IsRpm, MetaOK, WrittenLast,
                      AfterChangelog, Rpm!There, Rpm!Exists
  <2> QED
    BY <1>2, <2>1, <2>2, <2>3, <2>4 DEF Next, Package
<1> QED
  BY <1>1, <1>2, GivenStays, PTL DEF Spec

(* "chglog.Parse will just silently create an empty changelog but we       *)
(* should notify the user instead": a package for which a changelog was    *)
(* configured is not written without one, however the files change, unless *)
(* that very file was removed after the look at it and before the parser's *)
(* and did not come back.                                                  *)
THEOREM ChangelogKept == Spec => []ChangelogNotForgotten
<1>1. ChangelogInv => ChangelogNotForgotten
  BY DEF ChangelogInv, ChangelogNotForgotten, Rpm!ChangelogNotForgotten, IsRpm, AfterChangelog
<1> QED
  BY <1>1, ChangelogStays, PTL

-----------------------------------------------------------------------------
(***************************************************************************)
(* The source package.                                                     *)
(***************************************************************************)
Shipped(c) == c.type \notin {"ghost", "implicit dir"}

KindOf(c) == IF c.type = "dir" THEN "dir" ELSE IF c.type = "symlink" THEN "link" ELSE "file"

(* A member of the tarball is there for a content. *)
StandsFor(m, c) ==
    /\ Shipped(c) /\ m.dst = c.dst /\ m.kind = KindOf(c)
    /\ m.kind = "link" => m.mode = Rpm!LinkMode

(* The contents that were added, and what is in the tarball for them. *)
TarballOK ==
    /\ IsList(tar.members) /\ tar.owed \in Nat
    /\ next \in 1..(Len(contents) + 1)
    /\ \A i \in 1..(next - 1) :
          Shipped(contents[i]) => \E j \in DOMAIN tar.members : StandsFor(tar.members[j], contents[i])
    /\ \A j \in DOMAIN tar.members : \E i \in 1..(next - 1) : StandsFor(tar.members[j], contents[i])
    /\ tar.owed = 0 =>
          \A j \in DOMAIN tar.members :
             tar.members[j].kind = "file" => tar.members[j].size = Length[tar.members[j].body]

(* The file that is being copied. *)
OpenedOK ==
    /\ pc \in {"start", "create temp"} => opened = Rpm!NoFile
    /\ pc = "payload" /\ opened # Rpm!NoFile =>
          /\ tar.owed = 0
          /\ next <= Len(contents)
          /\ contents[next].type \in Rpm!RegularTypes
          /\ contents[next].src \in Sources
          /\ opened.size \in Nat /\ opened.held \in Versions

PayloadClosed ==
    \/ pc \in {"scripts", "changelog", "parse", "files", "metadata", "build", "write"}
    \/ output # "none"

SpecWritten == pc \in {"metadata", "build", "write"} \/ output # "none"

SourceInv ==
    format = "srpm" =>
        /\ TarballOK
        /\ OpenedOK
        /\ PayloadClosed => tar.owed = 0 /\ next = Len(contents) + 1
        /\ SpecWritten => meta.files = {Rpm!SpecFileLine(c) : c \in Rpm!Owned}

(* What the preparation leaves for "rpm": a list with one content for each *)
(* destination and of the types that rpm knows.                            *)
LEMMA RpmContents ==
    ASSUME GivenOK, IsRpm
    PROVE  /\ IsList(contents) /\ Len(contents) \in Nat /\ DOMAIN contents = 1..Len(contents)
           /\ \A i, j \in DOMAIN contents : contents[i].dst = contents[j].dst => i = j
           /\ \A i \in DOMAIN contents :
                  contents[i].type \in Rpm!RegularTypes \cup {"dir", "symlink", "ghost", "implicit dir"}
<1>1. "rpm" \in Formats /\ contents \in Inputs["rpm"]
  BY DEF GivenOK, IsRpm, InputFormat, Of
<1>2. "rpm" \in Formats \ {"srpm"}
  BY <1>1
<1>3. /\ contents \in Seq({contents[i] : i \in DOMAIN contents})
      /\ \A i, j \in DOMAIN contents : contents[i].dst = contents[j].dst => i = j
      /\ \A i \in DOMAIN contents : contents[i].type \in Types("rpm")
  BY <1>1, <1>2, InputsAssumption
<1>4. Types("rpm") \subseteq Rpm!RegularTypes \cup {"dir", "symlink", "ghost", "implicit dir"}
  BY DEF Types, FileTypes, Rpm!RegularTypes, Rpm!ConfigTypes
<1> QED
  BY <1>3, <1>4, ListLength DEF IsList

(* The loop is at one of the contents, or behind the last. *)
LEMMA NextInRange ==
    ASSUME GivenOK, IsRpm, TarballOK
    PROVE  next \in Nat /\ 1 <= next /\ Len(contents) \in Nat
<1>1. Len(contents) \in Nat
  BY RpmContents
<1>2. next \in 1..(Len(contents) + 1)
  BY DEF TarballOK
<1> QED
  BY <1>1, <1>2

(* A header or a file that is written is a new member, for the content     *)
(* whose turn it is.                                                       *)
LEMMA TarballGrows ==
    ASSUME GivenOK, IsRpm, TarballOK, tar.owed = 0, next <= Len(contents),
           NEW m, StandsFor(m, contents[next]), NEW size \in Nat, NEW length \in Nat, length <= size,
           tar' = Rpm!WithMember(tar, m, size, length), next' = next + 1, contents' = contents,
           m.kind = "file" => m.size = size /\ Length[m.body] = length
    PROVE  TarballOK'
<1>0. /\ IsList(tar.members) /\ next \in Nat /\ 1 <= next /\ Len(contents) \in Nat
      /\ tar'.members = Append(tar.members, m) /\ tar'.owed = size - length
  BY NextInRange DEF TarballOK, Rpm!WithMember
<1>1. 1..(next' - 1) = 1..(next - 1) \cup {next}
  BY <1>0
<1> DEFINE old == tar.members
           new == tar'.members
           n == Len(old)
<1>2. /\ IsList(new) /\ n \in Nat /\ DOMAIN old = 1..n /\ DOMAIN new = 1..(n + 1)
      /\ new[n + 1] = m /\ \A j \in 1..n : new[j] = old[j]
  BY <1>0, ListAppend, ListLength
<1>3. \A i \in 1..(next - 1) :
          Shipped(contents[i]) => \E j \in DOMAIN old : StandsFor(old[j], contents[i])
  BY DEF TarballOK
<1>4. \A j \in DOMAIN old : \E i \in 1..(next - 1) : StandsFor(old[j], contents[i])
  BY DEF TarballOK
<1>5. \A j \in DOMAIN old : old[j].kind = "file" => old[j].size = Length[old[j].body]
  BY DEF TarballOK
<1> HIDE DEF old, new, n
<1>6. tar'.owed \in Nat /\ next' \in 1..(Len(contents') + 1)
  BY <1>0
<1>7. ASSUME NEW i \in 1..(next' - 1), Shipped(contents'[i])
      PROVE  \E j \in DOMAIN new : StandsFor(new[j], contents'[i])
  <2>1. CASE i \in 1..(next - 1)
    <3>1. PICK j \in 1..n : StandsFor(old[j], contents[i])
      BY <1>2, <1>3, <1>7, <2>1
    <3>2. j \in DOMAIN new /\ new[j] = old[j]
      BY <1>2, <3>1
    <3> QED
      BY <3>1, <3>2
  <2>2. CASE i = next
    BY <1>2, <2>2
  <2> QED
    BY <1>1, <2>1, <2>2
<1>8. ASSUME NEW j \in DOMAIN new
      PROVE  \E i \in 1..(next' - 1) : StandsFor(new[j], contents'[i])
  <2>1. CASE j \in 1..n
    <3>1. PICK i \in 1..(next - 1) : StandsFor(old[j], contents[i])
      BY <1>2, <1>4, <2>1
    <3> QED
      BY <1>1, <1>2, <2>1, <3>1
  <2>2. CASE j = n + 1
    BY <1>0, <1>1, <1>2, <2>2
  <2> QED
    BY <1>2, <2>1, <2>2
<1>9. ASSUME tar'.owed = 0, NEW j \in DOMAIN new, new[j].kind = "file"
      PROVE  new[j].size = Length[new[j].body]
  <2>1. CASE j \in 1..n
    BY <1>2, <1>5, <1>9, <2>1
  <2>2. CASE j = n + 1
    BY <1>0, <1>2, <1>9, <2>2
  <2> QED
    BY <1>2, <1>9, <2>1, <2>2
<1> QED
  BY <1>2, <1>6, <1>7, <1>8, <1>9 DEF TarballOK, new

(* A content that is not shipped leaves the tarball as it is. *)
LEMMA TarballSkips ==
    ASSUME GivenOK, IsRpm, TarballOK, next <= Len(contents), ~ Shipped(contents[next]),
           tar' = tar, next' = next + 1, contents' = contents
    PROVE  TarballOK'
<1>1. next \in Nat /\ 1 <= next /\ Len(contents) \in Nat
  BY NextInRange
<1>2. 1..(next' - 1) = 1..(next - 1) \cup {next}
  BY <1>1
<1> QED
  BY <1>1, <1>2 DEF TarballOK

(* A step of the packager keeps the invariant of the source package. *)
LEMMA SourceStep == GivenOK /\ ChangelogInv /\ SourceInv /\ PackageRpm => SourceInv'
<1> SUFFICES ASSUME GivenOK, ChangelogInv, SourceInv, PackageRpm, format = "srpm" PROVE SourceInv'
  BY RpmFrozen DEF Frozen, Kept, SourceInv
<1>1. /\ format' = "srpm" /\ contents' = contents /\ host' = host /\ IsRpm /\ MetaOK /\ WrittenLast
      /\ TarballOK /\ OpenedOK
      /\ PayloadClosed => tar.owed = 0 /\ next = Len(contents) + 1
      /\ SpecWritten => meta.files = {Rpm!SpecFileLine(c) : c \in Rpm!Owned}
  BY RpmFrozen DEF Frozen, Kept, ChangelogInv, SourceInv, IsRpm
<1>2. next \in Nat /\ 1 <= next /\ Len(contents) \in Nat /\ DOMAIN contents = 1..Len(contents)
  BY <1>1, NextInRange, RpmContents
<1>3. Rpm!Owned' = Rpm!Owned
  BY <1>1 DEF Rpm!Owned
<1>4. ASSUME pc = "payload", pc' \in {"payload", "failed"}, output' = output
      PROVE  ~ PayloadClosed' /\ ~ SpecWritten'
  BY <1>1, <1>4 DEF WrittenLast, PayloadClosed, SpecWritten
<1>5. UNCHANGED <<next, tar>> => TarballOK'
  BY <1>1 DEF TarballOK
<1>6. CASE Rpm!AddEntry
  <2> DEFINE c == contents[next]
  <2>1. pc = "payload" /\ opened = Rpm!NoFile /\ next <= Len(contents)
    BY <1>6 DEF Rpm!AddEntry
  <2>2. CASE Rpm!AddNothing(c) /\ UNCHANGED <<pc, meta, output>>
    <3>1. TarballOK'
      <4>1. ~ Shipped(c) /\ tar' = tar /\ next' = next + 1
        BY <2>2 DEF Rpm!AddNothing, Shipped
      <4> QED
        BY <1>1, <2>1, <4>1, TarballSkips
    <3>2. OpenedOK'
      BY <2>1, <2>2 DEF Rpm!AddNothing, OpenedOK
    <3> QED
      BY <1>4, <2>1, <2>2, <3>1, <3>2 DEF SourceInv
  <2>3. CASE Rpm!Settled(tar) /\ Rpm!AddHeader(c) /\ UNCHANGED <<pc, meta, output>>
    <3> DEFINE m == Rpm!Member(c, IF c.type = "dir" THEN "dir" ELSE "link", 0, Gone)
    <3>1. StandsFor(m, c) /\ m.kind # "file"
      BY <2>3 DEF Rpm!AddHeader, Rpm!Member, StandsFor, Shipped, KindOf
    <3>2. tar' = Rpm!WithMember(tar, m, 0, 0) /\ next' = next + 1 /\ opened' = opened
      BY <2>3 DEF Rpm!AddHeader
    <3>3. tar.owed = 0
      BY <2>3 DEF Rpm!Settled
    <3> HIDE DEF m
    <3>4. TarballOK'
      BY <1>1, <1>2, <2>1, <3>1, <3>2, <3>3, TarballGrows
    <3>5. OpenedOK'
      BY <2>1, <3>2 DEF OpenedOK
    <3> QED
      BY <1>4, <2>1, <2>3, <3>4, <3>5 DEF SourceInv
  <2>4. CASE Rpm!Settled(tar) /\ Rpm!OpenFile(c) /\ UNCHANGED <<pc, meta, output>>
    <3>1. c.src \in Sources /\ host[c.src] \in Versions
      BY <2>4 DEF Rpm!OpenFile, Rpm!There, Rpm!Exists, GivenOK, Hosts
    <3>2. opened'.size = Length[host[c.src]] /\ opened'.held = host[c.src]
      BY <2>4 DEF Rpm!OpenFile, Rpm!Bytes
    <3>3. opened'.size \in Nat
      BY <3>1, <3>2, LengthAssumption
    <3>4. UNCHANGED <<next, tar>> /\ c.type \in Rpm!RegularTypes /\ tar.owed = 0
      BY <2>4 DEF Rpm!OpenFile, Rpm!Settled
    <3>5. OpenedOK'
      BY <1>1, <2>1, <2>4, <3>1, <3>2, <3>3, <3>4 DEF OpenedOK, Rpm!RegularTypes, Rpm!ConfigTypes
    <3> QED
      BY <1>4, <1>5, <2>1, <2>4, <3>4, <3>5 DEF SourceInv
  <2>5. CASE Rpm!Discard
    <3>1. pc' = "failed" /\ UNCHANGED <<next, tar, output>>
      BY <2>5 DEF Rpm!Discard, Rpm!payload
    <3> QED
      BY <1>4, <1>5, <2>1, <3>1 DEF SourceInv, OpenedOK
  <2> QED
    BY <1>6, <2>2, <2>3, <2>4, <2>5 DEF Rpm!AddEntry
<1>7. CASE Rpm!CopyFile
  <2> DEFINE c == contents[next]
  <2>1. /\ opened # Rpm!NoFile /\ tar.owed = 0 /\ next <= Len(contents)
        /\ c.type \in Rpm!RegularTypes /\ opened.size \in Nat /\ pc = "payload"
    BY <1>1, <1>7 DEF Rpm!CopyFile, OpenedOK
  <2>2. CASE Rpm!Discard
    <3>1. pc' = "failed" /\ UNCHANGED <<next, tar, output>>
      BY <2>2 DEF Rpm!Discard, Rpm!payload
    <3> QED
      BY <1>4, <1>5, <2>1, <3>1 DEF SourceInv, OpenedOK
  <2>3. CASE ~ Rpm!Discard
    <3>1. PICK held : /\ Length[held] <= opened.size /\ held \in {opened.held, host[c.src]} \ {Gone}
                      /\ tar' = Rpm!WithMember(tar, Rpm!Member(c, "file", opened.size, held),
                                               opened.size, Length[held])
                      /\ next' = next + 1 /\ opened' = Rpm!NoFile /\ UNCHANGED <<pc, meta, output>>
      BY <1>7, <2>3 DEF Rpm!CopyFile, Rpm!Fits
    <3> DEFINE m == Rpm!Member(c, "file", opened.size, held)
    <3>2. StandsFor(m, c) /\ m.size = opened.size /\ m.body = held
      BY <2>1 DEF Rpm!Member, StandsFor, Shipped, KindOf, Rpm!RegularTypes, Rpm!ConfigTypes
    <3>3. Length[held] \in Nat
      <4>1. opened.held \in Versions /\ c.src \in Sources
        BY <1>1, <2>1 DEF OpenedOK
      <4>2. host[c.src] \in Versions \cup {Gone}
        BY <4>1 DEF GivenOK, Hosts
      <4> QED
        BY <3>1, <4>1, <4>2, LengthAssumption
    <3> HIDE DEF m
    <3>4. TarballOK'
      BY <1>1, <1>2, <2>1, <3>1, <3>2, <3>3, TarballGrows DEF m
    <3>5. OpenedOK'
      BY <3>1 DEF OpenedOK
    <3> QED
      BY <1>4, <2>1, <3>1, <3>4, <3>5 DEF SourceInv
  <2> QED
    BY <2>2, <2>3
<1>8. CASE Rpm!ClosePayload
  <2>1. UNCHANGED <<next, tar, opened, meta, output>> /\ pc' \in {"failed", "scripts"} /\ pc = "payload"
    BY <1>8 DEF Rpm!ClosePayload, Rpm!Discard, Rpm!Continue, Rpm!payload
  <2>2. pc' = "scripts" => tar.owed = 0 /\ next > Len(contents)
    BY <1>8 DEF Rpm!ClosePayload, Rpm!Discard, Rpm!Continue, Rpm!Settled
  <2>3. next <= Len(contents) + 1
    BY <1>1, <1>2 DEF TarballOK
  <2>4. pc' = "scripts" => tar.owed = 0 /\ next = Len(contents) + 1
    BY <1>2, <2>2, <2>3
  <2>5. ~ SpecWritten'
    BY <1>1, <2>1 DEF SpecWritten, WrittenLast
  <2>6. pc' = "failed" => ~ PayloadClosed'
    BY <1>4, <2>1
  <2>7. OpenedOK'
    BY <2>1 DEF OpenedOK
  <2> QED
    BY <1>1, <1>5, <2>1, <2>4, <2>5, <2>6, <2>7 DEF SourceInv
<1>9. CASE Rpm!Start \/ Rpm!CreateTemp
  <2>1. /\ UNCHANGED <<next, tar, opened, output>> /\ pc \in {"start", "create temp"}
        /\ pc' \in {"create temp", "payload", "failed"}
    BY <1>1, <1>9 DEF Rpm!Start, Rpm!CreateTemp, Rpm!Fail, Rpm!Return, Rpm!Continue, Rpm!payload
  <2>2. ~ PayloadClosed' /\ ~ SpecWritten'
    BY <1>1, <2>1 DEF PayloadClosed, SpecWritten, WrittenLast
  <2>3. OpenedOK'
    BY <1>1, <2>1 DEF OpenedOK
  <2> QED
    BY <1>1, <1>5, <2>1, <2>2, <2>3 DEF SourceInv
<1>10. ASSUME UNCHANGED <<next, tar, opened>>, PayloadClosed,
              pc' \notin {"start", "create temp", "payload"}
       PROVE  TarballOK' /\ OpenedOK' /\ tar'.owed = 0 /\ next' = Len(contents') + 1
  BY <1>1, <1>5, <1>10 DEF OpenedOK
<1>11. CASE Rpm!ReadScripts \/ Rpm!StatChangelog \/ Rpm!ParseChangelog
  <2>1. /\ UNCHANGED <<next, tar, opened, output>> /\ pc \in {"scripts", "changelog", "parse"}
        /\ pc' \in {"changelog", "parse", "files", "failed"}
    BY <1>11 DEF Rpm!ReadScripts, Rpm!StatChangelog, Rpm!ParseChangelog, Rpm!Fail, Rpm!Return,
                 Rpm!Continue, Rpm!payload
  <2>2. PayloadClosed /\ ~ SpecWritten'
    BY <1>1, <2>1 DEF PayloadClosed, SpecWritten, WrittenLast
  <2> QED
    BY <1>10, <2>1, <2>2 DEF SourceInv
<1>12. CASE Rpm!WriteFilesSection
  <2>1. /\ UNCHANGED <<next, tar, opened, output>> /\ pc = "files" /\ pc' = "metadata"
        /\ meta' = [meta EXCEPT !.files = {Rpm!SpecFileLine(c) : c \in Rpm!Owned}]
    BY <1>12 DEF Rpm!WriteFilesSection, Rpm!Continue, Rpm!payload
  <2>2. meta'.files = {Rpm!SpecFileLine(c) : c \in Rpm!Owned'}
    BY <1>1, <1>3, <2>1, MetaUpdate
  <2>3. PayloadClosed
    BY <2>1 DEF PayloadClosed
  <2> QED
    BY <1>10, <2>1, <2>2, <2>3 DEF SourceInv
<1>13. CASE Rpm!ApplySourceMetadata \/ Rpm!Build \/ Rpm!Write
  <2>1. /\ UNCHANGED <<next, tar, opened, meta>> /\ pc \in {"metadata", "build", "write"}
        /\ pc' \in {"build", "write", "failed", "done"}
    BY <1>13 DEF Rpm!ApplySourceMetadata, Rpm!Build, Rpm!Write, Rpm!Fail, Rpm!Return,
                 Rpm!Continue, Rpm!payload
  <2>2. PayloadClosed /\ SpecWritten
    BY <2>1 DEF PayloadClosed, SpecWritten
  <2>3. meta'.files = {Rpm!SpecFileLine(c) : c \in Rpm!Owned'}
    BY <1>1, <1>3, <2>1, <2>2
  <2> QED
    BY <1>10, <2>1, <2>2, <2>3 DEF SourceInv
<1>14. ~ Rpm!ApplyMetadata /\ ~ Rpm!AddContents
  BY DEF Rpm!ApplyMetadata, Rpm!AddContents
<1> QED
  BY <1>6, <1>7, <1>8, <1>9, <1>11, <1>12, <1>13, <1>14 DEF PackageRpm, Rpm!Package

(* A line of the spec claims what is in the tarball, or is for a ghost. *)
HeaderKind(c) == IF c.type = "ghost" THEN "ghost" ELSE KindOf(c)

(* What rpmbuild is told of a content is what the header of the binary     *)
(* package would say, but for a readme and for the mode of a symlink,      *)
(* which is left to the disk.                                              *)
LEMMA LineTellsHeader ==
    ASSUME NEW c, c.type \in Rpm!RegularTypes \cup {"dir", "symlink", "ghost"}
    PROVE  LET l == Rpm!SpecFileLine(c) IN
           /\ l.dst = c.dst
           /\ "ghost" \in l.directives <=> c.type = "ghost"
           /\ "dir" \in l.directives <=> c.type = "dir"
           /\ l.mode = Rpm!AsOnDisk <=> c.type = "symlink"
           /\ Rpm!Expected(c) =
                 [dst |-> l.dst, flags |-> l.directives \ {"dir"}, lang |-> l.lang,
                  mode |-> IF c.type = "symlink" THEN Rpm!LinkMode ELSE l.mode,
                  kind |-> HeaderKind(c)]
<1> USE DEF Rpm!SpecFileLine, Rpm!SpecLine, Rpm!HeaderEntry, Rpm!Described, Rpm!FlagsOf, HeaderKind,
            KindOf, Rpm!Expected
<1>0. Rpm!Normal(c.mode) # Rpm!AsOnDisk /\ Rpm!GhostMode(c) # Rpm!AsOnDisk
  BY DEF Rpm!Normal, Rpm!GhostMode, Rpm!AsOnDisk
<1>1. CASE c.type = "ghost"
  BY <1>0, <1>1
<1>2. CASE c.type = "symlink"
  <2>1. Rpm!SpecFileLine(c) = [dst |-> c.dst, directives |-> {}, mode |-> Rpm!AsOnDisk, lang |-> ""]
    BY <1>2
  <2>2. Rpm!HeaderEntry(c) = [dst |-> c.dst, flags |-> {}, kind |-> "link", mode |-> {}, lang |-> ""]
    BY <1>2
  <2>3. Rpm!Expected(c) = [dst |-> c.dst, flags |-> {}, kind |-> "link", mode |-> Rpm!LinkMode,
                           lang |-> ""]
    <3> DEFINE none == {}
               h(mode) == [dst |-> c.dst, flags |-> none, kind |-> "link", mode |-> mode, lang |-> ""]
    <3>1. Rpm!Expected(c) = [h(none) EXCEPT !.mode = Rpm!LinkMode]
      BY <1>2, <2>2
    <3> HIDE DEF none, Rpm!Expected
    <3>2. [h(none) EXCEPT !.mode = Rpm!LinkMode] = h(Rpm!LinkMode)
      <4> DEFINE D == {"dst", "flags", "kind", "mode", "lang"}
                 r == [h(none) EXCEPT !.mode = Rpm!LinkMode]
                 q == h(Rpm!LinkMode)
      <4>1. r = [f \in D |-> r[f]] /\ q = [f \in D |-> q[f]]
        OBVIOUS
      <4>2. r.dst = q.dst /\ r.flags = q.flags /\ r.mode = q.mode
        OBVIOUS
      <4>3. r.kind = q.kind
        OBVIOUS
      <4>4. r.lang = q.lang
        OBVIOUS
      <4> HIDE DEF r, q
      <4>5. \A f \in D : r[f] = q[f]
        BY <4>2, <4>3, <4>4
      <4> HIDE DEF D
      <4>6. r = q
        BY <4>1, <4>5, SameFunction
      <4> QED
        BY <4>6 DEF r, q
    <3> HIDE DEF h
    <3>3. Rpm!Expected(c) = h(Rpm!LinkMode)
      BY <3>1, <3>2
    <3> QED
      BY <3>3 DEF h, none
  <2>4. HeaderKind(c) = "link" /\ {} \ {"dir"} = {}
    BY <1>2
  <2> QED
    BY <1>2, <2>1, <2>3, <2>4
<1>3. CASE c.type = "dir"
  BY <1>0, <1>3
<1>4. CASE c.type = "readme"
  <2>1. Rpm!SpecFileLine(c) = [dst |-> c.dst, directives |-> {"doc"}, mode |-> Rpm!Normal(c.mode),
                               lang |-> c.lang]
    BY <1>4
  <2>2. Rpm!HeaderEntry(c) = [dst |-> c.dst, flags |-> {"readme"}, kind |-> "file",
                              mode |-> Rpm!Normal(c.mode), lang |-> c.lang]
    BY <1>4
  <2>3. Rpm!Expected(c) = [dst |-> c.dst, flags |-> {"doc"}, kind |-> "file",
                           mode |-> Rpm!Normal(c.mode), lang |-> c.lang]
    <3> HIDE DEF Rpm!HeaderEntry
    <3> QED
      BY <1>4, <2>2
  <2>4. HeaderKind(c) = "file" /\ {"doc"} \ {"dir"} = {"doc"}
    BY <1>4
  <2> QED
    BY <1>0, <1>4, <2>1, <2>3, <2>4
<1>5. CASE c.type = "file"
  BY <1>0, <1>5
<1>6. CASE c.type = "doc"
  BY <1>0, <1>6
<1>7. CASE c.type = "license"
  BY <1>0, <1>7
<1>8. CASE c.type = "config"
  BY <1>0, <1>8
<1>9. CASE c.type = "config|noreplace"
  BY <1>0, <1>9
<1>10. CASE c.type = "config|missingok"
  BY <1>0, <1>10
<1> QED
  BY <1>1, <1>2, <1>3, <1>4, <1>5, <1>6, <1>7, <1>8, <1>9, <1>10
  DEF Rpm!RegularTypes, Rpm!ConfigTypes

(* rpmbuild finds the member of a content by its path. *)
LEMMA ClaimsItsMember ==
    ASSUME GivenOK, IsRpm, TarballOK, next = Len(contents) + 1, NEW c \in Rpm!Owned, Shipped(c)
    PROVE  /\ \E m \in Rpm!Members : m.dst = c.dst
           /\ \A m \in Rpm!Members : m.dst = c.dst => StandsFor(m, c)
<1>1. PICK i \in DOMAIN contents : contents[i] = c
  BY DEF Rpm!Owned
<1>2. /\ DOMAIN contents = 1..Len(contents) /\ Len(contents) \in Nat
      /\ \A k, j \in DOMAIN contents : contents[k].dst = contents[j].dst => k = j
  BY RpmContents
<1>3. 1..(next - 1) = DOMAIN contents
  BY <1>2
<1>4. \E j \in DOMAIN tar.members : StandsFor(tar.members[j], c)
  BY <1>1, <1>3 DEF TarballOK
<1>5. ASSUME NEW j \in DOMAIN tar.members, tar.members[j].dst = c.dst
      PROVE  StandsFor(tar.members[j], c)
  <2>1. PICK k \in DOMAIN contents : StandsFor(tar.members[j], contents[k])
    BY <1>3 DEF TarballOK
  <2>2. k = i
    BY <1>1, <1>2, <1>5, <2>1 DEF StandsFor
  <2> QED
    BY <1>1, <2>1, <2>2 DEF StandsFor
<1> QED
  BY <1>4, <1>5 DEF Rpm!Members, StandsFor

(* What a finished source package is rebuilt into. *)
LEMMA SourceRebuilds ==
    ASSUME GivenOK, SourceInv, format = "srpm", output # "none"
    PROVE  Rpm!RebuildReproduces
<1>1. /\ TarballOK /\ tar.owed = 0 /\ next = Len(contents) + 1 /\ IsRpm
      /\ meta.files = {Rpm!SpecFileLine(c) : c \in Rpm!Owned}
  BY DEF SourceInv, PayloadClosed, SpecWritten, IsRpm
<1>2. \A c \in Rpm!Owned : c.type \in Rpm!RegularTypes \cup {"dir", "symlink", "ghost"}
  BY <1>1, RpmContents DEF Rpm!Owned
<1>3. ASSUME NEW m \in Rpm!Members
      PROVE  \E c \in Rpm!Owned : StandsFor(m, c)
  <2>1. PICK j \in DOMAIN tar.members : m = tar.members[j]
    BY DEF Rpm!Members
  <2>2. PICK i \in 1..(next - 1) : StandsFor(m, contents[i])
    BY <1>1, <2>1 DEF TarballOK
  <2>3. i \in DOMAIN contents
    <3>1. Len(contents) \in Nat /\ DOMAIN contents = 1..Len(contents)
      BY <1>1, RpmContents
    <3> QED
      BY <1>1, <2>2, <3>1
  <2> QED
    BY <2>2, <2>3 DEF Rpm!Owned, StandsFor, Shipped
<1>4. \A c \in Rpm!Owned : Shipped(c) <=> c.type # "ghost"
  BY DEF Rpm!Owned, Shipped
<1>5. {l.dst : l \in {k \in meta.files : "ghost" \notin k.directives}} = {m.dst : m \in Rpm!Members}
  <2>1. ASSUME NEW l \in meta.files, "ghost" \notin l.directives
        PROVE  \E m \in Rpm!Members : m.dst = l.dst
    <3>1. PICK c \in Rpm!Owned : l = Rpm!SpecFileLine(c)
      BY <1>1
    <3>2. l.dst = c.dst /\ Shipped(c)
      BY <1>2, <1>4, <2>1, <3>1, LineTellsHeader
    <3> QED
      BY <1>1, <3>2, ClaimsItsMember
  <2>2. ASSUME NEW m \in Rpm!Members
        PROVE  \E l \in meta.files : "ghost" \notin l.directives /\ l.dst = m.dst
    <3>1. PICK c \in Rpm!Owned : StandsFor(m, c)
      BY <1>3
    <3>2. Rpm!SpecFileLine(c) \in meta.files /\ c.type # "ghost" /\ c.dst = m.dst
      BY <1>1, <1>4, <3>1 DEF StandsFor
    <3>3. Rpm!SpecFileLine(c).dst = c.dst /\ "ghost" \notin Rpm!SpecFileLine(c).directives
      BY <1>2, <3>2, LineTellsHeader
    <3> QED
      BY <3>2, <3>3
  <2> QED
    BY <2>1, <2>2
<1>6. ASSUME NEW l \in meta.files, NEW m \in Rpm!Members, l.dst = m.dst
      PROVE  "dir" \in l.directives <=> m.kind = "dir"
  <2>1. PICK c \in Rpm!Owned : l = Rpm!SpecFileLine(c)
    BY <1>1
  <2>2. l.dst = c.dst /\ ("dir" \in l.directives <=> c.type = "dir")
    BY <1>2, <2>1, LineTellsHeader
  <2>3. PICK d \in Rpm!Owned : StandsFor(m, d)
    BY <1>3
  <2>4. c = d
    <3>1. \A i, j \in DOMAIN contents : contents[i].dst = contents[j].dst => i = j
      BY <1>1, RpmContents
    <3>2. c.dst = d.dst
      BY <1>6, <2>2, <2>3 DEF StandsFor
    <3> QED
      BY <3>1, <3>2 DEF Rpm!Owned
  <2> QED
    BY <2>2, <2>3, <2>4 DEF StandsFor, KindOf
<1>7. ASSUME NEW c \in Rpm!Owned
      PROVE  Rpm!Rebuilt(Rpm!SpecFileLine(c)) = Rpm!Expected(c)
  <2> DEFINE l == Rpm!SpecFileLine(c)
             member == CHOOSE m \in Rpm!Members : m.dst = l.dst
  <2>1. /\ l.dst = c.dst /\ ("ghost" \in l.directives <=> c.type = "ghost")
        /\ l.mode = Rpm!AsOnDisk <=> c.type = "symlink"
        /\ Rpm!Expected(c) =
              [dst |-> l.dst, flags |-> l.directives \ {"dir"}, lang |-> l.lang,
               mode |-> IF c.type = "symlink" THEN Rpm!LinkMode ELSE l.mode,
               kind |-> HeaderKind(c)]
    BY <1>2, LineTellsHeader
  <2>2. Rpm!Rebuilt(l) =
           [dst |-> l.dst, flags |-> l.directives \ {"dir"}, lang |-> l.lang,
            mode |-> IF l.mode = Rpm!AsOnDisk THEN member.mode ELSE l.mode,
            kind |-> IF "ghost" \in l.directives THEN "ghost" ELSE member.kind]
    BY DEF Rpm!Rebuilt
  <2> HIDE DEF l
  <2>3. c.type # "ghost" => StandsFor(member, c)
    <3>1. SUFFICES ASSUME c.type # "ghost" PROVE StandsFor(member, c)
      OBVIOUS
    <3>2. /\ \E m \in Rpm!Members : m.dst = l.dst
          /\ \A m \in Rpm!Members : m.dst = l.dst => StandsFor(m, c)
      BY <1>1, <1>4, <2>1, <3>1, ClaimsItsMember
    <3> HIDE DEF StandsFor
    <3> QED
      BY <3>2
  <2> HIDE DEF member
  <2>4. /\ c.type # "ghost" => member.kind = KindOf(c)
        /\ c.type = "symlink" => member.mode = Rpm!LinkMode
    BY <2>3 DEF StandsFor, KindOf
  <2>5. (IF l.mode = Rpm!AsOnDisk THEN member.mode ELSE l.mode)
            = IF c.type = "symlink" THEN Rpm!LinkMode ELSE l.mode
    BY <2>1, <2>4
  <2>6. (IF "ghost" \in l.directives THEN "ghost" ELSE member.kind) = HeaderKind(c)
    BY <2>1, <2>4 DEF HeaderKind
  <2>7. Rpm!Rebuilt(l) = Rpm!Expected(c)
    BY <2>1, <2>2, <2>5, <2>6
  <2> QED
    BY <2>7 DEF l
<1>8. {Rpm!Rebuilt(l) : l \in meta.files} = {Rpm!Expected(c) : c \in Rpm!Owned}
  <2> HIDE DEF Rpm!Rebuilt, Rpm!Expected
  <2> QED
    BY <1>1, <1>7
<1>9. \A m \in Rpm!Members : m.kind = "file" => m.size = Length[m.body]
  BY <1>1 DEF TarballOK, Rpm!Members
<1> QED
  BY <1>5, <1>6, <1>8, <1>9 DEF Rpm!RebuildReproduces

(* What is known of the source package stays known. *)
LEMMA SourceStays == Spec => []SourceInv
<1>1. Init => SourceInv
  <2> SUFFICES ASSUME Init, format = "srpm" PROVE SourceInv
    BY DEF SourceInv
  <2>1. /\ next = 1 /\ tar.members = <<>> /\ tar.owed = 0 /\ opened = Rpm!NoFile /\ pc = "start"
        /\ output = "none"
    BY InitGiven DEF Init, Rpm!Init, Rpm!EmptyTar
  <2>2. Len(contents) \in Nat
    BY InitGiven, RpmContents DEF IsRpm
  <2>3. TarballOK
    BY <2>1, <2>2, EmptyIsList DEF TarballOK
  <2> QED
    BY <2>1, <2>3 DEF SourceInv, OpenedOK, PayloadClosed, SpecWritten
<1>2. ASSUME GivenOK, ChangelogInv, SourceInv, [Next]_vars PROVE SourceInv'
  <2>1. CASE PackageRpm
    BY <1>2, <2>1, SourceStep
  <2>2. CASE PackageArch \/ PackageDeb \/ PackageIpk \/ PackageMsix
    BY <2>2 DEF PackageArch, PackageDeb, PackageIpk, PackageMsix, SourceInv
  <2>3. CASE Meanwhile \/ UNCHANGED vars
    <3>1. UNCHANGED <<format, contents, pc, next, tar, opened, meta, output>>
      BY <2>3 DEF Meanwhile, vars, callVars, madeVars, rpmVars
    <3> QED
      BY <1>2, <3>1 DEF SourceInv, TarballOK, OpenedOK, PayloadClosed, SpecWritten, Rpm!Owned
  <2> QED
    BY <1>2, <2>1, <2>2, <2>3 DEF Next, Package
<1> QED
  BY <1>1, <1>2, GivenStays, ChangelogStays, PTL DEF Spec

(* "Rebuilding a source package reproduces the binary RPM": whatever the   *)
(* contents are and however often the files change while they are packed,  *)
(* a source package that was written brings every file the spec claims, as *)
(* what it is and whole, and each comes back with the flags, the mode and  *)
(* the language that the header of the binary package has, but for the     *)
(* flag of a readme and the mode of a symlink, which the spec leaves to    *)
(* the disk.                                                               *)
THEOREM SourceReproduces == Spec => []RebuildReproduces
<1>1. GivenOK /\ SourceInv => RebuildReproduces
  BY SourceRebuilds DEF RebuildReproduces, Rpm!RebuildReproduces, Rpm!SourceMade
<1> QED
  BY <1>1, GivenStays, SourceStays, PTL
-----------------------------------------------------------------------------
(***************************************************************************)
(* What the packagers write about their packages is true of them, whatever *)
(* the contents are and however often the files of the host change.        *)
(***************************************************************************)

SizeOf(member) == IF member.kind = "file" THEN Length[member.body] ELSE 0

(* The bytes that the files of an archive bring. *)
Lengths(members) == Total([i \in DOMAIN members |-> SizeOf(members[i])])

(* What is in a file is a version. *)
Whole(member) == member.kind = "file" => member.body \in Versions

AllWhole(members) == \A i \in DOMAIN members : Whole(members[i])

-----------------------------------------------------------------------------
(* The installed size of an archive grows by the bytes of every member. *)
LEMMA LengthsAppend ==
    ASSUME NEW members, IsList(members), AllWhole(members), NEW m, Whole(m)
    PROVE  /\ Lengths(members) \in Nat
           /\ AllWhole(Append(members, m))
           /\ Lengths(Append(members, m)) = Lengths(members) + SizeOf(m)
<1> DEFINE n == Len(members)
           s == [i \in DOMAIN members |-> SizeOf(members[i])]
           a == Append(members, m)
           t == [i \in DOMAIN a |-> SizeOf(a[i])]
<1>1. n \in Nat /\ DOMAIN members = 1..n
  BY ListLength
<1>2. DOMAIN a = 1..(n + 1) /\ a[n + 1] = m /\ \A i \in 1..n : a[i] = members[i]
  BY ListAppend
<1>3. \A x : Whole(x) => SizeOf(x) \in Nat
  BY LengthAssumption DEF Whole, SizeOf
<1> HIDE DEF n, a
<1>4. s \in [1..n -> Nat] /\ t \in [1..(n + 1) -> Nat]
  <2>1. \A i \in 1..n : SizeOf(members[i]) \in Nat
    BY <1>1, <1>3 DEF AllWhole
  <2>2. \A i \in 1..(n + 1) : i \in 1..n \/ i = n + 1
    BY <1>1
  <2>3. \A i \in 1..(n + 1) : SizeOf(a[i]) \in Nat
    BY <1>2, <1>3, <2>1, <2>2
  <2> QED
    BY <1>1, <1>2, <2>1, <2>3
<1>5. s \in Seq(Nat) /\ t \in Seq(Nat) /\ Len(s) = n /\ Len(t) = n + 1
  BY <1>1, <1>4, SeqDef, LenProperties
<1>6. SizeOf(m) \in Nat
  BY <1>3
<1>7. t = Append(s, SizeOf(m))
  <2> DEFINE u == Append(s, SizeOf(m))
  <2>1. u \in Seq(Nat) /\ Len(u) = n + 1 /\ u[n + 1] = SizeOf(m) /\ \A i \in 1..n : u[i] = s[i]
    BY <1>5, <1>6, AppendProperties
  <2>2. t[n + 1] = SizeOf(m) /\ \A i \in 1..n : t[i] = s[i]
    <3>1. n + 1 \in DOMAIN a /\ \A i \in 1..n : i \in DOMAIN a /\ i \in DOMAIN members
      BY <1>1, <1>2
    <3> QED
      BY <1>2, <3>1
  <2> HIDE DEF s, t, u
  <2>3. \A i \in 1..(n + 1) : t[i] = u[i]
    BY <1>1, <2>1, <2>2
  <2> QED
    BY <1>5, <2>1, <2>3, SeqEqual DEF u
<1>8. Total(s) \in Nat /\ Total(t) = Total(s) + SizeOf(m)
  BY <1>5, <1>6, <1>7, TotalAppend
<1>9. \A i \in DOMAIN a : Whole(a[i])
  BY <1>1, <1>2 DEF AllWhole
<1> QED
  BY <1>8, <1>9 DEF Lengths, AllWhole, a

(* An archive without members brings nothing. *)
LEMMA LengthsEmpty == Lengths(<<>>) = 0 /\ AllWhole(<<>>)
<1>1. [i \in DOMAIN <<>> |-> SizeOf(<<>>[i])] = <<>>
  BY EmptyIsList
<1> QED
  BY <1>1, TotalEmpty, EmptyIsList DEF Lengths, AllWhole

(* The first entry of .MTREE, put before those that are there. *)
LEMMA ListPrepend ==
    ASSUME NEW s, IsList(s), NEW x
    PROVE  /\ IsList(<<x>> \o s)
           /\ Len(<<x>> \o s) = Len(s) + 1
           /\ (<<x>> \o s)[1] = x
           /\ \A i \in 1..Len(s) : (<<x>> \o s)[i + 1] = s[i]
<1> DEFINE S == {s[i] : i \in DOMAIN s} \cup {x}
           p == <<x>>
<1>1. s \in Seq(S) /\ x \in S
  BY SeqMonotonic DEF IsList
<1> HIDE DEF S
<1>2. p \in Seq(S) /\ Len(p) = 1 /\ p[1] = x
  BY <1>1
<1> HIDE DEF p
<1>3. p \o s \in Seq(S)
  BY <1>1, <1>2, ConcatProperties
<1>4. IsList(p \o s)
  BY <1>3, SeqIsList
<1>5. Len(p \o s) = Len(p) + Len(s) /\ Len(s) \in Nat
  BY <1>1, <1>2, ConcatProperties, LenProperties
<1>6. \A i \in 1..(Len(p) + Len(s)) :
         (p \o s)[i] = IF i <= Len(p) THEN p[i] ELSE s[i - Len(p)]
  BY <1>1, <1>2, ConcatProperties
<1>7. (p \o s)[1] = x
  BY <1>2, <1>5, <1>6
<1>8. ASSUME NEW i \in 1..Len(s) PROVE (p \o s)[i + 1] = s[i]
  <2>1. i + 1 \in 1..(Len(p) + Len(s)) /\ ~ (i + 1 <= Len(p)) /\ (i + 1) - Len(p) = i
    BY <1>2, <1>5
  <2> QED
    BY <1>6, <2>1
<1> QED
  BY <1>2, <1>4, <1>5, <1>7, <1>8 DEF p

(* What the packagers compute the size of their members with. *)
LEMMA SameLengths ==
    ASSUME NEW members
    PROVE  /\ Arch!SumOfLengths(members) = Lengths(members)
           /\ Deb!SumOfLengths(members) = Lengths(members)
           /\ Ipk!SumOfLengths(members) = Lengths(members)
  BY DEF Lengths, SizeOf, Total, Sums,
         Arch!SumOfLengths, Arch!SizeOf, Arch!Total, Arch!Sums,
         Deb!SumOfLengths, Deb!SizeOf, Deb!Total, Deb!Sums,
         Ipk!SumOfLengths, Ipk!SizeOf, Ipk!Total, Ipk!Sums

(* What the preparation leaves for a format: a list with one content for   *)
(* each destination, of the types the format knows.                        *)
LEMMA GivenContents ==
    ASSUME GivenOK, format # "srpm"
    PROVE  /\ IsList(contents) /\ Len(contents) \in Nat /\ DOMAIN contents = 1..Len(contents)
           /\ \A i \in DOMAIN contents : contents[i].type \in Types(format)
           /\ \A i \in DOMAIN contents :
                 /\ contents[i].type \in FileTypes \cup {"debian changelog"} => contents[i].src \in Sources
                 /\ contents[i].type = "implicit dir" => contents[i].src = ""
<1>1. format \in Formats \ {"srpm"} /\ contents \in Inputs[format]
  BY DEF GivenOK, InputFormat, Of
<1>2. /\ contents \in Seq({contents[i] : i \in DOMAIN contents})
      /\ \A i \in DOMAIN contents :
            /\ contents[i].type \in Types(format)
            /\ contents[i].type \in FileTypes \cup {"debian changelog"} => contents[i].src \in Sources
            /\ contents[i].type = "implicit dir" => contents[i].src = ""
  BY <1>1, InputsAssumption
<1> QED
  BY <1>2, ListLength DEF IsList

(* The size of a file that is there is a number, and what it holds a       *)
(* version.                                                                *)
LEMMA FileIsWhole ==
    ASSUME host \in Hosts, NEW src \in Sources
    PROVE  /\ host[src] # Gone => host[src] \in Versions /\ Length[host[src]] \in Nat
           /\ host[src] \in Versions => host[src] # Gone
  BY LengthAssumption DEF Hosts

-----------------------------------------------------------------------------
(***************************************************************************)
(* The arch packager.                                                      *)
(***************************************************************************)
ArchKind(c) ==
    IF c.type \in FileTypes THEN "file" ELSE IF c.type = "symlink" THEN "link" ELSE "dir"

(* A member is there for a content, and an entry of .MTREE for a member. *)
ArchStandsFor(m, c) == m.dst = c.dst /\ m.kind = ArchKind(c)

Lists(e, m) == e.dst = m.dst /\ e.kind = m.kind /\ e.body = m.body

Measures(e, m) == m.kind = "file" => e.size = Length[m.body]

PkginfoEntry  == Arch!MtreeEntry(<<".PKGINFO">>, "meta", Arch!Pkginfo, 0)
PkginfoMember == Arch!Member(<<".PKGINFO">>, "meta", Arch!Pkginfo)

ArchTypes ==
    /\ settings \in Of("archlinux", Settings)
    /\ pc \in Arch!Stages
    /\ encoder \in {"clean", "pending", "broken"}
    /\ output \in {"none", "part", "all"}
    /\ next \in 1..(Len(contents) + 1)
    /\ tar.owed \in Nat /\ totalSize \in Nat
    /\ IsList(tar.members) /\ AllWhole(tar.members) /\ IsList(entries)
    /\ pc = "files" => sizes \in [DOMAIN contents -> Nat]

(* Until .PKGINFO is written, a member and an entry for each content that  *)
(* was added; the sizes of the entries are right unless the last member    *)
(* still lacks bytes, and then nothing more can be written.                *)
ArchFilling ==
    pc \in {"start", "files", "pkginfo"} =>
        /\ Len(tar.members) = next - 1 /\ Len(entries) = next - 1
        /\ \A i \in 1..(next - 1) :
              /\ ArchStandsFor(tar.members[i], contents[i])
              /\ Lists(entries[i], tar.members[i])
              /\ tar.owed = 0 => Measures(entries[i], tar.members[i])
        /\ totalSize = Lengths(tar.members) + tar.owed
        /\ pc = "pkginfo" => next = Len(contents) + 1

(* From then on, .PKGINFO behind the members and before the entries. *)
ArchClosing ==
    LET n == Len(contents) IN
    /\ pc \in {"mtree", "install", "close", "done"} =>
          /\ Len(tar.members) >= n + 1 /\ Len(entries) = n + 1
          /\ \A i \in 1..n :
                /\ ArchStandsFor(tar.members[i], contents[i])
                /\ Lists(entries[i + 1], tar.members[i])
                /\ Measures(entries[i + 1], tar.members[i])
          /\ entries[1] = PkginfoEntry /\ tar.members[n + 1] = PkginfoMember
          /\ totalSize = Lengths(tar.members)
    /\ pc = "mtree" => Len(tar.members) = n + 1
    /\ pc \in {"install", "close", "done"} =>
          Len(tar.members) >= n + 2 /\ tar.members[n + 2].body = entries

ArchInv == format = "archlinux" => ArchTypes /\ ArchFilling /\ ArchClosing

(* A member whose bytes are all written is the last of the archive. *)
LEMMA ArchPuts ==
    ASSUME ArchTypes, Arch!CanPut, NEW m, Whole(m), NEW size \in Nat, NEW length \in Nat,
           length <= size, Arch!Put(m, size, length)
    PROVE  /\ tar.owed = 0 /\ tar'.owed = size - length /\ tar'.owed \in Nat
           /\ IsList(tar.members) /\ Len(tar.members) \in Nat
           /\ IsList(tar'.members) /\ AllWhole(tar'.members)
           /\ Len(tar'.members) = Len(tar.members) + 1
           /\ tar'.members[Len(tar.members) + 1] = m
           /\ \A i \in 1..Len(tar.members) : tar'.members[i] = tar.members[i]
           /\ Lengths(tar.members) \in Nat
           /\ Lengths(tar'.members) = Lengths(tar.members) + SizeOf(m)
           /\ encoder' \in {"clean", "pending", "broken"}
           /\ output' \in {"none", "part", "all"}
<1>1. tar'.members = Append(tar.members, m) /\ tar'.owed = size - length /\ tar.owed = 0
  BY DEF Arch!Put, Arch!WithMember, Arch!CanPut, Arch!Settled
<1>2. IsList(tar.members) /\ AllWhole(tar.members)
  BY DEF ArchTypes
<1>3. encoder' \in {"clean", "pending", "broken"} /\ output' \in {"none", "part", "all"}
  BY DEF Arch!Put, ArchTypes
<1> QED
  BY <1>1, <1>2, <1>3, ListAppend, ListLength, LengthsAppend

(* A failed step leaves what was made and ends the call. *)
LEMMA ArchFails ==
    ASSUME ArchInv, format = "archlinux", Arch!Fail, UNCHANGED <<format, contents, settings>>
    PROVE  ArchInv'
  BY DEF Arch!Fail, Arch!manifest, ArchInv, ArchTypes, ArchFilling, ArchClosing, Arch!Stages

(* The step of the loop over the contents. *)
LEMMA ArchAdds ==
    ASSUME GivenOK, ArchInv, format = "archlinux", Arch!AddContent, UNCHANGED format
    PROVE  ArchInv'
<1> DEFINE c == contents[next]
           n == Len(contents)
           k == Len(tar.members)
<1>1. /\ ArchTypes /\ ArchFilling /\ pc = "files" /\ UNCHANGED <<contents, settings, sizes>>
      /\ sizes \in [DOMAIN contents -> Nat] /\ next \in 1..(n + 1) /\ IsList(entries)
  BY DEF Arch!AddContent, Arch!input, ArchInv, ArchTypes
<1>2. n \in Nat /\ DOMAIN contents = 1..n
  BY GivenContents
<1>3. /\ k = next - 1 /\ Len(entries) = next - 1
      /\ \A i \in 1..(next - 1) :
              /\ ArchStandsFor(tar.members[i], contents[i])
              /\ Lists(entries[i], tar.members[i])
              /\ tar.owed = 0 => Measures(entries[i], tar.members[i])
      /\ totalSize = Lengths(tar.members) + tar.owed
  BY <1>1 DEF ArchFilling
<1>4. CASE Arch!Fail
  BY <1>1, <1>4, ArchFails
<1>5. CASE next > n /\ pc' = "pkginfo" /\ UNCHANGED <<Arch!manifest, tar, encoder, output>>
  <2>1. next = n + 1
    BY <1>1, <1>2, <1>5
  <2>2. UNCHANGED <<next, entries, totalSize, tar, encoder, output>> /\ pc' = "pkginfo"
    BY <1>5 DEF Arch!manifest
  <2>3. ArchTypes'
    BY <1>1, <2>2 DEF ArchTypes, Arch!Stages
  <2>4. ArchFilling'
    BY <1>1, <1>3, <2>1, <2>2 DEF ArchFilling
  <2>5. ArchClosing'
    BY <2>2 DEF ArchClosing
  <2> QED
    BY <2>3, <2>4, <2>5 DEF ArchInv
<1>6. ASSUME NEW m, NEW e, NEW size \in Nat, NEW length \in Nat, length <= size, next <= n,
             Whole(m), ArchStandsFor(m, c), Lists(e, m), size = length => Measures(e, m),
             SizeOf(m) = length,
             Arch!CanPut, Arch!Put(m, size, length), entries' = Append(entries, e),
             totalSize' = totalSize + size, next' = next + 1, pc' = pc
      PROVE  ArchInv'
  <2>1. /\ tar.owed = 0 /\ tar'.owed = size - length /\ tar'.owed \in Nat
        /\ k \in Nat /\ IsList(tar'.members) /\ AllWhole(tar'.members)
        /\ Len(tar'.members) = k + 1 /\ tar'.members[k + 1] = m
        /\ \A i \in 1..k : tar'.members[i] = tar.members[i]
        /\ Lengths(tar.members) \in Nat
        /\ Lengths(tar'.members) = Lengths(tar.members) + length
        /\ encoder' \in {"clean", "pending", "broken"}
        /\ output' \in {"none", "part", "all"}
    BY <1>1, <1>6, ArchPuts
  <2>2. /\ IsList(entries') /\ Len(entries') = Len(entries) + 1 /\ entries'[Len(entries) + 1] = e
        /\ \A i \in 1..Len(entries) : entries'[i] = entries[i]
    BY <1>1, <1>6, ListAppend
  <2> HIDE DEF k, n, c
  <2>3. next \in Nat /\ next = k + 1 /\ Len(entries) = k /\ next' - 1 = k + 1 /\ next' \in 1..(n + 1)
    BY <1>1, <1>2, <1>3, <1>6, <2>1
  <2>4. totalSize' \in Nat /\ totalSize' = Lengths(tar'.members) + tar'.owed
    BY <1>3, <1>6, <2>1
  <2>5. ArchTypes'
    BY <1>1, <1>6, <2>1, <2>2, <2>3, <2>4 DEF ArchTypes, n
  <2>6. ASSUME NEW i \in 1..(k + 1)
        PROVE  /\ ArchStandsFor(tar'.members[i], contents'[i])
               /\ Lists(entries'[i], tar'.members[i])
               /\ tar'.owed = 0 => Measures(entries'[i], tar'.members[i])
    <3>1. CASE i \in 1..k
      <4>1. tar'.members[i] = tar.members[i] /\ entries'[i] = entries[i] /\ contents'[i] = contents[i]
        BY <1>1, <2>1, <2>2, <2>3, <3>1
      <4> QED
        BY <1>3, <2>1, <2>3, <3>1, <4>1
    <3>2. CASE i = k + 1
      <4>1. tar'.members[i] = m /\ entries'[i] = e /\ contents'[i] = c
        BY <1>1, <2>1, <2>2, <2>3, <3>2 DEF c
      <4>2. tar'.owed = 0 => size = length
        BY <2>1, <1>6
      <4> QED
        BY <1>6, <4>1, <4>2
    <3> QED
      BY <2>1, <3>1, <3>2
  <2>7. ArchFilling'
    BY <1>1, <1>6, <2>1, <2>2, <2>3, <2>4, <2>6 DEF ArchFilling
  <2>8. ArchClosing'
    BY <1>1, <1>6 DEF ArchClosing
  <2> QED
    BY <2>5, <2>7, <2>8 DEF ArchInv
<1>7. CASE next <= n /\ Arch!AddWithoutBody(c) /\ ~ Arch!Fail
  <2> DEFINE kind == IF c.type = "symlink" THEN "link" ELSE "dir"
             m == Arch!Member(c.dst, kind, Gone)
             e == Arch!MtreeEntry(c.dst, kind, Gone, 0)
  <2>1. /\ Arch!CanPut /\ Arch!Put(m, 0, 0) /\ entries' = Append(entries, e)
        /\ next' = next + 1 /\ pc' = pc /\ totalSize' = totalSize
        /\ c.type \in {"dir", "implicit dir", "symlink"}
    BY <1>7 DEF Arch!AddWithoutBody
  <2>2. /\ m.dst = c.dst /\ m.kind = kind /\ kind # "file" /\ kind = ArchKind(c)
        /\ e.dst = c.dst /\ e.kind = kind /\ e.body = m.body
    BY <2>1 DEF Arch!Member, Arch!MtreeEntry, ArchKind, FileTypes
  <2>3. Whole(m) /\ ArchStandsFor(m, c) /\ Lists(e, m) /\ Measures(e, m) /\ SizeOf(m) = 0
    BY <2>2 DEF Whole, ArchStandsFor, Lists, Measures, SizeOf
  <2>4. totalSize \in Nat
    BY <1>1 DEF ArchTypes
  <2>5. totalSize' = totalSize + 0
    <3>1. totalSize' = totalSize
      BY <2>1
    <3> QED
      BY <2>4, <3>1
  <2>6. next <= n /\ 0 \in Nat /\ 0 <= 0
    BY <1>7
  <2> HIDE DEF m, e, kind, n, c
  <2> QED
    BY <1>6, <2>1, <2>3, <2>5, <2>6
<1>8. CASE next <= n /\ Arch!AddFile(c) /\ ~ Arch!Fail
  <2> DEFINE v == host[c.src]
             size == sizes[next]
             m == Arch!Member(c.dst, "file", v)
             e == Arch!MtreeEntry(c.dst, "file", v, size)
  <2>1. /\ Arch!CanPut /\ Arch!Put(m, size, Length[v]) /\ entries' = Append(entries, e)
        /\ next' = next + 1 /\ pc' = pc /\ totalSize' = totalSize + size
        /\ c.type \in FileTypes /\ v # Gone /\ Length[v] <= size
    BY <1>8 DEF Arch!AddFile, Arch!Exists, Arch!Bytes, Arch!Fits, Arch!FileTypes, Arch!ConfigTypes,
                FileTypes
  <2>2. next \in DOMAIN contents
    BY <1>1, <1>2, <1>8
  <2>3. v \in Versions /\ Length[v] \in Nat /\ size \in Nat
    BY <1>1, <2>1, <2>2, GivenContents, FileIsWhole DEF GivenOK
  <2>4. /\ m.dst = c.dst /\ m.kind = "file" /\ m.body = v
        /\ e.dst = c.dst /\ e.kind = "file" /\ e.body = v /\ e.size = size
    BY DEF Arch!Member, Arch!MtreeEntry
  <2>5. /\ Whole(m) /\ ArchStandsFor(m, c) /\ Lists(e, m) /\ SizeOf(m) = Length[v]
        /\ size = Length[v] => Measures(e, m)
    BY <2>1, <2>3, <2>4 DEF Whole, ArchStandsFor, ArchKind, Lists, Measures, SizeOf
  <2> HIDE DEF m, e, v, size
  <2> QED
    BY <1>6, <1>8, <2>1, <2>3, <2>5
<1> QED
  BY <1>1, <1>2, <1>4, <1>5, <1>7, <1>8 DEF Arch!AddContent

(* The sizes are taken before anything else. *)
LEMMA ArchStarts ==
    ASSUME GivenOK, ArchInv, format = "archlinux", Arch!Start, UNCHANGED format
    PROVE  ArchInv'
<1>1. /\ ArchTypes /\ ArchFilling /\ pc = "start" /\ pc' \in {"files", "failed"}
      /\ UNCHANGED <<contents, settings, next, entries, totalSize, tar, encoder, output>>
      /\ sizes' = [i \in DOMAIN contents |-> Arch!SizeNow(contents[i].src)]
  BY DEF Arch!Start, Arch!manifest, ArchInv
<1>2. \A src : Arch!SizeNow(src) \in Nat
  BY FileIsWhole DEF GivenOK, Arch!SizeNow, Arch!Exists, Arch!Bytes
<1>3. sizes' \in [DOMAIN contents' -> Nat]
  BY <1>1, <1>2
<1>4. ArchTypes'
  BY <1>1, <1>3 DEF ArchTypes, Arch!Stages
<1>5. ArchFilling'
  BY <1>1 DEF ArchFilling
<1>6. ArchClosing'
  BY <1>1 DEF ArchClosing
<1> QED
  BY <1>4, <1>5, <1>6 DEF ArchInv

(* .PKGINFO tells the sum of the sizes, now that they are known to be      *)
(* those of the members.                                                   *)
LEMMA ArchWritesPkginfo ==
    ASSUME GivenOK, ArchInv, format = "archlinux", Arch!CreatePkginfo, UNCHANGED format
    PROVE  ArchInv'
<1> DEFINE n == Len(contents)
           k == Len(tar.members)
<1>1. ArchTypes /\ ArchFilling /\ pc = "pkginfo" /\ UNCHANGED <<contents, settings, sizes>>
  BY DEF Arch!CreatePkginfo, Arch!input, ArchInv
<1>2. n \in Nat
  BY GivenContents
<1>3. CASE Arch!Fail
  BY <1>1, <1>3, ArchFails
<1>4. CASE ~ Arch!Fail
  <2>1. /\ Arch!CanPut /\ Arch!Put(PkginfoMember, 0, 0) /\ entries' = <<PkginfoEntry>> \o entries
        /\ pc' = "mtree" /\ UNCHANGED <<next, totalSize>>
    BY <1>4 DEF Arch!CreatePkginfo, PkginfoMember, PkginfoEntry
  <2>2. Whole(PkginfoMember) /\ SizeOf(PkginfoMember) = 0
    BY DEF PkginfoMember, Arch!Member, Whole, SizeOf
  <2>3. PkginfoMember' = PkginfoMember /\ PkginfoEntry' = PkginfoEntry
    BY <1>1, <2>1 DEF PkginfoMember, PkginfoEntry, Arch!Pkginfo, Arch!Backup
  <2>4. IsList(entries)
    BY <1>1 DEF ArchTypes
  <2> DEFINE e == PkginfoEntry
             m == PkginfoMember
  <2> HIDE DEF e, m
  <2>5. /\ tar.owed = 0 /\ tar'.owed = 0 /\ k \in Nat /\ IsList(tar'.members) /\ AllWhole(tar'.members)
        /\ Len(tar'.members) = k + 1 /\ tar'.members[k + 1] = m
        /\ \A i \in 1..k : tar'.members[i] = tar.members[i]
        /\ Lengths(tar.members) \in Nat /\ Lengths(tar'.members) = Lengths(tar.members)
        /\ encoder' \in {"clean", "pending", "broken"} /\ output' \in {"none", "part", "all"}
    <3>1. 0 \in Nat /\ 0 <= 0 /\ 0 - 0 = 0 /\ \A x \in Nat : x + 0 = x
      OBVIOUS
    <3> QED
      BY <1>1, <2>1, <2>2, <3>1, ArchPuts DEF m
  <2>6. /\ IsList(entries') /\ Len(entries') = Len(entries) + 1 /\ entries'[1] = e
        /\ \A i \in 1..Len(entries) : entries'[i + 1] = entries[i]
    BY <2>1, <2>4, ListPrepend DEF e
  <2>7. /\ k = next - 1 /\ Len(entries) = next - 1 /\ next = n + 1
        /\ \A i \in 1..(next - 1) :
              /\ ArchStandsFor(tar.members[i], contents[i])
              /\ Lists(entries[i], tar.members[i])
              /\ tar.owed = 0 => Measures(entries[i], tar.members[i])
        /\ totalSize = Lengths(tar.members) + tar.owed
    BY <1>1 DEF ArchFilling
  <2> HIDE DEF k, n
  <2>8. k = n /\ Len(entries) = n /\ 1..(next - 1) = 1..n
    BY <1>2, <2>7
  <2>9. \A i \in 1..n : /\ ArchStandsFor(tar'.members[i], contents'[i])
                         /\ Lists(entries'[i + 1], tar'.members[i])
                         /\ Measures(entries'[i + 1], tar'.members[i])
    BY <1>1, <2>5, <2>6, <2>7, <2>8
  <2>10. totalSize' = Lengths(tar'.members)
    BY <2>1, <2>5, <2>7
  <2>11. ArchTypes'
    BY <1>1, <2>1, <2>5, <2>6 DEF ArchTypes, Arch!Stages
  <2>12. ArchFilling'
    BY <2>1 DEF ArchFilling
  <2>13. Len(tar'.members) = n + 1 /\ Len(entries') = n + 1 /\ n + 1 >= n + 1
    BY <1>2, <2>5, <2>6, <2>8
  <2>14. entries'[1] = PkginfoEntry' /\ tar'.members[n + 1] = PkginfoMember'
    BY <2>3, <2>5, <2>6, <2>8 DEF e, m
  <2>15. ArchClosing'
    BY <1>1, <2>1, <2>9, <2>10, <2>13, <2>14 DEF ArchClosing, n
  <2> QED
    BY <2>11, <2>12, <2>15 DEF ArchInv
<1> QED
  BY <1>3, <1>4

(* .MTREE and .INSTALL come behind it and change nothing before them. *)
LEMMA ArchWritesMeta ==
    ASSUME GivenOK, ArchInv, format = "archlinux", UNCHANGED <<format, contents, settings, sizes>>,
           pc \in {"mtree", "install"}, NEW body, pc = "mtree" => body = entries,
           Arch!CanPut, Arch!Put(Arch!Member(IF pc = "mtree" THEN <<".MTREE">> ELSE <<".INSTALL">>,
                                             "meta", body), 0, 0),
           pc' = IF pc = "mtree" THEN "install" ELSE "close",
           UNCHANGED <<next, entries, totalSize>>
    PROVE  ArchInv'
<1> DEFINE n == Len(contents)
           k == Len(tar.members)
           m == Arch!Member(IF pc = "mtree" THEN <<".MTREE">> ELSE <<".INSTALL">>, "meta", body)
<1>1. ArchTypes /\ ArchClosing
  BY DEF ArchInv
<1>2. n \in Nat
  BY GivenContents
<1>3. Whole(m) /\ SizeOf(m) = 0 /\ m.body = body
  BY DEF Arch!Member, Whole, SizeOf
<1> HIDE DEF m
<1>4. /\ tar'.owed = 0 /\ k \in Nat /\ IsList(tar'.members) /\ AllWhole(tar'.members)
      /\ Len(tar'.members) = k + 1 /\ tar'.members[k + 1] = m
      /\ \A i \in 1..k : tar'.members[i] = tar.members[i]
      /\ Lengths(tar.members) \in Nat /\ Lengths(tar'.members) = Lengths(tar.members)
      /\ encoder' \in {"clean", "pending", "broken"} /\ output' \in {"none", "part", "all"}
  <2>1. 0 \in Nat /\ 0 <= 0 /\ 0 - 0 = 0 /\ \A x \in Nat : x + 0 = x
    OBVIOUS
  <2> QED
    BY <1>1, <1>3, <2>1, ArchPuts DEF m
<1>5. PkginfoMember' = PkginfoMember /\ PkginfoEntry' = PkginfoEntry
  BY DEF PkginfoMember, PkginfoEntry, Arch!Pkginfo, Arch!Backup
<1>6. /\ k >= n + 1 /\ Len(entries) = n + 1
      /\ \A i \in 1..n :
            /\ ArchStandsFor(tar.members[i], contents[i])
            /\ Lists(entries[i + 1], tar.members[i])
            /\ Measures(entries[i + 1], tar.members[i])
      /\ entries[1] = PkginfoEntry /\ tar.members[n + 1] = PkginfoMember
      /\ totalSize = Lengths(tar.members)
      /\ pc = "mtree" => k = n + 1
      /\ pc = "install" => k >= n + 2 /\ tar.members[n + 2].body = entries
  BY <1>1 DEF ArchClosing
<1> HIDE DEF n, k
<1>7. \A i \in 1..n : i \in 1..k /\ n + 1 \in 1..k
  BY <1>2, <1>4, <1>6
<1>8. \A i \in 1..n : /\ ArchStandsFor(tar'.members[i], contents'[i])
                       /\ Lists(entries'[i + 1], tar'.members[i])
                       /\ Measures(entries'[i + 1], tar'.members[i])
  BY <1>4, <1>6, <1>7
<1>9. Len(tar'.members) >= n + 2 /\ Len(tar'.members) >= n + 1
  BY <1>2, <1>4, <1>6
<1>10. tar'.members[n + 1] = PkginfoMember'
  <2>1. n + 1 \in 1..k
    BY <1>2, <1>4, <1>6
  <2> QED
    BY <1>4, <1>5, <1>6, <2>1
<1>11. tar'.members[n + 2].body = entries'
  <2>1. CASE pc = "mtree"
    <3>1. k + 1 = n + 2
      BY <1>2, <1>6, <2>1
    <3> QED
      BY <1>3, <1>4, <2>1, <3>1
  <2>2. CASE pc = "install"
    <3>1. n + 2 \in 1..k
      BY <1>2, <1>4, <1>6, <2>2
    <3> QED
      BY <1>4, <1>6, <2>2, <3>1
  <2> QED
    BY <2>1, <2>2
<1>12. ArchTypes'
  BY <1>1, <1>4 DEF ArchTypes, Arch!Stages
<1>13. ArchFilling' /\ pc' \in {"install", "close"}
  BY DEF ArchFilling
<1>14. ArchClosing'
  BY <1>4, <1>5, <1>6, <1>8, <1>9, <1>10, <1>11, <1>13 DEF ArchClosing, n
<1> QED
  BY <1>12, <1>13, <1>14 DEF ArchInv

(* Every step of the arch packager keeps its invariant. *)
LEMMA ArchStep == GivenOK /\ ArchInv /\ PackageArch => ArchInv'
<1> SUFFICES ASSUME GivenOK, ArchInv, PackageArch PROVE ArchInv'
  OBVIOUS
<1>1. format = "archlinux" /\ UNCHANGED <<format, contents>> /\ ArchTypes /\ ArchClosing
  BY ArchFrozen DEF PackageArch, ArchInv, Frozen, Kept
<1>2. CASE Arch!Start
  BY <1>1, <1>2, ArchStarts
<1>3. CASE Arch!AddContent
  BY <1>1, <1>3, ArchAdds
<1>4. CASE Arch!CreatePkginfo
  BY <1>1, <1>4, ArchWritesPkginfo
<1>5. CASE Arch!CreateMtree
  <2>1. pc = "mtree" /\ UNCHANGED <<settings, sizes>>
    BY <1>5 DEF Arch!CreateMtree, Arch!input
  <2>2. CASE Arch!Fail
    BY <1>1, <2>1, <2>2, ArchFails
  <2>3. CASE ~ Arch!Fail
    <3>1. /\ Arch!CanPut /\ Arch!Put(Arch!Member(<<".MTREE">>, "meta", entries), 0, 0)
          /\ pc' = "install" /\ UNCHANGED <<next, entries, totalSize>>
      BY <1>5, <2>3 DEF Arch!CreateMtree, Arch!manifest
    <3> QED
      BY <1>1, <2>1, <3>1, ArchWritesMeta
  <2> QED
    BY <2>2, <2>3
<1>6. CASE Arch!CreateScripts
  <2>1. pc = "install" /\ UNCHANGED <<settings, sizes>>
    BY <1>6 DEF Arch!CreateScripts, Arch!input
  <2>2. CASE Arch!Fail
    BY <1>1, <2>1, <2>2, ArchFails
  <2>3. CASE settings.scripts = {}
    <3>1. pc' = "close" /\ UNCHANGED <<next, entries, totalSize, tar, encoder, output>>
      BY <1>6, <2>3 DEF Arch!CreateScripts, Arch!manifest
    <3>2. PkginfoMember' = PkginfoMember /\ PkginfoEntry' = PkginfoEntry
      BY <1>1, <3>1 DEF PkginfoMember, PkginfoEntry, Arch!Pkginfo, Arch!Backup
    <3> QED
      BY <1>1, <2>1, <3>1, <3>2 DEF ArchInv, ArchTypes, ArchFilling, ArchClosing, Arch!Stages
  <2>4. CASE settings.scripts # {} /\ ~ Arch!Fail
    <3> DEFINE held == [s \in settings.scripts |-> host[s]]
    <3>1. /\ Arch!CanPut /\ Arch!Put(Arch!Member(<<".INSTALL">>, "meta", held), 0, 0)
          /\ pc' = "close" /\ UNCHANGED <<next, entries, totalSize>>
      BY <1>6, <2>4 DEF Arch!CreateScripts, Arch!manifest
    <3> HIDE DEF held
    <3> QED
      BY <1>1, <2>1, <3>1, ArchWritesMeta
  <2> QED
    BY <2>2, <2>3, <2>4
<1>7. CASE Arch!Close
  <2>1. /\ pc = "close" /\ pc' = "done" /\ UNCHANGED <<settings, sizes, next, entries, totalSize, tar>>
        /\ encoder' \in {"clean", "broken"} /\ output' \in {"none", "part", "all"}
    BY <1>1, <1>7 DEF Arch!Close, Arch!input, Arch!manifest, ArchTypes
  <2>2. PkginfoMember' = PkginfoMember /\ PkginfoEntry' = PkginfoEntry
    BY <1>1, <2>1 DEF PkginfoMember, PkginfoEntry, Arch!Pkginfo, Arch!Backup
  <2> QED
    BY <1>1, <2>1, <2>2 DEF ArchInv, ArchTypes, ArchFilling, ArchClosing, Arch!Stages
<1> QED
  BY <1>2, <1>3, <1>4, <1>5, <1>6, <1>7 DEF PackageArch, Arch!Package

(* What is known of the arch packager stays known. *)
LEMMA ArchStays == Spec => []ArchInv
<1>1. Init => ArchInv
  <2> SUFFICES ASSUME Init, format = "archlinux" PROVE ArchInv
    BY DEF ArchInv
  <2>1. /\ next = 1 /\ tar.members = <<>> /\ tar.owed = 0 /\ entries = <<>> /\ totalSize = 0
        /\ pc = "start" /\ encoder = "clean" /\ output = "none" /\ settings \in Of("archlinux", Settings)
    BY DEF Init, Arch!Init, Arch!EmptyTar
  <2>2. Len(contents) \in Nat
    BY InitGiven, GivenContents
  <2>3. ArchTypes
    BY <2>1, <2>2, EmptyIsList, LengthsEmpty DEF ArchTypes, Arch!Stages
  <2> QED
    BY <2>1, <2>3, EmptyIsList, LengthsEmpty DEF ArchInv, ArchFilling, ArchClosing
<1>2. ASSUME GivenOK, ArchInv, [Next]_vars PROVE ArchInv'
  <2>1. CASE PackageArch
    BY <1>2, <2>1, ArchStep
  <2>2. CASE PackageDeb \/ PackageIpk \/ PackageRpm \/ PackageMsix
    BY <2>2, RpmFrozen DEF Frozen, Kept, PackageDeb, PackageIpk, PackageRpm, PackageMsix, ArchInv
  <2>3. CASE Meanwhile \/ UNCHANGED vars
    <3>1. UNCHANGED <<format, contents, settings, pc, sizes, next, tar, entries, totalSize, encoder, output>>
      BY <2>3 DEF Meanwhile, vars, callVars, madeVars, listVars
    <3> QED
      BY <1>2, <3>1 DEF ArchInv, ArchTypes, ArchFilling, ArchClosing, PkginfoMember, PkginfoEntry,
                        Arch!Pkginfo, Arch!Backup
  <2> QED
    BY <1>2, <2>1, <2>2, <2>3 DEF Next, Package
<1> QED
  BY <1>1, <1>2, GivenStays, PTL DEF Spec

(* What .MTREE and .PKGINFO say is true of the archive. *)
LEMMA ArchDescribesItself ==
    ASSUME GivenOK, ArchInv, format = "archlinux"
    PROVE  Arch!DescribesItself
<1> SUFFICES ASSUME pc \in {"install", "close", "done"} PROVE Arch!DescribesItself
  BY DEF Arch!DescribesItself, Arch!AfterMtree
<1> DEFINE n == Len(contents)
<1>1. ArchTypes /\ ArchClosing
  BY DEF ArchInv
<1>2. /\ Len(entries) = n + 1
      /\ \A i \in 1..n :
            /\ ArchStandsFor(tar.members[i], contents[i])
            /\ Lists(entries[i + 1], tar.members[i])
            /\ Measures(entries[i + 1], tar.members[i])
      /\ entries[1] = PkginfoEntry /\ tar.members[n + 1] = PkginfoMember
      /\ totalSize = Lengths(tar.members)
      /\ tar.members[n + 2].body = entries
  BY <1>1 DEF ArchClosing
<1>3. /\ PkginfoMember.body = Arch!Pkginfo /\ PkginfoEntry.body = Arch!Pkginfo
      /\ PkginfoEntry.dst = <<".PKGINFO">>
      /\ Arch!Pkginfo.size = totalSize /\ Arch!Pkginfo.backup = Arch!Backup
  BY DEF PkginfoMember, PkginfoEntry, Arch!Member, Arch!MtreeEntry, Arch!Pkginfo
<1>4. ASSUME NEW dst \in Arch!Backup
      PROVE  \E i \in 1..n : tar.members[i].dst = dst /\ tar.members[i].kind = "file"
  <2>1. PICK i \in DOMAIN contents : contents[i].dst = dst /\ contents[i].type \in FileTypes
    BY DEF Arch!Backup, Arch!ConfigTypes, FileTypes
  <2>2. i \in 1..n
    BY GivenContents
  <2> QED
    BY <1>2, <2>1, <2>2 DEF ArchStandsFor, ArchKind
<1> HIDE DEF n
<1>5. \A i \in 1..n :
         /\ entries[i + 1].dst = tar.members[i].dst
         /\ entries[i + 1].kind = tar.members[i].kind
         /\ entries[i + 1].body = tar.members[i].body
         /\ tar.members[i].kind = "file" => entries[i + 1].size = Length[tar.members[i].body]
  BY <1>2 DEF Lists, Measures
<1>6. Arch!Pkginfo.size = Arch!SumOfLengths(tar.members)
  BY <1>2, <1>3, SameLengths
<1> QED
  BY <1>2, <1>3, <1>4, <1>5, <1>6 DEF Arch!DescribesItself, n

-----------------------------------------------------------------------------
(***************************************************************************)
(* The deb packager.                                                       *)
(***************************************************************************)
DebStandsFor(m, c) ==
    /\ m.dst = c.dst
    /\ c.type \in FileTypes => m.kind = "file"

(* A line of md5sums is about a file of the archive. *)
Digests(line, file) == line = [dst |-> file.dst, digest |-> file.body]

DebTypes ==
    /\ settings \in Of("deb", Settings)
    /\ pc \in {"start", "data", "control", "ar", "sign", "done", "failed"}
    /\ next \in 1..(Len(contents) + 1)
    /\ tar.owed \in Nat /\ totalSize \in Nat
    /\ IsList(tar.members) /\ AllWhole(tar.members) /\ IsList(entries)
    /\ pc = "data" => sizes \in [DOMAIN contents -> Nat]

(* A member for each content that was added, a digest for each file, and   *)
(* the sum of the announced sizes.                                         *)
DebFilling ==
    /\ Len(tar.members) = next - 1
    /\ \A i \in 1..(next - 1) : DebStandsFor(tar.members[i], contents[i])
    /\ IsList(Files(tar.members)) /\ Len(entries) = Len(Files(tar.members))
    /\ \A i \in DOMAIN entries : Digests(entries[i], Files(tar.members)[i])
    /\ totalSize = Lengths(tar.members) + tar.owed

(* The parts of the archive, one after the other. *)
DebArchive ==
    /\ IsList(ar)
    /\ pc \in {"start", "data", "control"} => ar = <<>>
    /\ pc \in {"control", "ar", "sign", "done"} \/ ar # <<>> => tar.owed = 0 /\ next = Len(contents) + 1
    /\ pc \in {"ar", "sign", "done"} \/ ar # <<>> =>
          /\ meta.md5sums = entries
          /\ meta.installedSize = totalSize \div KiB
          /\ meta.conffiles = Deb!Conffiles
    /\ pc = "ar" => Len(ar) < 3
    /\ pc = "sign" => Len(ar) = 3
    /\ Len(ar) >= 1 => ar[1].body = "2.0"
    /\ Len(ar) >= 2 => ar[2].body = meta
    /\ Len(ar) >= 3 => ar[3].body = tar.members

(* The signature comes last, is over the three parts, and of one key. *)
DebSigned ==
    pc = "done" /\ Deb!Signed(settings.signature) =>
        /\ Len(ar) = 4
        /\ ar[4].bodies = Deb!SignedBodies
        /\ ar[4].keys \in Deb!PGPKeys(settings.signature)

DebInv == format = "deb" => DebTypes /\ DebFilling /\ DebArchive /\ DebSigned

(* A failed step leaves what was made and ends the call. *)
LEMMA DebFails ==
    ASSUME DebInv, format = "deb", Deb!Fail, UNCHANGED <<format, contents, settings>>,
           pc \notin {"done", "failed"}
    PROVE  DebInv'
  BY DEF Deb!Fail, Deb!tarball, DebInv, DebTypes, DebFilling, DebArchive, DebSigned, Deb!Conffiles

(* The sizes are taken before anything else. *)
LEMMA DebStarts ==
    ASSUME GivenOK, DebInv, format = "deb", Deb!Start, UNCHANGED format
    PROVE  DebInv'
<1>1. /\ DebTypes /\ DebFilling /\ DebArchive /\ pc = "start" /\ pc' \in {"data", "failed"}
      /\ UNCHANGED <<contents, settings, next, entries, totalSize, tar, meta, ar>>
      /\ sizes' = [i \in DOMAIN contents |-> Deb!SizeNow(contents[i].src)]
  BY DEF Deb!Start, Deb!tarball, DebInv
<1>2. \A src : Deb!SizeNow(src) \in Nat
  BY FileIsWhole DEF GivenOK, Deb!SizeNow, Deb!Exists, Deb!Bytes
<1>3. sizes' \in [DOMAIN contents' -> Nat]
  BY <1>1, <1>2
<1>4. DebTypes'
  BY <1>1, <1>3 DEF DebTypes
<1>5. DebFilling'
  BY <1>1 DEF DebFilling
<1>6. DebArchive' /\ DebSigned'
  BY <1>1, EmptyIsList DEF DebArchive, DebSigned
<1> QED
  BY <1>4, <1>5, <1>6 DEF DebInv

(* A file that is appended is the last of the files. *)
LEMMA FilesGrow ==
    ASSUME NEW members, IsList(members), NEW m
    PROVE  /\ IsList(Files(members))
           /\ Files(Append(members, m)) =
                 IF m.kind = "file" THEN Append(Files(members), m) ELSE Files(members)
<1> DEFINE S == {members[i] : i \in DOMAIN members} \cup {m}
<1>1. members \in Seq(S) /\ m \in S
  BY SeqMonotonic DEF IsList
<1> HIDE DEF S
<1> QED
  BY <1>1, FilesAppend, SeqIsList

(* A content that is added: its member, and if that is a file a line in    *)
(* md5sums and its announced size.                                         *)
LEMMA DebGrows ==
    ASSUME GivenOK, DebInv, format = "deb", pc = "data", next <= Len(contents), tar.owed = 0,
           UNCHANGED <<format, contents, settings, sizes, pc, meta, ar>>,
           NEW m, NEW size \in Nat, NEW length \in Nat, length <= size,
           Whole(m), DebStandsFor(m, contents[next]), SizeOf(m) = length,
           tar' = Deb!WithMember(tar, m, size, length), next' = next + 1,
           totalSize' = totalSize + size,
           entries' = IF m.kind = "file" THEN Append(entries, [dst |-> m.dst, digest |-> m.body])
                      ELSE entries
    PROVE  DebInv'
<1> DEFINE k == Len(tar.members)
           n == Len(contents)
           old == Files(tar.members)
           new == Files(tar'.members)
<1>1. DebTypes /\ DebFilling /\ DebArchive
  BY DEF DebInv
<1>2. n \in Nat /\ IsList(tar.members) /\ AllWhole(tar.members) /\ IsList(entries) /\ next \in 1..(n + 1)
  BY <1>1, GivenContents DEF DebTypes
<1>3. tar'.members = Append(tar.members, m) /\ tar'.owed = size - length /\ tar'.owed \in Nat
  BY DEF Deb!WithMember
<1>4. /\ k \in Nat /\ IsList(tar'.members) /\ Len(tar'.members) = k + 1 /\ tar'.members[k + 1] = m
      /\ \A i \in 1..k : tar'.members[i] = tar.members[i]
      /\ AllWhole(tar'.members) /\ Lengths(tar.members) \in Nat
      /\ Lengths(tar'.members) = Lengths(tar.members) + length
  <2>1. k \in Nat
    BY <1>2, ListLength
  <2>2. /\ IsList(tar'.members) /\ Len(tar'.members) = k + 1 /\ tar'.members[k + 1] = m
        /\ \A i \in 1..k : tar'.members[i] = tar.members[i]
    BY <1>2, <1>3, ListAppend
  <2>3. /\ AllWhole(tar'.members) /\ Lengths(tar.members) \in Nat
        /\ Lengths(tar'.members) = Lengths(tar.members) + SizeOf(m)
    BY <1>2, <1>3, LengthsAppend
  <2> QED
    BY <2>1, <2>2, <2>3
<1>5. IsList(old) /\ new = IF m.kind = "file" THEN Append(old, m) ELSE old
  BY <1>2, <1>3, FilesGrow, ZenonT(60)
<1>6. /\ k = next - 1 /\ Len(entries) = Len(old)
      /\ \A i \in 1..(next - 1) : DebStandsFor(tar.members[i], contents[i])
      /\ \A i \in DOMAIN entries : Digests(entries[i], old[i])
      /\ totalSize = Lengths(tar.members) + tar.owed
  BY <1>1 DEF DebFilling
<1> HIDE DEF k, n, old, new
<1>7. next \in Nat /\ next = k + 1 /\ next' - 1 = k + 1 /\ next' \in 1..(n + 1)
  BY <1>2, <1>4, <1>6 DEF n
<1>8. totalSize' \in Nat /\ totalSize' = Lengths(tar'.members) + tar'.owed
  <2>1. totalSize = Lengths(tar.members) + 0 /\ totalSize' = totalSize + size
    BY <1>6
  <2>2. ASSUME NEW L \in Nat
        PROVE  (L + 0) + size = (L + length) + (size - length) /\ (L + 0) + size \in Nat
    OBVIOUS
  <2>3. totalSize' = (Lengths(tar.members) + 0) + size
    BY <2>1
  <2>4. Lengths(tar'.members) + tar'.owed = (Lengths(tar.members) + length) + (size - length)
    BY <1>3, <1>4
  <2> QED
    BY <1>4, <2>2, <2>3, <2>4
<1>9. \A i \in 1..(next' - 1) : DebStandsFor(tar'.members[i], contents'[i])
  <2>1. \A i \in 1..(k + 1) : i \in 1..k \/ i = k + 1
    BY <1>4
  <2> QED
    BY <1>4, <1>6, <1>7, <2>1
<1>10. /\ IsList(new) /\ IsList(entries') /\ Len(entries') = Len(new)
       /\ \A i \in DOMAIN entries' : Digests(entries'[i], new[i])
  <2>1. CASE m.kind = "file"
    <3> DEFINE line == [dst |-> m.dst, digest |-> m.body]
               e == Len(entries)
    <3>1. entries' = Append(entries, line) /\ new = Append(old, m) /\ Digests(line, m)
      BY <1>5, <2>1 DEF Digests
    <3> HIDE DEF line, e
    <3>2. /\ e \in Nat /\ IsList(entries') /\ Len(entries') = e + 1 /\ DOMAIN entries' = 1..(e + 1)
          /\ entries'[e + 1] = line /\ \A i \in 1..e : entries'[i] = entries[i]
          /\ DOMAIN entries = 1..e
      BY <1>2, <3>1, ListAppend, ListLength DEF e
    <3>3. /\ IsList(new) /\ Len(new) = e + 1 /\ new[e + 1] = m /\ \A i \in 1..e : new[i] = old[i]
      BY <1>5, <1>6, <3>1, ListAppend DEF e
    <3>4. \A i \in 1..(e + 1) : i \in 1..e \/ i = e + 1
      BY <3>2
    <3> QED
      BY <1>6, <3>1, <3>2, <3>3, <3>4
  <2>2. CASE m.kind # "file"
    BY <1>2, <1>5, <1>6, <2>2
  <2> QED
    BY <2>1, <2>2
<1>11. DebTypes'
  BY <1>1, <1>3, <1>4, <1>7, <1>8, <1>10 DEF DebTypes, n
<1>12. DebFilling'
  BY <1>4, <1>7, <1>8, <1>9, <1>10 DEF DebFilling, new
<1>13. DebArchive' /\ DebSigned'
  BY <1>1, EmptyIsList DEF DebArchive, DebSigned
<1> QED
  BY <1>11, <1>12, <1>13 DEF DebInv

(* The step of the loop over the contents. *)
LEMMA DebAdds ==
    ASSUME GivenOK, DebInv, format = "deb", Deb!AddMember, UNCHANGED format
    PROVE  DebInv'
<1> DEFINE c == contents[next]
           n == Len(contents)
<1>1. /\ DebTypes /\ DebFilling /\ DebArchive /\ pc = "data" /\ UNCHANGED <<contents, settings, sizes>>
      /\ sizes \in [DOMAIN contents -> Nat] /\ next \in 1..(n + 1)
  BY DEF Deb!AddMember, Deb!input, DebInv, DebTypes
<1>2. n \in Nat /\ DOMAIN contents = 1..n
  BY GivenContents
<1>3. CASE Deb!Fail
  BY <1>1, <1>3, DebFails
<1>4. CASE next > n /\ Deb!CloseData /\ ~ Deb!Fail
  <2>1. next = n + 1
    BY <1>1, <1>2, <1>4
  <2>2. /\ UNCHANGED <<next, tar, entries, totalSize, meta, ar>> /\ pc' = "control" /\ tar.owed = 0
    BY <1>4 DEF Deb!CloseData, Deb!tarball, Deb!Settled
  <2>3. DebTypes'
    BY <1>1, <2>2 DEF DebTypes
  <2>4. DebFilling'
    BY <1>1, <2>2 DEF DebFilling
  <2>5. DebArchive' /\ DebSigned'
    BY <1>1, <2>1, <2>2, EmptyIsList DEF DebArchive, DebSigned
  <2> QED
    BY <2>3, <2>4, <2>5 DEF DebInv
<1>5. CASE next <= n /\ Deb!AddWithoutBody /\ ~ Deb!Fail
  <2> DEFINE m == Deb!Member(c, Deb!HeaderKind(c), Gone)
  <2>1. /\ tar.owed = 0 /\ tar' = Deb!WithMember(tar, m, 0, 0) /\ next' = next + 1
        /\ UNCHANGED <<pc, entries, totalSize, meta, ar>>
        /\ c.type \in {"dir", "implicit dir", "symlink"}
    BY <1>5 DEF Deb!AddWithoutBody, Deb!Settled
  <2>2. m.dst = c.dst /\ m.kind # "file"
    BY DEF Deb!Member, Deb!HeaderKind
  <2>3. Whole(m) /\ DebStandsFor(m, c) /\ SizeOf(m) = 0
    BY <2>1, <2>2 DEF Whole, DebStandsFor, SizeOf, FileTypes
  <2>4. totalSize \in Nat
    BY <1>1 DEF DebTypes
  <2>5. totalSize' = totalSize + 0 /\ 0 \in Nat /\ 0 <= 0
    <3>1. totalSize' = totalSize
      BY <2>1
    <3> QED
      BY <2>4, <3>1
  <2> HIDE DEF m
  <2> QED
    BY <1>1, <1>5, <2>1, <2>2, <2>3, <2>5, DebGrows
<1>6. ASSUME NEW size \in Nat, next <= n, c.src \in Sources, Deb!AddRegular(c, size), ~ Deb!Fail
      PROVE  DebInv'
  <2> DEFINE v == host[c.src]
             m == Deb!Member(c, "file", v)
  <2>1. /\ tar.owed = 0 /\ tar' = Deb!WithMember(tar, m, size, Length[v]) /\ next' = next + 1
        /\ entries' = Append(entries, [dst |-> c.dst, digest |-> v]) /\ totalSize' = totalSize + size
        /\ UNCHANGED <<pc, meta, ar>> /\ v # Gone /\ Length[v] <= size
    BY <1>6 DEF Deb!AddRegular, Deb!Exists, Deb!Settled, Deb!Fits, Deb!Bytes
  <2>2. v \in Versions /\ Length[v] \in Nat
    BY <1>6, <2>1, FileIsWhole DEF GivenOK
  <2>3. m.dst = c.dst /\ m.kind = "file" /\ m.body = v
    BY DEF Deb!Member
  <2>4. Whole(m) /\ DebStandsFor(m, c) /\ SizeOf(m) = Length[v]
    BY <2>2, <2>3 DEF Whole, DebStandsFor, SizeOf
  <2>5. entries' = Append(entries, [dst |-> m.dst, digest |-> m.body])
    BY <2>1, <2>3
  <2> HIDE DEF m, v
  <2> QED
    BY <1>1, <1>6, <2>1, <2>2, <2>3, <2>4, <2>5, DebGrows
<1>7. CASE next <= n /\ Deb!AddFile /\ ~ Deb!Fail
  <2>1. c.type \in FileTypes /\ Deb!AddRegular(c, sizes[next])
    BY <1>7 DEF Deb!AddFile, Deb!FileTypes, Deb!ConfigTypes, FileTypes
  <2>2. next \in DOMAIN contents
    BY <1>1, <1>2, <1>7
  <2>3. c.src \in Sources /\ sizes[next] \in Nat
    BY <1>1, <2>1, <2>2, GivenContents
  <2> QED
    BY <1>6, <1>7, <2>1, <2>3
<1>8. CASE next <= n /\ Deb!AddChangelog /\ ~ Deb!Fail
  <2> DEFINE size == IF Deb!Exists(c.src) THEN Deb!Bytes(c.src) ELSE 0
  <2>1. c.type = "debian changelog" /\ Deb!AddRegular(c, size)
    BY <1>8 DEF Deb!AddChangelog
  <2>2. next \in DOMAIN contents
    BY <1>1, <1>2, <1>8
  <2>3. c.src \in Sources
    BY <2>1, <2>2, GivenContents
  <2>4. size \in Nat
    BY <2>3, FileIsWhole DEF GivenOK, Deb!Exists, Deb!Bytes
  <2> HIDE DEF size
  <2> QED
    BY <1>6, <1>8, <2>1, <2>3, <2>4
<1> QED
  BY <1>1, <1>2, <1>3, <1>4, <1>5, <1>7, <1>8 DEF Deb!AddMember

(* control.tar.gz is made of what the data tarball turned out to be. *)
LEMMA DebControls ==
    ASSUME GivenOK, DebInv, format = "deb", Deb!CreateControl, UNCHANGED format
    PROVE  DebInv'
<1>1. /\ DebTypes /\ DebFilling /\ DebArchive /\ pc = "control"
      /\ UNCHANGED <<contents, settings, sizes>>
  BY DEF Deb!CreateControl, Deb!input, DebInv
<1>2. CASE Deb!Fail
  BY <1>1, <1>2, DebFails
<1>3. CASE ~ Deb!Fail
  <2> DEFINE held == [s \in settings.scripts |-> host[s]]
  <2>1. /\ meta' = [installedSize |-> totalSize \div KiB, md5sums |-> entries,
                    conffiles |-> Deb!Conffiles, scripts |-> held]
        /\ pc' = "ar" /\ UNCHANGED <<next, tar, entries, totalSize, ar>>
    BY <1>3 DEF Deb!CreateControl, Deb!tarball
  <2> HIDE DEF held
  <2>2. Deb!Conffiles' = Deb!Conffiles
    BY <1>1 DEF Deb!Conffiles
  <2>3. /\ meta'.installedSize = totalSize' \div KiB /\ meta'.md5sums = entries'
        /\ meta'.conffiles = Deb!Conffiles'
    BY <2>1, <2>2
  <2>4. ar' = <<>> /\ Len(ar') = 0 /\ tar'.owed = 0 /\ next' = Len(contents') + 1 /\ IsList(ar')
    BY <1>1, <2>1, EmptyIsList DEF DebArchive
  <2>5. DebTypes' /\ DebFilling'
    BY <1>1, <2>1 DEF DebTypes, DebFilling
  <2>6. DebArchive' /\ DebSigned'
    BY <2>1, <2>3, <2>4 DEF DebArchive, DebSigned
  <2> QED
    BY <2>5, <2>6 DEF DebInv
<1> QED
  BY <1>2, <1>3

(* The parts are written in their order, and each as it was made. *)
LEMMA DebWrites ==
    ASSUME GivenOK, DebInv, format = "deb", Deb!AddArFile, UNCHANGED format
    PROVE  DebInv'
<1> DEFINE k == Len(ar)
           part == Deb!PackageFiles[k + 1]
<1>1. /\ DebTypes /\ DebFilling /\ DebArchive /\ pc = "ar"
      /\ UNCHANGED <<contents, settings, sizes>>
  BY DEF Deb!AddArFile, Deb!input, DebInv
<1>2. CASE Deb!Fail
  BY <1>1, <1>2, DebFails
<1>3. CASE ~ Deb!Fail
  <2>1. /\ ar' = Append(ar, part) /\ UNCHANGED <<next, tar, entries, totalSize, meta>>
        /\ pc' = IF k + 1 < 3 THEN "ar"
                 ELSE IF Deb!Signed(settings.signature) THEN "sign" ELSE "done"
    BY <1>3 DEF Deb!AddArFile, Deb!PackageFiles, Deb!tarball
  <2>2. IsList(ar) /\ k < 3
    BY <1>1 DEF DebArchive
  <2>3. /\ Deb!PackageFiles[1].body = "2.0" /\ Deb!PackageFiles[2].body = meta
        /\ Deb!PackageFiles[3].body = tar.members
    BY DEF Deb!PackageFiles
  <2> HIDE DEF part
  <2>4. /\ k \in Nat /\ IsList(ar') /\ Len(ar') = k + 1 /\ ar'[k + 1] = part
        /\ \A i \in 1..k : ar'[i] = ar[i]
    BY <2>1, <2>2, ListAppend, ListLength
  <2>5. /\ k >= 1 => ar[1].body = "2.0"
        /\ k >= 2 => ar[2].body = meta
        /\ tar.owed = 0 /\ next = Len(contents) + 1
        /\ meta.md5sums = entries /\ meta.installedSize = totalSize \div KiB
        /\ meta.conffiles = Deb!Conffiles
    BY <1>1 DEF DebArchive
  <2> HIDE DEF k
  <2>6. k = 0 \/ k = 1 \/ k = 2
    BY <2>2, <2>4
  <2>7. /\ ar'[1].body = "2.0"
        /\ Len(ar') >= 2 => ar'[2].body = meta
        /\ Len(ar') >= 3 => ar'[3].body = tar.members
    <3>1. CASE k = 0
      BY <2>3, <2>4, <3>1 DEF part
    <3>2. CASE k = 1
      BY <2>3, <2>4, <2>5, <3>2 DEF part
    <3>3. CASE k = 2
      BY <2>3, <2>4, <2>5, <3>3 DEF part
    <3> QED
      BY <2>6, <3>1, <3>2, <3>3
  <2>8. /\ pc' = "ar" => Len(ar') < 3
        /\ pc' = "sign" => Len(ar') = 3
        /\ pc' \in {"ar", "sign", "done"}
        /\ ar' # <<>>
        /\ pc' = "done" => ~ Deb!Signed(settings.signature)
    BY <2>1, <2>4, <2>6, EmptyIsList
  <2>9. Deb!Conffiles' = Deb!Conffiles
    BY <1>1 DEF Deb!Conffiles
  <2>10. DebTypes' /\ DebFilling'
    BY <1>1, <2>1, <2>8 DEF DebTypes, DebFilling
  <2>11. DebArchive'
    BY <1>1, <2>1, <2>4, <2>5, <2>7, <2>8, <2>9 DEF DebArchive
  <2>12. DebSigned'
    BY <1>1, <2>8 DEF DebSigned
  <2> QED
    BY <2>10, <2>11, <2>12 DEF DebInv
<1> QED
  BY <1>2, <1>3

(* The signature is over what was written, and is written behind it. *)
LEMMA DebSigns ==
    ASSUME GivenOK, DebInv, format = "deb", Deb!Sign, UNCHANGED format
    PROVE  DebInv'
<1>1. /\ DebTypes /\ DebFilling /\ DebArchive /\ pc = "sign"
      /\ UNCHANGED <<contents, settings, sizes>>
  BY DEF Deb!Sign, Deb!input, DebInv
<1>2. CASE Deb!Fail
  BY <1>1, <1>2, DebFails
<1>3. CASE ~ Deb!Fail
  <2>1. PICK keys \in Deb!PGPKeys(settings.signature) :
           ar' = Append(ar, [name |-> "_gpg", role |-> Deb!Role, bodies |-> Deb!SignedBodies,
                             names |-> Deb!SignedNames, keys |-> keys])
    BY <1>3 DEF Deb!Sign
  <2>2. pc' = "done" /\ UNCHANGED <<next, tar, entries, totalSize, meta>>
    BY <1>3 DEF Deb!Sign, Deb!tarball
  <2> DEFINE x == [name |-> "_gpg", role |-> Deb!Role, bodies |-> Deb!SignedBodies,
                   names |-> Deb!SignedNames, keys |-> keys]
  <2>3. x.bodies = Deb!SignedBodies /\ x.keys = keys
    OBVIOUS
  <2>4. ar' = Append(ar, x)
    BY <2>1
  <2> HIDE DEF x
  <2>5. IsList(ar) /\ Len(ar) = 3
    BY <1>1 DEF DebArchive
  <2>6. /\ IsList(ar') /\ Len(ar') = Len(ar) + 1 /\ ar'[Len(ar) + 1] = x
        /\ \A i \in 1..Len(ar) : ar'[i] = ar[i]
    <3>1. IsList(ar)
      BY <2>5
    <3> QED
      BY <2>4, <3>1, ListAppend
  <2>7. Len(ar') = 4 /\ ar'[4] = x /\ ar'[1] = ar[1] /\ ar'[2] = ar[2] /\ ar'[3] = ar[3]
    BY <2>5, <2>6
  <2>8. Deb!SignedBodies' = Deb!SignedBodies /\ Deb!Conffiles' = Deb!Conffiles
    BY <1>1, <2>2 DEF Deb!SignedBodies, Deb!Conffiles
  <2>9. DebTypes' /\ DebFilling'
    BY <1>1, <2>2 DEF DebTypes, DebFilling
  <2>10. /\ ar[1].body = "2.0" /\ ar[2].body = meta /\ ar[3].body = tar.members
         /\ tar.owed = 0 /\ next = Len(contents) + 1
         /\ meta.md5sums = entries /\ meta.installedSize = totalSize \div KiB
         /\ meta.conffiles = Deb!Conffiles
    BY <1>1, <2>5 DEF DebArchive
  <2>11. DebArchive'
    BY <1>1, <2>2, <2>6, <2>7, <2>8, <2>10 DEF DebArchive
  <2>12. DebSigned'
    BY <1>1, <2>1, <2>3, <2>7, <2>8 DEF DebSigned
  <2> QED
    BY <2>9, <2>11, <2>12 DEF DebInv
<1> QED
  BY <1>2, <1>3

(* What is known of the deb packager stays known. *)
LEMMA DebStays == Spec => []DebInv
<1>1. Init => DebInv
  <2> SUFFICES ASSUME Init, format = "deb" PROVE DebInv
    BY DEF DebInv
  <2>1. /\ next = 1 /\ tar.members = <<>> /\ tar.owed = 0 /\ entries = <<>> /\ totalSize = 0
        /\ pc = "start" /\ ar = <<>> /\ settings \in Of("deb", Settings)
    BY DEF Init, Deb!Init, Deb!EmptyTar
  <2>2. Len(contents) \in Nat
    BY InitGiven, GivenContents
  <2>3. DebTypes
    BY <2>1, <2>2, EmptyIsList, LengthsEmpty DEF DebTypes
  <2>4. DebFilling
    BY <2>1, EmptyIsList, LengthsEmpty, FilesEmpty DEF DebFilling
  <2>5. DebArchive /\ DebSigned
    BY <2>1, EmptyIsList DEF DebArchive, DebSigned
  <2> QED
    BY <2>3, <2>4, <2>5 DEF DebInv
<1>2. ASSUME GivenOK, DebInv, [Next]_vars PROVE DebInv'
  <2>1. CASE PackageDeb
    <3>1. format = "deb" /\ UNCHANGED format
      BY <2>1 DEF PackageDeb
    <3> QED
      BY <1>2, <2>1, <3>1, DebStarts, DebAdds, DebControls, DebWrites, DebSigns
      DEF PackageDeb, Deb!Package
  <2>2. CASE PackageArch \/ PackageIpk \/ PackageRpm \/ PackageMsix
    BY <2>2, RpmFrozen DEF Frozen, Kept, PackageArch, PackageIpk, PackageRpm, PackageMsix, DebInv
  <2>3. CASE Meanwhile \/ UNCHANGED vars
    <3>1. UNCHANGED <<format, contents, settings, pc, sizes, next, tar, entries, totalSize, meta, ar>>
      BY <2>3 DEF Meanwhile, vars, callVars, madeVars, listVars
    <3> QED
      BY <1>2, <3>1 DEF DebInv, DebTypes, DebFilling, DebArchive, DebSigned, Deb!Conffiles, Deb!SignedBodies
  <2> QED
    BY <1>2, <2>1, <2>2, <2>3 DEF Next, Package
<1> QED
  BY <1>1, <1>2, GivenStays, PTL DEF Spec

(* What the control files of a deb say is true of its data. *)
LEMMA DebDescribesItself ==
    ASSUME GivenOK, DebInv, format = "deb"
    PROVE  Deb!DescribesItself
<1> SUFFICES ASSUME Len(ar) >= 3 PROVE Deb!DescribesItself
  BY DEF Deb!DescribesItself
<1> DEFINE files == Files(tar.members)
           n == Len(contents)
<1>1. DebTypes /\ DebFilling /\ DebArchive
  BY DEF DebInv
<1>2. ar # <<>> /\ Len(ar) >= 2
  BY <1>1, EmptyIsList, ListLength DEF DebArchive
<1>3. /\ ar[2].body = meta /\ ar[3].body = tar.members
      /\ meta.md5sums = entries /\ meta.installedSize = totalSize \div KiB
      /\ meta.conffiles = Deb!Conffiles /\ tar.owed = 0 /\ next = n + 1
  BY <1>1, <1>2 DEF DebArchive
<1>4. /\ IsList(entries) /\ IsList(files) /\ Len(entries) = Len(files)
      /\ \A i \in DOMAIN entries : Digests(entries[i], files[i])
      /\ Len(tar.members) = next - 1 /\ IsList(tar.members)
      /\ \A i \in 1..(next - 1) : DebStandsFor(tar.members[i], contents[i])
      /\ totalSize = Lengths(tar.members) + tar.owed
  BY <1>1 DEF DebTypes, DebFilling
<1>5. n \in Nat /\ DOMAIN contents = 1..n
  BY GivenContents
<1>6. DOMAIN tar.members = 1..n /\ 1..(next - 1) = 1..n
  BY <1>3, <1>4, <1>5, ListLength
<1>7. Deb!RegularMembers = files
  BY DEF Deb!RegularMembers, Deb!Files, Deb!FilesUpTo, Files, FilesUpTo
<1>8. entries = [i \in DOMAIN files |-> [dst |-> files[i].dst, digest |-> files[i].body]]
  <2> HIDE DEF files
  <2>1. DOMAIN entries = DOMAIN files
    BY <1>4, ListLength
  <2>2. entries = [i \in DOMAIN files |-> entries[i]]
    BY <1>4, <2>1 DEF IsList
  <2> QED
    BY <1>4, <2>1, <2>2 DEF Digests
<1>9. ar[2].body.md5sums = [i \in DOMAIN Deb!RegularMembers |->
                              [dst |-> Deb!RegularMembers[i].dst, digest |-> Deb!RegularMembers[i].body]]
  BY <1>3, <1>7, <1>8
<1>10. ar[2].body.installedSize = Deb!SumOfLengths(tar.members) \div KiB
  <2>1. Lengths(tar.members) \in Nat
    <3>1. Whole([kind |-> "dir"])
      BY DEF Whole
    <3> QED
      BY <1>1, <1>4, <3>1, LengthsAppend DEF DebTypes
  <2>2. totalSize = Lengths(tar.members)
    BY <1>3, <1>4, <2>1
  <2> QED
    BY <1>3, <2>2, SameLengths
<1>11. ASSUME NEW dst \in ar[2].body.conffiles
       PROVE  \E i \in DOMAIN tar.members : tar.members[i].dst = dst /\ tar.members[i].kind = "file"
  <2>1. PICK i \in DOMAIN contents : contents[i].dst = dst /\ contents[i].type \in FileTypes
    BY <1>3 DEF Deb!Conffiles, Deb!ConfigTypes, FileTypes
  <2> QED
    BY <1>4, <1>5, <1>6, <2>1 DEF DebStandsFor
<1>12. [i \in DOMAIN ar[3].body |-> ar[3].body[i].dst] = [i \in DOMAIN contents |-> contents[i].dst]
  BY <1>3, <1>4, <1>5, <1>6 DEF DebStandsFor
<1> QED
  BY <1>9, <1>10, <1>11, <1>12 DEF Deb!DescribesItself

(* The key a package is signed with is the only one in the file that can   *)
(* sign.                                                                   *)
LEMMA OnlyCandidate ==
    ASSUME NEW signature, IsFiniteSet(signature.keys), ~ signature.fn,
           NEW keys \in Deb!PGPKeys(signature)
    PROVE  keys = Deb!Candidates(signature.keys)
<1> DEFINE C == Deb!Candidates(signature.keys)
           S == Deb!SigningKeys(signature.keys, Deb!Passphrase(signature.env))
<1>1. PICK k \in S : keys = {k}
  BY DEF Deb!PGPKeys
<1>2. Cardinality(C) = 1 /\ k \in C
  <2>1. Deb!Cardinality(C) = 1 /\ k \in C
    BY <1>1 DEF Deb!SigningKeys
  <2>2. Deb!Cardinality(C) = Cardinality(C)
    BY DEF Deb!Cardinality, Cardinality
  <2> QED
    BY <2>1, <2>2
<1>3. IsFiniteSet(C)
  <2>1. C \in SUBSET signature.keys
    BY DEF Deb!Candidates
  <2> QED
    BY <2>1, FS_Subset
<1> HIDE DEF C, S
<1>4. PICK x : C = {x}
  BY <1>2, <1>3, FS_Singleton
<1>5. keys = C
  BY <1>1, <1>2, <1>4
<1> QED
  BY <1>5 DEF C

(* "The signature is of the control files and the data": a package that    *)
(* should be signed is not finished without a signature, which is the      *)
(* fourth part and covers the three others as they were written; and it is *)
(* clear who signed.                                                       *)
THEOREM DebSignatureCovers == Spec => []SignatureCoversArchive
<1>1. GivenOK /\ DebInv => SignatureCoversArchive
  <2> SUFFICES ASSUME GivenOK, DebInv, format = "deb", pc = "done", Deb!Signed(settings.signature)
               PROVE  /\ Len(ar) = 4
                      /\ ar[4].bodies = [i \in 1..3 |-> ar[i].body]
                      /\ settings.signature.fn \/ ar[4].keys = Deb!Candidates(settings.signature.keys)
    BY DEF SignatureCoversArchive, Deb!SignatureCoversArchive
  <2>1. /\ DebTypes /\ DebArchive /\ Len(ar) = 4 /\ ar[4].bodies = Deb!SignedBodies
        /\ ar[4].keys \in Deb!PGPKeys(settings.signature)
    BY DEF DebInv, DebSigned
  <2>2. ar[1].body = "2.0" /\ ar[2].body = meta /\ ar[3].body = tar.members
    BY <2>1 DEF DebArchive
  <2>3. [i \in 1..3 |-> ar[i].body] = Deb!SignedBodies
    <3> DEFINE b == <<"2.0", meta, tar.members>>
               a == [i \in 1..3 |-> ar[i].body]
    <3>1. b[1] = "2.0" /\ b[2] = meta /\ b[3] = tar.members /\ b = [i \in 1..3 |-> b[i]]
      OBVIOUS
    <3>2. \A i \in 1..3 : i = 1 \/ i = 2 \/ i = 3
      OBVIOUS
    <3>3. \A i \in 1..3 : a[i] = b[i]
      BY <2>2, <3>1, <3>2
    <3>4. a = [i \in 1..3 |-> a[i]]
      OBVIOUS
    <3> HIDE DEF a, b
    <3>5. a = b
      BY <3>1, <3>3, <3>4, SameFunction
    <3> QED
      BY <3>5 DEF a, b, Deb!SignedBodies
  <2>4. settings \in Settings["deb"] /\ "deb" \in Formats
    BY <2>1 DEF DebTypes, Of, GivenOK
  <2>5. IsFiniteSet(settings.signature.keys)
    BY <2>4, SettingsAssumption
  <2> QED
    BY <2>1, <2>3, <2>5, OnlyCandidate
<1> QED
  BY <1>1, GivenStays, DebStays, PTL

-----------------------------------------------------------------------------
(***************************************************************************)
(* The ipk packager.                                                       *)
(***************************************************************************)
IpkStandsFor(m, c) == m.dst = c.dst /\ m.kind = Ipk!KindOf(c.type)

(* A member for each content that was added, and the sum of their sizes. *)
IpkFilling ==
    /\ next \in 1..(Len(contents) + 1)
    /\ IsList(tar.members) /\ AllWhole(tar.members) /\ tar.owed = 0
    /\ Len(tar.members) = next - 1
    /\ \A i \in 1..(next - 1) : IpkStandsFor(tar.members[i], contents[i])
    /\ totalSize = Lengths(tar.members)

(* The user's fields are stripped before they are used. *)
IpkStripped ==
    /\ pc = "start" => settings \in Of("ipk", Settings)
    /\ pc \in {"data", "control", "write", "done"} =>
          \A f \in settings.fields : f.name \notin Ipk!ControlFields

IpkControlled ==
    /\ pc \in {"control", "write", "done"} => next = Len(contents) + 1
    /\ pc \in {"write", "done"} =>
          /\ meta.generated = Ipk!Generated /\ meta.fields = settings.fields
          /\ meta.installedSize = totalSize \div KiB /\ meta.conffiles = Ipk!Conffiles

IpkInv == format = "ipk" => IpkFilling /\ IpkStripped /\ IpkControlled

(* A content that is added has its member, and its bytes are counted. *)
LEMMA IpkGrows ==
    ASSUME GivenOK, IpkInv, format = "ipk", pc = "data", next <= Len(contents),
           UNCHANGED <<format, contents, settings, pc, meta>>,
           NEW m, NEW length \in Nat,
           Whole(m), IpkStandsFor(m, contents[next]), SizeOf(m) = length,
           tar' = Ipk!WithMember(tar, m, length, length), next' = next + 1,
           totalSize' = totalSize + length
    PROVE  IpkInv'
<1> DEFINE k == Len(tar.members)
           n == Len(contents)
<1>1. IpkFilling /\ IpkStripped /\ n \in Nat
  BY GivenContents DEF IpkInv
<1>2. /\ IsList(tar.members) /\ AllWhole(tar.members) /\ k = next - 1 /\ next \in 1..(n + 1)
      /\ \A i \in 1..(next - 1) : IpkStandsFor(tar.members[i], contents[i])
      /\ totalSize = Lengths(tar.members)
  BY <1>1 DEF IpkFilling
<1>3. tar'.members = Append(tar.members, m) /\ tar'.owed = 0
  BY DEF Ipk!WithMember
<1>4. k \in Nat
  BY <1>2, ListLength
<1>5. /\ IsList(tar'.members) /\ Len(tar'.members) = k + 1 /\ tar'.members[k + 1] = m
      /\ \A i \in 1..k : tar'.members[i] = tar.members[i]
  BY <1>2, <1>3, ListAppend
<1>6. AllWhole(tar'.members) /\ Lengths(tar'.members) = Lengths(tar.members) + length
  BY <1>2, <1>3, LengthsAppend
<1> HIDE DEF k, n
<1>7. next = k + 1 /\ next' - 1 = k + 1 /\ next' \in 1..(n + 1)
  BY <1>1, <1>2, <1>4 DEF n
<1>8. \A i \in 1..(next' - 1) : IpkStandsFor(tar'.members[i], contents'[i])
  <2>1. \A i \in 1..(k + 1) : i \in 1..k \/ i = k + 1
    BY <1>4
  <2> QED
    BY <1>2, <1>5, <1>7, <2>1
<1>9. totalSize' = Lengths(tar'.members)
  BY <1>2, <1>6
<1>10. IpkFilling'
  BY <1>3, <1>5, <1>6, <1>7, <1>8, <1>9 DEF IpkFilling, n
<1>11. IpkStripped' /\ IpkControlled'
  BY <1>1 DEF IpkStripped, IpkControlled
<1> QED
  BY <1>10, <1>11 DEF IpkInv

(* The step of the loop over the contents. *)
LEMMA IpkAdds ==
    ASSUME GivenOK, IpkInv, format = "ipk", Ipk!AddContent, UNCHANGED format
    PROVE  IpkInv'
<1> DEFINE c == contents[next]
           n == Len(contents)
<1>1. /\ IpkFilling /\ IpkStripped /\ pc = "data" /\ UNCHANGED <<contents, settings>>
      /\ next \in 1..(n + 1)
  BY DEF Ipk!AddContent, Ipk!input, IpkInv, IpkFilling
<1>2. n \in Nat /\ DOMAIN contents = 1..n
  BY GivenContents
<1>3. CASE UNCHANGED <<next, tar, totalSize, meta>> /\ pc' \in {"control", "failed"}
           /\ (pc' = "control" => next > n)
  <2>1. pc' = "control" => next = n + 1
    BY <1>1, <1>2, <1>3
  <2> QED
    BY <1>1, <1>3, <2>1 DEF IpkInv, IpkFilling, IpkStripped, IpkControlled
<1>4. CASE next <= n /\ Ipk!AddWithoutBody(c)
  <2> DEFINE kind == IF c.type = "symlink" THEN "link" ELSE "dir"
             m == Ipk!Member(c.dst, kind, Gone)
  <2>1. /\ tar' = Ipk!WithMember(tar, m, 0, 0) /\ next' = next + 1
        /\ UNCHANGED <<pc, totalSize, meta>> /\ c.type \in {"dir", "implicit dir", "symlink"}
    BY <1>4 DEF Ipk!AddWithoutBody
  <2>2. m.dst = c.dst /\ m.kind = kind /\ kind # "file" /\ kind = Ipk!KindOf(c.type)
    BY <2>1 DEF Ipk!Member, Ipk!KindOf, Ipk!FileTypes, Ipk!ConfigTypes
  <2>3. Whole(m) /\ IpkStandsFor(m, c) /\ SizeOf(m) = 0
    BY <2>2 DEF Whole, IpkStandsFor, SizeOf
  <2>4. totalSize \in Nat
    <3>1. Whole([kind |-> "dir"])
      BY DEF Whole
    <3> QED
      BY <1>1, <3>1, LengthsAppend DEF IpkFilling
  <2>5. totalSize' = totalSize + 0 /\ 0 \in Nat
    <3>1. totalSize' = totalSize
      BY <2>1
    <3> QED
      BY <2>4, <3>1
  <2> HIDE DEF m
  <2> QED
    BY <1>1, <1>4, <2>1, <2>3, <2>5, IpkGrows
<1>5. CASE next <= n /\ Ipk!AddFile(c) /\ Ipk!Exists(c.src)
  <2> DEFINE v == host[c.src]
             m == Ipk!Member(c.dst, "file", v)
  <2>1. /\ tar' = Ipk!WithMember(tar, m, Length[v], Length[v]) /\ next' = next + 1
        /\ totalSize' = totalSize + Length[v] /\ UNCHANGED <<pc, meta>>
        /\ c.type \in FileTypes /\ v # Gone
    BY <1>5 DEF Ipk!AddFile, Ipk!Exists, Ipk!Bytes, Ipk!FileTypes, Ipk!ConfigTypes, FileTypes
  <2>2. next \in DOMAIN contents
    BY <1>1, <1>2, <1>5
  <2>3. v \in Versions /\ Length[v] \in Nat
    BY <2>1, <2>2, GivenContents, FileIsWhole DEF GivenOK
  <2>4. m.dst = c.dst /\ m.kind = "file" /\ m.body = v /\ Ipk!KindOf(c.type) = "file"
    BY <2>1 DEF Ipk!Member, Ipk!KindOf, Ipk!FileTypes, Ipk!ConfigTypes, FileTypes
  <2>5. Whole(m) /\ IpkStandsFor(m, c) /\ SizeOf(m) = Length[v]
    BY <2>3, <2>4 DEF Whole, IpkStandsFor, SizeOf
  <2> HIDE DEF m, v
  <2> QED
    BY <1>1, <1>5, <2>1, <2>3, <2>5, IpkGrows
<1>6. CASE next <= n /\ Ipk!AddFile(c) /\ ~ Ipk!Exists(c.src)
  BY <1>3, <1>6 DEF Ipk!AddFile, Ipk!built
<1>7. CASE ~ (next <= n)
  <2>1. next > n
    BY <1>1, <1>2, <1>7
  <2> QED
    BY <1>3, <1>7, <2>1 DEF Ipk!AddContent, Ipk!built
<1> QED
  BY <1>4, <1>5, <1>6, <1>7 DEF Ipk!AddContent

(* Every step of the ipk packager keeps its invariant. *)
LEMMA IpkStep == GivenOK /\ IpkInv /\ PackageIpk => IpkInv'
<1> SUFFICES ASSUME GivenOK, IpkInv, PackageIpk PROVE IpkInv'
  OBVIOUS
<1>1. /\ format = "ipk" /\ UNCHANGED <<format, contents>>
      /\ IpkFilling /\ IpkStripped /\ IpkControlled
  BY IpkFrozen DEF PackageIpk, IpkInv, Frozen, Kept
<1>2. UNCHANGED <<next, tar, totalSize>> => IpkFilling'
  BY <1>1 DEF IpkFilling
<1>3. CASE Ipk!Start
  <2>1. /\ pc = "start" /\ UNCHANGED <<next, tar, totalSize>> /\ pc' \in {"data", "failed"}
        /\ pc' = "data" => settings' = [settings EXCEPT !.fields = Ipk!Allowed(@)]
    BY <1>3 DEF Ipk!Start, Ipk!built
  <2>2. settings \in Settings["ipk"] /\ "ipk" \in Formats
    BY <1>1, <2>1 DEF IpkStripped, Of
  <2>3. settings = [fields |-> settings.fields, scripts |-> settings.scripts]
    BY <2>2, SettingsAssumption
  <2>4. pc' = "data" => settings'.fields = Ipk!Allowed(settings.fields)
    BY <2>1, <2>3
  <2>5. IpkStripped' /\ IpkControlled'
    BY <2>1, <2>4 DEF IpkStripped, IpkControlled, Ipk!Allowed
  <2> QED
    BY <1>2, <2>1, <2>5 DEF IpkInv
<1>4. CASE Ipk!AddContent
  BY <1>1, <1>4, IpkAdds
<1>5. CASE Ipk!PopulateControl
  <2>1. pc = "control" /\ UNCHANGED <<settings, next, tar, totalSize>> /\ pc' \in {"write", "failed"}
    BY <1>5 DEF Ipk!PopulateControl, Ipk!Fail, Ipk!built, Ipk!input
  <2>2. pc' = "write" =>
           /\ meta'.generated = Ipk!Generated /\ meta'.fields = settings.fields
           /\ meta'.installedSize = totalSize \div KiB /\ meta'.conffiles = Ipk!Conffiles
    BY <1>5 DEF Ipk!PopulateControl, Ipk!Fail, Ipk!InstalledSize
  <2>3. Ipk!Generated' = Ipk!Generated /\ Ipk!Conffiles' = Ipk!Conffiles
    BY <1>1, <2>1 DEF Ipk!Generated, Ipk!InstalledSize, Ipk!Conffiles
  <2> QED
    BY <1>1, <1>2, <2>1, <2>2, <2>3 DEF IpkInv, IpkStripped, IpkControlled
<1>6. CASE Ipk!Write
  <2>1. pc = "write" /\ UNCHANGED <<settings, next, tar, totalSize, meta>> /\ pc' \in {"done", "failed"}
    BY <1>6 DEF Ipk!Write, Ipk!built, Ipk!input
  <2>2. Ipk!Generated' = Ipk!Generated /\ Ipk!Conffiles' = Ipk!Conffiles
    BY <1>1, <2>1 DEF Ipk!Generated, Ipk!InstalledSize, Ipk!Conffiles
  <2> QED
    BY <1>1, <1>2, <2>1, <2>2 DEF IpkInv, IpkStripped, IpkControlled
<1> QED
  BY <1>3, <1>4, <1>5, <1>6 DEF PackageIpk, Ipk!Package

(* What is known of the ipk packager stays known. *)
LEMMA IpkStays == Spec => []IpkInv
<1>1. Init => IpkInv
  <2> SUFFICES ASSUME Init, format = "ipk" PROVE IpkInv
    BY DEF IpkInv
  <2>1. /\ next = 1 /\ tar.members = <<>> /\ tar.owed = 0 /\ totalSize = 0
        /\ pc = "start" /\ settings \in Of("ipk", Settings)
    BY DEF Init, Ipk!Init, Ipk!EmptyTar
  <2>2. Len(contents) \in Nat
    BY InitGiven, GivenContents
  <2> QED
    BY <2>1, <2>2, EmptyIsList, LengthsEmpty DEF IpkInv, IpkFilling, IpkStripped, IpkControlled
<1>2. ASSUME GivenOK, IpkInv, [Next]_vars PROVE IpkInv'
  <2>1. CASE PackageIpk
    BY <1>2, <2>1, IpkStep
  <2>2. CASE PackageArch \/ PackageDeb \/ PackageRpm \/ PackageMsix
    BY <2>2, RpmFrozen DEF Frozen, Kept, PackageArch, PackageDeb, PackageRpm, PackageMsix, IpkInv
  <2>3. CASE Meanwhile \/ UNCHANGED vars
    <3>1. UNCHANGED <<format, contents, settings, pc, next, tar, totalSize, meta>>
      BY <2>3 DEF Meanwhile, vars, callVars, madeVars
    <3> QED
      BY <1>2, <3>1 DEF IpkInv, IpkFilling, IpkStripped, IpkControlled, Ipk!Generated,
                        Ipk!InstalledSize, Ipk!Conffiles
  <2> QED
    BY <1>2, <2>1, <2>2, <2>3 DEF Next, Package
<1> QED
  BY <1>1, <1>2, GivenStays, PTL DEF Spec

(* What the control file of an ipk says is true of its data, and no field  *)
(* is in it twice.                                                         *)
LEMMA IpkDescribesItself ==
    ASSUME GivenOK, IpkInv, format = "ipk"
    PROVE  Ipk!DescribesItself
<1> SUFFICES ASSUME pc \in {"write", "done"} PROVE Ipk!DescribesItself
  BY DEF Ipk!DescribesItself, Ipk!AfterControl
<1> DEFINE n == Len(contents)
<1>1. /\ IsList(tar.members) /\ Len(tar.members) = next - 1 /\ next = n + 1
      /\ \A i \in 1..(next - 1) : IpkStandsFor(tar.members[i], contents[i])
      /\ totalSize = Lengths(tar.members)
      /\ meta.generated = Ipk!Generated /\ meta.fields = settings.fields
      /\ meta.installedSize = totalSize \div KiB /\ meta.conffiles = Ipk!Conffiles
      /\ \A f \in settings.fields : f.name \notin Ipk!ControlFields
  BY DEF IpkInv, IpkFilling, IpkStripped, IpkControlled
<1>2. n \in Nat /\ DOMAIN contents = 1..n
  BY GivenContents
<1>3. Len(tar.members) = n /\ DOMAIN tar.members = 1..n /\ 1..(next - 1) = 1..n
  BY <1>1, <1>2, ListLength
<1>4. ASSUME NEW dst \in meta.conffiles
      PROVE  \E i \in DOMAIN tar.members : tar.members[i].dst = dst /\ tar.members[i].kind = "file"
  <2>1. PICK i \in DOMAIN contents : contents[i].dst = dst /\ contents[i].type \in Ipk!ConfigTypes
    BY <1>1 DEF Ipk!Conffiles
  <2>2. Ipk!KindOf(contents[i].type) = "file"
    BY <2>1 DEF Ipk!KindOf, Ipk!FileTypes, Ipk!ConfigTypes
  <2> QED
    BY <1>1, <1>2, <1>3, <2>1, <2>2 DEF IpkStandsFor
<1>5. Ipk!Generated \subseteq Ipk!ControlFields
  BY DEF Ipk!Generated, Ipk!ControlFields
<1>6. meta.installedSize = Ipk!SumOfLengths(tar.members) \div KiB
  BY <1>1, SameLengths
<1>7. \A i \in DOMAIN contents : /\ tar.members[i].dst = contents[i].dst
                                 /\ tar.members[i].kind = Ipk!KindOf(contents[i].type)
  BY <1>1, <1>2, <1>3 DEF IpkStandsFor
<1> QED
  BY <1>1, <1>3, <1>4, <1>5, <1>6, <1>7 DEF Ipk!DescribesItself

-----------------------------------------------------------------------------
(***************************************************************************)
(* The msix packager.                                                      *)
(***************************************************************************)
(* What the builder is told comes from the settings with their defaults. *)
MsixInv ==
    format = "msix" =>
        /\ pc = "start" => settings \in Of("msix", Settings)
        /\ pc # "start" => \E given \in Of("msix", Settings) :
              settings = Msix!SetPackagerDefaults(given)
        /\ pc \in {"sign", "build", "done"} =>
              /\ meta.applications = settings.applications /\ meta.restricted = settings.restricted
              /\ meta.files = Msix!Added

(* What the user sets is a record of lists. *)
LEMMA GivenMsix == ASSUME NEW given \in Of("msix", Settings) PROVE MsixInfo(given)
<1>1. given \in Settings["msix"] /\ "msix" \in Formats
  BY DEF Of
<1> QED
  BY <1>1, SettingsAssumption DEF MsixInfo, IsApp, IsList

(* What is known of the msix packager stays known. *)
LEMMA MsixStays == Spec => []MsixInv
<1>1. Init => MsixInv
  BY InitGiven DEF Init, Msix!Init, MsixInv
<1>2. ASSUME GivenOK, MsixInv, [Next]_vars PROVE MsixInv'
  <2>1. CASE PackageMsix
    <3>1. format = "msix" /\ UNCHANGED <<format, contents>> /\ Msix!Added' = Msix!Added
      BY <2>1, MsixFrozen DEF PackageMsix, Frozen, Kept, Msix!Added
    <3>2. CASE Msix!Start
      BY <1>2, <3>1, <3>2 DEF Msix!Start, Msix!Fail, MsixInv
    <3>3. CASE Msix!BuildManifest
      <4>1. /\ pc = "manifest" /\ pc' \in {"build", "sign"} /\ settings' = settings
            /\ meta'.applications = settings.applications /\ meta'.restricted = settings.restricted
            /\ meta'.files = Msix!Added
        BY <3>3 DEF Msix!BuildManifest
      <4> QED
        BY <1>2, <3>1, <4>1 DEF MsixInv
    <3>4. CASE Msix!ConfigureSigning \/ Msix!Build
      <4>1. /\ pc \in {"sign", "build"} /\ pc' \in {"build", "done", "failed"}
            /\ UNCHANGED <<settings, meta>>
        BY <3>4 DEF Msix!ConfigureSigning, Msix!Build, Msix!Fail
      <4> QED
        BY <1>2, <3>1, <4>1 DEF MsixInv
    <3> QED
      BY <2>1, <3>2, <3>3, <3>4 DEF PackageMsix, Msix!Package
  <2>2. CASE PackageArch \/ PackageDeb \/ PackageRpm \/ PackageIpk
    BY <2>2, RpmFrozen DEF Frozen, Kept, PackageArch, PackageDeb, PackageRpm, PackageIpk, MsixInv
  <2>3. CASE Meanwhile \/ UNCHANGED vars
    <3>1. UNCHANGED <<format, contents, settings, pc, meta>>
      BY <2>3 DEF Meanwhile, vars, callVars, madeVars
    <3> QED
      BY <1>2, <3>1 DEF MsixInv, Msix!Added
  <2> QED
    BY <1>2, <2>1, <2>2, <2>3 DEF Next, Package
<1> QED
  BY <1>1, <1>2, GivenStays, PTL DEF Spec

(* The defaults add the capability once, and only if it is missing. *)
LEMMA CapabilityOnce ==
    ASSUME NEW given, MsixInfo(given), DefaultRestricted(given) # given.restricted
    PROVE  LET r == DefaultRestricted(given) IN
           Cardinality({i \in DOMAIN r : r[i] = "runFullTrust"}) <= 1
<1> DEFINE g == given.restricted
           r == DefaultRestricted(given)
           I == {i \in DOMAIN r : r[i] = "runFullTrust"}
<1>1. IsList(g) /\ "runFullTrust" \notin Msix!Listed(g) /\ r = Append(g, "runFullTrust")
  BY DEF MsixInfo, DefaultRestricted
<1> HIDE DEF r
<1>2. /\ Len(g) \in Nat /\ DOMAIN r = 1..(Len(g) + 1) /\ DOMAIN g = 1..Len(g)
      /\ \A i \in 1..Len(g) : r[i] = g[i]
      /\ r[Len(g) + 1] = "runFullTrust"
  BY <1>1, ListAppend, ListLength
<1>3. \A i \in 1..Len(g) : r[i] # "runFullTrust"
  BY <1>1, <1>2 DEF Msix!Listed
<1>4. I = {Len(g) + 1}
  BY <1>2, <1>3
<1>5. Cardinality(I) = 1
  BY <1>4, FS_Singleton
<1> QED
  BY <1>5 DEF r

(* What the manifest of an msix declares is what its applications need,    *)
(* and its files are those of the contents.                                *)
LEMMA MsixDescribesItself ==
    ASSUME GivenOK, MsixInv, format = "msix"
    PROVE  Msix!DescribesItself
<1> SUFFICES ASSUME pc \in {"sign", "build", "done"} PROVE Msix!DescribesItself
  BY DEF Msix!DescribesItself, Msix!Described
<1>1. PICK given \in Of("msix", Settings) : settings = Msix!SetPackagerDefaults(given)
  BY DEF MsixInv
<1>2. MsixInfo(given)
  BY <1>1, GivenMsix
<1>3. settings.applications = DefaultApps(given) /\ settings.restricted = DefaultRestricted(given)
  BY <1>1, <1>2, DefaultFields
<1>4. /\ meta.applications = DefaultApps(given) /\ meta.restricted = DefaultRestricted(given)
      /\ meta.files = Msix!Added
  BY <1>3 DEF MsixInv
<1>5. (\E i \in DOMAIN meta.applications : meta.applications[i].entryPoint = Msix!FullTrust) =>
           "runFullTrust" \in Msix!Listed(meta.restricted)
  <2>1. SUFFICES ASSUME \E i \in DOMAIN DefaultApps(given) :
                            DefaultApps(given)[i].entryPoint = Msix!FullTrust
                 PROVE  "runFullTrust" \in Msix!Listed(DefaultRestricted(given))
    BY <1>4
  <2>2. NeedsFullTrust(given)
    BY <2>1 DEF NeedsFullTrust, DefaultApps
  <2>3. CASE "runFullTrust" \in Msix!Listed(given.restricted)
    BY <2>3 DEF DefaultRestricted
  <2>4. CASE "runFullTrust" \notin Msix!Listed(given.restricted)
    <3>1. DefaultRestricted(given) = Append(given.restricted, "runFullTrust") /\ IsList(given.restricted)
      BY <1>2, <2>2, <2>4 DEF DefaultRestricted, MsixInfo
    <3> QED
      BY <3>1, ListAppend, ListLength DEF Msix!Listed
  <2> QED
    BY <2>3, <2>4
<1>6. \/ Msix!Cardinality({i \in DOMAIN meta.restricted : meta.restricted[i] = "runFullTrust"}) <= 1
      \/ \E g \in Of("msix", Settings) : g.restricted = meta.restricted
  <2>1. CASE DefaultRestricted(given) = given.restricted
    BY <1>1, <1>4, <2>1
  <2>2. CASE DefaultRestricted(given) # given.restricted
    <3> DEFINE I == {i \in DOMAIN meta.restricted : meta.restricted[i] = "runFullTrust"}
    <3>1. Cardinality(I) <= 1
      BY <1>2, <1>4, <2>2, CapabilityOnce
    <3>2. Msix!Cardinality(I) = Cardinality(I)
      BY DEF Msix!Cardinality, Cardinality
    <3> HIDE DEF I
    <3>3. Msix!Cardinality(I) <= 1
      BY <3>1, <3>2
    <3> QED
      BY <3>3 DEF I
  <2> QED
    BY <2>1, <2>2
<1>7. {f.dst : f \in meta.files} =
         {contents[i].dst : i \in {j \in DOMAIN contents : contents[j].type \in Msix!FileTypes}}
  <2>1. \A j \in DOMAIN contents : contents[j].type \in Msix!FileTypes <=>
             contents[j].type \notin {"dir", "symlink"} /\ contents[j].src # ""
    <3>1. /\ \A i \in DOMAIN contents : contents[i].type \in Types("msix")
          /\ \A i \in DOMAIN contents :
                /\ contents[i].type \in FileTypes => contents[i].src \in Sources
                /\ contents[i].type = "implicit dir" => contents[i].src = ""
      BY GivenContents
    <3>2. Types("msix") = FileTypes \cup {"dir", "implicit dir", "symlink"} /\ Msix!FileTypes = FileTypes
      BY DEF Types, FileTypes, Msix!FileTypes
    <3>3. "" \notin Sources
      BY InputsAssumption
    <3>4. "dir" \notin FileTypes /\ "symlink" \notin FileTypes
      BY DEF FileTypes
    <3> QED
      BY <3>1, <3>2, <3>3, <3>4
  <2>2. Msix!Added = {[dst |-> contents[i].dst, src |-> contents[i].src] :
                         i \in {j \in DOMAIN contents : contents[j].type \in Msix!FileTypes}}
    BY <2>1 DEF Msix!Added
  <2> DEFINE J == {j \in DOMAIN contents : contents[j].type \in Msix!FileTypes}
  <2> HIDE DEF J
  <2>3. meta.files = {[dst |-> contents[i].dst, src |-> contents[i].src] : i \in J}
    BY <1>4, <2>2 DEF J
  <2>4. {f.dst : f \in meta.files} = {contents[i].dst : i \in J}
    <3> DEFINE a(i) == [dst |-> contents[i].dst, src |-> contents[i].src]
    <3>1. \A i : a(i).dst = contents[i].dst
      OBVIOUS
    <3>2. meta.files = {a(i) : i \in J}
      BY <2>3
    <3> HIDE DEF a
    <3> QED
      BY <3>1, <3>2
  <2> QED
    BY <2>4 DEF J
<1> QED
  BY <1>5, <1>6, <1>7 DEF Msix!DescribesItself

-----------------------------------------------------------------------------
(* Whatever ends in a package describes that package: the manifests, sizes *)
(* and digests that the arch, deb, ipk and msix packagers write are those  *)
(* of the members they wrote, for every list of contents and also when     *)
(* files are replaced or removed between the preparation, which took their *)
(* sizes, and the copy.                                                    *)
THEOREM PackagesDescribeThemselves == Spec => []DescribesItself
<1>1. GivenOK /\ ArchInv /\ DebInv /\ IpkInv /\ MsixInv => DescribesItself
  BY ArchDescribesItself, DebDescribesItself, IpkDescribesItself, MsixDescribesItself
  DEF DescribesItself
<1> QED
  BY <1>1, GivenStays, ArchStays, DebStays, IpkStays, MsixStays, PTL

(* What the other packagers leave alone. *)
IdleInv ==
    /\ output \in {"none", "part", "all"}
    /\ temp \in {"none", "there", "stuck"}
    /\ format # "archlinux" => NoArch
    /\ format # "deb" => NoDeb
    /\ format # "srpm" => NoRpm
    /\ format \in {"rpm", "msix"} => next = 1 /\ tar.owed = 0
    /\ format \in {"rpm", "srpm", "msix"} => totalSize = 0
    /\ format = "rpm" => pc \notin {"create temp", "payload"}

(* A packager keeps its hands off what is not its own. *)
LEMMA IdleStays == Spec => []IdleInv
<1>1. Init => IdleInv
  <2> SUFFICES ASSUME Init PROVE IdleInv
    OBVIOUS
  <2>1. output = "none" /\ temp = "none" /\ pc = "start" /\ opened = Rpm!NoFile
    BY DEF Init, Arch!Init, Deb!Init, Ipk!Init, Rpm!Init, Msix!Init, NoRpm
  <2>2. (format # "archlinux" => NoArch) /\ (format # "deb" => NoDeb)
    BY DEF Init
  <2>3. next = 1 /\ tar.owed = 0 /\ totalSize = 0
    BY DEF Init, Arch!Init, Deb!Init, Ipk!Init, Rpm!Init, Msix!Init,
           Arch!EmptyTar, Deb!EmptyTar, Ipk!EmptyTar, Rpm!EmptyTar
  <2> QED
    BY <2>1, <2>2, <2>3 DEF IdleInv, NoRpm
<1>2. ASSUME IdleInv, [Next]_vars PROVE IdleInv'
  <2>1. CASE PackageArch
    BY <1>2, <2>1 DEF PackageArch, IdleInv, NoArch, NoDeb, NoRpm, rpmVars, Arch!Package, Arch!Start,
         Arch!AddContent, Arch!AddWithoutBody, Arch!AddFile, Arch!CanPut, Arch!Put, Arch!Fail,
         Arch!CreatePkginfo, Arch!CreateMtree, Arch!CreateScripts, Arch!Close
  <2>2. CASE PackageDeb
    BY <1>2, <2>2 DEF PackageDeb, IdleInv, NoArch, NoDeb, NoRpm, rpmVars
  <2>3. CASE PackageIpk
    BY <1>2, <2>3 DEF PackageIpk, IdleInv, NoArch, NoDeb, NoRpm, rpmVars, Ipk!Package, Ipk!Start,
         Ipk!AddContent, Ipk!PopulateControl, Ipk!Write, Ipk!Fail
  <2>4. CASE PackageMsix
    BY <1>2, <2>4 DEF PackageMsix, IdleInv, NoArch, NoDeb, NoRpm, rpmVars, Msix!Package, Msix!Start,
         Msix!BuildManifest, Msix!ConfigureSigning, Msix!Build, Msix!Fail
  <2>5. CASE PackageRpm
    <3>1. format' = format /\ UNCHANGED <<listVars, encoder, ar, totalSize>>
      BY <2>5, RpmFrozen DEF PackageRpm, Frozen, Kept
    <3> USE DEF IdleInv, NoArch, NoDeb, NoRpm, Rpm!Fail, Rpm!Return, Rpm!RemoveTemp, Rpm!Discard,
                Rpm!Continue, Rpm!payload, PackageRpm
    <3>2. CASE Rpm!Start
      BY <1>2, <2>5, <3>1, <3>2 DEF Rpm!Start
    <3>3. CASE Rpm!ApplyMetadata \/ Rpm!ApplySourceMetadata \/ Rpm!ReadScripts \/ Rpm!StatChangelog
               \/ Rpm!ParseChangelog
      BY <1>2, <2>5, <3>1, <3>3 DEF Rpm!ApplyMetadata, Rpm!ApplySourceMetadata, Rpm!ReadScripts,
           Rpm!StatChangelog, Rpm!ParseChangelog
    <3>4. CASE Rpm!AddContents \/ Rpm!WriteFilesSection \/ Rpm!Build \/ Rpm!Write
      BY <1>2, <2>5, <3>1, <3>4 DEF Rpm!AddContents, Rpm!WriteFilesSection, Rpm!Build, Rpm!Write
    <3>5. CASE Rpm!CreateTemp \/ Rpm!AddEntry \/ Rpm!CopyFile \/ Rpm!ClosePayload
      <4>1. format = "srpm" /\ temp' \in {"none", "there", "stuck"} /\ output' = output
        BY <1>2, <2>5, <3>5 DEF Rpm!CreateTemp, Rpm!AddEntry, Rpm!CopyFile, Rpm!ClosePayload
      <4> QED
        BY <1>2, <2>5, <3>1, <4>1 DEF listVars
    <3> QED
      BY <2>5, <3>2, <3>3, <3>4, <3>5 DEF Rpm!Package
  <2>6. CASE Meanwhile \/ UNCHANGED vars
    BY <1>2, <2>6 DEF Meanwhile, vars, callVars, madeVars, rpmVars, IdleInv, NoArch, NoDeb, NoRpm
  <2> QED
    BY <1>2, <2>1, <2>2, <2>3, <2>4, <2>5, <2>6 DEF Next, Package
<1> QED
  BY <1>1, <1>2, PTL DEF Spec

(* Types of the variables: in particular the loops of all packagers stay   *)
(* within their contents, the tar writers are never owed a negative number *)
(* of bytes, and what belongs to one packager is left alone by the others. *)
THEOREM TypesHold == Spec => []TypeOK
<1>1. GivenOK /\ ArchInv /\ DebInv /\ IpkInv /\ SourceInv /\ IdleInv => TypeOK
  <2> SUFFICES ASSUME GivenOK, ArchInv, DebInv, IpkInv, SourceInv, IdleInv PROVE TypeOK
    OBVIOUS
  <2>1. Len(contents) \in Nat
    BY GivenContents, RpmContents DEF IsRpm
  <2>2. format \in Formats /\ format \in Names /\ host \in [Sources -> Versions \cup {Gone}]
    BY DEF GivenOK, Hosts
  <2>3. next \in 1..(Len(contents) + 1) /\ totalSize \in Nat /\ tar.owed \in Nat
    <3>1. CASE format = "archlinux"
      BY <3>1 DEF ArchInv, ArchTypes
    <3>2. CASE format = "deb"
      BY <3>2 DEF DebInv, DebTypes
    <3>3. CASE format = "ipk"
      <4>1. Whole([kind |-> "dir"])
        BY DEF Whole
      <4> QED
        BY <3>3, <4>1, LengthsAppend DEF IpkInv, IpkFilling
    <3>4. CASE format \in {"rpm", "msix"}
      <4>1. next = 1 /\ tar.owed = 0 /\ totalSize = 0
        BY <3>4 DEF IdleInv
      <4> QED
        BY <2>1, <4>1
    <3>5. CASE format = "srpm"
      BY <3>5 DEF SourceInv, TarballOK, IdleInv
    <3> QED
      BY <2>2, <3>1, <3>2, <3>3, <3>4, <3>5 DEF Names
  <2>4. format = "archlinux" => Arch!TypeOK
    BY <2>2, <2>3 DEF ArchInv, ArchTypes, ArchFilling, Arch!TypeOK, GivenOK, InputFormat
  <2>5. format = "deb" => Deb!TypeOK
    <3>1. Deb!RegularMembers = Files(tar.members)
      BY DEF Deb!RegularMembers, Deb!Files, Deb!FilesUpTo, Files, FilesUpTo
    <3> QED
      BY <2>2, <2>3, <3>1 DEF DebInv, DebTypes, DebFilling, Deb!TypeOK, GivenOK, InputFormat
  <2> QED
    BY <2>2, <2>3, <2>4, <2>5 DEF IdleInv, TypeOK
<1> QED
  BY <1>1, GivenStays, ArchStays, DebStays, IpkStays, SourceStays, IdleStays, PTL
===============================================================================
