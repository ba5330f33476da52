----------------------------- MODULE MsixPackage -----------------------------
(***************************************************************************)
(* (MSIX).Package (msix/msix.go): the defaults, which are written into the *)
(* caller's Info before anything is checked, the manifest, the files, the  *)
(* signature; a library reads the files and writes the package.            *)
(***************************************************************************)
EXTENDS HostFiles, Sequences, FiniteSets

CONSTANTS
    Inputs,     \* the lists of prepared contents
    Settings    \* info.MSIX

VARIABLES
    contents,   \* info.Contents after the preparation
    settings,
    pc,         \* "start", "manifest", "sign", "build", then "done" or "failed"
    meta,       \* what the builder was told
    output      \* what has reached the caller's writer: "none", "part", "all"

vars == <<contents, settings, host, touches, pc, meta, output>>

FileTypes == {"file", "config", "config|noreplace", "config|missingok"}

Fail == pc' = "failed" /\ UNCHANGED <<meta, output>>

-----------------------------------------------------------------------------
FullTrust == "Windows.FullTrustApplication"

AppDefaults(app, logo) ==
    [app EXCEPT !.entryPoint = IF @ = "" THEN FullTrust ELSE @,
                !.tile       = IF @ = "" THEN logo ELSE @]

Apps(info) == {info.applications[i] : i \in DOMAIN info.applications}

Listed(names) == {names[i] : i \in DOMAIN names}

(* Mutant: the capability is added without a look at those that are there. *)
DefaultsAlwaysAppend(info) ==
    LET apps == [i \in DOMAIN info.applications |-> AppDefaults(info.applications[i], info.logo)]
    IN [info EXCEPT
          !.applications = apps,
          !.restricted = IF \E i \in DOMAIN apps : apps[i].entryPoint = FullTrust
                         THEN Append(@, "runFullTrust") ELSE @,
          !.families = IF @ = <<>> THEN <<"Windows.Desktop">> ELSE @]

SetPackagerDefaults(info) ==
    LET apps == [i \in DOMAIN info.applications |-> AppDefaults(info.applications[i], info.logo)]
    IN [info EXCEPT
          !.applications = apps,
          !.restricted = IF /\ \E i \in DOMAIN apps : apps[i].entryPoint = FullTrust
                            /\ "runFullTrust" \notin Listed(@)
                         THEN Append(@, "runFullTrust") ELSE @,
          !.families = IF @ = <<>> THEN <<"Windows.Desktop">> ELSE @]

(* validate: the fields without which there is no manifest. *)
Valid(info) ==
    /\ info.publisher # ""
    /\ info.logo # ""
    /\ info.applications # <<>>
    /\ \A app \in Apps(info) : app.id # "" /\ app.executable # ""

(* The defaults stay in the Info even if the call fails. *)
Start ==
    /\ pc = "start"
    /\ settings' = SetPackagerDefaults(settings)
    /\ IF /\ \A i \in DOMAIN contents :
                contents[i].type \in FileTypes => Exists(contents[i].src)
          /\ Valid(settings')
       THEN pc' = "manifest" /\ UNCHANGED <<meta, output>>
       ELSE Fail
    /\ UNCHANGED <<contents, host, touches>>

-----------------------------------------------------------------------------
(* Mutant: what is not a directory is a file. *)
AddedUnlessDir ==
    {[dst |-> contents[i].dst, src |-> contents[i].src] :
        i \in {j \in DOMAIN contents : contents[j].type \notin {"dir", "symlink"}}}

(* addContents: directories and symlinks are left out; an implicit         *)
(* directory is not, but it has no source.                                 *)
Added ==
    {[dst |-> contents[i].dst, src |-> contents[i].src] :
        i \in {j \in DOMAIN contents : /\ contents[j].type \notin {"dir", "symlink"}
                                        /\ contents[j].src # ""}}

BuildManifest ==
    /\ pc = "manifest"
    /\ meta' = [applications |-> settings.applications, restricted |-> settings.restricted,
                families |-> settings.families, files |-> Added]
    /\ pc' = IF settings.pfx = "" THEN "build" ELSE "sign"
    /\ UNCHANGED <<contents, settings, host, touches, output>>

(* configureSigning: the file must be there and hold a certificate. *)
ConfigureSigning ==
    /\ pc = "sign"
    /\ \/ Exists(settings.pfx) /\ pc' = "build" /\ UNCHANGED <<meta, output>>
       \/ Fail
    /\ UNCHANGED <<contents, settings, host, touches>>

(* The library's Build, which opens the files and writes the package. *)
Build ==
    /\ pc = "build"
    /\ \/ /\ \A f \in meta.files : Exists(f.src)
          /\ pc' = "done" /\ output' = "all"
       \/ pc' = "failed" /\ output' \in {"none", "part"}
    /\ UNCHANGED <<contents, settings, host, touches, meta>>

Meanwhile ==
    /\ pc \notin {"done", "failed"}
    /\ Touch
    /\ UNCHANGED <<contents, settings, pc, meta, output>>

Init ==
    /\ contents \in Inputs
    /\ settings \in Settings
    /\ HostInit
    /\ pc = "start"
    /\ meta = <<>>
    /\ output = "none"

Package == Start \/ BuildManifest \/ ConfigureSigning \/ Build

Next == Package \/ Meanwhile

Spec == Init /\ [][Next]_vars

-----------------------------------------------------------------------------
Described == pc \in {"sign", "build", "done"}

(* Windows refuses a full trust application without the capability: the    *)
(* manifest declares it if an application is one, given as such or by      *)
(* default, and it does so once unless the user listed it more often       *)
(* himself.  The package holds the files of the contents and nothing else: *)
(* no directory gets through the branch for everything that is not one.    *)
DescribesItself ==
    Described =>
        /\ (\E i \in DOMAIN meta.applications : meta.applications[i].entryPoint = FullTrust) =>
               "runFullTrust" \in Listed(meta.restricted)
        /\ \/ Cardinality({i \in DOMAIN meta.restricted : meta.restricted[i] = "runFullTrust"}) <= 1
           \/ \E given \in Settings : given.restricted = meta.restricted
        /\ {f.dst : f \in meta.files} =
              {contents[i].dst : i \in {j \in DOMAIN contents : contents[j].type \in FileTypes}}

(* The defaults are written into the Info, and with it into the Config it  *)
(* shares its applications with: writing them again, for a second package  *)
(* or after a failed one, changes nothing more.                            *)
DefaultsAreStable == pc # "start" => SetPackagerDefaults(settings) = settings
===============================================================================
