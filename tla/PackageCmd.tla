------------------------------ MODULE PackageCmd ------------------------------
(***************************************************************************)
(* The package command (internal/cmd/package.go) around a packager that    *)
(* keeps what its kind promises (Packaging): it picks the packager and the path,      *)
(* creates the file, lets the packager write into it, and removes it again *)
(* if that fails.  The command may be killed at any moment and run again.  *)
(*                                                                         *)
(* What lies at a path is the run that wrote it and how much of its        *)
(* package there is: "none", "part" or "all".                              *)
(***************************************************************************)
EXTENDS Naturals, Sequences

CONSTANTS
    Requests,   \* what the command is called with
    Registered, \* the packagers
    Streaming,  \* those of them that drop the error of their last write
    Paths,      \* the paths where a package may end up
    MaxRuns     \* bound: how often the command is run

ASSUME BoundAssumption == MaxRuns \in Nat

(* The target that was named, and what a request gets as the conventional  *)
(* name in its directory.                                                  *)
ASSUME PathsAssumption ==
    "named" \in Paths /\ \A r \in Requests : r.conventional \in Paths

VARIABLES
    run,        \* the number of the run
    calls,      \* the requests of all runs
    request,    \* its arguments and its configuration
    pc,         \* "idle", "start", "create", "package", "remove", "close",
                \* then "ok", "error" or "killed"
    path,       \* where this run wants its package
    output,     \* how much of it the packager has written
    outcome,    \* of the packager: "running", "ok" or "failed"
    files,      \* what lies at each path
    before,     \* what lay there when this run started
    unlinked    \* FALSE if this run left a file behind that it could not clean up

vars == <<run, calls, request, pc, path, output, outcome, files, before, unlinked>>

NoFile == [run |-> 0, amount |-> "none"]

Ended == {"idle", "ok", "error", "killed"}

Exit(result) ==
    /\ pc' = result
    /\ UNCHANGED <<run, calls, request, path, output, outcome, files, before, unlinked>>

(* The user calls the command, perhaps again. *)
Call ==
    /\ pc \in Ended
    /\ run < MaxRuns
    /\ run' = run + 1
    /\ request' \in Requests
    /\ calls' = Append(calls, request')
    /\ pc' = "start"
    /\ output' = "none" /\ outcome' = "running"
    /\ before' = files
    /\ unlinked' = TRUE
    /\ UNCHANGED <<path, files>>

(* Without a packager the extension of the target is its name. *)
Packager ==
    IF request.packager # "" THEN request.packager
    ELSE IF request.target = "file" THEN request.extension ELSE ""

P == INSTANCE Packaging WITH streams <- Packager \in Streaming

Accepted == Packager \in Registered /\ request.configGood

(* Mutants: the packager is looked up after the file was created; the      *)
(* conventional name is not appended to a directory.                       *)
PrepareUnchecked ==
    /\ pc = "start"
    /\ pc' = "create"
    /\ path' = IF request.target = "file" THEN "named" ELSE request.conventional
    /\ UNCHANGED <<run, calls, request, output, outcome, files, before, unlinked>>

PrepareUnjoined ==
    /\ pc = "start"
    /\ pc' = "create"
    /\ path' = IF request.target = "file" THEN "named" ELSE request.target
    /\ UNCHANGED <<run, calls, request, output, outcome, files, before, unlinked>>

(* doPackage up to the target: the packager, the configuration, the path.  *)
(* A target that is a directory, or blank, gets the conventional name.     *)
Prepare ==
    /\ pc = "start"
    /\ IF Accepted
       THEN /\ pc' = "create"
            /\ path' = IF request.target = "file" THEN "named" ELSE request.conventional
            /\ UNCHANGED <<run, calls, request, output, outcome, files, before, unlinked>>
       ELSE Exit("error")

(* os.Create truncates what is there. *)
Create ==
    /\ pc = "create"
    /\ \/ /\ files' = [files EXCEPT ![path] = [run |-> run, amount |-> "none"]]
          /\ pc' = "package"
          /\ UNCHANGED <<run, calls, request, path, output, outcome, before, unlinked>>
       \/ Exit("error")

(* Mutant: the packager's error is reported, the file stays. *)
PackageKept ==
    /\ pc = "package"
    /\ UNCHANGED <<run, calls, request, path, before, unlinked>>
    /\ P!Next
    /\ files' = [files EXCEPT ![path].amount = output']
    /\ pc' = CASE outcome' = "running" -> "package"
               [] outcome' = "ok"      -> "close"
               [] outcome' = "failed"  -> "error"

(* pkg.Package(info, f): the packager writes or returns. *)
Package ==
    /\ pc = "package"
    /\ UNCHANGED <<run, calls, request, path, before, unlinked>>
    /\ P!Next
    /\ files' = [files EXCEPT ![path].amount = output']
    /\ pc' = CASE outcome' = "running" -> "package"
               [] outcome' = "ok"      -> "close"
               [] outcome' = "failed"  -> "remove"

(* Mutant: after a failure the command tries again. *)
RemoveAndRetry ==
    /\ pc = "remove"
    /\ pc' = "create"
    /\ files' = [files EXCEPT ![path] = NoFile]
    /\ output' = "none" /\ outcome' = "running"
    /\ UNCHANGED <<run, calls, request, path, before, unlinked>>

(* os.Remove; its error is ignored. *)
Remove ==
    /\ pc = "remove"
    /\ pc' = "error"
    /\ \/ files' = [files EXCEPT ![path] = NoFile] /\ UNCHANGED unlinked
       \/ unlinked' = FALSE /\ UNCHANGED files
    /\ UNCHANGED <<run, calls, request, path, output, outcome, before>>

(* Mutant: the deferred Close has to do, and its error is lost. *)
CloseDeferred ==
    /\ pc = "close"
    /\ pc' = "ok"
    /\ UNCHANGED <<run, calls, request, path, output, outcome, before, unlinked>>
    /\ UNCHANGED files \/ files' = [files EXCEPT ![path].amount = "part"]

(* return f.Close(): the file system may notice only now that it could not *)
(* store the file, which stays there as it is.                             *)
Close ==
    /\ pc = "close"
    /\ \/ Exit("ok")
       \/ /\ pc' = "error"
          /\ files' = [files EXCEPT ![path].amount = "part"]
          /\ unlinked' = FALSE
          /\ UNCHANGED <<run, calls, request, path, output, outcome, before>>

(* A signal, or the machine goes down. *)
Kill == pc \notin Ended /\ Exit("killed")

Init ==
    /\ run = 0
    /\ request \in Requests
    /\ calls = <<>>
    /\ pc = "idle"
    /\ path = "named"
    /\ output = "none" /\ outcome = "running"
    /\ files = [p \in Paths |-> NoFile]
    /\ before = files
    /\ unlinked = TRUE

Step == Prepare \/ Create \/ Package \/ Remove \/ Close

Next == Call \/ Step \/ Kill

Spec == Init /\ [][Next]_vars

(* The command runs, and the packager returns at last: it loops over the   *)
(* contents and waits for nothing but the host.                            *)
FairSpec ==
    /\ Spec
    /\ WF_vars(Step)
    /\ WF_vars(Package /\ outcome' # "running")
-----------------------------------------------------------------------------
(* Types of the variables; what lies at a path was written by some run.    *)
TypeOK ==
    /\ run \in 0..MaxRuns /\ request \in Requests
    /\ pc \in Ended \cup {"start", "create", "package", "remove", "close"}
    /\ path \in Paths /\ unlinked \in BOOLEAN
    /\ output \in {"none", "part", "all"} /\ outcome \in {"running", "ok", "failed"}
    /\ files \in [Paths -> [run : 0..run, amount : {"none", "part", "all"}]]

(* "created package" and the exit status 0 mean that a package of this run *)
(* is at the path, whatever earlier runs left there, and that it is whole, *)
(* if the packager is not one that streams: over an archlinux package that *)
(* is cut short the command reports success too.                           *)
ReportedIsThere ==
    pc = "ok" =>
        /\ files[path].run = run
        /\ Packager \notin Streaming => files[path].amount = "all"

(* A command that failed leaves each path as it found it or empty; the     *)
(* exceptions are a file that could not be closed and one that could not   *)
(* be removed.                                                             *)
FailureLeavesNoPart ==
    pc = "error" /\ unlinked =>
        \A p \in Paths : files[p] \in {before[p], NoFile}

(* What an earlier run made is only lost to a run that wants the same path *)
(* and got as far as opening it.  An argument that is wrong, or a          *)
(* configuration that ParseFile or Get refuses, costs nothing; what only   *)
(* Package refuses has cost the earlier package by then.                   *)
EarlierPackagesSafe ==
    \A p \in Paths : files[p] # before[p] =>
        /\ p = path
        /\ pc \notin {"start", "create"}
        /\ Accepted

(* The command ends, if it is not killed before.                           *)
Returns == [](pc = "start" => <>(pc \in {"ok", "error", "killed"}))
===============================================================================
