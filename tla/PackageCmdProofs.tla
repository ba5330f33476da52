--------------------------- MODULE PackageCmdProofs ---------------------------
(***************************************************************************)
(* What the package command guarantees for every set of requests,          *)
(* packagers and paths, and however often it is run and killed.            *)
(***************************************************************************)
EXTENDS PackageCmd, TLAPS

Amounts == {"none", "part", "all"}

Files(last) == [Paths -> [run : 0..last, amount : Amounts]]

(* While the packager runs, the target holds what it has written, and the  *)
(* packager's verdict decides where the command is.  Only of one that      *)
(* streams is success no proof of a whole package.                         *)
TargetFollowsPackager ==
    /\ pc \in {"package", "remove", "close", "ok"} =>
          files[path] = [run |-> run, amount |-> output]
    /\ pc \in {"start", "create"} => output = "none" /\ outcome = "running"
    /\ pc = "package" => outcome = "running"
    /\ pc = "remove" => outcome = "failed"
    /\ pc \in {"close", "ok"} => Packager \in Streaming \/ output = "all"

(* All paths but the target hold what the run found there, and so does the *)
(* target before it is opened, which takes good arguments.                 *)
OthersKept ==
    /\ \A p \in Paths : p # path => files[p] = before[p]
    /\ pc \in {"start", "create"} => files = before
    /\ pc \in {"create", "package", "remove", "close", "ok"} => Accepted
    /\ files # before => Accepted

IInv == TypeOK /\ before \in Files(MaxRuns) /\ TargetFollowsPackager /\ OthersKept
            /\ FailureLeavesNoPart

-----------------------------------------------------------------------------
(* The packager, and whether a request is accepted, depend on nothing but  *)
(* the request.                                                            *)
LEMMA AcceptedStable ==
    request' = request => (Accepted' <=> Accepted) /\ Packager' = Packager
  BY DEF Accepted, Packager

(* Types and the invariant hold initially. *)
LEMMA InitIInv == Init => IInv
<1> SUFFICES ASSUME Init PROVE IInv
  OBVIOUS
<1>1. 0 \in 0..run /\ 0 \in 0..MaxRuns /\ run \in 0..MaxRuns
  BY BoundAssumption DEF Init
<1>2. NoFile \in [run : 0..run, amount : Amounts] /\ NoFile \in [run : 0..MaxRuns, amount : Amounts]
  BY <1>1 DEF NoFile, Amounts
<1>3. files \in Files(run) /\ before \in Files(MaxRuns)
  BY <1>2 DEF Init, Files
<1>4. TypeOK
  BY <1>1, <1>3, PathsAssumption DEF Init, TypeOK, Ended, Files, Amounts
<1>5. TargetFollowsPackager /\ OthersKept /\ FailureLeavesNoPart
  BY DEF Init, TargetFollowsPackager, OthersKept, FailureLeavesNoPart
<1> QED
  BY <1>3, <1>4, <1>5 DEF IInv

(* A call starts from whatever the runs before it left. *)
LEMMA CallIInv == IInv /\ Call => IInv'
<1> SUFFICES ASSUME IInv, Call PROVE IInv'
  OBVIOUS
<1>1. run' \in 0..MaxRuns /\ 0..run \subseteq 0..run' /\ 0..run \subseteq 0..MaxRuns
  BY BoundAssumption DEF Call, IInv, TypeOK
<1>2. files' \in Files(run') /\ before' \in Files(MaxRuns)
  BY <1>1 DEF Call, IInv, TypeOK, Files, Amounts
<1>3. TypeOK'
  BY <1>1, <1>2 DEF Call, IInv, TypeOK, Files, Amounts
<1>4. TargetFollowsPackager' /\ OthersKept' /\ FailureLeavesNoPart'
  BY DEF Call, TargetFollowsPackager, OthersKept, FailureLeavesNoPart
<1> QED
  BY <1>2, <1>3, <1>4 DEF IInv

(* Returning, or being killed, changes nothing but pc.  It is to "error"   *)
(* only where nothing was opened, or where it was cleaned up.              *)
LEMMA ExitIInv ==
  ASSUME IInv, NEW result \in {"ok", "error", "killed"}, Exit(result),
         result = "ok" => pc = "close",
         result = "error" => pc \in {"start", "create"}
  PROVE  IInv'
<1>1. TypeOK' /\ before' \in Files(MaxRuns)
  BY DEF Exit, IInv, TypeOK, Ended, Files
<1>2. TargetFollowsPackager'
  BY AcceptedStable DEF Exit, IInv, TargetFollowsPackager
<1>3. OthersKept'
  BY AcceptedStable DEF Exit, IInv, OthersKept
<1>4. FailureLeavesNoPart'
  BY DEF Exit, IInv, OthersKept, FailureLeavesNoPart
<1> QED
  BY <1>1, <1>2, <1>3, <1>4 DEF IInv

(* The path is chosen before anything is opened. *)
LEMMA PrepareIInv ==
  ASSUME IInv, Prepare
  PROVE  IInv'
<1>1. CASE Accepted
  <2>1. TypeOK' /\ before' \in Files(MaxRuns)
    BY <1>1, PathsAssumption DEF Prepare, IInv, TypeOK, Ended, Files
  <2>2. TargetFollowsPackager'
    BY <1>1 DEF Prepare, IInv, TargetFollowsPackager
  <2>3. OthersKept'
    BY <1>1, AcceptedStable DEF Prepare, IInv, OthersKept
  <2>4. FailureLeavesNoPart'
    BY <1>1 DEF Prepare, FailureLeavesNoPart
  <2> QED
    BY <2>1, <2>2, <2>3, <2>4 DEF IInv
<1>2. CASE ~Accepted
  <2>1. Exit("error") /\ pc = "start"
    BY <1>2 DEF Prepare
  <2> QED
    BY <2>1, ExitIInv
<1> QED
  BY <1>1, <1>2

(* A file of this run at the target keeps the types. *)
LEMMA FilesAtTarget ==
  ASSUME NEW amount \in Amounts, IInv,
         files' = [files EXCEPT ![path] = [run |-> run, amount |-> amount]]
  PROVE  /\ files' \in Files(run)
         /\ files'[path] = [run |-> run, amount |-> amount]
         /\ \A p \in Paths : p # path => files'[p] = files[p]
<1>1. run \in 0..run
  BY DEF IInv, TypeOK
<1>2. [run |-> run, amount |-> amount] \in [run : 0..run, amount : Amounts]
  BY <1>1
<1> QED
  BY <1>2 DEF IInv, TypeOK, Files, Amounts

(* The target is truncated and belongs to this run. *)
LEMMA CreateIInv == IInv /\ Create => IInv'
<1> SUFFICES ASSUME IInv, Create PROVE IInv'
  OBVIOUS
<1>1. CASE Exit("error")
  BY <1>1, ExitIInv DEF Create
<1>2. CASE ~Exit("error")
  <2>1. files' = [files EXCEPT ![path] = [run |-> run, amount |-> "none"]]
    BY <1>2 DEF Create
  <2>2. "none" \in Amounts
    BY DEF Amounts
  <2>3. /\ files' \in Files(run)
        /\ files'[path] = [run |-> run, amount |-> "none"]
        /\ \A p \in Paths : p # path => files'[p] = files[p]
    BY <2>1, <2>2, FilesAtTarget
  <2>4. TypeOK' /\ before' \in Files(MaxRuns)
    BY <1>2, <2>3 DEF Create, IInv, TypeOK, Ended, Files, Amounts
  <2>5. TargetFollowsPackager'
    BY <1>2, <2>3 DEF Create, IInv, TargetFollowsPackager
  <2>6. OthersKept'
    BY <1>2, <2>3, AcceptedStable DEF Create, IInv, OthersKept
  <2>7. FailureLeavesNoPart'
    BY <1>2 DEF Create, FailureLeavesNoPart
  <2> QED
    BY <2>4, <2>5, <2>6, <2>7 DEF IInv
<1> QED
  BY <1>1, <1>2

(* The target follows what the packager writes; success means all of it,   *)
(* unless the packager streams.                                            *)
LEMMA PackageIInv == IInv /\ Package => IInv'
<1> SUFFICES ASSUME IInv, Package PROVE IInv'
  OBVIOUS
<1>1. output' \in Amounts /\ outcome' \in {"running", "ok", "failed"}
      /\ (outcome' = "ok" => Packager \in Streaming \/ output' = "all")
  BY DEF Package, P!Next, P!Write, P!Succeed, P!SucceedCut, P!Fail, IInv, TypeOK,
         TargetFollowsPackager, Amounts
<1>2. pc' \in {"package", "close", "remove"}
      /\ (pc' = "package" => outcome' = "running") /\ (pc' = "close" => outcome' = "ok")
      /\ (pc' = "remove" => outcome' = "failed")
  BY <1>1 DEF Package
<1>3. files[path] = [run |-> run, amount |-> output] /\ path \in Paths /\ DOMAIN files = Paths
  BY DEF Package, IInv, TypeOK, TargetFollowsPackager
<1>4. files' = [files EXCEPT ![path] = [run |-> run, amount |-> output']]
  <2>1. files' = [files EXCEPT ![path].amount = output']
    BY DEF Package
  <2>2. files' = [files EXCEPT ![path] = [files[path] EXCEPT !.amount = output']]
    BY <2>1
  <2>3. [files[path] EXCEPT !.amount = output'] = [run |-> run, amount |-> output']
    BY <1>3
  <2> QED
    BY <2>2, <2>3
<1>5. /\ files' \in Files(run)
      /\ files'[path] = [run |-> run, amount |-> output']
      /\ \A p \in Paths : p # path => files'[p] = files[p]
  BY <1>1, <1>4, FilesAtTarget
<1>6. TypeOK' /\ before' \in Files(MaxRuns)
  BY <1>1, <1>2, <1>5 DEF Package, IInv, TypeOK, Files, Amounts
<1>7. TargetFollowsPackager'
  BY <1>1, <1>2, <1>5, AcceptedStable DEF Package, TargetFollowsPackager
<1>8. OthersKept'
  BY <1>2, <1>5, AcceptedStable DEF Package, IInv, OthersKept
<1>9. FailureLeavesNoPart'
  BY <1>2 DEF FailureLeavesNoPart
<1> QED
  BY <1>6, <1>7, <1>8, <1>9 DEF IInv

(* What could not be removed is marked as such. *)
LEMMA RemoveIInv == IInv /\ Remove => IInv'
<1> SUFFICES ASSUME IInv, Remove PROVE IInv'
  OBVIOUS
<1>1. 0 \in 0..run
  BY DEF IInv, TypeOK
<1>2. NoFile \in [run : 0..run, amount : Amounts]
  BY <1>1 DEF NoFile, Amounts
<1>3. files' \in Files(run) /\ (\A p \in Paths : p # path => files'[p] = files[p])
      /\ (unlinked' => files'[path] = NoFile)
  BY <1>2 DEF Remove, IInv, TypeOK, Files, Amounts
<1>4. TypeOK' /\ before' \in Files(MaxRuns)
  BY <1>3 DEF Remove, IInv, TypeOK, Ended, Files, Amounts
<1>5. TargetFollowsPackager'
  BY DEF Remove, TargetFollowsPackager
<1>6. OthersKept'
  BY <1>3, AcceptedStable DEF Remove, IInv, OthersKept
<1>7. FailureLeavesNoPart'
  BY <1>3 DEF Remove, IInv, OthersKept, FailureLeavesNoPart
<1> QED
  BY <1>4, <1>5, <1>6, <1>7 DEF IInv

(* The last Close decides between the two ends. *)
LEMMA CloseIInv == IInv /\ Close => IInv'
<1> SUFFICES ASSUME IInv, Close PROVE IInv'
  OBVIOUS
<1>1. CASE Exit("ok")
  BY <1>1, ExitIInv DEF Close
<1>2. CASE ~Exit("ok")
  <2>1. files[path] = [run |-> run, amount |-> output] /\ path \in Paths /\ DOMAIN files = Paths
    BY DEF Close, IInv, TypeOK, TargetFollowsPackager
  <2>2. files' = [files EXCEPT ![path] = [run |-> run, amount |-> "part"]]
    BY <1>2, <2>1 DEF Close
  <2>3. "part" \in Amounts
    BY DEF Amounts
  <2>4. files' \in Files(run) /\ \A p \in Paths : p # path => files'[p] = files[p]
    BY <2>2, <2>3, FilesAtTarget
  <2>5. TypeOK' /\ before' \in Files(MaxRuns)
    BY <1>2, <2>4 DEF Close, IInv, TypeOK, Ended, Files, Amounts
  <2>6. TargetFollowsPackager'
    BY <1>2 DEF Close, TargetFollowsPackager
  <2>7. OthersKept'
    BY <1>2, <2>4, AcceptedStable DEF Close, IInv, OthersKept
  <2>8. FailureLeavesNoPart'
    BY <1>2 DEF Close, FailureLeavesNoPart
  <2> QED
    BY <2>5, <2>6, <2>7, <2>8 DEF IInv
<1> QED
  BY <1>1, <1>2

(* The invariant is preserved by every step. *)
LEMMA StepIInv ==
  ASSUME IInv, [Next]_vars
  PROVE  IInv'
<1>1. CASE Call
  BY <1>1, CallIInv
<1>2. CASE Prepare
  BY <1>2, PrepareIInv
<1>3. CASE Create
  BY <1>3, CreateIInv
<1>4. CASE Package
  BY <1>4, PackageIInv
<1>5. CASE Remove
  BY <1>5, RemoveIInv
<1>6. CASE Close
  BY <1>6, CloseIInv
<1>7. CASE Kill
  BY <1>7, ExitIInv DEF Kill
<1>8. CASE UNCHANGED vars
  BY <1>8, AcceptedStable
     DEF vars, IInv, TypeOK, Files, TargetFollowsPackager, OthersKept, FailureLeavesNoPart
<1> QED
  BY <1>1, <1>2, <1>3, <1>4, <1>5, <1>6, <1>7, <1>8 DEF Next, Step

-----------------------------------------------------------------------------
(* However often the command is run and killed, the invariant holds.       *)
THEOREM InvariantHolds == Spec => []IInv
<1>1. IInv /\ [Next]_vars => IInv'
  BY StepIInv
<1> QED
  BY InitIInv, <1>1, PTL DEF Spec

(* The variables keep their types; no file claims to be of a later run.    *)
THEOREM CommandTypeCorrect == Spec => []TypeOK
<1>1. IInv => TypeOK
  BY DEF IInv
<1> QED
  BY InvariantHolds, <1>1, PTL

(* The exit status 0 (doPackage returns f.Close()'s nil) means that a      *)
(* package of this run lies at the path, and the whole of it, unless its   *)
(* packager drops the error of its last write, as archlinux's does.        *)
THEOREM ReportsAreTrue == Spec => []ReportedIsThere
<1>1. IInv => ReportedIsThere
  BY DEF IInv, TargetFollowsPackager, ReportedIsThere
<1> QED
  BY InvariantHolds, <1>1, PTL

(* doPackage's os.Remove leaves no part of a package that failed.          *)
THEOREM FailuresCleanUp == Spec => []FailureLeavesNoPart
<1>1. IInv => FailureLeavesNoPart
  BY DEF IInv
<1> QED
  BY InvariantHolds, <1>1, PTL

(* Only a run that opened the same path costs an earlier package, and it   *)
(* gets there only with a known packager and a configuration that is read  *)
(* and found for it; whether Package accepts it too shows too late.        *)
THEOREM EarlierPackagesAreSafe == Spec => []EarlierPackagesSafe
<1>1. IInv => EarlierPackagesSafe
  BY DEF IInv, OthersKept, EarlierPackagesSafe
<1> QED
  BY InvariantHolds, <1>1, PTL
===============================================================================
