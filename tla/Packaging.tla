------------------------------ MODULE Packaging ------------------------------
(***************************************************************************)
(* What a packager promises the caller of Package(info, w): it returns     *)
(* once, and if it returns no error the whole package has been written to  *)
(* w.  A packager that fails may have written any part of it.              *)
(*                                                                         *)
(* A packager that streams, through an encoder which it closes in a defer, *)
(* promises less: its success may leave the package cut short, because     *)
(* what the encoder still held was refused and nobody was told.            *)
(***************************************************************************)
VARIABLES
    output,     \* what is in w: "none", "part" or "all" of the package
    outcome,    \* "running", then "ok" or "failed": what Package returns
    streams     \* whether the packager drops the error of its last write

vars == <<output, outcome, streams>>

Init == output = "none" /\ outcome = "running"

Write ==
    /\ outcome = "running"
    /\ output # "all"
    /\ output' \in {"part", "all"}
    /\ UNCHANGED <<outcome, streams>>

(* The last write and the return may be one step to the caller. *)
Succeed ==
    /\ outcome = "running"
    /\ outcome' = "ok" /\ output' = "all"
    /\ UNCHANGED streams

(* The encoder is closed when nil is already the answer. *)
SucceedCut ==
    /\ streams
    /\ outcome = "running" /\ output # "all"
    /\ outcome' = "ok"
    /\ UNCHANGED <<output, streams>>

(* A failure may still flush what was held back. *)
Fail ==
    /\ outcome = "running"
    /\ outcome' = "failed"
    /\ output' = output \/ (output = "none" /\ output' = "part")
    /\ UNCHANGED streams

Next == Write \/ Succeed \/ SucceedCut \/ Fail

Spec == Init /\ [][Next]_vars
===============================================================================
