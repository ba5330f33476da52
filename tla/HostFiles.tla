------------------------------ MODULE HostFiles ------------------------------
(***************************************************************************)
(* The files of the build host, as a packager meets them: their sizes were *)
(* taken when the contents were prepared, their bytes are read when their  *)
(* turn comes, and whoever else works on the host may replace or remove    *)
(* them in between.  What a file holds is a version; versions have         *)
(* lengths, and a digest of the bytes identifies the version.              *)
(***************************************************************************)
EXTENDS Naturals

CONSTANTS
    Versions,   \* what a file may hold
    Length,     \* the length of each version
    Sources,    \* the files
    Gone,       \* what a file that is not there holds
    MaxTouches  \* bound: how often a file changes

ASSUME LengthAssumption == Gone \notin Versions /\ Length \in [Versions -> Nat]

VARIABLES
    host,       \* what each file holds now
    touches     \* how often one has changed

Exists(src) == host[src] # Gone

Bytes(src) == Length[host[src]]

(* os.Stat during the preparation: a file that is not there has no size. *)
SizeNow(src) == IF src \in Sources /\ Exists(src) THEN Bytes(src) ELSE 0

HostInit == host \in [Sources -> Versions] /\ touches = 0

Touch ==
    /\ touches < MaxTouches
    /\ touches' = touches + 1
    /\ \E s \in Sources, v \in Versions \cup {Gone} : host' = [host EXCEPT ![s] = v]
===============================================================================
