------------------------------ MODULE ApkPackage ------------------------------
(***************************************************************************)
(* (Apk).Package (apk/apk.go).  The data segment is made first, because    *)
(* the control segment carries its digest and the size of the contents,    *)
(* then the control segment, then, over the digest of that, the signature. *)
(* The caller's writer gets them in the opposite order.                    *)
(***************************************************************************)
EXTENDS HostFiles, TgzSegment, Signing

CONSTANTS
    Inputs,     \* the lists of prepared contents
    Settings    \* the other fields of the Info that matter here

VARIABLES
    contents,   \* info.Contents after the preparation
    settings,
    pc,         \* "start", "data", "control", "signature", "combine",
                \* then "done" or "failed"
    sizes,      \* the size of each content, as the preparation found it
    next,       \* the content or script the segment is at
    current,    \* the segment that is being made
    size,       \* the installed size
    segments,   \* the finished segments, the last one made first
    datahash,   \* what .PKGINFO says the digest of the data is
    signed,     \* what the signature covers
    written     \* how many of the segments the caller's writer has got

vars == <<contents, settings, host, touches, pc, sizes, next, current, size,
          segments, datahash, signed, written>>

input   == <<contents, settings, sizes>>
made    == <<segments, datahash, signed>>
segment == <<next, current, size>>

FileTypes == {"file", "config", "config|noreplace", "config|missingok"}

(* What the callers hand over: what is read is a file of the host, and no  *)
(* member is named like what a file holds or a tar is filled with.         *)
ASSUME InputsAssumption ==
    /\ \A list \in Inputs :
          /\ list \in Seq({list[i] : i \in DOMAIN list})
          /\ \A i \in DOMAIN list :
                /\ list[i].dst \notin Versions \cup {"header", "zero"}
                /\ list[i].type \in FileTypes => list[i].src \in Sources
    /\ \A s \in Settings : s.scripts \in Seq(Sources)
    /\ Versions \cap {"", "header", "zero", ".PKGINFO", "script", ".SIGN"} = {}

Fail == pc' = "failed" /\ UNCHANGED <<segment, made, written>>

(* The platform and the preparation, which takes the sizes. *)
Start ==
    /\ pc = "start"
    /\ sizes' = [i \in DOMAIN contents |-> SizeNow(contents[i].src)]
    /\ pc' = IF /\ settings.platform = "linux"
                /\ \A i \in DOMAIN contents :
                      contents[i].type \in FileTypes => Exists(contents[i].src)
             THEN "data" ELSE "failed"
    /\ UNCHANGED <<contents, settings, host, touches, segment, made, written>>

(* createFilesInsideTarGz for one content.  The file is read before the    *)
(* header, which announces the size of the preparation, is written.        *)
AddContent(c) ==
    IF c.type \in FileTypes
    THEN IF Exists(c.src) /\ Settled(current) /\ Bytes(c.src) <= sizes[next]
         THEN /\ current' = WithMember(current, c.dst, sizes[next], host[c.src], Bytes(c.src))
              /\ size' = size + sizes[next]
              /\ next' = next + 1
              /\ UNCHANGED <<pc, made, written>>
         ELSE Fail
    ELSE IF Settled(current)
         THEN /\ current' = WithMember(current, c.dst, 0, "", 0)
              /\ next' = next + 1
              /\ UNCHANGED <<pc, size, made, written>>
         ELSE Fail

(* The end of writeTgz: the finished segment and where its digest goes.    *)
Finish(kind) ==
    /\ segments' = <<Finished(current, kind)>> \o segments
    /\ current' = EmptySegment
    /\ next' = 1

CreateData ==
    /\ pc = "data"
    /\ IF next <= Len(contents) THEN AddContent(contents[next])
       ELSE IF Settled(current)
       THEN /\ Finish("full")
            /\ datahash' = segments'[1].digested
            /\ pc' = "control"
            /\ UNCHANGED <<size, signed, written>>
       ELSE Fail
    /\ UNCHANGED <<input, host, touches>>

(* createBuilderControl: .PKGINFO, which takes a byte here, and behind it  *)
(* the first n scripts.                                                    *)
WithScript(s, src) == WithMember(s, "script", Bytes(src), host[src], Bytes(src))

ControlUpTo(s, scripts) ==
    LET upTo[n \in 0..Len(scripts)] ==
          IF n = 0 THEN WithMember(s, ".PKGINFO", 1, "pkginfo", 1)
          ELSE WithScript(upTo[n - 1], scripts[n])
    IN upTo

(* createControl, with the scripts in the order of their names. *)
CreateControl ==
    /\ pc = "control"
    /\ LET scripts == settings.scripts IN
       IF \A i \in DOMAIN scripts : Exists(scripts[i])
       THEN /\ segments' =
                  <<Finished(ControlUpTo(current, scripts)[Len(scripts)], "cut")>> \o segments
            /\ pc' = IF Signed(settings.signature) THEN "signature" ELSE "combine"
            /\ UNCHANGED <<segment, datahash, signed, written>>
       ELSE Fail
    /\ UNCHANGED <<input, host, touches>>

(* createSignature; without a key name the maintainer's address is one.    *)
CreateSignature ==
    /\ pc = "signature"
    /\ \/ /\ RSAKeys(settings.signature) # {}
          /\ settings.keyName \/ settings.maintainer
          /\ segments' = <<Finished(WithMember(current, ".SIGN", 2, "sign", 2), "cut")>>
                              \o segments
          /\ signed' = segments[1].digested
          /\ pc' = "combine"
          /\ UNCHANGED <<segment, datahash, written>>
       \/ Fail
    /\ UNCHANGED <<input, host, touches>>

(* Mutant: an error of the caller's writer is dropped. *)
CombineToApkDeaf ==
    /\ pc = "combine"
    /\ \/ written' = written + 1 \/ UNCHANGED written
    /\ pc' = IF written + 1 < Len(segments) THEN "combine" ELSE "done"
    /\ UNCHANGED <<input, host, touches, segment, made>>

(* combineToApk, one io.Copy; the caller's writer may refuse it. *)
CombineToApk ==
    /\ pc = "combine"
    /\ \/ /\ written' = written + 1
          /\ pc' = IF written + 1 < Len(segments) THEN "combine" ELSE "done"
          /\ UNCHANGED <<segment, made>>
       \/ Fail
    /\ UNCHANGED <<input, host, touches>>

Meanwhile ==
    /\ pc \notin {"done", "failed"}
    /\ Touch
    /\ UNCHANGED <<input, pc, segment, made, written>>

Init ==
    /\ contents \in Inputs
    /\ settings \in Settings
    /\ HostInit
    /\ pc = "start"
    /\ sizes = <<>>
    /\ next = 1
    /\ current = EmptySegment
    /\ size = 0
    /\ segments = <<>>
    /\ datahash = <<>>
    /\ signed = <<>>
    /\ written = 0

Package == Start \/ CreateData \/ CreateControl \/ CreateSignature \/ CombineToApk

Next == Package \/ Meanwhile

Spec == Init /\ [][Next]_vars
-----------------------------------------------------------------------------
(* How apk reads the bytes: a header, as many bytes as it announces, the   *)
(* rest of the block, the next header; two zero blocks are the end.        *)
IsHeader(bytes, p) ==
    /\ p + Block - 1 <= Len(bytes)
    /\ bytes[p].of \notin {"header", "zero"}
    /\ \A i \in 1..(Block - 1) : bytes[p + i] = Byte("header", 0)

IsEnd(bytes, p) ==
    /\ p + 2 * Block - 1 <= Len(bytes)
    /\ \A i \in 0..(2 * Block - 1) : bytes[p + i] = Byte("zero", 0)

Behind(bytes, p) ==
    IF IsHeader(bytes, p) THEN p + Block + RoundedUp(bytes[p].size) ELSE p

(* Where the reader is after i members. *)
Stops(bytes, n) ==
    LET at[i \in 0..n] == IF i = 0 THEN 1 ELSE Behind(bytes, at[i - 1]) IN at

(* The members it finds are called names, and there are no others. *)
Reads(bytes, names) ==
    LET at == Stops(bytes, Len(names)) IN
    /\ \A i \in DOMAIN names :
          IsHeader(bytes, at[i - 1]) /\ bytes[at[i - 1]].of = names[i]
    /\ IsEnd(bytes, at[Len(names)])

ConcatUpTo(parts) ==
    LET upTo[i \in 0..Len(parts)] ==
          IF i = 0 THEN <<>> ELSE upTo[i - 1] \o parts[i].out
    IN upTo

Concat(parts) == ConcatUpTo(parts)[Len(parts)]

Promised ==
    LET signature == IF Signed(settings.signature) THEN <<".SIGN">> ELSE <<>>
        scripts   == [i \in DOMAIN settings.scripts |-> "script"]
        names     == [i \in DOMAIN contents |-> contents[i].dst]
    IN signature \o <<".PKGINFO">> \o scripts \o names

Combining == pc \in {"combine", "done"}

(* How many of the bytes were in a file. *)
OfFiles(bytes) == Cardinality({i \in DOMAIN bytes : bytes[i].of \in Versions})

(* Types of the variables. *)
TypeOK ==
    /\ contents \in Inputs /\ settings \in Settings
    /\ host \in [Sources -> Versions \cup {Gone}]
    /\ next \in 1..(Len(contents) + 1) /\ size \in Nat
    /\ Len(segments) \in 0..3 /\ written \in 0..Len(segments)
    /\ Len(current.buffer) <= BufSize /\ current.pad \in 0..(Block - 1)
    /\ current.owed \in Nat

(* The segments, made one by one, read as one tar: whoever reads the       *)
(* concatenation sees the signature, .PKGINFO, the scripts and all the     *)
(* contents, none of them cut off by a trailer or shifted by an unaligned  *)
(* end, and then the end of the archive.                                   *)
ReadsAsOneTar ==
    Combining => \A apk \in {Concat(segments)} :
        Len(apk) % Block = 0 /\ Reads(apk, Promised)

(* The chain of trust: .PKGINFO has the digest of the data segment, byte   *)
(* for byte what follows in the package, the zero bytes that align it      *)
(* included, and the signature covers the control segment just so.  The    *)
(* installed size in .PKGINFO is that of the bytes in the data segment,    *)
(* whatever happened to the files since their sizes were taken.            *)
DigestsChain ==
    Combining =>
        /\ datahash = segments[Len(segments)].out
        /\ Signed(settings.signature) => Len(segments) = 3 /\ signed = segments[2].out
        /\ size = OfFiles(segments[Len(segments)].out)

Outcome == CASE pc = "done" -> "ok" [] pc = "failed" -> "failed" [] OTHER -> "running"

P == INSTANCE Packaging WITH
        output  <- IF written = 0 THEN "none"
                   ELSE IF written < Len(segments) THEN "part" ELSE "all",
        outcome <- Outcome,
        streams <- FALSE

(* The apk packager keeps the promise every packager makes. *)
KeepsPromise == P!Spec
===============================================================================
