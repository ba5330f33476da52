---------------------------- MODULE MCApkPackage ----------------------------
(***************************************************************************)
(* Blocks of three bytes and a bufio of nine, the smallest that holds what *)
(* the Close of a tar writes; files of no, one, three (a whole block) and  *)
(* four bytes that may be replaced or removed at any time.                 *)
(***************************************************************************)
EXTENDS ApkPackage, MCSigning, TLC

MCLength == ("v0" :> 0) @@ ("v1" :> 1) @@ ("v3" :> 3) @@ ("v4" :> 4)

Content(dst, type, src) == [dst |-> dst, type |-> type, src |-> src]

MCInputs ==
    {<<>>,
     <<Content("d", "implicit dir", ""), Content("d/a", "config", "f"),
       Content("d/l", "symlink", "target")>>,
     <<Content("a", "file", "f"), Content("b", "file", "g")>>}

Setting(signature, keyName, maintainer, scripts) ==
    [platform |-> "linux", signature |-> signature,
     keyName |-> keyName, maintainer |-> maintainer, scripts |-> scripts]

MCSettings ==
    {Setting(Unsigned, FALSE, FALSE, <<>>),
     Setting(RSALocked, TRUE, FALSE, <<"f">>),
     Setting(ByCaller, FALSE, TRUE, <<"f", "g">>),
     Setting(RSAPlain, FALSE, FALSE, <<>>),
     Setting(RSAOther, TRUE, FALSE, <<>>),
     [Setting(Unsigned, FALSE, FALSE, <<>>) EXCEPT !.platform = "darwin"]}
===============================================================================
