---------------------------- MODULE MCArchPackage ----------------------------
(***************************************************************************)
(* Packages of up to four contents with one or two files on the host that  *)
(* may be replaced or removed at any time, by a shorter or a longer one or *)
(* by one of the same length.                                              *)
(***************************************************************************)
EXTENDS ArchPackage, TLC

MCLength == ("v1" :> 1) @@ ("w1" :> 1) @@ ("v2" :> 2)

Content(dst, type, src) == [dst |-> dst, type |-> type, src |-> src]

Etc == Content(<<"etc">>, "implicit dir", "")

MCInputs ==
    {<<>>,
     <<Etc, Content(<<"etc", "a">>, "config", "f"), Content(<<"etc", "l">>, "symlink", "target")>>,
     <<Content(<<"a">>, "file", "f"), Content(<<"b">>, "config|noreplace", "g")>>,
     <<Content(<<"d">>, "dir", ""), Content(<<"d", "a">>, "file", "f")>>}

Setting(platform, nameValid, scripts) ==
    [platform |-> platform, nameValid |-> nameValid, scripts |-> scripts]

MCSettings ==
    {Setting("linux", TRUE, {}), Setting("linux", TRUE, {"f"}),
     Setting("linux", FALSE, {}), Setting("darwin", TRUE, {})}
===============================================================================
