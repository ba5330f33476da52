----------------------------- MODULE MCDebPackage -----------------------------
(***************************************************************************)
(* Packages of up to five contents with one or two files on the host that  *)
(* may be replaced or removed at any time, by a shorter or a longer one or *)
(* by one of the same length.                                              *)
(***************************************************************************)
EXTENDS DebPackage, MCSigning, TLC

MCLength == ("v1" :> 1) @@ ("w1" :> 1) @@ ("v2" :> 2)

Content(dst, type, src) == [dst |-> dst, type |-> type, src |-> src, modeDir |-> FALSE]

Etc == Content(<<"etc">>, "implicit dir", "")

MCInputs ==
    {<<>>,
     <<Etc, Content(<<"etc", "a">>, "config", "f"), Content(<<"etc", "d">>, "dir", ""),
       Content(<<"etc", "l">>, "symlink", "target")>>,
     <<Content(<<"a">>, "file", "f"), Content(<<"b">>, "file", "g")>>,
     <<Etc, Content(<<"etc", "b">>, "config|noreplace", "f"),
       Content(<<"log">>, "debian changelog", "g")>>,
     <<[Content(<<"l">>, "symlink", "a directory of the host") EXCEPT !.modeDir = TRUE],
       Content(<<"m">>, "file", "g")>>}

Setting(compression, method, role, signature, scripts) ==
    [compression |-> compression, method |-> method, role |-> role,
     signature |-> signature, scripts |-> scripts]

MCSettings ==
    {Setting("gzip", "", "", Unsigned, {}),
     Setting("none", "debsign", "", Unlocked, {"g"}),
     Setting("gzip", "debsign", "builder", Plain, {}),
     Setting("gzip", "debsign", "", Several, {}),
     Setting("xz", "dpkg-sig", "", ByCaller, {"f", "g"}),
     Setting("zstd", "dpkg-sig", "maint", Shut, {}),
     Setting("gzip", "dpkg-sig", "", BadKeyID, {}),
     Setting("lzma", "", "", Unsigned, {})}
===============================================================================
