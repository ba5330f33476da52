----------------------------- MODULE MCPackagers -----------------------------
(***************************************************************************)
(* Packages of up to five contents with one or two files on the host that  *)
(* may be replaced or removed at any time, by a shorter or a longer one or *)
(* by one of the same length.  Every type of content a format knows is in  *)
(* one of its lists.                                                       *)
(***************************************************************************)
EXTENDS Packagers, MCSigning, TLC

MCLength == ("v1" :> 1) @@ ("w1" :> 1) @@ ("v2" :> 2)

Content(dst, type, src) == [dst |-> dst, type |-> type, src |-> src]

Etc == Content(<<"etc">>, "implicit dir", "")

ArchInputs ==
    {<<>>,
     <<Etc, Content(<<"etc", "a">>, "config", "f"), Content(<<"etc", "l">>, "symlink", "target")>>,
     <<Content(<<"a">>, "file", "f"), Content(<<"b">>, "config|noreplace", "g")>>,
     <<Content(<<"d">>, "dir", ""), Content(<<"d", "a">>, "file", "f")>>}

ArchSetting(platform, nameValid, scripts) ==
    [platform |-> platform, nameValid |-> nameValid, scripts |-> scripts]

ArchSettings ==
    {ArchSetting("linux", TRUE, {}), ArchSetting("linux", TRUE, {"f"}),
     ArchSetting("linux", FALSE, {}), ArchSetting("darwin", TRUE, {})}

DebContent(dst, type, src) == [dst |-> dst, type |-> type, src |-> src, modeDir |-> FALSE]

DebEtc == DebContent(<<"etc">>, "implicit dir", "")

DebInputs ==
    {<<>>,
     <<DebEtc, DebContent(<<"etc", "a">>, "config", "f"), DebContent(<<"etc", "d">>, "dir", ""),
       DebContent(<<"etc", "l">>, "symlink", "target")>>,
     <<DebContent(<<"a">>, "file", "f"), DebContent(<<"b">>, "file", "g")>>,
     <<DebEtc, DebContent(<<"etc", "b">>, "config|noreplace", "f"),
       DebContent(<<"log">>, "debian changelog", "g")>>,
     <<[DebContent(<<"l">>, "symlink", "a directory of the host") EXCEPT !.modeDir = TRUE],
       DebContent(<<"m">>, "file", "g")>>}

DebSetting(compression, method, role, signature, scripts) ==
    [compression |-> compression, method |-> method, role |-> role,
     signature |-> signature, scripts |-> scripts]

DebSettings ==
    {DebSetting("gzip", "", "", Unsigned, {}),
     DebSetting("none", "debsign", "", Unlocked, {"g"}),
     DebSetting("gzip", "debsign", "builder", Plain, {}),
     DebSetting("gzip", "debsign", "", Several, {}),
     DebSetting("xz", "dpkg-sig", "", ByCaller, {"f", "g"}),
     DebSetting("zstd", "dpkg-sig", "maint", Shut, {}),
     DebSetting("gzip", "dpkg-sig", "", BadKeyID, {}),
     DebSetting("lzma", "", "", Unsigned, {})}

IpkInputs ==
    {<<>>,
     <<Etc, Content(<<"etc", "a">>, "config", "f"), Content(<<"etc", "l">>, "symlink", "target")>>,
     <<Content(<<"a">>, "file", "f"), Content(<<"b">>, "config|missingok", "g"),
       Content(<<"d">>, "dir", "")>>}

Field(name, asGenerated) == [name |-> name, asGenerated |-> asGenerated]

IpkSettings ==
    {[fields |-> {}, scripts |-> {"g"}],
     [fields |-> {Field("version", FALSE), Field("installed-size", TRUE), Field("filename", TRUE),
                  Field("source", TRUE)},
      scripts |-> {}]}

RpmContent(dst, type, src, mode, lang) ==
    [dst |-> dst, type |-> type, src |-> src, mode |-> mode, lang |-> lang]

RpmInputs ==
    {<<>>,
     <<RpmContent(<<"etc">>, "implicit dir", "", {"r", "x"}, ""),
       RpmContent(<<"etc", "a">>, "config", "f", {"r", "04000"}, "de"),
       RpmContent(<<"etc", "b">>, "config|noreplace", "g", {"r", "ModeSetuid"}, ""),
       RpmContent(<<"log">>, "ghost", "", {}, "")>>,
     <<RpmContent(<<"d">>, "dir", "", {"r", "x"}, ""),
       RpmContent(<<"d", "l">>, "symlink", "target", {"r"}, ""),
       RpmContent(<<"d", "m">>, "license", "f", {"r"}, ""),
       RpmContent(<<"run">>, "ghost", "", {"r", "04000"}, "")>>,
     <<RpmContent(<<"a">>, "file", "f", {"r", "x"}, ""),
       RpmContent(<<"doc">>, "doc", "f", {"r"}, "fr"),
       RpmContent(<<"readme">>, "readme", "g", {"r"}, "")>>,
     <<RpmContent(<<"c">>, "config|missingok", "f", {"r"}, "")>>}

RpmSetting(scripts, changelog, metadataValid, relationsParse, signature) ==
    [scripts |-> scripts, changelog |-> changelog, metadataValid |-> metadataValid,
     relationsParse |-> relationsParse, signature |-> signature]

RpmSettings ==
    {RpmSetting({}, "", TRUE, TRUE, ByCaller), RpmSetting({"f"}, "g", TRUE, TRUE, Unsigned),
     RpmSetting({}, "nowhere", TRUE, TRUE, Unsigned), RpmSetting({}, "", FALSE, TRUE, Unsigned),
     RpmSetting({}, "f", TRUE, FALSE, Shut)}

MsixInputs ==
    {<<Content(<<"p">>, "implicit dir", ""), Content(<<"p", "a">>, "file", "f"),
       Content(<<"p", "d">>, "dir", "source of a directory"),
       Content(<<"p", "l">>, "symlink", "target")>>,
     <<Content(<<"a">>, "config", "f"), Content(<<"b">>, "file", "g")>>}

App(id, entryPoint, tile) ==
    [id |-> id, executable |-> "a.exe", entryPoint |-> entryPoint, tile |-> tile]

MsixSetting(applications, restricted, families, pfx) ==
    [publisher |-> "CN=nfpm", logo |-> "logo.png", applications |-> applications,
     restricted |-> restricted, families |-> families, pfx |-> pfx]

MsixSettings ==
    {MsixSetting(<<App("one", "", ""), App("two", "a.Entry", "tile.png")>>, <<>>, <<>>, ""),
     MsixSetting(<<App("one", "", "tile.png")>>, <<"other", "runFullTrust">>, <<"Windows.Mobile">>, "g"),
     MsixSetting(<<App("two", "", "")>>, <<"runFullTrust", "runFullTrust">>, <<>>, ""),
     MsixSetting(<<App("one", "a.Entry", "")>>, <<>>, <<>>, ""),
     MsixSetting(<<App("", "", "")>>, <<>>, <<>>, ""),
     MsixSetting(<<>>, <<>>, <<>>, "")}

MCFormats == {"archlinux", "deb", "ipk", "rpm", "srpm", "msix"}

MCInputs ==
    [archlinux |-> ArchInputs, deb |-> DebInputs, ipk |-> IpkInputs, rpm |-> RpmInputs, msix |-> MsixInputs]

MCSettings ==
    [archlinux |-> ArchSettings, deb |-> DebSettings, ipk |-> IpkSettings, rpm |-> RpmSettings, msix |-> MsixSettings]
===============================================================================
