------------------------------- MODULE MCConfig ------------------------------
(***************************************************************************)
(* Two formats with different umasks and the validation, on seven contents *)
(* of the base and three of an override: with and without a file_info,     *)
(* with a source that is a directory or does not exist on the host, for    *)
(* everyone and for one packager.                                          *)
(***************************************************************************)
EXTENDS Config, TLC

Info(owner, mode, mtime) == [owner |-> owner, mode |-> mode, mtime |-> mtime, size |-> 0]

OnHost(mode) == [mode |-> mode, mtime |-> 7, size |-> 5]

BaseContents == 1..7
OverrideContents == 8..10
MCIndex == BaseContents \cup OverrideContents

MCKind == <<"dir", "as is", "as is", "file", "tree", "as is", "file", "as is", "as is", "as is">>

MCGiven ==
    <<Info("", {}, 0),              \* a directory with an empty file_info
      Info("alice", {}, 0),         \* a symlink to a directory of the host
      NoInfo,                       \* a ghost without file_info or source
      Info("", {}, 0),              \* a glob
      Info("alice", {"r"}, 0),      \* a tree
      Info("", {"r", "w"}, 3),      \* a document, its mode and time set
      Info("", {}, 3),              \* another glob
      Info("", {}, 0),              \* the override's: a symlink,
      Info("alice", {}, 0),         \* one to a directory of the host
      Info("", {"r", "w"}, 3)>>     \* and a document

MCHost ==
    <<NoInfo, OnHost({"dir", "r", "w", "x"}), NoInfo, OnHost({"r", "w"}),
      OnHost({"r", "w"}), OnHost({"r"}), OnHost({"w"}), OnHost({"r", "w", "x"}),
      OnHost({"dir", "r", "w", "x"}), OnHost({"r"})>>

MCPackager == <<"", "", "", "", "deb", "rpm", "rpm", "", "", "rpm">>

MCTypeFor == <<"", "", "rpm", "", "", "rpm", "", "", "", "rpm">>

MCUmask == [deb |-> {"w"}, rpm |-> {"x"}, srpm |-> {"w"}, validate |-> {"w"}]

MCValue == [a |-> "a", b |-> "b", unset |-> "", blank |-> ""]

-----------------------------------------------------------------------------
Clauses == [Formats -> {"absent", "null", "given"}]

Only(f, list, default) ==
    [o \in Formats \cup {Base} |-> IF o = f THEN list ELSE default]

Lists ==
    {[Only(Base, <<"a", "unset", "blank", "b">>, <<>>) EXCEPT !["rpm"] = list] :
        list \in {<<>>, <<"unset", "blank">>, <<"unset", "b", "blank">>}}

MCConfigs ==
    {c \in [clause   : Clauses,
            depends  : Lists,
            contents : {Only(Base, BaseContents, {}),
                        [Only(Base, BaseContents, {}) EXCEPT !["rpm"] = OverrideContents]}] :
        \A f \in Formats : c.clause[f] # "given" =>
            c.depends[f] = <<>> /\ c.contents[f] = {} /\ MCUmask[f] = MCUmask["validate"]}
==============================================================================
