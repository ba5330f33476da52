---------------------------- MODULE FileInfoSharing ----------------------------
(***************************************************************************)
(* Who writes to the file_info of a content.                               *)
(*                                                                         *)
(* Config.Get (nfpm.go) gives every format an Info of its own, but the     *)
(* contents in it are the pointers of the Config, and a content's FileInfo *)
(* is a pointer too.  Content.WithFileInfoDefaults (files/files.go) copies *)
(* that pointer and completes what it points to.  A file of a glob and a   *)
(* node of a tree get a FileInfo of their own first; a directory, a        *)
(* symlink, a ghost or a document does not, so the formats that are        *)
(* packaged from one Config complete one and the same FileInfo, one after  *)
(* the other or, in a program that packages the formats in parallel, at    *)
(* the same time.  Validate prepares the contents too.                     *)
(*                                                                         *)
(* A mode is the set of its bits, so &^ is \ and a zero mode is {}.  The   *)
(* group is filled like the owner and left out.  Which contents an actor   *)
(* is handed, and in which order things begin, is up to Config.            *)
(***************************************************************************)
EXTENDS Naturals

CONSTANTS
    Actors,     \* the formats that are packaged, and the validation
    Validate,   \* the actor that stands for nfpm.Validate
    Index,      \* the contents, by their place in the Config
    Kind,       \* "dir", "as is", "file" or "tree", for each content
    Given,      \* the file_info of each content in the Config, or NoInfo
    NoInfo,
    Host,       \* what a stat of each content's source yields, or NoInfo
    Umask,      \* the umask of each actor (overridable per format)
    MTime,      \* Info.MTime
    DirMode     \* 0o755

NoTime == 0
Now    == 99    \* time.Now(): later than any time on the host

ASSUME ConstantsAssumption ==
    /\ Kind \in [Index -> {"dir", "as is", "file", "tree"}]
    /\ \A i \in Index : Kind[i] \in {"file", "tree"} => Host[i] # NoInfo
    /\ DirMode # {}

VARIABLES
    heap,       \* the FileInfo each content of the Config points to
    handed,     \* the contents each actor's preparation works on
    todo,       \* those it has still to prepare
    stating,    \* the content each actor is about to stat, as a set
    private,    \* the FileInfo an actor made for a content of its own
    written     \* what the actor put into its package

infoVars == <<heap, handed, todo, stating, private, written>>

Blank == [owner |-> "", mode |-> {}, mtime |-> NoTime, size |-> 0]

IsDir(i) == Kind[i] = "dir"

(* Mutants: a file of a glob works on the FileInfo of the glob; a missing  *)
(* FileInfo is made in the Config.                                         *)
SharedByGlob(i) == Kind[i] \in {"dir", "as is", "file"} /\ Given[i] # NoInfo

SharedEvenNil(i) == Kind[i] \in {"dir", "as is"}

(* The file info the actor works on is the one of the Config. *)
Shared(i) == Kind[i] \in {"dir", "as is"} /\ Given[i] # NoInfo

-----------------------------------------------------------------------------
(***************************************************************************)
(* WithFileInfoDefaults, in the two parts the stat divides it into.        *)
(***************************************************************************)
Filled(i, info) ==
    [info EXCEPT !.owner = IF @ = "" THEN "root" ELSE @,
                 !.mode  = IF @ = {} /\ IsDir(i) THEN DirMode ELSE @,
                 !.mtime = IF @ = NoTime THEN MTime ELSE @]

Complete(i, info) ==
    info.mtime # NoTime /\ info.mode # {} /\ (info.size # 0 \/ IsDir(i))

(* Mutant: the time is left to the packager. *)
AnyTime(info) == info

AtLeastNow(info) == [info EXCEPT !.mtime = IF @ = NoTime THEN Now ELSE @]

Stated(i, umask, info) ==
    IF Host[i] = NoInfo THEN info
    ELSE [info EXCEPT !.mtime = IF @ = NoTime THEN Host[i].mtime ELSE @,
                      !.mode  = IF @ = {} THEN Host[i].mode \ umask ELSE @,
                      !.size  = Host[i].size]

(* What a content's preparation starts from: for a glob a copy of the      *)
(* FileInfo without its size, for a tree what the walk found.              *)
Start(a, i) ==
    LET given == IF heap[i] = NoInfo THEN Blank ELSE heap[i] IN
    CASE Kind[i] = "file" -> [given EXCEPT !.size = 0]
      [] Kind[i] = "tree" ->
            [owner |-> given.owner,
             mode  |-> IF given.mode # {} THEN given.mode ELSE Host[i].mode \ Umask[a],
             mtime |-> Host[i].mtime,
             size  |-> 0]
      [] OTHER -> given

-----------------------------------------------------------------------------
Idle(a) == todo[a] = {} /\ stating[a] = {}

(* PrepareForPackager is called with some contents of the Config. *)
Begin(a, indices) ==
    /\ Idle(a)
    /\ handed' = [handed EXCEPT ![a] = indices]
    /\ todo' = [todo EXCEPT ![a] = indices]
    /\ UNCHANGED <<heap, stating, private, written>>

(* The content's turn: everything up to the stat. *)
Fill(a, i) ==
    LET info == Filled(i, Start(a, i))
        ready == Complete(i, info)
        result == IF ready THEN AtLeastNow(info) ELSE info IN
    /\ stating[a] = {}
    /\ i \in todo[a]
    /\ \A j \in todo[a] : i <= j
    /\ todo' = [todo EXCEPT ![a] = @ \ {i}]
    /\ stating' = [stating EXCEPT ![a] = IF ready THEN {} ELSE {i}]
    /\ IF Shared(i)
       THEN heap' = [heap EXCEPT ![i] = result] /\ UNCHANGED private
       ELSE private' = [private EXCEPT ![a][i] = result] /\ UNCHANGED heap
    /\ UNCHANGED <<handed, written>>

(* The stat and what follows it.  The FileInfo is read again: another      *)
(* actor may have completed it in between.                                 *)
Stat(a, i) ==
    /\ i \in stating[a]
    /\ stating' = [stating EXCEPT ![a] = {}]
    /\ IF Shared(i)
       THEN /\ heap' = [heap EXCEPT ![i] = AtLeastNow(Stated(i, Umask[a], @))]
            /\ UNCHANGED private
       ELSE /\ private' = [private EXCEPT ![a][i] = AtLeastNow(Stated(i, Umask[a], @))]
            /\ UNCHANGED heap
    /\ UNCHANGED <<handed, todo, written>>

(* The packager reads a prepared content. *)
Write(a, i) ==
    /\ a # Validate
    /\ Idle(a)
    /\ i \in handed[a] /\ written[a][i] = NoInfo
    /\ \A j \in handed[a] : j < i => written[a][j] # NoInfo
    /\ written' = [written EXCEPT ![a][i] = IF Shared(i) THEN heap[i] ELSE private[a][i]]
    /\ UNCHANGED <<heap, handed, todo, stating, private>>

InfosInit ==
    /\ heap = Given
    /\ handed = [a \in Actors |-> {}]
    /\ todo = [a \in Actors |-> {}]
    /\ stating = [a \in Actors |-> {}]
    /\ private = [a \in Actors |-> [i \in Index |-> NoInfo]]
    /\ written = [a \in Actors |-> [i \in Index |-> NoInfo]]

-----------------------------------------------------------------------------
(***************************************************************************)
(* The file info that actor a gives content i when it is alone with the    *)
(* Config: the first of the sources that has something to say.             *)
(***************************************************************************)
FirstTime(times) ==
    times[CHOOSE n \in DOMAIN times :
             times[n] # NoTime /\ \A m \in DOMAIN times : m < n => times[m] = NoTime]

Alone(a, i) ==
    LET given == IF Given[i] = NoInfo THEN Blank ELSE Given[i]
        host  == IF Host[i] = NoInfo THEN Blank ELSE Host[i]
    IN [owner |-> IF given.owner = "" THEN "root" ELSE given.owner,
        mode  |-> IF given.mode # {} THEN given.mode
                  ELSE IF IsDir(i) THEN DirMode ELSE host.mode \ Umask[a],
        mtime |-> IF Kind[i] = "tree" THEN FirstTime(<<host.mtime, MTime, Now>>)
                  ELSE FirstTime(<<given.mtime, MTime, host.mtime, Now>>)]

Essence(info) == [owner |-> info.owner, mode |-> info.mode, mtime |-> info.mtime]

FileInfo ==
    [owner : {"", "root"} \cup {Given[i].owner : i \in {j \in Index : Given[j] # NoInfo}},
     mode  : {{}, DirMode} \cup {Given[i].mode : i \in {j \in Index : Given[j] # NoInfo}}
                \cup UNION {SUBSET Host[i].mode : i \in {j \in Index : Host[j] # NoInfo}},
     mtime : Nat,
     size  : Nat]

(* What a Config can say of a content, and a stat of its source.           *)
ASSUME InfosAssumption ==
    /\ Index \subseteq Nat
    /\ MTime \in Nat
    /\ NoInfo \notin FileInfo
    /\ Given \in [Index -> FileInfo \cup {NoInfo}]
    /\ \A i \in Index :
          Host[i] # NoInfo => Host[i].mtime \in Nat /\ Host[i].size \in Nat

(* Types of the variables; a FileInfo appears where none was given only in *)
(* what an actor made for itself.                                          *)
InfosTypeOK ==
    /\ \A i \in Index : IF Given[i] = NoInfo THEN heap[i] = NoInfo ELSE heap[i] \in FileInfo
    /\ \A a \in Actors :
          /\ handed[a] \subseteq Index
          /\ todo[a] \subseteq handed[a]
          /\ stating[a] \subseteq handed[a] \ todo[a]
          /\ \A i \in Index : private[a][i] \in FileInfo \cup {NoInfo}
          /\ \A i \in Index : written[a][i] \in FileInfo \cup {NoInfo}

(* A format that has a FileInfo of its own (files of globs, nodes of       *)
(* trees, contents without file_info) gets in every interleaving what it   *)
(* would get alone: no umask of another format, no size or time it left.   *)
OwnInfosIndependent ==
    \A a \in Actors, i \in Index :
        ~(Kind[i] \in {"dir", "as is"} /\ Given[i] # NoInfo) /\ written[a][i] # NoInfo =>
            /\ Essence(written[a][i]) = Alone(a, i)
            /\ Host[i] # NoInfo /\ ~IsDir(i) => written[a][i].size = Host[i].size

(* What a format writes from a FileInfo it shares is complete, and every   *)
(* field is what one of the actors would have put there alone: what the    *)
(* user set, if he did, in whatever order they come.                       *)
SharedInfosSomeones ==
    \A a \in Actors, i \in Index : written[a][i] # NoInfo =>
        /\ written[a][i].mtime # NoTime
        /\ \A field \in {"owner", "mode", "mtime"} :
              \E b \in Actors : written[a][i][field] = Alone(b, i)[field]

(* The comment at nfpm.go:143: the Info that Get returns is "a deep copy", *)
(* so a format gets the same package whatever else is packaged.            *)
FormatsIndependent ==
    \A a \in Actors, i \in Index :
        written[a][i] # NoInfo => Essence(written[a][i]) = Alone(a, i)
===============================================================================
