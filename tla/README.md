# Verification of nFPM in TLA+

nFPM turns one description of a package (`nfpm.yaml`, an `Info`) into a deb, rpm, srpm, apk, archlinux,
ipk or msix file. This directory models the program's own logic, checks the models with TLC and proves
theorems about the core with TLAPS. Line numbers refer to the repository beside it (`src/`).

## 1. The system

| component | state it keeps | operations | talks to |
|---|---|---|---|
| configuration (`nfpm.go`) | the `Config`: an `Info`, overrides per format, pointers to contents | `Parse` (expand variables, defaults), `Config.Get` (merge an override), `Validate` | hands the *same* content pointers to every format |
| registry (`nfpm.go`) | a map from format to packager, a lock | `RegisterPackager`, `ClearPackagers`, `Get`, `Enumerate` | read by `Get` and `Validate` without the lock |
| content preparation (`files/files.go`) | a map from destination key to content, while it runs | one call, `PrepareForPackager`: adds explicit directories, links, globs, trees, implicit directories; sorts | stats and walks the build host |
| file info (`files/files.go`) | a `ContentFileInfo` per content, by pointer | `WithFileInfoDefaults` | shared between formats and with `Validate` |
| deb, apk, arch, ipk (`deb/`, `apk/`, `arch/`, `ipk/`) | buffers, digests, sizes of one package | `Package(info, w)` | read the host's files long after they were prepared; write to the caller's writer |
| rpm, srpm, msix | structures of a library, a spec, a temporary tarball | `Package` | libraries, the host's files, `os.CreateTemp` |
| signing (`internal/sign`) | none | PGP and RSA signatures | libraries, key files, the environment |
| names (`nfpm.go`, each packager) | none | `parseSemver`, `ConventionalFileName`, the version of the control data | the command, the `Info` |
| package command (`internal/cmd/package.go`) | the target file | `doPackage` | all of the above, the file system |

Everything runs in one goroutine, but a program that uses nFPM as a library (goreleaser does) packages
several formats of one `Config` at the same time, `files_test.go:272` prepares contents concurrently, and
the build host changes under a running packager.

What is hard, and hard to test:

- **the order of a list of contents.** Trees overwrite, everything else collides; implicit directories
  appear on the way; the matches of a glob come out of a Go map in any order. What does a list mean?
- **repetition.** `Package` writes its preparation back into the `Info`, and adds to it; a caller may try again.
- **names for the same thing.** The format `Get` is asked for, the packager contents are prepared for, and the
  text a version has in a file name and in control data are each decided in two places.
- **sharing.** A content's file info is a pointer. Defaults written for one format are the next one's input.
- **time of check, time of use.** Sizes are taken in the preparation, bytes are read later, and control
  data (md5sums, Installed-Size, .MTREE, .PKGINFO) is derived from both.
- **partial failure.** Packagers stream into a file that already has its final name; writers may fail at
  the last byte, when a file is closed, or inside a deferred call.
- **byte arithmetic.** An apk is three gzip members that must read as one tar.

`PROJECT.json` lists these as hazards, each at the line where it bites, with the properties that cover it.

## 2. Modules and their correspondence to the code

### Content preparation

`PrepareContents` is `files.PrepareForPackager`. `table` is the map `contentMap`, whose keys are strings
in the code: a cleaned path, with a trailing slash for directories. Here a key is `[path, dir]`, the path a
sequence of names. `next` is the loop over the list; `pc` says whether a content is being dispatched, the
matches in `pending` are being added in *any* order (`AddGlobbed`, the map iteration of `addGlobbedFiles`), or
the nodes of a tree are being visited (`WalkNode`, the callback of `filepath.WalkDir`). Each branch of the
`switch` is an action: `Skip`, `AddDir`, `AddAsIs`, `Glob`, `BeginTree`, `InvalidType`; `Finish` is the sort.
What a glob or a walk finds on the host (`Matches`, `TreeOf`) is a constant, errors in the middle of a walk
included. Modes, times and sizes are not part of an entry here (see `FileInfoSharing`); the owner stands for
owner and group.

`ContentPaths` is the path arithmetic: cleaning with `..`, the parents of a destination, the two kinds of key.
`Globbing` is the arithmetic of `internal/glob`: the longest common prefix of the matches, found *character by
character* and cut back to a directory, and the destinations relative to it. Paths are sequences of names there
too, and `Text` spells them out for the comparison. What matches a pattern is the library's business.
`GlobbedContents` puts the two together: `Globs` is what each pattern finds, `Matches` what `internal/glob` makes of it.

Names are spelled by sequences of numbers for the sort only (`Chars`, `Spelling`, `StringLess`): `dot` in the
instance begins with a character below the slash, as `.` and `-` do.

`PrepareContentsSpec` says what a list *means* without saying how it is worked off (`Meaning`, and
`FirstRefused` for the first content that has to be refused), and states the properties.

`RepeatedPreparation` calls `Package` twice with one `Info`, as the deb packager does it: `nfpm.PrepareForPackager`
stores the prepared contents back, so the second call prepares them again, in sorted order; if it fails it stores
`nil`; and the changelog of a deb is appended to whatever is there before each preparation. `AsContent` is an entry
of the result as a content; the path of a file that was found is its source, and globs again.

### Configuration and file info

`FileInfoSharing` is `WithFileInfoDefaults` on the heap: `heap[i]` is what content `i` of the `Config` points
to, `private` what a format allocated for itself (globs and trees copy, everything else does not). `Begin` is the
call of the preparation, `Fill` the code up to `os.Stat`, `Stat` the rest; between the two, and between two
contents, other formats and `Validate` run. `Write` is the packager reading the result. A mode is a set of bits.

`Config` puts the configuration in front of it, on the same heap: `Expand` and `DeleteEmpty` are the two loops of
`expandEnvVarsStringSlice` for the base and, in the order of a map, for each override; `Get` is the merge of one
override into the base, with the filter on contents that only applies if there is an override; `Package` hands
the contents to the preparation, for the packager the format prepares as; `ValidateFor` is one turn of the loop
over the registered packagers. Contents are indices, and one list of dependencies stands for the seven lists.

### Packagers

`HostFiles` is the build host (a file holds a version, versions have lengths, `Touch` replaces or removes a
file at any moment); `TarStream` is the one thing the packagers rely on in `archive/tar`: a member must be
exactly as long as its header announced. `Packaging` is the abstract promise: `Package` writes, then returns;
success means that everything was written. A packager that streams (`streams`) promises less: its success may leave
the package cut short (`SucceedCut`).

- `DebPackage` follows `Package` in `deb/deb.go`: the data tarball content by content, with its digests and
  the installed size (`AddMember`), the control tarball from both (`CreateControl`), one `ar` member at a time
  (`AddArFile`), the signature (`Sign`).
- `ArchPackage` follows `arch/arch.go`, which streams: every member goes through the zstd encoder to the
  caller's writer, and the encoder's rest is written by a deferred call (`Close`).
- `IpkPackage` follows `ipk/`: the data tarball (`AddContent`), whose headers and sizes come from the bytes that
  were read, the control tarball with the fields the user adds (`PopulateControl`), and one call of the writer.
- `RpmPackage` follows `rpm/`, both formats. A binary package is a description for a library (`ApplyMetadata`,
  `ReadScripts`, `StatChangelog` and `ParseChangelog`, `AddContents`), which reads the files in `Build`. A source
  package is a spec (`WriteFilesSection`) and a tarball in a temporary file (`CreateTemp`, `AddEntry`,
  `CopyFile`, `ClosePayload`), which `buildPayloadTar` removes itself when it fails (`Discard`) and a deferred call
  after that (`Return`). `Rebuilt` is what rpmbuild makes of spec and tarball: where the spec says `%attr(-, ...)`, a
  link, the mode is that of the tarball. `vanished` remembers whether the changelog went between look and parser.
- `MsixPackage` follows `msix/`: defaults written into the Info, validation, the manifest, then a library.
- `ApkPackage` follows `apk/apk.go` byte by byte, with `TgzSegment` for `writeTgz`: tar, bufio, counter,
  digest. Block and buffer sizes are constants (512 and 4096 in the code).
- `Signing` is who signs: the caller's function, or the key of a file with its id and its passphrase from the
  environment.

`Packagers` puts all of them but the apk behind one interface: the format is chosen in `Init`, each packager is an
INSTANCE on shared variables, and the whole is shown to implement `Packaging`, `ApkPackage` likewise on its own:
archlinux with `streams`, since it returns nil over a package whose last bytes were refused (`arch_truncated`), the
others without.

The sizes found by the preparation are the variable `sizes`, set in `Start`; bytes are read when their turn
comes. Compression is left out (it is injective), so a digest *is* what was digested. The text of control
files is left out except for what has to agree with the archive.

### Command

`PackageCmd` is `doPackage`: packager and configuration (`Prepare`), `os.Create` on the final path
(`Create`), the packager through `INSTANCE Packaging` (`Package`), with `streams` for archlinux (`Streaming`), `os.Remove` (`Remove`), the last `Close`.
It may be killed anywhere and is called again on the same paths; `calls` remembers the requests of all runs.

`Naming` is how a version is spelled: `parseSemver`, the conventional file name of deb, rpm, apk and archlinux, and
the version in the control data, which the code puts together a second time. These are texts, since the joints
between the parts are what can go wrong. `MCPackageCmd` gives the requests their names with it.

## 3. Runs

| run | question | result |
|---|---|---|
| `prepare` | does every list of up to three contents (of nineteen that meet at the same paths), and every destination of up to six components, give the table it stands for, fail exactly where it must, keep explicit claims and end up closed under parents and sorted parents first? Does a glob keep the tree its matches lie in? | yes |
| `prepare_file_is_directory` | `addParents`: "check for content collision" (files.go:380) | **no**: a content below one that is a file is accepted: its parents are looked up under the keys of directories, which a file never has |
| `repeated` | what does a second `Package` of the same `Info` make? | what the first did; but it fails if the first put a changelog in, and makes an empty package if the first failed |
| `config` | with formats and `Validate` in any interleaving, does each format get the lists and contents that are meant for it, and what survives of the shared file infos? | yes; what the user set, and everything of contents with file infos of their own |
| `formats_share_infos` | "make a deep copy of info" (nfpm.go:143), "no change the info's contents" (nfpm.go:623) | **no**: the umask of the format that comes first, or of `Validate`, decides; in the run rpm has an override with a umask, and the content is one of the base |
| `source_package_contents` | "a source package bundles the very contents that build the binary rpm" (rpm.go:113) | **no**: any override for `srpm` drops the contents for the packager `rpm` |
| `packagers` | does each format's package describe itself, does its signature cover it, does a source package rebuild the binary one, and does the promise of the interface hold, although files change and anything external fails? | yes; for archlinux only the lesser promise |
| `deb_signature_names` | the assertion of deb_test.go:1684 | **no** for xz, zstd and none: the dpkg-sig message names `data.tar.gz` |
| `deb_symlinks` | "both src and dst are paths inside the package" (configuration.md:219) | **no**: a link to a directory of the build host becomes a directory |
| `arch_truncated` | "Package writes a new archlinux package to the given writer" (arch.go:118) | **no**: errors of the deferred `Close` are dropped, a truncated package is reported as success |
| `apk` | do the segments read as one tar, with a chain of digests over exactly their bytes? | yes |
| `package_cmd` | is what the command reports there, and nothing partial left behind? Does a run that leaves the name to the packager only replace packages of the same version? | what is reported is there, and whole but for archlinux, whose packager may have cut it short; no part is left behind, except after a kill, a failed `Remove` or a failed `Close`; and only packages of the same version are replaced, for archlinux only with an epoch |

Each property of a passing run has a mutant: a change of one definition, of the kind a bug would make, that
TLC then finds. The mutants stand before the definition they change.

**Bounds.** Lists of three contents, because every rule of the preparation relates at most two earlier
contents to a third (a tree over a claim that an earlier content's parents met). Six components, because a
`..` can undo a component, climb out of the root, and be followed by both again. Three matches of a glob, of
names that begin alike, so that the common prefix ends inside a name, at its end, or at the root. Two calls with
one `Info`: the second is the first one that can see anything. Two formats and `Validate`, seven contents of the base and three of an
override, one for each way to share a pointer or to be meant for one format: an interference is between two actors on
one content. The override and the base never share one: `Parse` decodes each list into contents of its own. Only rpm,
which has an override in all eighteen configurations, has another umask than the base and so than `Validate`.
Lists of up to four dependencies, so that two deletions may follow each other, and the last element may be
deleted. Two files with three or four versions, shorter, longer and of equal length, and two changes: one before
and one after a read (`MaxTouches`). Blocks of three bytes with bodies of zero, one, three and four, so a member
can be empty, end inside a block, fill it and pass it; a buffer of three blocks is the smallest that the code's
argument (padding and two zero blocks fit) allows, so the bound is tight; `KiB` is 2 for the same reason. Two runs
of the command: a kill or a success, and what comes after it (`MaxRuns`); a name is lost to one other version.

**Fairness.** Only `package_cmd` has a liveness property. It assumes weak fairness of the command, which is one
goroutine, and that a packager returns: that is an assumption about the code, not checked, since preparations and packagers are
finite loops over contents, nodes and matches that wait for nothing but the host. Kills, refusals of the caller's
writer and changes of files have no fairness. Deadlock checking is off everywhere because every modelled call ends.

## 4. What is proved

A theorem stands in the module of the proofs of its component; each states a property that a run checks, so the
run shows it on a small instance and the theorem for every value of the constants.

**Content preparation** (`PrepareContentsProofs`; globs in `GlobbedContentsProofs`), for every list of contents,
every host and every packager:

| theorem | says |
|---|---|
| `TypeCorrect` | `Spec => []TypeOK`: only finished entries with an owner are in the table |
| `KeysMatchTypes` | `Spec => []KeyFormMatchesType`: a key has the trailing slash exactly if the entry is a directory; so the collision branch of `addParents` can never be taken |
| `ParentsAlwaysPresent` | `Spec => []ParentsPresent`: at every moment the directory above every entry is in the table |
| `ClaimsAlwaysSurvive` | `Spec => ClaimsSurvive`: no step removes an entry, and only a tree replaces an explicit one |
| `PathsNeverPart` | `Spec => []PathsAgree`: for destinations of any length, with `..` anywhere, cleaning is idempotent, absolute and relative cleaning agree, and no parents are made beside the path |
| `DirectoriesComeFirst` | `Spec => []ParentsFirst`: the sort has no ties and a directory comes before what is in it, however names are spelled |
| `TableIsWhatTheListMeans` | `Spec => []TableIsMeaning`: between two contents the table is what the list so far stands for, in whatever order the matches of a glob are added |
| `FailsExactlyWhereRefused` | `Spec => []FailsWhereRefused`: a preparation fails at the first content that is refused, never before and never after |
| `GlobsAlwaysKeepTheirTree` | `Spec => []GlobsKeepTheirTree`: of every set of matches, however deep and however alike their names begin, each file is where its path below the deepest directory above all of them says |

Lists are sequences of `Contents`, any set of contents about which the following is assumed: `InputsAssumption` (the
lists to prepare are such sequences), `WalkAssumption` (a walk visits its root, a
directory before what is in it, and nothing twice but for the error of a directory it cannot read: what
`filepath.WalkDir` promises), `NamesAssumption` (destinations are spelled with known names and `..`, and `..` is not a
name) and `CharsAssumption` (a name is spelled by at least one character, none of them a slash, and two names are
spelled differently).

`ParentsPresent` is not inductive, since a node of a tree is put into the table without its parents. The invariant
`IInv` adds what the walk has done so far: while a tree is walked, the parents of its root are in the table, and each
directory visited so far is in it under its directory key (a later node may change the entry from implicit to
explicit, never the key); the owners in the table are known; keys match types. Each action preserves `IInv` because
it only adds keys, and what it adds comes with `WithParents` or below a visited node. That the parents of a
destination lead from the root to it is `PathsLead`: the relative form of a path is some `..` followed by names
(`CleanRelUpTo`), and the absolute form is what is left of it without them. `DirectoriesComeFirst` needs in addition
that the table is finite and that only known names are in it, so that the position of a key is the number of keys
below it. Its core is that strings are totally ordered (`LessIrreflexive`, `LessTransitive`, `LessTotal`), that
different keys have different spellings (`SpellingInjective`), and that the spelling of a directory, but for the
root's, is the beginning of the spelling of whatever is in it (`DirectoryBelow`).

`GlobsAlwaysKeepTheirTree` rests on `TableIsWhatTheListMeans` and on one fact about texts. Let the matches share
their first n names and no more. Their longest common prefix may run on into the next names, but it has no separator
behind the one that follows the shared names: with one, the name up to it would be the same in all matches, all would
go on behind it, and they would share n + 1 names (`FirstSlash`, `SameName`). So `filepath.Dir` cuts exactly behind the
shared names (`CutAtName`), and `filepath.Rel` has nothing to step back over (`RelOfBeginning`). `GlobsAssumption`
says what a pattern finds: paths of at least one known name, and for a path without matchers itself or what is below it.

`TableIsMeaning` speaks of the moments between two contents, so its invariant, `MeaningInv`, must say what the table is
in between: during a glob it is what the list before stands for, grown by what the matches added so far claim and
need; during a walk, grown by the parents of the root and the nodes visited (`Grown`). `GrownByParents` and
`GrownByClaim` are the two ways the code grows the table, and `MeaningGrows` is the point of the proof: grown by all
that a content claims and needs, the meaning of a list is the meaning of the list with that content at its end. That
needs the keys of one content to be different: matches with one destination are refused (`GlobVerdict`), and nodes of
one walk have different keys (`NodesApart`). The rest of `MeaningInv` is that every earlier content was accepted, and
that a failed preparation stands at one that is not, from which `FailsWhereRefused` follows.

The root is an exception that the proof found: `NormalizeAbsoluteDirPath` spells it `//` (`files.go:646`), so a content
whose name begins with a character below the slash, `/.b` say, is sorted before an explicit root directory.
`ParentsFirst` says exactly which names are affected. No comment or document of the repository claims otherwise.

**Preparing twice** (`RepeatedPreparationProofs`), for every list, with a changelog or without:

| theorem | says |
|---|---|
| `SecondFailsOnlyOnChangelog` | `RSpec => []SecondFailsOnChangelog`: a second `Package` of an `Info` fails exactly if the first put a changelog in |
| `SecondPackagesWhatTheFirstDid` | `RSpec => []SecondPackagesTheFirst`: one that succeeds packages every explicit entry of the first as it was, and nothing new but the changelog and its directories |

Assumptions, beyond those of the preparation: `ChangelogAssumption` (the packager is deb and the changelog a content of
its type for any packager) and `AgainAssumption`: what an accepted content is turned into may be a content again, and a
file that was found is found by its own path (`FindsItself`). The last is what `internal/glob` does for a path without
matchers; a file whose name has a `*` or a `{` in it is outside the theorems. The invariant `RInv` holds of each call
what the two invariants of a preparation say, and that the second call's list begins with the first call's table, each
key once (`ListsFirst`). That it does is `ResultListed`: the sort gives every place from one to the number of keys to
one key (`EveryPlace`), since places are counted by a total order. That no entry of it is refused is `ListedAccepted`:
an entry asks for its own key only, in the spelling it has already, and the directories it needs are in the table by
`ParentsPresent`; so at its key there is at most an implicit directory, made for an earlier one, which collides with a
file never, as the forms of their keys differ (`KeyFormMatchesType`). The changelog behind it is refused exactly if its
key is in the table (`ChangelogAccepted`). So the two theorems rest on those about one preparation: on
`TableIsMeaning` for what the second table is, and on `FailsWhereRefused` for when there is none.

**Configuration** (`ConfigProofs`), for every configuration, any number of formats and contents, in any interleaving:

| theorem | says |
|---|---|
| `ConfigTypes` | `Spec => []TypeOK` |
| `ListsMeant` | `Spec => []ListsAsMeant`: the deletion from the slice that is walked over leaves the values that are not empty, in their order, and an override falls back to the base only if nothing is left |
| `OwnInfosAlone` | `Spec => []OwnInfosIndependent` |
| `SharedInfosPlausible` | `Spec => []SharedInfosSomeones` |
| `FormatsKeepApart` | `Spec => []FormatPackagesItsContents`, if `srpm` is not among the formats |

The hypothesis of `FormatsKeepApart` is the finding of `source_package_contents`: with `srpm` the formula is about the
contents as the code filters them, not as they are meant. Assumptions: `ConfigsAssumption` (the shape of a
configuration; everybody who prepares is an actor; no two lists share a content; a format without an override has the
umask of the base, as `Validate` has) and `ConstantsAssumption`, `InfosAssumption` of `FileInfoSharing`
(a glob or a tree has a source on the host; a file info has a mode, which is a set of bits and may be empty, an owner,
a time and a size). The invariants: while a list is walked, what stands before the index is the meaning of what was
before it, and the rest is as it was (`ListsInv`, by the last and the next index of `LeftUpTo`); a file info that is
not shared stays in the heap as the user wrote it, and the copy an actor works on is where this actor alone would have
it (`OwnInv`); every field of a shared one is blank, given or what some actor alone would have written (`SharedInv`); a
content an actor holds is one that it was handed (`HandInv`).

**Packagers** (`PackagersProofs`), for every list of contents, all settings, and a host
that changes at any step:

| theorem | says |
|---|---|
| `TypesHold` | `Spec => []TypeOK`: loops end with the contents, and an archive is never owed less than nothing |
| `PackagesDescribeThemselves` | `Spec => []DescribesItself`: sizes, digests and manifests are those of the members, for archlinux, deb, ipk and msix |
| `DebSignatureCovers` | `Spec => []SignatureCoversArchive` |
| `SourceReproduces` | `Spec => []RebuildReproduces`: a source package rebuilds the binary one, but for the flag of a readme and the mode of a symlink (`Expected`) |
| `TempAlwaysRemoved` | `Spec => []TempIsRemoved` |
| `ChangelogKept` | `Spec => []ChangelogNotForgotten`: however the host changes, unless the changelog vanishes between the look and the parser |
| `DefaultsStay` | `Spec => []DefaultsAreStable` |
| `PromiseKept` | `Spec => KeepsPromise`: deb, ipk, rpm, srpm and msix implement `Packaging`; archlinux implements it with `streams`, that is without a whole package behind every success; `PackageCmd` composes with both |

Assumptions: `KiBAssumption`; `InputsAssumption` (what the preparation hands over: the types it knows for the format,
one content for a destination, a file has a source, an implicit directory has none); `SettingsAssumption` (the fields
of the settings; a key file holds finitely many keys); `LengthAssumption` of `HostFiles`. The invariants say, for each
packager, what the archive holds after each content: member by member what the content stands for, its bytes those of
one version of its file, and totals that are the sums over the members so far (`ArchFilling`, `DebFilling`,
`IpkFilling`). None of the properties is inductive without that, as they speak of the end. `PromiseInv` relates the
place in the code to how much has been written, `SourceInv` the tarball of a source package to its spec.

**Apk** (`ApkPackageProofs`), for every block size and buffer, every list and a host that changes:

| theorem | says |
|---|---|
| `ApkTypes` | `Spec => []TypeOK`: the buffer never holds more than it can |
| `ApkDigests` | `Spec => []DigestsChain`: the digests are those of the segments that are written, and the installed size is the number of bytes of files in the data segment |
| `ApkPromiseKept` | `Spec => KeepsPromise` |
| `ApkReadsAsOneTar` | `Spec => []ReadsAsOneTar`: whoever reads the segments one behind the other as one tar finds the signature, `.PKGINFO`, the scripts and every content, in this order, and then the end; and the end is at a block boundary |

Assumptions: the `InputsAssumption` of `ApkPackage` (names of members are not what files hold or tars are filled with)
and `BlockAssumption` (sizes are positive, and the buffer holds what the `Close` of a tar writes, the rest of a block and
two blocks: 4096 and 512 in the code). `ApkInv` counts: what a segment has taken (written, digested or still in the
buffer) and what its last member is still owed make the size so far (`DataInv`); what was digested is what was written
(`Made`). `TarInv` is about what the bytes say: whenever the segment waits for nothing, what it has taken, its last block
filled up (`Whole`), is a `Tar` of the members so far, that is, headers at places each of which is where the member before
it ends; and each finished segment is such a tar, the last one with two zero blocks behind it. `SegmentEnds` is where the
size of the buffer matters: after the flush the `Close` writes to the buffer alone, so a cut segment ends with its
members. `JoinTars` puts tars one behind the other, and `TarIsRead` says that the reader finds what is in them.

**Command** (`PackageCmdProofs`), for every set of requests, packagers and paths and any number of runs:

| theorem | says |
|---|---|
| `CommandTypeCorrect` | `Spec => []TypeOK` |
| `ReportsAreTrue` | `Spec => []ReportedIsThere`: exit status 0 means that a package of this run is there, the whole of it unless the packager streams (archlinux) |
| `FailuresCleanUp` | `Spec => []FailureLeavesNoPart` |
| `EarlierPackagesAreSafe` | `Spec => []EarlierPackagesSafe`: only an accepted run loses the package of an earlier one, and only at the path it opened; what only `Package` refuses is found after `os.Create` |

Assumptions: `BoundAssumption` (the number of runs is a natural number) and `PathsAssumption` (the named path and the
conventional one of each request are among the paths). `ReportedIsThere` is not inductive; the invariant ties the path
to the packager: while the packager runs, the target holds exactly what it has written, its verdict decides where the
command goes, and all other paths hold what the run found there.

**Inductions.** The models are built from recursive functions: cleaned paths, spellings, the files of an archive, sums
of lengths, bytes. The library's induction theorems cannot be instantiated here, so `TarStreamProofs` has its own way:
a set of numbers that is not empty has a least element (`LeastElement`), and a function given by its first value and
its steps exists and is unique (`Counting`). To make that possible such a function has a name (`CleanAbsUpTo`,
`SpellingUpTo`, `TextUpTo`, `LeftUpTo`, `ControlUpTo`, `ConcatUpTo`, `Stops`, `FilesUpTo`, `Sums`) and its last value another.

**Only model-checked.** `NamesTellVersions` compares texts of versions, which only an instance can enumerate.
Liveness (`Returns` of the command) needs fairness and `ENABLED`, which are beyond the provers.

## 5. What is not modelled

- The packager registry: its packagers register in package initialisers, one after the other and before `main`.
  That `Get` and `Validate` read the map without the lock (`nfpm.go:57`) could only meet a program that registers
  packagers of its own later; here the registered formats are a constant.
- Decoding YAML, the expansion of variables inside scalar fields, and the checks of single fields (`Validate`'s
  identities, file names, URLs). What the merge library does to the fields of an override other than lists and
  contents; the key ids that `Get`'s copies share by pointer are only read.
- The text of control files, descriptions, changelogs and scripts, where nothing has to agree with it.
- What the libraries do: archives, compression, signatures, the writers of rpm and msix, the walk, the patterns.
- The names of ipk (spelled as those of deb), srpm and msix, and the characters archlinux strips from a name.
- Modification times: which of several times is set decides (`modtime.Get`); an entry has one time, a constant.
- The other commands (`init`, `docs`, `jsonschema`) and deprecation notices print text.
- A target inside a tree or a glob of its own contents (`package.go:103`): the files the command writes and those
  the preparation walks over are not one host here. The
  packager guessed from the extension of the target (`package.go:72`): the extension is an input of the command.

Disagreements between code and comment met on the way that have no run:

- an implicit directory that came from a tree is lost when the result is prepared again, against the comment at
  `files.go:291`;
- a prerelease "is appended to the version" (`configuration.md:53`), but `.PKGINFO` has it only if there is an epoch
  (`arch.go:293`): the archlinux packages of 1.0.0-rc1, 1.0.0-rc2 and 1.0.0 all state the version 1.0.0-1, under
  three names; and where it is in the name it is joined without a mark, so that the version 1.0.0rc1 and the
  prerelease rc1 of 1.0.0 have one name. `NamesTellVersions` leaves these out and says so;
- a `readme` is flagged as one in the binary rpm, while the spec of the source package lists it as `%doc`
  (`spec.go:166`), against "reproduces the binary RPM" (`spec.go:15`); `RebuildReproduces` says so;
- a symlink has mode 0 in the header of the binary rpm (`rpm/files.go:92`), while the spec leaves its mode to the disk
  (`spec.go:153`), where the link of the tarball is made with 0777 (`srpm.go:157`); `RebuildReproduces` says so;
- "we should notify the user" of a changelog that is not there (`nfpm.go:325`), which fails if it vanishes between
  the look and the parser (`nfpm.go:328`); `ChangelogNotForgotten` leaves out this case alone and says so;
- the dpkg-sig method signs as `builder` by default, against `nfpm.go:467`.

## 6. Plan

1. `PackageCmd` on `HostFiles`, with a tree that contains the target, composed with `ArchPackage`'s streaming.
2. `Packagers` with the apk, its bytes replaced by their lengths, which `ApkPackageProofs` allows.
