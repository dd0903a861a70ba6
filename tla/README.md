# Specifications of praxik/buildtools

`buildtools` builds the third-party dependencies of a C++ product line. Its own
program is one shell script, `scripts/deps_auto_build/build.sh`, which is given
the names of packages, sources a description of each (`<package>.build`) and
fetches, configures, builds, cleans, tags and packs it. The rest of the tree is
what the script needs: the descriptions, CMake find modules, and `patches/`, the
files that replace or extend files of the packages once they are fetched. Some
of these are programs of their own with hard concurrent or failure behaviour.

This directory specifies the parts of the repository that keep state. Line
numbers refer to the repository's files.

## 1. The system

| component | state it keeps | operations | what makes it correct |
|---|---|---|---|
| **build.sh, source retrieval**: `source_retrieval()` and the checkout and update phases of `e()` (500-746) | on disk and across runs: `BASE_DIR`, the directory an archive unpacks to, the archive; in a run: the mirror index | wget/curl over mirrors, unpack, rename, clone, pin, `POST_RETRIEVAL_METHOD`, pull | later phases find the whole tree, patched once; trying again after an interruption gets further |
| **build.sh, one run** (everything else) | the shell variables that `.build` files assign, options, working directory, exported `*_INSTALL_DIR`, `DEPS_INSTALL_DIR` | `-F` loop, `export_config_vars`, main loop, phases `-k -u -p -b -c -t -d -g` | a package is built with its own values; the exit status tells what happened; nothing is silently left out |
| **VR Juggler pipe**: `patches/vrjuggler/Pipe_flip.cpp` | three lists of windows with their locks, four semaphores, thread flags | `start`, `stop`, `addWindow`, `removeWindow`, `triggerRender` ... `completeSwap`, `controlLoop` | all pipes render before any swaps; no window is lost; frames and `stop()` come to an end |
| **OcclusionQueryNode**: `patches/osg` | per context a query and its last result, the cache of deleted queries, frame numbers per camera | draw, retrieve and clear callbacks, `getPassed`, `traverseQuery`, release, flush | a visible node is not culled because a result is late; a query object is deleted once |
| **updatetoms.py**: `patches/ledaps/ledapsAncSrc` | the yearly directories of ozone files, the download directory | choose sources, download, convert each day | a day's file is replaced only by what this run downloaded for it |
| **lndpm**: `patches/ledaps/ledapsSrc/src/lndpm` | the parameter files of a scene | search the ancillary directory, convert dates, write | the file found is that of the scene's day, and still there when lndsr opens it |
| **lndcal and lndsr input**: `.../lndcal/input.c`, `.../lndsr/input.c` | the open files of a scene | read the XML, open, read lines, close | opening ends in one of the ways it describes, or it is known when it does not |
| **lndsr**: `.../lndsr/lndsr.c`, `sixs_runs.c` | 6S command and output files, tables, rotating mask buffers, a temporary file, the output bands | run 6S, four passes over the image, publish | tables and masks belong to the scene and line they are used for; what is published is whole |
| **EnvironmentBuilder**: `patches/scons-addons` | levels and tags of a build environment | `enable*`, `disable*`, `clone`, options, registered functions | the flags are those the last calls asked for |
| **ODBC Binder**: `patches/poco` | buffers bound to a statement | `bind`, `synchronize`, free | each buffer freed once, read back to its own value |
| **Windows replacements, map projection, build data** | see `PROJECT.json` | | |

How they interact: `e()` calls `source_retrieval()`, and the tree on disk is all
that passes between a run and the next. `e()`, the `-F` loop and the export loop
share one set of global shell variables, which `unsetvars()` clears in part. A
kernel thread, application threads and one control thread per pipe share the
lists and semaphores of the pipes, and all pipes share `mDrawMgrWinLock`.
`updatetoms.py` writes the files that `lndpm` looks for by name, `lndpm` the
parameter files that `lndcal` and `lndsr` read, `lndcal` the TOA products that
`lndsr` opens through the scene's XML file; `lndsr` and the 6S program it calls
pass files in the working directory. Files under `patches/` reach a package
through its `POST_RETRIEVAL_METHOD`.

Hard behaviours, each at its line under "hazards" in `PROJECT.json`:

* *interruption and retry* (source retrieval): what a run leaves half done is
  judged by the next run from the existence of a directory or a file alone;
* *stale state* (one run): values of one `.build` file used for another, in the
  order of a hash table;
* *partial failure* (one run): `set -e` ends everything at the first failure;
* *interleaving, ordering, deadlock, liveness* (pipes): size tests without the
  lock, lists emptied as a whole, flags polled by another thread, one lock for
  all pipes, a cluster that makes the loop skip the semaphores;
* *stale results, interleaving* (occlusion query): a cull decides on the answer
  to an older query, several cameras share `_passed`, a context may be released
  at any time between two draws;
* *partial failure, crash recovery* (ledaps): external commands whose failure is
  a warning, files of runs cut short, two programs at work on one directory, an
  error path that closes what it could not open;
* *ordering* (lndsr): masks written one block behind through three buffers and
  read back in a different unit.

## 2. Modules

| module | what it is |
|---|---|
| `SourceRetrieval` | one package's tree on disk, over any number of runs that may fail or be interrupted |
| `SourceRetrieval_proofs` | theorems about it |
| `BuildScript` | one run of the script over several packages |
| `BuildScript_proofs` | theorems about it |
| `FrameSync` | abstract: what pipes owe the kernel that drives them |
| `Pipe` | the pipes, the threads that use them, `stop()`; implements `FrameSync` |
| `Pipe_proofs` | the refinement and the frames: which token is where |
| `PipeWindows_proofs` | theorems about the windows and `stop()` |
| `OcclusionQuery` | one occlusion query node, its cameras and the viewer's threads |
| `OcclusionQuery_proofs` | theorems about types and the ownership of query objects |
| `OcclusionEvidence_proofs` | theorems about what a cull decides on |
| `Calendar` | days of the year as `updatetoms.py`, `lndpm` and the calendar count them |
| `UpdateToms` | runs of `updatetoms.py` over the ozone directory |
| `Ancillary` | `lndpm` and the opening of ozone in `lndsr`, composed with `UpdateToms` |
| `Ancillary_proofs` | theorems about the calendar and both programs |
| `LandsatInput` | reading a scene's XML and opening its files, for `lndcal` and `lndsr` |
| `SurfaceReflectance` | several `lndsr` processes on scenes that `lndcal` calibrated, over `LandsatInput` |
| `SurfaceReflectance_proofs` | theorems about it |
| `MC*` | values of the constants for TLC |

Definitions named `X_Something` before a definition `Something`, or `Something_How`,
are variants of it with a plausible mistake; they show that a property notices it and are used by nothing
else.

### SourceRetrieval

A directory or file is reduced to how much of its content is there (`Absent`,
`Partial`, `Unpinned` for a clone before `git checkout ${GIT_HASH}`, `Torn` for a
working copy between two revisions, `Complete`). `base` is `BASE_DIR`, `top` is `PACKAGE_BASE_DIR_NAME` beside it,
`archive` is `TEMPBASENAME`, `locked` the lock of an svn that was killed at work.
Everything that takes time is a begin and an end
action, so `Interrupt` (SIGINT, kill, power) and a failing command (`Fault`) can
come in between. `Die` is `set -e`.

| actions | lines |
|---|---|
| `StartRun`, `Interrupt`, `FinishRun` | a run is started with any of `-k`, `-u`; ends early; reaches the end |
| `Enter` | 508-511 and 557-567: the case on the method; "already downloaded" |
| `BeginFetch`, `EndFetch` | the mirror loop; wget saves beside an existing file, curl over it (`Clobber`) |
| `BeginUnpack`, `EndUnpack`, `Cleanup`, `Publish` | one branch for each `SOURCE_FORMAT`: `mv` before `rm` for a zip, `rm` before `mv` for a tar ball |
| `BeginClone`, `EndClone`, `Pin` | svn, hg and git |
| `BeginPost`, `EndPost` | `POST_RETRIEVAL_METHOD`, run by `-k` only |
| `Update` | 692-746: the update phase, which checks out where there is no `BASE_DIR` |
| `BeginPull`, `EndPull` | `svn up`, `hg pull` and `hg update`, `git pull`, cut short at any point |

A descriptor says what a `.build` file says: method, format, whether the
archive's own top directory is `BASE_DIR`, mirrors and whether they use the
first one's file name, whether `POST_RETRIEVAL_METHOD` can be repeated, whether
a revision is fixed. Modelled from their use: wget, curl, tar, unzip, 7z, svn,
hg, git. In particular `svn co` takes up an interrupted checkout, and updates a
whole one, but a killed svn may leave a lock that every later svn refuses until
someone runs `svn cleanup`; `git clone` removes what it created when it fails (but
not when it is killed); an update first fetches, then changes files, so that one
cut short leaves `Torn`, and `git pull` on the detached HEAD of a `GIT_HASH` fails
at once; `tar k` refuses existing files, unzip and 7z ask about them. Of `xz -cd |
tar` the script sees the status of `tar` only (there is no `pipefail`), and of a
self-extracting `.bin` that of its last command: on part of an archive either may
fail or not (`Unreliable`).

### BuildScript

A shell variable is reduced to its *provenance*: the set of `.build` files whose
assignments make up its value. That is all the properties tell apart, and it is
what goes wrong when sourcing many files into one shell. `env` is the shell,
`touched` records which file's value of which variable a command for which word
used, `exists` the directories there are, by variable and file.

| actions | lines |
|---|---|
| `Validate`, `EndValidate` | `-F`, without `unsetvars` in between |
| `CheckArguments` | the check for a package |
| `Export`, `EndExports` | `export_config_vars`, in any order of the files |
| `NextWord`, `Finish` | the main loop with its `cd`, the head of `e()` |
| `Checkout`, `PostRetrieval`, `Update`, `Prebuild`, `Build`, `Clean`, `Ctags`, `Installer`, `AutoInstaller`, `AutoLoop` | the phases of `e()` in their order |

`Retrieved` stands for `source_retrieval` as its caller sees it. A build file is
what it assigns (`Defs`), which of that it appends to (`Appends`), what it unsets
(`Clears`), and which of its directories are `BASE_DIR` itself (`InBase`);
`Source` applies it. A directory named from `${BASE_DIR}` in a file that assigns
no `BASE_DIR` comes from the file that did. `overridden` are the names that
`BUILD_FILES_PATH` holds too: the script then joins two paths and can read
neither. `cd` to an unset variable succeeds in the shell and stays where it is, and
`SOURCE_FORMAT` is among what `unsetvars()` leaves set (`KeptVars`), so that a
package without one may be unpacked as another's (`UsesFormat`). The options that take an argument (`-a`, `-j`, `-i`, `-o`) set
variables that no guard of the model depends on.

### Pipe and FrameSync

One action is one stretch of code between two points where another thread can
make a difference. `ctl[p]` is where the control loop of `p` is; a lock held
over a stretch is in `locked[p]` or is `opener`, the owner of
`mDrawMgrWinLock`; the loops over `mNewWins` and `mClosingWins` take one window
a step. `fate[w]` and `removed` are history: what was asked for window `w` and
what became of it.

| actions | lines |
|---|---|
| `Assign`, `Begin`, `Test`, `Leave`, `Render`, `Swap` | `controlLoop`, 180-293 |
| `CheckClosing` ... `EndClosing` | `checkForWindowsToClose`, 318-364: the size is read before the locks |
| `CheckNew` ... `EndOpening` | `checkForNewWindows`, 366-414 |
| `AddWindow`, `RemoveWindow` | 157-178, any thread |
| `TriggerRender`, `CompleteRender`, `TriggerSwap`, `CompleteSwap` | 127-155, called by the kernel |
| `Snapshot` ... `Join` | `stop()`, 295-316 |
| `StartFrame`, `EndLoop`, `StopAll`, `ClusterReady` | external: VR Juggler's draw manager and cluster manager |

The kernel calls each of the four functions on every pipe before it calls the
next one on any, as the names of the four and the comments at them require, and
stops the pipes after its last frame. A pipe whose `start()` did not return 1 is
not driven and is left out. `AssertionsInFrames` is about the calls of a frame:
the one that `stop()` makes of `triggerSwap` can find `mThreadRunning` reset, and
the model goes on there as a build without assertions does. The flags `mThreadRunning` and `mControlExit` are
unsynchronised `bool`s; every loop over them calls functions of other
translation units, so a read is taken to be of the current value.

`FrameSync` has two variables: the stage the frame is in and what each pipe did
last. `Pipe` maps `kernel` to the stage and "between render and swap" to
`rendered`; `Lockstep == Abstract!Spec` is checked by TLC and proved.

### OcclusionQuery

The cull of a camera is cut where another camera's thread can come in between:
`GetPassed` up to the first write of `_passed`, `CountPixels`, and
`TraverseQuery` with the decision that `getPassed` returns. The draw is cut at
the camera's post-draw callback. `mode` is the viewer's threading model. A pixel
count is above the threshold or not; `of`, `visibleFor`, `raced` and `emptied`
are history: the frame a count answers, for how many frames the node would have
been seen, whether another camera wrote `_passed` meanwhile, whether a release
found nothing to release.

| actions | lines |
|---|---|
| `GetPassed`, `CountPixels` | `OcclusionQueryNode::getPassed`, `getNumPixels` |
| `TraverseQuery` | `traverseQuery` |
| `DrawGeometry` | `ClearQueriesCallback`, `QueryGeometry::drawImplementation` |
| `PostDraw` | `RetrieveQueriesCallback` |
| `ReleaseGLObjects`, `Flush`, `Discard` | `releaseGLObjects`, `deleteQueryObject`, `flushDeletedQueryObjects`, `discardDeletedQueryObjects` |
| `SetQueriesEnabled` | `setQueriesEnabled` |
| `BeginFrame`, `CullSkip` | external: OSG's viewer |

### Calendar, UpdateToms, Ancillary

`UpdateToms` has one action for each place of `main` and `getTomsData` where an
external command runs or the run can be cut short: `Start` (options and the
range of years), `BeginYear` (the download directory is cleaned, the sources are
resolved), `Wget`, `BeginDays`, `NoData`, `Prepare` (choose a file, remove the
day's HDF file), `Convert`, `EndYear`, `EndRun`, `Interrupt`. A file is its
instrument and date, with the run that downloaded it as history.

`Ancillary` runs beside it: `PmStart`, `FindDem`, `FindOzone`, `FindNcep`,
`GiveUp`, `Write` are `lndpm`'s `main`, with `find_file` as the set of matches
(the order of `readdir` is any); `LndsrOpens` is what `lndsr` does with the
`OZON_FIL` line. `Calendar` has `conv_date`, `isLeapYear` and, to compare with,
the calendar itself as sets of dates.

### LandsatInput, SurfaceReflectance

`LandsatInput` has no state: `LndsrXML`, `LndcalXML` are `GetXMLInput` with its
order of checks, `LndsrOpenInput` and `LndcalOpenInput` the set of outcomes of
`OpenInput` (a structure, `NULL`, or the end of the process). A file is the
number of lines it holds, or `Absent`. `Unopened` names what makes opening crash.

`SurfaceReflectance` has `lndcal` as far as its input goes and, in each process,
`lndsr`'s `main` from its arguments to `append_metadata`:

| actions | lines of `lndsr.c` |
|---|---|
| `Start`, `OpenThermal`, `OpenAncillary`, `OpenOutput`, `Allocate`, `ReadAncillary` | 218-662 |
| `WriteCommand`, `RunSixs`, `ReadSixs`, `UnlinkSixs` | 709-773 and `create_6S_tables` |
| `GridCells`, `Pass1Line`, `CreateTemp`, `MaskBlock`, `LastBlock` | 778-1063: snow and water, the first and the second pass |
| `AerosolBlock`, `Coefficients`, `ReflectanceLine` | 1067-1270: the third and the fourth |
| `UnlinkTemp`, `CloseFiles`, `WriteHeaders`, `AppendMetadata` | 1271-1310 |
| `ExitError` | `EXIT_ERROR`, `exit` and a kill, at any place |

A 6S table entry is the command it came from (scene, band, aerosol step), a mask
the line it was computed for, the blocks whose clouds and shadows were cast into it
and the row whose dark targets it got, an aerosol value the thousandths
`update_gridcell_atmos_coefs` looks up; `update_atmos_coefs` and `calcuoz` are pure
operators over the indices they compute. `Retrieved` and `GapFilled` are what `Ar`
and `Fill_Ar_Gaps` answer: their sources are not in the repository.

What is cast into a mask is there for the third pass, which looks for dark targets
away from clouds. To the output the fourth pass takes dark targets, snow and water
from the mask only (`Qa`): it resets the shadow and adjacent-cloud bits, which
"are set again in lndsrbm", and finds clouds anew from the line's own reflectance
and temperature (1230-1243).

`lndsr` itself keeps nobody from a scene: neither a second process nor a further run
on a scene that is published. The first is assumed of whoever starts it (`Free`), as
the names of the 6S files require; the second happens in the model. `unfinished` is
history: the scenes whose output bands were opened, that is truncated, and not
appended to the XML file since. The 6S files are named after the scene; bash creates
the output before 6S starts, so one is left by a run that fails (`Cut`). A scene
whose path, row, satellite or instrument are refused goes on without an acquisition
date, and then its name has in it what memory held (`Dated`, `Date`); the model
takes that for a name of its own.

## 3. What is checked

Every run is exhaustive over the instance given. "Violation" runs show that a
sentence of the repository does not hold of the code.

| run | instance | states what |
|---|---|---|
| `retrieval_wget` | every descriptor (8 formats, 6 methods, 1-2 mirrors, 3 kinds of post method), at most 3 faults, any sequence of runs | `AtomicPublish`: a tar ball unpacked beside `BASE_DIR` never leaves half a tree there. `GuardedCheckoutSound`: what follows `-k` has the whole tree, pinned and patched, and what follows `-u` never one between two revisions. `RemovedOnlyWhenUnpacked`: the archive goes only when its content is out (not of zip, 7z, xz and bin). `OrdinaryFreshRunSucceeds`: nothing but a failing command ends a first run. `NothingUndone`: a tree from an archive or at a fixed revision stays whole through all runs, a working copy that moves is at worst between two revisions, and what a post method that cannot be repeated did stays |
| `retrieval_retry` | the same, downloads that overwrite, 2 faults, fair | `RetryRecovers`: `-k` again and again reaches the later phases, or a killed svn has left its lock |
| `build_linux` | 4 files, 6 command lines, every combination of at most two options and three usual ones, 1 fault | `ResetIsolation`, `OwnValues`: whose values commands use. `ExportsOwn`: the exports do not depend on the order. `NoPackageMissed`: the working directory never hides a package. `HonestStatus`: what exit status 0 means. `OnlyFaultsEndRun`: what is missing skips a package and no more |
| `build_windows` | the same files with the Windows branches, `BUILD_FILES_PATH` empty or with one file of the same name, single options, fair | `OwnValues` again (`ISS_FILENAME` is installed there), `Termination` |
| `build_exports` | one option | violation of `ExportsAlwaysOwn`, see findings |
| `pipe_frames` | 2 pipes, 3 windows (2 + 1) | `Lockstep`; `NothingForgotten`: requests survive the unlocked size tests and the clearing of whole lists; `OneOpensAtATime`; `SwapsWhatItDrew`; `ClosedAfterInit`; `AssertionsInFrames` |
| `pipe_live` | 1 pipe, 2 windows, a cluster not ready at first, fair | `WindowsHandled`, `FrameEnds`, `CaughtIsJoined` |
| `pipe_join` | 1 pipe, 1 window | violation of `StopReturns` |
| `occlusion` | 2 cameras in contexts of their own, one of which may have a callback already, 3 threading models, 6 frames, 2 releases | `CulledOnEvidence`: children are dropped on the answer to the camera's own last query, not an older one, and what the exceptions are. `ReappearsInTime`: a visible node is back within the query interval. `HandleOwnedOnce`: a query object is the node's or waits once for deletion |
| `ancillary` | 3 years (a leap year, the next, one without data), 2 days, 5 directories, 2 updates and 1 scene | `SameDay`: the two programs' days of the year agree. `OzoneUnlessRemoved`: processed scenes have their day's ozone, and climatology or a failure needs an update in between. `BestOfThisRun`, `RemovedOnlyWithData`: a day's file is replaced only from this run's download for that date |
| `surface_reflectance` | 2 processes, 2 scenes, 5 lines in regions of 2, 2 bands of 3 aerosol steps, 19 states of the first scene's files, 3 runs, failures anywhere | `InputsAccounted`: which outcome opening has on which files: `NULL` with nothing open; a structure with everything open; in `lndcal` one without bands, for metadata it cannot identify; a crash, for a missing name, other file or identification. `OwnTables`: 6S tables are the scene's, band by band, and the entries used bracket the value. `MasksInPlace`: the third pass has each line's own mask with the casts of its row and the two beside it, the output its own dark targets and none of the casts. `PublishedWhole`: a published scene has every line and left nothing behind, until a further run opens its output |
| `sr_no_thermal` | 1 process, a scene without thermal band, no failures | violation of `ProcessesWithoutThermal` |

**Bounds.** `MaxFaults`: in `SourceRetrieval` a fault leaves one of a few states
on disk; the second is needed to damage what a first repaired, the third adds
no state of the disk that two do not reach. In `BuildScript` a fault ends the
run, so one is all there can be. Four build files are the fewest with every case
of section 1: one with all variables (osg), one that leaves some unset (poco),
one without `INSTALL_DIR` (proj4rb), one that on Linux has no `BASE_DIR` and on
every platform unsets what `unsetvars()` and `e()` prepared (mingw). What each
assigns is read off the file, on Linux and on Windows. Lines of two words give every "package
before" and "package after". A window is added once and removed at most once: a
`Window` object is not used again, and the lists treat all windows alike; two
windows on a pipe make one arrive or leave while the loop is at the other. Two
pipes are the fewest that can contend for `mDrawMgrWinLock` and be out of step.

`occlusion`: two cameras are the fewest that can write `_passed` at once; with
`_queryFrameCount` 2, six frames hold two whole query intervals and the abnormal
pause. Where frames overlap a node that was hidden when its first query was drawn
and then appears can fail to come back in the sixth frame at the earliest. Its
`Bound` has everything together in mode "single", where a release costs a frame;
in the modes that overlap it has queries enabled, one early release ("overlap") or
none ("threads"), and beyond the fourth frame only the behaviours in which the node
appears to `c1` and stays (`Appears`), whatever `c2` sees. A query asked for one
frame late violates `ReappearsInTime` in each of the three modes. 3,564,054 distinct
states. `ancillary`: the two days are the leap day (March 1st in the year after)
and the last of a leap year; the conversions do not look at more. Its `Bound`
keeps the second update to the complete directory. `surface_reflectance`: five
lines in regions of two make two whole blocks and a short one, so that a block
has one before, one after, or neither; three aerosol steps are the fewest with
an entry that is neither first nor last. Three runs let one fail, one succeed and
one run beside them, or one publish and another fail on the same scene; the third
run is for the scene in order only (`Bound`). 1,557,200 distinct states. An `ASSUME` of its `MC` module checks `calcuoz` for every day
and latitude.

**Deadlock** is checked in `SourceRetrieval`, where a new run can always start.
A run of the script ends, the pipes end when stopped, and the frames, updates,
scenes and runs of the others are bounded, so it is off there;
`Termination`, `FrameEnds` and `CaughtIsJoined` say that they end well.

**Fairness.** `SourceRetrieval`: `WF(Step)`, the shell goes on while its commands
return; `SF(Retry)`, the user tries `-k` again for ever; failures are bounded,
that is, they stop some day. `BuildScript`: `WF(Next)`, one process whose
commands return. `Pipe`: `WF` for the control loop of each pipe (a thread of its
own, whose blocking points are semaphores and mutexes no one holds for ever),
for the kernel's frames and `stop()`, and for the cluster becoming ready, without which
no frame of a cluster can end. Nothing makes anyone add, remove or stop.

## 4. What is proved

With TLAPS, for every value of the constants allowed by the `ASSUME`s.

**SourceRetrieval** (any set of descriptors, either download tool, any number of
faults): `TypeCorrect`, `AtomicPublication`, `CheckoutSound`, `Preservation`,
`UnpackedBeforeRemoved` and `FreshRuns`.
`GuardedCheckoutSound` alone is not inductive: that the tree is whole at
`phases` follows from what held at every earlier place. The invariant is
`IInv == TypeOK /\ Placed /\ Staged /\ Progress /\ Untouched /\ Moved`. `Placed` says
which methods and formats can be at which place; `Staged`, what is in `top` and
`base` between unpacking and renaming; `Progress`, what is whole already at each
place after a retrieval and who called it; `Untouched`, that a post method that
cannot be repeated is never started twice; `Moved`, that only a working copy meant
to move comes between two revisions, and that after an update it no longer is. Each action keeps it, one step of
the proof each. `NothingUndone` is an action property and follows from `IInv` at
the first state of each step. `RemovedOnlyWhenUnpacked` is inductive beside `IInv`
(`UnpackedBeforeRemoved`). `FreshRuns` needs the story of a run that
nothing disturbs: `Smooth` says, place by place, what such a run has on disk, and
`Applied` that patches go with the tree. It uses the last part of
`DescriptorsAssumption`: the file that wget saves for the first URL is the one
the script unpacks, as both take the name from that URL (lines 568 and 573).

**BuildScript** (any build files, command line, set of options, list
`VES_PACKAGES` and number of faults): `TypeCorrect`, `Isolation`, `Ownership`,
`Exporting`, `Attention`, `Endings` and `Honesty`, that is, every invariant the
runs check. They rest on three assumptions. `FilesAssumption` and `RunAssumption` say what the
constants range over. `DescriptionAssumption` says that every build file assigns
`PACKAGE_NAME`, and `BASE_DIR` if it assigns `BUILD_DIR` or `INSTALL_DIR`;
sourcing each of the 94 files in a shell of its own, on each of the three
platforms, shows it of them. Without it `ResetIsolation` and `ExportsOwn` are
false, since a directory named from `${BASE_DIR}` would be another package's.
The invariant adds four parts to the properties. `Control` relates the place in
the run to the words done, the working directory, the status and the `-g` loop.
`Shell` says that while a package is worked on the shell is `Pure`: what
`unsetvars()` clears comes from that package, and so does the rest if its file
assigns all of it. `Exported` is `ExportsOwn` for the files the export loop has
visited, and `Gathered` the same for the `-g` loop. Most phases differ only in
what they use and how they can end; `PhaseKeeps` is the one argument for all of
them, and each phase is shown to be a `PhaseStep`: it goes on to another phase,
ends its word, or ends the run, and what it used is the package's own.

**Pipe** (any pipes, any windows, cluster or not): `OneOpening` and
`PipeRefinesFrameSync`. The refinement needs to know, for each pipe, in which of
its semaphores the one token of the frame is, given where the kernel and the
control loop are: `FrameInv` does that by counting, `Count(p)` in the proof
module. With it a pipe renders only when the kernel is in the render half, and
the kernel's loops end only when every pipe did its part. Once the kernel stops
pipes, `FrameSync` promises nothing, so `FrameInv` is about frames only. `IInv ==
Types /\ FrameInv /\ OneOpensAtATime`; `Types` is the part of `TypeOK` that the argument
uses.

`PipeWindows_proofs` goes on with `TypeCorrect`, `RequestsKept`, `SameWindows`,
`InitBeforeClose` and `AssertionsHold`, which makes every safety property of the
pipes a theorem. Its invariant adds five parts to `IInv`. `Typed` is the rest of
`TypeOK`. `StopInv` counts the tokens that `stop()` leaves: without it nothing
bounds the semaphores once the frames are over. `ThreadInv` relates the flags of
a thread to its place. `ListInv` carries the argument about windows: which locks
are held in a loop, that no list holds a window twice (`NoDup`; otherwise erasing
one occurrence would leave another behind), which window may be in which list
(`Listed`), and `Kept`, `NothingForgotten` for one window. `DrawInv` says that
between drawing and opening, outside a cluster, no open window is `dirty`.

**OcclusionQuery** (any cameras on any contexts, any names of query objects,
any number of frames and releases): `TypeCorrect` and `OwnedOnce`. The invariant
is `Typed /\ Ownership`. `Typed` adds to `TypeOK` the types of what it leaves out
and `Queued`: a camera with a second frame to draw is culling it, or has just
culled it, which is what bounds the undrawn frames by two. `Ownership` adds to
`HandleOwnedOnce` that an initialised result has a name of its own context
(`Bound`): without it a release could clear `_init` of a result whose handle it
does not find. That a flush deletes from the front of a list without
duplicates, so that what it deletes is not in the rest, is the lemma
`SplitRange`. The only assumption is `QueryAssumption`: `QueryFrameCount` is at
least 1, and OpenGL names no query object 0.

`OcclusionEvidence_proofs` proves the two action properties, `CullsOnEvidence`
and `BackInTime`, for cameras with a context each (`OneCameraEach`, a hypothesis
of both and true of the instance checked). The result belongs to the context: of
two cameras on one, either may drop the node on the answer to the other's query,
so without it both properties are false. `Evidence` follows a camera's last query
from the recorded job (`Recorded`) through OpenGL (`Retrieving`) to the answer
(`Answered`), and keeps what the counts said until `getPassed` returns
(`Hidden`). `Timing` is about the last `visibleFor` frames: all of them were
traversed within the interval (`Traversed`), every job and answer from them says
visible (`Truthful`), an answer is there once nothing is out (`Returned`), and
with a query out the answer before it is at most one interval older
(`Interval`). What another camera does changes `passed` and `raced` only.

**Calendar, UpdateToms, Ancillary** (any years, any days of them, any contents of
the ancillary directory, any number of runs of both programs): `TypeCorrect`,
`DaysAgree`, `BestFileConverted`, `ReplacedFromDownload`, `OzoneFound`. `DaysAgree`
compares two computations. What the calendar says is a number of dates, so its
lemmas number the dates of a year (`Number`: the lengths of the months before, plus
the day), show that the numbers follow the order of the dates (`NumberOrder`) and
leave no gap (`NoGap`), and so give a bijection with `1 .. n` (`Counted`). That sum is
what `conv_date` adds up (`DaysOfSums`), and what it takes apart again (`ConvDate`).
For `updatetoms.py`, `AtWork` says that in a year under way every download is this
run's and from the year's sources, which is why a file that a run cut short left
behind is never converted; `Converting`, that the file chosen is the best of them.
For `lndpm`, `HasOzone` says that a file it has found is still there or `vanished`
records the update that took it. The assumptions give the constants their types,
and that there is a day to process (`UpdateAssumption`, `AncillaryAssumption`).

**SurfaceReflectance** (any scenes and state of their files, any number of processes,
runs, 6S bands, optical thicknesses and lines of a region, failures anywhere):
`TypeCorrect`, `OpenFilesKnown`, `TablesOwned`, `MasksPlaced` and `WholePublished`.
`IInv` has, beside types (`Typed`) and what is published and not opened again
(`Finished`), one part for each thing a process carries through the run:

* `Unique`: no two processes are at work on a scene, and a run's number is its
  own, so that nobody else touches the 6S files and the temporary file of a run;
* `Held`: what is open at which place, that the image has the lines the metadata
  give it, and that the scene is `unfinished` from the opening of its output on;
* `Tables`: the tables are filled in the order of bands and thicknesses (`Filled`),
  and from `bash` to `read` the 6S files hold this run's own command and answer,
  whatever an earlier run had left there;
* `Aerosols`: the row that the third pass is at, and that every entry chosen so far
  brackets its thickness;
* `Masks`: `MasksInPlace` speaks of lines written; what makes it inductive is where
  the masks were before. Before row `k` of the second pass the three buffers hold
  rows `k - 1`, `k` and `k + 1`, with what the rows before `k` cast (`Buffered`),
  and the temporary file the rows up to `k - 1` (`SavedRows`); the third pass adds the
  dark targets of the rows it has reached (`Saves`);
* `Writes`: what is written of the output by the fourth pass.

`Others` carries all of it over the steps of other processes. Why a program dies of
its input needs a second invariant, `Accounted`: `Grounds(p)` keeps why a run died or
warned, and until the thermal band is opened that the scene's metadata could be read
(`Readable`); most steps of a run do nothing to that (`Onward`). `Known(s)` is the
same for `lndcal`. `SurfaceAssumption`
types the constants and orders the thicknesses, as `Brackets` needs. `InputsAssumption`
types scenes and files, and says that no two scenes share everything
their 6S file names are made of (`NameOf`), undated ones included: the satellite, instrument, date and
path and row of an acquisition. Two runs on one acquisition in one directory would
share the 6S files, and `OwnTables` would be false.

With this every invariant and every action property that the runs check is a
theorem, and so is the refinement of `FrameSync`.

Only model-checked: the liveness properties (`RetryRecovers`, `Termination`,
`WindowsHandled`, `FrameEnds`, `CaughtIsJoined`), out of reach of the prover; and
that `calcuoz` finds the month and latitude around a scene, an `ASSUME` over every
day and latitude in `MCSurfaceReflectance`.

## 5. Findings

Each is a run that ends in the behaviour described.

1. `build.sh:1144`: a file without `INSTALL_DIR` is exported with that of the
   file before it (`build_exports`).
2. `Pipe_flip.cpp:131`: `stop()` waits for `mThreadRunning`, which the control loop may
   have reset for good after it saw `mControlExit` (`pipe_join`). `CaughtIsJoined`
   is the part that does hold.
3. `lndsr.c:1170`: a scene without thermal band, "Processing without." it, ends
   in the fourth pass, which alone does not ask whether there is one
   (`sr_no_thermal`).

The models have the following as well; the properties are stated around them, and
the conditions in their definitions name them.

* `build.sh:560`: existence of `BASE_DIR` is a finished download. For a tar ball
  whose top directory is `BASE_DIR` (geos, tiff), one interrupted in `tar` is too.
  `AtomicPublish` and `GuardedCheckoutSound` are about the others (`TarStaged`,
  `Guarded`).
* `build.sh:580`: a zip whose top directory is `BASE_DIR` (boost) is moved into
  itself and the first checkout fails (`Ordinary`).
* `build.sh:697-733`: an update cut short leaves the working copy between two
  revisions. A later `-u` or, for svn, `-k` repairs it, or fails; a run with neither
  builds it (`GuardedCheckoutSound`). A killed svn may also leave its lock, and
  nothing in the script runs `svn cleanup` (`RetryRecovers`).
* `build.sh:615`, `619`: part of an xz archive or of a `.bin` may pass for unpacked,
  and the file is then removed (`RemovedOnlyWhenUnpacked`).
* `build.sh:713`: the checkout of `-u` leaves out `POST_RETRIEVAL_METHOD`.
* `build.sh:367`: `rm` without `-f` fails where there is no tag file yet.
* `build.sh:435`: a file that `BUILD_FILES_PATH` overrides is looked for under
  two paths run together.
* `Pipe_flip.cpp:146`: `triggerSwap` asserts `mThreadRunning`, which the control loop
  may reset while `stop()` calls it (`AssertionsInFrames` is about frames).
* `OcclusionQueryNode.cpp`: `_passed` is shared by all cameras (`raced`); when
  frames overlap, the frame after a query was recorded is decided without its
  answer, so that a node that was hidden at its first frame, or whose last
  answer is old, may be dropped for one frame; a second `releaseGLObjects` of a
  context puts the same handle into the cache again (`emptied`); the constructor
  leaves `_passed` unset (never read before it is written). Two cameras in one
  context share its result, and either may decide on the other's answer.
* `lndpm.c:239` says that climatology is used where there is no ozone file; the
  search before it has made a missing one an error, so climatology is reached
  only when an update removes the file in between (`OzoneUnlessRemoved`).
* `lndsr/input.c:134`, `lndcal/input.c:137`: `OpenInput` calls `fclose` on the
  file it could not open (`Crashed`), where its description says `NULL`.
  `InputsAccounted` states when, not that it does not happen.
* `GetXMLInput` returns `true` from its error exits: a scene with an invalid
  satellite gives `lndcal` a structure without bands, one with an invalid
  combination of satellite and instrument goes on without an acquisition date; the 6S
  files of such a scene are named after what memory held.
* `lndsr.c:331`: a further run on a published scene truncates the bands its XML file
  lists before it can know that it will end well; when it fails they stay so
  (`unfinished`).
* `calcuoz` returns -1 from 80 degrees of latitude on, and its caller takes that
  for the amount of ozone.
* `lndsr.c:673` prints, and 1360 frees, ozone data that a run without an ozone
  file never set; `input_b6` is never closed; `set_sixs_path_from` looks at the
  result of a `stat` that may have failed (`SixsPathRight`).

## 6. Not modelled

What the phases of `e()` build, the flags, URLs and file names of the
descriptions; the drawing in `renderWindow`; CMake files, find modules, project
files and makefile fragments (data for other programs); the map projection
(floating point, one point at a time); third-party code carried along (getopt,
dirent, mkstemp).

Of `lndsr`: the values it computes (reflectance, interpolation, the elevation
model's indices), the growth of masks by five pixels within a line, clouds found anew in the fourth pass,
the output of 6S when part of it is missing, code under `SAVE_6S_RESULTS` and
`DEBUG_`, two processes at work on one scene at a time (`Free`), and what `Ar`,
`Fill_Ar_Gaps` and the cloud detection do, whose sources are not here. Of `updatetoms.py`:
two runs at the same time in one working directory, and `cleanTomsTargetDir`,
which nothing calls.

`EnvironmentBuilder` is a sequential builder of flags: what could go wrong is in
the flags of each compiler, which are data, and in one pair of calls, listed as a
hazard. `Binder` is one class of a library whose other classes decide who owns
its buffers and are not in the repository. `PROJECT.json` lists each component
with its reason.

Not stated as an implementation: that `Retrieved` in `BuildScript` allows what
`SourceRetrieval` does to a package in one run. The first has one step where the
second has many runs, and they share only "the tree is there".
