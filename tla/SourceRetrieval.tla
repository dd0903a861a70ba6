-------------------------- MODULE SourceRetrieval --------------------------
(***************************************************************************)
(* The source tree of ONE package on disk, over any number of runs of      *)
(* scripts/deps_auto_build/build.sh that may fail or be interrupted at any *)
(* point.  The module models the function source_retrieval, the checkout   *)
(* (-k) and update (-u) phases of e() that call it, and nothing after      *)
(* them: pc = "phases" stands for prebuild, build and the rest, which read *)
(* the tree.                                                               *)
(*                                                                         *)
(* Directories and files are abstracted to how much of their content is    *)
(* there.  A step of the script that takes time (a download, an unpacking, *)
(* a clone) is a begin action and an end action; Interrupt may come        *)
(* between any two actions.                                                *)
(***************************************************************************)
EXTENDS Naturals

CONSTANTS
  Descriptors,  \* the .build files considered, see Descriptor
  Clobber,      \* the download tool overwrites an existing file (curl -O);
                \* FALSE: it keeps it and saves to "name.1" (wget)
  MaxFaults     \* bound on the failures and interruptions of a behaviour

Absent   == "absent"
Partial  == "partial"    \* created, not (or not known to be) all there
Unpinned == "unpinned"   \* a whole clone, GIT_HASH not checked out yet
Complete == "complete"
Torn     == "torn"       \* a working copy between two revisions

SvnMethods == {"svn", "private-svn"}
VcsMethods == SvnMethods \cup {"hg", "git"}
Methods == VcsMethods \cup {"wget", "other"}
Formats == {"zip", "zipdir", "tgz", "bz2", "7z", "xz", "bin", "other"}

(* What a .build file says of the package.  "zipdir" is SOURCE_FORMAT=zip  *)
(* with EXDIR set; landsInBase: what the archive unpacks is BASE_DIR       *)
(* itself and not a directory that has to be moved there; named: the       *)
(* elements of SOURCE_URL with the basename of the first; post: no         *)
(* POST_RETRIEVAL_METHOD, one that can be repeated (cp -R), or one that    *)
(* cannot (mv, git checkout -b); fixed: GIT_HASH or SOURCE_REVISION set.   *)
Descriptor ==
  [method: Methods, format: Formats, landsInBase: BOOLEAN,
   urls: {1, 2}, named: SUBSET {1, 2},
   post: {"none", "repeatable", "once"}, fixed: BOOLEAN]

ASSUME DescriptorsAssumption ==
  /\ Descriptors \subseteq Descriptor
  /\ \A d \in Descriptors : 1 \in d.named /\ (d.format = "zipdir" => d.landsInBase)
ASSUME BoundAssumption == Clobber \in BOOLEAN /\ MaxFaults \in Nat

VARIABLES
  desc,     \* the package's descriptor, never changed
  flags,    \* the options of this run among -k and -u
  pc,       \* where the run is
  caller,   \* the phase of e() that called source_retrieval
  url,      \* index i of the mirror loop
  base,     \* BASE_DIR
  top,      \* PACKAGE_BASE_DIR_NAME, what the archive unpacks beside it
  archive,  \* the file TEMPBASENAME in DEV_BASE_DIR
  saved,    \* the download in progress is written to TEMPBASENAME
  locked,   \* svn was killed at work in BASE_DIR and left its lock there
  patched,  \* how much of POST_RETRIEVAL_METHOD has been applied to base
  result,   \* how the last run ended
  fresh,    \* DEV_BASE_DIR held nothing of the package when the run began
  faults    \* failures and interruptions so far

disk == <<base, top, archive, locked, patched>>
vars == <<desc, flags, pc, caller, url, base, top, archive, saved, locked,
          patched, result, fresh, faults>>

Locations == {"idle", "enter", "fetch", "fetching", "unpack", "unpacking",
              "publish", "cleanup", "clone", "cloning", "pin", "post",
              "posting", "update", "pulling", "updating", "phases"}

Init ==
  /\ desc \in Descriptors
  /\ flags = {} /\ pc = "idle" /\ caller = "k" /\ url = 1
  /\ base = Absent /\ top = Absent /\ archive = Absent /\ saved = FALSE
  /\ locked = FALSE /\ patched = "no"
  /\ result = "none" /\ fresh = TRUE /\ faults = 0

(***************************************************************************)
(* The control of e(): -k, then POST_RETRIEVAL_METHOD, then -u, then the   *)
(* phases.  set -e ends the run at the first command that fails.           *)
(***************************************************************************)
AfterCheckout == IF "u" \in flags THEN "update" ELSE "phases"

\* Where source_retrieval returns to: the update branch calls it without
\* running POST_RETRIEVAL_METHOD afterwards.
Return ==
  IF caller = "u" THEN "phases"
  ELSE IF desc.post # "none" THEN "post" ELSE AfterCheckout

Goto(l)  == pc' = l /\ UNCHANGED result
Die      == pc' = "idle" /\ result' = "failed"     \* set -e
Fault    == faults < MaxFaults /\ faults' = faults + 1
NoFault  == UNCHANGED faults

StartRun ==
  /\ pc = "idle"
  /\ flags' \in SUBSET {"k", "u"}
  /\ pc' = IF "k" \in flags' THEN "enter"
           ELSE IF "u" \in flags' THEN "update" ELSE "phases"
  /\ caller' = "k"
  /\ result' = "none"
  /\ fresh' = (base = Absent /\ top = Absent /\ archive = Absent)
  /\ UNCHANGED <<desc, url, disk, saved, faults>>

\* Mutant: "already downloaded" also skips POST_RETRIEVAL_METHOD.
Enter_SkipsPost ==
  /\ pc = "enter"
  /\ \/ desc.method \in VcsMethods /\ Goto("clone")
     \/ desc.method = "wget" /\ base # Absent /\ Goto(AfterCheckout)
     \/ desc.method = "wget" /\ base = Absent /\ Goto("fetch")
     \/ desc.method = "other" /\ Goto(Return)
  /\ url' = 1
  /\ UNCHANGED <<desc, flags, caller, disk, saved, fresh, faults>>

\* The case on SOURCE_RETRIEVAL_METHOD.
Enter ==
  /\ pc = "enter"
  /\ \/ desc.method \in VcsMethods /\ Goto("clone")
     \/ desc.method = "wget" /\ base # Absent /\ Goto(Return)
     \/ desc.method = "wget" /\ base = Absent /\ Goto("fetch")
     \/ desc.method = "other" /\ Goto(Return)
  /\ url' = 1
  /\ UNCHANGED <<desc, flags, caller, disk, saved, fresh, faults>>

(***************************************************************************)
(* wget: the mirrors in turn, the first that answers ends the loop.        *)
(***************************************************************************)
BeginFetch ==
  /\ pc = "fetch"
  /\ saved' = (url \in desc.named /\ (Clobber \/ archive = Absent))
  /\ archive' \in IF saved' THEN {archive, Partial} ELSE {archive}
  /\ Goto("fetching")
  /\ UNCHANGED <<desc, flags, caller, url, base, top, locked, patched, fresh, faults>>

\* Mutant: the last index of the mirrors is one too high.
EndFetch_OneTooFar ==
  /\ pc = "fetching"
  /\ \/ /\ archive' = IF saved THEN Complete ELSE archive
        /\ Goto("unpack") /\ NoFault /\ UNCHANGED url
     \/ /\ Fault
        /\ IF url <= desc.urls THEN Goto("fetch") /\ url' = url + 1
                               ELSE Die /\ UNCHANGED url
        /\ UNCHANGED archive
  /\ UNCHANGED <<desc, flags, caller, base, top, saved, locked, patched, fresh>>

EndFetch ==
  /\ pc = "fetching"
  /\ \/ /\ archive' = IF saved THEN Complete ELSE archive
        /\ Goto("unpack") /\ NoFault /\ UNCHANGED url
     \/ /\ Fault
        /\ IF url < desc.urls THEN Goto("fetch") /\ url' = url + 1
                              ELSE Die /\ UNCHANGED url
        /\ UNCHANGED archive
  /\ UNCHANGED <<desc, flags, caller, base, top, saved, locked, patched, fresh>>

(***************************************************************************)
(* Unpacking.  Dest is the directory the archive's tree lands in.          *)
(***************************************************************************)
Dest == IF desc.landsInBase THEN base ELSE top
SetDest(c) ==
  IF desc.landsInBase THEN base' = c /\ UNCHANGED top
                      ELSE top' = c /\ UNCHANGED base

\* Mutant: the tgz branch keeps old files too, like the bz2 one.
KeepsOld_Tgz == desc.format \in {"bz2", "tgz"} /\ Dest # Absent

\* tar j..k: an existing file is an error; unzip and 7z ask what to do with it.
KeepsOld == desc.format = "bz2" /\ Dest # Absent
Asks     == desc.format \in {"zip", "7z"} /\ Dest # Absent

\* What tells the script that unpacking failed is the status of tar alone in
\* xz -cd | tar, which ends with 0 where its input stops between two files,
\* and that of the last command of a self-extracting script.
Unreliable == desc.format \in {"xz", "bin"}

\* mv before rm for a zip, rm before mv for a tar ball.
AfterUnpack  == IF desc.format = "zip" THEN "publish" ELSE "cleanup"
AfterCleanup == IF desc.format \in {"tgz", "bz2"} THEN "publish" ELSE Return
AfterPublish == IF desc.format = "zip" THEN "cleanup" ELSE Return

BeginUnpack ==
  /\ pc = "unpack"
  /\ \/ /\ desc.format = "other" /\ Goto(Return) /\ UNCHANGED <<base, top>>
     \/ /\ desc.format # "other" /\ archive = Absent /\ Die
        /\ IF desc.format = "zipdir" THEN SetDest(Partial)
                                     ELSE UNCHANGED <<base, top>>
     \/ /\ desc.format # "other" /\ archive = Partial
        /\ (Die \/ (Unreliable /\ Goto(AfterUnpack)))
        /\ IF KeepsOld \/ desc.format \in {"zip", "7z"}
             THEN UNCHANGED <<base, top>>    \* the directory at the end is missing
             ELSE SetDest(Partial)
     \/ /\ desc.format # "other" /\ archive = Complete
        /\ \/ KeepsOld /\ Die /\ UNCHANGED <<base, top>>
           \/ Asks /\ Goto(AfterUnpack) /\ UNCHANGED <<base, top>>
           \/ ~KeepsOld /\ Goto("unpacking") /\ SetDest(Partial)
  /\ UNCHANGED <<desc, flags, caller, url, archive, saved, locked, patched, fresh,
                 faults>>

\* Mutant: the unpacking tool's failure is not noticed.
EndUnpack_IgnoresFailure ==
  /\ pc = "unpacking"
  /\ \/ Goto(AfterUnpack) /\ SetDest(Complete) /\ NoFault
     \/ Goto(AfterUnpack) /\ Fault /\ UNCHANGED <<base, top>>
  /\ UNCHANGED <<desc, flags, caller, url, archive, saved, locked, patched, fresh>>

EndUnpack ==
  /\ pc = "unpacking"
  /\ \/ Goto(AfterUnpack) /\ SetDest(Complete) /\ NoFault
     \/ /\ Fault /\ UNCHANGED <<base, top>>
        /\ (Die \/ (Unreliable /\ Goto(AfterUnpack)))
  /\ UNCHANGED <<desc, flags, caller, url, archive, saved, locked, patched, fresh>>

\* rm -f "${TEMPBASENAME}"
Cleanup ==
  /\ pc = "cleanup"
  /\ archive' = Absent
  /\ Goto(AfterCleanup)
  /\ UNCHANGED <<desc, flags, caller, url, base, top, saved, locked, patched, fresh,
                 faults>>

\* mv "${PACKAGE_BASE_DIR_NAME}" "${BASE_DIR}".  A tar ball's tree that
\* already is BASE_DIR is left there; a zip's is moved into itself, which fails.
Publish ==
  /\ pc = "publish"
  /\ \/ base = Absent /\ base' = top /\ top' = Absent /\ Goto(AfterPublish)
     \/ base # Absent /\ desc.format = "zip"
        /\ UNCHANGED <<base, top>> /\ Die
     \/ base # Absent /\ desc.format # "zip"
        /\ UNCHANGED <<base, top>> /\ Goto(AfterPublish)
  /\ UNCHANGED <<desc, flags, caller, url, archive, saved, locked, patched, fresh,
                 faults>>

(***************************************************************************)
(* svn co, hg clone, git clone and git checkout ${GIT_HASH}.               *)
(***************************************************************************)
\* A working copy between two revisions, if it was whole.
Tear(c) == IF c \in {Complete, Unpinned} THEN Torn ELSE c

\* svn co takes up a checkout cut short, and updates one that is whole.
BeginClone ==
  /\ pc = "clone"
  /\ IF \/ base # Absent /\ desc.method \in {"git", "hg"}  \* the destination exists
        \/ locked                                          \* svn cleanup, by hand
       THEN Die /\ UNCHANGED base
       ELSE /\ Goto("cloning")
            /\ base' = IF base = Absent THEN Partial
                       ELSE IF desc.fixed THEN base ELSE Tear(base)
  /\ UNCHANGED <<desc, flags, caller, url, top, archive, saved, locked, patched,
                 fresh, faults>>

EndClone ==
  /\ pc = "cloning"
  /\ \/ /\ desc.method = "git" /\ desc.fixed
        /\ base' = Unpinned /\ Goto("pin") /\ NoFault
     \/ /\ ~(desc.method = "git" /\ desc.fixed)
        /\ base' = Complete /\ Goto(Return) /\ NoFault
     \/ /\ Fault /\ Die                    \* git removes what it created
        /\ base' \in IF desc.method = "git" THEN {Absent, base} ELSE {base}
  /\ UNCHANGED <<desc, flags, caller, url, top, archive, saved, locked, patched, fresh>>

Pin ==
  /\ pc = "pin"
  /\ \/ base' = Complete /\ Goto(Return) /\ NoFault
     \/ Fault /\ Die /\ UNCHANGED base
  /\ UNCHANGED <<desc, flags, caller, url, top, archive, saved, locked, patched, fresh>>

(***************************************************************************)
(* e(): cd "${SOURCE_DIR}" and POST_RETRIEVAL_METHOD, after -k only.       *)
(***************************************************************************)
BeginPost ==
  /\ pc = "post"
  /\ IF base = Absent \/ (desc.post = "once" /\ patched = "yes")
       THEN Die /\ UNCHANGED patched
       ELSE Goto("posting") /\ patched' = "partly"
  /\ UNCHANGED <<desc, flags, caller, url, base, top, archive, saved, locked, fresh,
                 faults>>

EndPost ==
  /\ pc = "posting"
  /\ \/ patched' = "yes" /\ Goto(AfterCheckout) /\ NoFault
     \/ Fault /\ Die /\ UNCHANGED patched
  /\ UNCHANGED <<desc, flags, caller, url, base, top, archive, saved, locked, fresh>>

(***************************************************************************)
(* e(): the update phase.                                                  *)
(***************************************************************************)
\* Mutant: svn up also where SOURCE_REVISION is given.
Update_IgnoresRevision ==
  /\ pc = "update"
  /\ \/ desc.method \notin VcsMethods /\ Goto("phases") /\ UNCHANGED caller
     \/ /\ desc.method \in VcsMethods /\ base = Absent
        /\ Goto("enter") /\ caller' = "u"
     \/ /\ desc.method \in VcsMethods /\ base # Absent
        /\ Goto("pulling") /\ UNCHANGED caller
  /\ UNCHANGED <<desc, flags, url, disk, saved, fresh, faults>>

\* Mutant: the update branch calls source_retrieval without testing BASE_DIR.
Update_ChecksOut ==
  /\ pc = "update"
  /\ IF desc.method \in VcsMethods THEN Goto("enter") /\ caller' = "u"
                                  ELSE Goto("phases") /\ UNCHANGED caller
  /\ UNCHANGED <<desc, flags, url, disk, saved, fresh, faults>>

Update ==
  /\ pc = "update"
  /\ \/ desc.method \notin VcsMethods /\ Goto("phases") /\ UNCHANGED caller
     \/ /\ desc.method \in VcsMethods /\ base = Absent
        /\ Goto("enter") /\ caller' = "u"
     \/ /\ desc.method \in SvnMethods /\ base # Absent
        /\ Goto(IF desc.fixed THEN "phases" ELSE "pulling")
        /\ UNCHANGED caller
     \/ /\ desc.method \in {"hg", "git"} /\ base # Absent
        /\ Goto("pulling") /\ UNCHANGED caller
  /\ UNCHANGED <<desc, flags, url, disk, saved, fresh, faults>>

\* svn up, hg pull and hg update, git pull: first what the server sends is
\* fetched, then the working tree is brought to it.  On the detached HEAD that
\* git checkout ${GIT_HASH} leaves, git pull has no branch and fails; where it
\* was cut short, it may refuse its own lock or the changes it finds.
OnBranch == ~(desc.method = "git" /\ desc.fixed /\ base = Complete)
Refused  == ~OnBranch \/ locked

BeginPull ==
  /\ pc = "pulling"
  /\ \/ ~Refused /\ Goto("updating") /\ base' = Tear(base) /\ NoFault
     \/ Refused /\ Die /\ NoFault /\ UNCHANGED base
     \/ desc.method = "git" /\ base = Torn /\ Die /\ NoFault /\ UNCHANGED base
     \/ Fault /\ Die /\ UNCHANGED base
  /\ UNCHANGED <<desc, flags, caller, url, top, archive, locked, patched, saved, fresh>>

\* What an update that ends well leaves: git looks at the branch only, not at
\* whether the files of a clone cut short are there.
Updated ==
  CASE desc.method = "git" /\ base = Partial -> Partial
    [] desc.method = "git" /\ desc.fixed -> Unpinned
    [] OTHER -> Complete

EndPull ==
  /\ pc = "updating"
  /\ \/ base' = Updated /\ Goto("phases") /\ NoFault
     \/ Fault /\ Die /\ UNCHANGED base
  /\ UNCHANGED <<desc, flags, caller, url, top, archive, locked, patched, saved, fresh>>

\* Prebuild, build and the rest of e(), then exit 0.
FinishRun ==
  /\ pc = "phases"
  /\ pc' = "idle" /\ result' = "ok"
  /\ UNCHANGED <<desc, flags, caller, url, disk, saved, fresh, faults>>

\* The user's SIGINT, a kill, a power cut: the disk stays as it is, with the
\* lock of an svn that had no time to take it off.
Interrupt ==
  /\ pc # "idle" /\ Fault
  /\ pc' = "idle" /\ result' = "interrupted"
  /\ locked' \in IF desc.method \in SvnMethods /\ pc \in {"cloning", "pulling", "updating"}
                 THEN BOOLEAN ELSE {locked}
  /\ UNCHANGED <<desc, flags, caller, url, base, top, archive, patched, saved, fresh>>

Step ==
  \/ Enter \/ BeginFetch \/ EndFetch \/ BeginUnpack \/ EndUnpack
  \/ Cleanup \/ Publish \/ BeginClone \/ EndClone \/ Pin
  \/ BeginPost \/ EndPost \/ Update \/ BeginPull \/ EndPull
  \/ FinishRun

Next == StartRun \/ Step \/ Interrupt

Spec == Init /\ [][Next]_vars

----------------------------------------------------------------------------
TypeOK ==
  /\ desc \in Descriptors
  /\ flags \subseteq {"k", "u"}
  /\ pc \in Locations
  /\ caller \in {"k", "u"}
  /\ url \in {1, 2}
  /\ base \in {Absent, Partial, Unpinned, Torn, Complete}
  /\ top \in {Absent, Partial, Complete}
  /\ archive \in {Absent, Partial, Complete}
  /\ saved \in BOOLEAN /\ locked \in BOOLEAN
  /\ patched \in {"no", "partly", "yes"}
  /\ result \in {"none", "ok", "failed", "interrupted"}
  /\ fresh \in BOOLEAN
  /\ faults \in 0 .. MaxFaults

(***************************************************************************)
(* Descriptors whose tree reaches BASE_DIR by a rename, and those a        *)
(* version control system puts there.                                      *)
(***************************************************************************)
TarStaged(d) == /\ d.method = "wget" /\ d.format \in {"tgz", "bz2"}
                /\ ~d.landsInBase
Guarded(d) == TarStaged(d) \/ d.method \in VcsMethods

(* A tar ball unpacked beside BASE_DIR and renamed (lines 584-605) never   *)
(* leaves half a tree at BASE_DIR, wherever a run is interrupted.          *)
AtomicPublish == TarStaged(desc) => base \in {Absent, Complete}

(* When a run with -k gets past checkout, the later phases find the whole  *)
(* tree, at GIT_HASH if there is one, with POST_RETRIEVAL_METHOD applied   *)
(* to the end, whatever earlier runs left behind; and when one with -u     *)
(* does, what an update cut short had left half done is done.              *)
TreeReady == base = Complete /\ (desc.post # "none" => patched = "yes")
GuardedCheckoutSound ==
  pc = "phases" =>
    /\ "k" \in flags /\ Guarded(desc) => TreeReady
    /\ "u" \in flags => base # Torn

(* The downloaded file is removed only when all of it has been unpacked    *)
(* (formats whose tool does not ask about existing files, and whose status *)
(* is that of the unpacking; xz and bin files may be removed after half).  *)
RemovedOnlyWhenUnpacked ==
  pc = "cleanup" /\ desc.format \notin {"zip", "7z", "xz", "bin"}
    => base = Complete \/ top = Complete

(* A run on a machine that holds nothing of the package, in which every    *)
(* command the script calls does its work, is not ended by set -e, if its  *)
(* .build file is one of those below (for others, such as boost.build, a   *)
(* zip whose top directory is BASE_DIR, mv fails: line 580).               *)
Ordinary(d) ==
  CASE d.method = "wget" -> (d.landsInBase <=> d.format \in
                               {"zipdir", "7z", "xz", "bin"})
    [] d.method = "git" -> ~d.fixed
    [] d.method \in {"svn", "private-svn", "hg"} -> TRUE
    [] d.method = "other" -> d.post = "none"
FreshRunSucceeds == ~(result = "failed" /\ fresh /\ faults = 0)
OrdinaryFreshRunSucceeds ==
  Ordinary(desc) /\ desc.format # "other" => FreshRunSucceeds

(* No sequence of runs, failures and interruptions damages a whole tree    *)
(* that is not meant to move: one unpacked from an archive, or at a fixed  *)
(* revision that the script knows of (hg has none).  A working copy that   *)
(* moves may be left between two revisions, but never goes back to being   *)
(* the beginning of a clone.  The effect of a POST_RETRIEVAL_METHOD that   *)
(* cannot be repeated stays.                                               *)
Moves(d) == d.method = "hg" \/ (d.method \in VcsMethods /\ ~d.fixed)
NothingUndone ==
  [][ /\ base = Complete /\ ~Moves(desc) => base' = Complete
      /\ base \in {Unpinned, Torn, Complete} => base' \in {Unpinned, Torn, Complete}
      /\ desc.post = "once" /\ patched = "yes" => patched' = "yes" ]_vars

----------------------------------------------------------------------------
(***************************************************************************)
(* The script runs on while its commands return; the user, after a run     *)
(* that did not succeed, sooner or later tries -k again.  The number of    *)
(* failures is bounded, so eventually they stop.                           *)
(***************************************************************************)
Retry == StartRun /\ flags' = {"k"}
FairSpec == Spec /\ WF_vars(Step) /\ SF_vars(Retry)

(* Trying again is enough: for a gzipped tar ball unpacked beside BASE_DIR *)
(* (and a download that overwrites) and for Subversion, some run with -k   *)
(* reaches the later phases, whatever the interrupted ones left; or svn    *)
(* was killed at work, and every later svn asks for svn cleanup first,     *)
(* which nothing in the script runs.                                       *)
Retriable(d) == /\ d.post # "once"
                /\ \/ TarStaged(d) /\ d.format = "tgz" /\ Clobber
                   \/ d.method \in {"svn", "private-svn"}
RetryRecovers ==
  Retriable(desc) => <>((pc = "phases" /\ "k" \in flags) \/ locked)
=============================================================================
