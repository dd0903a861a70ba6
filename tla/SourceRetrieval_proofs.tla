----------------------- MODULE SourceRetrieval_proofs -----------------------
(***************************************************************************)
(* TLAPS proofs about SourceRetrieval: the whole tree is in place when the *)
(* later phases of a run with -k begin, for every set of descriptors, both *)
(* download tools and any number of failures and interruptions.            *)
(***************************************************************************)
EXTENDS SourceRetrieval, TLAPS

(* The locations inside the wget branch, and inside the clone branches.    *)
InArchive == {"fetch", "fetching", "unpack", "unpacking", "publish", "cleanup"}
InClone   == {"clone", "cloning", "pin"}

(* Where the run is says which branch it is in. *)
Placed ==
  /\ pc \in InArchive => desc.method = "wget"
  /\ pc \in InClone => desc.method \in VcsMethods
  /\ pc = "pin" => desc.method = "git"
  /\ pc \in InArchive \cup InClone \cup {"enter"} /\ caller = "k" => "k" \in flags
  /\ pc \in {"post", "posting"} => "k" \in flags /\ desc.post # "none"

(* BASE_DIR is not there while a tar ball is being fetched and unpacked,   *)
(* and its tree is whole from the end of unpacking to the rename.          *)
Staged ==
  TarStaged(desc) =>
    /\ base \in {Absent, Complete}
    /\ pc \in InArchive => base = Absent
    /\ pc \in {"cleanup", "publish"} => top = Complete

(* What a run with -k has achieved by the time it is there. *)
Progress ==
  "k" \in flags /\ Guarded(desc) =>
    /\ pc # "idle" => caller = "k"
    /\ pc \in {"post", "posting"} => base = Complete
    /\ pc \in {"update", "pulling", "phases"} => TreeReady
    /\ pc = "updating" => /\ ~(desc.method = "git" /\ desc.fixed)
                          /\ desc.post # "none" => patched = "yes"

(* Commands that write a tree run only where there is no whole one. *)
Untouched ==
  /\ pc \in {"fetch", "fetching", "unpack"} => base = Absent
  /\ pc = "unpacking" => base # Complete
  /\ pc = "cloning" /\ desc.method \in {"git", "hg"} => base = Partial
  /\ pc = "posting" => ~(desc.post = "once" /\ patched = "yes")

(* Only what is to move is brought between two revisions, and an update    *)
(* that ends well ends that.                                               *)
Follows(d) == d.method \in VcsMethods /\ (d.method \in SvnMethods => ~d.fixed)
Moved ==
  /\ caller = "u" => desc.method \in VcsMethods
  /\ base = Torn => Follows(desc)
  /\ pc = "pulling" => Follows(desc) /\ base # Absent
  /\ pc = "updating" => /\ Follows(desc)
                        /\ IF "k" \in flags THEN base = Torn ELSE base \in {Partial, Torn}
  /\ pc = "phases" /\ "u" \in flags => base # Torn

IInv == TypeOK /\ Placed /\ Staged /\ Progress /\ Untouched /\ Moved

LEMMA InitIInv == Init => IInv
<1> SUFFICES ASSUME Init PROVE IInv
  OBVIOUS
<1> USE DEF Init, Absent, Partial, Unpinned, Torn, Complete, Locations, InArchive,
            InClone
<1>1. TypeOK
  <2>1. saved \in BOOLEAN /\ locked \in BOOLEAN /\ fresh \in BOOLEAN
    BY Zenon
  <2>2. faults \in 0 .. MaxFaults
    BY BoundAssumption
  <2> QED
    BY <2>1, <2>2 DEF TypeOK
<1>2. Placed /\ Staged /\ Progress /\ Untouched /\ Moved
  BY DEF Placed, Staged, Progress, Untouched, Moved
<1> QED
  BY <1>1, <1>2 DEF IInv

(* The definitions every step needs. *)
USE DEF Absent, Partial, Unpinned, Torn, Complete, Locations, InArchive, InClone,
        SvnMethods, VcsMethods, disk

LEMMA StepTypeOK == TypeOK /\ [Next]_vars => TypeOK'
<1> SUFFICES ASSUME TypeOK, [Next]_vars PROVE TypeOK'
  OBVIOUS
<1> USE BoundAssumption DEF TypeOK
<1>0. desc.urls \in {1, 2}
  BY DescriptorsAssumption DEF Descriptor
<1>1. CASE StartRun
  BY <1>1 DEF StartRun
<1>2. CASE Enter
  BY <1>2 DEF Enter, Goto, Return, AfterCheckout
<1>3. CASE BeginFetch
  BY <1>3 DEF BeginFetch, Goto
<1>4. CASE EndFetch
  BY <1>0, <1>4 DEF EndFetch, Goto, Die, Fault, NoFault
<1>5. CASE BeginUnpack
  BY <1>5 DEF BeginUnpack, Goto, Die, Return, AfterCheckout, SetDest, AfterUnpack, Unreliable
<1>6. CASE EndUnpack
  BY <1>6 DEF EndUnpack, Goto, Die, Fault, NoFault, SetDest, AfterUnpack, Unreliable
<1>7. CASE Cleanup
  BY <1>7 DEF Cleanup, Goto, Return, AfterCheckout, AfterCleanup
<1>8. CASE Publish
  BY <1>8 DEF Publish, Goto, Die, Return, AfterCheckout, AfterPublish
<1>9. CASE BeginClone
  BY <1>9 DEF BeginClone, Goto, Die, Tear
<1>10. CASE EndClone
  BY <1>10 DEF EndClone, Goto, Die, Fault, NoFault, Return, AfterCheckout
<1>11. CASE Pin
  BY <1>11 DEF Pin, Goto, Die, Fault, NoFault, Return, AfterCheckout
<1>12. CASE BeginPost
  BY <1>12 DEF BeginPost, Goto, Die
<1>13. CASE EndPost
  BY <1>13 DEF EndPost, Goto, Die, Fault, NoFault, AfterCheckout
<1>14. CASE Update
  BY <1>14 DEF Update, Goto
<1>15. CASE BeginPull
  BY <1>15 DEF BeginPull, Goto, Die, Fault, NoFault, Tear
<1>19. CASE EndPull
  BY <1>19 DEF EndPull, Goto, Die, Fault, NoFault, Updated
<1>16. CASE FinishRun
  BY <1>16 DEF FinishRun
<1>17. CASE Interrupt
  BY <1>17 DEF Interrupt, Fault
<1>18. CASE UNCHANGED vars
  BY <1>18 DEF vars
<1> QED
  BY <1>1, <1>2, <1>3, <1>4, <1>5, <1>6, <1>7, <1>8, <1>9, <1>10, <1>11, <1>12, <1>13, <1>14, <1>15, <1>16, <1>17, <1>18, <1>19
  DEF Next, Step

LEMMA StepIInv == IInv /\ [Next]_vars => IInv'
<1> SUFFICES ASSUME IInv, [Next]_vars PROVE IInv'
  OBVIOUS
<1>t. TypeOK'
  BY StepTypeOK DEF IInv
<1> SUFFICES Placed' /\ Staged' /\ Progress' /\ Untouched' /\ Moved'
  BY <1>t DEF IInv
<1> USE DEF IInv, TypeOK, Placed, Staged, Progress, Untouched, Moved, Follows, TarStaged,
            Guarded, TreeReady
<1>1. CASE StartRun
  BY <1>1 DEF StartRun
<1>2. CASE Enter
  BY <1>2 DEF Enter, Goto, Return, AfterCheckout
<1>3. CASE BeginFetch
  BY <1>3 DEF BeginFetch, Goto
<1>4. CASE EndFetch
  BY <1>4 DEF EndFetch, Goto, Die, Fault, NoFault
<1>5. CASE BeginUnpack
  BY <1>5 DEF BeginUnpack, Goto, Die, Return, AfterCheckout, SetDest, AfterUnpack, Unreliable, KeepsOld, Asks, Dest
<1>6. CASE EndUnpack
  BY <1>6 DEF EndUnpack, Goto, Die, Fault, NoFault, SetDest, AfterUnpack, Unreliable
<1>7. CASE Cleanup
  BY <1>7 DEF Cleanup, Goto, Return, AfterCheckout, AfterCleanup
<1>8. CASE Publish
  BY <1>8 DEF Publish, Goto, Die, Return, AfterCheckout, AfterPublish
<1>9. CASE BeginClone
  BY <1>9 DEF BeginClone, Goto, Die, Tear
<1>10. CASE EndClone
  BY <1>10 DEF EndClone, Goto, Die, Fault, NoFault, Return, AfterCheckout
<1>11. CASE Pin
  BY <1>11 DEF Pin, Goto, Die, Fault, NoFault, Return, AfterCheckout
<1>12. CASE BeginPost
  BY <1>12 DEF BeginPost, Goto, Die
<1>13. CASE EndPost
  BY <1>13 DEF EndPost, Goto, Die, Fault, NoFault, AfterCheckout
<1>14. CASE Update
  BY <1>14 DEF Update, Goto
<1>15. CASE BeginPull
  BY <1>15 DEF BeginPull, Goto, Die, Fault, NoFault, Tear, OnBranch, Refused
<1>19. CASE EndPull
  BY <1>19 DEF EndPull, Goto, Die, Fault, NoFault, Updated
<1>16. CASE FinishRun
  BY <1>16 DEF FinishRun
<1>17. CASE Interrupt
  BY <1>17 DEF Interrupt, Fault
<1>18. CASE UNCHANGED vars
  BY <1>18 DEF vars
<1> QED
  BY <1>1, <1>2, <1>3, <1>4, <1>5, <1>6, <1>7, <1>8, <1>9, <1>10, <1>11, <1>12, <1>13, <1>14, <1>15, <1>16, <1>17, <1>18, <1>19
  DEF Next, Step

LEMMA Invariance == Spec => []IInv
  BY InitIInv, StepIInv, PTL DEF Spec

(* Every variable keeps its type (whatever descriptors the build files     *)
(* give, whichever download tool the platform has).                        *)
THEOREM TypeCorrect == Spec => []TypeOK
<1>1. IInv => TypeOK
  BY DEF IInv
<1> QED
  BY <1>1, Invariance, PTL

(* Half a tree never stands at BASE_DIR of a tar ball that is unpacked     *)
(* beside it and renamed: source_retrieval, lines 584-605.                 *)
THEOREM AtomicPublication == Spec => []AtomicPublish
<1>1. IInv => AtomicPublish
  BY DEF IInv, Staged, AtomicPublish
<1> QED
  BY <1>1, Invariance, PTL

(* A run with -k that gets past checkout has the whole, patched tree: the  *)
(* tests of source_retrieval and set -e are enough for the guarded         *)
(* retrieval methods, after any history of failures and interruptions.     *)
(* One with -u has no working copy that was left between two revisions.    *)
THEOREM CheckoutSound == Spec => []GuardedCheckoutSound
<1>1. IInv => GuardedCheckoutSound
  BY DEF IInv, Progress, Moved, GuardedCheckoutSound
<1> QED
  BY <1>1, Invariance, PTL

(* A tree from an archive or at a fixed revision is never damaged again,   *)
(* a working copy that moves is at worst between two revisions, and what a *)
(* POST_RETRIEVAL_METHOD did that cannot be repeated is never half undone. *)
THEOREM Preservation == Spec => NothingUndone
<1> DEFINE Kept == /\ base = Complete /\ ~Moves(desc) => base' = Complete
                   /\ base \in {Unpinned, Torn, Complete} => base' \in {Unpinned, Torn, Complete}
                   /\ desc.post = "once" /\ patched = "yes" => patched' = "yes"
<1>1. IInv /\ [Next]_vars => [Kept]_vars
  <2> SUFFICES ASSUME IInv, Next PROVE Kept
    BY DEF vars
  <2> USE DEF IInv, TypeOK, Placed, Untouched, Moved, Follows, Moves
  <2>1. CASE StartRun \/ Enter \/ BeginFetch \/ EndFetch
               \/ Cleanup \/ Update \/ FinishRun \/ Interrupt
    BY <2>1 DEF StartRun, Enter, BeginFetch, EndFetch, Cleanup, Update, FinishRun, Interrupt
  <2>2. CASE BeginUnpack
    BY <2>2 DEF BeginUnpack, SetDest, KeepsOld, Asks, Dest
  <2>3. CASE EndUnpack
    BY <2>3 DEF EndUnpack, SetDest
  <2>4. CASE Publish
    BY <2>4 DEF Publish
  <2>5. CASE BeginClone
    BY <2>5 DEF BeginClone, Tear
  <2>6. CASE EndClone
    BY <2>6 DEF EndClone
  <2>7. CASE Pin
    BY <2>7 DEF Pin
  <2>8. CASE BeginPost
    BY <2>8 DEF BeginPost
  <2>9. CASE EndPost
    BY <2>9 DEF EndPost
  <2>10. CASE BeginPull
    BY <2>10 DEF BeginPull, Refused, OnBranch, Tear
  <2>11. CASE EndPull
    BY <2>11 DEF EndPull, Updated
  <2> QED
    BY <2>1, <2>2, <2>3, <2>4, <2>5, <2>6, <2>7, <2>8, <2>9, <2>10, <2>11 DEF Next, Step
<1>2. NothingUndone <=> [][Kept]_vars
  BY DEF NothingUndone
<1> QED
  BY <1>1, <1>2, Invariance, PTL DEF Spec

-----------------------------------------------------------------------------
(* Where the downloaded file is removed, it has been unpacked: that is     *)
(* inductive with IInv.                                                    *)
LEMMA StepRemoved == IInv /\ RemovedOnlyWhenUnpacked /\ [Next]_vars => RemovedOnlyWhenUnpacked'
<1> SUFFICES ASSUME IInv, RemovedOnlyWhenUnpacked, [Next]_vars PROVE RemovedOnlyWhenUnpacked'
  OBVIOUS
<1> USE DEF IInv, TypeOK, Staged, TarStaged, RemovedOnlyWhenUnpacked
<1>1. CASE pc = "cleanup"
  BY <1>1 DEF Next, Step, StartRun, Interrupt, Cleanup, Goto, Return, AfterCheckout, AfterCleanup,
     Enter, BeginFetch, EndFetch, BeginUnpack, EndUnpack, Publish, BeginClone, EndClone, Pin,
     BeginPost, EndPost, Update, BeginPull, EndPull, FinishRun, vars
<1>2. CASE pc = "unpack"
  BY <1>2 DEF Next, Step, StartRun, Interrupt, BeginUnpack, Goto, Die, Return, AfterCheckout,
     AfterUnpack, Unreliable, Asks, Enter, BeginFetch, EndFetch, EndUnpack, Cleanup, Publish, BeginClone,
     EndClone, Pin, BeginPost, EndPost, Update, BeginPull, EndPull, FinishRun, vars
<1>3. CASE pc = "unpacking"
  BY <1>3 DEF Next, Step, StartRun, Interrupt, EndUnpack, Goto, Die, AfterUnpack, Unreliable, SetDest,
     Enter, BeginFetch, EndFetch, BeginUnpack, Cleanup, Publish, BeginClone, EndClone, Pin,
     BeginPost, EndPost, Update, BeginPull, EndPull, FinishRun, vars
<1>4. CASE pc = "publish"
  BY <1>4 DEF Next, Step, StartRun, Interrupt, Publish, Goto, Die, Return, AfterCheckout,
     AfterPublish, Enter, BeginFetch, EndFetch, BeginUnpack, EndUnpack, Cleanup, BeginClone,
     EndClone, Pin, BeginPost, EndPost, Update, BeginPull, EndPull, FinishRun, vars
<1>5. CASE pc \notin {"cleanup", "unpack", "unpacking", "publish"}
  BY <1>5 DEF Next, Step, StartRun, Interrupt, Goto, Die, Return, AfterCheckout, BeginUnpack,
     EndUnpack, Cleanup, Publish, Enter, BeginFetch, EndFetch, BeginClone,
     EndClone, Pin, BeginPost, EndPost, Update, BeginPull, EndPull, FinishRun, vars
<1> QED
  BY <1>1, <1>2, <1>3, <1>4, <1>5

(* POST_RETRIEVAL_METHOD has been applied to nothing when there is no tree.*)
Applied ==
  /\ base = Absent => patched = "no" /\ pc # "posting"
  /\ pc = "cloning" /\ desc.method = "git" => patched = "no"
  /\ faults = 0 => ~locked

(* How far a run has come on a machine that held nothing of the package,   *)
(* with every command doing its work.                                      *)
Nothing == base = Absent /\ top = Absent /\ archive = Absent
Smooth ==
  Ordinary(desc) /\ desc.format # "other" /\ fresh /\ faults = 0 =>
    /\ result # "failed"
    /\ pc \in {"enter", "fetch", "clone"} => Nothing
    /\ pc = "fetch" => url = 1
    /\ pc = "fetching" => base = Absent /\ top = Absent /\ saved
    /\ pc = "unpack" => base = Absent /\ top = Absent /\ archive = Complete
    /\ pc = "unpacking" /\ ~desc.landsInBase => base = Absent
    /\ pc \in {"publish", "cleanup"} =>
         IF pc = "publish" \/ desc.format \in {"tgz", "bz2"}
         THEN base = Absent /\ top = Complete
         ELSE base = Complete
    /\ pc \in InArchive \cup {"cloning", "pin", "post"} => patched = "no"
    /\ pc = "post" => base # Absent
    /\ pc = "pulling" => base = Complete
    /\ pc = "update" => Nothing \/ base = Complete \/ desc.method \notin VcsMethods

LEMMA StepSmooth == IInv /\ Applied /\ Smooth /\ [Next]_vars => (Applied /\ Smooth)'
<1> SUFFICES ASSUME IInv, Applied, Smooth, [Next]_vars PROVE Applied' /\ Smooth'
  OBVIOUS
<1>d. /\ desc \in Descriptor /\ 1 \in desc.named /\ desc.urls \in {1, 2}
      /\ desc.format \in Formats /\ desc.method \in Methods
      /\ faults \in Nat
  BY DescriptorsAssumption, BoundAssumption DEF IInv, TypeOK, Descriptor
<1>f. Fault => faults' # 0
  BY <1>d DEF Fault
<1> USE <1>d, <1>f DEF IInv, TypeOK, Placed, Applied, Smooth, Nothing, Ordinary, Formats, Methods
<1>1. CASE StartRun
  BY <1>1 DEF StartRun
<1>2. CASE Enter
  BY <1>2 DEF Enter, Goto, Return, AfterCheckout
<1>3. CASE BeginFetch
  BY <1>3 DEF BeginFetch, Goto
<1>4. CASE EndFetch
  BY <1>4 DEF EndFetch, Goto, Die, NoFault
<1>5. CASE BeginUnpack
  BY <1>5 DEF BeginUnpack, Goto, Die, Return, AfterCheckout, SetDest, AfterUnpack, Unreliable, KeepsOld, Asks, Dest
<1>6. CASE EndUnpack
  BY <1>6 DEF EndUnpack, Goto, Die, NoFault, SetDest, AfterUnpack, Unreliable
<1>7. CASE Cleanup
  BY <1>7 DEF Cleanup, Goto, Return, AfterCheckout, AfterCleanup
<1>8. CASE Publish
  BY <1>8 DEF Publish, Goto, Die, Return, AfterCheckout, AfterPublish
<1>9. CASE BeginClone
  BY <1>9 DEF BeginClone, Goto, Die, Tear
<1>10. CASE EndClone
  BY <1>10 DEF EndClone, Goto, Die, NoFault, Return, AfterCheckout
<1>11. CASE Pin
  BY <1>11 DEF Pin, Goto, Die, NoFault, Return, AfterCheckout
<1>12. CASE BeginPost
  BY <1>12 DEF BeginPost, Goto, Die
<1>13. CASE EndPost
  BY <1>13 DEF EndPost, Goto, Die, NoFault, AfterCheckout, Progress, Guarded
<1>14. CASE Update
  BY <1>14 DEF Update, Goto
<1>15. CASE BeginPull
  BY <1>15 DEF BeginPull, Goto, Die, NoFault, OnBranch, Refused, Tear
<1>19. CASE EndPull
  BY <1>19 DEF EndPull, Goto, Die, NoFault, Updated
<1>16. CASE FinishRun
  BY <1>16 DEF FinishRun
<1>17. CASE Interrupt
  BY <1>17 DEF Interrupt, Fault
<1>18. CASE UNCHANGED vars
  <2> USE <1>18 DEF vars
  <2>1. (~locked)' <=> ~locked
    BY Zenon
  <2>2. Applied'
    BY <2>1
  <2>3. Smooth'
    OBVIOUS
  <2> QED
    BY <2>2, <2>3
<1> QED
  BY <1>1, <1>2, <1>3, <1>4, <1>5, <1>6, <1>7, <1>8, <1>9, <1>10, <1>11, <1>12, <1>13, <1>14, <1>15, <1>16, <1>17, <1>18, <1>19
  DEF Next, Step

(* rm -f of the downloaded file comes after all of it has been unpacked,   *)
(* in whichever run, for the formats whose tool does not ask.              *)
THEOREM UnpackedBeforeRemoved == Spec => []RemovedOnlyWhenUnpacked
<1>1. Init => RemovedOnlyWhenUnpacked
  BY DEF Init, RemovedOnlyWhenUnpacked
<1> QED
  BY <1>1, Invariance, StepRemoved, PTL DEF Spec

(* For the .build files that Ordinary describes, set -e ends no run that   *)
(* starts on a machine without the package and meets no failure: the       *)
(* script itself gives no command something it fails on, for either        *)
(* download tool, with -k, -u or both.                                     *)
THEOREM FreshRuns == Spec => []OrdinaryFreshRunSucceeds
<1>1. Init => Applied /\ Smooth
  BY DEF Init, Applied, Smooth, Nothing
<1>2. Applied /\ Smooth => OrdinaryFreshRunSucceeds
  BY DEF Smooth, OrdinaryFreshRunSucceeds, FreshRunSucceeds
<1> QED
  BY <1>1, <1>2, Invariance, StepSmooth, PTL DEF Spec
=============================================================================
