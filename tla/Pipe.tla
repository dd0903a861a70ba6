------------------------------- MODULE Pipe --------------------------------
(***************************************************************************)
(* patches/vrjuggler/Pipe_flip.cpp: the drawing pipes of VR Juggler, each  *)
(* with a thread that runs controlLoop(), the windows that other threads   *)
(* add and remove, and stop().                                             *)
(*                                                                         *)
(* Two environments are modelled from how the file uses them: the kernel   *)
(* thread, which drives all pipes through a frame (triggerRender of each,  *)
(* completeRender of each, triggerSwap of each, completeSwap of each) and  *)
(* in the end stops them one after the other; and the cluster manager.     *)
(* Pipes are those whose start() returned 1.                               *)
(*                                                                         *)
(* mThreadRunning and mControlExit are plain bools read in loops that call *)
(* functions the compiler cannot see into: a read is a read of the         *)
(* current value.  Rendering, swapping and the work under a lock touch     *)
(* nothing another thread reads without that lock, except mOpenWins, which *)
(* therefore changes one window at a time.                                 *)
(***************************************************************************)
EXTENDS Naturals, Sequences

CONSTANTS
  Pipes, Windows,
  Home,        \* Home[w]: the pipe w is added to
  Clustered,   \* ClusterManager::isClusterActive()
  Nobody

ASSUME PipeAssumption == /\ Home \in [Windows -> Pipes]
                         /\ Clustered \in BOOLEAN /\ Nobody \notin Pipes

VARIABLES
  ctl,       \* ctl[p]: where the control loop of p is
  running,   \* mThreadRunning
  active,    \* mActiveThread # NULL
  exit,      \* mControlExit
  sem,       \* the four semaphores of each pipe
  new, open, closing,  \* mNewWins, mOpenWins, mClosingWins
  idx,       \* the index of the loop over mNewWins or mClosingWins
  locked,    \* the pipe's own locks that its control loop holds
  opener,    \* holder of mDrawMgrWinLock
  drawn,     \* the windows that the last renderWindow calls drew
  dirty,     \* windows whose context needs contextInit()
  fate,      \* what became of each window
  removed,   \* windows for which removeWindow was called
  kernel,    \* where the kernel thread is
  left,      \* pipes its current loop has still to visit
  victim,    \* the pipe being stopped
  snapshot,  \* stop()'s copy of the open windows
  ready      \* ClusterManager::isClusterReady()

thread == <<running, active, exit>>
lists  == <<new, open, closing, fate, removed>>
frame  == <<drawn, dirty>>
locks  == <<idx, locked, opener>>
driver == <<kernel, left, victim, snapshot>>
vars   == <<ctl, thread, sem, lists, frame, locks, driver, ready>>

Locks == {"closing", "new", "open"}
Elems(s) == {s[i] : i \in DOMAIN s}

\* std::remove and erase; a list holds a window at most once.
Without(s, w) ==
  IF w \notin Elems(s) THEN s
  ELSE LET i == CHOOSE j \in DOMAIN s : s[j] = w
       IN  SubSeq(s, 1, i - 1) \o SubSeq(s, i + 1, Len(s))

Init ==
  /\ ctl = [p \in Pipes |-> "spawned"]
  /\ running = [p \in Pipes |-> FALSE] /\ active = [p \in Pipes |-> FALSE]
  /\ exit = [p \in Pipes |-> FALSE]
  /\ sem = [p \in Pipes |-> [rt |-> 0, rc |-> 0, st |-> 0, sc |-> 0]]
  /\ new = [p \in Pipes |-> << >>] /\ open = [p \in Pipes |-> << >>]
  /\ closing = [p \in Pipes |-> << >>]
  /\ idx = [p \in Pipes |-> 1]
  /\ locked = [p \in Pipes |-> {}] /\ opener = Nobody
  /\ drawn = [p \in Pipes |-> << >>] /\ dirty = {}
  /\ fate = [w \in Windows |-> "unborn"] /\ removed = {}
  /\ kernel = "idle" /\ left = {} /\ victim = Nobody /\ snapshot = << >>
  /\ ready \in {FALSE, ~Clustered}

(***************************************************************************)
(* The semaphores: release adds one, acquire waits for one and takes it.   *)
(***************************************************************************)
Up(p, s)         == sem' = [sem EXCEPT ![p][s] = @ + 1]
Down(p, s)       == sem[p][s] > 0 /\ sem' = [sem EXCEPT ![p][s] = @ - 1]
Pass(p, s, t)    == /\ sem[p][s] > 0
                    /\ sem' = [sem EXCEPT ![p][s] = @ - 1, ![p][t] = @ + 1]
Goto(p, l)       == ctl' = [ctl EXCEPT ![p] = l]

----------------------------------------------------------------------------
(***************************************************************************)
(* controlLoop().                                                          *)
(***************************************************************************)
Assign(p) ==
  /\ ctl[p] = "spawned" /\ Goto(p, "assigned")
  /\ active' = [active EXCEPT ![p] = TRUE]
  /\ UNCHANGED <<running, exit, sem, lists, frame, locks, driver, ready>>

Begin(p) ==
  /\ ctl[p] = "assigned" /\ Goto(p, "test")
  /\ running' = [running EXCEPT ![p] = TRUE]
  /\ UNCHANGED <<active, exit, sem, lists, frame, locks, driver, ready>>

\* while ( ! mControlExit ), then the question to the cluster manager.
Test(p) ==
  /\ ctl[p] = "test"
  /\ \/ exit[p] /\ Goto(p, "leaving")
     \/ ~exit[p] /\ Clustered /\ ~ready /\ Goto(p, "checkClosing")
     \/ ~exit[p] /\ (Clustered => ready) /\ Goto(p, "render")
  /\ UNCHANGED <<thread, sem, lists, frame, locks, driver, ready>>

Leave(p) ==
  /\ ctl[p] = "leaving" /\ Goto(p, "exited")
  /\ running' = [running EXCEPT ![p] = FALSE]
  /\ UNCHANGED <<active, exit, sem, lists, frame, locks, driver, ready>>

\* Mutant: render completion is signalled without waiting for the trigger.
Render_Early(p) ==
  /\ ctl[p] = "render" /\ Goto(p, "swap")
  /\ sem' = [sem EXCEPT ![p].rc = 1]
  /\ drawn' = [drawn EXCEPT ![p] = open[p]] /\ dirty' = dirty \ Elems(open[p])
  /\ UNCHANGED <<thread, lists, locks, driver, ready>>

\* Mutant: checkForNewWindows() comes before the swap and not after it.
Render_ThenOpens(p) ==
  /\ ctl[p] = "render" /\ Goto(p, "swap")
  /\ Pass(p, "rt", "rc")
  /\ drawn' = [drawn EXCEPT ![p] = open[p]] /\ dirty' = dirty \ Elems(open[p])
  /\ open' = [open EXCEPT ![p] = @ \o new[p]]
  /\ UNCHANGED <<thread, new, closing, fate, removed, locks, driver, ready>>

\* Mutant: contextInit() only for the first window of the pipe.
Render_FirstInit(p) ==
  /\ ctl[p] = "render" /\ Goto(p, "swap")
  /\ Pass(p, "rt", "rc")
  /\ drawn' = [drawn EXCEPT ![p] = open[p]]
  /\ dirty' = IF open[p] = << >> THEN dirty ELSE dirty \ {Head(open[p])}
  /\ UNCHANGED <<thread, lists, locks, driver, ready>>

\* Wait for the trigger, renderWindow each open window (contextInit() where
\* the context is dirty), signal completion.
Render(p) ==
  /\ ctl[p] = "render" /\ Goto(p, "swap")
  /\ Pass(p, "rt", "rc")
  /\ drawn' = [drawn EXCEPT ![p] = open[p]] /\ dirty' = dirty \ Elems(open[p])
  /\ UNCHANGED <<thread, lists, locks, driver, ready>>

Swap(p) ==
  /\ ctl[p] = "swap"
  /\ Pass(p, "st", "sc") /\ Goto(p, "checkClosing")
  /\ UNCHANGED <<thread, lists, frame, locks, driver, ready>>

(***************************************************************************)
(* checkForWindowsToClose(): the size is read before the locks are taken.  *)
(***************************************************************************)
CheckClosing(p) ==
  /\ ctl[p] = "checkClosing"
  /\ Goto(p, IF closing[p] = << >> THEN "checkNew" ELSE "lockClosing")
  /\ UNCHANGED <<thread, sem, lists, frame, locks, driver, ready>>

LockClosing(p) ==
  /\ ctl[p] = "lockClosing" /\ Goto(p, "close")
  /\ locked' = [locked EXCEPT ![p] = Locks] /\ idx' = [idx EXCEPT ![p] = 1]
  /\ UNCHANGED <<thread, sem, lists, frame, opener, driver, ready>>

\* contextClose(), close(), and out of both lists.
CloseOne(p) ==
  LET w == closing[p][idx[p]] IN
  /\ ctl[p] = "close" /\ idx[p] <= Len(closing[p])
  /\ fate' = [fate EXCEPT ![w] = "closed"]
  /\ new' = [new EXCEPT ![p] = Without(@, w)]
  /\ open' = [open EXCEPT ![p] = Without(@, w)]
  /\ idx' = [idx EXCEPT ![p] = @ + 1]
  /\ UNCHANGED <<ctl, thread, sem, closing, removed, frame, locked, opener,
                 driver, ready>>

AllClosed(p) ==
  /\ ctl[p] = "close" /\ idx[p] > Len(closing[p]) /\ Goto(p, "clear")
  /\ UNCHANGED <<thread, sem, lists, frame, locks, driver, ready>>

EndClosing(p) ==
  /\ ctl[p] = "clear" /\ Goto(p, "checkNew")
  /\ closing' = [closing EXCEPT ![p] = << >>]
  /\ locked' = [locked EXCEPT ![p] = {}]
  /\ UNCHANGED <<thread, sem, new, open, fate, removed, frame, idx, opener,
                 driver, ready>>

(***************************************************************************)
(* checkForNewWindows().                                                   *)
(***************************************************************************)
CheckNew(p) ==
  /\ ctl[p] = "checkNew"
  /\ Goto(p, IF new[p] = << >> THEN "test" ELSE "lockNew")
  /\ UNCHANGED <<thread, sem, lists, frame, locks, driver, ready>>

\* Mutant: mDrawMgrWinLock is not taken.
LockNew_Own(p) ==
  /\ ctl[p] = "lockNew" /\ Goto(p, "open")
  /\ opener' = p
  /\ locked' = [locked EXCEPT ![p] = {"new", "open"}]
  /\ idx' = [idx EXCEPT ![p] = 1]
  /\ UNCHANGED <<thread, sem, lists, frame, driver, ready>>

LockNew(p) ==
  /\ ctl[p] = "lockNew" /\ Goto(p, "open")
  /\ opener = Nobody /\ opener' = p
  /\ locked' = [locked EXCEPT ![p] = {"new", "open"}]
  /\ idx' = [idx EXCEPT ![p] = 1]
  /\ UNCHANGED <<thread, sem, lists, frame, driver, ready>>

\* A window that does not open is dropped.
OpenOne(p) ==
  LET w == new[p][idx[p]] IN
  /\ ctl[p] = "open" /\ idx[p] <= Len(new[p])
  /\ \/ /\ fate' = [fate EXCEPT ![w] = "opened"]
        /\ open' = [open EXCEPT ![p] = Append(@, w)]
        /\ dirty' = dirty \cup {w}
     \/ /\ fate' = [fate EXCEPT ![w] = "failed"]
        /\ UNCHANGED <<open, dirty>>
  /\ idx' = [idx EXCEPT ![p] = @ + 1]
  /\ UNCHANGED <<ctl, thread, sem, new, closing, removed, drawn, locked,
                 opener, driver, ready>>

AllTried(p) ==
  /\ ctl[p] = "open" /\ idx[p] > Len(new[p]) /\ Goto(p, "erase")
  /\ UNCHANGED <<thread, sem, lists, frame, locks, driver, ready>>

\* Mutant: mDrawMgrWinLock is not given back.
EndOpening_Keeps(p) ==
  /\ ctl[p] = "erase" /\ Goto(p, "test")
  /\ new' = [new EXCEPT ![p] = << >>]
  /\ locked' = [locked EXCEPT ![p] = {}]
  /\ UNCHANGED <<thread, sem, open, closing, fate, removed, frame, idx, opener,
                 driver, ready>>

EndOpening(p) ==
  /\ ctl[p] = "erase" /\ Goto(p, "test")
  /\ new' = [new EXCEPT ![p] = << >>]
  /\ locked' = [locked EXCEPT ![p] = {}] /\ opener' = Nobody
  /\ UNCHANGED <<thread, sem, open, closing, fate, removed, frame, idx, driver,
                 ready>>

Control(p) ==
  \/ Assign(p) \/ Begin(p) \/ Test(p) \/ Leave(p) \/ Render(p) \/ Swap(p)
  \/ CheckClosing(p) \/ LockClosing(p) \/ CloseOne(p) \/ AllClosed(p)
  \/ EndClosing(p) \/ CheckNew(p) \/ LockNew(p) \/ OpenOne(p) \/ AllTried(p)
  \/ EndOpening(p)

----------------------------------------------------------------------------
(***************************************************************************)
(* addWindow() and removeWindow(), from any thread, until the pipes are    *)
(* being stopped.  Each window is added once and removed at most once.     *)
(***************************************************************************)
Stopping == kernel \in {"snapshot", "removeAll", "setExit", "stopRender",
                        "stopSwap", "join", "done"}

\* Mutant: addWindow() without mNewWinLock.
AddWindow_NoLock(w) ==
  LET p == Home[w] IN
  /\ ~Stopping /\ fate[w] = "unborn"
  /\ new' = [new EXCEPT ![p] = Append(@, w)]
  /\ fate' = [fate EXCEPT ![w] = "added"]
  /\ UNCHANGED <<ctl, thread, sem, open, closing, removed, frame, locks, driver,
                 ready>>

AddWindow(w) ==
  LET p == Home[w] IN
  /\ ~Stopping /\ fate[w] = "unborn" /\ "new" \notin locked[p]
  /\ new' = [new EXCEPT ![p] = Append(@, w)]
  /\ fate' = [fate EXCEPT ![w] = "added"]
  /\ UNCHANGED <<ctl, thread, sem, open, closing, removed, frame, locks, driver,
                 ready>>

RemoveWindow(w) ==
  LET p == Home[w] IN
  /\ ~Stopping /\ fate[w] # "unborn" /\ w \notin removed
  /\ "closing" \notin locked[p]
  /\ closing' = [closing EXCEPT ![p] = Append(@, w)]
  /\ removed' = removed \cup {w}
  /\ UNCHANGED <<ctl, thread, sem, new, open, fate, frame, locks, driver, ready>>

(***************************************************************************)
(* The kernel thread: a frame.                                             *)
(***************************************************************************)
StartFrame ==
  /\ kernel = "idle" /\ kernel' = "triggerRender" /\ left' = Pipes
  /\ UNCHANGED <<ctl, thread, sem, lists, frame, locks, victim, snapshot, ready>>

Visit(k, p) == /\ kernel = k /\ p \in left /\ left' = left \ {p}
               /\ UNCHANGED <<ctl, thread, lists, frame, locks, kernel, victim,
                              snapshot, ready>>

\* Mutant: triggerRender() does not wait for the thread to run.
TriggerRender_NoWait(p)  == Visit("triggerRender", p) /\ Up(p, "rt")
TriggerRender(p)  == Visit("triggerRender", p) /\ running[p] /\ Up(p, "rt")
\* Mutant: completeRender() does not wait.
CompleteRender_NoWait(p) == Visit("completeRender", p) /\ UNCHANGED sem
CompleteRender(p) == Visit("completeRender", p) /\ Down(p, "rc")
TriggerSwap(p)    == Visit("triggerSwap", p) /\ Up(p, "st")
CompleteSwap(p)   == Visit("completeSwap", p) /\ Down(p, "sc")

After == [triggerRender |-> "completeRender", completeRender |-> "triggerSwap",
          triggerSwap |-> "completeSwap", completeSwap |-> "idle"]
EndLoop ==
  /\ kernel \in DOMAIN After /\ left = {}
  /\ kernel' = After[kernel]
  /\ left' = IF kernel' = "idle" THEN {} ELSE Pipes
  /\ UNCHANGED <<ctl, thread, sem, lists, frame, locks, victim, snapshot, ready>>

Frame == \/ StartFrame \/ EndLoop
         \/ \E p \in Pipes : \/ TriggerRender(p) \/ CompleteRender(p)
                             \/ TriggerSwap(p) \/ CompleteSwap(p)

(***************************************************************************)
(* stop(), one pipe after the other.                                       *)
(***************************************************************************)
StopAll ==
  /\ kernel = "idle" /\ kernel' = "snapshot" /\ left' = Pipes
  /\ UNCHANGED <<ctl, thread, sem, lists, frame, locks, victim, snapshot, ready>>

Snapshot(p) ==
  /\ kernel = "snapshot" /\ p \in left
  /\ left' = left \ {p} /\ victim' = p /\ snapshot' = open[p]
  /\ kernel' = "removeAll"
  /\ UNCHANGED <<ctl, thread, sem, lists, frame, locks, ready>>

RemoveAll ==
  /\ kernel = "removeAll"
  /\ \/ /\ snapshot = << >> /\ kernel' = "setExit"
        /\ UNCHANGED <<closing, removed, snapshot>>
     \/ /\ snapshot # << >> /\ "closing" \notin locked[victim]
        /\ closing' = [closing EXCEPT ![victim] = Append(@, Head(snapshot))]
        /\ removed' = removed \cup {Head(snapshot)}
        /\ snapshot' = Tail(snapshot) /\ UNCHANGED kernel
  /\ UNCHANGED <<ctl, thread, sem, new, open, fate, frame, locks, left, victim,
                 ready>>

SetExit ==
  /\ kernel = "setExit" /\ kernel' = "stopRender"
  /\ exit' = [exit EXCEPT ![victim] = TRUE]
  /\ UNCHANGED <<ctl, running, active, sem, lists, frame, locks, left, victim,
                 snapshot, ready>>

\* triggerRender(): while ( ! mThreadRunning ) yield.
StopRender ==
  /\ kernel = "stopRender" /\ running[victim] /\ Up(victim, "rt")
  /\ kernel' = "stopSwap"
  /\ UNCHANGED <<ctl, thread, lists, frame, locks, left, victim, snapshot, ready>>

\* Mutant: stop() does not trigger the swap.
StopSwap_None ==
  /\ kernel = "stopSwap" /\ UNCHANGED sem
  /\ kernel' = "join"
  /\ UNCHANGED <<ctl, thread, lists, frame, locks, left, victim, snapshot, ready>>

\* triggerSwap().  Its vprASSERT(mThreadRunning) is compiled into debug builds
\* of VPR only and is left out here: it fails if the control loop, which may
\* see mControlExit from now on, has already left.
StopSwap ==
  /\ kernel = "stopSwap" /\ Up(victim, "st")
  /\ kernel' = "join"
  /\ UNCHANGED <<ctl, thread, lists, frame, locks, left, victim, snapshot, ready>>

Join ==
  /\ kernel = "join" /\ ctl[victim] = "exited"
  /\ kernel' = IF left = {} THEN "done" ELSE "snapshot"
  /\ UNCHANGED <<ctl, thread, sem, lists, frame, locks, left, victim, snapshot,
                 ready>>

Stop == \/ RemoveAll \/ SetExit \/ StopRender \/ StopSwap \/ Join
        \/ \E p \in Pipes : Snapshot(p)

\* The cluster becomes ready, and stays so.
ClusterReady ==
  /\ Clustered /\ ~ready /\ ready' = TRUE
  /\ UNCHANGED <<ctl, thread, sem, lists, frame, locks, driver>>

Next ==
  \/ \E p \in Pipes : Control(p)
  \/ \E w \in Windows : AddWindow(w) \/ RemoveWindow(w)
  \/ Frame \/ StopAll \/ Stop \/ ClusterReady

Spec == Init /\ [][Next]_vars

(***************************************************************************)
(* Every thread goes on when it can, the kernel runs frame after frame,    *)
(* and the nodes of a cluster get ready.  Nobody has to add, to remove or  *)
(* to stop anything.                                                       *)
(***************************************************************************)
FairSpec == /\ Spec /\ WF_vars(Frame) /\ WF_vars(Stop) /\ WF_vars(ClusterReady)
            /\ \A p \in Pipes : WF_vars(Control(p))

----------------------------------------------------------------------------
CtlPlaces == {"spawned", "assigned", "test", "leaving", "exited", "render",
              "swap", "checkClosing", "lockClosing", "close", "clear",
              "checkNew", "lockNew", "open", "erase"}
KernelPlaces == DOMAIN After \cup
  {"idle", "snapshot", "removeAll", "setExit", "stopRender", "stopSwap", "join",
   "done"}

\* The semaphores never count above one, but for rc and sc, which stop()
\* leaves unacquired.
TypeOK ==
  /\ ctl \in [Pipes -> CtlPlaces]
  /\ running \in [Pipes -> BOOLEAN] /\ active \in [Pipes -> BOOLEAN]
  /\ exit \in [Pipes -> BOOLEAN]
  /\ sem \in [Pipes -> [rt: 0 .. 1, rc: 0 .. 1, st: 0 .. 1, sc: 0 .. 1]]
  /\ new \in [Pipes -> Seq(Windows)] /\ open \in [Pipes -> Seq(Windows)]
  /\ closing \in [Pipes -> Seq(Windows)]
  /\ idx \in [Pipes -> Nat \ {0}] /\ locked \in [Pipes -> SUBSET Locks]
  /\ opener \in Pipes \cup {Nobody}
  /\ drawn \in [Pipes -> Seq(Windows)] /\ dirty \subseteq Windows
  /\ fate \in [Windows -> {"unborn", "added", "opened", "failed", "closed"}]
  /\ removed \subseteq Windows
  /\ kernel \in KernelPlaces /\ left \subseteq Pipes
  /\ victim \in Pipes \cup {Nobody} /\ snapshot \in Seq(Windows)
  /\ ready \in BOOLEAN

(* Lines 374-375: while one pipe opens its windows no other does, and the  *)
(* lock is never held by a pipe that is not opening.                       *)
OneOpensAtATime ==
  \A p \in Pipes : ctl[p] \in {"open", "erase"} <=> opener = p

(* No request gets lost between the threads: a window waits in mNewWins    *)
(* until it was tried, is in mOpenWins while open, and a removed one waits *)
(* in mClosingWins until it is closed.  What the loop has passed does not  *)
(* count: the lists are emptied at its end, whatever was put there since.  *)
From(s, i)  == {s[j] : j \in i .. Len(s)}
Unclosed(p) == IF ctl[p] \in {"close", "clear"} THEN From(closing[p], idx[p])
                                               ELSE Elems(closing[p])
Untried(p)  == IF ctl[p] \in {"open", "erase"} THEN From(new[p], idx[p])
                                              ELSE Elems(new[p])
NothingForgotten ==
  \A w \in Windows :
    /\ fate[w] = "added" => w \in Untried(Home[w])
    /\ fate[w] = "opened" => w \in Elems(open[Home[w]])
    /\ w \in removed => fate[w] = "closed" \/ w \in Unclosed(Home[w])

(* The windows whose buffers are swapped are those drawn in this frame.    *)
SwapsWhatItDrew ==
  \A p \in Pipes : ctl[p] = "swap" => drawn[p] = open[p]

(* Outside a cluster, contextClose() is called for an open window only     *)
(* after contextInit() was, however quickly it was added and removed.      *)
ClosedAfterInit ==
  \A p \in Pipes : ctl[p] = "close" /\ idx[p] <= Len(closing[p]) /\ ~Clustered
    => LET w == closing[p][idx[p]] IN w \in Elems(open[p]) => w \notin dirty

(* The assertions of completeRender, triggerSwap and completeSwap hold in  *)
(* every frame, and stop() joins a thread that is there.  The call of      *)
(* triggerSwap in stop() is not of a frame: see StopSwap.                  *)
AssertionsInFrames ==
  /\ kernel \in {"completeRender", "triggerSwap", "completeSwap"}
       => \A p \in Pipes : running[p]
  /\ kernel = "join" => active[victim]

(* The pipes keep the frames in lockstep until they are stopped.           *)
Stage == IF Stopping THEN "disbanded"
         ELSE IF kernel \in {"triggerSwap", "completeSwap"} THEN "swap" ELSE "render"
Did   == [p \in Pipes |-> IF ctl[p] = "swap" THEN "rendered" ELSE "swapped"]
Abstract == INSTANCE FrameSync WITH stage <- Stage, did <- Did
Lockstep == Abstract!Spec

(* A window that was added is opened, or fails to, or is removed; one that *)
(* was removed is closed; unless the pipes are stopped first.              *)
WindowsHandled ==
  \A w \in Windows :
    /\ fate[w] = "added" ~> fate[w] # "added" \/ Stopping
    /\ w \in removed ~> fate[w] = "closed" \/ Stopping

(* Every frame that was begun comes to an end, cluster or not, whatever    *)
(* opens and closes.                                                       *)
FrameEnds == kernel = "triggerRender" ~> kernel = "idle"

(* stop() joins the thread if the control loop was past its test when      *)
(* mControlExit was set.                                                   *)
CaughtInFrame(p) == kernel = "stopRender" /\ victim = p /\ ctl[p] = "render"
CaughtIsJoined ==
  \A p \in Pipes : CaughtInFrame(p) ~> victim # p \/ kernel = "done"
                                       \/ kernel = "snapshot"

----------------------------------------------------------------------------
(* What a comment says without that condition.                             *)

(* Lines 307-309: "We only care about joining the thread": stop() returns. *)
StopReturns == Stopping ~> kernel = "done"
=============================================================================
