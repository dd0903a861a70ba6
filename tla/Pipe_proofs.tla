---------------------------- MODULE Pipe_proofs ----------------------------
(***************************************************************************)
(* Proofs about Pipe for any pipes and windows: one pipe at a time opens   *)
(* its windows, and the pipes keep the kernel's frames in lockstep         *)
(* (FrameSync), whatever is added and removed meanwhile.                   *)
(***************************************************************************)
EXTENDS Pipe, TLAPS

\* As much of the type invariant as the proofs need.
Types ==
  /\ ctl \in [Pipes -> CtlPlaces]
  /\ sem \in [Pipes -> [rt: Nat, rc: Nat, st: Nat, sc: Nat]]
  /\ kernel \in KernelPlaces
  /\ left \subseteq Pipes

(***************************************************************************)
(* What the semaphores of a pipe and the place of its control loop can be, *)
(* by how far the kernel has got with it in the frame.                     *)
(***************************************************************************)
Count(p, a, b, c, d) ==
  sem[p].rt = a /\ sem[p].rc = b /\ sem[p].st = c /\ sem[p].sc = d
Resting(p)   == Count(p, 0, 0, 0, 0) /\ ctl[p] # "swap"
Rendering(p) == \/ Count(p, 1, 0, 0, 0) /\ ctl[p] # "swap"
                \/ Count(p, 0, 1, 0, 0) /\ ctl[p] = "swap"
Rendered(p)  == Count(p, 0, 0, 0, 0) /\ ctl[p] = "swap"
Swapping(p)  == \/ Count(p, 0, 0, 1, 0) /\ ctl[p] = "swap"
                \/ Count(p, 0, 0, 0, 1) /\ ctl[p] # "swap"

FrameInv ==
  \A p \in Pipes :
    /\ kernel = "idle" => Resting(p)
    /\ kernel = "triggerRender" => IF p \in left THEN Resting(p) ELSE Rendering(p)
    /\ kernel = "completeRender" => IF p \in left THEN Rendering(p) ELSE Rendered(p)
    /\ kernel = "triggerSwap" => IF p \in left THEN Rendered(p) ELSE Swapping(p)
    /\ kernel = "completeSwap" => IF p \in left THEN Swapping(p) ELSE Resting(p)

IInv == Types /\ FrameInv /\ OneOpensAtATime

\* The steps that leave the semaphores, the kernel and ctl = "swap" alone.
Quiet(p) == \/ Assign(p) \/ Begin(p) \/ Test(p) \/ Leave(p) \/ CheckClosing(p)
            \/ LockClosing(p) \/ CloseOne(p) \/ AllClosed(p) \/ EndClosing(p)
            \/ CheckNew(p) \/ LockNew(p) \/ OpenOne(p) \/ AllTried(p)
            \/ EndOpening(p)

USE DEF CtlPlaces, KernelPlaces, After, vars, thread, lists, frame, locks, driver

LEMMA InitIInv == Init => IInv
<1> SUFFICES ASSUME Init PROVE IInv OBVIOUS
<1>1. Types BY DEF Init, Types
<1>2. FrameInv BY DEF Init, FrameInv, Resting, Count
<1>3. OneOpensAtATime BY PipeAssumption DEF Init, OneOpensAtATime
<1> QED BY <1>1, <1>2, <1>3 DEF IInv

LEMMA QuietStep ==
  ASSUME Types, NEW p \in Pipes, Quiet(p)
  PROVE  /\ ctl[p] # "swap" /\ sem' = sem /\ kernel' = kernel /\ left' = left
         /\ \E l \in CtlPlaces \ {"swap"} : ctl' = [ctl EXCEPT ![p] = l]
<1>1. CASE Assign(p) BY <1>1 DEF Assign, Goto, Types
<1>2. CASE Begin(p) BY <1>2 DEF Begin, Goto, Types
<1>3. CASE Test(p) BY <1>3 DEF Test, Goto, Types
<1>4. CASE Leave(p) BY <1>4 DEF Leave, Goto, Types
<1>5. CASE CheckClosing(p) BY <1>5 DEF CheckClosing, Goto, Types
<1>6. CASE LockClosing(p) BY <1>6 DEF LockClosing, Goto, Types
<1>7. CASE CloseOne(p)
  <2>1. ctl' = [ctl EXCEPT ![p] = "close"] BY <1>7 DEF CloseOne, Types
  <2> QED BY <1>7, <2>1 DEF CloseOne, Types
<1>8. CASE AllClosed(p) BY <1>8 DEF AllClosed, Goto, Types
<1>9. CASE EndClosing(p) BY <1>9 DEF EndClosing, Goto, Types
<1>10. CASE CheckNew(p) BY <1>10 DEF CheckNew, Goto, Types
<1>11. CASE LockNew(p) BY <1>11 DEF LockNew, Goto, Types
<1>12. CASE OpenOne(p)
  <2>1. ctl' = [ctl EXCEPT ![p] = "open"] BY <1>12 DEF OpenOne, Types
  <2> QED BY <1>12, <2>1 DEF OpenOne, Types
<1>13. CASE AllTried(p) BY <1>13 DEF AllTried, Goto, Types
<1>14. CASE EndOpening(p) BY <1>14 DEF EndOpening, Goto, Types
<1> QED
  BY <1>1, <1>2, <1>3, <1>4, <1>5, <1>6, <1>7, <1>8, <1>9, <1>10, <1>11, <1>12,
     <1>13, <1>14 DEF Quiet

\* Adding, removing and the cluster touch nothing of the frame.
Aside == ClusterReady \/ \E w \in Windows : AddWindow(w) \/ RemoveWindow(w)
LEMMA AsideStep ==
  ASSUME Aside \/ UNCHANGED vars
  PROVE  UNCHANGED <<ctl, sem, kernel, left, opener>>
BY DEF Aside, ClusterReady, AddWindow, RemoveWindow

LEMMA NextCases ==
  ASSUME [Next]_vars
  PROVE  \/ \E p \in Pipes : Quiet(p) \/ Render(p) \/ Swap(p)
         \/ Aside \/ UNCHANGED vars
         \/ Frame \/ StopAll \/ Stop
BY DEF Next, Control, Quiet, Aside

LEMMA FrameCases ==
  ASSUME Frame
  PROVE  \/ StartFrame \/ EndLoop
         \/ \E p \in Pipes : \/ TriggerRender(p) \/ CompleteRender(p)
                             \/ TriggerSwap(p) \/ CompleteSwap(p)
BY DEF Frame

----------------------------------------------------------------------------
SemTypes == [Pipes -> [rt: Nat, rc: Nat, st: Nat, sc: Nat]]
LEMMA UpTypes ==
  ASSUME sem \in SemTypes, NEW p, NEW s \in {"rt", "st"}, Up(p, s)
  PROVE  sem' \in SemTypes
<1>1. CASE p \in Pipes
  <2>1. CASE s = "rt" BY <1>1, <2>1 DEF Up, SemTypes
  <2>2. CASE s = "st" BY <1>1, <2>2 DEF Up, SemTypes
  <2> QED BY <2>1, <2>2
<1>2. CASE p \notin Pipes BY <1>2 DEF Up, SemTypes
<1> QED BY <1>1, <1>2

LEMMA TypesStep == Types /\ [Next]_vars => Types'
<1> SUFFICES ASSUME Types, [Next]_vars PROVE Types' OBVIOUS
<1>1. ASSUME NEW p \in Pipes, Quiet(p) PROVE Types'
  BY <1>1, QuietStep DEF Types
<1>2. ASSUME NEW p \in Pipes, Render(p) PROVE Types'
  BY <1>2 DEF Render, Pass, Goto, Types
<1>3. ASSUME NEW p \in Pipes, Swap(p) PROVE Types'
  BY <1>3 DEF Swap, Pass, Goto, Types
<1>4. CASE Aside \/ UNCHANGED vars BY <1>4, AsideStep DEF Types
<1>5. CASE Frame
  <2>1. CASE StartFrame BY <2>1 DEF StartFrame, Types
  <2>2. CASE EndLoop BY <2>2 DEF EndLoop, Types
  <2>3. ASSUME NEW p \in Pipes, TriggerRender(p) PROVE Types'
    BY <2>3 DEF TriggerRender, Visit, Up, Types
  <2>4. ASSUME NEW p \in Pipes, CompleteRender(p) PROVE Types'
    BY <2>4 DEF CompleteRender, Visit, Down, Types
  <2>5. ASSUME NEW p \in Pipes, TriggerSwap(p) PROVE Types'
    BY <2>5 DEF TriggerSwap, Visit, Up, Types
  <2>6. ASSUME NEW p \in Pipes, CompleteSwap(p) PROVE Types'
    BY <2>6 DEF CompleteSwap, Visit, Down, Types
  <2> QED BY <1>5, FrameCases, <2>1, <2>2, <2>3, <2>4, <2>5, <2>6
<1>6. CASE StopAll BY <1>6 DEF StopAll, Types
<1>7. CASE Stop
  <2>1. ASSUME NEW p \in Pipes, Snapshot(p) PROVE Types'
    BY <2>1 DEF Snapshot, Types
  <2>2. CASE RemoveAll BY <2>2 DEF RemoveAll, Types
  <2>3. CASE SetExit BY <2>3 DEF SetExit, Types
  <2>4. CASE StopRender BY <2>4, UpTypes DEF StopRender, Types, SemTypes
  <2>5. CASE StopSwap BY <2>5, UpTypes DEF StopSwap, Types, SemTypes
  <2>6. CASE Join BY <2>6 DEF Join, Types
  <2> QED BY <1>7, <2>1, <2>2, <2>3, <2>4, <2>5, <2>6 DEF Stop
<1> QED BY NextCases, <1>1, <1>2, <1>3, <1>4, <1>5, <1>6, <1>7

LEMMA FrameStep == Types /\ FrameInv /\ [Next]_vars => FrameInv'
<1> SUFFICES ASSUME Types, FrameInv, [Next]_vars PROVE FrameInv' OBVIOUS
<1> USE DEF FrameInv, Resting, Rendering, Rendered, Swapping, Count
<1>1. ASSUME NEW p \in Pipes, Quiet(p) PROVE FrameInv'
  BY <1>1, QuietStep DEF Types
<1>2. ASSUME NEW p \in Pipes, Render(p) PROVE FrameInv'
  BY <1>2 DEF Render, Pass, Goto, Types
<1>3. ASSUME NEW p \in Pipes, Swap(p) PROVE FrameInv'
  BY <1>3 DEF Swap, Pass, Goto, Types
<1>4. CASE Aside \/ UNCHANGED vars BY <1>4, AsideStep
<1>5. CASE Frame
  <2>1. CASE StartFrame BY <2>1 DEF StartFrame
  <2>2. CASE EndLoop BY <2>2 DEF EndLoop
  <2>3. ASSUME NEW p \in Pipes, TriggerRender(p) PROVE FrameInv'
    BY <2>3 DEF TriggerRender, Visit, Up, Types
  <2>4. ASSUME NEW p \in Pipes, CompleteRender(p) PROVE FrameInv'
    BY <2>4 DEF CompleteRender, Visit, Down, Types
  <2>5. ASSUME NEW p \in Pipes, TriggerSwap(p) PROVE FrameInv'
    BY <2>5 DEF TriggerSwap, Visit, Up, Types
  <2>6. ASSUME NEW p \in Pipes, CompleteSwap(p) PROVE FrameInv'
    BY <2>6 DEF CompleteSwap, Visit, Down, Types
  <2> QED BY <1>5, FrameCases, <2>1, <2>2, <2>3, <2>4, <2>5, <2>6
<1>6. CASE StopAll \/ Stop
  BY <1>6 DEF StopAll, Stop, Snapshot, RemoveAll, SetExit, StopRender, StopSwap,
              Join
<1> QED BY NextCases, <1>1, <1>2, <1>3, <1>4, <1>5, <1>6

LEMMA OpenerStep == Types /\ OneOpensAtATime /\ [Next]_vars => OneOpensAtATime'
<1> SUFFICES ASSUME Types, OneOpensAtATime, [Next]_vars PROVE OneOpensAtATime'
  OBVIOUS
<1> USE DEF OneOpensAtATime
<1>1. ASSUME NEW p \in Pipes, Quiet(p) PROVE OneOpensAtATime'
  <2> USE PipeAssumption DEF Types, Goto
  <2>1. CASE LockNew(p) BY <2>1 DEF LockNew
  <2>2. CASE EndOpening(p) BY <2>2 DEF EndOpening
  <2>3. CASE Assign(p) \/ Begin(p) \/ Test(p) \/ Leave(p) \/ CheckClosing(p)
    BY <2>3 DEF Assign, Begin, Test, Leave, CheckClosing
  <2>4. CASE LockClosing(p) \/ AllClosed(p) \/ EndClosing(p) \/ CheckNew(p)
    BY <2>4 DEF LockClosing, AllClosed, EndClosing, CheckNew
  <2>5. CASE CloseOne(p) \/ OpenOne(p) \/ AllTried(p)
    BY <2>5 DEF CloseOne, OpenOne, AllTried
  <2> QED BY <1>1, <2>1, <2>2, <2>3, <2>4, <2>5 DEF Quiet
<1>2. ASSUME NEW p \in Pipes, Render(p) \/ Swap(p) PROVE OneOpensAtATime'
  BY <1>2 DEF Render, Swap, Goto, Types
<1>3. CASE Aside \/ UNCHANGED vars BY <1>3, AsideStep
<1>4. CASE Frame
  BY <1>4 DEF Frame, StartFrame, EndLoop, TriggerRender, CompleteRender,
              TriggerSwap, CompleteSwap, Visit
<1>5. CASE StopAll \/ Stop
  BY <1>5 DEF StopAll, Stop, Snapshot, RemoveAll, SetExit, StopRender, StopSwap,
              Join
<1> QED BY NextCases, <1>1, <1>2, <1>3, <1>4, <1>5

LEMMA Invariance == Spec => []IInv
<1>1. IInv /\ [Next]_vars => IInv'
  BY TypesStep, FrameStep, OpenerStep DEF IInv
<1> QED BY <1>1, InitIInv, PTL DEF Spec

(* While one pipe opens its windows no other does (lines 374-375).         *)
THEOREM OneOpening == Spec => []OneOpensAtATime
<1>1. IInv => OneOpensAtATime BY DEF IInv
<1> QED BY <1>1, Invariance, PTL

----------------------------------------------------------------------------
(***************************************************************************)
(* The refinement: each step of Pipe is a step of FrameSync or none.       *)
(***************************************************************************)
LEMMA InitRefines == Init => Abstract!Init
BY DEF Init, Abstract!Init, Stage, Did, Stopping

LEMMA StepRefines ==
  IInv /\ IInv' /\ [Next]_vars => [Abstract!Next]_<<Stage, Did>>
<1> SUFFICES ASSUME IInv, IInv', [Next]_vars
             PROVE  Abstract!Next \/ UNCHANGED <<Stage, Did>>
  OBVIOUS
<1> USE DEF IInv, Stage, Did, Stopping
<1>1. ASSUME NEW p \in Pipes, Quiet(p) PROVE UNCHANGED <<Stage, Did>>
  BY <1>1, QuietStep DEF Types
<1>2. ASSUME NEW p \in Pipes, Render(p)
      PROVE  Abstract!Render(p) \/ Abstract!Disbanded
  <2>1. CASE Stopping
    BY <1>2, <2>1 DEF Render, Abstract!Disbanded
  <2>2. CASE ~Stopping
    <3>1. kernel \in {"triggerRender", "completeRender"}
      <4>1. FrameInv /\ ctl[p] = "render" /\ sem[p].rt > 0
        BY <1>2 DEF Render, Pass
      <4> QED BY <2>2, <4>1 DEF Types, FrameInv, Resting, Rendering, Rendered, Swapping, Count
    <3> QED BY <1>2, <3>1 DEF Render, Goto, Types, Abstract!Render
  <2> QED BY <2>1, <2>2
<1>3. ASSUME NEW p \in Pipes, Swap(p)
      PROVE  Abstract!Swap(p) \/ Abstract!Disbanded
  <2>1. CASE Stopping
    BY <1>3, <2>1 DEF Swap, Abstract!Disbanded
  <2>2. CASE ~Stopping
    <3>1. kernel \in {"triggerSwap", "completeSwap"}
      <4>1. FrameInv /\ ctl[p] = "swap" /\ sem[p].st > 0
        BY <1>3 DEF Swap, Pass
      <4> QED BY <2>2, <4>1 DEF Types, FrameInv, Resting, Rendering, Rendered, Swapping, Count
    <3> QED BY <1>3, <3>1 DEF Swap, Goto, Types, Abstract!Swap
  <2> QED BY <2>1, <2>2
<1>4. CASE Aside \/ UNCHANGED vars BY <1>4, AsideStep
<1>5. CASE Frame
  <2>1. CASE EndLoop /\ kernel = "completeRender"
    <3>1. \A p \in Pipes : ctl[p] = "swap"
      BY <2>1 DEF EndLoop, FrameInv, Rendered
    <3> QED BY <2>1, <3>1 DEF EndLoop, Abstract!Next, Abstract!AllRendered
  <2>2. CASE EndLoop /\ kernel = "completeSwap"
    <3>1. \A p \in Pipes : ctl[p] # "swap"
      BY <2>2 DEF EndLoop, FrameInv, Resting
    <3> QED BY <2>2, <3>1 DEF EndLoop, Abstract!Next, Abstract!AllSwapped
  <2>3. CASE EndLoop /\ kernel \in {"triggerRender", "triggerSwap"}
    BY <2>3 DEF EndLoop
  <2>4. CASE StartFrame BY <2>4 DEF StartFrame
  <2>5. ASSUME NEW p \in Pipes,
               \/ TriggerRender(p) \/ CompleteRender(p)
               \/ TriggerSwap(p) \/ CompleteSwap(p)
        PROVE  UNCHANGED <<Stage, Did>>
    BY <2>5 DEF TriggerRender, CompleteRender, TriggerSwap, CompleteSwap, Visit
  <2>6. EndLoop => kernel \in {"triggerRender", "completeRender", "triggerSwap",
                               "completeSwap"}
    BY DEF EndLoop
  <2> QED BY <1>5, FrameCases, <2>1, <2>2, <2>3, <2>4, <2>5, <2>6
<1>6. CASE StopAll
  <2>1. \A p \in Pipes : ctl[p] # "swap" BY <1>6 DEF StopAll, FrameInv, Resting
  <2> QED BY <1>6, <2>1 DEF StopAll, Abstract!Next, Abstract!Disband
<1>7. CASE Stop
  BY <1>7 DEF Stop, Snapshot, RemoveAll, SetExit, StopRender, StopSwap, Join
<1> QED BY NextCases, <1>1, <1>2, <1>3, <1>4, <1>5, <1>6, <1>7
        DEF Abstract!Next

(* The pipes render and swap every frame in lockstep, until they are       *)
(* stopped: Pipe implements FrameSync under the mapping Stage, Did.        *)
THEOREM PipeRefinesFrameSync == Spec => Lockstep
<1> QED BY InitRefines, StepRefines, Invariance, PTL
        DEF Spec, Lockstep, Abstract!Spec
=============================================================================
