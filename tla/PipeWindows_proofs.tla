------------------------- MODULE PipeWindows_proofs -------------------------
(***************************************************************************)
(* Proofs about Pipe for any pipes and windows: the windows that other     *)
(* threads add and remove are handled as promised, whatever the control    *)
(* loops, the kernel's frames and stop() do meanwhile.                     *)
(***************************************************************************)
EXTENDS Pipe_proofs, SequenceTheorems

(* The rest of TypeOK.                                                     *)
Typed ==
  /\ running \in [Pipes -> BOOLEAN] /\ active \in [Pipes -> BOOLEAN]
  /\ exit \in [Pipes -> BOOLEAN]
  /\ new \in [Pipes -> Seq(Windows)] /\ open \in [Pipes -> Seq(Windows)]
  /\ closing \in [Pipes -> Seq(Windows)] /\ drawn \in [Pipes -> Seq(Windows)]
  /\ idx \in [Pipes -> Nat \ {0}] /\ locked \in [Pipes -> SUBSET Locks]
  /\ opener \in Pipes \cup {Nobody}
  /\ fate \in [Windows -> {"unborn", "added", "opened", "failed", "closed"}]
  /\ dirty \subseteq Windows /\ removed \subseteq Windows
  /\ victim \in Pipes \cup {Nobody} /\ snapshot \in Seq(Windows)
  /\ ready \in BOOLEAN

(* stop() leaves a pipe one render and one swap, taken or not.             *)
Spent(p) == sem[p].rt + sem[p].rc = 1 /\ sem[p].st + sem[p].sc = 1
Untouched(p) == p \in left \/ (p = victim /\ kernel \in {"removeAll", "setExit", "stopRender"})
StopSems(p) ==
  IF Untouched(p) THEN Count(p, 0, 0, 0, 0)
  ELSE IF p = victim /\ kernel = "stopSwap" THEN Count(p, 1, 0, 0, 0) \/ Count(p, 0, 1, 0, 0)
  ELSE Spent(p)
StopInv ==
  /\ Stopping => \A p \in Pipes : StopSems(p)
  /\ Stopping /\ kernel \notin {"snapshot", "done"} => victim \in Pipes \ left

(* What is set while a thread runs.                                        *)
Thread(p) ==
  /\ running[p] <=> ctl[p] \notin {"spawned", "assigned", "exited"}
  /\ active[p] <=> ctl[p] # "spawned"
  /\ ctl[p] \in {"leaving", "exited"} => exit[p]
  /\ exit[p] => Stopping
  /\ kernel = "triggerRender" => running[p] \/ p \in left
  /\ kernel \in {"completeRender", "triggerSwap", "completeSwap"} => running[p]
ThreadInv ==
  /\ \A p \in Pipes : Thread(p)
  /\ kernel \in {"stopSwap", "join"} => active[victim]

(* What the loops over the lists hold, and where they end.                 *)
Locking(p) ==
  /\ ctl[p] \in {"close", "clear"} => locked[p] = Locks
  /\ ctl[p] \in {"open", "erase"} => locked[p] = {"new", "open"}
  /\ ctl[p] = "clear" => idx[p] > Len(closing[p])
  /\ ctl[p] = "erase" => idx[p] > Len(new[p])

(* Whose windows are where.                                                *)
NoDup(s) == \A i, j \in DOMAIN s : s[i] = s[j] => i = j
Listed(p) ==
  /\ NoDup(new[p]) /\ NoDup(open[p])
  /\ \A w \in Elems(new[p]) : Home[w] = p /\ fate[w] # "unborn"
  /\ \A w \in Untried(p) : fate[w] = "added"
  /\ \A w \in Elems(open[p]) : Home[w] = p /\ fate[w] = "opened"
  /\ \A w \in Elems(closing[p]) : Home[w] = p
Kept(w) ==
  /\ fate[w] = "added" => w \in Untried(Home[w])
  /\ fate[w] = "opened" => w \in Elems(open[Home[w]])
  /\ w \in removed => fate[w] = "closed" \/ w \in Unclosed(Home[w])
ListInv ==
  /\ \A p \in Pipes : Locking(p) /\ Listed(p)
  /\ \A w \in Windows : Kept(w)
  /\ \A w \in Elems(snapshot) : Home[w] = victim

(* Outside a cluster the loop draws between opening and closing.           *)
AfterDraw == {"swap", "checkClosing", "lockClosing", "close", "clear", "checkNew", "lockNew"}
Clean(p) == ~Clustered /\ ctl[p] \in AfterDraw => \A w \in Elems(open[p]) : w \notin dirty
DrawInv == SwapsWhatItDrew /\ \A p \in Pipes : Clean(p)

FullInv == IInv /\ Typed /\ StopInv /\ ThreadInv /\ ListInv /\ DrawInv

----------------------------------------------------------------------------
(* Lists of windows.                                                       *)
LEMMA EmptyList == Elems(<< >>) = {} /\ NoDup(<< >>)
BY DEF Elems, NoDup

LEMMA ElemsOf ==
  ASSUME NEW s \in Seq(Windows)
  PROVE  /\ Elems(s) \subseteq Windows /\ From(s, 1) = Elems(s)
         /\ \A i \in 1 .. Len(s) : s[i] \in Elems(s)
         /\ s # << >> => Head(s) \in Elems(s) /\ Elems(Tail(s)) \subseteq Elems(s)
BY DEF Elems, From

LEMMA FromStep ==
  ASSUME NEW s \in Seq(Windows), NEW i \in Nat \ {0}
  PROVE  /\ From(s, i) \subseteq Elems(s)
         /\ i > Len(s) => From(s, i) = {}
         /\ i <= Len(s) => s[i] \in Elems(s) /\ From(s, i) = {s[i]} \cup From(s, i + 1)
         /\ i <= Len(s) /\ NoDup(s) => s[i] \notin From(s, i + 1)
<1>1. /\ From(s, i) \subseteq Elems(s)
      /\ i > Len(s) => From(s, i) = {}
      /\ i <= Len(s) => s[i] \in Elems(s)
  BY DEF Elems, From
<1>2. ASSUME i <= Len(s) PROVE From(s, i) = {s[i]} \cup From(s, i + 1)
  <2>1. i .. Len(s) = {i} \cup (i + 1 .. Len(s)) BY <1>2
  <2> QED BY <2>1 DEF From
<1>3. ASSUME i <= Len(s), NoDup(s) PROVE s[i] \notin From(s, i + 1)
  BY <1>3 DEF NoDup, From
<1> QED BY <1>1, <1>2, <1>3

LEMMA Appending ==
  ASSUME NEW s \in Seq(Windows), NEW w \in Windows
  PROVE  /\ Append(s, w) \in Seq(Windows)
         /\ Elems(Append(s, w)) = Elems(s) \cup {w}
         /\ NoDup(s) /\ w \notin Elems(s) => NoDup(Append(s, w))
<1> DEFINE t == Append(s, w)
           n == Len(s)
<1>1. /\ n \in Nat /\ DOMAIN s = 1 .. n /\ DOMAIN t = 1 .. n + 1
      /\ t[n + 1] = w /\ \A i \in 1 .. n : t[i] = s[i]
  OBVIOUS
<1>2. t \in Seq(Windows) OBVIOUS
<1> HIDE DEF t, n
<1>3. 1 .. n + 1 = 1 .. n \cup {n + 1} BY <1>1
<1>4. Elems(t) = Elems(s) \cup {w} BY <1>1, <1>3 DEF Elems
<1>5. ASSUME NoDup(s), w \notin Elems(s) PROVE NoDup(t)
  <2>1. \A i \in 1 .. n : t[i] # w BY <1>1, <1>5 DEF Elems
  <2>2. \A i, j \in 1 .. n : t[i] = t[j] => i = j BY <1>1, <1>5 DEF NoDup
  <2>3. \A i, j \in 1 .. n + 1 : t[i] = t[j] => i = j BY <1>1, <1>3, <2>1, <2>2
  <2> QED BY <1>1, <2>3, Zenon DEF NoDup
<1> QED BY <1>2, <1>4, <1>5 DEF t

LEMMA Removing ==
  ASSUME NEW s \in Seq(Windows), NEW w
  PROVE  /\ Without(s, w) \in Seq(Windows)
         /\ NoDup(s) => /\ NoDup(Without(s, w))
                        /\ Elems(Without(s, w)) = Elems(s) \ {w}
<1>1. CASE w \notin Elems(s) BY <1>1 DEF Without
<1>2. CASE w \in Elems(s)
  <2> DEFINE k == CHOOSE j \in DOMAIN s : s[j] = w
             t == SubSeq(s, 1, k - 1) \o SubSeq(s, k + 1, Len(s))
             n == Len(s)
  <2>1. k \in 1 .. n /\ s[k] = w /\ n \in Nat /\ DOMAIN s = 1 .. n
    BY <1>2 DEF Elems
  <2>2. Without(s, w) = t BY <1>2 DEF Without
  <2> HIDE DEF k
  <2> DEFINE a == SubSeq(s, 1, k - 1)
             b == SubSeq(s, k + 1, Len(s))
  <2>a. a \in Seq(Windows) /\ Len(a) = k - 1 /\ \A i \in 1 .. k - 1 : a[i] = s[i]
    BY <2>1
  <2>b. b \in Seq(Windows) /\ Len(b) = n - k /\ \A i \in 1 .. n - k : b[i] = s[k + i]
    <3>1. /\ b \in Seq(Windows) /\ Len(b) = n - k
          /\ \A i \in 1 .. n - k : b[i] = s[(k + 1) + i - 1]
      <4>1. k + 1 \in Int /\ n \in Int /\ \A i \in k + 1 .. n : s[i] \in Windows BY <2>1
      <4>2. b = SubSeq(s, k + 1, n) OBVIOUS
      <4> HIDE DEF b, n
      <4>3. /\ b \in Seq(Windows)
            /\ Len(b) = IF k + 1 <= n THEN n - (k + 1) + 1 ELSE 0
            /\ \A i \in 1 .. n - (k + 1) + 1 : b[i] = s[(k + 1) + i - 1]
        BY <4>1, <4>2, SubSeqProperties
      <4>4. n - (k + 1) + 1 = n - k /\ k <= n BY <2>1
      <4> QED BY <2>1, <4>3, <4>4
    <3> HIDE DEF b, n
    <3>2. \A i \in 1 .. n - k : (k + 1) + i - 1 = k + i BY <2>1
    <3> QED BY <3>1, <3>2
  <2>t. t = a \o b OBVIOUS
  <2> HIDE DEF a, b, n, t
  <2>c. /\ t \in Seq(Windows) /\ Len(t) = Len(a) + Len(b)
        /\ \A i \in 1 .. Len(t) : t[i] = IF i <= Len(a) THEN a[i] ELSE b[i - Len(a)]
    BY <2>a, <2>b, <2>t, ConcatProperties
  <2>3. /\ t \in Seq(Windows) /\ Len(t) = n - 1
        /\ \A i \in 1 .. n - 1 : t[i] = IF i < k THEN s[i] ELSE s[i + 1]
    <3>1. Len(t) = n - 1 BY <2>1, <2>a, <2>b, <2>c
    <3>2. ASSUME NEW i \in 1 .. n - 1 PROVE t[i] = IF i < k THEN s[i] ELSE s[i + 1]
      <4>1. CASE i < k BY <2>1, <2>a, <2>c, <3>1, <4>1
      <4>2. CASE i >= k
        <5>1. i - (k - 1) \in 1 .. n - k /\ k + (i - (k - 1)) = i + 1 BY <2>1, <4>2
        <5> QED BY <2>1, <2>a, <2>b, <2>c, <3>1, <4>2, <5>1
      <4> QED BY <2>1, <4>1, <4>2
    <3> QED BY <2>c, <3>1, <3>2
  <2>4. DOMAIN t = 1 .. n - 1 BY <2>3
  <2>5. ASSUME NoDup(s) PROVE NoDup(t) /\ Elems(t) = Elems(s) \ {w}
    <3>0. \A i, j \in 1 .. n : s[i] = s[j] => i = j BY <2>1, <2>5, Zenon DEF NoDup
    <3>1. NoDup(t)
      <4>1. ASSUME NEW i \in 1 .. n - 1, NEW j \in 1 .. n - 1, t[i] = t[j] PROVE i = j
        <5> DEFINE At(x) == IF x < k THEN x ELSE x + 1
        <5>1. \A x \in 1 .. n - 1 : At(x) \in 1 .. n
          BY <2>1
        <5>2. \A x \in 1 .. n - 1 : t[x] = s[At(x)]
          BY <2>3
        <5>3. \A x, y \in 1 .. n - 1 : At(x) = At(y) => x = y
          BY <2>1
        <5> HIDE DEF At
        <5>4. s[At(i)] = s[At(j)]
          BY <4>1, <5>2, Zenon
        <5>5. At(i) = At(j)
          BY <3>0, <5>1, <5>4, Zenon
        <5> QED BY <5>3, <5>5, Zenon
      <4> QED BY <2>4, <4>1, Zenon DEF NoDup
    <3>2. ASSUME NEW e \in Elems(t) PROVE e \in Elems(s) /\ e # w
      <4>1. PICK i \in 1 .. n - 1 : e = t[i] BY <2>4 DEF Elems
      <4>2. PICK j \in 1 .. n : e = s[j] /\ j # k BY <2>1, <2>3, <4>1
      <4> QED BY <2>1, <2>5, <4>2 DEF Elems, NoDup
    <3>3. ASSUME NEW e \in Elems(s), e # w PROVE e \in Elems(t)
      <4>1. PICK j \in 1 .. n : e = s[j] /\ j # k BY <2>1, <3>3 DEF Elems
      <4>2. CASE j < k
        <5>1. j \in 1 .. n - 1 /\ t[j] = e BY <2>1, <2>3, <4>1, <4>2
        <5> QED BY <2>4, <5>1 DEF Elems
      <4>3. CASE j > k
        <5>1. j - 1 \in 1 .. n - 1 /\ t[j - 1] = e BY <2>1, <2>3, <4>1, <4>3
        <5> QED BY <2>4, <5>1 DEF Elems
      <4> QED BY <2>1, <4>1, <4>2, <4>3
    <3> QED BY <3>1, <3>2, <3>3
  <2> QED BY <2>2, <2>3, <2>5
<1> QED BY <1>1, <1>2

----------------------------------------------------------------------------
(* Types.                                                                  *)
USE DEF CtlPlaces, KernelPlaces, After, vars, thread, lists, frame, locks, driver

LEMMA InitTyped == Init => Typed
<1> SUFFICES ASSUME Init PROVE Typed OBVIOUS
<1>1. ready \in BOOLEAN BY PipeAssumption DEF Init
<1>2. << >> \in Seq(Windows) OBVIOUS
<1>3. /\ new \in [Pipes -> Seq(Windows)] /\ open \in [Pipes -> Seq(Windows)]
      /\ closing \in [Pipes -> Seq(Windows)] /\ drawn \in [Pipes -> Seq(Windows)]
      /\ snapshot \in Seq(Windows)
  BY <1>2, Zenon DEF Init
<1>4. /\ running \in [Pipes -> BOOLEAN] /\ active \in [Pipes -> BOOLEAN]
      /\ exit \in [Pipes -> BOOLEAN] /\ idx \in [Pipes -> Nat \ {0}]
      /\ locked \in [Pipes -> SUBSET Locks]
  BY DEF Init
<1> QED BY <1>1, <1>3, <1>4 DEF Init, Typed

LEMMA TypedStep == Types /\ Typed /\ OneOpensAtATime /\ [Next]_vars => Typed'
<1> SUFFICES ASSUME Types, Typed, OneOpensAtATime, [Next]_vars PROVE Typed'
  OBVIOUS
<1>1. ASSUME NEW p \in Pipes, Quiet(p) PROVE Typed'
  <2> DEFINE Here == Quiet(p)
  <2>1. CASE \/ Assign(p) \/ Begin(p) \/ Test(p) \/ Leave(p) \/ CheckClosing(p)
             \/ AllClosed(p) \/ CheckNew(p) \/ AllTried(p)
    BY <2>1 DEF Assign, Begin, Test, Leave, CheckClosing, AllClosed, CheckNew, AllTried, Typed
  <2>2. CASE LockClosing(p) BY <2>2 DEF LockClosing, Typed
  <2>3. CASE CloseOne(p)
    <3> DEFINE w == closing[p][idx[p]]
    <3>1. Without(new[p], w) \in Seq(Windows) /\ Without(open[p], w) \in Seq(Windows)
      BY Removing DEF Typed
    <3>2. fate' \in [Windows -> {"unborn", "added", "opened", "failed", "closed"}]
      BY <2>3 DEF CloseOne, Typed
    <3>3. /\ new' = [new EXCEPT ![p] = Without(new[p], w)]
          /\ open' = [open EXCEPT ![p] = Without(open[p], w)]
          /\ idx' = [idx EXCEPT ![p] = idx[p] + 1]
      BY <2>3 DEF CloseOne
    <3>4. /\ new' \in [Pipes -> Seq(Windows)] /\ open' \in [Pipes -> Seq(Windows)]
          /\ idx' \in [Pipes -> Nat \ {0}]
      BY <3>1, <3>3 DEF Typed
    <3> QED BY <2>3, <3>2, <3>4 DEF CloseOne, Typed
  <2>4. CASE EndClosing(p) BY <2>4 DEF EndClosing, Typed
  <2>5. CASE LockNew(p) BY <2>5 DEF LockNew, Typed, Locks
  <2>6. CASE OpenOne(p)
    <3> DEFINE w == new[p][idx[p]]
    <3>1. w \in Windows BY <2>6 DEF OpenOne, Typed
    <3>2. fate' \in [Windows -> {"unborn", "added", "opened", "failed", "closed"}]
      BY <2>6 DEF OpenOne, Typed
    <3>3. open' \in [Pipes -> Seq(Windows)] /\ dirty' \subseteq Windows
      <4>1. \/ open' = open /\ dirty' = dirty
            \/ /\ open' = [open EXCEPT ![p] = Append(open[p], w)]
               /\ dirty' = dirty \cup {w}
        BY <2>6 DEF OpenOne
      <4>2. Append(open[p], w) \in Seq(Windows) BY <3>1, Appending DEF Typed
      <4> HIDE DEF w
      <4> QED BY <3>1, <4>1, <4>2 DEF Typed
    <3>4. idx' \in [Pipes -> Nat \ {0}] BY <2>6 DEF OpenOne, Typed
    <3> QED BY <2>6, <3>2, <3>3, <3>4 DEF OpenOne, Typed
  <2>7. CASE EndOpening(p) BY <2>7 DEF EndOpening, Typed
  <2> QED BY <1>1, <2>1, <2>2, <2>3, <2>4, <2>5, <2>6, <2>7 DEF Quiet
<1>2. ASSUME NEW p \in Pipes, Render(p) \/ Swap(p) PROVE Typed'
  BY <1>2 DEF Render, Swap, Typed
<1>3. ASSUME NEW w \in Windows, AddWindow(w) PROVE Typed'
  <2>1. Append(new[Home[w]], w) \in Seq(Windows) BY Appending, PipeAssumption DEF Typed
  <2>2. new' = [new EXCEPT ![Home[w]] = Append(new[Home[w]], w)] BY <1>3 DEF AddWindow
  <2>3. new' \in [Pipes -> Seq(Windows)] BY <2>1, <2>2 DEF Typed
  <2> QED BY <1>3, <2>3 DEF AddWindow, Typed
<1>4. ASSUME NEW w \in Windows, RemoveWindow(w) PROVE Typed'
  <2>1. Append(closing[Home[w]], w) \in Seq(Windows) BY Appending, PipeAssumption DEF Typed
  <2>2. closing' = [closing EXCEPT ![Home[w]] = Append(closing[Home[w]], w)]
    BY <1>4 DEF RemoveWindow
  <2>3. closing' \in [Pipes -> Seq(Windows)] BY <2>1, <2>2 DEF Typed
  <2> QED BY <1>4, <2>3 DEF RemoveWindow, Typed
<1>5. CASE ClusterReady \/ UNCHANGED vars BY <1>5 DEF ClusterReady, Typed
<1>6. CASE Frame
  BY <1>6 DEF Frame, StartFrame, EndLoop, TriggerRender, CompleteRender,
              TriggerSwap, CompleteSwap, Visit, Typed
<1>7. CASE StopAll BY <1>7 DEF StopAll, Typed
<1>8. CASE Stop
  <2>1. ASSUME NEW p \in Pipes, Snapshot(p) PROVE Typed'
    BY <2>1 DEF Snapshot, Typed
  <2>2. CASE RemoveAll
    <3>1. CASE snapshot = << >> BY <2>2, <3>1 DEF RemoveAll, Typed
    <3>2. CASE snapshot # << >>
      <4>1. Head(snapshot) \in Windows /\ Tail(snapshot) \in Seq(Windows)
        BY <3>2, HeadTailProperties DEF Typed
      <4>2. /\ closing' = [closing EXCEPT ![victim] = Append(closing[victim], Head(snapshot))]
            /\ removed' = removed \cup {Head(snapshot)} /\ snapshot' = Tail(snapshot)
        BY <2>2, <3>2 DEF RemoveAll
      <4>3. closing' \in [Pipes -> Seq(Windows)]
        <5>1. CASE victim \in Pipes BY <4>1, <4>2, <5>1 DEF Typed
        <5>2. CASE victim \notin Pipes BY <4>2, <5>2 DEF Typed
        <5> QED BY <5>1, <5>2
      <4> QED BY <2>2, <4>1, <4>2, <4>3 DEF RemoveAll, Typed
    <3> QED BY <3>1, <3>2
  <2>3. CASE SetExit BY <2>3 DEF SetExit, Typed
  <2>4. CASE StopRender \/ StopSwap \/ Join BY <2>4 DEF StopRender, StopSwap, Join, Typed
  <2> QED BY <1>8, <2>1, <2>2, <2>3, <2>4 DEF Stop
<1> QED BY NextCases, <1>1, <1>2, <1>3, <1>4, <1>5, <1>6, <1>7, <1>8 DEF Aside

----------------------------------------------------------------------------
(* The semaphores while pipes are stopped, and the threads.                *)
LEMMA InitStop == Init => StopInv /\ ThreadInv
BY DEF Init, StopInv, ThreadInv, Thread, Stopping

LEMMA StopSemsStep ==
  Types /\ FrameInv /\ Typed /\ StopInv /\ [Next]_vars => StopInv'
<1> SUFFICES ASSUME Types, FrameInv, Typed, StopInv, [Next]_vars PROVE StopInv'
  OBVIOUS
<1> USE DEF StopInv, StopSems, Spent, Untouched, Count, Stopping
<1>1. ASSUME NEW p \in Pipes, Quiet(p) PROVE StopInv'
  <2>1. sem' = sem /\ kernel' = kernel /\ left' = left BY <1>1, QuietStep
  <2>2. victim' = victim
    BY <1>1 DEF Quiet, Assign, Begin, Test, Leave, CheckClosing, LockClosing, CloseOne,
                AllClosed, EndClosing, CheckNew, LockNew, OpenOne, AllTried, EndOpening
  <2> QED BY <2>1, <2>2
<1>2. ASSUME NEW p \in Pipes, Render(p) PROVE StopInv'
  BY <1>2 DEF Render, Pass, Types
<1>3. ASSUME NEW p \in Pipes, Swap(p) PROVE StopInv'
  BY <1>3 DEF Swap, Pass, Types
<1>4. CASE Aside \/ UNCHANGED vars
  BY <1>4, AsideStep DEF Aside, ClusterReady, AddWindow, RemoveWindow
<1>5. CASE Frame
  BY <1>5 DEF Frame, StartFrame, EndLoop, TriggerRender, CompleteRender,
              TriggerSwap, CompleteSwap, Visit
<1>6. CASE StopAll BY <1>6 DEF StopAll, FrameInv, Resting
<1>7. CASE Stop
  <2>1. ASSUME NEW p \in Pipes, Snapshot(p) PROVE StopInv'
    BY <2>1 DEF Snapshot
  <2>2. CASE RemoveAll BY <2>2 DEF RemoveAll
  <2>3. CASE SetExit BY <2>3 DEF SetExit
  <2>4. CASE StopRender BY <2>4 DEF StopRender, Up, Types
  <2>5. CASE StopSwap BY <2>5 DEF StopSwap, Up, Types
  <2>6. CASE Join BY <2>6 DEF Join
  <2> QED BY <1>7, <2>1, <2>2, <2>3, <2>4, <2>5, <2>6 DEF Stop
<1> QED BY NextCases, <1>1, <1>2, <1>3, <1>4, <1>5, <1>6, <1>7

LEMMA ThreadStep == Types /\ Typed /\ StopInv /\ ThreadInv /\ [Next]_vars => ThreadInv'
<1> SUFFICES ASSUME Types, Typed, StopInv, ThreadInv, [Next]_vars PROVE ThreadInv'
  OBVIOUS
<1> USE DEF ThreadInv, Thread
<1>1. ASSUME NEW p \in Pipes, Quiet(p) PROVE ThreadInv'
  <2> USE DEF Types, Typed, Goto, Stopping
  <2>1. CASE Assign(p) BY <2>1 DEF Assign, StopInv
  <2>2. CASE Begin(p) BY <2>2 DEF Begin
  <2>3. CASE Test(p)
    <3>1. PICK l \in {"leaving", "checkClosing", "render"} :
             ctl' = [ctl EXCEPT ![p] = l] /\ (l = "leaving" => exit[p])
      BY <2>3 DEF Test
    <3> QED BY <2>3, <3>1 DEF Test
  <2>4. CASE Leave(p) BY <2>4 DEF Leave
  <2>5. CASE \/ CheckClosing(p) \/ LockClosing(p) \/ AllClosed(p) \/ EndClosing(p)
             \/ CheckNew(p) \/ LockNew(p) \/ AllTried(p) \/ EndOpening(p)
    <3>1. ctl[p] \notin {"spawned", "assigned", "exited", "leaving"}
      BY <2>5 DEF CheckClosing, LockClosing, AllClosed, EndClosing, CheckNew, LockNew, AllTried,
                  EndOpening
    <3>2. PICK l \in {"checkNew", "lockClosing", "close", "clear", "test", "lockNew", "open",
                      "erase"} : ctl' = [ctl EXCEPT ![p] = l]
      BY <2>5 DEF CheckClosing, LockClosing, AllClosed, EndClosing, CheckNew, LockNew, AllTried,
                  EndOpening
    <3>3. UNCHANGED <<running, active, exit, kernel, left, victim>>
      BY <2>5 DEF CheckClosing, LockClosing, AllClosed, EndClosing, CheckNew, LockNew, AllTried,
                  EndOpening
    <3> QED BY <3>1, <3>2, <3>3
  <2>6. CASE CloseOne(p) \/ OpenOne(p)
    <3>1. UNCHANGED <<ctl, running, active, exit, kernel, left, victim>>
      BY <2>6 DEF CloseOne, OpenOne
    <3> QED BY <3>1
  <2> QED BY <1>1, <2>1, <2>2, <2>3, <2>4, <2>5, <2>6 DEF Quiet
<1>2. ASSUME NEW p \in Pipes, Render(p) \/ Swap(p) PROVE ThreadInv'
  BY <1>2 DEF Render, Swap, Goto, Types, Stopping
<1>4. CASE Aside \/ UNCHANGED vars
  BY <1>4 DEF Aside, ClusterReady, AddWindow, RemoveWindow, Stopping
<1>5. CASE Frame
  <2>1. CASE StartFrame BY <2>1 DEF StartFrame, Stopping
  <2>2. CASE EndLoop BY <2>2 DEF EndLoop, Stopping
  <2>3. ASSUME NEW p \in Pipes, TriggerRender(p) PROVE ThreadInv'
    BY <2>3 DEF TriggerRender, Visit, Stopping
  <2>4. ASSUME NEW p \in Pipes, CompleteRender(p) \/ TriggerSwap(p) \/ CompleteSwap(p)
        PROVE ThreadInv'
    BY <2>4 DEF CompleteRender, TriggerSwap, CompleteSwap, Visit, Stopping
  <2> QED BY <1>5, FrameCases, <2>1, <2>2, <2>3, <2>4
<1>6. CASE StopAll BY <1>6 DEF StopAll, Stopping
<1>7. CASE Stop
  <2> USE DEF Stopping
  <2>1. ASSUME NEW p \in Pipes, Snapshot(p) PROVE ThreadInv' BY <2>1 DEF Snapshot
  <2>2. CASE RemoveAll BY <2>2 DEF RemoveAll
  <2>3. CASE SetExit BY <2>3 DEF SetExit, Typed
  <2>4. CASE StopRender BY <2>4 DEF StopRender, StopInv
  <2>5. CASE StopSwap BY <2>5 DEF StopSwap
  <2>6. CASE Join BY <2>6 DEF Join
  <2> QED BY <1>7, <2>1, <2>2, <2>3, <2>4, <2>5, <2>6 DEF Stop
<1> QED BY NextCases, <1>1, <1>2, <1>4, <1>5, <1>6, <1>7

----------------------------------------------------------------------------
(* The lists.                                                              *)
Loops == {"close", "clear", "open", "erase"}
Lists(p) == Locking(p) /\ Listed(p)

LEMMA InitLists == Init => ListInv
BY EmptyList DEF Init, ListInv, Locking, Listed, Kept, Untried, Loops, Elems

(* Steps outside the loops over the lists.                                 *)
LEMMA OutsideStep ==
  ASSUME Types, Typed, ListInv, NEW p \in Pipes, NEW l \in CtlPlaces \ Loops,
         ctl[p] \notin Loops, ctl' = [ctl EXCEPT ![p] = l],
         UNCHANGED <<lists, idx, locked, snapshot, victim>>
  PROVE  ListInv'
<1>1. ASSUME NEW q \in Pipes PROVE Lists(q)' /\ UNCHANGED <<Untried(q), Unclosed(q)>>
  <2>1. ctl'[q] = ctl[q] \/ (ctl[q] \notin Loops /\ ctl'[q] \notin Loops) BY DEF Types
  <2>2. UNCHANGED <<Untried(q), Unclosed(q)>> BY <2>1 DEF Untried, Unclosed, Loops
  <2> QED BY <2>1, <2>2 DEF ListInv, Lists, Locking, Listed, Loops
<1>2. ASSUME NEW w \in Windows PROVE Kept(w)'
  BY <1>1, PipeAssumption DEF ListInv, Kept
<1> QED BY <1>1, <1>2 DEF ListInv, Lists

LEMMA AsideOfLists ==
  ASSUME ListInv, UNCHANGED <<ctl, lists, idx, locked, snapshot, victim>>
  PROVE  ListInv'
BY DEF ListInv, Locking, Listed, Kept, Untried, Unclosed

(* Steps at the lists of one pipe.                                         *)
LEMMA LocalStep ==
  ASSUME Types, Typed, ListInv, NEW p \in Pipes,
         \A q \in Pipes \ {p} :
            /\ ctl'[q] = ctl[q] /\ new'[q] = new[q] /\ open'[q] = open[q]
            /\ closing'[q] = closing[q] /\ idx'[q] = idx[q] /\ locked'[q] = locked[q],
         \A w \in Windows : Home[w] # p =>
            fate'[w] = fate[w] /\ (w \in removed' => w \in removed),
         \A w \in Elems(snapshot') : Home[w] = victim',
         Lists(p)', \A w \in Windows : Home[w] = p => Kept(w)'
  PROVE  ListInv'
<1>1. ASSUME NEW q \in Pipes \ {p}
      PROVE  Lists(q)' /\ UNCHANGED <<Untried(q), Unclosed(q), open[q]>>
  <2>1. UNCHANGED <<Untried(q), Unclosed(q), open[q]>> BY DEF Untried, Unclosed
  <2>2. /\ new[q] \in Seq(Windows) /\ open[q] \in Seq(Windows) /\ idx[q] \in Nat \ {0}
        /\ Locking(q) /\ Listed(q)
    BY DEF Typed, ListInv
  <2>3. Elems(new[q]) \subseteq Windows /\ Elems(open[q]) \subseteq Windows BY <2>2, ElemsOf
  <2>4. Untried(q) \subseteq Elems(new[q]) BY <2>2, FromStep DEF Untried
  <2>5. \A w \in Elems(new[q]) \cup Elems(open[q]) : fate'[w] = fate[w] BY <2>2, <2>3 DEF Listed
  <2>6. Locking(q)' BY <2>2 DEF Locking
  <2>7. Listed(q)' BY <2>1, <2>2, <2>4, <2>5 DEF Listed
  <2> QED BY <2>1, <2>6, <2>7 DEF Lists
<1>2. ASSUME NEW w \in Windows PROVE Kept(w)'
  <2>1. CASE Home[w] = p BY <2>1
  <2>2. CASE Home[w] # p
    <3>1. Home[w] \in Pipes \ {p} BY <2>2, PipeAssumption
    <3>2. Kept(w) BY DEF ListInv
    <3> QED BY <1>1, <2>2, <3>1, <3>2 DEF Kept
  <2> QED BY <2>1, <2>2
<1> QED BY <1>1, <1>2 DEF ListInv, Lists

LEMMA ListsOf ==
  ASSUME Types, Typed, ListInv, NEW p \in Pipes
  PROVE  /\ new[p] \in Seq(Windows) /\ open[p] \in Seq(Windows) /\ closing[p] \in Seq(Windows)
         /\ idx[p] \in Nat \ {0} /\ Locking(p) /\ Listed(p)
         /\ \A w \in Windows : Kept(w) /\ Home[w] \in Pipes
         /\ \A w \in Elems(snapshot) : Home[w] = victim
BY PipeAssumption DEF Types, Typed, ListInv

LEMMA CloseStep ==
  ASSUME Types, Typed, ListInv, NEW p \in Pipes,
         LockClosing(p) \/ CloseOne(p) \/ AllClosed(p) \/ EndClosing(p)
  PROVE  ListInv'
<1>a. /\ new[p] \in Seq(Windows) /\ open[p] \in Seq(Windows) /\ closing[p] \in Seq(Windows)
      /\ idx[p] \in Nat \ {0} /\ Locking(p) /\ Listed(p)
      /\ \A w \in Windows : Kept(w)
      /\ \A w \in Elems(snapshot) : Home[w] = victim
  BY ListsOf
<1>1. CASE LockClosing(p)
  <2>1. /\ ctl[p] = "lockClosing" /\ ctl'[p] = "close" /\ locked'[p] = Locks /\ idx'[p] = 1
        /\ UNCHANGED <<new, open, closing, fate, removed, snapshot, victim>>
    BY <1>1 DEF LockClosing, Goto, Types, Typed
  <2>2. Untried(p)' = Untried(p) BY <2>1 DEF Untried
  <2>3. Unclosed(p)' = Unclosed(p) BY <1>a, <2>1, ElemsOf DEF Unclosed
  <2>4. Lists(p)' BY <1>a, <2>1, <2>2 DEF Lists, Locking, Listed
  <2>5. \A w \in Windows : Home[w] = p => Kept(w)' BY <1>a, <2>1, <2>2, <2>3 DEF Kept
  <2> QED BY <1>1, <1>a, <2>1, <2>4, <2>5, LocalStep DEF LockClosing, Goto, Types, Typed
<1>2. CASE CloseOne(p)
  <2> DEFINE v == closing[p][idx[p]]
  <2>1. /\ ctl[p] = "close" /\ idx[p] <= Len(closing[p])
        /\ new'[p] = Without(new[p], v) /\ open'[p] = Without(open[p], v)
        /\ idx'[p] = idx[p] + 1 /\ UNCHANGED <<ctl, closing, locked, removed, snapshot, victim>>
    BY <1>2 DEF CloseOne, Typed
  <2>2. v \in Elems(closing[p]) /\ v \in Windows /\ Home[v] = p
    BY <1>a, <2>1, FromStep, ElemsOf DEF Listed
  <2>3. \A w \in Windows : fate'[w] = IF w = v THEN "closed" ELSE fate[w]
    BY <1>2 DEF CloseOne, Typed
  <2>4. /\ NoDup(new'[p]) /\ Elems(new'[p]) = Elems(new[p]) \ {v}
        /\ NoDup(open'[p]) /\ Elems(open'[p]) = Elems(open[p]) \ {v}
    BY <1>a, <2>1, Removing DEF Listed
  <2>5. Untried(p)' = Untried(p) \ {v} BY <2>1, <2>4 DEF Untried
  <2>6. Unclosed(p) = {v} \cup Unclosed(p)' BY <1>a, <2>1, FromStep DEF Unclosed
  <2>7. \A w \in Elems(new[p]) \cup Elems(open[p]) : w \in Windows BY <1>a, ElemsOf
  <2> HIDE DEF v
  <2>8. Untried(p) \subseteq Elems(new[p]) BY <2>1 DEF Untried
  <2>9. Lists(p)'
    <3>1. Locking(p)' BY <1>a, <2>1 DEF Locking
    <3>2. Listed(p)' BY <1>a, <2>1, <2>3, <2>4, <2>5, <2>7, <2>8 DEF Listed
    <3> QED BY <3>1, <3>2 DEF Lists
  <2>10. \A w \in Windows : Home[w] = p => Kept(w)'
    BY <1>a, <2>1, <2>3, <2>4, <2>5, <2>6 DEF Kept
  <2>11. \A q \in Pipes \ {p} :
            /\ ctl'[q] = ctl[q] /\ new'[q] = new[q] /\ open'[q] = open[q]
            /\ closing'[q] = closing[q] /\ idx'[q] = idx[q] /\ locked'[q] = locked[q]
    BY <1>2 DEF CloseOne, Typed
  <2>12. \A w \in Windows : Home[w] # p =>
            fate'[w] = fate[w] /\ (w \in removed' => w \in removed)
    BY <2>1, <2>2, <2>3
  <2>13. \A w \in Elems(snapshot') : Home[w] = victim' BY <1>a, <2>1
  <2> QED BY <2>9, <2>10, <2>11, <2>12, <2>13, LocalStep
<1>3. CASE AllClosed(p)
  <2>1. /\ ctl[p] = "close" /\ ctl'[p] = "clear" /\ idx[p] > Len(closing[p])
        /\ UNCHANGED <<new, open, closing, fate, removed, idx, locked, snapshot, victim>>
    BY <1>3 DEF AllClosed, Goto, Types
  <2>2. Untried(p)' = Untried(p) /\ Unclosed(p)' = Unclosed(p) BY <2>1 DEF Untried, Unclosed
  <2>4. Lists(p)' BY <1>a, <2>1, <2>2 DEF Lists, Locking, Listed
  <2>5. \A w \in Windows : Home[w] = p => Kept(w)' BY <1>a, <2>1, <2>2 DEF Kept
  <2> QED BY <1>3, <1>a, <2>1, <2>4, <2>5, LocalStep DEF AllClosed, Goto, Types
<1>4. CASE EndClosing(p)
  <2>1. /\ ctl[p] = "clear" /\ ctl'[p] = "checkNew" /\ closing'[p] = << >> /\ locked'[p] = {}
        /\ UNCHANGED <<new, open, fate, removed, idx, snapshot, victim>>
    BY <1>4 DEF EndClosing, Goto, Types, Typed
  <2>2. Untried(p)' = Untried(p) BY <2>1 DEF Untried
  <2>3. Unclosed(p) = {} BY <1>a, <2>1, FromStep DEF Unclosed, Locking
  <2>4. Lists(p)' BY <1>a, <2>1, <2>2, EmptyList DEF Lists, Locking, Listed
  <2>5. \A w \in Windows : Home[w] = p => Kept(w)' BY <1>a, <2>1, <2>2, <2>3 DEF Kept
  <2> QED BY <1>4, <1>a, <2>1, <2>4, <2>5, LocalStep DEF EndClosing, Goto, Types, Typed
<1> QED BY <1>1, <1>2, <1>3, <1>4

LEMMA OpenStep ==
  ASSUME Types, Typed, ListInv, NEW p \in Pipes,
         LockNew(p) \/ OpenOne(p) \/ AllTried(p) \/ EndOpening(p)
  PROVE  ListInv'
<1>a. /\ new[p] \in Seq(Windows) /\ open[p] \in Seq(Windows) /\ closing[p] \in Seq(Windows)
      /\ idx[p] \in Nat \ {0} /\ Locking(p) /\ Listed(p)
      /\ \A w \in Windows : Kept(w)
      /\ \A w \in Elems(snapshot) : Home[w] = victim
  BY ListsOf
<1>1. CASE LockNew(p)
  <2>1. /\ ctl[p] = "lockNew" /\ ctl'[p] = "open" /\ locked'[p] = {"new", "open"} /\ idx'[p] = 1
        /\ UNCHANGED <<new, open, closing, fate, removed, snapshot, victim>>
    BY <1>1 DEF LockNew, Goto, Types, Typed
  <2>2. Untried(p)' = Untried(p) BY <1>a, <2>1, ElemsOf DEF Untried
  <2>3. Unclosed(p)' = Unclosed(p) BY <2>1 DEF Unclosed
  <2>4. Lists(p)' BY <1>a, <2>1, <2>2 DEF Lists, Locking, Listed
  <2>5. \A w \in Windows : Home[w] = p => Kept(w)' BY <1>a, <2>1, <2>2, <2>3 DEF Kept
  <2> QED BY <1>1, <1>a, <2>1, <2>4, <2>5, LocalStep DEF LockNew, Goto, Types, Typed
<1>2. CASE OpenOne(p)
  <2> DEFINE v == new[p][idx[p]]
  <2>1. /\ ctl[p] = "open" /\ idx[p] <= Len(new[p]) /\ idx'[p] = idx[p] + 1
        /\ UNCHANGED <<ctl, new, closing, locked, removed, snapshot, victim>>
    BY <1>2 DEF OpenOne, Typed
  <2>2. v \in Elems(new[p]) /\ v \in Windows /\ Home[v] = p
    BY <1>a, <2>1, FromStep, ElemsOf DEF Listed
  <2>3. Untried(p) = {v} \cup Untried(p)' /\ v \notin Untried(p)'
    BY <1>a, <2>1, FromStep DEF Untried, Listed
  <2>4. fate[v] = "added" BY <1>a, <2>3 DEF Listed
  <2>5. v \notin Elems(open[p]) BY <1>a, <2>4 DEF Listed
  <2>6. PICK f \in {"opened", "failed"} :
           /\ \A w \in Windows : fate'[w] = IF w = v THEN f ELSE fate[w]
           /\ open'[p] = IF f = "opened" THEN Append(open[p], v) ELSE open[p]
    BY <1>2 DEF OpenOne, Typed
  <2>7. /\ NoDup(open'[p])
        /\ Elems(open'[p]) = IF f = "opened" THEN Elems(open[p]) \cup {v} ELSE Elems(open[p])
    <3> HIDE DEF v
    <3>1. CASE f = "opened" BY <1>a, <2>2, <2>5, <2>6, <3>1, Appending DEF Listed
    <3>2. CASE f = "failed" BY <1>a, <2>6, <3>2 DEF Listed
    <3> QED BY <3>1, <3>2
  <2>8. \A w \in Elems(new[p]) \cup Elems(open[p]) : w \in Windows BY <1>a, ElemsOf
  <2>9. Untried(p) \subseteq Elems(new[p]) BY <1>a, <2>1, FromStep DEF Untried
  <2>10. Unclosed(p)' = Unclosed(p) BY <2>1 DEF Unclosed
  <2> HIDE DEF v
  <2>11. Lists(p)'
    <3>1. Locking(p)' BY <1>a, <2>1 DEF Locking
    <3>2. \A w \in Elems(new'[p]) : Home[w] = p /\ fate'[w] # "unborn"
      BY <1>a, <2>1, <2>6, <2>8 DEF Listed
    <3>3. \A w \in Untried(p)' : fate'[w] = "added"
      BY <1>a, <2>3, <2>6, <2>8, <2>9 DEF Listed
    <3>4. \A w \in Elems(open'[p]) : Home[w] = p /\ fate'[w] = "opened"
      BY <1>a, <2>2, <2>5, <2>6, <2>7, <2>8 DEF Listed
    <3>5. Listed(p)' BY <1>a, <2>1, <2>7, <3>2, <3>3, <3>4 DEF Listed
    <3> QED BY <3>1, <3>5 DEF Lists
  <2>12. \A w \in Windows : Home[w] = p => Kept(w)'
    BY <1>a, <2>1, <2>3, <2>4, <2>6, <2>7, <2>10 DEF Kept
  <2>13. \A q \in Pipes \ {p} :
            /\ ctl'[q] = ctl[q] /\ new'[q] = new[q] /\ open'[q] = open[q]
            /\ closing'[q] = closing[q] /\ idx'[q] = idx[q] /\ locked'[q] = locked[q]
    BY <1>2 DEF OpenOne, Typed
  <2>14. \A w \in Windows : Home[w] # p =>
            fate'[w] = fate[w] /\ (w \in removed' => w \in removed)
    BY <2>1, <2>2, <2>6
  <2>15. \A w \in Elems(snapshot') : Home[w] = victim' BY <1>a, <2>1
  <2> QED BY <2>11, <2>12, <2>13, <2>14, <2>15, LocalStep
<1>3. CASE AllTried(p)
  <2>1. /\ ctl[p] = "open" /\ ctl'[p] = "erase" /\ idx[p] > Len(new[p])
        /\ UNCHANGED <<new, open, closing, fate, removed, idx, locked, snapshot, victim>>
    BY <1>3 DEF AllTried, Goto, Types
  <2>2. Untried(p)' = Untried(p) /\ Unclosed(p)' = Unclosed(p) BY <2>1 DEF Untried, Unclosed
  <2>4. Lists(p)' BY <1>a, <2>1, <2>2 DEF Lists, Locking, Listed
  <2>5. \A w \in Windows : Home[w] = p => Kept(w)' BY <1>a, <2>1, <2>2 DEF Kept
  <2> QED BY <1>3, <1>a, <2>1, <2>4, <2>5, LocalStep DEF AllTried, Goto, Types
<1>4. CASE EndOpening(p)
  <2>1. /\ ctl[p] = "erase" /\ ctl'[p] = "test" /\ new'[p] = << >> /\ locked'[p] = {}
        /\ UNCHANGED <<open, closing, fate, removed, idx, snapshot, victim>>
    BY <1>4 DEF EndOpening, Goto, Types, Typed
  <2>2. Untried(p) = {} BY <1>a, <2>1, FromStep DEF Untried, Locking
  <2>3. Unclosed(p)' = Unclosed(p) /\ Untried(p)' = {} BY <2>1, EmptyList DEF Unclosed, Untried
  <2>4. Lists(p)' BY <1>a, <2>1, <2>3, EmptyList DEF Lists, Locking, Listed
  <2>5. \A w \in Windows : Home[w] = p => Kept(w)' BY <1>a, <2>1, <2>2, <2>3 DEF Kept
  <2> QED BY <1>4, <1>a, <2>1, <2>4, <2>5, LocalStep DEF EndOpening, Goto, Types, Typed
<1> QED BY <1>1, <1>2, <1>3, <1>4

LEMMA AddStep == ASSUME Types, Typed, ListInv, NEW v \in Windows, AddWindow(v) PROVE ListInv'
<1> DEFINE p == Home[v]
<1>p. p \in Pipes BY PipeAssumption
<1> HIDE DEF p
<1>a. /\ new[p] \in Seq(Windows) /\ open[p] \in Seq(Windows) /\ closing[p] \in Seq(Windows)
      /\ idx[p] \in Nat \ {0} /\ Locking(p) /\ Listed(p)
      /\ \A w \in Windows : Kept(w)
      /\ \A w \in Elems(snapshot) : Home[w] = victim
  BY <1>p, ListsOf
<1>1. /\ "new" \notin locked[p] /\ fate[v] = "unborn" /\ new'[p] = Append(new[p], v)
      /\ \A w \in Windows : fate'[w] = IF w = v THEN "added" ELSE fate[w]
      /\ \A q \in Pipes \ {p} : new'[q] = new[q]
      /\ UNCHANGED <<ctl, open, closing, removed, idx, locked, snapshot, victim>>
  BY <1>p DEF AddWindow, Typed, p
<1>2. ctl[p] \notin Loops BY <1>a, <1>1 DEF Locking, Loops, Locks
<1>3. /\ Elems(new'[p]) = Elems(new[p]) \cup {v} /\ NoDup(new'[p])
      /\ Elems(new[p]) \cup Elems(open[p]) \subseteq Windows
  BY <1>a, <1>1, Appending, ElemsOf DEF Listed
<1>4. /\ Untried(p) = Elems(new[p]) /\ Untried(p)' = Elems(new'[p])
      /\ Unclosed(p)' = Unclosed(p)
  BY <1>1, <1>2 DEF Untried, Unclosed, Loops
<1>h. Home[v] = p BY DEF p
<1>5. Lists(p)'
  <2>1. Locking(p)' BY <1>1, <1>2 DEF Locking, Loops
  <2>2. UNCHANGED open[p] /\ UNCHANGED closing[p] BY <1>1
  <2>3. \A w \in Elems(new[p]) \cup Elems(open[p]) : w # v /\ fate'[w] = fate[w]
    BY <1>a, <1>1, <1>3 DEF Listed
  <2>4. (\A w \in Elems(new[p]) : Home[w] = p /\ fate[w] # "unborn")'
    BY <1>a, <1>h, <1>1, <1>3, <2>3 DEF Listed
  <2>5. (\A w \in Untried(p) : fate[w] = "added")'
    BY <1>a, <1>1, <1>3, <1>4, <2>3 DEF Listed
  <2>6. (\A w \in Elems(open[p]) : Home[w] = p /\ fate[w] = "opened")'
    BY <1>a, <2>2, <2>3 DEF Listed
  <2>7. NoDup(open[p])' /\ (\A w \in Elems(closing[p]) : Home[w] = p)'
    BY <1>a, <2>2 DEF Listed
  <2>8. Listed(p)' BY <1>3, <2>4, <2>5, <2>6, <2>7 DEF Listed
  <2> QED BY <2>1, <2>8 DEF Lists
<1>6. \A w \in Windows : Home[w] = p => Kept(w)' BY <1>a, <1>1, <1>3, <1>4 DEF Kept
<1>7. \A w \in Windows : Home[w] # p => fate'[w] = fate[w] BY <1>1, <1>h
<1>8. \A w \in Elems(snapshot') : Home[w] = victim' BY <1>a, <1>1
<1> QED BY <1>p, <1>1, <1>5, <1>6, <1>7, <1>8, LocalStep

(* A window put into mClosingWins, by removeWindow() or by stop().         *)
LEMMA ClosingStep ==
  ASSUME Types, Typed, ListInv, NEW v \in Windows, NEW p \in Pipes, Home[v] = p,
         "closing" \notin locked[p], closing' = [closing EXCEPT ![p] = Append(closing[p], v)],
         removed' = removed \cup {v}, UNCHANGED <<ctl, new, open, fate, idx, locked, victim>>,
         \A w \in Elems(snapshot') : Home[w] = victim
  PROVE  ListInv'
<1>a. /\ new[p] \in Seq(Windows) /\ open[p] \in Seq(Windows) /\ closing[p] \in Seq(Windows)
      /\ idx[p] \in Nat \ {0} /\ Locking(p) /\ Listed(p)
      /\ \A w \in Windows : Kept(w)
  BY ListsOf
<1>1. /\ closing'[p] = Append(closing[p], v) /\ \A q \in Pipes \ {p} : closing'[q] = closing[q]
  BY DEF Typed
<1>2. ctl[p] \notin {"close", "clear"} BY <1>a DEF Locking, Locks
<1>3. Elems(closing'[p]) = Elems(closing[p]) \cup {v} BY <1>a, <1>1, Appending
<1>4. /\ Unclosed(p) = Elems(closing[p]) /\ Unclosed(p)' = Elems(closing'[p])
      /\ Untried(p)' = Untried(p)
  BY <1>2 DEF Untried, Unclosed
<1>5. Lists(p)'
  <2>1. Locking(p)' BY <1>a, <1>2 DEF Locking
  <2>2. Listed(p)' BY <1>a, <1>3, <1>4 DEF Listed
  <2> QED BY <2>1, <2>2 DEF Lists
<1>6. \A w \in Windows : Home[w] = p => Kept(w)' BY <1>a, <1>3, <1>4 DEF Kept
<1> QED BY <1>1, <1>5, <1>6, LocalStep

LEMMA ListStep == Types /\ Typed /\ StopInv /\ ListInv /\ [Next]_vars => ListInv'
<1> SUFFICES ASSUME Types, Typed, StopInv, ListInv, [Next]_vars PROVE ListInv'
  OBVIOUS
<1>1. ASSUME NEW p \in Pipes, Quiet(p) PROVE ListInv'
  <2>1. CASE \/ Assign(p) \/ Begin(p) \/ Test(p) \/ Leave(p) \/ CheckClosing(p) \/ CheckNew(p)
    <3>1. \E l \in CtlPlaces \ Loops : ctl' = [ctl EXCEPT ![p] = l]
      BY <2>1 DEF Assign, Begin, Test, Leave, CheckClosing, CheckNew, Goto, Loops
    <3>2. /\ ctl[p] \notin Loops /\ UNCHANGED <<lists, idx, locked, snapshot, victim>>
      BY <2>1 DEF Assign, Begin, Test, Leave, CheckClosing, CheckNew, Loops
    <3> QED BY <3>1, <3>2, OutsideStep
  <2>2. CASE LockClosing(p) \/ CloseOne(p) \/ AllClosed(p) \/ EndClosing(p)
    BY <2>2, CloseStep
  <2>3. CASE LockNew(p) \/ OpenOne(p) \/ AllTried(p) \/ EndOpening(p)
    BY <2>3, OpenStep
  <2> QED BY <1>1, <2>1, <2>2, <2>3 DEF Quiet
<1>2. ASSUME NEW p \in Pipes, Render(p) \/ Swap(p) PROVE ListInv'
  <2>1. \E l \in CtlPlaces \ Loops : ctl' = [ctl EXCEPT ![p] = l]
    BY <1>2 DEF Render, Swap, Goto, Loops
  <2>2. /\ ctl[p] \notin Loops /\ UNCHANGED <<lists, idx, locked, snapshot, victim>>
    BY <1>2 DEF Render, Swap, Loops
  <2> QED BY <2>1, <2>2, OutsideStep
<1>3. ASSUME NEW w \in Windows, AddWindow(w) PROVE ListInv' BY <1>3, AddStep
<1>4. ASSUME NEW w \in Windows, RemoveWindow(w) PROVE ListInv'
  <2>1. Home[w] \in Pipes BY PipeAssumption
  <2>2. \A v \in Elems(snapshot) : Home[v] = victim BY DEF ListInv
  <2> QED BY <1>4, <2>1, <2>2, ClosingStep DEF RemoveWindow
<1>5. CASE ClusterReady \/ Frame \/ StopAll \/ UNCHANGED vars
  <2>1. UNCHANGED <<ctl, lists, idx, locked, snapshot, victim>>
    BY <1>5 DEF ClusterReady, Frame, StopAll, StartFrame, EndLoop, TriggerRender, CompleteRender,
                TriggerSwap, CompleteSwap, Visit
  <2> QED BY <2>1, AsideOfLists
<1>6. CASE Stop
  <2>1. ASSUME NEW p \in Pipes, Snapshot(p) PROVE ListInv'
    <3>1. /\ snapshot' = open[p] /\ victim' = p /\ Listed(p)
          /\ UNCHANGED <<ctl, lists, idx, locked>>
      BY <2>1 DEF Snapshot, ListInv
    <3>2. \A w \in Elems(snapshot)' : Home[w] = victim' BY <3>1 DEF Listed
    <3>3. /\ \A q \in Pipes : Locking(q)' /\ Listed(q)'
          /\ \A w \in Windows : Kept(w)'
      BY <3>1 DEF ListInv, Locking, Listed, Kept, Untried, Unclosed
    <3> QED BY <3>2, <3>3 DEF ListInv
  <2>2. CASE RemoveAll
    <3>1. CASE snapshot = << >>
      BY <2>2, <3>1, AsideOfLists DEF RemoveAll
    <3>2. CASE snapshot # << >>
      <4> DEFINE v == Head(snapshot)
      <4>1. /\ victim \in Pipes /\ snapshot \in Seq(Windows)
            /\ \A w \in Elems(snapshot) : Home[w] = victim
        BY <2>2 DEF RemoveAll, StopInv, Stopping, Typed, ListInv
      <4>2. v \in Windows /\ Home[v] = victim /\ Elems(Tail(snapshot)) \subseteq Elems(snapshot)
        BY <3>2, <4>1, ElemsOf
      <4>3. /\ "closing" \notin locked[victim]
            /\ closing' = [closing EXCEPT ![victim] = Append(closing[victim], v)]
            /\ removed' = removed \cup {v} /\ snapshot' = Tail(snapshot)
            /\ UNCHANGED <<ctl, new, open, fate, idx, locked, victim>>
        BY <2>2, <3>2 DEF RemoveAll
      <4> HIDE DEF v
      <4> QED BY <4>1, <4>2, <4>3, ClosingStep
    <3> QED BY <3>1, <3>2
  <2>3. CASE SetExit \/ StopRender \/ StopSwap \/ Join
    <3>1. UNCHANGED <<ctl, lists, idx, locked, snapshot, victim>>
      BY <2>3 DEF SetExit, StopRender, StopSwap, Join
    <3> QED BY <3>1, AsideOfLists
  <2> QED BY <1>6, <2>1, <2>2, <2>3 DEF Stop
<1> QED BY NextCases, <1>1, <1>2, <1>3, <1>4, <1>5, <1>6 DEF Aside

----------------------------------------------------------------------------
(* What is drawn, and whose contexts are initialised.                      *)
LEMMA InitDraw == Init => DrawInv
BY EmptyList DEF Init, DrawInv, SwapsWhatItDrew, Clean, AfterDraw

LEMMA DrawStep == Types /\ Typed /\ ListInv /\ DrawInv /\ [Next]_vars => DrawInv'
<1> SUFFICES ASSUME Types, Typed, ListInv, DrawInv, [Next]_vars PROVE DrawInv'
  OBVIOUS
<1> USE DEF DrawInv, SwapsWhatItDrew
<1>1. ASSUME NEW p \in Pipes, Quiet(p) PROVE DrawInv'
  <2>1. CASE \/ Assign(p) \/ Begin(p) \/ Leave(p) \/ CheckClosing(p) \/ LockClosing(p)
             \/ AllClosed(p) \/ EndClosing(p) \/ CheckNew(p) \/ LockNew(p) \/ AllTried(p)
             \/ EndOpening(p)
    <3>1. PICK l \in CtlPlaces \ {"swap"} :
             ctl' = [ctl EXCEPT ![p] = l] /\ (l \in AfterDraw => ctl[p] \in AfterDraw)
      BY <2>1 DEF Assign, Begin, Leave, CheckClosing, LockClosing, AllClosed, EndClosing,
                  CheckNew, LockNew, AllTried, EndOpening, Goto, AfterDraw
    <3>2. UNCHANGED <<open, drawn, dirty>>
      BY <2>1 DEF Assign, Begin, Leave, CheckClosing, LockClosing, AllClosed, EndClosing,
                  CheckNew, LockNew, AllTried, EndOpening
    <3> QED BY <3>1, <3>2 DEF Types, Clean
  <2>2. CASE Test(p)
    <3>1. PICK l \in CtlPlaces \ {"swap"} :
             ctl' = [ctl EXCEPT ![p] = l] /\ (l \in AfterDraw => Clustered)
      BY <2>2 DEF Test, Goto, AfterDraw
    <3> QED BY <2>2, <3>1 DEF Test, Types, Clean
  <2>3. CASE CloseOne(p)
    <3>1. /\ ctl' = ctl /\ ctl[p] = "close" /\ drawn' = drawn /\ dirty' = dirty
          /\ \A q \in Pipes \ {p} : open'[q] = open[q]
          /\ open'[p] = Without(open[p], closing[p][idx[p]])
      BY <2>3 DEF CloseOne, Typed
    <3>2. Elems(open'[p]) \subseteq Elems(open[p])
      BY <3>1, ListsOf, Removing DEF Listed
    <3> QED BY <3>1, <3>2 DEF Clean
  <2>4. CASE OpenOne(p)
    <3> DEFINE v == new[p][idx[p]]
    <3>1. /\ ctl' = ctl /\ ctl[p] = "open" /\ drawn' = drawn /\ dirty' \subseteq dirty \cup {v}
          /\ \A q \in Pipes \ {p} : open'[q] = open[q]
      BY <2>4 DEF OpenOne, Typed
    <3>2. Home[v] = p
      <4>1. idx[p] <= Len(new[p]) BY <2>4 DEF OpenOne
      <4> QED BY <4>1, ListsOf, FromStep DEF Listed
    <3> HIDE DEF v
    <3>3. \A q \in Pipes \ {p} : v \notin Elems(open[q]) BY <3>2 DEF ListInv, Listed
    <3> QED BY <3>1, <3>3 DEF Clean, AfterDraw
  <2> QED BY <1>1, <2>1, <2>2, <2>3, <2>4 DEF Quiet
<1>2. ASSUME NEW p \in Pipes, Render(p) PROVE DrawInv'
  BY <1>2 DEF Render, Goto, Types, Typed, Clean
<1>3. ASSUME NEW p \in Pipes, Swap(p) PROVE DrawInv'
  BY <1>3 DEF Swap, Goto, Types, Clean, AfterDraw
<1>4. CASE Aside \/ Frame \/ StopAll \/ Stop \/ UNCHANGED vars
  <2>1. UNCHANGED <<ctl, open, drawn, dirty>>
    BY <1>4 DEF Aside, ClusterReady, AddWindow, RemoveWindow, Frame, StartFrame, EndLoop,
                TriggerRender, CompleteRender, TriggerSwap, CompleteSwap, Visit, StopAll, Stop,
                Snapshot, RemoveAll, SetExit, StopRender, StopSwap, Join
  <2> QED BY <2>1 DEF Clean
<1> QED BY NextCases, <1>1, <1>2, <1>3, <1>4

----------------------------------------------------------------------------
LEMMA FullInvariance == Spec => []FullInv
<1>1. Init => FullInv
  BY InitIInv, InitTyped, InitStop, InitLists, InitDraw DEF FullInv
<1>2. FullInv /\ [Next]_vars => FullInv'
  BY TypesStep, FrameStep, OpenerStep, TypedStep, StopSemsStep, ThreadStep, ListStep, DrawStep
     DEF FullInv, IInv
<1> QED BY <1>1, <1>2, PTL DEF Spec

(* The semaphores stay binary: in a frame because the kernel waits for     *)
(* every completion before it triggers again, and in stop() because it     *)
(* triggers each pipe once.                                                *)
THEOREM TypeCorrect == Spec => []TypeOK
<1>1. FullInv => TypeOK
  <2> SUFFICES ASSUME FullInv PROVE TypeOK OBVIOUS
  <2>1. ASSUME NEW p \in Pipes
        PROVE  sem[p] \in [rt: 0 .. 1, rc: 0 .. 1, st: 0 .. 1, sc: 0 .. 1]
    <3>1. sem[p] \in [rt: Nat, rc: Nat, st: Nat, sc: Nat] BY DEF FullInv, IInv, Types
    <3>2. /\ sem[p].rt \in 0 .. 1 /\ sem[p].rc \in 0 .. 1
          /\ sem[p].st \in 0 .. 1 /\ sem[p].sc \in 0 .. 1
      <4>1. CASE Stopping
        BY <3>1, <4>1 DEF FullInv, StopInv, StopSems, Spent, Count
      <4>2. CASE ~Stopping
        <5>1. kernel \in {"idle", "triggerRender", "completeRender", "triggerSwap",
                          "completeSwap"}
          BY <4>2 DEF FullInv, IInv, Types, Stopping
        <5> QED BY <5>1 DEF FullInv, IInv, FrameInv, Resting, Rendering, Rendered, Swapping, Count
      <4> QED BY <4>1, <4>2
    <3> QED BY <3>1, <3>2
  <2>2. sem \in [Pipes -> [rt: 0 .. 1, rc: 0 .. 1, st: 0 .. 1, sc: 0 .. 1]]
    BY <2>1 DEF FullInv, IInv, Types
  <2> QED BY <2>2 DEF FullInv, IInv, Types, Typed, TypeOK
<1> QED BY <1>1, FullInvariance, PTL

(* checkForWindowsToClose() and checkForNewWindows() test a size without   *)
(* the lock and clear a whole list at the end; no request is lost by it.   *)
THEOREM RequestsKept == Spec => []NothingForgotten
<1>1. FullInv => NothingForgotten BY DEF FullInv, ListInv, Kept, NothingForgotten
<1> QED BY <1>1, FullInvariance, PTL

(* mOpenWins does not change between renderWindow and swapBuffers.         *)
THEOREM SameWindows == Spec => []SwapsWhatItDrew
<1>1. FullInv => SwapsWhatItDrew BY DEF FullInv, DrawInv
<1> QED BY <1>1, FullInvariance, PTL

(* Without a cluster, a frame comes between opening a window and closing   *)
(* it, so contextClose() finds a context that was initialised.             *)
THEOREM InitBeforeClose == Spec => []ClosedAfterInit
<1>1. FullInv => ClosedAfterInit
  BY DEF FullInv, DrawInv, Clean, AfterDraw, ClosedAfterInit
<1> QED BY <1>1, FullInvariance, PTL

(* The assertions on mThreadRunning and mActiveThread in completeRender(), *)
(* triggerSwap(), completeSwap() and stop().                               *)
THEOREM AssertionsHold == Spec => []AssertionsInFrames
<1>1. FullInv => AssertionsInFrames
  BY DEF FullInv, ThreadInv, Thread, AssertionsInFrames
<1> QED BY <1>1, FullInvariance, PTL
=============================================================================
