---------------------- MODULE OcclusionEvidence_proofs ----------------------
(***************************************************************************)
(* Proofs about OcclusionQuery: on what evidence a cull drops the node's   *)
(* children, and how soon a node that has become visible is drawn again.   *)
(* A TestResult belongs to a context, so this is for cameras that have one *)
(* each; there can be any number of them.                                  *)
(***************************************************************************)
EXTENDS OcclusionQuery_proofs

OneCameraEach == \A c, d \in Cameras : Ctx[c] = Ctx[d] => c = d

Res(c) == tr[Ctx[c]]
Ours(c) == hook[c] # "foreign"
Newest(c) == jobs[c][Len(jobs[c])]
Asked(c) == \E i \in 1 .. Len(jobs[c]) : jobs[c][i].query

(* The last frame that c has culled.                                       *)
Culled(c) == IF culling[c] = "todo" THEN frame - 1 ELSE frame

(* The frames c has recorded and not drawn to the end.  While c culls, a   *)
(* query that is still out is the one of the frame before, already issued. *)
Before(c) == mode # "single" /\ (jobs[c][1].query => stage[c] = "post" /\ jobs[c][1].of = frame - 1)
Recorded(c) ==
    /\ lastQuery[c] <= Culled(c)
    /\ \A i \in 1 .. Len(jobs[c]) : jobs[c][i].query =>
          \/ jobs[c][i].of = lastQuery[c]
          \/ i = 1 /\ Len(jobs[c]) = 2 /\ jobs[c][2].query /\ jobs[c][1].of <= lastQuery[c]
    /\ culling[c] = "todo" /\ Len(jobs[c]) = 1 => Before(c)
    /\ culling[c] \in InCull =>
          /\ ~Newest(c).query /\ Newest(c).of = frame /\ lastQuery[c] < frame
          /\ Len(jobs[c]) = 2 => Before(c)
    /\ culling[c] = "done" /\ Len(jobs[c]) >= 1 => (Newest(c).query => Newest(c).of = frame)
    /\ culling[c] \in Deciding => lastQuery[c] # 0 /\ frame - lastQuery[c] <= QueryFrameCount + 1

(* What OpenGL holds is what the post-draw callback will retrieve.         *)
Retrieving(c) ==
    /\ Res(c).active =>
          /\ stage[c] = "post" /\ jobs[c][1].query
          /\ Res(c).init /\ hook[c] = "ours" /\ listed[c]
          /\ Res(c).due = [visible |-> jobs[c][1].visible, of |-> jobs[c][1].of]
    /\ stage[c] = "post" /\ jobs[c][1].query /\ Ours(c) => Res(c).active

(* Unless a query is out, the result answers the last one.                 *)
Answered(c) ==
    lastQuery[c] # 0 /\ Ours(c) /\ ~Asked(c) =>
        \/ Res(c).init /\ Res(c).of = lastQuery[c]
        \/ ~Res(c).init /\ releases > 0

(* What the pixel counts said, until getPassed returns.                    *)
Hidden(c) ==
    culling[c] = "counted" /\ ~passed /\ ~raced[c] =>
        \/ ~Res(c).init \/ ~Res(c).visible
        \/ mode # "single" /\ frame = lastQuery[c] + 1

(* The frames in which c would have seen the node are the last             *)
(* visibleFor[c] it has culled, or more.  It has traversed them all.       *)
Seen(c, f) == f > Culled(c) - visibleFor[c]
Traversed(c) ==
    /\ visibleFor[c] <= Culled(c)
    /\ culling[c] \in {"todo", "done"} /\ visibleFor[c] >= 1
          => Culled(c) - lastQuery[c] <= QueryFrameCount - 1
    /\ culling[c] \in InCull /\ visibleFor[c] >= 2
          => frame - lastQuery[c] <= QueryFrameCount
Truthful(c) ==
    /\ Res(c).of <= lastQuery[c]
    /\ Seen(c, Res(c).of) => Res(c).visible
    /\ \A i \in 1 .. Len(jobs[c]) :
          jobs[c][i].query /\ Seen(c, jobs[c][i].of) => jobs[c][i].visible
    /\ culling[c] \in InCull /\ visibleFor[c] >= 1 => Newest(c).visible
Returned(c) == Ours(c) /\ Seen(c, lastQuery[c]) /\ ~Asked(c) => Res(c).init

(* With a query out, the answer before it is one interval older, unless    *)
(* the node has been in view for less than that.                           *)
Interval(c) ==
    Ours(c) /\ Asked(c) /\ visibleFor[c] > QueryFrameCount + (Culled(c) - lastQuery[c]) =>
        IF Len(jobs[c]) = 2 /\ jobs[c][1].query /\ jobs[c][2].query
        THEN lastQuery[c] - jobs[c][1].of <= QueryFrameCount
        ELSE Res(c).init /\ lastQuery[c] - Res(c).of <= QueryFrameCount

Late(c) ==
    culling[c] = "counted" /\ ~passed /\ ~raced[c] /\ Ours(c) =>
        visibleFor[c] <= QueryFrameCount + (IF mode = "single" THEN 0 ELSE 1)

Evidence(c) == Recorded(c) /\ Retrieving(c) /\ Answered(c) /\ Hidden(c)
Timing(c) == Traversed(c) /\ Truthful(c) /\ Returned(c) /\ Interval(c) /\ Late(c)
EvidenceInv == \A c \in Cameras : Evidence(c)
TimingInv == \A c \in Cameras : Timing(c)

-----------------------------------------------------------------------------
(* What a camera has, by type.                                             *)
LEMMA Camera ==
  ASSUME Typed, NEW c \in Cameras
  PROVE  /\ jobs[c] \in Seq(Job) /\ Len(jobs[c]) \in 0 .. 2 /\ Queued(c)
         /\ \A i \in 1 .. Len(jobs[c]) : jobs[c][i] \in Job
         /\ Res(c) \in Result /\ Ctx[c] \in Contexts
         /\ lastQuery[c] \in Nat /\ visibleFor[c] \in Nat /\ frame \in Nat /\ releases \in Nat
         /\ QueryFrameCount \in Nat \ {0}
         /\ culling[c] \in {"todo", "done"} \cup InCull
<1>0. jobs[c] \in Seq(Job) /\ Len(jobs[c]) <= 2 /\ Queued(c)
  BY DEF Typed, TypeOK
<1>1. jobs[c] \in Seq(Job) /\ Len(jobs[c]) \in 0 .. 2 /\ Queued(c)
  <2>1. Len(jobs[c]) \in Nat
    BY <1>0
  <2>2. \A n \in Nat : n <= 2 => n \in 0 .. 2
    OBVIOUS
  <2> QED
    BY <1>0, <2>1, <2>2, Zenon
<1>2. \A i \in 1 .. Len(jobs[c]) : jobs[c][i] \in Job
  BY <1>1, ElementOfSeq
<1>3. Ctx[c] \in Contexts /\ Res(c) \in Result
  BY DEF Contexts, Res, Typed, TypeOK
<1>4. /\ lastQuery[c] \in Nat /\ visibleFor[c] \in Nat /\ frame \in Nat /\ releases \in Nat
      /\ QueryFrameCount \in Nat \ {0}
  BY QueryAssumption DEF Typed, TypeOK
<1>5. culling[c] \in {"todo", "done"} \cup InCull
  BY DEF Typed, TypeOK, InCull
<1> QED
  BY <1>1, <1>2, <1>3, <1>4, <1>5

(* The same without the sequence, for the steps of c's own frames.         *)
LEMMA Shape ==
  ASSUME Typed, NEW c \in Cameras
  PROVE  /\ Len(jobs[c]) \in {0, 1, 2} /\ Queued(c)
         /\ \A i \in 1 .. Len(jobs[c]) : jobs[c][i].query \in BOOLEAN /\ jobs[c][i].of \in Nat
         /\ Res(c).of \in Nat
         /\ lastQuery[c] \in Nat /\ visibleFor[c] \in Nat /\ frame \in Nat
         /\ QueryFrameCount \in Nat \ {0}
<1>1. \A j \in Job : j.query \in BOOLEAN /\ j.of \in Nat
  BY QueryAssumption DEF Job, Frames
<1>2. \A r \in Result : r.of \in Nat
  BY QueryAssumption DEF Result
<1>3. Len(jobs[c]) \in {0, 1, 2}
  <2>1. Len(jobs[c]) \in 0 .. 2
    BY Camera
  <2> QED
    BY <2>1
<1> QED
  BY <1>1, <1>2, <1>3, Camera

(* A step that leaves a camera and its result alone, and does not write    *)
(* _passed in the middle of its cull without it being noticed.             *)
Alone(c) ==
    /\ UNCHANGED <<frame, mode, culling[c], jobs[c], stage[c], lastQuery[c], hook[c],
                   listed[c], Res(c), visibleFor[c]>>
    /\ releases' \in Nat /\ releases' >= releases
    /\ \/ passed' = passed /\ raced'[c] = raced[c]
       \/ culling[c] # "counted"
       \/ raced'[c]

LEMMA AloneStep ==
  ASSUME Typed, NEW c \in Cameras, Evidence(c), Timing(c), Alone(c)
  PROVE  Evidence(c)' /\ Timing(c)'
<1>1. UNCHANGED <<Newest(c), Asked(c), Culled(c), Ours(c)>>
  BY DEF Alone, Newest, Asked, Culled, Ours
<1>2. Recorded(c)' /\ Retrieving(c)'
  BY <1>1 DEF Alone, Evidence, Recorded, Before, Retrieving, Ours
<1>3. Answered(c)' /\ Hidden(c)'
  BY <1>1, Camera DEF Alone, Evidence, Answered, Hidden
<1>4. Traversed(c)' /\ Truthful(c)' /\ Returned(c)'
  BY <1>1 DEF Alone, Timing, Traversed, Truthful, Returned, Seen
<1>5. Interval(c)' /\ Late(c)'
  BY <1>1 DEF Alone, Timing, Interval, Late
<1> QED
  BY <1>2, <1>3, <1>4, <1>5 DEF Evidence, Timing

LEMMA BeginStep ==
  ASSUME Typed, NEW c \in Cameras, Evidence(c), Timing(c), BeginFrame
  PROVE  Evidence(c)' /\ Timing(c)'
<1>1. /\ culling[c] = "done" /\ culling'[c] = "todo" /\ frame' = frame + 1
      /\ Drawn(c) \/ (mode # "single" /\ Len(jobs[c]) = 1 /\ QueryDrawn(c))
      /\ UNCHANGED <<mode, jobs, lastQuery, visibleFor, stage, hook, listed, tr, releases>>
  BY DEF BeginFrame, drawVars, glVars
<1>2. /\ Len(jobs[c]) = 0 \/ (mode # "single" /\ Len(jobs[c]) = 1 /\ QueryDrawn(c))
      /\ jobs[c] \in Seq(Job)
  BY <1>1, Camera DEF Drawn
<1>3. Len(jobs[c]) = 1 => Newest(c) = jobs[c][1] /\ Head(jobs[c]) = jobs[c][1]
  BY <1>2 DEF Newest
<1>4. /\ UNCHANGED <<Newest(c), Asked(c), Ours(c), Res(c)>>
      /\ Culled(c) = frame /\ Culled(c)' = frame
  BY <1>1, Camera DEF Newest, Asked, Ours, Res, Culled
<1>5. Recorded(c)'
  <2>1. lastQuery[c] <= frame BY <1>4 DEF Evidence, Recorded
  <2>2. Len(jobs[c]) = 1 => (jobs[c][1].query => stage[c] = "post" /\ jobs[c][1].of = frame)
    BY <1>1, <1>2, <1>3 DEF QueryDrawn, Evidence, Recorded
  <2>3. Len(jobs[c]) = 1 => Before(c)'
    BY <1>1, <1>2, <2>2, Camera DEF Before
  <2>4. \A i \in 1 .. Len(jobs[c]) : jobs[c][i].query => jobs[c][i].of = lastQuery[c]
    BY <1>2 DEF Evidence, Recorded
  <2> QED
    BY <1>1, <1>4, <2>1, <2>3, <2>4 DEF Recorded, InCull, Deciding
<1>6. Retrieving(c)' /\ Answered(c)' /\ Hidden(c)'
  BY <1>1, <1>4 DEF Evidence, Retrieving, Answered, Hidden, Ours
<1>7. Traversed(c)' /\ Truthful(c)' /\ Returned(c)' /\ Interval(c)' /\ Late(c)'
  BY <1>1, <1>4 DEF Timing, Traversed, Truthful, Returned, Interval, Late, Seen, InCull
<1> QED
  BY <1>5, <1>6, <1>7 DEF Evidence, Timing

(* A camera's cull adds a frame without a query.                           *)
LEMMA AppendJob ==
  ASSUME NEW c \in Cameras, NEW s \in Seq(Job), NEW j \in Job
  PROVE  /\ Len(Append(s, j)) = Len(s) + 1 /\ Append(s, j)[Len(s) + 1] = j
         /\ \A i \in 1 .. Len(s) : Append(s, j)[i] = s[i]
  OBVIOUS

(* What stays when a frame without a query is put behind c's others.       *)
Appended(c) ==
    \/ Len(jobs[c]) = 0 /\ Len(jobs'[c]) = 1 /\ ~jobs'[c][1].query
    \/ /\ Len(jobs[c]) = 1 /\ Len(jobs'[c]) = 2
       /\ jobs'[c][1] = jobs[c][1] /\ ~jobs'[c][2].query

LEMMA AppendedJob ==
  ASSUME Typed, NEW c \in Cameras, NEW j \in Job, ~j.query,
         culling[c] = "todo", jobs' = [jobs EXCEPT ![c] = Append(@, j)]
  PROVE  Appended(c) /\ Newest(c)' = j
<1>1. jobs[c] \in Seq(Job) /\ jobs'[c] = Append(jobs[c], j)
  BY DEF Typed
<1>2. Len(jobs[c]) \in {0, 1, 2} /\ Queued(c)
  BY Shape
<1>4. /\ Len(jobs'[c]) = Len(jobs[c]) + 1 /\ jobs'[c][Len(jobs[c]) + 1] = j
      /\ \A i \in 1 .. Len(jobs[c]) : jobs'[c][i] = jobs[c][i]
  BY <1>1, AppendJob
<1>5. CASE Len(jobs[c]) = 0
  <2>1. Len(jobs'[c]) = 1 /\ jobs'[c][1] = j
    BY <1>4, <1>5
  <2> QED
    BY <1>5, <2>1 DEF Appended, Newest
<1>6. CASE Len(jobs[c]) = 1
  <2>1. Len(jobs'[c]) = 2 /\ jobs'[c][2] = j /\ jobs'[c][1] = jobs[c][1]
    BY <1>4, <1>6
  <2> QED
    BY <1>6, <2>1 DEF Appended, Newest
<1> QED
  BY <1>2, <1>5, <1>6 DEF Queued

LEMMA AppendedQueries ==
  ASSUME Typed, NEW c \in Cameras, Evidence(c), culling[c] = "todo",
         Appended(c), UNCHANGED <<lastQuery[c], stage[c], hook[c], listed[c], Res(c)>>
  PROVE  /\ Asked(c)' <=> Asked(c)
         /\ ~Newest(c)'.query
         /\ \A i \in 1 .. Len(jobs'[c]) : jobs'[c][i].query =>
               i = 1 /\ Len(jobs[c]) = 1 /\ jobs'[c][i] = jobs[c][1] /\ jobs[c][1].of = lastQuery[c]
         /\ Retrieving(c)'
<1> DEFINE n == Len(jobs[c])
<1>1. Queued(c) /\ Retrieving(c) /\ Recorded(c)
  BY Shape DEF Evidence
<1>2. \A i \in 1 .. Len(jobs'[c]) : jobs'[c][i].query =>
               i = 1 /\ n = 1 /\ jobs'[c][i] = jobs[c][1]
  BY DEF Appended
<1>3. n = 1 /\ jobs[c][1].query => jobs[c][1].of = lastQuery[c]
  BY <1>1 DEF Recorded
<1>4. Asked(c)' <=> Asked(c)
  BY <1>2 DEF Asked, Appended
<1>5. ~Newest(c)'.query
  BY DEF Appended, Newest
<1>6. stage[c] = "post" => n = 1
  BY <1>1 DEF Appended, Queued
<1>7. Retrieving(c)'
  BY <1>1, <1>6 DEF Retrieving, Appended, Ours
<1> QED
  BY <1>2, <1>3, <1>4, <1>5, <1>7

LEMMA SkipStep ==
  ASSUME Typed, NEW c \in Cameras, Evidence(c), Timing(c), CullSkip(c)
  PROVE  Evidence(c)' /\ Timing(c)'
<1>1. /\ culling[c] = "todo" /\ culling'[c] = "done" /\ visibleFor'[c] = 0
      /\ jobs' = [jobs EXCEPT ![c] = Append(@, NoQuery)]
      /\ UNCHANGED <<mode, frame, lastQuery, stage, hook, listed, tr, releases>>
  BY DEF CullSkip, drawVars, glVars, Typed, TypeOK
<1>2. NoQuery \in Job /\ ~NoQuery.query
  BY QueryAssumption DEF NoQuery, Job, Frames
<1>3. Appended(c)
  BY <1>1, <1>2, AppendedJob
<1>4. UNCHANGED <<lastQuery[c], stage[c], hook[c], listed[c], Res(c), Ours(c)>>
  BY <1>1 DEF Res, Ours
<1>5. /\ Asked(c)' <=> Asked(c)
      /\ ~Newest(c)'.query
      /\ \A i \in 1 .. Len(jobs'[c]) : jobs'[c][i].query =>
            i = 1 /\ Len(jobs[c]) = 1 /\ jobs'[c][i] = jobs[c][1] /\ jobs[c][1].of = lastQuery[c]
      /\ Retrieving(c)'
  BY <1>1, <1>3, <1>4, AppendedQueries
<1>6. /\ lastQuery[c] \in Nat /\ frame \in Nat /\ QueryFrameCount \in Nat
      /\ Res(c).of \in Nat
  BY Shape
<1>7. Culled(c) = frame - 1 /\ Culled(c)' = frame /\ lastQuery[c] <= frame - 1
  BY <1>1 DEF Culled, Evidence, Recorded
<1>8. Recorded(c)'
  BY <1>1, <1>5, <1>6, <1>7 DEF Recorded, InCull, Deciding
<1>9. Answered(c)' /\ Hidden(c)'
  BY <1>1, <1>4, <1>5 DEF Evidence, Answered, Hidden
<1>10. Traversed(c)' /\ Late(c)' /\ Interval(c)' /\ Returned(c)'
  BY <1>1, <1>6, <1>7 DEF Traversed, Late, Interval, Returned, Seen, InCull
<1>11. Truthful(c)'
  BY <1>1, <1>4, <1>5, <1>6, <1>7 DEF Timing, Truthful, Seen, InCull
<1> QED
  BY <1>5, <1>8, <1>9, <1>10, <1>11 DEF Evidence, Timing

(* getPassed puts the frame behind the others, without a query yet.        *)
LEMMA GetPassedStep ==
  ASSUME Typed, NEW c \in Cameras, Evidence(c), Timing(c),
         NEW inside \in BOOLEAN, NEW visible \in BOOLEAN, GetPassed(c, inside, visible)
  PROVE  Evidence(c)' /\ Timing(c)'
<1> DEFINE job == [query |-> FALSE, visible |-> visible, of |-> frame]
<1>1. /\ culling[c] = "todo" /\ jobs' = [jobs EXCEPT ![c] = Append(@, job)]
      /\ UNCHANGED <<mode, frame, lastQuery, stage, hook, listed, tr, releases>>
  BY DEF GetPassed, drawVars, glVars
<1>2. /\ culling'[c] \in {"shown", "near"}
      /\ culling'[c] = "near" => ~Unasked(c)
  BY DEF GetPassed, Typed, TypeOK
<1>3. job \in Job /\ ~job.query /\ job.of = frame /\ job.visible = visible
  BY DEF Job, Frames, Typed, TypeOK
<1>4. Appended(c) /\ Newest(c)' = job
  <2> HIDE DEF job
  <2> QED
    BY <1>1, <1>3, AppendedJob
<1>5. UNCHANGED <<lastQuery[c], stage[c], hook[c], listed[c], Res(c), Ours(c)>>
  BY <1>1 DEF Res, Ours
<1>6. /\ Asked(c)' <=> Asked(c)
      /\ ~Newest(c)'.query
      /\ \A i \in 1 .. Len(jobs'[c]) : jobs'[c][i].query =>
            i = 1 /\ Len(jobs[c]) = 1 /\ jobs'[c][i] = jobs[c][1] /\ jobs[c][1].of = lastQuery[c]
      /\ Retrieving(c)'
  BY <1>1, <1>4, <1>5, AppendedQueries
<1>7. /\ lastQuery[c] \in Nat /\ frame \in Nat /\ QueryFrameCount \in Nat \ {0}
      /\ Res(c).of \in Nat /\ visibleFor[c] \in Nat
  BY Shape
<1>8. /\ visibleFor'[c] \in Nat /\ visibleFor'[c] <= visibleFor[c] + 1
      /\ visibleFor'[c] >= 1 => visible
  BY <1>7 DEF GetPassed, Typed, TypeOK
<1> HIDE DEF job
<1>10. Culled(c) = frame - 1 /\ Culled(c)' = frame /\ lastQuery[c] <= frame - 1
  BY <1>1, <1>2 DEF Culled, Evidence, Recorded
<1>11. ASSUME NEW f \in Nat, Seen(c, f)' PROVE Seen(c, f)
  BY <1>7, <1>8, <1>10, <1>11 DEF Seen
<1>12. Recorded(c)'
  <2>1. Len(jobs'[c]) = 2 => Before(c)'
    <3>1. Len(jobs'[c]) = 2 => Len(jobs[c]) = 1 /\ jobs'[c][1] = jobs[c][1]
      BY <1>4 DEF Appended
    <3> QED
      BY <1>1, <3>1 DEF Evidence, Recorded, Before
  <2>2. culling'[c] = "near" => lastQuery[c] # 0 /\ frame - lastQuery[c] <= QueryFrameCount + 1
    BY <1>2, <1>7 DEF Unasked
  <2> QED
    BY <1>1, <1>2, <1>3, <1>6, <1>7, <1>4, <1>10, <2>1, <2>2 DEF Recorded, InCull, Deciding
<1>13. Answered(c)' /\ Hidden(c)' /\ Late(c)'
  BY <1>1, <1>2, <1>5, <1>6 DEF Evidence, Answered, Hidden, Late
<1>14. Traversed(c)'
  BY <1>1, <1>2, <1>7, <1>8, <1>10 DEF Timing, Traversed, InCull
<1>15. Returned(c)'
  BY <1>1, <1>5, <1>6, <1>7, <1>11 DEF Timing, Returned
<1>16. Truthful(c)'
  <2>1. (\A i \in 1 .. Len(jobs[c]) :
            jobs[c][i].query /\ Seen(c, jobs[c][i].of) => jobs[c][i].visible)'
    BY <1>6, <1>7, <1>11 DEF Timing, Truthful
  <2>2. visibleFor'[c] >= 1 => Newest(c)'.visible
    BY <1>3, <1>4, <1>8, Zenon
  <2>3. (Res(c).of <= lastQuery[c] /\ (Seen(c, Res(c).of) => Res(c).visible))'
    BY <1>1, <1>5, <1>6, <1>7, <1>11 DEF Timing, Truthful
  <2> QED
    BY <2>1, <2>2, <2>3 DEF Truthful
<1>17. Interval(c)'
  <2>1. ~(Len(jobs[c]) = 2) /\ (Len(jobs'[c]) = 2 => ~jobs'[c][2].query)
    BY <1>4, <1>3 DEF Appended
  <2>2. Ours(c) /\ Asked(c) /\ visibleFor[c] > QueryFrameCount + (frame - 1 - lastQuery[c]) =>
          Res(c).init /\ lastQuery[c] - Res(c).of <= QueryFrameCount
    BY <1>10, <2>1 DEF Timing, Interval
  <2>3. visibleFor'[c] > QueryFrameCount + (frame - lastQuery[c]) =>
          visibleFor[c] > QueryFrameCount + (frame - 1 - lastQuery[c])
    BY <1>7, <1>8
  <2>4. UNCHANGED <<lastQuery[c], Res(c), Ours(c)>> /\ (Asked(c)' <=> Asked(c)) /\ Culled(c)' = frame
    BY <1>5, <1>6, <1>10
  <2> QED
    BY <2>1, <2>2, <2>3, <2>4 DEF Interval
<1> QED
  BY <1>6, <1>12, <1>13, <1>14, <1>15, <1>16, <1>17 DEF Evidence, Timing

(* The pixel count that decides: of the last query if it was retrieved,    *)
(* otherwise of the one before.                                            *)
LEMMA CountPixelsStep ==
  ASSUME Typed, NEW c \in Cameras, Evidence(c), Timing(c), CountPixels(c)
  PROVE  Evidence(c)' /\ Timing(c)'
<1>1. /\ culling[c] = "near" /\ culling'[c] = "counted"
      /\ UNCHANGED <<mode, frame, lastQuery, visibleFor, jobs, stage, hook, listed, tr, releases>>
  BY DEF CountPixels, drawVars, glVars, Typed, TypeOK
<1>2. UNCHANGED <<Newest(c), Asked(c), Culled(c), Ours(c), Res(c)>>
  BY <1>1 DEF Newest, Asked, Culled, Ours, Res
<1>3. Culled(c) = frame
  BY <1>1 DEF Culled
<1>4. ~passed' => ~(Res(c).init /\ Res(c).visible)
  <2>1. passed \in BOOLEAN /\ ((passed /\ passed' = passed) \/ (~passed /\ passed' = NumPixelsAbove))
    BY Zenon DEF CountPixels, Typed, TypeOK
  <2>2. ~passed' => ~NumPixelsAbove
    BY <2>1, Zenon
  <2> QED
    BY <2>2, Camera DEF NumPixelsAbove, Res
<1>5. Recorded(c)' /\ Retrieving(c)' /\ Answered(c)'
  BY <1>1, <1>2 DEF Evidence, Recorded, Retrieving, Answered, Before, InCull, Deciding
<1>6. Hidden(c)'
  BY <1>2, <1>4 DEF Hidden
<1>7. Traversed(c)' /\ Truthful(c)' /\ Returned(c)' /\ Interval(c)'
  BY <1>1, <1>2 DEF Timing, Traversed, Truthful, Returned, Interval, Seen, InCull
<1>8. /\ Len(jobs[c]) \in {0, 1, 2}
      /\ lastQuery[c] \in Nat /\ visibleFor[c] \in Nat /\ frame \in Nat
      /\ QueryFrameCount \in Nat \ {0} /\ Res(c).of \in Nat
  BY Shape
<1>9. /\ lastQuery[c] # 0
      /\ visibleFor[c] >= 2 => frame - lastQuery[c] <= QueryFrameCount
  BY <1>1 DEF Evidence, Timing, Recorded, Traversed, Deciding, InCull
<1>10. ASSUME ~passed', Ours(c)
       PROVE  visibleFor[c] <= QueryFrameCount + (IF mode = "single" THEN 0 ELSE 1)
  <2>1. CASE ~Asked(c)
    <3>1. ~Seen(c, lastQuery[c])
      <4>1. Seen(c, lastQuery[c]) => Res(c).init /\ Res(c).of = lastQuery[c]
        BY <1>9, <1>10, <2>1 DEF Evidence, Timing, Returned, Answered
      <4> QED
        BY <1>4, <1>10, <4>1 DEF Timing, Truthful
    <3>2. visibleFor[c] <= frame - lastQuery[c]
      BY <1>3, <1>8, <3>1 DEF Seen
    <3> QED
      BY <1>8, <1>9, <3>2
  <2>2. CASE Asked(c)
    <3>1. Len(jobs[c]) = 2 /\ jobs[c][1].query /\ ~jobs[c][2].query
      BY <1>1, <1>8, <2>2 DEF Evidence, Recorded, Asked, Newest, InCull
    <3>2. mode # "single" /\ lastQuery[c] = frame - 1
      BY <1>1, <1>8, <3>1 DEF Evidence, Recorded, Before, InCull
    <3>3. ASSUME visibleFor[c] > QueryFrameCount + 1 PROVE FALSE
      <4>1. Res(c).init /\ lastQuery[c] - Res(c).of <= QueryFrameCount
        BY <1>3, <1>8, <1>10, <2>2, <3>1, <3>2, <3>3 DEF Timing, Interval
      <4>2. Seen(c, Res(c).of)
        BY <1>3, <1>8, <3>2, <3>3, <4>1 DEF Seen
      <4> QED
        BY <1>4, <1>10, <4>1, <4>2 DEF Timing, Truthful
    <3> QED
      BY <1>8, <3>2, <3>3
  <2> QED
    BY <2>1, <2>2
<1>11. Late(c)'
  BY <1>1, <1>2, <1>10 DEF Late
<1> QED
  BY <1>5, <1>6, <1>7, <1>11 DEF Evidence, Timing

(* traverseQuery makes the frame one with a query, or one with nothing.    *)
LEMMA ReplacedJob ==
  ASSUME Typed, NEW c \in Cameras, TraverseQuery(c)
  PROVE  /\ Len(jobs[c]) \in {1, 2} /\ Len(jobs'[c]) = Len(jobs[c])
         /\ Newest(c)' = IF IssueQuery(c) THEN [Newest(c) EXCEPT !.query = TRUE] ELSE NoQuery
         /\ Len(jobs[c]) = 2 => jobs'[c][1] = jobs[c][1] /\ stage'[c] = stage[c]
         /\ Newest(c) \in Job
<1> DEFINE n == Len(jobs[c])
           j == IF IssueQuery(c) THEN [jobs[c][n] EXCEPT !.query = TRUE] ELSE NoQuery
<1>1. /\ jobs' = [jobs EXCEPT ![c] = [jobs[c] EXCEPT ![n] = j]]
      /\ culling[c] \in InCull /\ stage' = stage
  BY DEF TraverseQuery, drawVars, InCull
<1>2. n \in {0, 1, 2} /\ (culling[c] \in InCull => n >= 1)
  BY Shape DEF Queued
<1>3. n \in {1, 2}
  BY <1>1, <1>2
<1>4. jobs[c] \in Seq(Job) /\ jobs[c][n] \in Job
  <2>1. n \in 1 .. n
    BY <1>3
  <2> QED
    BY <2>1, Camera
<1> HIDE DEF j
<1>5. jobs'[c] = [jobs[c] EXCEPT ![n] = j]
  BY <1>1 DEF Typed
<1>6. DOMAIN jobs[c] = 1 .. n
  BY <1>4
<1>7. DOMAIN jobs'[c] = 1 .. n /\ Len(jobs'[c]) = n
  BY <1>3, <1>5, <1>6
<1>8. jobs'[c][n] = j /\ (n = 2 => jobs'[c][1] = jobs[c][1])
  BY <1>3, <1>5, <1>6
<1> QED
  BY <1>1, <1>3, <1>4, <1>7, <1>8 DEF Newest, j

LEMMA TraverseStep ==
  ASSUME Typed, NEW c \in Cameras, Evidence(c), Timing(c), TraverseQuery(c)
  PROVE  Evidence(c)' /\ Timing(c)'
<1>1. /\ culling[c] \in InCull /\ culling'[c] = "done"
      /\ lastQuery'[c] = QueryStamp(c)
      /\ UNCHANGED <<mode, frame, visibleFor, stage, hook, listed, tr, releases>>
  BY DEF TraverseQuery, drawVars, glVars, InCull, Typed, TypeOK
<1>2. UNCHANGED <<Ours(c), Res(c)>> /\ Culled(c) = frame /\ Culled(c)' = frame
  BY <1>1 DEF Ours, Res, Culled, InCull
<1>3. /\ Len(jobs[c]) \in {1, 2} /\ Len(jobs'[c]) = Len(jobs[c])
      /\ Newest(c)' = IF IssueQuery(c) THEN [Newest(c) EXCEPT !.query = TRUE] ELSE NoQuery
      /\ Len(jobs[c]) = 2 => jobs'[c][1] = jobs[c][1]
      /\ Newest(c) \in Job
  BY ReplacedJob
<1>4. /\ lastQuery[c] \in Nat /\ visibleFor[c] \in Nat /\ frame \in Nat
      /\ QueryFrameCount \in Nat \ {0} /\ Res(c).of \in Nat
      /\ stage[c] = "post" => Len(jobs[c]) = 2
  BY <1>1, Shape DEF Queued
<1>5. /\ ~Newest(c).query /\ Newest(c).of = frame /\ lastQuery[c] < frame
      /\ Len(jobs[c]) = 2 => Before(c)
      /\ visibleFor[c] >= 1 => Newest(c).visible
      /\ visibleFor[c] <= frame
      /\ visibleFor[c] >= 2 => frame - lastQuery[c] <= QueryFrameCount
  BY <1>1, <1>2 DEF Evidence, Timing, Recorded, Truthful, Traversed
<1>6. Len(jobs[c]) = 2 /\ jobs[c][1].query =>
        jobs[c][1].of = lastQuery[c] /\ lastQuery[c] = frame - 1 /\ mode # "single"
  <2>1. Len(jobs[c]) = 2 => ~jobs[c][2].query
    BY <1>5 DEF Newest
  <2> QED
    BY <1>4, <1>5, <2>1 DEF Evidence, Recorded, Before
<1>7. Retrieving(c)'
  <2>1. Res(c).active => stage[c] = "post"
    BY DEF Evidence, Retrieving
  <2>2. stage[c] = "post" => Len(jobs[c]) = 2 /\ jobs'[c][1] = jobs[c][1]
    BY <1>3, <1>4
  <2> QED
    BY <1>1, <1>2, <2>1, <2>2 DEF Evidence, Retrieving
<1>8. Hidden(c)' /\ Late(c)'
  BY <1>1 DEF Hidden, Late
<1>9. CASE IssueQuery(c)
  <2>1. lastQuery'[c] = frame
    BY <1>1, <1>9 DEF QueryStamp
  <2>2. Newest(c)'.query /\ Newest(c)'.of = frame /\ Newest(c)'.visible = Newest(c).visible
    BY <1>3, <1>5, <1>9 DEF Job
  <2>3. Asked(c)'
    <3>1. Len(jobs'[c]) \in 1 .. Len(jobs'[c])
      BY <1>3
    <3> QED
      BY <2>2, <3>1 DEF Asked, Newest
  <2>4. \A i \in 1 .. Len(jobs'[c]) :
           jobs'[c][i] = Newest(c)' \/ (i = 1 /\ Len(jobs[c]) = 2 /\ jobs'[c][i] = jobs[c][1])
    BY <1>3 DEF Newest
  <2>5. Len(jobs'[c]) = 2 => jobs'[c][2] = Newest(c)'
    BY DEF Newest
  <2>6. Recorded(c)'
    <3>1. \A i \in 1 .. Len(jobs'[c]) : jobs'[c][i].query =>
            \/ jobs'[c][i].of = frame
            \/ i = 1 /\ Len(jobs'[c]) = 2 /\ jobs'[c][2].query /\ jobs'[c][1].of <= frame
      <4> TAKE i \in 1 .. Len(jobs'[c])
      <4>1. CASE jobs'[c][i] = Newest(c)'
        BY <2>2, <4>1
      <4>2. CASE i = 1 /\ Len(jobs[c]) = 2 /\ jobs'[c][i] = jobs[c][1]
        <5>1. Len(jobs'[c]) = 2 /\ jobs'[c][2].query
          BY <1>3, <2>2, <2>5, <4>2
        <5>2. jobs[c][1].query => jobs[c][1].of <= frame
          BY <1>4, <1>6, <4>2
        <5> QED
          BY <4>2, <5>1, <5>2
      <4> QED
        BY <2>4, <4>1, <4>2
    <3> QED
      BY <1>1, <1>2, <1>4, <2>1, <2>2, <3>1 DEF Recorded, InCull, Deciding
  <2>7. Answered(c)' /\ Returned(c)'
    BY <2>3 DEF Answered, Returned
  <2>8. Traversed(c)'
    BY <1>1, <1>2, <1>4, <1>5, <2>1 DEF Traversed, InCull
  <2>9. Truthful(c)'
    <3>1. Seen(c, Res(c).of)' => Res(c).visible
      BY <1>1, <1>2 DEF Timing, Truthful, Seen
    <3>3. ASSUME NEW f, Seen(c, f)' PROVE Seen(c, f)
      BY <1>1, <1>2, <3>3 DEF Seen
    <3>6. Len(jobs[c]) = 2 /\ jobs[c][1].query /\ Seen(c, jobs[c][1].of) => jobs[c][1].visible
      BY DEF Timing, Truthful
    <3>4. ASSUME NEW i \in 1 .. Len(jobs'[c]), jobs'[c][i].query, Seen(c, jobs[c][i].of)'
          PROVE  jobs'[c][i].visible
      <4>1. CASE jobs'[c][i] = Newest(c)'
        BY <1>1, <1>2, <1>4, <1>5, <2>2, <3>4, <4>1 DEF Seen
      <4>2. CASE i = 1 /\ Len(jobs[c]) = 2 /\ jobs'[c][i] = jobs[c][1]
        BY <3>3, <3>4, <3>6, <4>2
      <4> QED
        BY <2>4, <4>1, <4>2
    <3>5. Res(c).of <= lastQuery'[c]
      BY <1>4, <1>5, <2>1 DEF Timing, Truthful
    <3> QED
      BY <1>1, <1>2, <3>1, <3>4, <3>5 DEF Truthful, InCull
  <2>10. Interval(c)'
    <3>1. CASE Len(jobs[c]) = 2 /\ jobs[c][1].query
      <4>1. Len(jobs'[c]) = 2 /\ jobs'[c][1].query /\ jobs'[c][2].query /\ jobs'[c][1].of = frame - 1
        BY <1>3, <1>6, <2>2, <2>5, <3>1
      <4> QED
        BY <1>4, <2>1, <4>1 DEF Interval
    <3>2. CASE ~(Len(jobs[c]) = 2 /\ jobs[c][1].query)
      <4>1. ~Asked(c) /\ ~(Len(jobs'[c]) = 2 /\ jobs'[c][1].query)
        BY <1>3, <1>5, <3>2 DEF Asked, Newest
      <4>2. ASSUME Ours(c), visibleFor[c] > QueryFrameCount
            PROVE  Res(c).init /\ frame - Res(c).of <= QueryFrameCount
        <5>1. frame - lastQuery[c] <= QueryFrameCount
          BY <1>4, <1>5, <4>2
        <5>2. Seen(c, lastQuery[c]) /\ lastQuery[c] # 0
          BY <1>2, <1>4, <1>5, <4>2, <5>1 DEF Seen
        <5>3. Res(c).init /\ Res(c).of = lastQuery[c]
          BY <4>1, <4>2, <5>2 DEF Evidence, Timing, Answered, Returned
        <5> QED
          BY <5>1, <5>3
      <4> QED
        BY <1>1, <1>2, <1>4, <2>1, <4>1, <4>2 DEF Interval
    <3> QED
      BY <3>1, <3>2
  <2> QED
    BY <1>7, <1>8, <2>6, <2>7, <2>8, <2>9, <2>10 DEF Evidence, Timing
<1>10. CASE ~IssueQuery(c)
  <2>1. lastQuery'[c] = lastQuery[c] /\ frame - lastQuery[c] <= QueryFrameCount - 1
    BY <1>1, <1>4, <1>10 DEF QueryStamp, IssueQuery
  <2>2. ~Newest(c)'.query
    BY <1>3, <1>10 DEF NoQuery
  <2>3. Len(jobs'[c]) = 2 => ~jobs'[c][2].query
    BY <2>2 DEF Newest
  <2>4. \A i \in 1 .. Len(jobs'[c]) : jobs'[c][i].query =>
           i = 1 /\ Len(jobs[c]) = 2 /\ jobs'[c][i] = jobs[c][1]
    BY <1>3, <2>2 DEF Newest
  <2>5. Asked(c)' <=> Asked(c)
    BY <1>3, <1>5, <2>2 DEF Asked, Newest
  <2>6. Recorded(c)'
    BY <1>1, <1>2, <1>4, <1>5, <1>6, <2>1, <2>2, <2>4 DEF Recorded, InCull, Deciding
  <2>7. Answered(c)'
    BY <1>1, <1>2, <2>1, <2>5 DEF Evidence, Answered
  <2>8. Traversed(c)'
    BY <1>1, <1>2, <1>5, <2>1 DEF Traversed, InCull
  <2>9. Truthful(c)'
    <3>1. ASSUME NEW i \in 1 .. Len(jobs'[c]), jobs'[c][i].query, Seen(c, jobs[c][i].of)'
          PROVE  jobs'[c][i].visible
      BY <1>1, <1>2, <2>4, <3>1 DEF Timing, Truthful, Seen
    <3> QED
      BY <1>1, <1>2, <2>1, <3>1 DEF Timing, Truthful, Seen, InCull
  <2>10. Returned(c)'
    BY <1>1, <1>2, <2>1, <2>5 DEF Timing, Returned, Seen
  <2>11. Interval(c)'
    <3>1. Len(jobs[c]) = 2 => ~jobs[c][2].query
      BY <1>5 DEF Newest
    <3> QED
      BY <1>1, <1>2, <2>1, <2>3, <2>5, <3>1 DEF Timing, Interval
  <2> QED
    BY <1>7, <1>8, <2>6, <2>7, <2>8, <2>9, <2>10, <2>11 DEF Evidence, Timing
<1> QED
  BY <1>9, <1>10

(* The draw of c's frame: a query that is recorded is issued.              *)
LEMMA DrawStep ==
  ASSUME Typed, NEW c \in Cameras, Evidence(c), Timing(c), DrawGeometry(c)
  PROVE  Evidence(c)' /\ Timing(c)'
<1>1. /\ stage[c] = "idle" /\ stage'[c] = "post" /\ jobs[c] # << >>
      /\ UNCHANGED <<mode, frame, culling, raced, passed, lastQuery, visibleFor, jobs, releases>>
  BY DEF DrawGeometry, Drawn, cullVars, Typed, TypeOK
<1>2. Len(jobs[c]) \in {1, 2} /\ Head(jobs[c]) = jobs[c][1]
  BY <1>1, Camera
<1>3. /\ UNCHANGED <<Newest(c), Asked(c), Culled(c)>>
      /\ ~Res(c).active
  BY <1>1 DEF Newest, Asked, Culled, Evidence, Retrieving
<1>4. Recorded(c)'
  BY <1>1, <1>3 DEF Evidence, Recorded, Before
<1>5. Traversed(c)'
  BY <1>1, <1>3 DEF Timing, Traversed
<1>6. CASE Res(c)' = Res(c) /\ hook'[c] = hook[c] /\ (jobs[c][1].query => ~Ours(c))
  <2>1. Ours(c)' = Ours(c)
    BY <1>6 DEF Ours
  <2>2. Retrieving(c)' /\ Answered(c)' /\ Hidden(c)'
    BY <1>1, <1>3, <1>6, <2>1 DEF Evidence, Retrieving, Answered, Hidden
  <2>3. Truthful(c)' /\ Returned(c)' /\ Interval(c)' /\ Late(c)'
    BY <1>1, <1>3, <1>6, <2>1 DEF Timing, Truthful, Returned, Interval, Late, Seen
  <2> QED
    BY <1>4, <1>5, <2>2, <2>3 DEF Evidence, Timing
<1>7. CASE /\ jobs[c][1].query /\ Ours(c) /\ Ours(c)' /\ hook'[c] = "ours" /\ listed'[c]
           /\ Res(c)'.active /\ Res(c)'.init
           /\ Res(c)'.due = [visible |-> jobs[c][1].visible, of |-> jobs[c][1].of]
           /\ Res(c)'.visible = Res(c).visible /\ Res(c)'.of = Res(c).of
  <2>1. Asked(c)
    BY <1>2, <1>7 DEF Asked
  <2>2. culling[c] = "done"
    <3>1. ~Before(c)
      BY <1>1, <1>7 DEF Before
    <3>2. culling[c] \in {"todo", "done"} \cup InCull /\ Queued(c)
      BY Camera
    <3>3. culling[c] # "todo"
      BY <1>2, <3>1, <3>2 DEF Evidence, Recorded, Queued
    <3>4. culling[c] \notin InCull
      <4>1. culling[c] \in InCull => ~Newest(c).query /\ (Len(jobs[c]) = 2 => Before(c))
        BY DEF Evidence, Recorded
      <4>2. Len(jobs[c]) = 1 => Newest(c) = jobs[c][1]
        BY DEF Newest
      <4> QED
        BY <1>2, <1>7, <3>1, <4>1, <4>2
    <3> QED
      BY <3>2, <3>3, <3>4
  <2>3. Retrieving(c)'
    BY <1>1, <1>7 DEF Retrieving
  <2>4. Answered(c)' /\ Hidden(c)' /\ Returned(c)' /\ Late(c)'
    BY <1>1, <1>3, <2>1, <2>2 DEF Answered, Hidden, Returned, Late
  <2>5. Truthful(c)' /\ Interval(c)'
    BY <1>1, <1>3, <1>7 DEF Timing, Truthful, Interval, Seen
  <2> QED
    BY <1>4, <1>5, <2>3, <2>4, <2>5 DEF Evidence, Timing
<1>8. Res(c) \in Result /\ Ctx[c] \in Contexts
  BY Camera
<1>9. CASE ~Head(jobs[c]).query \/ hook[c] = "foreign"
  BY <1>2, <1>6, <1>9 DEF DrawGeometry, Ours, Res
<1>10. CASE Head(jobs[c]).query /\ hook[c] # "foreign"
  <2> DEFINE due == [visible |-> Head(jobs[c]).visible, of |-> Head(jobs[c]).of]
  <2>1. /\ hook'[c] = "ours" /\ listed'[c]
        /\ \E id \in GenQuery(Ctx[c]) : tr' = [tr EXCEPT ![Ctx[c]] =
              [@ EXCEPT !.init = TRUE, !.id = id, !.contextID = Ctx[c], !.active = TRUE,
                        !.due = due]]
    BY <1>10 DEF DrawGeometry, Typed, TypeOK
  <2> HIDE DEF due
  <2>2. PICK id : Res(c)' = [Res(c) EXCEPT !.init = TRUE, !.id = id, !.contextID = Ctx[c],
                                           !.active = TRUE, !.due = due]
    BY <1>8, <2>1 DEF Res, Typed, TypeOK
  <2>3. /\ Res(c)'.active /\ Res(c)'.init /\ Res(c)'.due = due
        /\ Res(c)'.visible = Res(c).visible /\ Res(c)'.of = Res(c).of
    BY <1>8, <2>2 DEF Result
  <2> QED
    BY <1>2, <1>7, <1>10, <2>1, <2>3 DEF Ours, due
<1> QED
  BY <1>9, <1>10

(* What is left of c's frames when the first has been drawn.               *)
LEMMA DrawnJob ==
  ASSUME Typed, NEW c \in Cameras, PostDraw(c)
  PROVE  \/ Len(jobs[c]) = 1 /\ Len(jobs'[c]) = 0
         \/ Len(jobs[c]) = 2 /\ Len(jobs'[c]) = 1 /\ jobs'[c][1] = jobs[c][2]
<1>1. Len(jobs[c]) \in {0, 1, 2} /\ Len(jobs[c]) >= 1
  BY Shape DEF PostDraw, Queued
<1>2. jobs[c] \in Seq(Job) /\ jobs'[c] = Tail(jobs[c])
  BY DEF PostDraw, Typed
<1>3. jobs[c] # << >>
  BY <1>1, <1>2
<1>4. /\ Len(jobs'[c]) = Len(jobs[c]) - 1
      /\ Len(jobs[c]) = 2 => jobs'[c][1] = jobs[c][2]
  BY <1>2, <1>3
<1> QED
  BY <1>1, <1>4

(* The post-draw callback: the answer to the query, if it is c's own.      *)
LEMMA PostDrawStep ==
  ASSUME Typed, NEW c \in Cameras, Evidence(c), Timing(c), PostDraw(c)
  PROVE  Evidence(c)' /\ Timing(c)'
<1>1. /\ stage[c] = "post" /\ stage'[c] = "idle"
      /\ UNCHANGED <<mode, frame, culling, raced, passed, lastQuery, visibleFor, hook, listed,
                     releases>>
  BY DEF PostDraw, cullVars, Typed, TypeOK
<1>2. \/ Len(jobs[c]) = 1 /\ Len(jobs'[c]) = 0
      \/ Len(jobs[c]) = 2 /\ Len(jobs'[c]) = 1 /\ jobs'[c][1] = jobs[c][2]
  BY DrawnJob
<1>3. /\ culling[c] \in InCull => Len(jobs[c]) = 2
      /\ culling[c] = "todo" => Len(jobs[c]) = 1
      /\ lastQuery[c] \in Nat
      /\ Res(c) \in Result /\ Ctx[c] \in Contexts
  BY <1>1, <1>2, Camera DEF Queued
<1>4. UNCHANGED <<Ours(c), Culled(c)>> /\ (Len(jobs[c]) = 2 => Newest(c)' = Newest(c))
  BY <1>1, <1>2 DEF Ours, Culled, Newest
<1>5. Asked(c) <=> jobs[c][1].query \/ (Len(jobs[c]) = 2 /\ jobs[c][2].query)
  BY <1>2 DEF Asked
<1>6. Asked(c)' <=> Len(jobs[c]) = 2 /\ jobs[c][2].query
  BY <1>2 DEF Asked
<1>7. \A i \in 1 .. Len(jobs'[c]) : i = 1 /\ Len(jobs[c]) = 2 /\ jobs'[c][i] = jobs[c][2]
  <2>1. CASE Len(jobs'[c]) = 0
    BY <2>1
  <2>2. CASE Len(jobs'[c]) = 1
    BY <1>2, <2>2
  <2> QED
    BY <1>2, <2>1, <2>2
<1>8. /\ Len(jobs[c]) = 2 /\ jobs[c][2].query => jobs[c][2].of = lastQuery[c]
      /\ jobs[c][1].query => jobs[c][1].of <= lastQuery[c]
      /\ jobs[c][1].query /\ ~Asked(c)' => jobs[c][1].of = lastQuery[c]
  BY <1>2, <1>3, <1>6 DEF Evidence, Recorded
<1>9. ~Res(c)'.active
      /\ IF Res(c).active
         THEN /\ Res(c)'.init /\ Res(c)'.visible = Res(c).due.visible
              /\ Res(c)'.of = Res(c).due.of
         ELSE Res(c)' = Res(c)
  <2>1. Res(c).active => Res(c).init /\ hook[c] = "ours" /\ listed[c]
    BY DEF Evidence, Retrieving
  <2>2. CASE ~Res(c).active
    BY <2>2 DEF PostDraw, Res
  <2>3. CASE Res(c).active
    <3>1. Res(c)' = [Res(c) EXCEPT !.active = FALSE, !.visible = Res(c).due.visible,
                                   !.of = Res(c).due.of, !.due = NotDue]
      BY <1>3, <2>1, <2>3 DEF PostDraw, Res, Typed, TypeOK
    <3> QED
      BY <1>3, <2>1, <2>3, <3>1 DEF Result
  <2> QED
    BY <2>2, <2>3
<1>10. IF jobs[c][1].query /\ Ours(c)
       THEN Res(c)'.init /\ Res(c)'.visible = jobs[c][1].visible /\ Res(c)'.of = jobs[c][1].of
       ELSE Res(c)' = Res(c)
  BY <1>1, <1>9 DEF Evidence, Retrieving, Ours
<1>11. Recorded(c)'
  <2>1. \A i \in 1 .. Len(jobs'[c]) : jobs'[c][i].query => jobs'[c][i].of = lastQuery[c]
    BY <1>7, <1>8
  <2>2. culling[c] \in InCull =>
          ~Newest(c)'.query /\ Newest(c)'.of = frame /\ lastQuery[c] < frame
    BY <1>3, <1>4 DEF Evidence, Recorded
  <2>3. culling[c] = "done" /\ Len(jobs'[c]) >= 1 => (Newest(c)'.query => Newest(c)'.of = frame)
    BY <1>2, <1>4 DEF Evidence, Recorded
  <2>4. ~(Len(jobs'[c]) = 2) /\ ~(culling[c] = "todo" /\ Len(jobs'[c]) = 1)
    <3>1. ~(Len(jobs'[c]) = 2)
      BY <1>2
    <3>2. culling[c] = "todo" => Len(jobs[c]) # 2
      BY <1>3
    <3>3. Len(jobs'[c]) = 1 => Len(jobs[c]) = 2
      BY <1>2
    <3> QED
      BY <3>1, <3>2, <3>3
  <2> QED
    BY <1>1, <1>4, <2>1, <2>2, <2>3, <2>4 DEF Evidence, Recorded
<1>12. Retrieving(c)'
  BY <1>1, <1>9 DEF Retrieving
<1>13. Answered(c)' /\ Returned(c)'
  BY <1>1, <1>4, <1>5, <1>6, <1>8, <1>10 DEF Evidence, Timing, Answered, Returned, Seen
<1>14. Hidden(c)'
  <2>1. culling[c] = "counted" /\ jobs[c][1].query => mode # "single" /\ frame = lastQuery[c] + 1
    <3>1. culling[c] = "counted" => Len(jobs[c]) = 2 /\ ~Newest(c).query /\ Before(c)
      BY <1>3 DEF Evidence, Recorded, InCull
    <3>2. culling[c] = "counted" => ~Asked(c)'
      BY <1>6, <3>1 DEF Newest
    <3>3. frame \in Nat
      BY Camera
    <3> QED
      BY <1>8, <3>1, <3>2, <3>3 DEF Before
  <2> QED
    BY <1>1, <1>10, <2>1 DEF Evidence, Hidden
<1>15. Traversed(c)' /\ Late(c)'
  BY <1>1, <1>4 DEF Timing, Traversed, Late
<1>16. Truthful(c)'
  <2>1. Len(jobs[c]) = 2 /\ jobs[c][2].query /\ Seen(c, jobs[c][2].of) => jobs[c][2].visible
    BY DEF Timing, Truthful
  <2>2. jobs[c][1].query /\ Seen(c, jobs[c][1].of) => jobs[c][1].visible
    BY <1>2 DEF Timing, Truthful
  <2>3. Res(c)'.of <= lastQuery[c] /\ (Seen(c, Res(c)'.of) => Res(c)'.visible)
    BY <1>8, <1>10, <2>2 DEF Timing, Truthful
  <2>4. culling[c] \in InCull /\ visibleFor[c] >= 1 => Newest(c)'.visible
    BY <1>3, <1>4 DEF Timing, Truthful
  <2> QED
    BY <1>1, <1>4, <1>7, <2>1, <2>3, <2>4 DEF Truthful, Seen
<1>17. Interval(c)'
  BY <1>1, <1>2, <1>4, <1>5, <1>6, <1>10 DEF Timing, Interval
<1> QED
  BY <1>11, <1>12, <1>13, <1>14, <1>15, <1>16, <1>17 DEF Evidence, Timing

(* A release of c's context: its result is no longer initialised.          *)
LEMMA ReleaseStep ==
  ASSUME Typed, Ownership, NEW c \in Cameras, Evidence(c), Timing(c), ReleaseGLObjects(Ctx[c])
  PROVE  Evidence(c)' /\ Timing(c)'
<1>1. /\ stage[c] = "idle" /\ releases' = releases + 1 /\ visibleFor'[c] = 0
      /\ UNCHANGED <<mode, frame, culling, raced, passed, lastQuery, jobs, stage, hook, listed>>
  BY DEF ReleaseGLObjects, ContextFree, drawVars
<1>2. UNCHANGED <<Newest(c), Asked(c), Culled(c), Ours(c)>>
  BY <1>1 DEF Newest, Asked, Culled, Ours
<1>3. /\ Res(c) \in Result /\ Ctx[c] \in Contexts /\ releases \in Nat
      /\ Res(c).init => Res(c).contextID = Ctx[c]
  BY Camera DEF Ownership, Bound, Res
<1>4. Res(c)' = [Res(c) EXCEPT !.init = @ /\ Res(c).contextID # Ctx[c]]
  BY <1>3 DEF ReleaseGLObjects, Res, Typed, TypeOK
<1>5. ~Res(c)'.init /\ Res(c)'.of = Res(c).of /\ Res(c)'.active = Res(c).active
  BY <1>3, <1>4 DEF Result
<1>6. Recorded(c)'
  BY <1>1, <1>2 DEF Evidence, Recorded, Before
<1>7. Retrieving(c)' /\ Answered(c)' /\ Hidden(c)'
  BY <1>1, <1>3, <1>5 DEF Evidence, Retrieving, Answered, Hidden
<1>8. /\ lastQuery[c] \in Nat /\ frame \in Nat /\ QueryFrameCount \in Nat
      /\ Len(jobs[c]) \in {0, 1, 2} /\ Res(c).of \in Nat
      /\ \A i \in 1 .. Len(jobs[c]) : jobs[c][i].of \in Nat
  BY Shape
<1>9. Culled(c) \in Int /\ lastQuery[c] <= Culled(c)
  BY <1>8 DEF Culled, Evidence, Recorded
<1>10. Traversed(c)' /\ Returned(c)' /\ Interval(c)' /\ Late(c)'
  BY <1>1, <1>2, <1>8, <1>9 DEF Traversed, Returned, Interval, Late, Seen, InCull
<1>11. Truthful(c)'
  <2>1. \A i \in 1 .. Len(jobs[c]) : jobs[c][i].query => jobs[c][i].of <= lastQuery[c]
    BY <1>8 DEF Evidence, Recorded
  <2>2. Res(c)'.of <= lastQuery[c]
    BY <1>5 DEF Timing, Truthful
  <2> QED
    BY <1>1, <1>2, <1>5, <1>8, <1>9, <2>1, <2>2 DEF Truthful, Seen
<1> QED
  BY <1>6, <1>7, <1>10, <1>11 DEF Evidence, Timing

-----------------------------------------------------------------------------
(* Another camera's cull: it may write _passed, and that is noticed.       *)
LEMMA OtherCamera ==
  ASSUME Typed, OneCameraEach, NEW c \in Cameras, NEW d \in Cameras, d # c,
         \/ CullSkip(d) \/ CountPixels(d) \/ TraverseQuery(d)
         \/ DrawGeometry(d) \/ PostDraw(d)
         \/ \E inside, visible \in BOOLEAN : GetPassed(d, inside, visible)
  PROVE  Alone(c)
<1>1. Ctx[d] # Ctx[c] /\ Ctx[c] \in Contexts /\ releases \in Nat
  BY Camera DEF OneCameraEach
<1>2. CASE CullSkip(d) \/ TraverseQuery(d)
  BY <1>1, <1>2 DEF CullSkip, TraverseQuery, Alone, Res, Typed, TypeOK, drawVars, glVars
<1>3. CASE CountPixels(d) \/ \E inside, visible \in BOOLEAN : GetPassed(d, inside, visible)
  <2>1. /\ UNCHANGED <<frame, mode, culling[c], jobs[c], stage, lastQuery, hook, listed, tr,
                       visibleFor[c], releases>>
        /\ (passed' = passed /\ raced' = raced) \/ raced' = RacedBy(d)
    BY <1>3 DEF CountPixels, GetPassed, Typed, TypeOK, drawVars, glVars
  <2>2. raced' = RacedBy(d) => (culling[c] = "counted" => raced'[c])
    BY DEF RacedBy, Deciding
  <2> QED
    BY <1>1, <2>1, <2>2 DEF Alone, Res
<1>4. CASE DrawGeometry(d)
  <2>1. tr'[Ctx[c]] = tr[Ctx[c]]
    BY <1>1, <1>4 DEF DrawGeometry, Typed, TypeOK
  <2>2. UNCHANGED <<frame, mode, passed, culling, raced, jobs, lastQuery, visibleFor, releases>>
    BY <1>4 DEF DrawGeometry, cullVars
  <2>3. UNCHANGED <<stage[c], hook[c], listed[c]>>
    BY <1>4 DEF DrawGeometry, Typed, TypeOK
  <2> QED
    BY <1>1, <2>1, <2>2, <2>3 DEF Alone, Res
<1>5. CASE PostDraw(d)
  <2>1. tr'[Ctx[c]] = tr[Ctx[c]]
    BY <1>1, <1>5 DEF PostDraw, Typed, TypeOK
  <2> QED
    BY <1>1, <1>5, <2>1 DEF PostDraw, Alone, Res, Typed, TypeOK, cullVars
<1> QED
  BY <1>2, <1>3, <1>4, <1>5

(* The query objects of any context, and another context's release.        *)
LEMMA OtherContext ==
  ASSUME Typed, NEW c \in Cameras,
         \/ UNCHANGED vars
         \/ \E e \in BOOLEAN : SetQueriesEnabled(e)
         \/ \E k \in Contexts : Flush(k) \/ Discard(k) \/ (k # Ctx[c] /\ ReleaseGLObjects(k))
  PROVE  Alone(c)
<1>1. Ctx[c] \in Contexts /\ releases \in Nat
  BY Camera
<1>2. CASE UNCHANGED vars \/ \E e \in BOOLEAN : SetQueriesEnabled(e)
  BY <1>1, <1>2 DEF SetQueriesEnabled, Alone, Res, vars, cullVars, drawVars, glVars
<1>3. CASE \E k \in Contexts : Flush(k) \/ Discard(k)
  BY <1>1, <1>3 DEF Flush, Discard, Alone, Res, cullVars, drawVars
<1>4. ASSUME NEW k \in Contexts, k # Ctx[c], ReleaseGLObjects(k) PROVE Alone(c)
  <2>1. tr'[Ctx[c]] = tr[Ctx[c]] /\ visibleFor'[c] = visibleFor[c]
    BY <1>1, <1>4 DEF ReleaseGLObjects, Typed, TypeOK
  <2> QED
    BY <1>1, <1>4, <2>1 DEF ReleaseGLObjects, Alone, Res, drawVars
<1> QED
  BY <1>2, <1>3, <1>4

Inv == Typed /\ Ownership /\ EvidenceInv /\ TimingInv

LEMMA InitInv == Init => Inv
<1> SUFFICES ASSUME Init, NEW c \in Cameras PROVE Evidence(c) /\ Timing(c)
  BY InitTyped, InitOwnership DEF Inv, EvidenceInv, TimingInv
<1>1. /\ culling[c] = "done" /\ jobs[c] = << >> /\ Len(jobs[c]) = 0 /\ stage[c] = "idle"
      /\ lastQuery[c] = 0 /\ visibleFor[c] = 0 /\ frame \in Nat
      /\ ~Res(c).active /\ Res(c).of = 0
  BY InitTyped, QueryAssumption DEF Init, Res, NoResult, Contexts
<1>2. ~Asked(c) /\ Culled(c) = frame
  BY <1>1 DEF Asked, Culled
<1>3. Recorded(c) /\ Retrieving(c) /\ Answered(c) /\ Hidden(c)
  BY <1>1, <1>2 DEF Recorded, Retrieving, Answered, Hidden, InCull, Deciding
<1>4. Traversed(c) /\ Truthful(c) /\ Returned(c) /\ Interval(c) /\ Late(c)
  BY <1>1, <1>2 DEF Traversed, Truthful, Returned, Interval, Late, InCull, Seen
<1> QED
  BY <1>3, <1>4 DEF Evidence, Timing

LEMMA StepInv == OneCameraEach /\ Inv /\ [Next]_vars => Inv'
<1> SUFFICES ASSUME OneCameraEach, Inv, [Next]_vars, NEW c \in Cameras
             PROVE  Evidence(c)' /\ Timing(c)'
  BY StepTyped, StepOwnership DEF Inv, EvidenceInv, TimingInv
<1>1. Typed /\ Ownership /\ Evidence(c) /\ Timing(c)
  BY DEF Inv, EvidenceInv, TimingInv
<1>2. CASE Alone(c)
  BY <1>1, <1>2, AloneStep
<1>3. CASE BeginFrame
  BY <1>1, <1>3, BeginStep
<1>4. CASE \/ CullSkip(c) \/ CountPixels(c) \/ TraverseQuery(c)
           \/ DrawGeometry(c) \/ PostDraw(c)
           \/ \E inside, visible \in BOOLEAN : GetPassed(c, inside, visible)
  BY <1>1, <1>4, SkipStep, GetPassedStep, CountPixelsStep, TraverseStep, DrawStep, PostDrawStep
<1>5. ASSUME NEW d \in Cameras, d # c,
             \/ CullSkip(d) \/ CountPixels(d) \/ TraverseQuery(d)
             \/ DrawGeometry(d) \/ PostDraw(d)
             \/ \E inside, visible \in BOOLEAN : GetPassed(d, inside, visible)
      PROVE  Alone(c)
  BY <1>1, <1>5, OtherCamera
<1>6. CASE ReleaseGLObjects(Ctx[c])
  BY <1>1, <1>6, ReleaseStep
<1>7. ASSUME \/ UNCHANGED vars
             \/ \E e \in BOOLEAN : SetQueriesEnabled(e)
             \/ \E k \in Contexts : Flush(k) \/ Discard(k) \/ (k # Ctx[c] /\ ReleaseGLObjects(k))
      PROVE  Alone(c)
  BY <1>1, <1>7, OtherContext
<1> QED
  BY <1>2, <1>3, <1>4, <1>5, <1>6, <1>7 DEF Next

-----------------------------------------------------------------------------
(* With a context to each camera, getPassed drops the children only when   *)
(* the answer to the camera's last query says hidden and is recent enough, *)
(* or in the two cases CulledOnEvidence names: the post-draw callbacks     *)
(* retrieve in the order the queries were issued, and traverseQuery issues *)
(* one before the answer is too old, for any _queryFrameCount.             *)
THEOREM CullsOnEvidence == OneCameraEach => (Spec => CulledOnEvidence)
<1> SUFFICES ASSUME OneCameraEach PROVE Spec => CulledOnEvidence
  OBVIOUS
<1>1. Inv /\ [Next]_vars => Inv'
  BY StepInv
<1>2. ASSUME Inv, NEW c \in Cameras, DropsChildren(c), hook[c] # "foreign", ~raced[c]
      PROVE  LET r == tr[Ctx[c]] IN
             /\ frame - lastQuery[c] <= QueryFrameCount + 1
             /\ \/ ~r.visible /\ r.of = lastQuery[c]
                \/ ~r.init /\ releases > 0
                \/ mode # "single" /\ frame = lastQuery[c] + 1
  <2>1. culling[c] = "counted" /\ ~passed /\ Ours(c)
    BY <1>2 DEF DropsChildren, Ours
  <2>2. Typed /\ Recorded(c) /\ Answered(c) /\ Hidden(c)
    BY <1>2 DEF Inv, EvidenceInv, Evidence
  <2>3. lastQuery[c] # 0 /\ frame - lastQuery[c] <= QueryFrameCount + 1
    BY <2>1, <2>2 DEF Recorded, Deciding
  <2>4. Asked(c) => mode # "single" /\ frame = lastQuery[c] + 1
    <3>1. Len(jobs[c]) \in {0, 1, 2} /\ frame \in Nat /\ lastQuery[c] \in Nat
      BY <2>2, Shape
    <3>2. Asked(c) => Len(jobs[c]) = 2 /\ jobs[c][1].query /\ ~jobs[c][2].query
      BY <2>1, <2>2, <3>1 DEF Recorded, Asked, Newest, InCull
    <3> QED
      BY <2>1, <2>2, <3>1, <3>2 DEF Recorded, Before, InCull
  <2>5. ~Asked(c) => Res(c).of = lastQuery[c] \/ (~Res(c).init /\ releases > 0)
    BY <2>1, <2>2, <2>3 DEF Answered
  <2> QED
    BY <1>2, <2>1, <2>2, <2>3, <2>4, <2>5 DEF Hidden, Answered, Res
<1>3. Inv /\ [Next]_vars =>
        [\A c \in Cameras :
           (DropsChildren(c) /\ culling'[c] = "done" /\ hook[c] # "foreign" /\ ~raced[c])
           => LET r == tr[Ctx[c]] IN
              /\ frame - lastQuery[c] <= QueryFrameCount + 1
              /\ \/ ~r.visible /\ r.of = lastQuery[c]
                 \/ ~r.init /\ releases > 0
                 \/ mode # "single" /\ frame = lastQuery[c] + 1]_vars
  BY <1>2, Zenon
<1> QED
  BY InitInv, <1>1, <1>3, PTL DEF Spec, CulledOnEvidence

(* With a context to each camera, a node that has come into view is drawn  *)
(* again within ReappearsInTime's bound, for any _queryFrameCount: the     *)
(* frames traverseQuery lets pass between two queries, and one more for an *)
(* answer that the draw of the frame before has not retrieved.             *)
THEOREM BackInTime == OneCameraEach => (Spec => ReappearsInTime)
<1> SUFFICES ASSUME OneCameraEach PROVE Spec => ReappearsInTime
  OBVIOUS
<1>1. Inv /\ [Next]_vars => Inv'
  BY StepInv
<1>2. ASSUME Inv, NEW c \in Cameras, DropsChildren(c), hook[c] # "foreign", ~raced[c]
      PROVE  visibleFor[c] <= QueryFrameCount + (IF mode = "single" THEN 0 ELSE 1)
  BY <1>2 DEF Inv, TimingInv, Timing, Late, DropsChildren, Ours
<1>3. Inv /\ [Next]_vars =>
        [\A c \in Cameras :
           (DropsChildren(c) /\ culling'[c] = "done" /\ hook[c] # "foreign" /\ ~raced[c])
           => visibleFor[c] <= QueryFrameCount + (IF mode = "single" THEN 0 ELSE 1)]_vars
  BY <1>2, Zenon
<1> QED
  BY InitInv, <1>1, <1>3, PTL DEF Spec, ReappearsInTime
=============================================================================
