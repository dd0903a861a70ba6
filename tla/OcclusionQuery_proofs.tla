----------------------- MODULE OcclusionQuery_proofs -----------------------
(***************************************************************************)
(* Proofs about OcclusionQuery, for any cameras, contexts and query        *)
(* objects: what owns a query object, and what a cull decides on.          *)
(***************************************************************************)
EXTENDS OcclusionQuery, SequenceTheorems, TLAPS

Frames == 0 .. MaxFrame
Job == [query : BOOLEAN, visible : BOOLEAN, of : Frames]
InCull == {"shown", "near", "counted"}

(* TypeOK with the variables it leaves out.  A camera has a frame to draw  *)
(* left at most while it culls the next.                                   *)
Queued(c) ==
    /\ Len(jobs[c]) <= (IF culling[c] = "todo" THEN 1 ELSE 2)
    /\ stage[c] = "post" => Len(jobs[c]) >= 1
    /\ culling[c] \in InCull => Len(jobs[c]) >= 1
    /\ culling[c] \in InCull /\ stage[c] = "post" => Len(jobs[c]) = 2
Typed ==
    /\ TypeOK
    /\ jobs \in [Cameras -> Seq(Job)]
    /\ cache \in [Contexts -> Seq(Ids)]
    /\ live \in [Contexts -> SUBSET Ids]
    /\ releases \in Nat
    /\ emptied \in [Contexts -> BOOLEAN]
    /\ \A c \in Cameras : Queued(c)

LEMMA RangeInSet == ASSUME NEW S, NEW s \in Seq(S) PROVE Range(s) \subseteq S
  BY DEF Range

LEMMA InitTyped == Init => Typed
<1> SUFFICES ASSUME Init PROVE Typed
  OBVIOUS
<1>1. tr \in [Contexts -> Result]
  BY QueryAssumption DEF Init, NoResult, NotDue, Result
<1>2. /\ jobs \in [Cameras -> Seq(Job)] /\ cache \in [Contexts -> Seq(Ids)]
      /\ live \in [Contexts -> SUBSET Ids]
      /\ \A c \in Cameras : jobs[c] = << >>
  BY DEF Init
<1>3. \A k \in Contexts : live[k] \subseteq Ids /\ Range(cache[k]) \subseteq Ids
  BY <1>2, RangeInSet
<1>4. /\ culling \in [Cameras -> {"todo", "shown", "near", "counted", "done"}]
      /\ stage \in [Cameras -> {"idle", "post"}]
      /\ hook \in [Cameras -> {"none", "ours", "foreign"}]
      /\ listed \in [Cameras -> BOOLEAN] /\ raced \in [Cameras -> BOOLEAN]
      /\ emptied \in [Contexts -> BOOLEAN]
  BY DEF Init
<1>5. mode \in {"single", "overlap", "threads"} /\ enabled \in BOOLEAN /\ passed \in BOOLEAN
  BY Zenon DEF Init
<1>6. /\ frame \in 0 .. MaxFrame /\ releases \in Nat
      /\ lastQuery \in [Cameras -> 0 .. MaxFrame]
      /\ visibleFor \in [Cameras -> 0 .. QueryFrameCount + 2]
  BY QueryAssumption DEF Init
<1>7. \A c \in Cameras : Queued(c) /\ Len(jobs[c]) <= 2
  BY <1>2 DEF Init, Queued, InCull
<1> QED
  BY <1>1, <1>2, <1>3, <1>4, <1>5, <1>6, <1>7 DEF Typed, TypeOK

LEMMA StepTyped == Typed /\ [Next]_vars => Typed'
<1> SUFFICES ASSUME Typed, [Next]_vars PROVE Typed'
  OBVIOUS
<1>a. \A c \in Cameras : Ctx[c] \in Contexts
  BY DEF Contexts
<1>b. \A s \in Seq(Ids) : Range(s) \subseteq Ids
  BY RangeInSet
<1>c. \A c \in Cameras : jobs[c] \in Seq(Job) /\ Len(jobs[c]) \in Nat
  BY DEF Typed
<1>e. \A s \in Seq(Job) : s = << >> <=> Len(s) = 0
  BY EmptySeq
<1>d. \A c \in Cameras : Queued(c) /\ Len(jobs[c]) <= 2
  BY DEF Typed, TypeOK
<1>1. CASE BeginFrame
  <2>1. ASSUME NEW c \in Cameras PROVE Queued(c)'
    <3>1. jobs' = jobs /\ stage' = stage /\ culling'[c] = "todo"
      BY <1>1 DEF BeginFrame, drawVars
    <3>2. Drawn(c) \/ Len(jobs[c]) = 1
      BY <1>1 DEF BeginFrame
    <3>3. Len(jobs[c]) = 0 \/ Len(jobs[c]) = 1
      BY <1>c, <1>e, <3>2, Zenon DEF Drawn
    <3>4. jobs'[c] = jobs[c] /\ stage'[c] = stage[c]
      BY <3>1
    <3>5. Len(jobs'[c]) = 0 \/ Len(jobs'[c]) = 1
      BY <3>3, <3>4, Zenon
    <3>6. stage'[c] = "post" => Len(jobs'[c]) >= 1
      BY <1>d, <3>4 DEF Queued
    <3>7. culling'[c] \notin InCull
      BY <3>1 DEF InCull
    <3> QED
      BY <3>1, <3>5, <3>6, <3>7 DEF Queued
  <2>2. frame' \in 0 .. MaxFrame
    BY <1>1, QueryAssumption DEF BeginFrame, Typed, TypeOK
  <2> QED
    BY <1>1, <2>1, <2>2 DEF BeginFrame, Typed, TypeOK, drawVars, glVars
<1>2. ASSUME NEW c \in Cameras, CullSkip(c) PROVE Typed'
  <2>1. NoQuery \in Job
    BY QueryAssumption DEF NoQuery, Job, Frames
  <2>2. jobs' \in [Cameras -> Seq(Job)] /\ \A d \in Cameras : Queued(d)' /\ Len(jobs'[d]) <= 2
    BY <1>2, <2>1 DEF CullSkip, Typed, TypeOK, Queued, InCull, drawVars
  <2> QED
    BY <1>2, <2>2, QueryAssumption DEF CullSkip, Typed, TypeOK, drawVars, glVars
<1>3. ASSUME NEW c \in Cameras, NEW inside \in BOOLEAN, NEW visible \in BOOLEAN,
             GetPassed(c, inside, visible)
      PROVE Typed'
  <2> DEFINE job == [query |-> FALSE, visible |-> visible, of |-> frame]
  <2>1. job \in Job
    BY DEF Job, Frames, Typed, TypeOK
  <2>2. jobs' = [jobs EXCEPT ![c] = Append(@, job)]
    BY <1>3 DEF GetPassed
  <2>3. /\ culling' \in [Cameras -> {"todo", "shown", "near", "counted", "done"}]
        /\ culling[c] = "todo" /\ culling'[c] \in {"shown", "near"}
        /\ \A d \in Cameras \ {c} : culling'[d] = culling[d]
        /\ passed' \in BOOLEAN /\ raced' \in [Cameras -> BOOLEAN]
    BY <1>3 DEF GetPassed, RacedBy, Typed, TypeOK
  <2> HIDE DEF job
  <2>4. jobs' \in [Cameras -> Seq(Job)] /\ \A d \in Cameras : Queued(d)' /\ Len(jobs'[d]) <= 2
    BY <1>3, <2>1, <2>2, <2>3 DEF GetPassed, Typed, TypeOK, Queued, InCull, drawVars
  <2>5. visibleFor' \in [Cameras -> 0 .. QueryFrameCount + 2]
    BY <1>3, QueryAssumption DEF GetPassed, Typed, TypeOK
  <2> QED
    BY <1>3, <2>3, <2>4, <2>5 DEF GetPassed, Typed, TypeOK, drawVars, glVars
<1>4. ASSUME NEW c \in Cameras, CountPixels(c) PROVE Typed'
  <2>1. passed' \in BOOLEAN /\ raced' \in [Cameras -> BOOLEAN]
    BY <1>4 DEF CountPixels, RacedBy, NumPixelsAbove, Typed, TypeOK
  <2> QED
    BY <1>4, <2>1 DEF CountPixels, Typed, TypeOK, Queued, InCull, drawVars, glVars
<1>5. ASSUME NEW c \in Cameras, TraverseQuery(c) PROVE Typed'
  <2> DEFINE n == Len(jobs[c])
             job == IF IssueQuery(c) THEN [jobs[c][n] EXCEPT !.query = TRUE] ELSE NoQuery
  <2>1. jobs[c] \in Seq(Job) /\ n \in 1 .. Len(jobs[c])
    BY <1>5 DEF TraverseQuery, Typed, Queued, InCull
  <2>2. job \in Job
    <3>1. jobs[c][n] \in Job
      BY <2>1, ElementOfSeq
    <3>2. \A j \in Job : [j EXCEPT !.query = TRUE] \in Job
      BY DEF Job
    <3>3. NoQuery \in Job
      BY QueryAssumption DEF Job, Frames, NoQuery
    <3> QED
      BY <3>1, <3>2, <3>3
  <2>3. jobs' = [jobs EXCEPT ![c] = [jobs[c] EXCEPT ![n] = job]]
    BY <1>5 DEF TraverseQuery
  <2>4. [jobs[c] EXCEPT ![n] = job] \in Seq(Job) /\ Len([jobs[c] EXCEPT ![n] = job]) = Len(jobs[c])
    BY <2>1, <2>2, ExceptSeq
  <2> HIDE DEF n, job
  <2>5. /\ jobs' \in [Cameras -> Seq(Job)] /\ stage' = stage
        /\ \A d \in Cameras : Len(jobs'[d]) = Len(jobs[d])
    BY <1>5, <2>3, <2>4 DEF TraverseQuery, Typed, drawVars
  <2>6. \A d \in Cameras : culling'[d] = IF d = c THEN "done" ELSE culling[d]
    BY <1>5 DEF TraverseQuery, Typed, TypeOK
  <2>7. \A d \in Cameras : Queued(d)' /\ Len(jobs'[d]) <= 2
    BY <1>d, <1>5, <2>5, <2>6 DEF TraverseQuery, Queued, InCull
  <2>8. lastQuery' \in [Cameras -> 0 .. MaxFrame]
    BY <1>5 DEF TraverseQuery, QueryStamp, Typed, TypeOK
  <2> QED
    BY <1>5, <2>5, <2>7, <2>8 DEF TraverseQuery, Typed, TypeOK, drawVars, glVars
<1>6. ASSUME NEW c \in Cameras, DrawGeometry(c) PROVE Typed'
  <2> DEFINE k == Ctx[c]
             job == Head(jobs[c])
  <2>1. job \in Job /\ k \in Contexts
    <3>1. jobs[c] \in Seq(Job) /\ jobs[c] # << >>
      BY <1>6, <1>c, <1>e DEF DrawGeometry, Drawn
    <3> QED
      BY <1>a, <3>1, HeadTailProperties
  <2>2. /\ tr' \in [Contexts -> Result] /\ live' \in [Contexts -> SUBSET Ids]
        /\ hook' \in [Cameras -> {"none", "ours", "foreign"}]
        /\ listed' \in [Cameras -> BOOLEAN]
    <3>1. CASE ~job.query \/ hook[c] = "foreign"
      BY <1>6, <3>1 DEF DrawGeometry, ClearQueries, Typed, TypeOK
    <3>2. CASE job.query /\ hook[c] # "foreign"
      <4>1. /\ hook' = [hook EXCEPT ![c] = "ours"] /\ listed' = [listed EXCEPT ![c] = TRUE]
        BY <1>6, <3>2 DEF DrawGeometry
      <4>2. PICK id \in GenQuery(k) :
               /\ live' = [live EXCEPT ![k] = IF tr[k].init THEN @ ELSE @ \union {id}]
               /\ tr' = [tr EXCEPT ![k] =
                    [tr[k] EXCEPT !.init = TRUE, !.id = id, !.contextID = k, !.active = TRUE,
                              !.due = [visible |-> job.visible, of |-> job.of]]]
        BY <1>6, <2>1, <3>2 DEF DrawGeometry, Typed, TypeOK
      <4>3. tr[k] \in Result /\ live[k] \in SUBSET Ids
        BY <2>1 DEF Typed, TypeOK
      <4>4. [tr[k] EXCEPT !.init = TRUE, !.id = id, !.contextID = k, !.active = TRUE,
                      !.due = [visible |-> job.visible, of |-> job.of]] \in Result
        BY <2>1, <4>3, <4>2 DEF Result, GenQuery, Job, Frames
      <4>5. (IF tr[k].init THEN live[k] ELSE live[k] \union {id}) \in SUBSET Ids
        BY <4>2, <4>3 DEF GenQuery
      <4> HIDE DEF k, job
      <4> QED
        BY <4>1, <4>2, <4>4, <4>5 DEF Typed, TypeOK
    <3> QED
      BY <3>1, <3>2
  <2>4. stage' \in [Cameras -> {"idle", "post"}]
    BY <1>6 DEF DrawGeometry, Typed, TypeOK
  <2>3. ASSUME NEW d \in Cameras PROVE Queued(d)' /\ Len(jobs'[d]) <= 2
    <3>1. jobs' = jobs /\ culling' = culling /\ (d # c => stage'[d] = stage[d])
      BY <1>6 DEF DrawGeometry, cullVars, Typed, TypeOK
    <3>2. jobs[c] # << >> /\ (Len(jobs[c]) > 1 \/ culling[c] = "done")
      BY <1>6 DEF DrawGeometry, Drawn
    <3>3. Len(jobs[c]) \in Nat /\ Len(jobs[c]) # 0
      BY <1>c, <1>e, <3>2
    <3>4. CASE d = c
      <4>1. jobs'[c] = jobs[c] /\ culling'[c] = culling[c]
        BY <3>1
      <4>2. Len(jobs'[c]) >= 1 /\ Len(jobs'[c]) <= 2
        BY <1>c, <1>d, <3>3, <4>1
      <4>3. Len(jobs'[c]) <= (IF culling'[c] = "todo" THEN 1 ELSE 2)
        BY <1>d, <4>1 DEF Queued
      <4> DEFINE n == Len(jobs[c])
      <4>n. n \in Nat /\ n <= 2 /\ (n > 1 \/ culling[c] = "done")
        BY <1>c, <1>d, <3>2
      <4> HIDE DEF n
      <4>m. culling[c] \in InCull => n = 2
        BY <4>n DEF InCull
      <4>4. culling[c] \in InCull => Len(jobs[c]) = 2
        BY <4>m DEF n
      <4>5. culling'[c] \in InCull => Len(jobs'[c]) = 2
        BY <4>1, <4>4, Zenon
      <4> QED
        BY <3>4, <4>2, <4>3, <4>5 DEF Queued
    <3>5. CASE d # c
      BY <1>d, <3>1, <3>5 DEF Queued, InCull
    <3> QED
      BY <3>4, <3>5
  <2> HIDE DEF k, job
  <2> QED
    BY <1>6, <1>b, <2>2, <2>3, <2>4 DEF DrawGeometry, Typed, TypeOK, cullVars
<1>7. ASSUME NEW c \in Cameras, PostDraw(c) PROVE Typed'
  <2> DEFINE k == Ctx[c]
  <2>1. tr' \in [Contexts -> Result]
    <3>1. tr[k] \in Result /\ k \in Contexts
      BY <1>a DEF Typed, TypeOK
    <3>2. [tr[k] EXCEPT !.active = FALSE, !.visible = tr[k].due.visible, !.of = tr[k].due.of,
                        !.due = NotDue] \in Result
      <4>1. /\ tr[k].due \in [visible : BOOLEAN, of : 0 .. MaxFrame]
            /\ NotDue \in [visible : BOOLEAN, of : 0 .. MaxFrame]
        BY <3>1, QueryAssumption DEF Result, NotDue
      <4>2. tr[k].due.visible \in BOOLEAN /\ tr[k].due.of \in 0 .. MaxFrame
        BY <4>1
      <4> QED
        BY <3>1, <4>1, <4>2 DEF Result
    <3>3. tr' = tr \/ tr' = [tr EXCEPT ![k] =
            [tr[k] EXCEPT !.active = FALSE, !.visible = tr[k].due.visible, !.of = tr[k].due.of,
                          !.due = NotDue]]
      BY <1>7, <3>1 DEF PostDraw, Typed, TypeOK
    <3> HIDE DEF k
    <3> QED
      BY <3>1, <3>2, <3>3 DEF Typed, TypeOK
  <2>2. jobs[c] \in Seq(Job) /\ jobs[c] # << >>
    <3>1. Len(jobs[c]) >= 1
      BY <1>7, <1>d DEF PostDraw, Queued
    <3> QED
      BY <1>c, <1>e, <3>1
  <2>3. Tail(jobs[c]) \in Seq(Job) /\ Len(Tail(jobs[c])) = Len(jobs[c]) - 1
    BY <2>2, HeadTailProperties
  <2>4. stage' = [stage EXCEPT ![c] = "idle"] /\ jobs' = [jobs EXCEPT ![c] = Tail(jobs[c])]
    BY <1>7 DEF PostDraw, Typed
  <2>6. jobs' \in [Cameras -> Seq(Job)]
    BY <2>3, <2>4 DEF Typed
  <2>7. ASSUME NEW d \in Cameras PROVE Queued(d)' /\ Len(jobs'[d]) <= 2
    <3>1. culling' = culling /\ stage[c] = "post" /\ stage'[c] = "idle"
      BY <1>7, <2>4 DEF PostDraw, cullVars, Typed, TypeOK
    <3>2. jobs'[c] = Tail(jobs[c]) /\ (d # c => jobs'[d] = jobs[d] /\ stage'[d] = stage[d])
      BY <2>4 DEF Typed, TypeOK
    <3>3. Len(jobs[c]) \in Nat /\ Len(jobs[d]) \in Nat
      BY <1>c
    <3>4. CASE d = c
      <4>1. Len(jobs'[c]) = Len(jobs[c]) - 1 /\ culling'[c] = culling[c]
        BY <2>3, <3>1, <3>2
      <4>2. Len(jobs[c]) <= (IF culling[c] = "todo" THEN 1 ELSE 2)
        BY <1>d DEF Queued
      <4>3. culling'[c] \in InCull => Len(jobs[c]) = 2
        BY <1>d, <3>1, <4>1 DEF Queued
      <4>4. Len(jobs'[c]) <= (IF culling'[c] = "todo" THEN 1 ELSE 2) /\ Len(jobs'[c]) <= 2
        BY <3>3, <3>4, <4>1, <4>2
      <4>7. Len(jobs[c]) = 2 => Len(jobs'[c]) >= 1
        BY <4>1
      <4>5. culling'[c] \in InCull => Len(jobs'[c]) >= 1
        BY <4>3, <4>7, Zenon
      <4>6. stage'[c] # "post"
        BY <3>1
      <4> QED
        BY <3>4, <4>4, <4>5, <4>6, Zenon DEF Queued
    <3>5. CASE d # c
      BY <1>d, <3>1, <3>2, <3>5 DEF Queued, InCull
    <3> QED
      BY <3>4, <3>5
  <2>5. jobs' \in [Cameras -> Seq(Job)] /\ \A d \in Cameras : Queued(d)' /\ Len(jobs'[d]) <= 2
    BY <2>6, <2>7
  <2> QED
    BY <1>7, <2>1, <2>4, <2>5 DEF PostDraw, Typed, TypeOK, cullVars
<1>8. ASSUME NEW k \in Contexts, ReleaseGLObjects(k) PROVE Typed'
  <2>1. tr' \in [Contexts -> Result]
    <3>1. tr[k] \in Result
      BY DEF Typed, TypeOK
    <3>2. [tr[k] EXCEPT !.init = @ /\ tr[k].contextID # k] \in Result
      BY <3>1 DEF Result
    <3>3. tr' = [tr EXCEPT ![k] = [tr[k] EXCEPT !.init = @ /\ tr[k].contextID # k]]
      BY <1>8 DEF ReleaseGLObjects, Typed, TypeOK
    <3> QED
      BY <3>2, <3>3 DEF Typed, TypeOK
  <2>2. cache' \in [Contexts -> Seq(Ids)]
    <3>1. tr[k].id \in Ids \union {0} /\ cache[k] \in Seq(Ids)
      BY DEF Typed, TypeOK, Result
    <3> QED
      BY <1>8, <3>1 DEF ReleaseGLObjects, HasHandle, Typed
  <2>3. /\ visibleFor' \in [Cameras -> 0 .. QueryFrameCount + 2]
        /\ emptied' \in [Contexts -> BOOLEAN] /\ releases' \in Nat
    BY <1>8, QueryAssumption DEF ReleaseGLObjects, HasHandle, Typed, TypeOK
  <2>4. \A j \in Contexts : Range(cache'[j]) \subseteq Ids
    BY <1>b, <2>2
  <2> QED
    BY <1>8, <2>1, <2>2, <2>3, <2>4 DEF ReleaseGLObjects, Typed, TypeOK, Queued, InCull, drawVars
<1>9. ASSUME NEW k \in Contexts, Flush(k) \/ Discard(k) PROVE Typed'
  <2>1. cache' \in [Contexts -> Seq(Ids)] /\ live' \in [Contexts -> SUBSET Ids]
    <3>1. CASE Flush(k)
      <4>1. PICK n \in 1 .. Len(cache[k]) :
               /\ live' = [live EXCEPT ![k] = @ \ Range(SubSeq(cache[k], 1, n))]
               /\ cache' = [cache EXCEPT ![k] = SubSeq(@, n + 1, Len(@))]
        BY <3>1 DEF Flush
      <4>2. cache[k] \in Seq(Ids)
        BY DEF Typed
      <4>3. SubSeq(cache[k], n + 1, Len(cache[k])) \in Seq(Ids)
        BY <4>2
      <4> QED
        BY <4>1, <4>3 DEF Typed
    <3>2. CASE Discard(k)
      BY <3>2 DEF Discard, Typed
    <3> QED
      BY <1>9, <3>1, <3>2
  <2>2. \A j \in Contexts : Range(cache'[j]) \subseteq Ids
    BY <1>b, <2>1
  <2> QED
    BY <1>9, <2>1, <2>2 DEF Flush, Discard, Typed, TypeOK, Queued, InCull, cullVars, drawVars
<1>10. ASSUME NEW e \in BOOLEAN, SetQueriesEnabled(e) PROVE Typed'
  BY <1>10 DEF SetQueriesEnabled, Typed, TypeOK, Queued, InCull, cullVars, drawVars, glVars
<1>11. CASE UNCHANGED vars
  BY <1>11 DEF vars, Typed, TypeOK, Queued, InCull, cullVars, drawVars, glVars
<1> QED
  BY <1>1, <1>2, <1>3, <1>4, <1>5, <1>6, <1>7, <1>8, <1>9, <1>10, <1>11 DEF Next

-----------------------------------------------------------------------------
(* Whose a query object is.  An initialised result has a handle of its own *)
(* context, and a context's objects are those of HandleOwnedOnce.          *)
Bound(k) == tr[k].init => tr[k].contextID = k /\ tr[k].id \in Ids
Owned(k) == ~emptied[k] =>
    /\ live[k] = Range(cache[k]) \union (IF tr[k].init THEN {tr[k].id} ELSE {})
    /\ tr[k].init => tr[k].id \notin Range(cache[k])
    /\ IsInjective(cache[k])
Ownership == \A k \in Contexts : Bound(k) /\ Owned(k)

LEMMA AppendRange ==
  ASSUME NEW S, NEW s \in Seq(S), NEW e \in S
  PROVE  /\ Range(Append(s, e)) = Range(s) \union {e}
         /\ IsInjective(s) /\ e \notin Range(s) => IsInjective(Append(s, e))
<1> DEFINE t == Append(s, e)
           n == Len(s)
<1>1. /\ n \in Nat /\ DOMAIN s = 1 .. n /\ DOMAIN t = 1 .. n + 1
      /\ t[n + 1] = e /\ \A i \in 1 .. n : t[i] = s[i]
  OBVIOUS
<1> HIDE DEF t, n
<1>2. \A i \in 1 .. n + 1 : i \in 1 .. n \/ i = n + 1
  BY <1>1
<1>3. 1 .. n \subseteq 1 .. n + 1 /\ n + 1 \in 1 .. n + 1
  BY <1>1
<1>4. Range(t) = Range(s) \union {e}
  <2>1. Range(s) = {s[i] : i \in 1 .. n} /\ Range(t) = {t[i] : i \in 1 .. n + 1}
    BY <1>1, Zenon DEF Range
  <2> QED
    BY <1>1, <1>2, <1>3, <2>1
<1>5. ASSUME IsInjective(s), e \notin Range(s) PROVE IsInjective(t)
  <2>1. \A i, j \in 1 .. n : s[i] = s[j] => i = j
    BY <1>1, <1>5 DEF IsInjective
  <2>2. \A i \in 1 .. n : s[i] # e
    BY <1>1, <1>5, Zenon DEF Range
  <2>3. \A i, j \in 1 .. n + 1 : t[i] = t[j] => i = j
    BY <1>1, <1>2, <2>1, <2>2
  <2> QED
    BY <1>1, <2>3, Zenon DEF IsInjective
<1> QED
  BY <1>4, <1>5 DEF t

LEMMA SplitRange ==
  ASSUME NEW S, NEW s \in Seq(S), NEW n \in 1 .. Len(s), IsInjective(s)
  PROVE  /\ Range(SubSeq(s, n + 1, Len(s))) = Range(s) \ Range(SubSeq(s, 1, n))
         /\ IsInjective(SubSeq(s, n + 1, Len(s)))
<1> DEFINE front == SubSeq(s, 1, n)
           back == SubSeq(s, n + 1, Len(s))
<1>1. /\ DOMAIN front = 1 .. n /\ \A i \in 1 .. n : front[i] = s[i]
      /\ DOMAIN back = 1 .. Len(s) - n /\ \A i \in 1 .. Len(s) - n : back[i] = s[n + i]
  OBVIOUS
<1> HIDE DEF front, back
<1>2. IsInjective(back)
  BY <1>1 DEF IsInjective
<1>3. ASSUME NEW e \in Range(s), e \notin Range(front) PROVE e \in Range(back)
  <2>1. PICK i \in 1 .. Len(s) : e = s[i]
    BY <1>3 DEF Range
  <2>2. i \notin 1 .. n
    BY <1>1, <1>3, <2>1 DEF Range
  <2>3. i - n \in 1 .. Len(s) - n /\ back[i - n] = s[i]
    BY <1>1, <2>2
  <2> QED
    BY <1>1, <2>1, <2>3 DEF Range
<1>4. ASSUME NEW e \in Range(back) PROVE e \in Range(s) /\ e \notin Range(front)
  <2>1. PICK i \in 1 .. Len(s) - n : e = s[n + i]
    BY <1>1, <1>4 DEF Range
  <2>2. \A j \in 1 .. n : s[j] # e
    BY <2>1 DEF IsInjective
  <2> QED
    BY <1>1, <2>1, <2>2 DEF Range
<1> QED
  BY <1>2, <1>3, <1>4 DEF front, back

LEMMA InitOwnership == Init => Ownership
  BY DEF Init, Ownership, Bound, Owned, NoResult, Range, IsInjective

LEMMA StepOwnership == Typed /\ Ownership /\ [Next]_vars => Ownership'
<1> SUFFICES ASSUME Typed, Ownership, [Next]_vars, NEW k \in Contexts
             PROVE Bound(k)' /\ Owned(k)'
  BY DEF Ownership
<1>a. tr[k] \in Result /\ cache[k] \in Seq(Ids) /\ live[k] \in SUBSET Ids /\ emptied[k] \in BOOLEAN
  BY DEF Typed, TypeOK
<1>b. Bound(k) /\ Owned(k)
  BY DEF Ownership
<1>1. CASE tr'[k] = tr[k] /\ cache'[k] = cache[k] /\ live'[k] = live[k] /\ emptied'[k] = emptied[k]
  BY <1>1, <1>b DEF Bound, Owned
<1>2. ASSUME NEW c \in Cameras, DrawGeometry(c) PROVE Bound(k)' /\ Owned(k)'
  <2>1. CASE tr' = tr /\ live' = live
    BY <1>1, <1>2, <2>1 DEF DrawGeometry
  <2>2. ASSUME NEW id \in GenQuery(Ctx[c]), NEW due,
               live' = [live EXCEPT ![Ctx[c]] = IF tr[Ctx[c]].init THEN @ ELSE @ \union {id}],
               tr' = [tr EXCEPT ![Ctx[c]] =
                 [tr[Ctx[c]] EXCEPT !.init = TRUE, !.id = id, !.contextID = Ctx[c],
                                    !.active = TRUE, !.due = due]]
        PROVE Bound(k)' /\ Owned(k)'
    <3>1. cache' = cache /\ emptied' = emptied
      BY <1>2 DEF DrawGeometry
    <3>2. CASE Ctx[c] # k
      BY <1>1, <2>2, <3>1, <3>2 DEF Typed, TypeOK
    <3>3. CASE Ctx[c] = k
      <4>1. /\ tr'[k].init = TRUE /\ tr'[k].id = id /\ tr'[k].contextID = k
            /\ live'[k] = IF tr[k].init THEN live[k] ELSE live[k] \union {id}
        BY <1>a, <2>2, <3>3 DEF Typed, TypeOK, Result
      <4>2. IF tr[k].init THEN id = tr[k].id ELSE id \in Ids /\ id \notin live[k]
        BY <2>2, <3>3 DEF GenQuery
      <4>3. Bound(k)'
        BY <1>b, <4>1, <4>2 DEF Bound
      <4>4. Owned(k)'
        BY <1>b, <3>1, <4>1, <4>2 DEF Owned
      <4> QED
        BY <4>3, <4>4
    <3> QED
      BY <3>2, <3>3
  <2> DEFINE due == [visible |-> Head(jobs[c]).visible, of |-> Head(jobs[c]).of]
  <2>4. \/ tr' = tr /\ live' = live
        \/ \E id \in GenQuery(Ctx[c]) :
          /\ live' = [live EXCEPT ![Ctx[c]] = IF tr[Ctx[c]].init THEN @ ELSE @ \union {id}]
          /\ tr' = [tr EXCEPT ![Ctx[c]] =
                 [tr[Ctx[c]] EXCEPT !.init = TRUE, !.id = id, !.contextID = Ctx[c],
                                    !.active = TRUE, !.due = due]]
    BY <1>2 DEF DrawGeometry
  <2> HIDE DEF due
  <2> QED
    BY <2>1, <2>2, <2>4
<1>3. ASSUME NEW c \in Cameras, PostDraw(c) PROVE Bound(k)' /\ Owned(k)'
  <2>1. cache' = cache /\ live' = live /\ emptied' = emptied
    BY <1>3 DEF PostDraw
  <2>2. tr'[k].init = tr[k].init /\ tr'[k].id = tr[k].id /\ tr'[k].contextID = tr[k].contextID
    <3> DEFINE due == tr[Ctx[c]].due
    <3>1. tr' = tr \/ tr' = [tr EXCEPT ![Ctx[c]] =
            [tr[Ctx[c]] EXCEPT !.active = FALSE, !.visible = due.visible, !.of = due.of,
                               !.due = NotDue]]
      BY <1>3 DEF PostDraw, Typed, TypeOK
    <3> HIDE DEF due
    <3>2. CASE Ctx[c] = k
      <4>1. tr'[k] = tr[k] \/ tr'[k] =
              [tr[k] EXCEPT !.active = FALSE, !.visible = due.visible, !.of = due.of,
                            !.due = NotDue]
        BY <3>1, <3>2 DEF Typed, TypeOK
      <4> QED
        BY <1>a, <4>1 DEF Result
    <3>3. CASE Ctx[c] # k
      BY <3>1, <3>3 DEF Typed, TypeOK
    <3> QED
      BY <3>2, <3>3
  <2> QED
    BY <1>b, <2>1, <2>2 DEF Bound, Owned
<1>4. ASSUME NEW j \in Contexts, ReleaseGLObjects(j) PROVE Bound(k)' /\ Owned(k)'
  <2>1. CASE j # k
    BY <1>1, <1>4, <2>1 DEF ReleaseGLObjects, Typed, TypeOK
  <2>2. CASE j = k
    <3>1. /\ tr'[k].init = (tr[k].init /\ tr[k].contextID # k)
          /\ tr'[k].id = tr[k].id /\ live'[k] = live[k]
          /\ cache'[k] = IF HasHandle(k) THEN Append(cache[k], tr[k].id) ELSE cache[k]
          /\ emptied'[k] = (emptied[k] \/ (HasHandle(k) /\ ~tr[k].init))
      BY <1>4, <1>a, <2>2 DEF ReleaseGLObjects, Typed, TypeOK, Result
    <3>2. ~tr'[k].init
      BY <1>b, <3>1 DEF Bound
    <3>3. CASE tr[k].init
      <4>1. HasHandle(k) /\ tr[k].id \in Ids
        BY <1>b, <3>3, QueryAssumption DEF Bound, HasHandle
      <4> QED
        BY <1>a, <1>b, <3>1, <3>2, <3>3, <4>1, AppendRange DEF Bound, Owned
    <3>4. CASE ~tr[k].init
      BY <1>b, <3>1, <3>2, <3>4 DEF Bound, Owned
    <3> QED
      BY <3>3, <3>4
  <2> QED
    BY <2>1, <2>2
<1>5. ASSUME NEW j \in Contexts, Flush(j) PROVE Bound(k)' /\ Owned(k)'
  <2>0. tr' = tr /\ emptied' = emptied
    BY <1>5 DEF Flush
  <2>1. PICK n \in 1 .. Len(cache[j]) :
           /\ live' = [live EXCEPT ![j] = @ \ Range(SubSeq(cache[j], 1, n))]
           /\ cache' = [cache EXCEPT ![j] = SubSeq(cache[j], n + 1, Len(cache[j]))]
    BY <1>5 DEF Flush
  <2>2. CASE j # k
    BY <1>1, <2>0, <2>1, <2>2 DEF Typed
  <2>3. CASE j = k
    <3>1. /\ live'[k] = live[k] \ Range(SubSeq(cache[k], 1, n))
          /\ cache'[k] = SubSeq(cache[k], n + 1, Len(cache[k]))
      BY <2>1, <2>3 DEF Typed
    <3>2. CASE ~emptied[k]
      <4>1. /\ Range(cache'[k]) = Range(cache[k]) \ Range(SubSeq(cache[k], 1, n))
            /\ IsInjective(cache'[k])
        BY <1>a, <1>b, <2>1, <2>3, <3>1, <3>2, SplitRange DEF Owned
      <4>2. Range(SubSeq(cache[k], 1, n)) \subseteq Range(cache[k])
        BY <1>a, <2>1, <2>3 DEF Range
      <4> QED
        BY <1>b, <2>0, <3>1, <3>2, <4>1, <4>2 DEF Bound, Owned
    <3>3. CASE emptied[k]
      BY <1>b, <2>0, <3>3 DEF Bound, Owned
    <3> QED
      BY <3>2, <3>3
  <2> QED
    BY <2>2, <2>3
<1>6. ASSUME NEW j \in Contexts, Discard(j) PROVE Bound(k)' /\ Owned(k)'
  <2>1. CASE j # k
    BY <1>1, <1>6, <2>1 DEF Discard, Typed
  <2>2. CASE j = k
    <3>1. ~tr[k].init /\ tr' = tr /\ cache'[k] = << >> /\ live'[k] = {}
      BY <1>6, <2>2 DEF Discard, Typed
    <3> QED
      BY <1>b, <3>1 DEF Bound, Owned, Range, IsInjective
  <2> QED
    BY <2>1, <2>2
<1>7. CASE UNCHANGED <<tr, cache, live, emptied>>
  BY <1>1, <1>7
<1>8. ASSUME NEW c \in Cameras, NEW inside, NEW visible,
             BeginFrame \/ CullSkip(c) \/ GetPassed(c, inside, visible) \/ CountPixels(c)
               \/ TraverseQuery(c)
      PROVE UNCHANGED <<tr, cache, live, emptied>>
  BY <1>8 DEF BeginFrame, CullSkip, GetPassed, CountPixels, TraverseQuery, glVars
<1>9. ASSUME BeginFrame \/ UNCHANGED vars \/ \E e \in BOOLEAN : SetQueriesEnabled(e)
      PROVE UNCHANGED <<tr, cache, live, emptied>>
  BY <1>9 DEF BeginFrame, SetQueriesEnabled, vars, glVars
<1> QED
  BY <1>2, <1>3, <1>4, <1>5, <1>6, <1>7, <1>8, <1>9 DEF Next

-----------------------------------------------------------------------------
(* What the node, its results and the viewer hold has its type in every    *)
(* reachable state, and never more than two frames of a camera are undrawn:*)
(* the guards of the viewer, and the handles glGenQueries gives.           *)
THEOREM TypeCorrect == Spec => []TypeOK
<1>1. Typed /\ [Next]_vars => Typed'
  BY StepTyped
<1>2. Typed => TypeOK
  BY DEF Typed
<1> QED
  BY InitTyped, <1>1, <1>2, PTL DEF Spec

(* releaseGLObjects, the cache and drawImplementation keep one owner for   *)
(* every query object, whatever the order of draws, releases, flushes and  *)
(* discards, for any number of cameras on a context.                       *)
THEOREM OwnedOnce == Spec => []HandleOwnedOnce
<1>1. Init => Typed /\ Ownership
  BY InitTyped, InitOwnership
<1>2. Typed /\ Ownership /\ [Next]_vars => (Typed /\ Ownership)'
  BY StepTyped, StepOwnership
<1>3. Typed /\ Ownership => HandleOwnedOnce
  BY DEF Ownership, Owned, HandleOwnedOnce
<1> QED
  BY <1>1, <1>2, <1>3, PTL DEF Spec
=============================================================================
