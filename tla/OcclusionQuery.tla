--------------------------- MODULE OcclusionQuery ---------------------------
(***************************************************************************)
(* src/patches/osg/OcclusionQueryNode.cpp: one occlusion query node, seen  *)
(* by several cameras.  The cull traversal of a camera asks getPassed      *)
(* whether to draw the node's children and traverseQuery whether to record *)
(* the query geometry; the draw of the recorded frame issues the query and *)
(* the camera's post-draw callback retrieves its result; released query    *)
(* objects wait in a cache until the context flushes them.                 *)
(*                                                                         *)
(* The viewer around the node (OSG's, not in the repository) is modelled   *)
(* from what the file says of it: frames are numbered, each camera culls   *)
(* once per frame, and its draw follows.  In mode "single" a frame is      *)
(* drawn before the next one starts; in "overlap" the next frame may start *)
(* once the query geometry, which is DYNAMIC, has been drawn; in "threads" *)
(* the cameras cull at the same time as well.                              *)
(***************************************************************************)
EXTENDS Integers, Sequences, SequencesExt, FiniteSets

CONSTANTS Cameras, Ctx,            \* Ctx[c]: the graphics context of camera c
          QueryFrameCount,         \* _queryFrameCount
          Hooked,                  \* cameras the application may give a callback
          Ids,                     \* names OpenGL gives to query objects
          FirstFrame,              \* the frame in which the node enters the scene
          MaxFrame, MaxReleases    \* bounds

ASSUME QueryAssumption ==
    /\ QueryFrameCount \in Nat \ {0}
    /\ MaxFrame \in Nat /\ FirstFrame \in 1 .. MaxFrame
    /\ Ids \subseteq Nat \ {0}

Contexts == {Ctx[c] : c \in Cameras}

VARIABLES
    mode,        \* the viewer's threading model
    enabled,     \* _enabled
    frame,       \* the traversal number
    passed,      \* _passed, one member for every camera
    culling,     \* culling[c]: where camera c is in its cull of this frame
    jobs,        \* jobs[c]: frames camera c has culled and not drawn
    stage,       \* stage[c]: where camera c is in the draw of Head(jobs[c])
    lastQuery,   \* _frameCountMap
    hook,        \* hook[c]: the camera's post-draw callback
    listed,      \* listed[c]: the node's TestResult is in the callback's list
    tr,          \* tr[k]: QueryGeometry::_results[k]
    cache,       \* s_deletedQueryObjectCache
    live,        \* query objects that exist in context k
    visibleFor,  \* history: frames in a row in which c would see the node
    raced,       \* history: another camera wrote _passed during c's cull
    emptied,     \* history: a release of context k found nothing to release
    releases     \* number of releases so far, bounded by MaxReleases

cullVars == <<passed, culling, lastQuery, visibleFor, raced>>
drawVars == <<stage, hook, listed>>
glVars   == <<tr, cache, live>>
vars == <<mode, enabled, frame, cullVars, jobs, drawVars, glVars, emptied, releases>>

(* A TestResult.  "visible" stands for a pixel count above the threshold   *)
(* and "of" is history: the frame whose query the count answers.  "due" is *)
(* what OpenGL holds of a query that is issued and not retrieved.          *)
NotDue == [visible |-> FALSE, of |-> 0]
NoResult == [init |-> FALSE, id |-> 0, contextID |-> 0, active |-> FALSE,
             visible |-> FALSE, of |-> 0, due |-> NotDue]

(* QueryGeometry::getNumPixels against the threshold: the maximum over     *)
(* every context with an initialised result.                               *)
NumPixelsAbove == \E k \in Contexts : tr[k].init /\ tr[k].visible

Init ==
    /\ mode \in {"single", "overlap", "threads"}
    /\ enabled = TRUE
    /\ frame = FirstFrame - 1
    /\ passed \in BOOLEAN            \* the constructor leaves it unset
    /\ culling = [c \in Cameras |-> "done"]
    /\ jobs = [c \in Cameras |-> << >>]
    /\ stage = [c \in Cameras |-> "idle"]
    /\ lastQuery = [c \in Cameras |-> 0]
    /\ \E own \in SUBSET Hooked :
          hook = [c \in Cameras |-> IF c \in own THEN "foreign" ELSE "none"]
    /\ listed = [c \in Cameras |-> FALSE]
    /\ tr = [k \in Contexts |-> NoResult]
    /\ cache = [k \in Contexts |-> << >>]
    /\ live = [k \in Contexts |-> {}]
    /\ visibleFor = [c \in Cameras |-> 0]
    /\ raced = [c \in Cameras |-> FALSE]
    /\ emptied = [k \in Contexts |-> FALSE]
    /\ releases = 0

-----------------------------------------------------------------------------
(* The viewer. *)

Drawn(c) == jobs[c] = << >>
QueryDrawn(c) == stage[c] = "post" \/ ~Head(jobs[c]).query

BeginFrame ==
    /\ frame < MaxFrame
    /\ \A c \in Cameras :
          /\ culling[c] = "done"
          /\ \/ Drawn(c)
             \/ mode # "single" /\ Len(jobs[c]) = 1 /\ QueryDrawn(c)
    /\ frame' = frame + 1
    /\ culling' = [c \in Cameras |-> "todo"]
    /\ raced' = [c \in Cameras |-> FALSE]
    /\ UNCHANGED <<mode, enabled, passed, jobs, lastQuery, visibleFor,
                   drawVars, glVars, emptied, releases>>

Deciding == {"near", "counted"}

(* Another camera's write of _passed in the middle of a cull. *)
RacedBy(c) == [d \in Cameras |-> raced[d] \/ (d # c /\ culling[d] \in Deciding)]

AloneUnlessThreads(c) ==
    mode = "threads" \/ \A d \in Cameras \ {c} : culling[d] \in {"todo", "done"}

NoQuery == [query |-> FALSE, visible |-> FALSE, of |-> 0]

(* The node is outside camera c's view: the traversal does not reach it. *)
CullSkip(c) ==
    /\ culling[c] = "todo" /\ AloneUnlessThreads(c)
    /\ culling' = [culling EXCEPT ![c] = "done"]
    /\ jobs' = [jobs EXCEPT ![c] = Append(@, NoQuery)]
    /\ visibleFor' = [visibleFor EXCEPT ![c] = 0]
    /\ UNCHANGED <<mode, enabled, frame, passed, lastQuery, raced, drawVars,
                   glVars, emptied, releases>>

(* getPassed, the two reasons to take the node for visible unasked: the    *)
(* camera's first frame, and no query for an abnormally long time.         *)
X_Unasked(c) == lastQuery[c] = 0
Unasked(c) == lastQuery[c] = 0 \/ frame - lastQuery[c] > QueryFrameCount + 1

(* getPassed up to its first write of _passed: the distance to the near    *)
(* plane, which is in the bounding sphere when inside.  visible is what a  *)
(* query drawn for this frame will find.                                   *)
GetPassed(c, inside, visible) ==
    /\ culling[c] = "todo" /\ AloneUnlessThreads(c)
    /\ visibleFor' = [visibleFor EXCEPT
         ![c] = IF ~visible THEN 0 ELSE IF @ > QueryFrameCount + 1 THEN @ ELSE @ + 1]
    /\ jobs' = [jobs EXCEPT ![c] = Append(@, [query |-> FALSE, visible |-> visible, of |-> frame])]
    /\ \/ /\ ~enabled \/ Unasked(c)
          /\ culling' = [culling EXCEPT ![c] = "shown"]
          /\ UNCHANGED <<passed, raced>>
       \/ /\ enabled /\ ~Unasked(c)
          /\ passed' = inside
          /\ culling' = [culling EXCEPT ![c] = "near"]
          /\ raced' = RacedBy(c)
    /\ UNCHANGED <<mode, enabled, frame, lastQuery, drawVars, glVars, emptied, releases>>

(* The rest of getPassed: unless _passed is set by now, the pixel count    *)
(* of the last queries.                                                    *)
CountPixels(c) ==
    /\ culling[c] = "near"
    /\ culling' = [culling EXCEPT ![c] = "counted"]
    /\ \/ passed /\ UNCHANGED <<passed, raced>>
       \/ ~passed /\ passed' = NumPixelsAbove /\ raced' = RacedBy(c)
    /\ UNCHANGED <<mode, enabled, frame, jobs, lastQuery, visibleFor, drawVars,
                   glVars, emptied, releases>>

(* traverseQuery records the query geometry when the last query is         *)
(* QueryFrameCount frames old.                                             *)
IssueQuery(c) == frame - lastQuery[c] >= QueryFrameCount

X_QueryStamp(c) == frame
QueryStamp(c) == IF IssueQuery(c) THEN frame ELSE lastQuery[c]

(* getPassed returns what _passed is by now; the children are traversed    *)
(* ("in") or dropped ("out"), and traverseQuery follows in either case.    *)
TraverseQuery(c) ==
    /\ culling[c] \in {"shown", "counted"}
    /\ culling' = [culling EXCEPT ![c] = "done"]
    /\ lastQuery' = [lastQuery EXCEPT ![c] = QueryStamp(c)]
    /\ jobs' = [jobs EXCEPT ![c][Len(jobs[c])] =
         IF IssueQuery(c) THEN [@ EXCEPT !.query = TRUE] ELSE NoQuery]
    /\ UNCHANGED <<mode, enabled, frame, passed, visibleFor, raced, drawVars,
                   glVars, emptied, releases>>

DropsChildren(c) == culling[c] = "counted" /\ ~passed

-----------------------------------------------------------------------------
(* The draw of a camera's frame, on the thread of its context. *)

ContextFree(k) == \A c \in Cameras : Ctx[c] = k => stage[c] = "idle"

(* A query object: the one the result has, or a name glGenQueries gives. *)
X_GenQuery(k) == Ids \ live[k]
GenQuery(k) == IF tr[k].init THEN {tr[k].id} ELSE Ids \ live[k]

(* ClearQueriesCallback empties the list of its RetrieveQueriesCallback. *)
ClearQueries(c) == listed[c] /\ hook[c] # "ours"

(* The draw of a frame up to its post-draw callback: the pre-draw callback *)
(* ClearQueriesCallback, once drawImplementation has installed it, then    *)
(* QueryGeometry::drawImplementation if the cull recorded it.  That gives  *)
(* up, before it issues the query, on a camera that had a post-draw        *)
(* callback of its own.                                                    *)
DrawGeometry(c) ==
    LET k == Ctx[c]
        job == Head(jobs[c]) IN
    /\ stage[c] = "idle" /\ ContextFree(k)
    /\ ~Drawn(c) /\ (Len(jobs[c]) > 1 \/ culling[c] = "done")
    /\ stage' = [stage EXCEPT ![c] = "post"]
    /\ \/ /\ ~job.query \/ hook[c] = "foreign"
          /\ listed' = [listed EXCEPT ![c] = ClearQueries(c)]
          /\ UNCHANGED <<hook, tr, live>>
       \/ /\ job.query /\ hook[c] # "foreign"
          /\ hook' = [hook EXCEPT ![c] = "ours"]
          /\ listed' = [listed EXCEPT ![c] = TRUE]
          /\ \E id \in GenQuery(k) :
               /\ live' = [live EXCEPT ![k] = IF tr[k].init THEN @ ELSE @ \union {id}]
               /\ tr' = [tr EXCEPT ![k] =
                    [@ EXCEPT !.init = TRUE, !.id = id, !.contextID = k, !.active = TRUE,
                              !.due = [visible |-> job.visible, of |-> job.of]]]
    /\ UNCHANGED <<mode, enabled, frame, cullVars, jobs, cache, emptied, releases>>

(* RetrieveQueriesCallback: the result of a query issued this frame. *)
PostDraw(c) ==
    LET k == Ctx[c] IN
    /\ stage[c] = "post"
    /\ stage' = [stage EXCEPT ![c] = "idle"]
    /\ jobs' = [jobs EXCEPT ![c] = Tail(@)]
    /\ \/ /\ hook[c] = "ours" /\ listed[c] /\ tr[k].active /\ tr[k].init
          /\ tr' = [tr EXCEPT ![k] =
               [@ EXCEPT !.active = FALSE, !.visible = tr[k].due.visible, !.of = tr[k].due.of,
                         !.due = NotDue]]
       \/ /\ ~(hook[c] = "ours" /\ listed[c] /\ tr[k].active /\ tr[k].init)
          /\ UNCHANGED tr
    /\ UNCHANGED <<mode, enabled, frame, cullVars, hook, listed, cache, live, emptied, releases>>

-----------------------------------------------------------------------------
(* Query objects of a context, between two draws of it. *)

(* deleteQueryObject takes the handle of a result of this context, if any. *)
X_HasHandle(k) == tr[k].contextID = k
HasHandle(k) == tr[k].contextID = k /\ tr[k].id # 0

(* releaseGLObjects for the context's state: the handle goes to the cache  *)
(* and _init is cleared; _id, _contextID and the pixel count stay.         *)
ReleaseGLObjects(k) ==
    /\ releases < MaxReleases /\ ContextFree(k)
    /\ releases' = releases + 1
    /\ tr' = [tr EXCEPT ![k].init = @ /\ tr[k].contextID # k]
    /\ cache' = [cache EXCEPT ![k] =
         IF HasHandle(k) THEN Append(@, tr[k].id) ELSE @]
    /\ emptied' = [emptied EXCEPT ![k] = @ \/ (HasHandle(k) /\ ~tr[k].init)]
    /\ visibleFor' = [c \in Cameras |-> IF Ctx[c] = k THEN 0 ELSE visibleFor[c]]
    /\ UNCHANGED <<mode, enabled, frame, passed, culling, lastQuery, raced, jobs,
                   drawVars, live>>

(* flushDeletedQueryObjects deletes from the front of the cache until the  *)
(* available time has passed.                                              *)
Flush(k) ==
    /\ ContextFree(k)
    /\ \E n \in 1 .. Len(cache[k]) :
          /\ live' = [live EXCEPT ![k] = @ \ Range(SubSeq(cache[k], 1, n))]
          /\ cache' = [cache EXCEPT ![k] = SubSeq(@, n + 1, Len(@))]
    /\ UNCHANGED <<mode, enabled, frame, cullVars, jobs, drawVars, tr, emptied, releases>>

(* discardDeletedQueryObjects, for a context that is closed: its query     *)
(* objects are gone with it.  The scene has been released before.          *)
Discard(k) ==
    /\ ContextFree(k) /\ ~tr[k].init /\ cache[k] # << >>
    /\ cache' = [cache EXCEPT ![k] = << >>]
    /\ live' = [live EXCEPT ![k] = {}]
    /\ UNCHANGED <<mode, enabled, frame, cullVars, jobs, drawVars, tr, emptied, releases>>

(* setQueriesEnabled, "only outside of cull/draw". *)
SetQueriesEnabled(e) ==
    /\ \A c \in Cameras : culling[c] = "done" /\ Drawn(c)
    /\ enabled # e
    /\ enabled' = e
    /\ UNCHANGED <<mode, frame, cullVars, jobs, drawVars, glVars, emptied, releases>>

Next ==
    \/ BeginFrame
    \/ \E c \in Cameras :
          \/ CullSkip(c)
          \/ \E inside, visible \in BOOLEAN : GetPassed(c, inside, visible)
          \/ CountPixels(c)
          \/ TraverseQuery(c)
          \/ DrawGeometry(c) \/ PostDraw(c)
    \/ \E k \in Contexts : ReleaseGLObjects(k) \/ Flush(k) \/ Discard(k)
    \/ \E e \in BOOLEAN : SetQueriesEnabled(e)

Spec == Init /\ [][Next]_vars

-----------------------------------------------------------------------------
(* Type correctness of the node, its results and the viewer around it. *)
Result == [init : BOOLEAN, id : Ids \union {0}, contextID : Contexts \union {0},
           active : BOOLEAN, visible : BOOLEAN, of : 0 .. MaxFrame,
           due : [visible : BOOLEAN, of : 0 .. MaxFrame]]

TypeOK ==
    /\ mode \in {"single", "overlap", "threads"}
    /\ enabled \in BOOLEAN /\ passed \in BOOLEAN
    /\ frame \in 0 .. MaxFrame
    /\ culling \in [Cameras -> {"todo", "shown", "near", "counted", "done"}]
    /\ \A c \in Cameras : Len(jobs[c]) <= 2
    /\ stage \in [Cameras -> {"idle", "post"}]
    /\ lastQuery \in [Cameras -> 0 .. MaxFrame]
    /\ hook \in [Cameras -> {"none", "ours", "foreign"}]
    /\ listed \in [Cameras -> BOOLEAN] /\ raced \in [Cameras -> BOOLEAN]
    /\ tr \in [Contexts -> Result]
    /\ visibleFor \in [Cameras -> 0 .. QueryFrameCount + 2]
    /\ \A k \in Contexts : live[k] \subseteq Ids /\ Range(cache[k]) \subseteq Ids

(* A cull drops the node's children only on evidence: for a camera whose   *)
(* callback is ours, with no other cull writing _passed meanwhile, its     *)
(* context holds the answer to the camera's last query, that answer says   *)
(* hidden, and it is at most QueryFrameCount + 1 frames old.  The two      *)
(* exceptions are a context released since, and the frame right after the  *)
(* query was recorded when frames overlap: the draw may not have retrieved *)
(* it yet, and an earlier answer or the initial count of 0 decides.        *)
CulledOnEvidence ==
    [][\A c \in Cameras :
         (DropsChildren(c) /\ culling'[c] = "done" /\ hook[c] # "foreign" /\ ~raced[c])
         => LET r == tr[Ctx[c]] IN
            /\ frame - lastQuery[c] <= QueryFrameCount + 1
            /\ \/ ~r.visible /\ r.of = lastQuery[c]
               \/ ~r.init /\ releases > 0
               \/ mode # "single" /\ frame = lastQuery[c] + 1]_vars

(* A node that is visible to a camera, frame after frame, is drawn again   *)
(* in frame QueryFrameCount + 1 at the latest, or one later when frames    *)
(* overlap: a hidden node that appears does not stay hidden.  It holds for *)
(* cameras whose post-draw callback is ours; a release starts the count    *)
(* again.                                                                  *)
ReappearsInTime ==
    [][\A c \in Cameras :
         (DropsChildren(c) /\ culling'[c] = "done" /\ hook[c] # "foreign" /\ ~raced[c])
         => visibleFor[c] <= QueryFrameCount + (IF mode = "single" THEN 0 ELSE 1)]_vars

(* Every query object of a context has one owner: the node's result, once  *)
(* initialised, or one entry of the cache of deleted objects.  It holds as *)
(* long as no release finds the context already released: releaseGLObjects *)
(* then puts the old handle in the cache again.                            *)
HandleOwnedOnce ==
    \A k \in Contexts : ~emptied[k] =>
        /\ live[k] = Range(cache[k]) \union (IF tr[k].init THEN {tr[k].id} ELSE {})
        /\ tr[k].init => tr[k].id \notin Range(cache[k])
        /\ IsInjective(cache[k])
=============================================================================
