-------------------------- MODULE MCOcclusionQuery --------------------------
(* Two cameras, one graphics context each. *)
EXTENDS OcclusionQuery

CONSTANTS c1, c2
MCCtx == (c1 :> 0) @@ (c2 :> 1)

(* Bounds on what happens together.  Mode "single" has everything, each    *)
(* release costing a frame, and a last frame in which a camera comes back  *)
(* after an abnormally long time.  In the modes where frames overlap       *)
(* queries stay enabled; there is one release in "overlap", none in        *)
(* "threads"; and the last two frames, in which a node that was hidden     *)
(* must reappear, are for behaviours in which it does: c1 sees it from     *)
(* the second frame on, whatever the first was and c2 does.                *)
Appears == frame > FirstFrame + 2 => visibleFor[c1] >= frame - FirstFrame - 1
Bound ==
    /\ releases = 0 \/ enabled
    /\ mode = "single" => frame + releases <= MaxFrame
    /\ mode # "single" => enabled /\ Appears
    /\ mode = "overlap" => releases = 0 \/ (releases = 1 /\ frame <= FirstFrame + 2)
    /\ mode = "threads" => releases = 0
=============================================================================
