----------------------------- MODULE FrameSync -----------------------------
(***************************************************************************)
(* What a set of drawing pipes owes the kernel that drives it: frames in   *)
(* lockstep.  In every frame each pipe renders once, and only when all of  *)
(* them have does any of them swap its buffers; no pipe renders again      *)
(* before all have swapped.  Once the kernel disbands the set, to stop the *)
(* pipes one by one, nothing is promised any more.                         *)
(***************************************************************************)
CONSTANT Pipes

VARIABLES
  stage,   \* "render", "swap" or "disbanded"
  did      \* did[p]: what p did last, "rendered" or "swapped"

Init == stage = "render" /\ did = [p \in Pipes |-> "swapped"]

Render(p) == /\ stage = "render" /\ did[p] = "swapped"
             /\ did' = [did EXCEPT ![p] = "rendered"] /\ UNCHANGED stage
Swap(p)   == /\ stage = "swap" /\ did[p] = "rendered"
             /\ did' = [did EXCEPT ![p] = "swapped"] /\ UNCHANGED stage

AllRendered == /\ stage = "render" /\ \A p \in Pipes : did[p] = "rendered"
               /\ stage' = "swap" /\ UNCHANGED did
AllSwapped  == /\ stage = "swap" /\ \A p \in Pipes : did[p] = "swapped"
               /\ stage' = "render" /\ UNCHANGED did
Disband     == /\ stage = "render" /\ \A p \in Pipes : did[p] = "swapped"
               /\ stage' = "disbanded" /\ UNCHANGED did
Disbanded   == /\ stage = "disbanded" /\ UNCHANGED stage
               /\ did' \in [Pipes -> {"rendered", "swapped"}]

Next == \/ \E p \in Pipes : Render(p) \/ Swap(p)
        \/ AllRendered \/ AllSwapped \/ Disband \/ Disbanded

Spec == Init /\ [][Next]_<<stage, did>>
=============================================================================
