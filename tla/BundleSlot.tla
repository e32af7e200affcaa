---------------------------- MODULE BundleSlot -----------------------------
(***************************************************************************)
(* What publication promises: the destination of a bundle is filled at     *)
(* most once, in one step, with a whole bundle, and never changes again.   *)
(***************************************************************************)
CONSTANT Nothing

VARIABLE slot

Init == slot = Nothing

Fill == slot = Nothing /\ slot' # Nothing

Spec == Init /\ [][Fill]_slot
=============================================================================
