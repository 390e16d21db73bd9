------------------------------ MODULE MCDeltaPatch ------------------------------
(***************************************************************************)
(* DeltaPatch for TLC: a slot of five cells, images and patches.  The      *)
(* sound ones are an image, a patch that fills the slot together with its  *)
(* image, and a small one that is packed.                                  *)
(***************************************************************************)
EXTENDS DeltaPatch

image(n) == [kind |-> "FULL", len |-> n, base |-> Base, newTotal |-> n, newSize |-> n,
             needs |-> n, inBase |-> TRUE, packing |-> "none", verifies |-> TRUE,
             version |-> 2]

\* A patch of n cells that makes an image of t cells.
patch(n, t) == [kind |-> "DELTA", len |-> n, base |-> Base, newTotal |-> t, newSize |-> t,
                needs |-> n, inBase |-> TRUE, packing |-> "none", verifies |-> TRUE,
                version |-> 2]

SoundFiles == {image(3), patch(2, 3), [patch(1, 2) EXCEPT !.packing = "tuz"]}

\* For START_DELTA, for the patcher, and for END.
RefusedFiles   == {[patch(1, 2) EXCEPT !.base = "other"], patch(3, 4), image(6)}
UnsoundPatches == {[patch(2, 3) EXCEPT !.newSize = 2],
                   [patch(1, 3) EXCEPT !.needs = 2],
                   [patch(1, 2) EXCEPT !.packing = "unusable"],
                   [patch(1, 2) EXCEPT !.inBase = FALSE]}
RefusedImages  == {[image(2) EXCEPT !.verifies = FALSE],
                   [patch(1, 2) EXCEPT !.version = 1]}

MCFiles == SoundFiles \cup RefusedFiles \cup UnsoundPatches \cup RefusedImages
=============================================================================
