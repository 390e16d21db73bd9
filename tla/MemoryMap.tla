------------------------------- MODULE MemoryMap -------------------------------
(***************************************************************************)
(* The partition identifiers of common/memory_map.h.                       *)
(***************************************************************************)

SLOT_A == "A"
SLOT_B == "B"
Slots  == {SLOT_A, SLOT_B}

\* The third region that gets erased, beside the two slots.
CONFIG  == "config"
Regions == Slots \cup {CONFIG}

memory_map_other_slot(slot) == IF slot = SLOT_A THEN SLOT_B ELSE SLOT_A
=============================================================================
