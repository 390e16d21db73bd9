----------------------------- MODULE MCConfigStore -----------------------------
(***************************************************************************)
(* ConfigStore for TLC: two words and the magic number before the CRC.     *)
(***************************************************************************)
EXTENDS ConfigStore

CONSTANTS v1, v2
MCWord == {v1, v2, Magic}
=============================================================================
