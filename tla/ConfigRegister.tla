----------------------------- MODULE ConfigRegister -----------------------------
(***************************************************************************)
(* What a reader of the configuration record may rely on: the sector holds *)
(* the record of the last save that got through, or none.  It never holds  *)
(* a mixture of two records, and a save that returns true is in flash.     *)
(***************************************************************************)
CONSTANTS
    Records,   \* the records that may be saved
    Torn,      \* no record
    NoSave,    \* no save is in progress
    NoResult   \* the last save has not returned

VARIABLES
    reg,       \* the record that boot_config_load() would find
    saving,    \* the record that is being saved
    result     \* what the last save returned

vars == <<reg, saving, result>>

Init == reg \in Records \cup {Torn} /\ saving = NoSave /\ result = NoResult

Begin(r) == /\ saving = NoSave
            /\ saving' = r /\ result' = NoResult
            /\ UNCHANGED reg

\* The old record goes first, and the new one takes the place of no record.
Lose  == saving # NoSave /\ reg' = Torn
Store == saving # NoSave /\ reg = Torn /\ reg' = saving

Progress == (Lose \/ Store) /\ UNCHANGED <<saving, result>>

Return(ok) == /\ saving # NoSave
              /\ ok => reg' = saving
              /\ UNCHANGED reg \/ Lose \/ Store
              /\ saving' = NoSave /\ result' = ok

\* At any moment; it may complete what the save was doing, or spoil it.
Reset == /\ UNCHANGED reg \/ Lose \/ Store
         /\ saving' = NoSave /\ result' = NoResult

Next == \/ \E r \in Records : Begin(r)
        \/ Progress
        \/ \E ok \in BOOLEAN : Return(ok)
        \/ Reset

Spec == Init /\ [][Next]_vars
=============================================================================
