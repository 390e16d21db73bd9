------------------------------ MODULE BootConfig ------------------------------
(***************************************************************************)
(* The boot configuration record and the pure functions over it, from      *)
(* bootloader/src/boot_config.c: defaults, reconstruction from the slots,  *)
(* the anti-downgrade floor and how an update is recorded.                 *)
(*                                                                         *)
(* A version is the 32-bit number of the image header, 0xMMmmpp.  A slot   *)
(* holds the version of the image that crypto_verify_firmware() accepts    *)
(* there, or NoImage when it accepts none (erased, partial, unsigned).     *)
(***************************************************************************)
EXTENDS Naturals, MemoryMap

CONSTANTS
    NoImage,      \* what a slot holds when no image in it verifies
    LastGoodMod   \* last_good_boot counts modulo this (2^32 in the code)

ASSUME NoImageAssumption == NoImage \notin Nat
ASSUME LastGoodModAssumption == LastGoodMod \in Nat \ {0}

Images == [Slots -> Nat \cup {NoImage}]

\* crypto_verify_firmware() over a reading of the slots.
crypto_verify_firmware(view, slot) == view[slot] # NoImage

\* BootConfig_t; slot_version stands for slot_a_version and slot_b_version.
\* magic and crc32 only decide validity and are not fields here: a record
\* that would fail boot_config_validate() is Torn (see Bootloader).
BootConfig_t ==
    [slot_version     : [Slots -> Nat],
     active_slot      : Slots,
     boot_attempts    : 0 .. 255,
     rollback_counter : 0 .. 255,
     last_good_boot   : 0 .. LastGoodMod - 1]

-----------------------------------------------------------------------------
Larger(x, y) == IF y > x THEN y ELSE x

\* (uint8_t)((version >> 16) & 0xFF)
Major(version) == (version \div 65536) % 256

\* The counter a version earns; 0.x versions earn 1.
CounterOf(version) == IF Major(version) # 0 THEN Major(version) ELSE 1

boot_config_antidowngrade_floor(c) ==
    Larger(Larger(c.rollback_counter * 65536, c.slot_version[SLOT_A]), c.slot_version[SLOT_B])

boot_config_firmware_allowed(c, fw_version) ==
    fw_version >= boot_config_antidowngrade_floor(c)

boot_config_record_ota_to_slot(c, slot, fw_version) ==
    [c EXCEPT !.slot_version[slot] = fw_version,
              !.rollback_counter   = IF fw_version > boot_config_antidowngrade_floor(c)
                                     THEN CounterOf(fw_version) ELSE @]

boot_config_default ==
    [slot_version     |-> [s \in Slots |-> 0],
     active_slot      |-> SLOT_A,
     boot_attempts    |-> 0,
     rollback_counter |-> 0,
     last_good_boot   |-> 0]

\* Versions of the slots that verify; the highest one picks the active slot
\* (slot A on a tie) and seeds the rollback counter.  Version 0 counts for
\* neither.
boot_config_recover_from_slots(c, view) ==
    LET version(s) == IF crypto_verify_firmware(view, s) THEN view[s] ELSE 0
        floor      == Larger(version(SLOT_A), version(SLOT_B))
    IN  [c EXCEPT
            !.slot_version     = [s \in Slots |-> IF crypto_verify_firmware(view, s)
                                                  THEN view[s] ELSE c.slot_version[s]],
            !.active_slot      = IF version(SLOT_B) > version(SLOT_A) THEN SLOT_B
                                 ELSE IF version(SLOT_A) > 0 THEN SLOT_A ELSE @,
            !.rollback_counter = IF floor > 0 THEN CounterOf(floor) ELSE @]
=============================================================================
