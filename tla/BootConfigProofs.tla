--------------------------- MODULE BootConfigProofs ---------------------------
(***************************************************************************)
(* Lemmas about the configuration record: the functions of boot_config.c   *)
(* keep its types, and recording an accepted update never lowers the       *)
(* anti-downgrade floor.                                                   *)
(***************************************************************************)
EXTENDS BootConfig, TLAPS

\* other_slot() stays within the two slots and is its own inverse.
LEMMA OtherSlot ==
    ASSUME NEW s \in Slots
    PROVE  /\ memory_map_other_slot(s) \in Slots
           /\ memory_map_other_slot(s) # s
           /\ memory_map_other_slot(memory_map_other_slot(s)) = s
BY DEF memory_map_other_slot, Slots, SLOT_A, SLOT_B

\* The major number and the counter fit a byte, whatever the version.
LEMMA CounterType ==
    ASSUME NEW v \in Nat
    PROVE  CounterOf(v) \in 0 .. 255
<1>1. v \div 65536 \in Nat  BY SMT
<1>2. Major(v) \in 0 .. 255  BY <1>1, SMT DEF Major
<1> QED  BY <1>2 DEF CounterOf

\* boot_config_antidowngrade_floor() is a number and bounds what it is the
\* maximum of.
LEMMA FloorBounds ==
    ASSUME NEW c \in BootConfig_t
    PROVE  /\ boot_config_antidowngrade_floor(c) \in Nat
           /\ \A s \in Slots : boot_config_antidowngrade_floor(c) >= c.slot_version[s]
<1>1. /\ c.rollback_counter \in 0 .. 255
      /\ c.slot_version \in [Slots -> Nat]
  BY DEF BootConfig_t
<1>2. c.slot_version[SLOT_A] \in Nat /\ c.slot_version[SLOT_B] \in Nat
  BY <1>1 DEF Slots
<1> QED  BY <1>1, <1>2, SMT DEF boot_config_antidowngrade_floor, Larger, Slots

\* The floor depends on nothing but the versions and the counter.
LEMMA FloorSame ==
    ASSUME NEW c \in BootConfig_t, NEW d \in BootConfig_t,
           c.slot_version = d.slot_version, c.rollback_counter = d.rollback_counter
    PROVE  boot_config_antidowngrade_floor(c) = boot_config_antidowngrade_floor(d)
BY DEF boot_config_antidowngrade_floor

\* boot_config_default() is a record, with floor 0.
LEMMA DefaultType ==
    /\ boot_config_default \in BootConfig_t
    /\ boot_config_antidowngrade_floor(boot_config_default) = 0
<1>1. 0 \in 0 .. LastGoodMod - 1  BY LastGoodModAssumption
<1>2. boot_config_default \in BootConfig_t
  BY <1>1 DEF boot_config_default, BootConfig_t, Slots
<1>3. boot_config_antidowngrade_floor(boot_config_default) = 0
  BY DEF boot_config_default, boot_config_antidowngrade_floor, Larger, Slots
<1> QED  BY <1>2, <1>3

\* Setting one field of a record to a value of its type keeps the type.
LEMMA SetAttempts ==
    ASSUME NEW c \in BootConfig_t, NEW n \in 0 .. 255
    PROVE  [c EXCEPT !.boot_attempts = n] \in BootConfig_t
BY DEF BootConfig_t

LEMMA ResetAttempts ==
    ASSUME NEW c \in BootConfig_t
    PROVE  [c EXCEPT !.boot_attempts = 0] \in BootConfig_t
<1>1. 0 \in 0 .. 255  OBVIOUS
<1> QED  BY <1>1, SetAttempts

LEMMA SetLastGood ==
    ASSUME NEW c \in BootConfig_t, NEW n \in 0 .. LastGoodMod - 1
    PROVE  [c EXCEPT !.last_good_boot = n] \in BootConfig_t
BY DEF BootConfig_t

LEMMA SetActive ==
    ASSUME NEW c \in BootConfig_t, NEW s \in Slots
    PROVE  [c EXCEPT !.active_slot = s] \in BootConfig_t
BY DEF BootConfig_t

LEMMA SetVersions ==
    ASSUME NEW c \in BootConfig_t, NEW versions \in [Slots -> Nat]
    PROVE  [c EXCEPT !.slot_version = versions] \in BootConfig_t
BY DEF BootConfig_t

LEMMA SetCounter ==
    ASSUME NEW c \in BootConfig_t, NEW n \in 0 .. 255
    PROVE  [c EXCEPT !.rollback_counter = n] \in BootConfig_t
BY DEF BootConfig_t

\* boot_config_record_ota_to_slot() keeps the types.
LEMMA RecordType ==
    ASSUME NEW c \in BootConfig_t, NEW s \in Slots, NEW v \in Nat
    PROVE  boot_config_record_ota_to_slot(c, s, v) \in BootConfig_t
<1> DEFINE versions == [c.slot_version EXCEPT ![s] = v]
           d == [c EXCEPT !.slot_version = versions]
           n == IF v > boot_config_antidowngrade_floor(c) THEN CounterOf(v)
                ELSE d.rollback_counter
<1>1. versions \in [Slots -> Nat]  BY DEF BootConfig_t
<1>2. d \in BootConfig_t  BY <1>1, SetVersions
<1>3. d.rollback_counter \in 0 .. 255  BY <1>2 DEF BootConfig_t
<1>4. n \in 0 .. 255  BY <1>3, CounterType
<1>5. boot_config_record_ota_to_slot(c, s, v) = [d EXCEPT !.rollback_counter = n]
  BY DEF boot_config_record_ota_to_slot, BootConfig_t
<1> HIDE DEF d, n
<1> QED  BY <1>2, <1>4, <1>5, SetCounter

\* Recording an image that boot_config_firmware_allowed() accepts never lowers
\* the floor, for every version: the new slot version alone reaches it.
THEOREM RecordKeepsFloor ==
    ASSUME NEW c \in BootConfig_t, NEW s \in Slots, NEW v \in Nat,
           boot_config_firmware_allowed(c, v)
    PROVE  boot_config_antidowngrade_floor(boot_config_record_ota_to_slot(c, s, v))
             >= boot_config_antidowngrade_floor(c)
<1> DEFINE d == boot_config_record_ota_to_slot(c, s, v)
<1>1. d \in BootConfig_t  BY RecordType
<1>2. d.slot_version[s] = v
  BY DEF boot_config_record_ota_to_slot, BootConfig_t
<1>3. boot_config_antidowngrade_floor(d) >= v  BY <1>1, <1>2, FloorBounds
<1>4. v >= boot_config_antidowngrade_floor(c)  BY DEF boot_config_firmware_allowed
<1>5. /\ boot_config_antidowngrade_floor(d) \in Nat
      /\ boot_config_antidowngrade_floor(c) \in Nat
  BY <1>1, FloorBounds
<1> HIDE DEF d
<1>6. boot_config_antidowngrade_floor(d) >= boot_config_antidowngrade_floor(c)
  BY <1>3, <1>4, <1>5
<1> QED  BY <1>6 DEF d

\* boot_config_recover_from_slots() keeps the types, over any reading of the
\* slots.
LEMMA RecoverType ==
    ASSUME NEW c \in BootConfig_t, NEW view \in Images
    PROVE  boot_config_recover_from_slots(c, view) \in BootConfig_t
<1> DEFINE version(s) == IF crypto_verify_firmware(view, s) THEN view[s] ELSE 0
           floor    == Larger(version(SLOT_A), version(SLOT_B))
           versions == [s \in Slots |-> IF crypto_verify_firmware(view, s)
                                        THEN view[s] ELSE c.slot_version[s]]
           active   == IF version(SLOT_B) > version(SLOT_A) THEN SLOT_B
                       ELSE IF version(SLOT_A) > 0 THEN SLOT_A ELSE c.active_slot
           counter  == IF floor > 0 THEN CounterOf(floor) ELSE c.rollback_counter
<1>1. \A s \in Slots : view[s] \in Nat \cup {NoImage}  BY DEF Images
<1>2. \A s \in Slots : version(s) \in Nat
  BY <1>1 DEF crypto_verify_firmware
<1>3. floor \in Nat  BY <1>2 DEF Larger, Slots
<1>4. counter \in 0 .. 255  BY <1>3, CounterType DEF BootConfig_t
<1>5. versions \in [Slots -> Nat]
  BY <1>1 DEF crypto_verify_firmware, BootConfig_t
<1>6. active \in Slots  BY DEF Slots, BootConfig_t
<1> DEFINE d == [c EXCEPT !.slot_version = versions]
           e == [d EXCEPT !.active_slot = active]
<1>7. boot_config_recover_from_slots(c, view) = [e EXCEPT !.rollback_counter = counter]
  BY DEF boot_config_recover_from_slots
<1> HIDE DEF versions, active, counter
<1>8. d \in BootConfig_t  BY <1>5, SetVersions
<1> HIDE DEF d
<1>9. e \in BootConfig_t  BY <1>6, <1>8, SetActive
<1> HIDE DEF e
<1> QED  BY <1>4, <1>7, <1>9, SetCounter

\* The reconstruction of a lost record does not forget the images that are
\* there: its floor is at least the version of every slot that verifies.
THEOREM RecoverCoversSlots ==
    ASSUME NEW c \in BootConfig_t, NEW view \in Images, NEW s \in Slots,
           crypto_verify_firmware(view, s)
    PROVE  boot_config_antidowngrade_floor(boot_config_recover_from_slots(c, view)) >= view[s]
<1>1. boot_config_recover_from_slots(c, view).slot_version[s] = view[s]
  BY DEF boot_config_recover_from_slots, BootConfig_t
<1>2. boot_config_recover_from_slots(c, view) \in BootConfig_t  BY RecoverType
<1> QED  BY <1>1, <1>2, FloorBounds
=============================================================================
