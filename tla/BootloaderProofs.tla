--------------------------- MODULE BootloaderProofs ---------------------------
(***************************************************************************)
(* Proofs about Bootloader, for every set of versions, every flash layout, *)
(* every kind and number of adverse events.                                *)
(***************************************************************************)
EXTENDS Bootloader, BootConfigProofs

\* A verification sees every slot as it is or as unreadable, and counts the
\* fault in the second case.
LEMMA ReadsFacts ==
    ASSUME TypeOK, NEW view, Reads(view)
    PROVE  /\ view \in [Slots -> Versions \cup {NoImage}]
           /\ view \in Images
           /\ \A s \in Slots : view[s] # NoImage => view[s] = image[s]
           /\ faults' \in 0 .. MaxFaults
<1>1. view = image \/ \E bad \in SUBSET Slots : view = Misread(bad)
  BY DEF Reads, Views
<1>2. view \in [Slots -> Versions \cup {NoImage}]  BY <1>1 DEF TypeOK, Misread
<1>3. view \in Images  BY <1>2, VersionsAssumption DEF Images
<1>4. \A s \in Slots : view[s] # NoImage => view[s] = image[s]
  BY <1>1 DEF Misread
<1>5. faults' \in 0 .. MaxFaults
  BY FaultsAssumption DEF TypeOK, Reads, Fault
<1> QED  BY <1>2, <1>3, <1>4, <1>5

LEMMA FaultType ==
    ASSUME TypeOK, NEW kind, Fault(kind)
    PROVE  faults' \in 0 .. MaxFaults
BY FaultsAssumption DEF TypeOK, Fault

LEMMA LoadedType ==
    ASSUME TypeOK, NEW view \in Images
    PROVE  Loaded(view) \in BootConfig_t
BY DefaultType, RecoverType DEF Loaded, TypeOK

LEMMA WipeType ==
    ASSUME TypeOK, NEW regions, Wipe(regions)
    PROVE  /\ config' \in BootConfig_t \cup {Torn}
           /\ image' \in [Slots -> Versions \cup {NoImage}]
BY DEF TypeOK, Wipe

\* The updates that main() makes to its configuration keep its types.
LEMMA ConfirmedType ==
    ASSUME NEW c \in BootConfig_t
    PROVE  Confirmed(c) \in BootConfig_t
<1> DEFINE d == [c EXCEPT !.boot_attempts = 0]
           n == IF d.last_good_boot = LastGoodMod - 1 THEN 0 ELSE d.last_good_boot + 1
<1>1. d \in BootConfig_t  BY ResetAttempts
<1>2. d.last_good_boot \in 0 .. LastGoodMod - 1  BY <1>1 DEF BootConfig_t
<1>3. n \in 0 .. LastGoodMod - 1  BY <1>2, LastGoodModAssumption
<1>4. Confirmed(c) = [d EXCEPT !.last_good_boot = n]  BY DEF Confirmed
<1> HIDE DEF d, n
<1> QED  BY <1>1, <1>3, <1>4, SetLastGood

LEMMA SwitchedSlotType ==
    ASSUME NEW c \in BootConfig_t
    PROVE  SwitchedSlot(c) \in BootConfig_t
<1> DEFINE d == [c EXCEPT !.active_slot = memory_map_other_slot(c.active_slot)]
<1>1. c.active_slot \in Slots  BY DEF BootConfig_t
<1>2. d \in BootConfig_t  BY <1>1, OtherSlot, SetActive
<1>3. SwitchedSlot(c) = [d EXCEPT !.boot_attempts = 0]  BY DEF SwitchedSlot
<1> HIDE DEF d
<1> QED  BY <1>2, <1>3, ResetAttempts

LEMMA AttemptedType ==
    ASSUME NEW c \in BootConfig_t, ~TooManyAttempts(c)
    PROVE  Attempted(c) \in BootConfig_t
<1> DEFINE n == c.boot_attempts + 1
<1>1. n \in 0 .. 255
  BY DEF TooManyAttempts, MAX_BOOT_ATTEMPTS, BootConfig_t
<1>2. Attempted(c) = [c EXCEPT !.boot_attempts = n]  BY DEF Attempted
<1> HIDE DEF n
<1> QED  BY <1>1, <1>2, SetAttempts

LEMMA RevertedType ==
    ASSUME NEW c \in BootConfig_t
    PROVE  [c EXCEPT !.active_slot = memory_map_other_slot(@)] \in BootConfig_t
<1>1. memory_map_other_slot(c.active_slot) \in Slots  BY OtherSlot DEF BootConfig_t
<1> QED  BY <1>1, SetActive

LEMMA SwappedType ==
    ASSUME NEW c \in BootConfig_t, NEW s \in Slots, NEW v \in Nat
    PROVE  Swapped(c, s, v) \in BootConfig_t
<1> DEFINE d == boot_config_record_ota_to_slot(c, s, v)
           e == [d EXCEPT !.active_slot = s]
<1>1. d \in BootConfig_t  BY RecordType
<1>2. Swapped(c, s, v) = [e EXCEPT !.boot_attempts = 0]  BY DEF Swapped
<1> HIDE DEF d
<1>3. e \in BootConfig_t  BY <1>1, SetActive
<1> HIDE DEF e
<1> QED  BY <1>2, <1>3, ResetAttempts

-----------------------------------------------------------------------------
(* Type correctness.                                                       *)

LEMMA RestartType ==
    ASSUME TypeOK, Restart
    PROVE  /\ pc' \in PCs /\ after' \in PCs
           /\ cfg' \in BootConfig_t /\ cfg_dirty' \in BOOLEAN
           /\ iter' \in 0 .. MAX_SWAP_RETRIES
           /\ boot_slot' \in Slots \cup {NoSlot}
           /\ g_state' \in Slots \cup {NoSlot}
<1>1. 0 \in 0 .. MAX_SWAP_RETRIES  BY DEF MAX_SWAP_RETRIES
<1> QED  BY <1>1, DefaultType DEF Restart, PCs

LEMMA FactoryFacts ==
    ASSUME FactoryConfig, config # Torn
    PROVE  /\ config \in BootConfig_t
           /\ config.boot_attempts \in FactoryAttempts
           /\ boot_config_antidowngrade_floor(config) = 0
<1>1. PICK s \in Slots, n \in FactoryAttempts :
        config = [boot_config_default EXCEPT !.active_slot = s, !.boot_attempts = n]
  BY DEF FactoryConfig
<1> DEFINE d == [boot_config_default EXCEPT !.active_slot = s]
<1>2. d \in BootConfig_t  BY DefaultType, SetActive
<1>3. n \in 0 .. 255  BY DEF FactoryAttempts, MAX_BOOT_ATTEMPTS
<1>4. [d EXCEPT !.boot_attempts = n] \in BootConfig_t
  <2> HIDE DEF d
  <2> QED  BY <1>2, <1>3, SetAttempts
<1>5. config \in BootConfig_t  BY <1>1, <1>4
<1>6. /\ config.slot_version = boot_config_default.slot_version
      /\ config.rollback_counter = boot_config_default.rollback_counter
  BY <1>1, DefaultType DEF BootConfig_t
<1>7. config.boot_attempts = n
  <2>1. config = [d EXCEPT !.boot_attempts = n]  BY <1>1
  <2> HIDE DEF d
  <2> QED  BY <1>2, <2>1 DEF BootConfig_t
<1> QED  BY <1>5, <1>6, <1>7, DefaultType, FloorSame

LEMMA InitType == Init => TypeOK
<1> SUFFICES ASSUME Init PROVE TypeOK
  OBVIOUS
<1>1. config \in BootConfig_t \cup {Torn}  BY FactoryFacts DEF Init
<1>2. cfg \in BootConfig_t  BY DefaultType DEF Init
<1>3. iter \in 0 .. MAX_SWAP_RETRIES  BY DEF Init, MAX_SWAP_RETRIES
<1>7. AttemptsInRange
  BY FactoryFacts DEF Init, AttemptsInRange, boot_config_default, FactoryAttempts,
                      MAX_BOOT_ATTEMPTS
<1>4. faults \in 0 .. MaxFaults  BY FaultsAssumption DEF Init
<1>5. strikes \in [slot : Slots \cup {NoSlot}, n : 0 .. MAX_BOOT_ATTEMPTS + 1]
  BY DEF Init, NoStrikes, MAX_BOOT_ATTEMPTS
<1>6. /\ image \in [Slots -> Versions \cup {NoImage}]
      /\ shared \in SharedBootBlock_t
      /\ pc \in PCs /\ after \in PCs
      /\ cfg_dirty \in BOOLEAN
      /\ boot_slot \in Slots \cup {NoSlot}
      /\ g_state \in Slots \cup {NoSlot}
      /\ credit \in BOOLEAN /\ requested \in BOOLEAN /\ promised \in Nat
  BY DEF Init, ColdSram, PCs
<1> QED  BY <1>1, <1>2, <1>3, <1>4, <1>5, <1>6, <1>7 DEF TypeOK

\* Only pick_slot_to_boot() counts up, and only what is below the maximum.
LEMMA AttemptsStep ==
    ASSUME TypeOK, [Next]_vars
    PROVE  AttemptsInRange'
<1> USE DEF flash, ram, history
<1>1. /\ cfg \in BootConfig_t /\ config \in BootConfig_t \cup {Torn}
      /\ AttemptsInRange
  BY DEF TypeOK
<1>2. 0 \in FactoryAttempts /\ boot_config_default.boot_attempts = 0
  BY DEF FactoryAttempts, MAX_BOOT_ATTEMPTS, boot_config_default
<1>3. ASSUME config' \in {config, Torn, cfg},
             cfg' = cfg \/ cfg'.boot_attempts \in FactoryAttempts
      PROVE  AttemptsInRange'
  BY <1>1, <1>3, TornAssumption DEF AttemptsInRange
<1>4. CASE SaveErase \/ SaveProgram
  BY <1>3, <1>4 DEF SaveErase, SaveProgram, Wipe
<1>5. CASE Load
  <2>1. \A view : config = Torn => Loaded(view).boot_attempts = 0
    BY <1>2, DefaultType DEF Loaded, boot_config_recover_from_slots, BootConfig_t
  <2>2. cfg'.boot_attempts \in FactoryAttempts
    BY <1>1, <1>2, <1>5, <2>1 DEF Load, AttemptsInRange
  <2> QED  BY <1>3, <1>5, <2>2 DEF Load
<1>6. CASE CheckAppConfirmation
  <2>1. Confirmed(cfg).boot_attempts = 0
    BY <1>1 DEF Confirmed, BootConfig_t
  <2> QED  BY <1>2, <1>3, <1>6, <2>1 DEF CheckAppConfirmation
<1>7. CASE SwapCommit
  <2>1. \A s, v : boot_config_record_ota_to_slot(cfg, s, v).boot_attempts = cfg.boot_attempts
                 /\ Swapped(cfg, s, v).boot_attempts = 0
    BY <1>1 DEF boot_config_record_ota_to_slot, Swapped, BootConfig_t
  <2> QED  BY <1>2, <1>3, <1>7, <2>1 DEF SwapCommit
<1>8. CASE SwapReverted
  <2>1. cfg'.boot_attempts = cfg.boot_attempts
    BY <1>1, <1>8 DEF SwapReverted, BootConfig_t
  <2> QED  BY <1>1, <1>3, <1>8, <2>1 DEF SwapReverted, AttemptsInRange
<1>9. CASE PickActive
  <2>1. cfg'.boot_attempts = cfg.boot_attempts + 1 /\ cfg.boot_attempts \in 0 .. 255
    BY <1>1, <1>9 DEF PickActive, Attempted, BootConfig_t
  <2>2. cfg'.boot_attempts \in FactoryAttempts
    BY <1>9, <2>1 DEF PickActive, TooManyAttempts, FactoryAttempts, MAX_BOOT_ATTEMPTS
  <2> QED  BY <1>3, <1>9, <2>2 DEF PickActive, Returns
<1>10. CASE PickSwitch \/ PickOther
  <2>1. cfg'.boot_attempts = 0
    BY <1>1, <1>10 DEF PickSwitch, PickOther, SwitchedSlot, BootConfig_t
  <2> QED  BY <1>2, <1>3, <1>10, <2>1 DEF PickSwitch, PickOther, Returns
<1>11. CASE NoSwap \/ SwapReverified \/ PostSwap \/ PickNothing \/ Jump
  BY <1>3, <1>11 DEF NoSwap, SwapReverified, PostSwap, PickNothing, Returns, Jump
<1>12. CASE App
  BY <1>2, <1>3, <1>12
  DEF App, AppConfirm, AppStageErase, AppStageImage, AppRequestSwap, AppReboot, Wipe, Restart
<1>13. CASE Recovery
  BY <1>2, <1>3, <1>13
  DEF Recovery, RecoveryUpdate, OtaStart, OtaData, OtaEnd, OtaGiveUp, RecoveryReboot, Wipe,
      Restart
<1>14. CASE AppCrash \/ PinReset \/ PowerLoss
  BY <1>2, <1>3, <1>14 DEF AppCrash, PinReset, PowerLoss, Restart
<1>15. CASE UNCHANGED vars
  BY <1>3, <1>15 DEF vars
<1> QED
  BY <1>4, <1>5, <1>6, <1>7, <1>8, <1>9, <1>10, <1>11, <1>12, <1>13, <1>14, <1>15
  DEF Next, Boot

\* Every step keeps the types, whatever an erase wipes and whatever fails.
LEMMA NextType ==
    ASSUME TypeOK, [Next]_vars
    PROVE  TypeOK'
<1> USE DEF flash, ram, history
<1>0. AttemptsInRange'
  BY AttemptsStep
<1> USE <1>0
<1>1. CASE SaveErase
  <2>1. /\ config' \in BootConfig_t \cup {Torn}
        /\ image' \in [Slots -> Versions \cup {NoImage}]
    BY <1>1, WipeType DEF SaveErase
  <2>2. faults' \in 0 .. MaxFaults  BY <1>1, FaultType DEF SaveErase, TypeOK
  <2>3. pc' \in PCs  BY <1>1 DEF SaveErase, TypeOK, PCs
  <2> QED  BY <1>1, <2>1, <2>2, <2>3 DEF SaveErase, TypeOK
<1>2. CASE SaveProgram
  <2>1. faults' \in 0 .. MaxFaults  BY <1>2, FaultType DEF SaveProgram, TypeOK
  <2>2. config' \in BootConfig_t \cup {Torn} /\ promised' \in Nat
    BY <1>2, FloorBounds DEF SaveProgram, TypeOK
  <2>3. strikes' \in [slot : Slots \cup {NoSlot}, n : 0 .. MAX_BOOT_ATTEMPTS + 1]
    BY <1>2 DEF SaveProgram, TypeOK, NoStrikes, MAX_BOOT_ATTEMPTS
  <2> QED  BY <1>2, <2>1, <2>2, <2>3 DEF SaveProgram, TypeOK
<1>3. CASE Load
  <2>1. cfg' \in BootConfig_t /\ faults' \in 0 .. MaxFaults
    <3>1. CASE config # Torn /\ cfg' = config /\ UNCHANGED faults
      BY <3>1 DEF TypeOK
    <3>2. ASSUME NEW view, Reads(view), cfg' = Loaded(view)
          PROVE  cfg' \in BootConfig_t /\ faults' \in 0 .. MaxFaults
      BY <3>2, ReadsFacts, LoadedType
    <3> QED  BY <1>3, <3>1, <3>2 DEF Load
  <2>2. strikes' \in [slot : Slots \cup {NoSlot}, n : 0 .. MAX_BOOT_ATTEMPTS + 1]
    BY <1>3 DEF Load, TypeOK, NoStrikes, MAX_BOOT_ATTEMPTS
  <2> QED  BY <1>3, <2>1, <2>2 DEF Load, TypeOK, PCs
<1>4. CASE CheckAppConfirmation
  <2>1. cfg' \in BootConfig_t
    BY <1>4, ConfirmedType DEF CheckAppConfirmation, TypeOK
  <2>2. shared' \in SharedBootBlock_t
    BY <1>4 DEF CheckAppConfirmation, Consumed, TypeOK, SharedBootBlock_t
  <2>3. pc' \in PCs /\ after' \in PCs /\ credit' \in BOOLEAN
    BY <1>4 DEF CheckAppConfirmation, SaveIf, SaveThen, TypeOK, PCs
  <2> QED  BY <1>4, <2>1, <2>2, <2>3 DEF CheckAppConfirmation, TypeOK
<1>5. CASE NoSwap
  <2>1. shared' \in SharedBootBlock_t
    BY <1>5 DEF NoSwap, TypeOK, SharedBootBlock_t
  <2>2. faults' \in 0 .. MaxFaults  BY <1>5, ReadsFacts DEF NoSwap, TypeOK
  <2> QED  BY <1>5, <2>1, <2>2 DEF NoSwap, TypeOK, PCs
<1>6. CASE SwapCommit
  <2> DEFINE inactive == memory_map_other_slot(cfg.active_slot)
  <2>1. PICK view : Reads(view) /\ SwapAllowed(view)  BY <1>6 DEF SwapCommit
  <2>2. inactive \in Slots  BY OtherSlot DEF TypeOK, BootConfig_t
  <2>3. image[inactive] \in Nat
    BY <2>1, <2>2, ReadsFacts, VersionsAssumption
    DEF SwapAllowed, crypto_verify_firmware, TypeOK
  <2>4. cfg' \in BootConfig_t
    BY <1>6, <2>2, <2>3, SwappedType DEF SwapCommit, TypeOK
  <2>5. faults' \in 0 .. MaxFaults  BY <2>1, ReadsFacts
  <2>6. shared' \in SharedBootBlock_t
    BY <1>6 DEF SwapCommit, TypeOK, SharedBootBlock_t
  <2>7. strikes' \in [slot : Slots \cup {NoSlot}, n : 0 .. MAX_BOOT_ATTEMPTS + 1]
    BY <1>6 DEF SwapCommit, NoStrikes, MAX_BOOT_ATTEMPTS
  <2> QED  BY <1>6, <2>4, <2>5, <2>6, <2>7 DEF SwapCommit, SaveThen, TypeOK, PCs
<1>7. CASE SwapReverified
  BY <1>7, ReadsFacts DEF SwapReverified, TypeOK, PCs
<1>8. CASE SwapReverted
  <2>1. cfg' \in BootConfig_t  BY <1>8, RevertedType DEF SwapReverted, TypeOK
  <2> QED  BY <1>8, <2>1, ReadsFacts DEF SwapReverted, SaveThen, TypeOK, PCs
<1>9. CASE PostSwap
  BY <1>9 DEF PostSwap, SaveIf, SaveThen, TypeOK, PCs
<1>10. ASSUME NEW slot \in Slots \cup {NoSlot}, NEW dirty \in BOOLEAN, Returns(slot, dirty),
              cfg' \in BootConfig_t, faults' \in 0 .. MaxFaults
       PROVE  TypeOK'
  BY <1>10 DEF Returns, SaveIf, SaveThen, TypeOK, PCs
<1>11. CASE PickActive
  <2>1. cfg' \in BootConfig_t  BY <1>11, AttemptedType DEF PickActive, TypeOK
  <2>2. faults' \in 0 .. MaxFaults  BY <1>11, ReadsFacts DEF PickActive
  <2>3. cfg.active_slot \in Slots  BY DEF TypeOK, BootConfig_t
  <2> QED  BY <1>11, <2>1, <2>2, <2>3, <1>10 DEF PickActive
<1>12. CASE PickSwitch
  <2>1. cfg' \in BootConfig_t  BY <1>12, SwitchedSlotType DEF PickSwitch, TypeOK
  <2>2. faults' \in 0 .. MaxFaults  BY <1>12, ReadsFacts DEF PickSwitch
  <2>3. iter' \in 0 .. MAX_SWAP_RETRIES
    BY <1>12 DEF PickSwitch, TypeOK, MAX_SWAP_RETRIES
  <2> QED  BY <1>12, <2>1, <2>2, <2>3 DEF PickSwitch, TypeOK
<1>13. CASE PickOther
  <2>1. cfg' \in BootConfig_t  BY <1>13, SwitchedSlotType DEF PickOther, TypeOK
  <2>2. faults' \in 0 .. MaxFaults  BY <1>13, ReadsFacts DEF PickOther
  <2>3. memory_map_other_slot(cfg.active_slot) \in Slots
    BY OtherSlot DEF TypeOK, BootConfig_t
  <2> QED  BY <1>13, <2>1, <2>2, <2>3, <1>10 DEF PickOther
<1>14. CASE PickNothing
  <2>1. faults' \in 0 .. MaxFaults  BY <1>14, ReadsFacts DEF PickNothing, TypeOK
  <2>2. cfg' \in BootConfig_t  BY <1>14 DEF PickNothing, TypeOK
  <2>3. cfg_dirty \in BOOLEAN  BY DEF TypeOK
  <2> QED  BY <1>14, <2>1, <2>2, <2>3, <1>10 DEF PickNothing
<1>15. CASE Jump
  <2>1. strikes' \in [slot : Slots \cup {NoSlot}, n : 0 .. MAX_BOOT_ATTEMPTS + 1]
    BY <1>15 DEF Jump, TypeOK, NoStrikes, MAX_BOOT_ATTEMPTS
  <2> QED  BY <1>15, <2>1 DEF Jump, TypeOK, PCs
<1>16. CASE App
  <2>1. CASE AppConfirm
    <3>1. shared' \in SharedBootBlock_t
      BY <2>1 DEF AppConfirm, TypeOK, SharedBootBlock_t
    <3>2. strikes' \in [slot : Slots \cup {NoSlot}, n : 0 .. MAX_BOOT_ATTEMPTS + 1]
      BY <2>1 DEF AppConfirm, NoStrikes, MAX_BOOT_ATTEMPTS
    <3> QED  BY <2>1, <3>1, <3>2 DEF AppConfirm, TypeOK
  <2>2. CASE AppStageErase
    BY <2>2, WipeType DEF AppStageErase, TypeOK
  <2>3. CASE AppStageImage
    BY <2>3 DEF AppStageImage, TypeOK
  <2>4. CASE AppRequestSwap
    <3>1. shared' \in SharedBootBlock_t
      BY <2>4 DEF AppRequestSwap, TypeOK, SharedBootBlock_t
    <3> QED  BY <2>4, <3>1 DEF AppRequestSwap, TypeOK
  <2>5. CASE AppReboot
    BY <2>5, RestartType DEF AppReboot, TypeOK
  <2> QED  BY <1>16, <2>1, <2>2, <2>3, <2>4, <2>5 DEF App
<1>17. CASE AppCrash
  BY <1>17, RestartType DEF AppCrash, TypeOK
<1>18. CASE Recovery
  <2>1. CASE RecoveryUpdate
    BY <2>1 DEF RecoveryUpdate, TypeOK, PCs
  <2>2. CASE OtaStart
    <3>1. /\ config' \in BootConfig_t \cup {Torn}
          /\ image' \in [Slots -> Versions \cup {NoImage}]
      BY <2>2, WipeType DEF OtaStart
    <3>2. ASSUME NEW view, Reads(view)
          PROVE  faults' \in 0 .. MaxFaults /\ OtaTarget(view) \in Slots
      BY <3>2, ReadsFacts, LoadedType, OtherSlot DEF OtaTarget, BootConfig_t
    <3>3. faults' \in 0 .. MaxFaults /\ g_state' \in Slots \cup {NoSlot}
      BY <2>2, <3>2, FaultType DEF OtaStart, TypeOK
    <3> QED  BY <2>2, <3>1, <3>3 DEF OtaStart, TypeOK
  <2>3. CASE OtaData
    BY <2>3 DEF OtaData, TypeOK
  <2>4. CASE OtaEnd
    <3>1. faults' \in 0 .. MaxFaults  BY <2>4, ReadsFacts DEF OtaEnd
    <3>2. shared' \in SharedBootBlock_t  BY <2>4 DEF OtaEnd, SharedBootBlock_t
    <3> QED  BY <2>4, <3>1, <3>2, RestartType DEF OtaEnd, TypeOK
  <2>5. CASE OtaGiveUp
    BY <2>5 DEF OtaGiveUp, TypeOK, PCs
  <2>6. CASE RecoveryReboot
    BY <2>6, RestartType DEF RecoveryReboot, TypeOK
  <2> QED  BY <1>18, <2>1, <2>2, <2>3, <2>4, <2>5, <2>6 DEF Recovery
<1>19. CASE PinReset
  BY <1>19, RestartType, FaultType DEF PinReset, TypeOK
<1>20. CASE PowerLoss
  BY <1>20, RestartType, FaultType DEF PowerLoss, ColdSram, TypeOK
<1>21. CASE UNCHANGED vars
  BY <1>21 DEF vars, TypeOK
<1> QED
  BY <1>1, <1>2, <1>3, <1>4, <1>5, <1>6, <1>7, <1>8, <1>9, <1>11, <1>12, <1>13, <1>14,
     <1>15, <1>16, <1>17, <1>18, <1>19, <1>20, <1>21
  DEF Next, Boot

\* Every variable keeps its type, whatever is reset, lost or misread on the way.
THEOREM TypeCorrect == Spec => []TypeOK
<1>1. TypeOK /\ [Next]_vars => TypeOK'  BY NextType
<1> QED  BY InitType, <1>1, PTL DEF Spec
=============================================================================
