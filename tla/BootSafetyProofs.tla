--------------------------- MODULE BootSafetyProofs ---------------------------
(***************************************************************************)
(* The safety properties of Bootloader, for every set of versions, every   *)
(* kind and number of adverse events, and, where it matters, every flash   *)
(* layout that keeps the partitions apart.  Each inductive invariant has   *)
(* one conjunct per thing that the property depends on.                    *)
(***************************************************************************)
EXTENDS BootloaderProofs

Saving == pc \in {"erase", "program"}

\* boot_config_save() is called from main(), and goes on where main() does.
SaveReturns ==
    Saving => after \in {"swap", "reverify", "swapped", "pick", "jump", "recovery"}

-----------------------------------------------------------------------------
(* The image under the application.                                        *)

\* A layout whose erases stay in their own region: what the "Production
\* Resolution" of docs/architecture.md asks for, and memory_map.h does not
\* provide.
Isolated == /\ ErasedBy[CONFIG] \cap Slots = {}
            /\ \A s \in Slots : memory_map_other_slot(s) \notin ErasedBy[s]

\* From the return of pick_slot_to_boot() on.
HandingOver == pc \in {"jump", "app"} \/ (Saving /\ after = "jump")

HandsOverIntact == HandingOver => boot_slot \in Slots /\ image[boot_slot] # NoImage

IntactInv == TypeOK /\ SaveReturns /\ HandsOverIntact

LEMMA SaveReturnsStep ==
    ASSUME SaveReturns, [Next]_vars
    PROVE  SaveReturns'
<1> USE DEF flash, ram, history, SaveReturns, Saving
<1>1. CASE SaveErase  BY <1>1 DEF SaveErase
<1>2. CASE SaveProgram  BY <1>2 DEF SaveProgram
<1>3. CASE Load  BY <1>3 DEF Load
<1>4. CASE CheckAppConfirmation
  BY <1>4 DEF CheckAppConfirmation, SaveIf, SaveThen
<1>5. CASE NoSwap  BY <1>5 DEF NoSwap
<1>6. CASE SwapCommit  BY <1>6 DEF SwapCommit, SaveThen
<1>7. CASE SwapReverified  BY <1>7 DEF SwapReverified
<1>8. CASE SwapReverted  BY <1>8 DEF SwapReverted, SaveThen
<1>9. CASE PostSwap  BY <1>9 DEF PostSwap, SaveIf, SaveThen
<1>10. ASSUME NEW slot, NEW dirty, Returns(slot, dirty)
       PROVE  SaveReturns'
  BY <1>10 DEF Returns, SaveIf, SaveThen
<1>11. CASE PickActive  BY <1>11, <1>10 DEF PickActive
<1>12. CASE PickSwitch  BY <1>12 DEF PickSwitch
<1>13. CASE PickOther  BY <1>13, <1>10 DEF PickOther
<1>14. CASE PickNothing  BY <1>14, <1>10 DEF PickNothing
<1>15. CASE Jump  BY <1>15 DEF Jump
<1>16. CASE App
  BY <1>16 DEF App, AppAlive, AppConfirm, AppStageErase, AppStageImage, AppRequestSwap,
               AppReboot, Restart
<1>17. CASE Recovery
  BY <1>17 DEF Recovery, RecoveryUpdate, OtaStart, OtaData, OtaEnd, OtaGiveUp,
               RecoveryReboot, Restart
<1>18. CASE AppCrash \/ PinReset \/ PowerLoss
  BY <1>18 DEF AppCrash, PinReset, PowerLoss, Restart
<1>19. CASE UNCHANGED vars  BY <1>19 DEF vars
<1> QED
  BY <1>1, <1>2, <1>3, <1>4, <1>5, <1>6, <1>7, <1>8, <1>9, <1>11, <1>12, <1>13, <1>14,
     <1>15, <1>16, <1>17, <1>18, <1>19
  DEF Next, Boot

LEMMA HandsOverIntactStep ==
    ASSUME Isolated, IntactInv, [Next]_vars
    PROVE  HandsOverIntact'
<1> USE DEF flash, ram, history
<1>1. TypeOK /\ SaveReturns /\ HandsOverIntact  BY DEF IntactInv
<1> USE <1>1
\* A slot outside the wiped regions keeps its image.
<1>2. ASSUME NEW regions, Wipe(regions), NEW s \in Slots, s \notin regions
      PROVE  image'[s] = image[s]
  BY <1>2 DEF Wipe
<1>3. CASE SaveErase
  <2>1. PICK wiped \in SUBSET ErasedBy[CONFIG] : Wipe(wiped)  BY <1>3 DEF SaveErase
  <2>2. \A s \in Slots : image'[s] = image[s]  BY <2>1, <1>2 DEF Isolated
  <2> QED
    BY <1>3, <2>2 DEF SaveErase, HandsOverIntact, HandingOver, Saving, SaveReturns
<1>4. CASE SaveProgram
  BY <1>4 DEF SaveProgram, HandsOverIntact, HandingOver, Saving, SaveReturns
<1>5. CASE Load  BY <1>5 DEF Load, HandsOverIntact, HandingOver, Saving
<1>6. CASE CheckAppConfirmation
  BY <1>6 DEF CheckAppConfirmation, SaveIf, SaveThen, HandsOverIntact, HandingOver, Saving
<1>7. CASE NoSwap  BY <1>7 DEF NoSwap, HandsOverIntact, HandingOver, Saving
<1>8. CASE SwapCommit  BY <1>8 DEF SwapCommit, SaveThen, HandsOverIntact, HandingOver, Saving
<1>9. CASE SwapReverified  BY <1>9 DEF SwapReverified, HandsOverIntact, HandingOver, Saving
<1>10. CASE SwapReverted
  BY <1>10 DEF SwapReverted, SaveThen, HandsOverIntact, HandingOver, Saving
<1>11. CASE PostSwap
  BY <1>11 DEF PostSwap, SaveIf, SaveThen, HandsOverIntact, HandingOver, Saving
\* What pick_slot_to_boot() returns is what it has just verified.
<1>12. ASSUME NEW slot \in Slots, Returns(slot, TRUE), image[slot] # NoImage
       PROVE  HandsOverIntact'
  BY <1>12 DEF Returns, SaveIf, SaveThen, HandsOverIntact, HandingOver, Saving
<1>13. CASE PickActive
  <2>1. cfg.active_slot \in Slots  BY DEF TypeOK, BootConfig_t
  <2>2. image[cfg.active_slot] # NoImage
    BY <1>13, <2>1, ReadsFacts DEF PickActive, crypto_verify_firmware
  <2> QED  BY <1>12, <1>13, <2>1, <2>2 DEF PickActive
<1>14. CASE PickSwitch  BY <1>14 DEF PickSwitch, HandsOverIntact, HandingOver, Saving
<1>15. CASE PickOther
  <2> DEFINE other == memory_map_other_slot(cfg.active_slot)
  <2>1. other \in Slots  BY OtherSlot DEF TypeOK, BootConfig_t
  <2>2. image[other] # NoImage
    BY <1>15, <2>1, ReadsFacts DEF PickOther, crypto_verify_firmware
  <2> QED  BY <1>12, <1>15, <2>1, <2>2 DEF PickOther
<1>16. CASE PickNothing
  <2>1. Returns(NoSlot, cfg_dirty) /\ pc = "pick"  BY <1>16 DEF PickNothing
  <2> QED  BY <2>1 DEF Returns, SaveIf, SaveThen, HandsOverIntact, HandingOver, Saving
<1>17. CASE Jump  BY <1>17 DEF Jump, HandsOverIntact, HandingOver, Saving
<1>18. CASE App
  <2>1. CASE AppStageErase
    <3> DEFINE other == memory_map_other_slot(boot_slot)
    <3>1. /\ pc = "app" /\ pc' = "app" /\ boot_slot' = boot_slot
          /\ Wipe(ErasedBy[other])
      BY <2>1 DEF AppStageErase, AppAlive
    <3>2. boot_slot \in Slots /\ image[boot_slot] # NoImage
      BY <3>1 DEF HandsOverIntact, HandingOver
    <3>3. boot_slot \notin ErasedBy[other]  BY <3>2, OtherSlot DEF Isolated
    <3>4. image'[boot_slot] # NoImage  BY <3>1, <3>2, <3>3, <1>2
    <3> QED  BY <3>1, <3>2, <3>4 DEF HandsOverIntact
  <2>2. CASE AppStageImage
    <3>1. /\ pc = "app" /\ pc' = "app" /\ boot_slot' = boot_slot
          /\ \E version \in Versions :
                image' = [image EXCEPT ![memory_map_other_slot(boot_slot)] = version]
      BY <2>2 DEF AppStageImage, AppAlive
    <3>2. boot_slot \in Slots /\ image[boot_slot] # NoImage
      BY <3>1 DEF HandsOverIntact, HandingOver
    <3>3. image'[boot_slot] = image[boot_slot]  BY <3>1, <3>2, OtherSlot DEF TypeOK
    <3> QED  BY <3>1, <3>2, <3>3 DEF HandsOverIntact
  <2>3. CASE AppConfirm \/ AppRequestSwap
    BY <2>3 DEF AppConfirm, AppRequestSwap, AppAlive, HandsOverIntact, HandingOver, Saving
  <2>4. CASE AppReboot
    BY <2>4 DEF AppReboot, Restart, HandsOverIntact, HandingOver, Saving
  <2> QED  BY <1>18, <2>1, <2>2, <2>3, <2>4 DEF App
<1>19. CASE Recovery
  BY <1>19 DEF Recovery, RecoveryUpdate, OtaStart, OtaData, OtaEnd, OtaGiveUp,
               RecoveryReboot, Restart, HandsOverIntact, HandingOver, Saving
<1>20. CASE AppCrash \/ PinReset \/ PowerLoss
  BY <1>20 DEF AppCrash, PinReset, PowerLoss, Restart, HandsOverIntact, HandingOver, Saving
<1>21. CASE UNCHANGED vars
  BY <1>21 DEF vars, HandsOverIntact, HandingOver, Saving
<1> QED
  BY <1>3, <1>4, <1>5, <1>6, <1>7, <1>8, <1>9, <1>10, <1>11, <1>13, <1>14, <1>15, <1>16,
     <1>17, <1>18, <1>19, <1>20, <1>21
  DEF Next, Boot

\* On a layout that keeps the regions apart, the application always has a
\* verified image under it, whatever resets, write failures and read errors
\* come between its verification and its last instruction.
THEOREM RunsIntactImage ==
    ASSUME Isolated
    PROVE  Spec => []AppImageIntact
<1>1. Init => IntactInv
  BY InitType DEF Init, IntactInv, SaveReturns, HandsOverIntact, HandingOver, Saving
<1>2. IntactInv /\ [Next]_vars => IntactInv'
  BY NextType, SaveReturnsStep, HandsOverIntactStep DEF IntactInv
<1>3. IntactInv => AppImageIntact
  BY DEF IntactInv, HandsOverIntact, HandingOver, AppImageIntact
<1> QED  BY <1>1, <1>2, <1>3, PTL DEF Spec

-----------------------------------------------------------------------------
(* The loop of pick_slot_to_boot().                                        *)

\* Before the loop: from the reset on, the saves on the way included.
BeforePick == \/ pc \in {"load", "confirm", "swap", "reverify", "swapped"}
              \/ Saving /\ after \in {"swap", "reverify", "swapped", "pick"}

\* The only iteration that does not return switches slots and clears the
\* attempts, so the next one finds too few of them to switch again.
LoopShort == /\ BeforePick => iter = 0
             /\ pc = "pick" => \/ iter = 0
                               \/ iter = 1 /\ cfg.boot_attempts = 0

LoopInv == TypeOK /\ SaveReturns /\ LoopShort

LEMMA LoopShortStep ==
    ASSUME LoopInv, [Next]_vars
    PROVE  LoopShort'
<1> USE DEF flash, ram, history, LoopShort, BeforePick, Saving
<1>1. TypeOK /\ SaveReturns /\ LoopShort  BY DEF LoopInv
<1> USE <1>1
<1>2. CASE SaveErase  BY <1>2 DEF SaveErase, SaveReturns
<1>3. CASE SaveProgram  BY <1>3 DEF SaveProgram, SaveReturns
<1>4. CASE Load  BY <1>4 DEF Load
<1>5. CASE CheckAppConfirmation
  BY <1>5 DEF CheckAppConfirmation, SaveIf, SaveThen
<1>6. CASE NoSwap  BY <1>6 DEF NoSwap
<1>7. CASE SwapCommit  BY <1>7 DEF SwapCommit, SaveThen
<1>8. CASE SwapReverified  BY <1>8 DEF SwapReverified
<1>9. CASE SwapReverted  BY <1>9 DEF SwapReverted, SaveThen
<1>10. CASE PostSwap  BY <1>10 DEF PostSwap, SaveIf, SaveThen
<1>11. ASSUME NEW slot, NEW dirty, Returns(slot, dirty), pc = "pick"
       PROVE  LoopShort'
  BY <1>11 DEF Returns, SaveIf, SaveThen
<1>12. CASE PickActive  BY <1>12, <1>11 DEF PickActive
<1>13. CASE PickSwitch
  <2>1. cfg.boot_attempts # 0
    BY <1>13 DEF PickSwitch, TooManyAttempts, MAX_BOOT_ATTEMPTS
  <2>2. iter' = 1 /\ pc' = "pick"  BY <1>13, <2>1 DEF PickSwitch
  <2>3. cfg'.boot_attempts = 0
    BY <1>13 DEF PickSwitch, SwitchedSlot, TypeOK, BootConfig_t
  <2> QED  BY <2>2, <2>3
<1>14. CASE PickOther  BY <1>14, <1>11 DEF PickOther
<1>15. CASE PickNothing  BY <1>15, <1>11 DEF PickNothing
<1>16. CASE Jump  BY <1>16 DEF Jump
<1>17. CASE App
  BY <1>17 DEF App, AppAlive, AppConfirm, AppStageErase, AppStageImage, AppRequestSwap,
               AppReboot, Restart
<1>18. CASE Recovery
  BY <1>18 DEF Recovery, RecoveryUpdate, OtaStart, OtaData, OtaEnd, OtaGiveUp,
               RecoveryReboot, Restart
<1>19. CASE AppCrash \/ PinReset \/ PowerLoss
  BY <1>19 DEF AppCrash, PinReset, PowerLoss, Restart
<1>20. CASE UNCHANGED vars  BY <1>20 DEF vars
<1> QED
  BY <1>2, <1>3, <1>4, <1>5, <1>6, <1>7, <1>8, <1>9, <1>10, <1>12, <1>13, <1>14, <1>15,
     <1>16, <1>17, <1>18, <1>19, <1>20
  DEF Next, Boot

\* MAX_SWAP_RETRIES is never reached: pick_slot_to_boot() returns in its first
\* or second iteration, on any layout and under any fault.
THEOREM LoopNeverRunsOut == Spec => []CapIsBackstop
<1>1. Init => LoopInv
  BY InitType DEF Init, LoopInv, SaveReturns, LoopShort, BeforePick, Saving
<1>2. LoopInv /\ [Next]_vars => LoopInv'
  BY NextType, SaveReturnsStep, LoopShortStep DEF LoopInv
<1>3. LoopInv => CapIsBackstop
  BY DEF LoopInv, LoopShort, CapIsBackstop
<1> QED  BY <1>1, <1>2, <1>3, PTL DEF Spec

-----------------------------------------------------------------------------
(* The confirmation in SRAM.                                               *)

\* Once check_app_confirmation() has run, the magic number is there and the
\* flag is true only if the application sets it; before, the magic number
\* tells a kept flag from a leftover.
CreditInv ==
    (shared.magic \/ pc \notin {"load", "confirm"}) /\ shared.boot_confirmed => credit

LEMMA CreditStep ==
    ASSUME TypeOK, CreditInv, [Next]_vars
    PROVE  CreditInv'
<1> USE DEF flash, ram, history, CreditInv
<1>1. shared \in SharedBootBlock_t  BY DEF TypeOK
<1>2. CASE CheckAppConfirmation
  <2>1. shared'.boot_confirmed = FALSE
    BY <1>1, <1>2 DEF CheckAppConfirmation, Consumed, SharedBootBlock_t
  <2> QED  BY <2>1
<1>3. CASE Load  BY <1>3 DEF Load
<1>4. CASE SaveErase \/ SaveProgram
  BY <1>4 DEF SaveErase, SaveProgram
<1>5. CASE NoSwap \/ SwapCommit
  <2>1. /\ shared' = [shared EXCEPT !.ota_pending = FALSE]
        /\ credit' = credit /\ pc = "swap"
    BY <1>5 DEF NoSwap, SwapCommit
  <2>2. shared'.boot_confirmed = shared.boot_confirmed
    BY <1>1, <2>1 DEF SharedBootBlock_t
  <2> QED  BY <2>1, <2>2
<1>6. CASE SwapReverified \/ SwapReverted \/ PostSwap
  BY <1>6 DEF SwapReverified, SwapReverted, PostSwap
<1>7. CASE PickActive \/ PickSwitch \/ PickOther \/ PickNothing
  BY <1>7 DEF PickActive, PickSwitch, PickOther, PickNothing, Returns
<1>8. CASE Jump  BY <1>8 DEF Jump
<1>9. CASE App
  <2>1. CASE AppConfirm  BY <2>1 DEF AppConfirm
  <2>2. CASE AppRequestSwap
    <3>1. shared'.boot_confirmed = shared.boot_confirmed
      BY <1>1, <2>2 DEF AppRequestSwap, SharedBootBlock_t
    <3> QED  BY <2>2, <3>1 DEF AppRequestSwap, AppAlive
  <2>3. CASE AppStageErase \/ AppStageImage \/ AppReboot
    BY <2>3 DEF AppStageErase, AppStageImage, AppReboot, AppAlive
  <2> QED  BY <1>9, <2>1, <2>2, <2>3 DEF App
<1>10. CASE Recovery
  <2>1. CASE OtaEnd  BY <2>1 DEF OtaEnd
  <2>2. CASE RecoveryUpdate \/ OtaStart \/ OtaData \/ OtaGiveUp \/ RecoveryReboot
    BY <2>2 DEF RecoveryUpdate, OtaStart, OtaData, OtaGiveUp, RecoveryReboot
  <2> QED  BY <1>10, <2>1, <2>2 DEF Recovery
<1>11. CASE AppCrash \/ PinReset
  BY <1>11 DEF AppCrash, PinReset, Restart
<1>12. CASE PowerLoss
  BY <1>12 DEF PowerLoss, Restart, ColdSram
<1>13. CASE UNCHANGED vars  BY <1>13 DEF vars
<1> QED
  BY <1>2, <1>3, <1>4, <1>5, <1>6, <1>7, <1>8, <1>9, <1>10, <1>11, <1>12, <1>13
  DEF Next, Boot

\* A confirmation is believed only if the application made it since the last
\* one was counted, through any sequence of resets and power losses.
THEOREM ConfirmationIsFresh == Spec => []NoStaleConfirmation
<1>1. Init => TypeOK /\ CreditInv
  BY InitType DEF Init, ColdSram, CreditInv
<1>2. TypeOK /\ CreditInv /\ [Next]_vars => TypeOK' /\ CreditInv'
  BY NextType, CreditStep
<1>3. CreditInv => NoStaleConfirmation
  BY DEF CreditInv, NoStaleConfirmation
<1> QED  BY <1>1, <1>2, <1>3, PTL DEF Spec

-----------------------------------------------------------------------------
(* The anti-downgrade floor.                                               *)

\* What is promised is the floor of the stored record, and the copy that
\* main() works on has at least that floor.
FloorInv ==
    /\ config # Torn => promised = boot_config_antidowngrade_floor(config)
    /\ pc # "load" => boot_config_antidowngrade_floor(cfg) >= promised

\* The other updates of main() leave the floor alone.
LEMMA MainKeepsFloor ==
    ASSUME NEW c \in BootConfig_t
    PROVE  /\ boot_config_antidowngrade_floor(Confirmed(c)) = boot_config_antidowngrade_floor(c)
           /\ boot_config_antidowngrade_floor(Attempted(c)) = boot_config_antidowngrade_floor(c)
           /\ boot_config_antidowngrade_floor(SwitchedSlot(c)) = boot_config_antidowngrade_floor(c)
           /\ \A s : boot_config_antidowngrade_floor([c EXCEPT !.active_slot = s])
                       = boot_config_antidowngrade_floor(c)
BY DEF boot_config_antidowngrade_floor, Confirmed, Attempted, SwitchedSlot, BootConfig_t

\* A swap records an accepted image, and so never lowers the floor.
LEMMA SwapKeepsFloor ==
    ASSUME NEW c \in BootConfig_t, NEW s \in Slots, NEW v \in Nat,
           boot_config_firmware_allowed(c, v)
    PROVE  boot_config_antidowngrade_floor(Swapped(c, s, v))
             >= boot_config_antidowngrade_floor(c)
<1> DEFINE d == boot_config_record_ota_to_slot(c, s, v)
<1>1. d \in BootConfig_t /\ Swapped(c, s, v) \in BootConfig_t
  BY RecordType, SwappedType
<1>2. boot_config_antidowngrade_floor(d) >= boot_config_antidowngrade_floor(c)
  BY RecordKeepsFloor
<1>3. Swapped(c, s, v) = [d EXCEPT !.active_slot = s, !.boot_attempts = 0]
  BY DEF Swapped
<1> HIDE DEF d
<1>4. /\ Swapped(c, s, v).slot_version = d.slot_version
      /\ Swapped(c, s, v).rollback_counter = d.rollback_counter
  BY <1>1, <1>3 DEF BootConfig_t
<1>5. boot_config_antidowngrade_floor(Swapped(c, s, v)) = boot_config_antidowngrade_floor(d)
  BY <1>1, <1>4, FloorSame
<1> QED  BY <1>2, <1>5

LEMMA FloorStep ==
    ASSUME TypeOK, FloorInv, [Next]_vars
    PROVE  /\ FloorInv'
           /\ promised' >= promised \/ (pc = "load" /\ config = Torn)
<1> USE DEF flash, ram, history, FloorInv
<1>1. /\ config \in BootConfig_t \cup {Torn} /\ cfg \in BootConfig_t /\ promised \in Nat
      /\ boot_config_antidowngrade_floor(cfg) \in Nat
  BY FloorBounds DEF TypeOK
<1>2. \A regions : Wipe(regions) => config' \in {config, Torn}  BY DEF Wipe
\* The steps that leave the copy of main() alone.
<1>3. ASSUME pc # "load", UNCHANGED <<cfg, promised>>, config' \in {config, Torn}
      PROVE  /\ FloorInv'
             /\ promised' >= promised
  BY <1>1, <1>3
\* The ends of a run.
<1>4. ASSUME Restart, UNCHANGED <<config, promised>>
      PROVE  /\ FloorInv'
             /\ promised' >= promised
  BY <1>1, <1>4 DEF Restart
<1>5. CASE Load
  <2>1. CASE config # Torn
    <3>1. cfg' = config /\ promised' = promised /\ config' = config
      BY <1>5, <2>1 DEF Load
    <3> QED  BY <1>1, <2>1, <3>1
  <2>2. CASE config = Torn
    <3>1. PICK view : Reads(view) /\ cfg' = Loaded(view)  BY <1>5, <2>2 DEF Load
    <3>2. boot_config_antidowngrade_floor(cfg') \in Nat
      BY <3>1, ReadsFacts, LoadedType, FloorBounds
    <3>3. promised' = 0 /\ config' = Torn /\ pc = "load"  BY <1>5, <2>2 DEF Load
    <3> QED  BY <2>2, <3>2, <3>3
  <2> QED  BY <2>1, <2>2
<1>6. CASE CheckAppConfirmation
  <2>1. /\ cfg' \in {cfg, Confirmed(cfg)}
        /\ pc # "load" /\ UNCHANGED <<config, promised>>
    BY <1>6 DEF CheckAppConfirmation
  <2>2. boot_config_antidowngrade_floor(cfg') = boot_config_antidowngrade_floor(cfg)
    BY <1>1, <2>1, MainKeepsFloor
  <2> QED  BY <1>1, <2>1, <2>2
<1>7. CASE SwapCommit
  <2> DEFINE inactive == memory_map_other_slot(cfg.active_slot)
  <2>1. PICK view : Reads(view) /\ SwapAllowed(view)  BY <1>7 DEF SwapCommit
  <2>2. inactive \in Slots  BY OtherSlot DEF TypeOK, BootConfig_t
  <2>3. image[inactive] \in Nat /\ view[inactive] = image[inactive]
    BY <2>1, <2>2, ReadsFacts, VersionsAssumption
    DEF SwapAllowed, crypto_verify_firmware, TypeOK
  <2>4. boot_config_firmware_allowed(cfg, image[inactive])
    BY <2>1, <2>3 DEF SwapAllowed
  <2>5. cfg' = Swapped(cfg, inactive, image[inactive])  BY <1>7 DEF SwapCommit
  <2>6. boot_config_antidowngrade_floor(cfg') >= boot_config_antidowngrade_floor(cfg)
    BY <1>1, <2>2, <2>3, <2>4, <2>5, SwapKeepsFloor
  <2>7. pc # "load" /\ UNCHANGED <<config, promised>>  BY <1>7 DEF SwapCommit
  <2>8. cfg' \in BootConfig_t  BY <1>1, <2>2, <2>3, <2>5, SwappedType
  <2>9. boot_config_antidowngrade_floor(cfg') \in Nat  BY <2>8, FloorBounds
  <2> QED  BY <1>1, <2>6, <2>7, <2>9
<1>8. CASE SwapReverted \/ PickActive \/ PickSwitch \/ PickOther
  <2>1. \/ cfg' = [cfg EXCEPT !.active_slot = memory_map_other_slot(cfg.active_slot)]
        \/ cfg' = Attempted(cfg)
        \/ cfg' = SwitchedSlot(cfg)
    BY <1>8 DEF SwapReverted, PickActive, PickSwitch, PickOther
  <2>2. boot_config_antidowngrade_floor(cfg') = boot_config_antidowngrade_floor(cfg)
    BY <1>1, <2>1, MainKeepsFloor
  <2>3. pc # "load" /\ UNCHANGED <<config, promised>>
    BY <1>8 DEF SwapReverted, PickActive, PickSwitch, PickOther, Returns
  <2> QED  BY <1>1, <2>2, <2>3
<1>9. CASE NoSwap \/ SwapReverified \/ PostSwap \/ PickNothing \/ Jump
  BY <1>3, <1>9 DEF NoSwap, SwapReverified, PostSwap, PickNothing, Returns, Jump
<1>10. CASE SaveErase
  BY <1>2, <1>3, <1>10 DEF SaveErase
<1>11. CASE SaveProgram
  <2>1. CASE UNCHANGED <<config, promised>>
    BY <1>3, <1>11, <2>1 DEF SaveProgram
  <2>2. CASE config' = cfg /\ promised' = boot_config_antidowngrade_floor(cfg)
    <3>1. pc # "load" /\ cfg' = cfg  BY <1>11 DEF SaveProgram
    <3> QED  BY <1>1, <2>2, <3>1
  <2> QED  BY <1>11, <2>1, <2>2 DEF SaveProgram
<1>12. CASE App
  <2>1. CASE AppReboot  BY <2>1, <1>4 DEF AppReboot
  <2>2. CASE AppConfirm \/ AppStageErase \/ AppStageImage \/ AppRequestSwap
    BY <1>2, <1>3, <2>2
    DEF AppConfirm, AppStageErase, AppStageImage, AppRequestSwap, AppAlive
  <2> QED  BY <1>12, <2>1, <2>2 DEF App
<1>13. CASE Recovery
  <2>1. CASE OtaEnd \/ RecoveryReboot  BY <2>1, <1>4 DEF OtaEnd, RecoveryReboot
  <2>2. CASE OtaStart
    BY <1>2, <1>3, <2>2 DEF OtaStart
  <2>3. CASE RecoveryUpdate \/ OtaData \/ OtaGiveUp
    BY <1>3, <2>3 DEF RecoveryUpdate, OtaData, OtaGiveUp
  <2> QED  BY <1>13, <2>1, <2>2, <2>3 DEF Recovery
<1>14. CASE AppCrash \/ PinReset \/ PowerLoss
  BY <1>4, <1>14 DEF AppCrash, PinReset, PowerLoss
<1>15. CASE UNCHANGED vars  BY <1>1, <1>15 DEF vars
<1> QED
  BY <1>5, <1>6, <1>7, <1>8, <1>9, <1>10, <1>11, <1>12, <1>13, <1>14, <1>15
  DEF Next, Boot

\* The floor of the stored record never goes down but by the loss of the
\* record itself, for every set of versions and any sequence of swaps,
\* reverts, rollbacks, resets and failed writes.
THEOREM FloorIsMonotone == Spec => FloorNeverDrops
<1>1. Init => TypeOK /\ FloorInv
  <2> SUFFICES ASSUME Init PROVE FloorInv
    BY InitType
  <2> QED  BY FactoryFacts DEF Init, FloorInv
<1>2. TypeOK /\ FloorInv /\ [Next]_vars
        => TypeOK' /\ FloorInv' /\ [promised' >= promised \/ (pc = "load" /\ config = Torn)]_vars
  BY NextType, FloorStep
<1> QED  BY <1>1, <1>2, PTL DEF Spec, FloorNeverDrops
=============================================================================
