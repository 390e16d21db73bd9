-------------------------- MODULE BootRollbackProofs --------------------------
(***************************************************************************)
(* What Bootloader promises when flash or reads work: the properties of    *)
(* the rollback, for every set of versions and any number of resets, with  *)
(* the kinds of adverse events that each has to exclude as its hypothesis. *)
(***************************************************************************)
EXTENDS BootSafetyProofs

ReadsWork  == "read" \notin Faults
FlashWorks == "flash" \notin Faults

\* An erase of a slot never takes the record with it.
RecordApart == \A s \in Slots : CONFIG \notin ErasedBy[s]

-----------------------------------------------------------------------------
(* The recovery menu.                                                      *)

\* The save before the menu has nothing left to lose.
NothingLeft ==
    Saving /\ after = "recovery" => \A s \in Slots : image[s] = NoImage

RecoveryInv == LoopInv /\ NothingLeft

\* pick_slot_to_boot() gives up only on two slots that do not verify: its loop
\* never runs out.
LEMMA GivesUp ==
    ASSUME ReadsWork, LoopInv, PickNothing
    PROVE  \A s \in Slots : image[s] = NoImage
<1>1. pc = "pick" /\ iter # MAX_SWAP_RETRIES
  BY DEF PickNothing, LoopInv, LoopShort, MAX_SWAP_RETRIES
<1>2. PICK view \in Views : Reads(view) /\ \A s \in Slots : ~crypto_verify_firmware(view, s)
  BY <1>1 DEF PickNothing
<1>3. view = image  BY <1>2 DEF Reads, Fault, ReadsWork
<1> QED  BY <1>2, <1>3 DEF crypto_verify_firmware

LEMMA NothingLeftStep ==
    ASSUME ReadsWork, RecoveryInv, [Next]_vars
    PROVE  NothingLeft'
<1> USE DEF flash, ram, history, NothingLeft, Saving
<1>1. LoopInv /\ NothingLeft  BY DEF RecoveryInv
<1> USE <1>1
<1>2. CASE SaveErase
  BY <1>2 DEF SaveErase, Wipe
<1>3. CASE SaveProgram  BY <1>3 DEF SaveProgram, LoopInv, SaveReturns
<1>4. CASE Load  BY <1>4 DEF Load
<1>5. CASE CheckAppConfirmation
  BY <1>5 DEF CheckAppConfirmation, SaveIf, SaveThen
<1>6. CASE NoSwap \/ SwapReverified  BY <1>6 DEF NoSwap, SwapReverified
<1>7. CASE SwapCommit \/ SwapReverted
  BY <1>7 DEF SwapCommit, SwapReverted, SaveThen
<1>8. CASE PostSwap  BY <1>8 DEF PostSwap, SaveIf, SaveThen
<1>9. ASSUME NEW slot \in Slots, NEW dirty, Returns(slot, dirty), pc = "pick"
      PROVE  NothingLeft'
  BY <1>9, NoSlotAssumption DEF Returns, SaveIf, SaveThen
<1>10. CASE PickActive
  BY <1>9, <1>10 DEF PickActive, LoopInv, TypeOK, BootConfig_t
<1>11. CASE PickSwitch  BY <1>11 DEF PickSwitch
<1>12. CASE PickOther
  BY <1>9, <1>12, OtherSlot DEF PickOther, LoopInv, TypeOK, BootConfig_t
<1>13. CASE PickNothing
  BY <1>13, GivesUp DEF PickNothing, Returns
<1>14. CASE Jump  BY <1>14 DEF Jump
<1>15. CASE App
  BY <1>15 DEF App, AppAlive, AppConfirm, AppStageErase, AppStageImage, AppRequestSwap,
               AppReboot, Restart
<1>16. CASE Recovery
  BY <1>16 DEF Recovery, RecoveryUpdate, OtaStart, OtaData, OtaEnd, OtaGiveUp,
               RecoveryReboot, Restart
<1>17. CASE AppCrash \/ PinReset \/ PowerLoss
  BY <1>17 DEF AppCrash, PinReset, PowerLoss, Restart
<1>18. CASE UNCHANGED vars  BY <1>18 DEF vars
<1> QED
  BY <1>2, <1>3, <1>4, <1>5, <1>6, <1>7, <1>8, <1>10, <1>11, <1>12, <1>13, <1>14, <1>15,
     <1>16, <1>17, <1>18
  DEF Next, Boot

\* RecoveryIsLastResort: as long as reads of the flash work, main() enters
\* recovery_mode_run() only on a device with no bootable image, on any layout
\* and whatever resets and write failures came before.
THEOREM RecoveryComesLast ==
    ASSUME ReadsWork
    PROVE  Spec => RecoveryIsLastResort
<1>1. Init => RecoveryInv
  BY InitType
  DEF Init, RecoveryInv, LoopInv, SaveReturns, LoopShort, BeforePick, Saving, NothingLeft
<1>2. RecoveryInv /\ [Next]_vars => RecoveryInv'
  BY NextType, SaveReturnsStep, LoopShortStep, NothingLeftStep DEF RecoveryInv, LoopInv
<1>3. RecoveryInv /\ [Next]_vars =>
        [pc' = "recovery" /\ pc # "ota" => \A s \in Slots : image[s] = NoImage]_vars
  <2> SUFFICES ASSUME RecoveryInv, Next, pc' = "recovery", pc # "ota"
               PROVE  \A s \in Slots : image[s] = NoImage
    OBVIOUS
  <2> USE DEF flash, ram, history
  <2>1. CASE SaveErase \/ SaveProgram
    BY <2>1 DEF SaveErase, SaveProgram, RecoveryInv, NothingLeft, Saving
  <2>2. CASE PickNothing  BY <2>2, GivesUp DEF RecoveryInv
  <2>3. CASE Load \/ NoSwap \/ SwapReverified \/ Jump \/ PickSwitch
    BY <2>3 DEF Load, NoSwap, SwapReverified, Jump, PickSwitch
  <2>4. CASE CheckAppConfirmation \/ SwapCommit \/ SwapReverted \/ PostSwap
    BY <2>4 DEF CheckAppConfirmation, SwapCommit, SwapReverted, PostSwap, SaveIf, SaveThen
  <2>5. CASE PickActive \/ PickOther
    BY <2>5 DEF PickActive, PickOther, Returns, SaveIf, SaveThen
  <2>6. CASE App
    BY <2>6 DEF App, AppAlive, AppConfirm, AppStageErase, AppStageImage, AppRequestSwap,
                AppReboot, Restart
  <2>7. CASE Recovery
    BY <2>7 DEF Recovery, RecoveryUpdate, OtaStart, OtaData, OtaEnd, OtaGiveUp,
                RecoveryReboot, Restart
  <2>8. CASE AppCrash \/ PinReset \/ PowerLoss
    BY <2>8 DEF AppCrash, PinReset, PowerLoss, Restart
  <2> QED
    BY <2>1, <2>2, <2>3, <2>4, <2>5, <2>6, <2>7, <2>8 DEF Next, Boot
<1> QED  BY <1>1, <1>2, <1>3, PTL DEF Spec, RecoveryIsLastResort

-----------------------------------------------------------------------------
(* The record in flash while the application runs and while an update is   *)
(* received.                                                               *)

\* Once the first save of main() is over there is a record.
RecordStored ==
    /\ pc = "confirm" => config # Torn \/ cfg_dirty
    /\ pc \notin {"load", "confirm", "erase", "program"} => config # Torn

\* What runs, or is about to, is what the record names; until the save before
\* the jump is over, what it will name.
RunsTheRecord ==
    /\ Saving /\ after = "jump" => cfg.active_slot = boot_slot
    /\ pc \in {"jump", "app"} => config = cfg /\ cfg.active_slot = boot_slot

TransferTarget ==
    g_state # NoSlot => /\ pc \in {"recovery", "ota"}
                        /\ g_state = memory_map_other_slot(config.active_slot)

RecordInv == TypeOK /\ SaveReturns /\ RecordStored /\ RunsTheRecord /\ TransferTarget

LEMMA RecordKept ==
    ASSUME RecordApart, NEW s \in Slots, Wipe(ErasedBy[s])
    PROVE  config' = config
BY DEF Wipe, RecordApart

LEMMA RestartRecord ==
    ASSUME Restart
    PROVE  RecordStored' /\ RunsTheRecord' /\ TransferTarget'
BY DEF Restart, RecordStored, RunsTheRecord, TransferTarget, Saving

\* A save is of the record that main() goes on with.
LEMMA SaveRecord ==
    ASSUME FlashWorks, RecordInv, SaveErase \/ SaveProgram
    PROVE  RecordStored' /\ RunsTheRecord' /\ TransferTarget'
<1> USE DEF flash, ram, history, RecordInv, Saving
<1>1. g_state' = g_state /\ boot_slot' = boot_slot /\ cfg' = cfg /\ after' = after
      /\ g_state = NoSlot
  BY DEF SaveErase, SaveProgram, TransferTarget
<1>2. CASE SaveErase
  <2>1. pc = "erase" /\ pc' = "program"  BY <1>2 DEF SaveErase, Fault, FlashWorks
  <2> QED  BY <1>1, <2>1 DEF RecordStored, RunsTheRecord, TransferTarget
<1>3. CASE SaveProgram
  <2>1. pc = "program" /\ pc' = after /\ config' = cfg
    BY <1>3 DEF SaveProgram, Fault, FlashWorks
  <2>2. config' # Torn  BY <2>1, TornAssumption DEF TypeOK
  <2>3. pc' \in {"swap", "reverify", "swapped", "pick", "jump", "recovery"}
    BY <2>1 DEF SaveReturns
  <2> QED
    BY <1>1, <2>1, <2>2, <2>3 DEF RecordStored, RunsTheRecord, TransferTarget
<1> QED  BY <1>2, <1>3

\* main() before the slot is picked.
LEMMA MainRecord ==
    ASSUME RecordInv,
           \/ Load \/ CheckAppConfirmation \/ NoSwap \/ SwapCommit \/ SwapReverified
           \/ SwapReverted \/ PostSwap \/ PickSwitch
    PROVE  RecordStored' /\ RunsTheRecord' /\ TransferTarget'
<1> USE DEF flash, ram, history, RecordInv, Saving, RecordStored, RunsTheRecord, TransferTarget
<1>1. CASE Load  BY <1>1 DEF Load
<1>2. CASE CheckAppConfirmation
  BY <1>2 DEF CheckAppConfirmation, SaveIf, SaveThen
<1>3. CASE NoSwap \/ SwapReverified  BY <1>3 DEF NoSwap, SwapReverified
<1>4. CASE SwapCommit \/ SwapReverted
  BY <1>4 DEF SwapCommit, SwapReverted, SaveThen
<1>5. CASE PostSwap  BY <1>5 DEF PostSwap, SaveIf, SaveThen
<1>6. CASE PickSwitch  BY <1>6 DEF PickSwitch
<1> QED  BY <1>1, <1>2, <1>3, <1>4, <1>5, <1>6

\* pick_slot_to_boot() returns the slot that its record names, and has changed
\* the record: it is saved before the jump.
LEMMA PickRecord ==
    ASSUME RecordInv, PickActive \/ PickOther \/ PickNothing
    PROVE  RecordStored' /\ RunsTheRecord' /\ TransferTarget'
<1> USE DEF flash, ram, history, RecordInv, Saving
<1>1. pc = "pick" /\ g_state = NoSlot
  BY DEF PickActive, PickOther, PickNothing, TransferTarget
<1>2. cfg \in BootConfig_t /\ cfg.active_slot \in Slots
  BY DEF TypeOK, BootConfig_t
<1>3. ASSUME NEW slot \in Slots, Returns(slot, TRUE), cfg'.active_slot = slot
      PROVE  RecordStored' /\ RunsTheRecord' /\ TransferTarget'
  BY <1>1, <1>3, NoSlotAssumption
  DEF Returns, SaveIf, SaveThen, RecordStored, RunsTheRecord, TransferTarget
<1>4. CASE PickActive
  <2>1. Returns(cfg.active_slot, TRUE) /\ cfg' = Attempted(cfg)  BY <1>4 DEF PickActive
  <2>2. cfg'.active_slot = cfg.active_slot  BY <1>2, <2>1 DEF Attempted, BootConfig_t
  <2> QED  BY <1>2, <1>3, <2>1, <2>2
<1>5. CASE PickOther
  <2> DEFINE other == memory_map_other_slot(cfg.active_slot)
  <2>1. Returns(other, TRUE) /\ cfg' = SwitchedSlot(cfg)  BY <1>5 DEF PickOther
  <2>2. other \in Slots  BY <1>2, OtherSlot
  <2>3. cfg'.active_slot = other  BY <1>2, <2>1 DEF SwitchedSlot, BootConfig_t
  <2> QED  BY <1>3, <2>1, <2>2, <2>3
<1>6. CASE PickNothing
  <2>1. Returns(NoSlot, cfg_dirty) /\ UNCHANGED cfg  BY <1>6 DEF PickNothing
  <2> QED
    BY <1>1, <2>1 DEF Returns, SaveIf, SaveThen, RecordStored, RunsTheRecord, TransferTarget
<1> QED  BY <1>4, <1>5, <1>6

LEMMA AppRecord ==
    ASSUME RecordApart, RecordInv, Jump \/ App \/ AppCrash
    PROVE  RecordStored' /\ RunsTheRecord' /\ TransferTarget'
<1> USE DEF flash, ram, history, RecordInv, Saving, RecordStored, RunsTheRecord, TransferTarget
<1>1. CASE Jump  BY <1>1 DEF Jump
<1>2. CASE AppConfirm \/ AppRequestSwap \/ AppStageImage
  BY <1>2 DEF AppConfirm, AppRequestSwap, AppStageImage, AppAlive
<1>3. CASE AppStageErase
  <2>1. pc = "app" /\ Wipe(ErasedBy[memory_map_other_slot(boot_slot)]) /\ UNCHANGED <<pc, ram>>
    BY <1>3 DEF AppStageErase, AppAlive
  <2>2. memory_map_other_slot(boot_slot) \in Slots
    BY <2>1, OtherSlot DEF TypeOK, BootConfig_t
  <2>3. config' = config  BY <2>1, <2>2, RecordKept
  <2> QED  BY <2>1, <2>3
<1>4. CASE AppReboot \/ AppCrash  BY <1>4, RestartRecord DEF AppReboot, AppCrash
<1> QED  BY <1>1, <1>2, <1>3, <1>4 DEF App

LEMMA OtaRecord ==
    ASSUME FlashWorks, RecordApart, RecordInv, Recovery
    PROVE  RecordStored' /\ RunsTheRecord' /\ TransferTarget'
<1> USE DEF flash, ram, history, RecordInv, Saving
<1>1. CASE RecoveryUpdate
  BY <1>1 DEF RecoveryUpdate, RecordStored, RunsTheRecord, TransferTarget
<1>2. CASE OtaData \/ OtaGiveUp
  BY <1>2 DEF OtaData, OtaGiveUp, RecordStored, RunsTheRecord, TransferTarget
<1>3. CASE OtaStart
  <2>1. PICK view \in Views : /\ Reads(view)
                              /\ Wipe(ErasedBy[OtaTarget(view)])
                              /\ g_state' = OtaTarget(view)
    BY <1>3 DEF OtaStart, Fault, FlashWorks
  <2>2. pc = "ota" /\ UNCHANGED <<pc, after, cfg, boot_slot>>  BY <1>3 DEF OtaStart
  <2>3. config # Torn /\ config \in BootConfig_t
    BY <2>2 DEF RecordStored, TypeOK
  <2>4. OtaTarget(view) = memory_map_other_slot(config.active_slot)
    BY <2>3 DEF OtaTarget, Loaded
  <2>5. OtaTarget(view) \in Slots
    BY <2>3, <2>4, OtherSlot DEF BootConfig_t
  <2>6. config' = config  BY <2>1, <2>5, RecordKept
  <2> QED
    BY <2>1, <2>2, <2>3, <2>4, <2>6 DEF RecordStored, RunsTheRecord, TransferTarget
<1>4. CASE OtaEnd \/ RecoveryReboot  BY <1>4, RestartRecord DEF OtaEnd, RecoveryReboot
<1> QED  BY <1>1, <1>2, <1>3, <1>4 DEF Recovery

LEMMA RecordStep ==
    ASSUME FlashWorks, RecordApart, RecordInv, [Next]_vars
    PROVE  RecordInv'
<1>1. TypeOK' /\ SaveReturns'  BY NextType, SaveReturnsStep DEF RecordInv
<1>2. CASE Boot
  BY <1>1, <1>2, SaveRecord, MainRecord, PickRecord, AppRecord DEF Boot, RecordInv
<1>3. CASE App \/ AppCrash \/ Recovery
  BY <1>1, <1>3, AppRecord, OtaRecord DEF RecordInv
<1>4. CASE PinReset \/ PowerLoss
  BY <1>1, <1>4, RestartRecord DEF PinReset, PowerLoss, RecordInv
<1>5. CASE UNCHANGED vars
  BY <1>1, <1>5
  DEF vars, flash, ram, RecordInv, RecordStored, RunsTheRecord, TransferTarget, Saving
<1> QED  BY <1>2, <1>3, <1>4, <1>5 DEF Next

LEMMA RecordInvariance ==
    ASSUME FlashWorks, RecordApart
    PROVE  Spec => []RecordInv
<1>1. Init => RecordInv
  BY InitType
  DEF Init, RecordInv, SaveReturns, Saving, RecordStored, RunsTheRecord, TransferTarget
<1>2. RecordInv /\ [Next]_vars => RecordInv'
  BY RecordStep
<1> QED  BY <1>1, <1>2, PTL DEF Spec

\* OtaWritesInactive: when writes work, and the erase of a slot spares the
\* record, handle_start() and every frame after it write the slot that the
\* stored record does not name, whatever reads failed while the target was
\* chosen.
THEOREM TransfersSpareActiveSlot ==
    ASSUME FlashWorks, RecordApart
    PROVE  Spec => []OtaWritesInactive
<1>1. RecordInv => OtaWritesInactive
  BY DEF RecordInv, RecordStored, TransferTarget, OtaWritesInactive
<1> QED  BY <1>1, RecordInvariance, PTL

LEMMA ReadsAsIs ==
    ASSUME ReadsWork, NEW view, Reads(view) PROVE view = image
BY DEF Reads, Fault, ReadsWork

\* What is handed over next is counted, or is the only image.
AttemptCounted ==
    pc = "jump" \/ (Saving /\ after = "jump") =>
        \/ cfg.boot_attempts \in 1 .. MAX_BOOT_ATTEMPTS
        \/ image[memory_map_other_slot(boot_slot)] = NoImage

LEMMA AttemptStep ==
    ASSUME ReadsWork, TypeOK, SaveReturns, AttemptCounted, [Next]_vars
    PROVE  AttemptCounted'
<1> USE DEF flash, ram, history, AttemptCounted, Saving
<1>1. cfg \in BootConfig_t /\ cfg.active_slot \in Slots /\ cfg.boot_attempts \in Nat
  BY DEF TypeOK, BootConfig_t
<1>2. CASE SaveErase
  <2>1. /\ pc = "erase" /\ UNCHANGED <<after, cfg, boot_slot>>
        /\ pc' \in {"program", after}
        /\ \A s \in Slots : image[s] = NoImage => image'[s] = NoImage
    BY <1>2 DEF SaveErase, Wipe
  <2>2. memory_map_other_slot(boot_slot) \in Slots
    BY DEF memory_map_other_slot, Slots
  <2> QED  BY <2>1, <2>2
<1>3. CASE SaveProgram  BY <1>3 DEF SaveProgram
<1>4. CASE PickActive
  <2>1. cfg'.boot_attempts = cfg.boot_attempts + 1
    BY <1>1, <1>4 DEF PickActive, Attempted, BootConfig_t
  <2>2. cfg'.boot_attempts \in 1 .. MAX_BOOT_ATTEMPTS
    BY <1>1, <1>4, <2>1 DEF PickActive, TooManyAttempts, MAX_BOOT_ATTEMPTS
  <2> QED  BY <2>2
<1>5. CASE PickOther
  <2>1. image[cfg.active_slot] = NoImage
        /\ Returns(memory_map_other_slot(cfg.active_slot), TRUE) /\ UNCHANGED image
    BY <1>5, ReadsAsIs DEF PickOther, crypto_verify_firmware, Returns
  <2>2. memory_map_other_slot(boot_slot') = cfg.active_slot
    BY <1>1, <2>1, OtherSlot DEF Returns
  <2> QED  BY <2>1, <2>2
<1>6. CASE PickNothing
  BY <1>6 DEF PickNothing, Returns, SaveIf, SaveThen
<1>7. CASE Load \/ NoSwap \/ SwapReverified \/ PickSwitch
  BY <1>7 DEF Load, NoSwap, SwapReverified, PickSwitch
<1>8. CASE CheckAppConfirmation \/ SwapCommit \/ SwapReverted \/ PostSwap
  BY <1>8 DEF CheckAppConfirmation, SwapCommit, SwapReverted, PostSwap, SaveIf, SaveThen
<1>9. CASE Jump  BY <1>9 DEF Jump
<1>10. CASE App
  BY <1>10 DEF App, AppAlive, AppConfirm, AppStageErase, AppStageImage, AppRequestSwap,
               AppReboot, Restart
<1>11. CASE Recovery
  BY <1>11 DEF Recovery, RecoveryUpdate, OtaStart, OtaData, OtaEnd, OtaGiveUp,
               RecoveryReboot, Restart
<1>12. CASE AppCrash \/ PinReset \/ PowerLoss
  BY <1>12 DEF AppCrash, PinReset, PowerLoss, Restart
<1>13. CASE UNCHANGED vars  BY <1>13 DEF vars
<1> QED
  BY <1>2, <1>3, <1>4, <1>5, <1>6, <1>7, <1>8, <1>9, <1>10, <1>11, <1>12, <1>13
  DEF Next, Boot

\* ConfigMatchesRunningApp: when flash and reads work, and the erase of a slot
\* spares the record, flash holds the record that pick_slot_to_boot() has made
\* from the hand-over on, and at the hand-over it counts the attempt as long as
\* there is another image: an application that crashes is not booted uncounted
\* for ever.
THEOREM RecordNamesRunningApp ==
    ASSUME FlashWorks, ReadsWork, RecordApart
    PROVE  Spec => []ConfigMatchesRunningApp
<1>1. Init => RecordInv /\ AttemptCounted
  BY InitType
  DEF Init, RecordInv, SaveReturns, Saving, RecordStored, RunsTheRecord, TransferTarget,
      AttemptCounted
<1>2. RecordInv /\ AttemptCounted /\ [Next]_vars => RecordInv' /\ AttemptCounted'
  BY RecordStep, AttemptStep DEF RecordInv
<1>3. RecordInv /\ AttemptCounted => ConfigMatchesRunningApp
  BY DEF RecordInv, RunsTheRecord, AttemptCounted, ConfigMatchesRunningApp
<1> QED  BY <1>1, <1>2, <1>3, PTL DEF Spec

-----------------------------------------------------------------------------
(* The count of hand-overs.                                                *)

NoFallback == \E s \in Slots : image[s] = NoImage

\* The attempts of a record are no fewer than the hand-overs to its slot.
CountedBy(c) == \/ strikes.n = 0
                \/ NoFallback
                \/ strikes.slot = c.active_slot /\ strikes.n <= c.boot_attempts

RecordCounts == config # Torn => CountedBy(config)

\* The copy of main(), until pick_slot_to_boot() leaves a slot for the other.
BeforeSwitch == \/ pc \in {"confirm", "swap", "reverify", "swapped"}
                \/ pc = "pick" /\ iter = 0
                \/ Saving /\ after \in {"swap", "reverify", "swapped", "pick"}
CopyCounts ==
    /\ BeforeSwitch => CountedBy(cfg)
    /\ pc = "pick" /\ iter # 0 =>
          strikes.n = 0 \/ NoFallback \/ strikes.slot # cfg.active_slot
    /\ pc = "reverify" \/ (Saving /\ after = "reverify") => strikes.n = 0

\* The hand-over that comes next is counted already.
NextCounts ==
    pc = "jump" \/ (Saving /\ after = "jump") =>
        \/ image[memory_map_other_slot(boot_slot)] = NoImage
        \/ /\ cfg.boot_attempts \in 1 .. MAX_BOOT_ATTEMPTS
           /\ \/ strikes.n = 0
              \/ strikes.slot # boot_slot
              \/ strikes.n < cfg.boot_attempts

RunCounts ==
    pc = "app" => \/ strikes.n = 0
                  \/ /\ strikes.slot = boot_slot /\ strikes.n <= cfg.boot_attempts
                     /\ cfg.boot_attempts <= MAX_BOOT_ATTEMPTS

\* An update is received over an active slot that does not boot.
MenuMeansNoActive == pc \in {"recovery", "ota"} => image[config.active_slot] = NoImage

\* A confirmation ends the count, and is looked at by the next boot.
ConfirmedHasNone ==
    (shared.magic \/ pc \notin {"load", "confirm"}) /\ shared.boot_confirmed =>
        pc \in {"load", "confirm", "app"} /\ strikes.n = 0

CountInv == /\ RecordCounts /\ CopyCounts /\ NextCounts /\ RunCounts
            /\ MenuMeansNoActive /\ ConfirmedHasNone
RollbackInv == IntactInv /\ RecoveryInv /\ RecordInv /\ CountInv

LEMMA RestartCounts ==
    ASSUME CountInv, Restart, UNCHANGED <<config, image, strikes>>,
           shared'.magic /\ shared'.boot_confirmed => strikes.n = 0
    PROVE  CountInv'
BY DEF Restart, CountInv, RecordCounts, CopyCounts, BeforeSwitch, NextCounts, RunCounts,
       MenuMeansNoActive, ConfirmedHasNone, CountedBy, NoFallback, Saving

LEMMA SaveCounts ==
    ASSUME FlashWorks, Isolated, RollbackInv, SaveErase \/ SaveProgram
    PROVE  CountInv'
<1> USE DEF flash, ram, history
<1>1. TypeOK /\ SaveReturns /\ RunsTheRecord /\ NothingLeft /\ CountInv
  BY DEF RollbackInv, RecordInv, RecoveryInv
<1>2. Saving /\ UNCHANGED <<shared, after, cfg, iter, boot_slot>>
  BY DEF SaveErase, SaveProgram, Saving
<1>3. ConfirmedHasNone => ~shared.boot_confirmed
  BY <1>2 DEF ConfirmedHasNone, Saving
<1>4. CASE SaveErase
  <2>1. pc' = "program" /\ Wipe(ErasedBy[CONFIG]) /\ strikes' = strikes
    BY <1>4 DEF SaveErase, Fault, FlashWorks
  <2>2. config' = Torn
    BY <2>1, ErasedByAssumption DEF Wipe, Regions
  <2>3. image' = image
    BY <1>1, <2>1 DEF Wipe, Isolated, TypeOK
  <2> QED
    BY <1>1, <1>2, <1>3, <2>1, <2>2, <2>3
    DEF CountInv, RecordCounts, CopyCounts, BeforeSwitch, NextCounts, RunCounts,
        MenuMeansNoActive, ConfirmedHasNone, CountedBy, NoFallback, Saving
<1>5. CASE SaveProgram
  <2>1. /\ pc = "program" /\ pc' = after /\ config' = cfg /\ UNCHANGED <<image, shared>>
        /\ strikes' = IF cfg.active_slot = strikes.slot THEN strikes ELSE NoStrikes
    BY <1>5 DEF SaveProgram, Fault, FlashWorks
  <2>2. /\ strikes' = strikes \/ strikes'.n = 0
        /\ strikes'.n = 0 \/ strikes'.slot = cfg.active_slot
    BY <2>1 DEF NoStrikes
  <2>3. after \in {"swap", "reverify", "swapped", "pick", "jump", "recovery"}
    BY <1>1, <1>2 DEF SaveReturns
  <2>4. CountedBy(cfg)'
    <3>1. CASE after \in {"swap", "reverify", "swapped", "pick"}
      <4>1. CountedBy(cfg)
        BY <1>1, <1>2, <3>1 DEF CountInv, CopyCounts, BeforeSwitch
      <4> QED
        BY <1>2, <2>1, <2>2, <4>1 DEF CountedBy, NoFallback
    <3>2. CASE after = "jump"
      <4>1. cfg.active_slot = boot_slot /\ boot_slot \in Slots
        BY <1>1, <1>2, <3>2 DEF RunsTheRecord, TypeOK, BootConfig_t
      <4>2. CASE image[memory_map_other_slot(boot_slot)] = NoImage
        BY <2>1, <4>1, <4>2, OtherSlot DEF CountedBy, NoFallback
      <4>3. CASE strikes.n = 0 \/ strikes.slot # boot_slot \/ strikes.n < cfg.boot_attempts
        <5>1. strikes.n \in Nat /\ cfg.boot_attempts \in Nat
          BY <1>1 DEF TypeOK, BootConfig_t, MAX_BOOT_ATTEMPTS
        <5>2. strikes'.n = 0 \/ (strikes'.slot = cfg.active_slot /\ strikes'.n <= cfg.boot_attempts)
          BY <2>2, <4>1, <4>3, <5>1
        <5> QED
          BY <1>2, <5>2 DEF CountedBy
      <4> QED
        BY <1>1, <1>2, <3>2, <4>2, <4>3 DEF CountInv, NextCounts
    <3>3. CASE after = "recovery"
      <4>1. NoFallback
        BY <1>1, <1>2, <3>3 DEF NothingLeft, NoFallback, Slots
      <4> QED
        BY <2>1, <4>1 DEF CountedBy, NoFallback
    <3> QED
      BY <2>3, <3>1, <3>2, <3>3
  <2>5. RecordCounts'
    BY <1>2, <2>1, <2>4 DEF RecordCounts, CountedBy
  <2>6. CopyCounts'
    <3>1. after = "reverify" => strikes'.n = 0
      BY <1>1, <1>2, <2>2 DEF CountInv, CopyCounts
    <3>2. after = "pick" => strikes'.n = 0 \/ NoFallback' \/ iter' = 0
      BY <1>1, <1>2 DEF RollbackInv, RecoveryInv, LoopInv, LoopShort, BeforePick
    <3> QED
      BY <2>1, <2>3, <2>4, <3>1, <3>2 DEF CopyCounts, BeforeSwitch, Saving
  <2>7. NextCounts'
    BY <1>1, <1>2, <2>1, <2>2, <2>3 DEF CountInv, NextCounts, Saving
  <2>8. RunCounts' /\ MenuMeansNoActive'
    <3>1. after = "recovery" => image[cfg.active_slot] = NoImage
      BY <1>1, <1>2 DEF NothingLeft, TypeOK, BootConfig_t
    <3> QED
      BY <2>1, <2>3, <3>1 DEF RunCounts, MenuMeansNoActive
  <2>9. ConfirmedHasNone'
    BY <1>1, <1>3, <2>1, <2>3 DEF CountInv, ConfirmedHasNone
  <2> QED
    BY <2>5, <2>6, <2>7, <2>8, <2>9 DEF CountInv
<1> QED  BY <1>4, <1>5

\* main() up to the choice of the slot.
LEMMA MainCounts ==
    ASSUME RollbackInv,
           \/ Load \/ CheckAppConfirmation \/ NoSwap \/ SwapCommit \/ SwapReverified
           \/ SwapReverted \/ PostSwap
    PROVE  CountInv'
<1> USE DEF flash, ram, history
<1>1. TypeOK /\ CountInv /\ LoopShort
  BY DEF RollbackInv, RecordInv, RecoveryInv, LoopInv
<1> USE <1>1 DEF CountInv, RecordCounts, CopyCounts, BeforeSwitch, NextCounts, RunCounts,
                 MenuMeansNoActive, ConfirmedHasNone, CountedBy, NoFallback, Saving
<1>2. CASE Load
  <2>1. /\ pc = "load" /\ pc' = "confirm" /\ UNCHANGED <<config, image, shared, boot_slot, iter>>
        /\ config # Torn => cfg' = config /\ strikes' = strikes
        /\ config = Torn => strikes'.n = 0
    BY <1>2 DEF Load, NoStrikes
  <2>2. strikes' = strikes \/ strikes'.n = 0
    BY <2>1
  <2> QED  BY <2>1, <2>2
<1>3. CASE CheckAppConfirmation
  <2>1. /\ pc = "confirm" /\ UNCHANGED <<config, image, strikes, iter, boot_slot>>
        /\ pc' \in {"swap", "erase"} /\ (pc' = "erase" => after' = "swap")
        /\ cfg' = cfg \/ strikes.n = 0
    BY <1>3 DEF CheckAppConfirmation, SaveIf, SaveThen
  <2>2. ~shared'.boot_confirmed
    BY <1>3 DEF CheckAppConfirmation, Consumed, TypeOK, SharedBootBlock_t
  <2> QED  BY <2>1, <2>2
<1>4. CASE NoSwap
  <2>1. /\ pc = "swap" /\ pc' = "pick" /\ UNCHANGED <<config, image, strikes, cfg, iter, boot_slot>>
        /\ shared'.boot_confirmed = shared.boot_confirmed
    BY <1>4 DEF NoSwap, TypeOK, SharedBootBlock_t
  <2>2. iter = 0
    BY <2>1 DEF LoopShort, BeforePick
  <2> QED  BY <2>1, <2>2
<1>5. CASE SwapCommit
  <2>1. /\ pc = "swap" /\ pc' = "erase" /\ after' = "reverify" /\ UNCHANGED <<config, image>>
        /\ strikes'.n = 0 /\ shared'.boot_confirmed = shared.boot_confirmed
    BY <1>5 DEF SwapCommit, SaveThen, NoStrikes, TypeOK, SharedBootBlock_t
  <2> QED  BY <2>1
<1>6. CASE SwapReverified
  BY <1>6 DEF SwapReverified
<1>7. CASE SwapReverted
  <2>1. /\ pc = "reverify" /\ pc' = "erase" /\ after' = "swapped"
        /\ UNCHANGED <<config, image, shared, strikes>> /\ strikes.n = 0
    BY <1>7 DEF SwapReverted, SaveThen
  <2> QED  BY <2>1
<1>8. CASE PostSwap
  <2>1. /\ pc = "swapped" /\ pc' \in {"erase", "pick"} /\ (pc' = "erase" => after' = "pick")
        /\ UNCHANGED <<config, image, shared, strikes, cfg, iter, boot_slot>>
    BY <1>8 DEF PostSwap, SaveIf, SaveThen
  <2>2. iter = 0
    BY <2>1 DEF LoopShort, BeforePick
  <2> QED  BY <2>1, <2>2
<1> QED  BY <1>2, <1>3, <1>4, <1>5, <1>6, <1>7, <1>8

\* pick_slot_to_boot() hands the slot that it counts an attempt of, or the only
\* one that boots.
LEMMA PickCounts ==
    ASSUME ReadsWork, RollbackInv, PickActive \/ PickSwitch \/ PickOther \/ PickNothing
    PROVE  CountInv'
<1> USE DEF flash, ram, history
<1>1. TypeOK /\ LoopInv /\ RecordStored /\ CountInv
  BY DEF RollbackInv, RecordInv, RecoveryInv
<1>2. /\ pc = "pick" /\ UNCHANGED <<config, image, shared, strikes>>
      /\ ~shared.boot_confirmed
  BY <1>1 DEF PickActive, PickSwitch, PickOther, PickNothing, Returns, CountInv, ConfirmedHasNone
<1>3. cfg \in BootConfig_t /\ cfg.active_slot \in Slots /\ cfg.boot_attempts \in Nat
  BY <1>1 DEF TypeOK, BootConfig_t
<1>4. strikes.n \in Nat
  BY <1>1 DEF TypeOK, MAX_BOOT_ATTEMPTS
<1>5. iter = 0 \/ cfg.boot_attempts = 0
  BY <1>1, <1>2 DEF LoopInv, LoopShort
<1> DEFINE other == memory_map_other_slot(cfg.active_slot)
<1>6. ASSUME NEW slot \in Slots, Returns(slot, TRUE), NextCounts' PROVE CountInv'
  <2>1. pc' = "erase" /\ after' = "jump"
    BY <1>6, NoSlotAssumption DEF Returns, SaveIf, SaveThen
  <2> QED
    BY <1>1, <1>2, <1>6, <2>1
    DEF CountInv, RecordCounts, CopyCounts, BeforeSwitch, RunCounts, MenuMeansNoActive,
        ConfirmedHasNone, CountedBy, NoFallback, Saving
<1>7. CASE PickActive
  <2>1. /\ image[cfg.active_slot] # NoImage /\ cfg.boot_attempts < MAX_BOOT_ATTEMPTS
        /\ cfg' = Attempted(cfg) /\ Returns(cfg.active_slot, TRUE)
    <3>1. PICK view \in Views : Reads(view) /\ crypto_verify_firmware(view, cfg.active_slot)
      BY <1>7 DEF PickActive
    <3>2. image[cfg.active_slot] # NoImage
      BY <3>1, ReadsAsIs DEF crypto_verify_firmware
    <3>3. cfg.boot_attempts < MAX_BOOT_ATTEMPTS
      BY <1>3, <1>7 DEF PickActive, TooManyAttempts, MAX_BOOT_ATTEMPTS
    <3> QED
      BY <1>7, <3>2, <3>3 DEF PickActive
  <2>2. boot_slot' = cfg.active_slot /\ cfg'.boot_attempts = cfg.boot_attempts + 1
    BY <1>3, <2>1 DEF Returns, Attempted, BootConfig_t
  <2>3. cfg'.boot_attempts \in 1 .. MAX_BOOT_ATTEMPTS
    BY <1>3, <2>1, <2>2 DEF MAX_BOOT_ATTEMPTS
  <2>4. NoFallback => image[other] = NoImage
    BY <1>3, <2>1 DEF NoFallback, Slots, memory_map_other_slot, SLOT_A, SLOT_B
  <2>5. \/ image[other] = NoImage \/ strikes.n = 0 \/ strikes.slot # cfg.active_slot
        \/ strikes.n < cfg'.boot_attempts
    <3>1. CASE iter = 0
      <4>1. CountedBy(cfg)
        BY <1>1, <1>2, <3>1 DEF CountInv, CopyCounts, BeforeSwitch
      <4> QED
        BY <1>3, <1>4, <2>2, <2>4, <4>1 DEF CountedBy
    <3>2. CASE iter # 0
      BY <1>1, <1>2, <2>4, <3>2 DEF CountInv, CopyCounts
    <3> QED
      BY <3>1, <3>2
  <2>6. NextCounts'
    BY <1>2, <2>2, <2>3, <2>5 DEF NextCounts
  <2> QED
    BY <1>3, <1>6, <2>1, <2>6
<1>8. CASE PickSwitch
  <2>1. /\ iter = 0 /\ pc' = "pick" /\ iter' = 1
        /\ cfg' = SwitchedSlot(cfg)
    BY <1>5, <1>8 DEF PickSwitch, TooManyAttempts, MAX_BOOT_ATTEMPTS
  <2>2. cfg'.active_slot # cfg.active_slot
    BY <1>3, <2>1, OtherSlot DEF SwitchedSlot, BootConfig_t
  <2>3. CountedBy(cfg)
    BY <1>1, <1>2, <2>1 DEF CountInv, CopyCounts, BeforeSwitch
  <2>4. CopyCounts'
    BY <1>2, <2>1, <2>2, <2>3 DEF CopyCounts, BeforeSwitch, CountedBy, NoFallback, Saving
  <2> QED
    BY <1>1, <1>2, <2>1, <2>4
    DEF CountInv, RecordCounts, NextCounts, RunCounts, MenuMeansNoActive, ConfirmedHasNone,
        CountedBy, NoFallback, Saving
<1>9. CASE PickOther
  <2>1. image[cfg.active_slot] = NoImage /\ Returns(other, TRUE)
    BY <1>9, ReadsAsIs DEF PickOther, crypto_verify_firmware
  <2>2. boot_slot' = other /\ memory_map_other_slot(other) = cfg.active_slot /\ other \in Slots
    BY <1>3, <2>1, OtherSlot DEF Returns
  <2>3. NextCounts'
    BY <1>2, <2>1, <2>2 DEF NextCounts
  <2> QED
    BY <1>6, <2>1, <2>2, <2>3
<1>10. CASE PickNothing
  <2>1. /\ pc' \in {"recovery", "erase"} /\ (pc' = "erase" => after' = "recovery")
        /\ cfg' = cfg
    BY <1>10 DEF PickNothing, Returns, SaveIf, SaveThen
  <2>2. \A s \in Slots : image[s] = NoImage
    BY <1>1, <1>10, GivesUp
  <2>3. image[config.active_slot] = NoImage
    BY <1>1, <1>2, <2>2 DEF RecordStored, TypeOK, BootConfig_t
  <2> QED
    BY <1>1, <1>2, <2>1, <2>2, <2>3
    DEF CountInv, RecordCounts, CopyCounts, BeforeSwitch, NextCounts, RunCounts,
        MenuMeansNoActive, ConfirmedHasNone, CountedBy, NoFallback, Saving
<1> QED  BY <1>7, <1>8, <1>9, <1>10

LEMMA JumpCounts ==
    ASSUME RollbackInv, Jump
    PROVE  CountInv'
<1> USE DEF flash, ram, history
<1>1. TypeOK /\ RunsTheRecord /\ CountInv
  BY DEF RollbackInv, RecordInv
<1>2. /\ pc = "jump" /\ pc' = "app" /\ UNCHANGED <<config, image, shared, cfg, boot_slot>>
      /\ config = cfg /\ cfg.active_slot = boot_slot
  BY <1>1 DEF Jump, RunsTheRecord
<1>3. strikes \in [slot : Slots \cup {NoSlot}, n : 0 .. MAX_BOOT_ATTEMPTS + 1]
  BY <1>1 DEF TypeOK
<1>4. RunCounts'
  <2>1. CASE image[memory_map_other_slot(boot_slot)] = NoImage
    BY <1>2, <2>1 DEF Jump, RunCounts, NoStrikes
  <2>2. CASE image[memory_map_other_slot(boot_slot)] # NoImage
    <3>1. /\ cfg.boot_attempts \in 1 .. MAX_BOOT_ATTEMPTS
          /\ strikes.n = 0 \/ strikes.slot # boot_slot \/ strikes.n < cfg.boot_attempts
      BY <1>1, <1>2, <2>2 DEF CountInv, NextCounts
    <3>2. /\ strikes.slot # boot_slot => strikes' = [slot |-> boot_slot, n |-> 1]
          /\ strikes.slot = boot_slot =>
               strikes' = [strikes EXCEPT !.n = IF strikes.n <= MAX_BOOT_ATTEMPTS
                                                THEN strikes.n + 1 ELSE strikes.n]
      BY <2>2 DEF Jump
    <3>3. strikes'.slot = boot_slot /\ strikes'.n <= cfg.boot_attempts
      BY <1>3, <3>1, <3>2 DEF MAX_BOOT_ATTEMPTS
    <3> QED
      BY <1>2, <3>1, <3>3 DEF RunCounts, MAX_BOOT_ATTEMPTS
  <2> QED  BY <2>1, <2>2
<1>5. ~shared.boot_confirmed
  BY <1>1, <1>2 DEF CountInv, ConfirmedHasNone
<1> QED
  BY <1>2, <1>4, <1>5
  DEF CountInv, RecordCounts, CopyCounts, BeforeSwitch, NextCounts, RunCounts,
      MenuMeansNoActive, ConfirmedHasNone, CountedBy, Saving

LEMMA AppCounts ==
    ASSUME RecordApart, RollbackInv, App \/ AppCrash
    PROVE  CountInv'
<1> USE DEF flash, ram, history
<1>1. TypeOK /\ RunsTheRecord /\ CountInv
  BY DEF RollbackInv, RecordInv
<1>2. /\ pc = "app" /\ config = cfg /\ cfg.active_slot = boot_slot
  BY <1>1 DEF App, AppAlive, AppConfirm, AppStageErase, AppStageImage, AppRequestSwap, AppReboot,
              AppCrash, RunsTheRecord
<1>3. shared.boot_confirmed => strikes.n = 0
  BY <1>1, <1>2 DEF CountInv, ConfirmedHasNone
<1>4. ASSUME UNCHANGED <<config, pc, cfg, boot_slot>>,
             strikes' = strikes \/ strikes'.n = 0,
             shared'.boot_confirmed => strikes'.n = 0
      PROVE  CountInv'
  BY <1>1, <1>2, <1>4
  DEF CountInv, RecordCounts, CopyCounts, BeforeSwitch, NextCounts, RunCounts,
      MenuMeansNoActive, ConfirmedHasNone, CountedBy, Saving
<1>5. CASE AppConfirm
  BY <1>4, <1>5 DEF AppConfirm, NoStrikes
<1>6. CASE AppRequestSwap
  BY <1>3, <1>4, <1>6 DEF AppRequestSwap, TypeOK, SharedBootBlock_t
<1>7. CASE AppStageImage
  BY <1>3, <1>4, <1>7 DEF AppStageImage
<1>8. CASE AppStageErase
  <2>1. memory_map_other_slot(boot_slot) \in Slots
    BY <1>1, <1>2, OtherSlot DEF TypeOK, BootConfig_t
  <2>2. config' = config
    BY <1>8, <2>1, RecordKept DEF AppStageErase
  <2> QED
    BY <1>3, <1>4, <1>8, <2>2 DEF AppStageErase
<1>9. CASE AppReboot \/ AppCrash
  BY <1>1, <1>3, <1>9, RestartCounts DEF AppReboot, AppCrash
<1> QED  BY <1>5, <1>6, <1>7, <1>8, <1>9 DEF App

LEMMA MenuCounts ==
    ASSUME FlashWorks, RecordApart, RollbackInv, Recovery
    PROVE  CountInv'
<1> USE DEF flash, ram, history
<1>1. TypeOK /\ RecordStored /\ TransferTarget /\ CountInv
  BY DEF RollbackInv, RecordInv
<1>2. /\ pc \in {"recovery", "ota"} /\ UNCHANGED strikes
      /\ config # Torn /\ config \in BootConfig_t /\ config.active_slot \in Slots
      /\ image[config.active_slot] = NoImage
  BY <1>1 DEF Recovery, RecoveryUpdate, OtaStart, OtaData, OtaEnd, OtaGiveUp, RecoveryReboot,
              RecordStored, TypeOK, BootConfig_t, CountInv, MenuMeansNoActive
<1>3. ~shared.boot_confirmed
  BY <1>1, <1>2 DEF CountInv, ConfirmedHasNone
<1>4. ASSUME pc' \in {"recovery", "ota"}, UNCHANGED <<config, shared>>,
             image'[config.active_slot] = NoImage
      PROVE  CountInv'
  BY <1>2, <1>3, <1>4
  DEF CountInv, RecordCounts, CopyCounts, BeforeSwitch, NextCounts, RunCounts,
      MenuMeansNoActive, ConfirmedHasNone, CountedBy, NoFallback, Saving
<1>5. CASE RecoveryUpdate \/ OtaGiveUp
  BY <1>2, <1>4, <1>5 DEF RecoveryUpdate, OtaGiveUp
<1>6. CASE OtaStart
  <2>1. PICK view \in Views : Reads(view) /\ Wipe(ErasedBy[OtaTarget(view)])
    BY <1>6 DEF OtaStart, Fault, FlashWorks
  <2>2. OtaTarget(view) \in Slots
    BY <1>2, OtherSlot DEF OtaTarget, Loaded
  <2>3. config' = config
    BY <2>1, <2>2, RecordKept
  <2>4. image'[config.active_slot] = NoImage
    BY <1>2, <2>1 DEF Wipe
  <2> QED
    BY <1>2, <1>4, <1>6, <2>3, <2>4 DEF OtaStart
<1>7. CASE OtaData
  <2>1. /\ UNCHANGED <<config, shared, pc>> /\ g_state # NoSlot
        /\ \E version \in Versions : image' = [image EXCEPT ![g_state] = version]
    BY <1>7 DEF OtaData
  <2>2. g_state # config.active_slot
    BY <1>1, <1>2, <2>1, OtherSlot DEF TransferTarget
  <2>3. image'[config.active_slot] = NoImage
    BY <1>1, <1>2, <2>1, <2>2 DEF TypeOK
  <2> QED
    BY <1>2, <1>4, <2>1, <2>3
<1>8. CASE OtaEnd \/ RecoveryReboot
  <2>1. /\ Restart /\ UNCHANGED <<config, image, strikes>> /\ ~shared'.boot_confirmed
    BY <1>3, <1>8 DEF OtaEnd, RecoveryReboot
  <2> QED
    BY <1>1, <2>1, RestartCounts
<1> QED  BY <1>5, <1>6, <1>7, <1>8 DEF Recovery

LEMMA ResetCounts ==
    ASSUME RollbackInv, PinReset \/ PowerLoss
    PROVE  CountInv'
<1> USE DEF flash, ram, history
<1>1. CountInv
  BY DEF RollbackInv
<1>2. Restart /\ UNCHANGED <<config, image, strikes>>
  BY DEF PinReset, PowerLoss
<1>3. shared'.magic /\ shared'.boot_confirmed => strikes.n = 0
  BY <1>1 DEF PinReset, PowerLoss, ColdSram, CountInv, ConfirmedHasNone
<1> QED  BY <1>1, <1>2, <1>3, RestartCounts

\* RollbackBound: when flash works and its erases stay in their own region, no
\* interleaving of resets, confirmations, updates and swaps gives a slot, while
\* there is another image, one more hand-over without a confirmation than the
\* comparison of pick_slot_to_boot() allows.
THEOREM RollbackIsBounded ==
    ASSUME FlashWorks, ReadsWork, Isolated, RecordApart
    PROVE  Spec => []RollbackBound
<1>1. Init => RollbackInv
  BY InitType
  DEF Init, RollbackInv, IntactInv, RecoveryInv, LoopInv, RecordInv, SaveReturns, HandsOverIntact,
      HandingOver, LoopShort, BeforePick, NothingLeft, RecordStored, RunsTheRecord,
      TransferTarget, CountInv, RecordCounts, CopyCounts, BeforeSwitch, NextCounts, RunCounts,
      MenuMeansNoActive, ConfirmedHasNone, CountedBy, NoStrikes, Saving, ColdSram
<1>2. RollbackInv /\ [Next]_vars => RollbackInv'
  <2> SUFFICES ASSUME RollbackInv, [Next]_vars PROVE RollbackInv'
    OBVIOUS
  <2>1. IntactInv' /\ RecoveryInv'
    BY NextType, SaveReturnsStep, HandsOverIntactStep, LoopShortStep, NothingLeftStep
    DEF RollbackInv, IntactInv, RecoveryInv, LoopInv
  <2>2. RecordInv'
    BY RecordStep DEF RollbackInv
  <2>3. CountInv'
    <3>1. CASE Boot
      BY <3>1, SaveCounts, MainCounts, PickCounts, JumpCounts DEF Boot
    <3>2. CASE App \/ AppCrash \/ Recovery
      BY <3>2, AppCounts, MenuCounts
    <3>3. CASE PinReset \/ PowerLoss
      BY <3>3, ResetCounts
    <3>4. CASE UNCHANGED vars
      BY <3>4
      DEF vars, flash, ram, history, RollbackInv, CountInv, RecordCounts, CopyCounts,
          BeforeSwitch, NextCounts, RunCounts, MenuMeansNoActive, ConfirmedHasNone,
          CountedBy, NoFallback, Saving
    <3> QED
      BY <3>1, <3>2, <3>3, <3>4 DEF Next
  <2> QED
    BY <2>1, <2>2, <2>3 DEF RollbackInv
<1>3. RollbackInv => RollbackBound
  <2> SUFFICES ASSUME RollbackInv, pc = "app", strikes.n > 0
               PROVE  ~TooManyAttempts([cfg EXCEPT !.boot_attempts = strikes.n - 1])
    BY DEF RollbackBound
  <2> DEFINE more == [cfg EXCEPT !.boot_attempts = strikes.n - 1]
  <2>1. cfg \in BootConfig_t /\ strikes.n \in Nat
    BY DEF RollbackInv, IntactInv, TypeOK, MAX_BOOT_ATTEMPTS
  <2>2. strikes.n <= MAX_BOOT_ATTEMPTS
    BY <2>1 DEF RollbackInv, CountInv, RunCounts, BootConfig_t, MAX_BOOT_ATTEMPTS
  <2>3. more.boot_attempts = strikes.n - 1
    BY <2>1 DEF BootConfig_t
  <2> HIDE DEF more
  <2>4. ~TooManyAttempts(more)
    BY <2>1, <2>2, <2>3 DEF TooManyAttempts, MAX_BOOT_ATTEMPTS
  <2> QED
    BY <2>4 DEF more
<1> QED  BY <1>1, <1>2, <1>3, PTL DEF Spec
=============================================================================
