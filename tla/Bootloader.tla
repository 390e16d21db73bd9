------------------------------ MODULE Bootloader ------------------------------
(***************************************************************************)
(* The life of the device: the boot sequence of bootloader/src/main.c, the *)
(* writes of boot_config_save(), the application it hands over to, the     *)
(* recovery menu with the OTA receiver seen from its flash effects, and    *)
(* the resets, power losses and flash faults that interrupt them.          *)
(*                                                                         *)
(* Each action is one handler, or one part of a handler between two flash  *)
(* operations, so that a reset can fall between any two of them.           *)
(***************************************************************************)
EXTENDS BootConfig

CONSTANTS
    Versions,    \* versions of the signed images that exist
    Crashing,    \* those that reset before the application confirms its boot
    ErasedBy,    \* ErasedBy[r]: the regions that an erase of region r wipes
    Torn,        \* the config sector when its record does not validate
    NoSlot,      \* slot 0 of main(), or no transfer in progress
    Faults,      \* kinds of adverse events that may happen
    MaxFaults    \* bound on the number of adverse events

FaultKinds == {"power", "reset", "flash", "read"}

ASSUME VersionsAssumption == Versions \subseteq Nat
ASSUME ErasedByAssumption == /\ ErasedBy \in [Regions -> SUBSET Regions]
                             /\ \A r \in Regions : r \in ErasedBy[r]
ASSUME TornAssumption     == Torn \notin BootConfig_t
ASSUME NoSlotAssumption   == NoSlot \notin Slots
ASSUME FaultsAssumption   == Faults \subseteq FaultKinds /\ MaxFaults \in Nat

MAX_SWAP_RETRIES  == 4
MAX_BOOT_ATTEMPTS == 3

VARIABLES
    config,      \* flash: the record in the config sector, or Torn
    image,       \* flash: what verifies in each slot
    shared,      \* SRAM kept over a reset: SHARED_BOOT_BLOCK, magic as validity
    pc,          \* what the device is doing
    after,       \* where main() goes on after boot_config_save()
    cfg,         \* RAM: cfg of main()
    cfg_dirty,   \* RAM: cfg_dirty of main()
    iter,        \* RAM: loop counter of pick_slot_to_boot()
    boot_slot,   \* RAM: boot_slot of main(); then the slot that runs
    g_state,     \* RAM: the slot an OTA transfer is writing, or NoSlot
    faults,      \* adverse events so far
    credit,      \* history: the application confirmed, and it was not counted
    requested,   \* history: a swap was asked for, and not looked at yet
    promised,    \* history: floor of the last record written since a torn one
    strikes      \* history: unconfirmed hand-overs to the slot that the record names

flash   == <<config, image>>
ram     == <<after, cfg, cfg_dirty, iter, boot_slot, g_state>>
history == <<credit, requested, promised, strikes>>
vars    == <<flash, shared, pc, ram, faults, history>>

\* The places main() reaches, in order, from the reset ("load"); "erase" and
\* "program" are the two halves of boot_config_save().
PCs == {"load", "confirm", "swap", "reverify", "swapped", "pick", "jump",
        "erase", "program", "app", "recovery", "ota"}

SharedBootBlock_t == [magic : BOOLEAN, boot_confirmed : BOOLEAN, ota_pending : BOOLEAN]

NoStrikes == [slot |-> NoSlot, n |-> 0]

\* The counts of attempts that a new device may come with: any, and beyond the
\* maximum they are all alike.  The bootloader counts no further.
FactoryAttempts == 0 .. MAX_BOOT_ATTEMPTS + 1
AttemptsInRange ==
    /\ cfg.boot_attempts \in FactoryAttempts
    /\ config # Torn => config.boot_attempts \in FactoryAttempts

TypeOK ==
    /\ config \in BootConfig_t \cup {Torn}
    /\ image \in [Slots -> Versions \cup {NoImage}]
    /\ shared \in SharedBootBlock_t
    /\ pc \in PCs
    /\ after \in PCs
    /\ cfg \in BootConfig_t
    /\ AttemptsInRange
    /\ cfg_dirty \in BOOLEAN
    /\ iter \in 0 .. MAX_SWAP_RETRIES
    /\ boot_slot \in Slots \cup {NoSlot}
    /\ g_state \in Slots \cup {NoSlot}
    /\ faults \in 0 .. MaxFaults
    /\ credit \in BOOLEAN
    /\ requested \in BOOLEAN
    /\ promised \in Nat
    /\ strikes \in [slot : Slots \cup {NoSlot}, n : 0 .. MAX_BOOT_ATTEMPTS + 1]

-----------------------------------------------------------------------------
(* Adverse events.                                                         *)

Fault(kind) == /\ kind \in Faults
               /\ faults < MaxFaults
               /\ faults' = faults + 1

\* A handler verifies the slots as they are, or transient read errors make
\* good images fail this time.
Misread(bad) == [s \in Slots |-> IF s \in bad THEN NoImage ELSE image[s]]
Views        == {Misread(bad) : bad \in SUBSET Slots}

Reads(view) == \/ view = image /\ UNCHANGED faults
               \/ view # image /\ view \in Views /\ Fault("read")

\* An erase that wipes the given regions.
Wipe(regions) ==
    /\ config' = IF CONFIG \in regions THEN Torn ELSE config
    /\ image'  = [s \in Slots |-> IF s \in regions THEN NoImage ELSE image[s]]

-----------------------------------------------------------------------------
(* boot_config_load() and boot_config_save().                              *)

Loaded(view) == IF config # Torn THEN config
                ELSE boot_config_recover_from_slots(boot_config_default, view)

SaveThen(next)        == pc' = "erase" /\ after' = next
SaveIf(dirty, next)   == IF dirty THEN SaveThen(next) ELSE pc' = next /\ UNCHANGED after

\* Steps 1 to 4 of boot_config_save().  The record validates only once its
\* CRC word is written, at the end.  save_or_warn() goes on whatever happened.
SaveErase ==
    /\ pc = "erase"
    /\ \/ /\ Wipe(ErasedBy[CONFIG])
          /\ pc' = "program"
          /\ UNCHANGED faults
       \/ /\ Fault("flash")
          /\ \E wiped \in SUBSET ErasedBy[CONFIG] : Wipe(wiped)
          /\ pc' = after
    /\ UNCHANGED <<shared, ram, history>>

SaveProgram ==
    /\ pc = "program"
    /\ \/ /\ config' = cfg
          /\ promised' = boot_config_antidowngrade_floor(cfg)
          /\ UNCHANGED faults
          /\ strikes' = IF cfg.active_slot = strikes.slot THEN strikes ELSE NoStrikes
       \/ /\ Fault("flash")
          /\ UNCHANGED <<config, promised, strikes>>
    /\ pc' = after
    /\ UNCHANGED <<image, shared, ram, credit, requested>>

-----------------------------------------------------------------------------
(* main(), in the order it runs.                                           *)

Load ==
    /\ pc = "load"
    /\ \/ config # Torn /\ cfg' = config /\ UNCHANGED faults
       \/ config = Torn /\ \E view \in Views : Reads(view) /\ cfg' = Loaded(view)
    /\ cfg_dirty' = (config = Torn)
    /\ promised'  = IF config = Torn THEN 0 ELSE promised
    /\ strikes'   = IF config = Torn THEN NoStrikes ELSE strikes
    /\ pc' = "confirm"
    /\ UNCHANGED <<flash, shared, after, iter, boot_slot, g_state, credit, requested>>

\* check_app_confirmation(), then the first save of main().
ConsumedMagicOnly(block) == [block EXCEPT !.magic = TRUE]                 \* mutated form
ConsumedEverything(block) == [magic |-> TRUE, boot_confirmed |-> FALSE,
                              ota_pending |-> FALSE]                     \* mutated form
Consumed(block) == [block EXCEPT !.boot_confirmed = FALSE, !.magic = TRUE]

Confirmed(c) == [c EXCEPT !.boot_attempts  = 0,
                          !.last_good_boot = IF @ = LastGoodMod - 1 THEN 0 ELSE @ + 1]

CheckAppConfirmation ==
    /\ pc = "confirm"
    /\ LET confirmed == shared.magic /\ shared.boot_confirmed
       IN  /\ cfg'    = IF confirmed THEN Confirmed(cfg) ELSE cfg
           /\ credit' = IF confirmed THEN FALSE ELSE credit
           /\ SaveIf(cfg_dirty \/ confirmed, "swap")
    /\ shared' = Consumed(shared)
    /\ cfg_dirty' = FALSE
    /\ UNCHANGED <<flash, iter, boot_slot, g_state, faults, requested, promised, strikes>>

\* process_ota_pending_swap() up to its first save.  The record of the new
\* active slot and the switch to it go to flash together.
Swapped(c, slot, version) ==
    [boot_config_record_ota_to_slot(c, slot, version)
        EXCEPT !.active_slot = slot, !.boot_attempts = 0]

SwapAnyVersion(view) ==                                                   \* mutated form
    crypto_verify_firmware(view, memory_map_other_slot(cfg.active_slot))

SwapAllowed(view) ==
    LET inactive == memory_map_other_slot(cfg.active_slot)
    IN  /\ crypto_verify_firmware(view, inactive)
        /\ boot_config_firmware_allowed(cfg, view[inactive])

NoSwap ==
    /\ pc = "swap"
    /\ \/ ~shared.ota_pending /\ UNCHANGED faults
       \/ /\ shared.ota_pending
          /\ \E view \in Views : Reads(view) /\ ~SwapAllowed(view)
    /\ shared' = [shared EXCEPT !.ota_pending = FALSE]
    /\ requested' = FALSE
    /\ pc' = "pick"
    /\ UNCHANGED <<flash, ram, credit, promised, strikes>>

SwapCommit ==
    /\ pc = "swap"
    /\ shared.ota_pending
    /\ \E view \in Views : Reads(view) /\ SwapAllowed(view)
    /\ LET inactive == memory_map_other_slot(cfg.active_slot)
       IN  cfg' = Swapped(cfg, inactive, image[inactive])
    /\ shared' = [shared EXCEPT !.ota_pending = FALSE]
    /\ cfg_dirty' = TRUE
    /\ requested' = FALSE
    /\ strikes' = NoStrikes
    /\ SaveThen("reverify")
    /\ UNCHANGED <<flash, iter, boot_slot, g_state, credit, promised>>

\* The re-verification after the commit.  old_active is the other slot: the
\* commit has just moved active_slot away from it.
SwapReverified ==
    /\ pc = "reverify"
    /\ \E view \in Views : Reads(view) /\ crypto_verify_firmware(view, cfg.active_slot)
    /\ pc' = "swapped"
    /\ UNCHANGED <<flash, shared, ram, history>>

SwapReverted ==
    /\ pc = "reverify"
    /\ \E view \in Views : Reads(view) /\ ~crypto_verify_firmware(view, cfg.active_slot)
    /\ cfg' = [cfg EXCEPT !.active_slot = memory_map_other_slot(@)]
    /\ SaveThen("swapped")
    /\ UNCHANGED <<flash, shared, cfg_dirty, iter, boot_slot, g_state, history>>

\* The save of main() after the swap.
PostSwap ==
    /\ pc = "swapped"
    /\ SaveIf(cfg_dirty, "pick")
    /\ cfg_dirty' = FALSE
    /\ UNCHANGED <<flash, shared, cfg, iter, boot_slot, g_state, faults, history>>

\* pick_slot_to_boot(), one iteration of its loop per step, then the last
\* save of main(): Returns is the return from the loop.
Returns(slot, dirty) ==
    /\ boot_slot' = slot
    /\ cfg_dirty' = dirty
    /\ SaveIf(dirty, IF slot = NoSlot THEN "recovery" ELSE "jump")
    /\ UNCHANGED <<flash, shared, iter, g_state, history>>

NotAttempted(c)        == c                                               \* mutated form
SwitchedNoReset(c)     == [c EXCEPT !.active_slot = memory_map_other_slot(@)] \* mutated form
ExactlyMaxAttempts(c)  == c.boot_attempts = MAX_BOOT_ATTEMPTS             \* mutated form

Attempted(c)      == [c EXCEPT !.boot_attempts = @ + 1]
SwitchedSlot(c)   == [c EXCEPT !.active_slot   = memory_map_other_slot(@),
                               !.boot_attempts = 0]
TooManyAttempts(c) == c.boot_attempts >= MAX_BOOT_ATTEMPTS

PickActive ==
    /\ pc = "pick" /\ iter < MAX_SWAP_RETRIES
    /\ \E view \in Views : Reads(view) /\ crypto_verify_firmware(view, cfg.active_slot)
    /\ ~TooManyAttempts(cfg)
    /\ cfg' = Attempted(cfg)
    /\ Returns(cfg.active_slot, TRUE)

\* Mutated form: the slot it switches to is booted, not verified again.
PickSwitchAndReturn ==
    /\ pc = "pick" /\ iter < MAX_SWAP_RETRIES
    /\ \E view \in Views : Reads(view) /\ crypto_verify_firmware(view, cfg.active_slot)
    /\ TooManyAttempts(cfg)
    /\ cfg' = SwitchedSlot(cfg)
    /\ Returns(memory_map_other_slot(cfg.active_slot), TRUE)

PickSwitch ==
    /\ pc = "pick" /\ iter < MAX_SWAP_RETRIES
    /\ \E view \in Views : Reads(view) /\ crypto_verify_firmware(view, cfg.active_slot)
    /\ TooManyAttempts(cfg)
    /\ cfg' = SwitchedSlot(cfg)
    /\ cfg_dirty' = TRUE
    /\ iter' = iter + 1
    /\ UNCHANGED <<flash, shared, pc, after, boot_slot, g_state, history>>

PickOther ==
    /\ pc = "pick" /\ iter < MAX_SWAP_RETRIES
    /\ LET other == memory_map_other_slot(cfg.active_slot)
       IN  /\ \E view \in Views : /\ Reads(view)
                                  /\ ~crypto_verify_firmware(view, cfg.active_slot)
                                  /\ crypto_verify_firmware(view, other)
           /\ cfg' = SwitchedSlot(cfg)
           /\ Returns(other, TRUE)

\* Mutated form: the other slot is not tried.
PickNothingEarly ==
    /\ pc = "pick"
    /\ ~crypto_verify_firmware(image, cfg.active_slot)
    /\ UNCHANGED <<cfg, faults>>
    /\ Returns(NoSlot, cfg_dirty)

\* Both slots fail, or the loop runs out.
PickNothing ==
    /\ pc = "pick"
    /\ \/ /\ iter < MAX_SWAP_RETRIES
          /\ \E view \in Views : /\ Reads(view)
                                 /\ \A s \in Slots : ~crypto_verify_firmware(view, s)
       \/ iter = MAX_SWAP_RETRIES /\ UNCHANGED faults
    /\ UNCHANGED cfg
    /\ Returns(NoSlot, cfg_dirty)

\* bootloader_jump_to_application().  Hand-overs count as strikes only while
\* there is another image to fall back on.
Jump ==
    /\ pc = "jump"
    /\ pc' = "app"
    /\ strikes' =
         IF image[memory_map_other_slot(boot_slot)] = NoImage THEN NoStrikes
         ELSE IF strikes.slot # boot_slot THEN [slot |-> boot_slot, n |-> 1]
         ELSE [strikes EXCEPT !.n = IF @ <= MAX_BOOT_ATTEMPTS THEN @ + 1 ELSE @]
    /\ UNCHANGED <<flash, shared, ram, faults, credit, requested, promised>>

-----------------------------------------------------------------------------
(* The application, which is external to the bootloader but for its calls  *)
(* of application/include/bootloader_api.h.                                *)

\* It runs as long as its image is whole; the ones in Crashing do nothing
\* before they reset.
AppAlive == /\ pc = "app"
            /\ image[boot_slot] \in Versions \ Crashing

\* bootloader_confirm_boot()
AppConfirm ==
    /\ AppAlive
    /\ shared' = [shared EXCEPT !.magic = TRUE, !.boot_confirmed = TRUE]
    /\ credit'  = TRUE
    /\ strikes' = NoStrikes
    /\ UNCHANGED <<flash, pc, ram, faults, requested, promised>>

\* An application that downloads an update "via its own protocol" erases the
\* slot it does not run from, writes a signed image there...
AppStageErase ==
    /\ AppAlive
    /\ Wipe(ErasedBy[memory_map_other_slot(boot_slot)])
    /\ UNCHANGED <<shared, pc, ram, faults, history>>

AppStageImage ==
    /\ AppAlive
    /\ image[memory_map_other_slot(boot_slot)] = NoImage
    /\ \E version \in Versions :
          image' = [image EXCEPT ![memory_map_other_slot(boot_slot)] = version]
    /\ UNCHANGED <<config, shared, pc, ram, faults, history>>

\* ...and calls bootloader_request_ota_swap().
AppRequestSwap ==
    /\ AppAlive
    /\ shared' = [shared EXCEPT !.magic = TRUE, !.ota_pending = TRUE]
    /\ requested' = TRUE
    /\ UNCHANGED <<flash, pc, ram, faults, credit, promised, strikes>>

-----------------------------------------------------------------------------
(* recovery_mode_run() and the OTA receiver.                               *)

RecoveryUpdate ==
    /\ pc = "recovery"
    /\ pc' = "ota"
    /\ g_state' = NoSlot
    /\ UNCHANGED <<flash, shared, after, cfg, cfg_dirty, iter, boot_slot, faults, history>>

\* START: the target is the slot that is not active in the config as flash
\* has it now.  An erase that fails leaves the transfer as it was.
OtaTargetOfDefault(view) ==                                               \* mutated form
    memory_map_other_slot(boot_config_default.active_slot)
OtaTarget(view) == memory_map_other_slot(Loaded(view).active_slot)

OtaStart ==
    /\ pc = "ota"
    /\ \/ \E view \in Views : /\ Reads(view)
                              /\ Wipe(ErasedBy[OtaTarget(view)])
                              /\ g_state' = OtaTarget(view)
       \/ /\ Fault("flash")
          /\ \E wiped \in SUBSET ErasedBy[OtaTarget(image)] : Wipe(wiped)
          /\ UNCHANGED g_state
    /\ UNCHANGED <<shared, pc, after, cfg, cfg_dirty, iter, boot_slot, history>>

\* The DATA frame that completes a signed image in the target.
OtaData ==
    /\ pc = "ota"
    /\ g_state # NoSlot
    /\ image[g_state] = NoImage
    /\ \E version \in Versions : image' = [image EXCEPT ![g_state] = version]
    /\ UNCHANGED <<config, shared, pc, ram, faults, history>>

\* The end of every run: RAM is lost and the bootloader starts over.
Restart ==
    /\ pc'        = "load"
    /\ after'     = "load"
    /\ cfg'       = boot_config_default
    /\ cfg_dirty' = FALSE
    /\ iter'      = 0
    /\ boot_slot' = NoSlot
    /\ g_state'   = NoSlot

\* END, accepted: it requests the swap and resets.  Refused, it changes
\* nothing, and the image stays in the slot.
OtaEnd ==
    /\ pc = "ota"
    /\ g_state # NoSlot
    /\ \E view \in Views :
          /\ Reads(view)
          /\ crypto_verify_firmware(view, g_state)
          /\ boot_config_firmware_allowed(Loaded(view), view[g_state])
    /\ shared' = [magic |-> TRUE, boot_confirmed |-> FALSE, ota_pending |-> TRUE]
    /\ requested' = TRUE
    /\ Restart
    /\ UNCHANGED <<flash, credit, promised, strikes>>

\* ABORT, or sixteen errors in a row.
OtaGiveUp ==
    /\ pc = "ota"
    /\ pc' = "recovery"
    /\ UNCHANGED <<flash, shared, ram, faults, history>>

RecoveryReboot ==
    /\ pc = "recovery"
    /\ Restart
    /\ UNCHANGED <<flash, shared, faults, history>>

-----------------------------------------------------------------------------
(* Resets.                                                                 *)

\* The watchdog, a fault handler or a jump into erased flash.
AppCrash ==
    /\ pc = "app"
    /\ ~AppAlive
    /\ Restart
    /\ UNCHANGED <<flash, shared, faults, history>>

AppReboot ==
    /\ AppAlive
    /\ Restart
    /\ UNCHANGED <<flash, shared, faults, history>>

\* The reset pin, at any moment.  SRAM keeps its contents.
PinReset ==
    /\ Fault("reset")
    /\ Restart
    /\ UNCHANGED <<flash, shared, history>>

\* SRAM comes back with anything but the magic number.
ColdSram == {block \in SharedBootBlock_t : ~block.magic}

PowerLoss ==
    /\ Fault("power")
    /\ Restart
    /\ shared' \in ColdSram
    /\ credit' = FALSE
    /\ requested' = FALSE
    /\ UNCHANGED <<flash, promised, strikes>>

-----------------------------------------------------------------------------
\* A device as tools/flash_layout.py makes it: the config sector blank, or a
\* default record with either slot active and any number of attempts; an image
\* or none in each slot.
FactoryConfig   ==
    \/ config = Torn
    \/ \E s \in Slots, n \in FactoryAttempts :
          config = [boot_config_default EXCEPT !.active_slot = s, !.boot_attempts = n]

Init ==
    /\ FactoryConfig
    /\ image \in [Slots -> Versions \cup {NoImage}]
    /\ shared \in ColdSram
    /\ pc = "load"
    /\ after = "load"
    /\ cfg = boot_config_default
    /\ cfg_dirty = FALSE
    /\ iter = 0
    /\ boot_slot = NoSlot
    /\ g_state = NoSlot
    /\ faults = 0
    /\ credit = FALSE
    /\ requested = FALSE
    /\ promised = 0
    /\ strikes = NoStrikes

Boot == \/ Load \/ CheckAppConfirmation
        \/ NoSwap \/ SwapCommit \/ SwapReverified \/ SwapReverted \/ PostSwap
        \/ PickActive \/ PickSwitch \/ PickOther \/ PickNothing
        \/ SaveErase \/ SaveProgram \/ Jump

App == AppConfirm \/ AppStageErase \/ AppStageImage \/ AppRequestSwap \/ AppReboot

Recovery == RecoveryUpdate \/ OtaStart \/ OtaData \/ OtaEnd \/ OtaGiveUp \/ RecoveryReboot

Next == Boot \/ App \/ AppCrash \/ Recovery \/ PinReset \/ PowerLoss

Spec == Init /\ [][Next]_vars

\* The processor runs the bootloader, and the watchdog ends an application
\* that does not run.  Nobody has to press a key or to reset the device.
FairSpec == Spec /\ WF_vars(Boot) /\ WF_vars(AppCrash)

-----------------------------------------------------------------------------
(* Properties.                                                             *)

\* The application that runs has a whole, verified image under it: nothing
\* between the verification of its slot in pick_slot_to_boot() and its last
\* instruction wipes it, the last save before the jump, the staging of an
\* update and the resets included.
AppImageIntact == pc = "app" => image[boot_slot] # NoImage

\* The anti-downgrade floor of the stored record never goes down, over swaps,
\* reverts, rollbacks, resets and failed writes; only a torn record, which
\* boot_config_recover_from_slots() rebuilds, starts a new count.
FloorNeverDrops == [][promised' >= promised \/ (pc = "load" /\ config = Torn)]_vars

\* MAX_SWAP_RETRIES is a "backstop only": pick_slot_to_boot() decides in its
\* first or second iteration.
CapIsBackstop == pc = "pick" => iter <= 1

\* "A stale value cannot survive into a future boot": the shared block says
\* that a boot was confirmed only if the application did so since a
\* confirmation was last counted, whatever SRAM held at power-on.
NoStaleConfirmation == shared.magic /\ shared.boot_confirmed => credit

\* The next reset judges this boot by what is stored: from the hand-over on,
\* flash holds the record that pick_slot_to_boot() has made, which names the
\* slot that is booted.  At the hand-over it also counts the attempt, as long
\* as the other slot holds an image to fall back on.  (The fallback to the
\* other slot of the record, lines 193-197 of main.c, stores no attempt.)
ConfigMatchesRunningApp ==
    /\ pc \in {"jump", "app"} => config = cfg /\ cfg.active_slot = boot_slot
    /\ pc = "jump" => \/ cfg.boot_attempts \in 1 .. MAX_BOOT_ATTEMPTS
                      \/ image[memory_map_other_slot(boot_slot)] = NoImage

\* With an image in the other slot to fall back on, no slot gets one more
\* hand-over when those that nobody has confirmed, from the moment the record
\* names it (or a swap to it is committed) until it names the other one, are as
\* many as pick_slot_to_boot() accepts: no reset, failed save or update makes it
\* count fewer than there were.  How many that is, the comparison of main.c:170
\* decides: it is >=, so the third is the last one, where main.c:11 and :40,
\* architecture.md:81 and :112 and security_analysis.md:51 write "> 3".
RollbackBound ==
    pc = "app" /\ strikes.n > 0 =>
        ~TooManyAttempts([cfg EXCEPT !.boot_attempts = strikes.n - 1])

\* Recovery is entered only when neither slot holds a bootable image.
RecoveryIsLastResort ==
    [][pc' = "recovery" /\ pc # "ota" => \A s \in Slots : image[s] = NoImage]_vars

\* A transfer writes the slot that the stored record does not name, from the
\* first START to the last retry: the swap of the next boot then looks at the
\* slot that was written ("Active slot never modified in place",
\* security_analysis.md:50).  handle_start() does so in recovery mode too
\* (ota_client.c:145), where architecture.md:123 and build_and_run.md:173 name
\* slot A whatever the record says.
OtaWritesInactive ==
    pc = "ota" /\ g_state # NoSlot =>
        /\ config # Torn
        /\ g_state = memory_map_other_slot(config.active_slot)

\* A device with a bootable image boots: it reaches an application after any
\* reset, without anyone at the recovery menu.
NeverBricks == pc = "load" /\ (\E s \in Slots : image[s] # NoImage) ~> pc = "app"

\* An application that keeps crashing is replaced by the image of the other
\* slot, if that one does not crash.
RunsIn(s) == pc = "app" /\ boot_slot = s
Crashes(s) == image[s] \in Crashing
Works(s)   == image[s] \in Versions \ Crashing

CrashingAppIsReplaced ==
    \A s \in Slots :
        RunsIn(s) /\ Crashes(s) /\ Works(memory_map_other_slot(s))
            ~> RunsIn(memory_map_other_slot(s))

\* A requested swap to an acceptable image is made by the boot that follows,
\* once no more adverse events come.
SwapDue(s) ==
    /\ pc = "load" /\ faults = MaxFaults
    /\ shared.ota_pending
    /\ config # Torn
    /\ s = memory_map_other_slot(config.active_slot)
    /\ image[s] # NoImage
    /\ boot_config_firmware_allowed(config, image[s])

SwapHonoured == \A s \in Slots : SwapDue(s) ~> RunsIn(s)

\* "Magic mismatch -> treat as cold-boot" (common/shared_memory.h): what SRAM
\* holds at power-on is no request, so main() looks at a pending swap only
\* when the application or the OTA receiver asked for one.
PendingMeansRequested == pc = "swap" /\ shared.ota_pending => requested

\* "Acceptance of equal or higher firmware versions"
\* (tests/test_antidowngrade.py): no version that is at least the recorded
\* versions of both slots is refused.
EqualOrHigherAllowed ==
    pc = "app" =>
        \A v \in Versions :
            (\A s \in Slots : v >= cfg.slot_version[s]) => boot_config_firmware_allowed(cfg, v)
=============================================================================
