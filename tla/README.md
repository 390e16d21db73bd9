# A/B bootloader with OTA updates: verification project

TLA+ models of the secure dual-slot bootloader in `src/`, checked with TLC on
small instances and, for the properties that matter most, proved with TLAPS for
every instance.

The device holds two slots, A and B, each with one signed image. At every reset
the bootloader loads a 24-byte configuration record from flash, counts or
clears boot attempts, makes a pending swap, verifies the slot it is about to
boot, saves the record and jumps. An application that does not confirm its boot
three times is replaced by the image in the other slot. When no slot verifies,
a recovery menu receives an image over a serial line.

## 1. Inventory

| component | source | state | operations | interacts with |
| --- | --- | --- | --- | --- |
| Boot sequence | `bootloader/src/main.c`, `startup.s` | RAM: `cfg`, `cfg_dirty`, `boot_slot`, the loop counter | load, confirmation check, swap with re-verification and revert, slot choice, jump | calls all the others; ends in the application or in recovery |
| Boot configuration | `bootloader/src/boot_config.c` | flash: one record with a CRC | load, default, recover from slots, floor, record an update, save | erases and programs flash, verifies slots |
| Shared SRAM block | `common/shared_memory.h`, `application/include/bootloader_api.h` | SRAM kept over a reset: magic, `boot_confirmed`, `ota_pending` | confirm, request swap; consumed by `main()` | the only channel from application and OTA receiver to the next boot |
| Memory map and flash geometry | `common/memory_map.h`, `flash_driver.c` sector table | constants | which sectors an erase wipes | decides what `boot_config_save()` and START destroy |
| Flash driver | `bootloader/src/flash_driver.c` | controller registers; the QEMU shadow | erase, program, read, lock | called by configuration, receiver, patcher |
| OTA receiver | `bootloader/src/ota_client.c` | `g_state`: target, sequence number, bytes written | START, START_DELTA, DATA, END, ABORT | UART, flash, configuration, shared block, reset |
| Delta patcher | `bootloader/src/delta_patch.c` | stream position, bytes written | verify base, apply | reads the active slot, writes the inactive one |
| Recovery menu | `bootloader/src/recovery.c` | none | U, V, R | receiver, reset |
| UART, watchdog | `uart.c`, `iwdg.c` | peripheral registers | get/put with timeout; init, kick | everything with a loop |
| Verification | `crypto.c`, `sha256.c`, `crc32.c` | none | `crypto_verify_firmware()` | flash reads |
| Application | `application/src/*` | none kept | runs, confirms, requests a swap | shared block |
| Host tools | `tools/ota_server.py`, `ota_protocol.py` | the frame in flight, its attempts | send with retries and timeouts | receiver, over the link |
| Factory and signing tools | `tools/flash_layout.py`, `sign_firmware.py`, ... | none | files from files | they decide the initial states |
| Third party | `third_party/*` | | | libraries |

What makes each part correct, and what makes that hard:

- **Boot sequence.** A reset may fall between any two flash operations, a save
  may fail and is ignored, and a verification may fail for one read. Still: what
  is jumped into has been verified and not wiped since; the loop ends; a
  crashing image is replaced; a good image is never passed over for recovery.
- **Configuration.** The record is erased before it is written. Its loss must
  not brick the device, and its anti-downgrade floor must not go down.
- **Shared block.** SRAM holds leftovers at power-on; a flag must be believed
  exactly when somebody has set it.
- **Geometry.** Sectors are not partitions.
- **Receiver, host, link.** Acknowledgements get lost; a retry meets a receiver
  that has moved on, or a chunk that is half programmed; an answer comes after
  its question was asked again. Still: the slot holds the image so far, and both
  sides end.
- **Delta patcher.** Patch and patched image share a slot and grow towards each
  other, and END may be repeated after it stopped half way.
- **Flash driver.** Registers keep what an operation that failed has left in
  them, for the next caller to find.

`PROJECT.json` lists the hazards one by one at their lines, with the properties
that cover them.

## 2. Modules

| module | models | proofs |
| --- | --- | --- |
| `MemoryMap` | slot and region names, `memory_map_other_slot()` | |
| `FlashMap` | sector table, `flash_erase_range()`, and which partitions an erase wipes (`Erases`), for any partition addresses | |
| `BootConfig` | the record and the pure functions of `boot_config.c` | `BootConfigProofs` |
| `Bootloader` | `main()`, saves, application, recovery and OTA effects, resets and faults | `BootloaderProofs` (types), `BootSafetyProofs` (safety), `BootRollbackProofs` (what holds when flash or reads work) |
| `MCBootloader` | constants for TLC: versions, and `ErasedBy` computed by two instances of `FlashMap` | |
| `ConfigRegister` | abstract: a register whose write leaves the old record, none or the new one | |
| `ConfigStore` | `boot_config_save()`, `_validate()`, `_load()` word by word; implements `ConfigRegister` | `ConfigStoreProofs` (the refinement) |
| `OtaWire` | frames, responses, the line between host and device, the kinds of fault | |
| `OtaReceiver` | `ota_client_receive()` with START, DATA, END, ABORT, and the menu that reads the line when it has returned | |
| `OtaHost` | `send_with_retry()` and `push()` of `tools/ota_server.py` | |
| `OtaUpdate` | receiver, host and line together, with the clock they share | `OtaUpdateProofs` |
| `DeltaPatch` | the inactive slot cell by cell: START, START_DELTA, DATA, and END with `delta_apply_patch()` step by step | `DeltaPatchProofs` |
| `FlashController` | the hardware back end of `flash_driver.c` on `FLASH_CR` and `FLASH_SR` | `FlashControllerProofs` |
| `MCConfigStore`, `MCOtaUpdate`, `MCDeltaPatch`, `MCFlashController` | constants for TLC | |

### How `Bootloader` corresponds to the code

`pc` is where the device is. From a reset it goes through the places of
`main()` in order:

    load -> confirm -> swap -> (reverify -> swapped) -> pick -> jump -> app
                                                          \-> recovery <-> ota

and through `erase -> program` for every `boot_config_save()`; `after` is the
place `main()` continues at. One action stands for one handler, or for the part
of it between two flash operations, which is the granularity at which a reset
can be told apart: everything else a handler writes is RAM, which a reset clears.
`shared` is SRAM and the exception: it is written in the same action in which
the code writes it, always before the save that follows.

| variable | code |
| --- | --- |
| `config`, `image` | flash: the record (`Torn` when it does not validate), and the version that verifies in each slot (`NoImage` when none does) |
| `shared` | `SHARED_BOOT_BLOCK`; its magic number as a flag |
| `cfg`, `cfg_dirty`, `boot_slot` | the variables of `main()` |
| `iter` | the loop counter of `pick_slot_to_boot()` |
| `g_state` | the slot of the transfer in `g_state` of `ota_client.c`, when `active` |
| `faults` | how many adverse events there were |
| `credit`, `requested`, `promised`, `strikes` | history only: no guard reads them |

Data is abstracted to what the properties tell apart. An image is its version;
bytes, hashes and signatures are the verdict of `crypto_verify_firmware()`. A
record that does not validate is `Torn`, from the erase until the CRC word is
written, as the code writes it last.

Adverse events, each of a kind that a run may enable, at most `MaxFaults` in a
behaviour: `power` (reset, and SRAM comes back as anything without the magic
number), `reset` (SRAM kept), `flash` (an erase that fails having wiped any part
of what it covers, or a program that fails and leaves no valid record), `read`
(a verification sees a good image as bad, one slot or both). A reboot or crash of the
application is not counted: it may happen at any time, any number of times.

The application may be anything that is linked against `bootloader_api.h`: it
confirms, stages an image in the slot it does not run from, requests a swap and
reboots in any order. Those in `Crashing` reset before they do any of that. An
application whose image is wiped crashes.

The initial states are the devices `tools/flash_layout.py` makes: the record
blank or a default one with either slot active and any attempts, any image or none
in each slot, and SRAM as at power-on.

### How the modules fit together

`Bootloader` takes three things for granted that modules of their own look into.
A save is an erase and then a record or none: `ConfigStore` shows that the words
of the record, written one by one, implement just that. An erase or a program
either does what it says or fails: `FlashController` shows what FLASH_OK is
worth. An update is a slot that at some moment holds an image: `OtaUpdate` and
`DeltaPatch` show how it gets there. The slot that `OtaUpdate` and `DeltaPatch`
write is the one that `Bootloader` calls `g_state`.

### How `ConfigStore` corresponds to the code

`sector` is the record in flash, a cell per word, the CRC word last; `pc` and
`i` are the place in `boot_config_save()`: the erase, each word of
`flash_program_bytes()`, the CRC word, the readback. A reset or failure may cut
any of them off; an erase that is cut off leaves each word as it was, blank or
garbage, a program leaves its word so. The CRC is ideal: it is a function of the
body that no other content has. No word of a record is all ones
(`SpecialsAssumption`). That assumption matters: a record with such a word could
be completed again by an erase that clears the others half way, and TLC finds
it when the assumption is dropped. No version is that number, and no counter
gets there in the life of a device.

### How `OtaUpdate` corresponds to the code

An image is a number of chunks. A frame is whole or is none: what
`read_frame()` does with damaged bytes ends in a NAK of sequence number 0 or in
a timeout, and both are actions. A frame is taken from the line in one step
(`rx`) and handled in another, because an erase takes seconds and the host does
not wait for ever.

| variable | code |
| --- | --- |
| `mode`, `rx`, `consec_errs` | where the receiver is: `recovery_mode_run()` or `ota_client_receive()`; the frame it handles; the error count of its loop |
| `g_state` | `active`, `xfer_total`, `written`, `expected_seq` |
| `slot` | the inactive slot by chunks: erased, whole, half programmed, or spoilt by programming over something else |
| `host`, `frame`, `attempt` | the place in `push()` and in `send_with_retry()` |
| `waited` | how much of `RESPONSE_TIMEOUT_S` has gone, in timeouts of the receiver |

Time is the receive timeout: `Tick` is one `OTA_BYTE_TIMEOUT_MS` without a byte,
and the host has waited as long; it gives up after `ResponseTicks` of them, or
at once when nobody reads the line. A response later than that is the fault
`late`. A START whose size is missing or is not that of an image a slot can take is
refused before anything is erased (`InRange`); the tool never sends one, so
another tool on the line does. The bytes of a frame that the menu reads may be anything, so a frame may
act as U or R there.

### How `DeltaPatch` corresponds to the code

The slot has `Span` cells. A full image is written from cell 1 up, a patch from
`patch_tail_base` up; END then reads the patch in pieces of any size
(`ReadDiff`, the cache of the patcher) and writes the image from cell 1 up
(`WriteNew`, `write_new_cb()`). How much of a patch a cell of the image needs is
in proportion (`Needed`), the only thing the model says about HPatchLite and the
decompressor. A file announces `newTotal` and makes `newSize`, which may differ. What else the
patcher and END may refuse is an attribute of the file: a patch that ends too soon
(`needs`), a copy outside the base (`inBase`), a packing that is unknown or that tuz does
not open (`packing`), an image that does not verify (`verifies`) or is below the
anti-downgrade floor (`version` and `Floor`). Each has its refusing branch at the
place where the code returns, possibly half way through the image. `flash_read()` has
no result but FLASH_OK, so a failed read is not among them.
Frames come in order here; `OtaUpdate` is about the cases in which they do not.

### How `FlashController` corresponds to the code

One action per register access that another actor can see, and one per way out. A call
of `flash_erase_range()` or `flash_program_bytes()` is a loop (`pc` = "unlock", "loop",
"returned") around `flash_erase_sector()` or `flash_program_word()` (`pc` = "before",
"begin", "during", "finish"): the wait before an operation, the unlock, the write of
`FLASH_CR` with the store or STRT, the wait after it, and the write that clears PG or
SER with the readback. The byte loop is part of `flash_program_bytes()` itself. What
`status` the two inner functions return (`UnitReturns`) is decided on by the loop that
called them; a call ends with `Leave`. `flash_program_bytes()` has six ways out, and each
locks or does not lock the flash as its own lines do: the refused unlock
(`BytesUnlock`, 393-395), a word that fails (`BytesWordReturned`, 404-408), the wait before
a byte (`WaitBefore`, 415-418), the wait after it (`ByteFails`, 423-426), a byte that does not
read back (`ByteDiffers`, 427-430), and the end (`BytesDone`, 432-433). An unlock may be
refused (the fault `locked`), and a word at an address that is not aligned is
(`RefuseUnaligned`). The
controller is external, modelled after its reference manual where the code
depends on it: a store with another width than PSIZE raises an error and stores
nothing; writes of `FLASH_CR` wait for BSY; an operation may fail with a flag,
without one, or take longer than `wait_busy()` polls.

## 3. Runs

Deadlock is checked where the system always has a next step: the boot runs,
`config_store` and the flash runs. The OTA runs and `delta` stop when the host
tools have been run as often as the bound says.

| run | expects | what it asks |
| --- | --- | --- |
| `boot_safety` | pass | The safety properties with all four kinds of fault, two of them in a behaviour, in the layout of "Production Resolution" (`docs/architecture.md`) |
| `boot_rollback` | pass | What holds when flash and reads work and only resets and power losses interrupt, and what then eventually happens |
| `config_store` | pass | Saves one after another with three resets or failures implement the register |
| `ota_link` | pass | Safety of a transfer with every kind of fault, four in a behaviour, three runs of the tools, two images |
| `ota_frames` | pass | How many adverse events a push survives, and termination, with the retry limits of the code |
| `delta` | pass | Three pushes of sound and unsound files into one slot, three faults, with every reason to refuse one |
| `flash_ctrl` | pass | Calls of the driver in any order, two faults, refused unlocks among them |
| `boot_as_built` | violation of `AppImageIntact` | The same model with the addresses of `common/memory_map.h` |
| `boot_cold_sram` | violation of `PendingMeansRequested` | What a leftover `ota_pending` does at power-on |
| `boot_zero_major` | violation of `EqualOrHigherAllowed` | What the floor becomes when the record is rebuilt from 0.x versions |
| `ota_retransmit` | violation of `RetransmitRecovers` | What one lost acknowledgement does |
| `flash_byte_tail` | violation of `FaultFreeCallSucceeds` | A program of a length that is not a multiple of four, on the hardware |

Properties of the passing runs:

- `AppImageIntact`: nothing between the verification of a slot and the last
  instruction of its application wipes the image: not the save before the jump,
  not the staging of an update.
- `FloorNeverDrops`: the floor of the stored record never goes down, over
  swaps, reverts, rollbacks, resets and failed writes. Only the loss of the
  record starts a new count; the code rebuilds it from the images that are left.
- `CapIsBackstop`: `MAX_SWAP_RETRIES` is the backstop its comment says it is.
- `NoStaleConfirmation`: `boot_confirmed` with the magic number means that the
  application confirmed since the last confirmation was counted.
- `ConfigMatchesRunningApp`: from the hand-over on, flash holds the record that
  `pick_slot_to_boot()` has made, which names the slot that is booted; at the
  hand-over it counts the attempt, as long as the other slot holds an image. The
  exception is the code's: the fallback of `main.c` 193-197 stores no attempt, but
  it is taken only when the other slot does not verify.
- `TypeOK` of `boot_safety` says also that attempts are never counted past the
  maximum (`AttemptsInRange`), so the byte that holds them cannot overflow.
- `RollbackBound`: with another image to fall back on, a slot gets no hand-over
  once as many went without a confirmation as `pick_slot_to_boot()` accepts, from
  when the record names it (or a swap to it is made) until the record names the
  other. It says that none escapes the count, whatever is reset or lost; how many
  they are, the code's comparison decides (three: see the end of this section).
  Resets between the save and the jump can make the record leave a slot and return
  to it with no hand-over to the other, so the count follows the record and not the
  hand-overs.
- `OtaWritesInactive`: from START to the last retry a transfer writes the slot the
  record does not name, which is the one the next boot's swap looks at.
- `RecoveryIsLastResort`: recovery only when neither slot holds an image.
- `NeverBricks`: after any reset a device with an image reaches an application.
- `CrashingAppIsReplaced`: an application that keeps crashing gives way to one
  that does not.
- `SwapHonoured`: a pending swap to an acceptable image is made by the next boot,
  once no more adverse events come.

- `ImplementsRegister`: a reader of the record finds that of the last save that
  got through or none, never a mixture, and a save that returned true is there.
  `StoreInv` is the inductive invariant behind it, checked as it is proved.
- `InStep`: while the host pushes, the receiver is at the frame it sends or just
  past it, and the slot holds the image so far, in order, none twice.
- `ChunkFitsItsCell`: a chunk never meets what an earlier transfer, a failed write
  or a repeated START has left.
- `DoneMeansInstalled`: the tool reports success only for an image whose swap END
  has requested, also when answers of an earlier frame are still on the line.
- `RetransmitRecovers`: a transfer that fails has met as many adverse events (other
  than a lost response) as a frame has attempts, or as many as cost the receiver the
  errors that end its loop: five or four with the numbers of the code.
- `HostEnds`, `ReceiverReturns`: both sides give up whatever the other does.
- `PatchIntact`, `NothingSpoilt`: the patch survives every END that fails, and
  nothing in the slot is programmed over anything but itself.
- `EndSucceeds`: a file that is complete and sound (`Sound`: what the patcher, the
  verification and the anti-downgrade floor ask of it) is installed by an END in the
  end, unless it is given up.
- `OkMeansDone`: FLASH_OK means that every byte holds what was asked for, also
  when the controller failed without a flag.
- `CleanBetweenCalls`, `RelockedOnReturn`: every way out of the driver disarms the
  controller, and each of the six ways out of `flash_program_bytes()` leaves it locked.
- `NoStaleFailure`: the flags and bits an earlier failure has left do not make a
  call for whole words fail, but for the one after a call that gave up waiting:
  the error of its operation comes later and is found by the next.
- `CallReturns`: no wait and no loop of the driver lasts for ever.

### Bounds

Two slots are all there are. Two versions are needed for an order; `boot_safety` has
1.0, 1.1 and 2.0, because within one major number the versions of the slots are
all that holds the floor up, and between two the counter is; `boot_zero_major` has
0.1 in the place of 1.1. `LastGoodMod` 2 lets the counter wrap. Two adverse
events let one interrupt the handling of the other, such as a power loss during
the save that follows a torn save; `boot_rollback` has three, as many as it takes
to wear a fallback slot's attempts out between the save and the jump. The inductive
invariants of section 4 need no bound. Attempts of a factory record (`FactoryAttempts`) stop at
one more than the maximum: above it `pick_slot_to_boot()` treats all alike.

`boot_rollback` leaves out `flash` and `read` because its properties are false
with them, as they must be: a save that fails is ignored by design, so attempts
may not be counted, and two misread slots are two bad slots to the code.

`config_store` has a body of three words where the code has five: the first, one
in the middle, and the magic number; three adverse events leave the sector as
two interrupted saves make it and interrupt a third.

`ota_link` has images of one and of three chunks, so that an image is pushed over
a longer and over a shorter one; sequence numbers modulo 4, which the longer one
wraps; five errors, three attempts and one tick in the place of 16, 5 and 4, in
the order of the code (more errors than attempts); four adverse events, three
runs of the tools. 280,000 states. `ota_frames` has the limits of the code, as
it is about them, and one transfer; its five adverse events are two more than
what it is shown to survive. It has no lost response and no reset: what a lost
acknowledgement of END does to the two sides is in `ota_link`.

`delta` has a slot of five cells: an image of three and a patch of two fill it
exactly. Its sound files (`SoundFiles`) are these two and a smaller, packed patch. The others are
refused, one for each reason the code has: by START_DELTA or START (another base, too
much for the slot), by the patcher (`UnsoundPatches`), or by END (`RefusedImages`: one that does
not verify, one below `Floor`). Three pushes let a file come after two that were given
up. 33,000 states.

`flash_ctrl` has two sectors of two words of four bytes: an erase of nine bytes
from within the first takes both sectors, and programs of 2, 4, 5 and 12 bytes
reach the word phase, the byte phase and the change between them; a word at
address 6 is refused. 379,000 states. `flash_byte_tail` has no faults at all.

### Fairness

`FairSpec` has weak fairness of `Boot` and of `AppCrash` only. The processor
runs `main()` without anyone's help, and a crashed application is ended by the
watchdog (`iwdg_init()`; the fault handlers spin). Nobody has to press a key in
the menu, nor to confirm, nor to reset. Resets may interrupt `main()`, at most
`MaxFaults` times, as no bootloader makes progress under a reset that always
comes first.

`ota_frames` assumes weak fairness of the receiver, of the tool and of whoever
reads the line when nobody receives: two processors run their programs. Nobody
has to press U. `delta` assumes that the host goes on with its frames and repeats
an END that is refused (five times in the code, more than faults in the run).
`flash_ctrl` assumes that the processor runs the driver and that the controller
ends what it has begun. `ota_link` and `config_store` need none.

### What the violations show

- `boot_as_built`: the record and slot A share sector 4. A device with a good
  image in A picks it, counts the attempt, and the save before the jump erases
  the image it has just verified. `docs/architecture.md` 165-177 describes this map as
  a hazard on real silicon and names the remedy; `memory_map.h` does not have
  it, and the QEMU back end erases the same sectors.
- `boot_cold_sram`: `check_app_confirmation()` stamps the magic number over any
  leftover, and `process_ota_pending_swap()` does not look at it anyway. A
  power-on with a non-zero word there makes a swap nobody asked for. It is
  harmless when the inactive slot is empty or below the floor.
- `boot_zero_major`: a device without a record and with 0.1 in slot B has its record
  rebuilt with counter 1 (`boot_config.c` 76), which is the floor 1.0.0: 0.1 can no longer
  be installed, nor 0.2. No update has to come before; `boot_config.c` 132 has
  the same expression for a committed one.
- `ota_retransmit`: `handle_data()` (`ota_client.c` 238) refuses every frame whose
  number is not `expected_seq`, also the one it has just accepted. When the
  acknowledgement is lost, its retransmission is refused five times and the tool
  gives up, with the image intact so far. `docs/update_protocol.md` 62 and 115
  promise a retransmission that recovers. From any other three events, lost, late or
  damaged frames, failed writes or misreads, a transfer recovers, which `ota_frames` shows.
- `flash_byte_tail`: the byte phase of `flash_program_bytes()` (`flash_driver.c` 419)
  sets PG and leaves PSIZE as the word phase has set it, so the controller refuses
  the byte store. Every chunk whose length is not a multiple of four fails, and every
  patch staged at an unaligned address. The QEMU back end, on which the
  tests run, never reaches this code.

### Where the documents say otherwise

Four properties, or their limits, are about what the code does where a document or a
comment has something else. They are written so that the difference shows:

- `main.c` 170 compares the attempts with `>=`: a slot that verifies is given up after
  three hand-overs. `main.c` 11 and 40, `docs/architecture.md` 81 and 112 and
  `docs/security_analysis.md` 51 have "attempts > 3", which would be four.
  `RollbackBound` is stated with the comparison itself (`TooManyAttempts`).
- `handle_start()` (`ota_client.c` 145) writes the slot the record does not name, in
  recovery mode too, which is where every upload starts. `docs/architecture.md` 123 and
  `docs/build_and_run.md` 173 have it go to slot A. On an empty device the default record
  names A, so it goes to B; with the documents' rule the swap of the next boot would look
  at a slot that was not written. `OtaWritesInactive` takes the side of the code and of
  `docs/security_analysis.md` 50 ("Active slot never modified in place").
- `docs/update_protocol.md` 115 promises five attempts at a frame, and 118 a receiver that
  tolerates sixteen errors meanwhile. The two seconds the tool waits are four timeouts of
  the receiver, and sixteen end its loop (`ota_client.c` 312): when the first four attempts
  are lost the receiver is in the menu before the fifth is sent, and the push fails after
  four events. `RetransmitRecovers` has both limits, and the second one is reached in
  `ota_frames`.
- `flash_program_word()` and `flash_erase_sector()` unlock the flash and do not lock it
  (`flash_driver.c` 325 and 370), and `boot_config_save()` ends with the CRC word
  (`boot_config.c` 154): the application booted after it starts with the flash unlocked. `flash_driver.h` 57
  has the lock follow the writes, and `docs/security_analysis.md` 52 counts on an
  application that needs the key sequence. `RelockedOnReturn` is therefore about
  `flash_program_bytes()` only.

## 4. Proofs

TLAPS checks those about `Bootloader` for every set of versions, every set of
crashing ones, every layout, every kind and any number of faults, but for what a
theorem names as its hypothesis. The assumptions are the named
`ASSUME`s: versions are naturals, the special values are not what they must be
told apart from, an erase wipes at least its own region.

| theorem | says | argument |
| --- | --- | --- |
| `TypeCorrect` | `Spec => []TypeOK` | inductive as it stands; needs the types of every function of `boot_config.c`, and that an attempt is only counted below the maximum (`AttemptsStep`), for the byte not to overflow |
| `RunsIntactImage` | `Spec => []AppImageIntact`, if `Isolated` | `IntactInv`: the image is there from the return of `pick_slot_to_boot()` on, so through the save on the way (`HandsOverIntact`), and a save returns only to places of `main()` (`SaveReturns`). `Isolated` is the assumption that `boot_as_built` shows to be needed |
| `LoopNeverRunsOut` | `Spec => []CapIsBackstop` | `LoopInv`: the loop starts at 0, and an iteration that does not return leaves the attempts at 0, so the next one does |
| `ConfirmationIsFresh` | `Spec => []NoStaleConfirmation` | `CreditInv`: the flag is trustworthy without the magic number from `check_app_confirmation()` on, with it before |
| `FloorIsMonotone` | `Spec => FloorNeverDrops` | `FloorInv`: the promise is the floor of the stored record, and the copy `main()` works on is never below it; a swap raises it by `RecordKeepsFloor` |
| `RecordKeepsFloor` | recording an accepted version never lowers the floor | the version alone reaches it, even where eight bits of the major number make the counter smaller |
| `RecoverCoversSlots` | a rebuilt record has a floor at least as high as every image that verifies | |
| `RecoveryComesLast` | `Spec => RecoveryIsLastResort`, if `ReadsWork` | `RecoveryInv`: `pick_slot_to_boot()` gives up only when both slots fail (`GivesUp`, from `LoopInv`), and the save before the menu has nothing left to lose |
| `RecordNamesRunningApp` | `Spec => []ConfigMatchesRunningApp`, if `FlashWorks`, `ReadsWork` and `RecordApart` | `RecordInv`: from the first save on there is a record, and the save before the jump writes the one that names the slot; `AttemptCounted`: that record counts the attempt unless it was made by the fallback, which means that the other slot has no image |
| `TransfersSpareActiveSlot` | `Spec => []OtaWritesInactive`, if `FlashWorks` and `RecordApart` | `RecordInv`: the target follows from the record in flash, which is there and which the erase of the target spares |
| `RollbackIsBounded` | `Spec => []RollbackBound`, if `FlashWorks`, `ReadsWork`, `Isolated` and `RecordApart` | `RollbackInv`: the attempts of the record are no fewer than the hand-overs to its slot, or one slot is empty (`CountedBy`); the same of main()'s copy, of the save before the jump, and of the menu |

The hypotheses are those of `boot_rollback`: `ReadsWork` and `FlashWorks` leave
out a kind of fault (without the first two misread slots are two bad ones, without
the second a save that fails is ignored by design). `RecordApart` says that no
erase of a slot takes the record with it, and `Isolated` that no erase takes a slot
it is not of.

About the other modules, for every value of their constants:

| theorem | says | argument |
| --- | --- | --- |
| `StoreCorrect` | `Spec => []StoreInv` | the cells before `i` hold the new record and those from `i` on are blank; and where a CRC is left, the body is the record it was computed of, as far as no erase has touched it (`CrcOfARecord`), which makes half-done erases harmless |
| `StoreIsRegister` | `Spec => ImplementsRegister` | each step maps to a step of `ConfigRegister` or to a stutter: the CRC word is the write, the erase the loss |
| `DeltaPatchProofs!TypeCorrect` | `Spec => []TypeOK` | `DeltaInv` |
| `PatchStaysIntact` | `Spec => []PatchIntact` | `DeltaInv`: the tail of the slot holds what was received, the front what was made or blank cells, and `newTotal + len <= Span` keeps them apart |
| `NeverOverwrites` | `Spec => []NothingSpoilt` | the front holds only cells of the same file, which an END that is repeated writes again as they are |
| `OkIsDone` | `Spec => []OkMeansDone` | `ControllerInv`: what the loop has passed is done and the running operation is on the unit it is at; when the loop ends it has passed all of the range (`LoopCovers`, for an erase from `WholeSector`) |
| `LeavesNothingArmed`, `LocksAgain` | `Spec => []CleanBetweenCalls`, `Spec => []RelockedOnReturn` | `ControllerInv`: nothing runs and nothing is armed but in the wait after the store; `RelockedOnReturn` is a conjunct of it, shown for each of the ways out by its own step |
| `FlashControllerProofs!TypeCorrect` | `Spec => []TypeOK` | `TypedInv`: the loop is inside the range of its call (`Within`), whatever unit it takes next, so every store is inside the flash |
| `EarlierFailuresDoNoHarm` | `Spec => []NoStaleFailure` | `StaleInv`: an error flag is that of the operation that is waited for, or of one that `wait_busy()` gave up on (`FlagsInv`); whole words never get to the byte phase (`WordLoop`), and what fitted when the call was made still fits (`StillFits`) |
| `OtaUpdateProofs!TypeCorrect` | `Spec => []TypeOK` | `TypeInv`: also that every DATA frame carries a chunk, as what is programmed is a cell |
| `StaysInStep` | `Spec => []InStep`, if `SeqOutlasts` | `ProtocolInv`, below |
| `NothingProgrammedTwice` | `Spec => []ChunkFitsItsCell`, under the same | `ProtocolInv`: behind the chunks that are written the slot is blank, but for the first half of the next one |
| `SuccessIsReal` | `Spec => []DoneMeansInstalled`, under the same | `ProtocolInv`: an ACK of the last frame is on the line only after END was accepted |
| `EnoughRetries` | `OpenSpec => []RetransmitRecovers`, if `Recoverable` | `RecoverInv`, below |

`ProtocolInv` is why a protocol without sessions stays in step. While the tool
waits at a frame, the line to the device holds copies of that frame and before
them of the one before it, never the other way round, and nothing else
(`LineInv`); once a copy of the newest frame is in the receiver, no older one is
left (`RxInv`). In the other direction no ACK of another frame follows the ACK of
this one (`OrderInv`). While that ACK is on its way, every frame on the line is a copy of
the frame it acknowledges, and the slot holds its chunk (`AckedInv`), so that
the next frame finds the receiver just where it should be (`DeviceInv`). All of
it rests on telling the two frames apart by their numbers, and a frame from those
of the same image that are farther away.
`SeqOutlasts`, the hypothesis, says that an image has fewer chunks than there
are sequence numbers. The code does not guarantee it: with `--chunk` 7 or less
(`ota_server.py` 321 allows 1) an image of 460 KiB (`firmware_format.h` 62) has more
than 65,536 of them. With as many chunks as numbers, TLC finds `InStep` violated.

`RecoverInv` is an account of the attempts of the tool. Each attempt after the
first at a frame must be paid for by an adverse event: the attempts made, the
older frames and the responses that will be taken for a refusal, and a line on which nothing
is left, together, are at most the events so far (`Paid`). For that to survive
an ACK, no attempt may leave more than one frame or response behind (`Copies`): what is left of one frame is
what the next one starts with. And the receiver must still be in its loop: the errors it
has counted, with those that what is on its way will add, are at most
`ResponseTicks` for each event (`ErrorsPaid`). As long as the events are fewer than
the attempts, and `ResponseTicks` for each of them are fewer than `MAX_CONSEC_ERRS`, the
next attempt is still made and somebody still reads it (`Bearable`). Both limits are
needed: with those of the code, TLC finds pushes that fail after four events.
`Recoverable`, the hypothesis, says one run of the tool on an allowed image, no reset, no
lost response (`ota_retransmit` shows what one does), and `SeqOutlasts`.

Assumptions: the ideal CRC and `SpecialsAssumption` for the store; the named
assumptions on constants for the others. That Erased, Spoilt and contents differ
(`CellsAssumption`) is what tells flash cells apart.

Each inductive invariant was also checked by TLC with the constants of the run of
its module (`StoreInv` is a property of `config_store`).

Every invariant and every safety property of the passing runs is a theorem. Only
model-checked is all liveness, as fairness is out of the prover's reach:
`NeverBricks`, `CrashingAppIsReplaced` and `SwapHonoured` of the boot, `HostEnds` and
`ReceiverReturns` of the transfer, `EndSucceeds` of the patch, `CallReturns` of the
flash driver.

## 5. Not modelled

- Time: the watchdog period against long erases, the poll bounds of the drivers
  as numbers. Timeouts are modelled by what they do.
- The bytes: of images, hashes and signatures (a slot verifies or does not), and
  those of frames. A response that is cut in two and read out of step by the host
  is therefore left out.
- HPatchLite, tinyuz and micro-ecc: vendored. Only the order in which the patcher
  reads and writes is modelled.
- The QEMU back end of the flash driver: a copy of the flash in RAM that programs
  without the rules of flash cells, contrary to what `flash_driver.h` 15-17 says of
  it. It hides `flash_byte_tail` from the tests, and would hide a program over cells
  that are not blank.
- The command-line tools that make files from files.
- Log output, and the initialisation of the peripherals.

## 6. Plan

1. **A transfer of a patch over the line**: `DeltaPatch` takes its frames in order,
   which `StaysInStep` justifies for an image; START_DELTA in `OtaReceiver` would show
   it for a patch.
2. **The other half of the liveness properties**: what each of them rests on as a
   step property, such as a measure that every step of `main()` lowers, can be
   proved where the fairness cannot.
