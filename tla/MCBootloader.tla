----------------------------- MODULE MCBootloader -----------------------------
(***************************************************************************)
(* Bootloader for TLC: what an erase wipes, computed from the sector table *)
(* for the two layouts the repository describes.                           *)
(***************************************************************************)
EXTENDS Bootloader

\* common/memory_map.h as it is, with the 32 KiB images of the QEMU build.
AsBuilt == INSTANCE FlashMap WITH BOOT_CONFIG_ADDR <- 64, SLOT_A_ADDR <- 68,
                                  SLOT_B_ADDR <- 528, ImageSize <- 32

\* The "Production Resolution" of docs/architecture.md: sector 4 holds the
\* config alone, slot A starts at sector 5; slot B then starts at sector 8.
Production == INSTANCE FlashMap WITH BOOT_CONFIG_ADDR <- 64, SLOT_A_ADDR <- 128,
                                     SLOT_B_ADDR <- 512, ImageSize <- 384

AsBuiltErasedBy    == AsBuilt!Erases
ProductionErasedBy == Production!Erases

v0_1 == 256        \* 0x000100
v1_0 == 65536      \* 0x010000
v1_1 == 65792      \* 0x010100
v2_0 == 131072     \* 0x020000

MCVersions == {v1_0, v1_1, v2_0}
ZeroMajorVersions == {v0_1, v1_0, v2_0}
TwoVersions == {v1_0, v2_0}
MCCrashing == {v2_0}
=============================================================================
