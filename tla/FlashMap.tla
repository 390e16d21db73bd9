------------------------------- MODULE FlashMap -------------------------------
(***************************************************************************)
(* The flash of the STM32F407 and the partitions the bootloader lays over  *)
(* it: common/memory_map.h and the sector table and range erase of         *)
(* bootloader/src/flash_driver.c.  Addresses are KiB offsets from          *)
(* FLASH_BASE_ADDR (0x08000000), which is exact: every boundary in both    *)
(* files is a multiple of 1 KiB.                                           *)
(*                                                                         *)
(* The point of the module is Erases[r]: flash is erased by the sector,    *)
(* and a sector is not a partition, so erasing one region can wipe bytes   *)
(* of another.                                                             *)
(***************************************************************************)
EXTENDS Naturals, MemoryMap

CONSTANTS
    BOOT_CONFIG_ADDR,   \* 64 (0x08010000) in memory_map.h
    SLOT_A_ADDR,        \* 68 (0x08011000) in memory_map.h
    SLOT_B_ADDR,        \* 528 (0x08084000) in memory_map.h
    ImageSize           \* KiB of a signed image, header included

-----------------------------------------------------------------------------
(* The sector table: 4 x 16 KiB, 1 x 64 KiB, 7 x 128 KiB.                  *)

Sectors == 0 .. 11

k_sector_size == [i \in Sectors |-> IF i < 4 THEN 16 ELSE IF i = 4 THEN 64 ELSE 128]

k_sector_start ==
    [i \in Sectors |-> IF i <= 4 THEN 16 * i ELSE 128 * (i - 4)]

\* The last sector that starts at or below addr; every address of the part
\* has one, since sector 0 starts at 0.
sector_index_for_addr(addr) ==
    CHOOSE i \in Sectors : /\ k_sector_start[i] <= addr
                           /\ \A j \in Sectors : k_sector_start[j] <= addr => j <= i

\* flash_erase_range() erases whole sectors, from the one that holds addr to
\* the last one that starts below addr + size.
flash_erase_range(addr, size) ==
    IF size = 0 THEN {}
    ELSE {i \in Sectors : /\ i >= sector_index_for_addr(addr)
                          /\ k_sector_start[i] < addr + size}

-----------------------------------------------------------------------------
(* The partitions.                                                         *)

memory_map_slot_addr(slot) == IF slot = SLOT_B THEN SLOT_B_ADDR ELSE SLOT_A_ADDR

\* Where a region's live bytes are: the 24 byte record (1 KiB here), or the
\* image at the base of a slot.
Address(r) == IF r = CONFIG THEN BOOT_CONFIG_ADDR ELSE memory_map_slot_addr(r)
Extent(r)  == IF r = CONFIG THEN 1 ELSE ImageSize

Overlaps(i, r) == /\ k_sector_start[i] < Address(r) + Extent(r)
                  /\ Address(r) < k_sector_start[i] + k_sector_size[i]

\* The regions that lose live bytes when region r is erased.
Erases ==
    [r \in Regions |->
        {q \in Regions : \E i \in flash_erase_range(Address(r), Extent(r)) : Overlaps(i, q)}]
=============================================================================
