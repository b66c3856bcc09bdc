-------------------------------- MODULE FlashLayout --------------------------------
(* Where bcm63xx_flash.c places its sections: kerSysFlashInit derives them from the *)
(* end of the flash, from the size of the persistent section stored in NVRAM and    *)
(* from the end of the kernel that was booted.  Addresses are counted in units of   *)
(* the smallest section; all sectors have one size.                                 *)
EXTENDS Integers

CONSTANTS
    NSect,          \* flash_get_numsectors()
    SectSize,       \* units per sector
    SpMaxLen        \* SP_MAX_LEN, in units: no more than a sector

ASSUME LayoutAssumption ==
    /\ NSect \in Nat /\ SectSize \in Nat /\ SpMaxLen \in Nat
    /\ NSect > 2 /\ SectSize > 1 /\ SpMaxLen \in 1 .. SectSize

Sectors == 0 .. NSect - 1
TotalSize == NSect * SectSize

(* cfi_flash_get_blk for an address inside the device; past its end, where the code *)
(* returns -1, a sector that no section starts in either.                           *)
flash_get_blk(addr) == addr \div SectSize

(* A section: first sector, sectors read and written with it, its place in them. *)
Section(start, num, off, len) == [start |-> start, num |-> num, off |-> off, len |-> len]
NoSection(start) == Section(start, 0, 0, 0)

(* The NVRAM data follow the start of the boot loader in sector 0. *)
NvramSection == Section(0, 1, 1, 1)

(* Config 1, the persistent data: the last psi units of the flash. *)
PersistentSection(psi) ==
    LET start == flash_get_blk(TotalSize - psi)
    IN  Section(start, NSect - start, (NSect - start) * SectSize - psi, psi)

(* The scratch pad: just before Config 1 in the same sector, or at the end of the  *)
(* sectors before it; none when that is where the kernel ends.                      *)
ScratchPadSection(psi, kernelEnd) ==
    LET pers  == PersistentSection(psi)
        start == flash_get_blk(TotalSize - psi - SpMaxLen)
    IN  IF start = flash_get_blk(kernelEnd) THEN NoSection(start)
        ELSE IF start = pers.start THEN Section(start, 1, pers.off - SpMaxLen, SpMaxLen)
        ELSE Section(start, pers.start - start,
                     (pers.start - start) * SectSize - SpMaxLen, SpMaxLen)

(* What the sections above take of the end of the flash, in whole sectors. *)
TailSize(psi, kernelEnd) ==
    LET pers == PersistentSection(psi)
        sp   == ScratchPadSection(psi, kernelEnd)
    IN  (pers.num + IF sp.start = pers.start THEN 0 ELSE sp.num) * SectSize

(* Mutant: Config 2 is placed without a look at the kernel. *)
DareAnywhere(psi, kernelEnd) ==
    LET sp    == ScratchPadSection(psi, kernelEnd)
        start == flash_get_blk(TotalSize - TailSize(psi, kernelEnd) - psi)
    IN  Section(start, sp.start - start, (sp.start - start) * SectSize - psi, psi)

(* Config 2, of the length of Config 1, before them. *)
DareSection(psi, kernelEnd) ==
    LET sp    == ScratchPadSection(psi, kernelEnd)
        start == flash_get_blk(TotalSize - TailSize(psi, kernelEnd) - psi)
    IN  IF start = flash_get_blk(kernelEnd) THEN NoSection(start)
        ELSE Section(start, sp.start - start, (sp.start - start) * SectSize - psi, psi)

SectionNames == {"nvram", "psi", "sp", "dare"}

(* fInfo as kerSysEarlyFlashInit and kerSysFlashInit fill it. *)
Layout(psi, kernelEnd) ==
    [s \in SectionNames |->
        IF s = "nvram" THEN NvramSection
        ELSE IF s = "psi" THEN PersistentSection(psi)
        ELSE IF kernelEnd < 0 THEN NoSection(0)     \* kerSysImageTagGet found no image
        ELSE IF s = "sp" THEN ScratchPadSection(psi, kernelEnd)
        ELSE DareSection(psi, kernelEnd)]

(* The sectors of a section. *)
BlocksOf(sec) == sec.start .. sec.start + sec.num - 1
====================================================================================
