-------------------------------- MODULE ImageUpdate --------------------------------
(* Update of the firmware image through the flash write ioctl of board.c, sector by *)
(* sector (kerSysBcmImageSet), and the choice of the image that boots.  The flash   *)
(* has two partitions; a tag with a sequence number starts each image.  A sector    *)
(* may fail, power may fail, memory for the copy of the NVRAM may be missing.       *)
EXTENDS FlashLayout, FiniteSetsExt

CONSTANTS
    TagLen,         \* TAG_LEN, in units
    Reserved,       \* FLASH_RESERVED_AT_END
    PsiSizes,       \* sizes of the persistent section
    Lens,           \* rootfs and kernel length of the images offered
    Worn,           \* sectors that may fail
    MaxUpdates,     \* bound on update requests
    Erased, Settings, Junk,     \* sectors without image data
    Garbage,        \* NVRAM data from memory that was never written, with a checksum
    NoNvram         \* NVRAM data without a valid checksum

ASSUME UpdateAssumption ==
    /\ NSect > 3                            \* room for an image besides what is reserved
    /\ TagLen \in Nat \ {0} /\ 2 * TagLen <= SectSize     \* 256 bytes
    /\ Reserved = 2 * SectSize
    /\ PsiSizes \subseteq 1 .. SectSize /\ PsiSizes # {}
    /\ Lens \subseteq Nat \ {0} /\ Worn \subseteq Sectors /\ MaxUpdates \in Nat

VARIABLES
    flash,      \* contents by sector
    fInfo,      \* the sections as of the last start
    up,         \* the kernel is running
    booted,     \* the image started last
    job,        \* the request in progress or the last one
    updates     \* counts requests

updateVars == <<flash, fInfo, up, booted, job, updates>>

-------------------------------------------------------------------------------------
(* Contents of a sector: the boot loader with the NVRAM, a part of an image, or     *)
(* neither.  A part may be cut short; the tag comes first in part 0.                *)
Lines == {"latest", "previous"}     \* p= of the boot line
BootSector(loader, nv) == [loader |-> loader, nv |-> nv]
Image(id, seq, len, at) == [id |-> id, seq |-> seq, len |-> len, at |-> at]
Part(img, b, cut) == [img |-> img, idx |-> b - img.at, cut |-> cut]

RootfsStart == 1                    \* flash_rootfs_start_offset, as a sector
HalfWay == flash_get_blk(TotalSize \div 2)
EndOf(img) == img.at * SectSize + TagLen + img.len
SectorsOf(img) == img.at .. flash_get_blk(EndOf(img) - 1)
IsPart(c) == c \notin {Erased, Settings, Junk}
Whole(img) ==
    /\ SectorsOf(img) \subseteq Sectors
    /\ \A b \in SectorsOf(img) : flash[b] = Part(img, b, FALSE)

NvramOf(c) == IF IsPart(c) THEN c.nv ELSE NoNvram
LoaderThere == IsPart(flash[0]) /\ flash[0].loader

(* getTagFromPartition: the images whose tag is valid; the data are not looked at. *)
TagAt(b) == IF IsPart(flash[b]) /\ flash[b].idx = 0 THEN {flash[b].img} ELSE {}
Tags == TagAt(RootfsStart) \cup TagAt(HalfWay)

(* p= in NVRAM data; data that are not valid may hold anything. *)
LineOf(nv) == IF nv \in Lines THEN {nv} ELSE Lines

(* getBootImageTag: a set of at most one image. *)
BootImage(line) ==
    IF TagAt(RootfsStart) = {} \/ TagAt(HalfWay) = {} THEN Tags
    ELSE LET one == CHOOSE i \in TagAt(RootfsStart) : TRUE
             two == CHOOSE i \in TagAt(HalfWay) : TRUE
         IN  IF line = "latest" THEN IF two.seq > one.seq THEN {two} ELSE {one}
             ELSE IF two.seq < one.seq THEN {two} ELSE {one}

(* getPartitionFromTag: the first partition with the sequence number. *)
InPartitionOne(cur) ==
    \E i \in cur, t \in TagAt(RootfsStart) : t.seq = i.seq

(* UpdateImageSequenceNumber *)
NextSequence == 1 + Max({0} \cup {t.seq : t \in Tags})

-------------------------------------------------------------------------------------
(* Mutant: nothing is kept for the settings at the end of the flash. *)
AvailableSizeAll == TotalSize - (RootfsStart * SectSize + TagLen)

(* The size checks of flashFsKernelImage. *)
AvailableSizeOneImg == TotalSize - (RootfsStart * SectSize + TagLen) - Reserved

AvailableSizeTwoImgs ==
    TotalSize \div 2 - Max({RootfsStart * SectSize, Reserved})
(* Mutant: the partition that boots is the one to write. *)
TargetInUse(cur, len) == IF InPartitionOne(cur) THEN RootfsStart ELSE HalfWay

FitsHalf(len) == len <= AvailableSizeTwoImgs
Target(cur, len) ==
    IF (\A i \in cur : FitsHalf(i.len)) /\ FitsHalf(len) /\ InPartitionOne(cur)
    THEN HalfWay ELSE RootfsStart

NoImage == Image(0, 0, 1, RootfsStart)
NoJob == [kind |-> "none", step |-> "idle", img |-> NoImage, cur |-> {}, saved |-> NoNvram,
          boot |-> Erased, blk |-> 0, mem |-> TRUE]

UpdateInit ==
    /\ \E len \in Lens, psi \in PsiSizes :
        /\ booted = Image(0, 0, len, RootfsStart)
        /\ EndOf(booted) <= TotalSize - Reserved
        /\ flash = [b \in Sectors |->
                        IF b = 0 THEN BootSector(TRUE, "latest")
                        ELSE IF b \in SectorsOf(booted) THEN Part(booted, b, FALSE)
                        ELSE Settings]
        /\ fInfo = Layout(psi, EndOf(booted))
    /\ up = TRUE /\ job = NoJob /\ updates = 0

(* A request starts with a copy of the NVRAM; whether there was memory for it, and  *)
(* for the copy getBootImageTag makes, is not looked at (mem records it).           *)
Request(kind, img, cur, own, mem) ==
    /\ up /\ job.step = "idle" /\ updates < MaxUpdates
    /\ updates' = updates + 1
    /\ \E saved \in {NvramOf(flash[0])} \cup IF mem THEN {} ELSE {Garbage} :
        job' = [kind |-> kind, step |-> "erase", img |-> img, cur |-> cur, saved |-> saved,
                boot |-> BootSector(TRUE, own),
                blk |-> IF kind = "fs" THEN img.at ELSE 0, mem |-> mem]
    /\ UNCHANGED <<flash, fInfo, up, booted>>

(* BCM_IMAGE_FS: to the partition that does not boot next, if both images fit. *)
FlashFs(len) ==
    /\ len <= AvailableSizeOneImg
    /\ \E mem \in BOOLEAN :
        \E line \in LineOf(IF mem THEN NvramOf(flash[0]) ELSE Garbage) :
            LET cur == BootImage(line)
            IN  Request("fs", Image(updates + 1, NextSequence, len, Target(cur, len)), cur,
                        NoNvram, mem)

(* An image that is too large, or does not carry the vendor's signature, is refused. *)
Refuse ==
    /\ up /\ job.step = "idle" /\ updates < MaxUpdates
    /\ updates' = updates + 1
    /\ job' = NoJob
    /\ UNCHANGED <<flash, fInfo, up, booted>>

(* BCM_IMAGE_CFE, BCM_IMAGE_WHOLE: from the start of the flash, with or without NVRAM *)
(* data of their own.  The size of a whole image is not checked.                      *)
FlashCfe(own) == \E mem \in BOOLEAN : Request("cfe", NoImage, {}, own, mem)
FlashWhole(len, own) ==
    \E mem \in BOOLEAN :
        Request("whole", Image(updates + 1, 0, len, RootfsStart), {}, own, mem)

-------------------------------------------------------------------------------------
(* kerSysBcmImageSet *)

LastSector == IF job.kind = "cfe" THEN 0 ELSE Max(SectorsOf(job.img))
NewContents(b, cut) == IF b = 0 THEN job.boot ELSE Part(job.img, b, cut)

(* Past the last sector meminfo.sec[] holds zeros: the base of sector 0 and no size.  *)
(* blk stays at NSect there.                                                          *)
SectorAt(blk) == IF blk \in Sectors THEN blk ELSE 0

EraseSector ==
    /\ up /\ job.step = "erase"
    /\ flash' = [flash EXCEPT ![SectorAt(job.blk)] = Erased]
    /\ job' = [job EXCEPT !.step = "write"]
    /\ UNCHANGED <<fInfo, up, booted, updates>>

(* What is remembered of a request that is over. *)
Over(step) == [NoJob EXCEPT !.kind = job.kind, !.img = job.img, !.cur = job.cur, !.step = step]

(* What follows the image: the rest of the flash is erased, the NVRAM is seen to, or *)
(* the error is returned.                                                            *)
AfterImage(ok, blk) ==
    job' = IF job.kind = "fs" /\ ~ok THEN Over("idle")
           ELSE [job EXCEPT !.blk = blk,
                            !.step = IF job.kind = "whole" THEN "tail" ELSE "nvram"]

WriteSector ==
    /\ up /\ job.step = "write"
    /\ \/ /\ job.blk \in Sectors
          /\ flash' = [flash EXCEPT ![job.blk] = NewContents(job.blk, FALSE)]
          /\ \/ /\ job.blk < LastSector
                /\ job' = [job EXCEPT !.blk = @ + 1, !.step = "erase"]
             \/ /\ job.blk = LastSector
                /\ AfterImage(TRUE, job.blk + 1)
       \/ /\ job.blk \in Worn
          /\ \E c \in {Erased, Junk} : flash' = [flash EXCEPT ![job.blk] = c]
          /\ AfterImage(FALSE, job.blk)
       \/ /\ job.blk = NSect              \* nothing to write, and never done
          /\ job' = [job EXCEPT !.step = "erase"]
          /\ UNCHANGED flash
    /\ UNCHANGED <<fInfo, up, booted, updates>>

(* A whole image erases the flash to its end, also after a failure. *)
EraseTail ==
    /\ up /\ job.step = "tail"
    /\ \/ /\ job.blk < NSect
          /\ flash' = [flash EXCEPT ![job.blk] = Erased]
          /\ job' = [job EXCEPT !.blk = @ + 1]
       \/ /\ job.blk = NSect
          /\ job' = [job EXCEPT !.step = "nvram"]
          /\ UNCHANGED flash
    /\ UNCHANGED <<fInfo, up, booted, updates>>

-------------------------------------------------------------------------------------
(* Mutant: p= is written back as it was. *)
WrittenBackSame == IF job.saved \notin Lines THEN Garbage ELSE job.saved

(* The NVRAM after the image: the copy is written back if the new image brought no  *)
(* valid data, or, after an update of the file system, with p= set to the latest    *)
(* image if the copy says otherwise.  What was not valid gets a checksum.  Valid    *)
(* data of a new image may be for a board that BpSetBoardId does not know.          *)
WritesBack ==
    IF job.kind = "fs" THEN {l # "latest" : l \in LineOf(job.saved)}
    ELSE IF NvramOf(flash[0]) \in Lines THEN BOOLEAN ELSE {TRUE}

WrittenBack ==
    IF job.saved \notin Lines THEN Garbage
    ELSE IF job.kind = "fs" THEN "latest" ELSE job.saved

(* A file system or a whole image ends with a reset, a boot loader with a return. *)
AfterNvram(mem) ==
    job' = [Over(IF job.kind = "cfe" THEN "idle" ELSE "reset") EXCEPT !.mem = mem]

(* kerSysNvRamSet keeps the rest of the sector; without memory it does nothing, and *)
(* its result is not looked at.                                                     *)
WriteBack ==
    /\ up /\ job.step = "nvram"
    /\ \/ /\ TRUE \in WritesBack
          /\ flash' = [flash EXCEPT ![0] = Erased]
          /\ job' = [job EXCEPT !.step = "nvwrite",
                                !.boot = BootSector(LoaderThere, WrittenBack)]
       \/ /\ TRUE \in WritesBack
          /\ AfterNvram(FALSE)
          /\ UNCHANGED flash
       \/ /\ FALSE \in WritesBack
          /\ AfterNvram(job.mem)
          /\ UNCHANGED flash
    /\ UNCHANGED <<fInfo, up, booted, updates>>
WriteBackDone ==
    /\ up /\ job.step = "nvwrite"
    /\ \/ flash' = [flash EXCEPT ![0] = job.boot]
       \/ 0 \in Worn /\ flash' = [flash EXCEPT ![0] = Erased]
    /\ AfterNvram(job.mem)
    /\ UNCHANGED <<fInfo, up, booted, updates>>

(* kerSysMipsSoftReset *)
Reset ==
    /\ up /\ job.step = "reset"
    /\ up' = FALSE
    /\ UNCHANGED <<flash, fInfo, booted, job, updates>>

-------------------------------------------------------------------------------------
(* Power fails; a sector that was being written holds anything. *)
PowerFails ==
    /\ up
    /\ up' = FALSE
    /\ flash' \in {flash} \cup
           IF job.step = "write"
           THEN {[flash EXCEPT ![SectorAt(job.blk)] = c] :
                     c \in {Junk} \cup IF SectorAt(job.blk) = 0 THEN {}
                                       ELSE {NewContents(job.blk, TRUE)}}
           ELSE IF job.step = "nvwrite" THEN {[flash EXCEPT ![0] = Junk]} ELSE {}
    /\ job' = IF job.step \in {"idle", "reset"} THEN job ELSE Over("cut")
    /\ UNCHANGED <<fInfo, booted, updates>>

(* The image the boot loader starts: the one the driver would choose, if it is whole. *)
Startable ==
    IF ~LoaderThere THEN {}
    ELSE {i \in UNION {BootImage(l) : l \in LineOf(flash[0].nv)} : Whole(i)}

(* The loader starts the image and the driver lays out the flash. *)
Boot ==
    /\ ~up
    /\ \E i \in Startable, psi \in PsiSizes :
        /\ flash[0].nv \in Lines => psi = fInfo["psi"].len
        /\ booted' = i
        /\ fInfo' = Layout(psi, EndOf(i))
    /\ up' = TRUE /\ job' = NoJob
    /\ UNCHANGED <<flash, updates>>

(* p= changed by a process, or at the console of a loader that starts nothing. *)
SetBootLine(line) ==
    /\ IF up THEN job.step = "idle" ELSE LoaderThere /\ Startable = {}
    /\ IsPart(flash[0]) /\ flash[0].nv # line
    /\ flash' = [flash EXCEPT ![0].nv = line]
    /\ UNCHANGED <<fInfo, up, booted, job, updates>>

UpdateStep ==
    \/ EraseSector \/ WriteSector \/ EraseTail \/ WriteBack \/ WriteBackDone \/ Reset

UpdateNext ==
    \/ \E len \in Lens :
        \/ FlashFs(len)
        \/ \E own \in {"latest", NoNvram} : FlashWhole(len, own)
    \/ \E own \in {"latest", NoNvram} : FlashCfe(own)
    \/ Refuse \/ UpdateStep \/ PowerFails \/ Boot
    \/ \E line \in Lines : SetBootLine(line)

UpdateSpec == UpdateInit /\ [][UpdateNext]_updateVars
UpdateFairSpec == UpdateSpec /\ WF_updateVars(UpdateStep) /\ WF_updateVars(Boot)

-------------------------------------------------------------------------------------
Nvrams == Lines \cup {Garbage, NoNvram}
Images == [id : 0 .. MaxUpdates, seq : 0 .. MaxUpdates, len : Lens \cup {1},
           at : {RootfsStart, HalfWay}]
BootSectors == [loader : BOOLEAN, nv : Nvrams]
Parts == [img : Images, idx : Sectors, cut : BOOLEAN]
Blanks == {Erased, Settings, Junk}
Jobs == [kind : {"none", "fs", "cfe", "whole"},
         step : {"idle", "erase", "write", "tail", "nvram", "nvwrite", "reset", "cut"},
         img : Images, cur : SUBSET Images, saved : Nvrams, boot : BootSectors \cup Blanks,
         blk : 0 .. NSect, mem : BOOLEAN]

(* Types of all variables. *)
UpdateTypeOK ==
    /\ DOMAIN flash = Sectors
    /\ flash[0] \in BootSectors \cup Blanks
    /\ \A b \in Sectors \ {0} : flash[b] \in Parts \cup Blanks
    /\ fInfo \in {Layout(psi, EndOf(booted)) : psi \in PsiSizes}
    /\ up \in BOOLEAN /\ booted \in Images /\ job \in Jobs
    /\ updates \in 0 .. MaxUpdates

(* An update of the file system that fits, as does the image it replaces, leaves    *)
(* the image that is running whole and with its tag, wherever it fails or power is  *)
(* cut: there is something left to boot.  It does so only if the image that would   *)
(* boot next is still the one that is running: no attempt since the start has       *)
(* failed, and p= was not changed (flashFsKernelImage).                             *)
RunningImageKept ==
    /\ job.kind = "fs" /\ job.cur = {booted}
    /\ FitsHalf(job.img.len) /\ FitsHalf(booted.len)
    => Whole(booted) /\ booted \in Tags

(* What the comment in flashFsKernelImage says: an update of an image that fits     *)
(* goes to "the partition that is not currently being used to boot from".           *)
PartitionInUseSpared ==
    /\ job.kind = "fs" /\ FitsHalf(job.img.len) /\ FitsHalf(booted.len)
    => Whole(booted)

(* The sections of the running system do not share a sector with its image, if that *)
(* is of a size flashFsKernelImage accepts: settings that are stored do not damage  *)
(* the kernel.  kerSysFlashInit only compares the scratch pad and Config 2 with the *)
(* sector the kernel ends in, so this rests on the size; a larger image, which      *)
(* BCM_IMAGE_WHOLE does not refuse, may lie under any section.                      *)
SectionsOffImage ==
    up /\ booted.len <= AvailableSizeOneImg =>
        \A s \in SectionNames : BlocksOf(fInfo[s]) \cap SectorsOf(booted) = {}

(* An update of the file system never writes to the sectors reserved at the end of  *)
(* the flash for settings, if half of the flash has room for its tag as well.       *)
ReservedKept ==
    /\ job.kind = "fs" /\ job.step \in {"erase", "write"}
    /\ FitsHalf(job.img.len) => FitsHalf(job.img.len + TagLen)
    => (job.blk + 1) * SectSize <= TotalSize - Reserved

(* An update that has come to its reset is what runs next: its sequence number, the *)
(* tags of both partitions and p= agree on it, and it is whole.  It needs a boot    *)
(* loader, valid NVRAM data, and the memory to read and change them.                *)
NewImageRuns ==
    \A n \in 1 .. MaxUpdates :
        /\ job.kind = "fs" /\ job.step = "reset" /\ job.mem /\ job.img.id = n
        /\ LoaderThere /\ NvramOf(flash[0]) \in Lines
        ~> up /\ booted.id = n
====================================================================================
