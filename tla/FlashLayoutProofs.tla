----------------------------- MODULE FlashLayoutProofs -----------------------------
(* Where kerSysFlashInit puts its sections, for every number and size of sectors.   *)
EXTENDS FlashLayout, TLAPS

(* Arithmetic of sectors *)

(* The sector of an address starts at or below it and ends above it. *)
LEMMA BlkBounds ==
    ASSUME NEW a \in Int
    PROVE  /\ flash_get_blk(a) \in Int
           /\ SectSize * flash_get_blk(a) <= a
           /\ a < SectSize * flash_get_blk(a) + SectSize
BY LayoutAssumption DEF flash_get_blk

(* An address below the start of sector q is in a sector before q. *)
LEMMA BlkBelow ==
    ASSUME NEW a \in Int, NEW q \in Int, a < SectSize * q
    PROVE  flash_get_blk(a) < q
BY LayoutAssumption DEF flash_get_blk

(* An address from the start of sector q on is in sector q or after it. *)
LEMMA BlkAtLeast ==
    ASSUME NEW a \in Int, NEW q \in Int, a >= SectSize * q
    PROVE  flash_get_blk(a) >= q
BY LayoutAssumption DEF flash_get_blk

(* Sectors and addresses are ordered alike. *)
LEMMA BlkMonotone ==
    ASSUME NEW a \in Int, NEW b \in Int, a <= b
    PROVE  flash_get_blk(a) <= flash_get_blk(b)
<1>1. /\ flash_get_blk(a) \in Int /\ flash_get_blk(b) \in Int
      /\ SectSize * flash_get_blk(a) <= a
  BY BlkBounds
<1>2. b >= SectSize * flash_get_blk(a)
  BY <1>1, LayoutAssumption
<1> QED BY <1>1, <1>2, BlkAtLeast

(* The start of a sector is in the sector, and what lies less than a sector before  *)
(* it is in the sector before.                                                      *)
LEMMA BlkOfStart ==
    ASSUME NEW q \in Int, NEW n \in 1 .. SectSize
    PROVE  /\ flash_get_blk(SectSize * q) = q
           /\ flash_get_blk(SectSize * q - n) = q - 1
BY LayoutAssumption DEF flash_get_blk

LEMMA TotalIsInt == TotalSize \in Nat /\ TotalSize = SectSize * NSect
BY LayoutAssumption DEF TotalSize

-------------------------------------------------------------------------------------
(* The persistent data take the last sectors. *)
LEMMA PersistentPlace ==
    ASSUME NEW psi \in Nat, psi >= 1
    PROVE  LET sec == PersistentSection(psi)
           IN  /\ sec = Section(sec.start, sec.num, sec.off, sec.len)
               /\ sec.start = flash_get_blk(TotalSize - psi)
               /\ sec.start \in Int /\ sec.start < NSect
               /\ sec.num = NSect - sec.start
               /\ sec.off \in Int /\ sec.len = psi
<1> DEFINE sec == PersistentSection(psi)
<1>1. /\ sec.start = flash_get_blk(TotalSize - psi)
      /\ sec.num = NSect - sec.start
      /\ sec.off = (NSect - sec.start) * SectSize - psi
      /\ sec.len = psi
      /\ sec = Section(sec.start, sec.num, sec.off, sec.len)
  BY DEF PersistentSection, Section
<1>2. TotalSize - psi \in Int /\ TotalSize - psi < SectSize * NSect
  BY TotalIsInt, LayoutAssumption
<1>3. sec.start \in Int /\ sec.start < NSect
  BY <1>1, <1>2, BlkBounds, BlkBelow, LayoutAssumption
<1>4. sec.off \in Int
  BY <1>1, <1>3, LayoutAssumption
<1> QED BY <1>1, <1>3, <1>4

(* The scratch pad is in the first sector of the persistent data or in the sector    *)
(* before; there is none where the kernel ends.                                      *)
LEMMA PadPlace ==
    ASSUME NEW psi \in Nat, psi >= 1, NEW kernelEnd \in Int
    PROVE  LET sec  == ScratchPadSection(psi, kernelEnd)
               pers == PersistentSection(psi)
           IN  /\ sec.start = flash_get_blk(TotalSize - psi - SpMaxLen)
               /\ sec.start \in Int /\ sec.start \in {pers.start, pers.start - 1}
               /\ sec.off \in Int
               /\ \/ /\ sec.start = flash_get_blk(kernelEnd)
                     /\ sec.num = 0 /\ sec.len = 0
                  \/ /\ sec.start # flash_get_blk(kernelEnd)
                     /\ sec.num = 1 /\ sec.len = SpMaxLen
<1> DEFINE sec   == ScratchPadSection(psi, kernelEnd)
           pers  == PersistentSection(psi)
           start == flash_get_blk(TotalSize - psi - SpMaxLen)
<1>1. /\ pers.start = flash_get_blk(TotalSize - psi) /\ pers.start \in Int
      /\ pers.off \in Int
  BY PersistentPlace
<1>2. /\ TotalSize - psi \in Int /\ TotalSize - psi - SpMaxLen \in Int
      /\ TotalSize - psi - SpMaxLen <= TotalSize - psi
  BY TotalIsInt, LayoutAssumption
<1>3. start \in Int /\ start <= pers.start
  BY <1>1, <1>2, BlkBounds, BlkMonotone
<1>4. TotalSize - psi - SpMaxLen >= SectSize * (pers.start - 1)
  <2>1. SectSize * pers.start <= TotalSize - psi
    BY <1>1, <1>2, BlkBounds
  <2> QED BY <1>1, <1>2, <2>1, LayoutAssumption
<1>5. start >= pers.start - 1
  BY <1>1, <1>2, <1>4, BlkAtLeast
<1>6. start \in {pers.start, pers.start - 1}
  BY <1>1, <1>3, <1>5
<1>7. CASE start = flash_get_blk(kernelEnd)
  BY <1>3, <1>6, <1>7 DEF ScratchPadSection, NoSection, Section
<1>8. CASE start # flash_get_blk(kernelEnd) /\ start = pers.start
  BY <1>1, <1>3, <1>6, <1>8, LayoutAssumption DEF ScratchPadSection, Section
<1>9. CASE start # flash_get_blk(kernelEnd) /\ start = pers.start - 1
  <2>1. sec = Section(start, pers.start - start,
                      (pers.start - start) * SectSize - SpMaxLen, SpMaxLen)
    BY <1>1, <1>9 DEF ScratchPadSection
  <2>2. pers.start - start = 1
    BY <1>1, <1>9
  <2>3. /\ sec.start = start /\ sec.num = 1 /\ sec.len = SpMaxLen
        /\ sec.off = SectSize - SpMaxLen
    BY <2>1, <2>2, LayoutAssumption DEF Section
  <2> QED BY <1>3, <1>6, <1>9, <2>3, LayoutAssumption
<1> QED BY <1>6, <1>7, <1>8, <1>9

(* The sectors from q on hold the persistent data and the pad: Config 2 ends before. *)
TailStart(psi, kernelEnd) ==
    LET sp == ScratchPadSection(psi, kernelEnd)
    IN  IF sp.num = 0 THEN PersistentSection(psi).start ELSE sp.start

LEMMA TailIsWhole ==
    ASSUME NEW psi \in Nat, psi >= 1, NEW kernelEnd \in Int
    PROVE  /\ TailStart(psi, kernelEnd) \in Int
           /\ TotalSize - TailSize(psi, kernelEnd) = SectSize * TailStart(psi, kernelEnd)
<1> DEFINE sp   == ScratchPadSection(psi, kernelEnd)
           pers == PersistentSection(psi)
<1>1. pers.start \in Int /\ pers.num = NSect - pers.start
  BY PersistentPlace
<1>2. /\ sp.start \in Int /\ sp.start \in {pers.start, pers.start - 1}
      /\ sp.num \in {0, 1}
  BY PadPlace
<1>3. TailSize(psi, kernelEnd) = (pers.num + IF sp.start = pers.start THEN 0 ELSE sp.num)
                                    * SectSize
  BY DEF TailSize
<1> QED BY <1>1, <1>2, <1>3, LayoutAssumption DEF TailStart, TotalSize

(* Config 2 is before the pad, and there is none where the kernel ends. *)
LEMMA DarePlace ==
    ASSUME NEW psi \in Nat, psi >= 1, NEW kernelEnd \in Int
    PROVE  LET sec == DareSection(psi, kernelEnd)
               sp  == ScratchPadSection(psi, kernelEnd)
           IN  /\ sec.start = flash_get_blk(SectSize * TailStart(psi, kernelEnd) - psi)
               /\ sec.start \in Int /\ sec.off \in Int
               /\ \/ /\ sec.start = flash_get_blk(kernelEnd)
                     /\ sec.num = 0 /\ sec.len = 0
                  \/ /\ sec.start # flash_get_blk(kernelEnd)
                     /\ sec.num = sp.start - sec.start
                     /\ sec.start < sp.start /\ sec.len = psi
<1> DEFINE sec   == DareSection(psi, kernelEnd)
           sp    == ScratchPadSection(psi, kernelEnd)
           pers  == PersistentSection(psi)
           t     == TailStart(psi, kernelEnd)
           start == flash_get_blk(SectSize * t - psi)
<1>1. t \in Int /\ TotalSize - TailSize(psi, kernelEnd) - psi = SectSize * t - psi
  BY TailIsWhole
<1>2. SectSize * t - psi \in Int /\ SectSize * t - psi < SectSize * t
  BY <1>1, LayoutAssumption
<1>3. start \in Int /\ start < t
  BY <1>1, <1>2, BlkBounds, BlkBelow
<1>4. /\ sp.start \in Int /\ pers.start \in Int
      /\ sp.start \in {pers.start, pers.start - 1}
      /\ sp.num # 0 \/ sp.start = flash_get_blk(kernelEnd)
  BY PadPlace, PersistentPlace
<1>5. start < sp.start \/ start = flash_get_blk(kernelEnd)
  BY <1>3, <1>4 DEF TailStart
<1>6. sec = IF start = flash_get_blk(kernelEnd) THEN NoSection(start)
            ELSE Section(start, sp.start - start, (sp.start - start) * SectSize - psi, psi)
  BY <1>1 DEF DareSection
<1>7. (sp.start - start) * SectSize - psi \in Int
  BY <1>3, <1>4, LayoutAssumption
<1> HIDE DEF sp, start, t, pers
<1>8. CASE start = flash_get_blk(kernelEnd)
  BY <1>3, <1>6, <1>8 DEF NoSection, Section, start, t, sp
<1>9. CASE start # flash_get_blk(kernelEnd)
  <2>1. sec = Section(start, sp.start - start, (sp.start - start) * SectSize - psi, psi)
    BY <1>6, <1>9
  <2>2. /\ sec.start = start /\ sec.num = sp.start - start /\ sec.len = psi
        /\ sec.off = (sp.start - start) * SectSize - psi
    BY <2>1 DEF Section
  <2> QED BY <1>3, <1>5, <1>7, <1>9, <2>2 DEF start, t, sp
<1> QED BY <1>8, <1>9

-------------------------------------------------------------------------------------
(* If the sections fit before the sector of the boot loader, each is a section of   *)
(* the flash, and one with a length has a sector.                                   *)
LEMMA SectionsInFlash ==
    ASSUME NEW psi \in Nat, psi >= 1, NEW kernelEnd \in Int,
           2 * psi + SpMaxLen + 2 * SectSize <= TotalSize,
           NEW s \in SectionNames
    PROVE  LET sec == Layout(psi, kernelEnd)[s]
           IN  /\ sec.start \in Int /\ sec.num \in Int
               /\ sec.off \in Int /\ sec.len \in Nat
               /\ BlocksOf(sec) \subseteq Sectors
               /\ sec.len > 0 => sec.num > 0
               /\ s # "nvram" => 0 \notin BlocksOf(sec)
<1> DEFINE sec  == Layout(psi, kernelEnd)[s]
           pers == PersistentSection(psi)
           sp   == ScratchPadSection(psi, kernelEnd)
           dare == DareSection(psi, kernelEnd)
<1>1. /\ pers.start \in Int /\ pers.num \in Int /\ pers.off \in Int /\ pers.len = psi
      /\ pers.start < NSect /\ pers.num = NSect - pers.start
      /\ pers.start = flash_get_blk(TotalSize - psi)
  BY PersistentPlace, LayoutAssumption
<1>2. /\ sp.start \in Int /\ sp.off \in Int /\ sp.start \in {pers.start, pers.start - 1}
      /\ (sp.num = 0 /\ sp.len = 0) \/ (sp.num = 1 /\ sp.len = SpMaxLen)
      /\ sp.start = flash_get_blk(TotalSize - psi - SpMaxLen)
  BY PadPlace
<1>3. /\ dare.start \in Int /\ dare.off \in Int
      /\ dare.start = flash_get_blk(SectSize * TailStart(psi, kernelEnd) - psi)
      /\ \/ dare.num = 0 /\ dare.len = 0
         \/ dare.num = sp.start - dare.start /\ dare.start < sp.start /\ dare.len = psi
  BY DarePlace
<1>4. pers.start >= 1 /\ sp.start >= 1
  <2>1. /\ TotalSize - psi \in Int /\ TotalSize - psi >= SectSize * 1
        /\ TotalSize - psi - SpMaxLen \in Int /\ TotalSize - psi - SpMaxLen >= SectSize * 1
    BY TotalIsInt, LayoutAssumption
  <2> QED BY <1>1, <1>2, <2>1, BlkAtLeast
<1>5. dare.start >= 1
  <2> DEFINE t == TailStart(psi, kernelEnd)
  <2>1. t \in Int /\ t >= sp.start
    BY <1>1, <1>2 DEF TailStart
  <2>2. SectSize * t >= SectSize * sp.start
    BY <2>1, <1>2, LayoutAssumption
  <2>3. TotalSize - psi - SpMaxLen < SectSize * sp.start + SectSize
    BY <1>2, BlkBounds, TotalIsInt, LayoutAssumption
  <2> HIDE DEF t
  <2>4. SectSize * t \in Int /\ SectSize * sp.start \in Int
    BY <2>1, <1>2, LayoutAssumption
  <2>5. SectSize * t - psi \in Int /\ SectSize * t - psi >= SectSize * 1
    BY <2>2, <2>3, <2>4, TotalIsInt, LayoutAssumption
  <2> QED BY <1>3, <2>5, BlkAtLeast DEF t
<1>6. CASE s = "nvram"
  BY <1>6, LayoutAssumption DEF Layout, SectionNames, NvramSection, Section, BlocksOf, Sectors
<1>7. CASE s = "psi"
  BY <1>1, <1>4, <1>7, LayoutAssumption DEF Layout, SectionNames, BlocksOf, Sectors
<1>8. CASE s \in {"sp", "dare"} /\ kernelEnd < 0
  BY <1>8, LayoutAssumption DEF Layout, SectionNames, NoSection, Section, BlocksOf, Sectors
<1>9. CASE s = "sp" /\ ~(kernelEnd < 0)
  BY <1>1, <1>2, <1>4, <1>9, LayoutAssumption DEF Layout, SectionNames, BlocksOf, Sectors
<1>10. CASE s = "dare" /\ ~(kernelEnd < 0)
  <2>1. sec = dare
    BY <1>10 DEF Layout, SectionNames
  <2> HIDE DEF dare, sp, pers
  <2>2. sp.start \in Int /\ sp.start <= NSect - 1
    BY <1>1, <1>2, LayoutAssumption
  <2>3. CASE dare.num = 0 /\ dare.len = 0
    BY <1>3, <1>10, <2>1, <2>3 DEF BlocksOf, Sectors
  <2>4. CASE dare.num = sp.start - dare.start /\ dare.start < sp.start /\ dare.len = psi
    BY <1>3, <1>5, <1>10, <2>1, <2>2, <2>4, LayoutAssumption DEF BlocksOf, Sectors
  <2> QED BY <1>3, <2>3, <2>4
<1> QED BY <1>6, <1>7, <1>8, <1>9, <1>10 DEF SectionNames
====================================================================================
