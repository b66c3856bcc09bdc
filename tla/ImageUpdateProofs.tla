----------------------------- MODULE ImageUpdateProofs ------------------------------
(* Updates never touch the image that runs unless they say so, the reserved sectors, *)
(* or the settings of the running system, for every flash, image and sequence of     *)
(* updates, failures and restarts.                                                   *)
EXTENDS ImageUpdate, FlashLayoutProofs

(* An image as it was offered.  Updates of the file system have sequence numbers     *)
(* from 1 on, and their size is checked for the partition; partition two is written  *)
(* by them only.  A whole image has any size.                                        *)
Checked(i) ==
    /\ i \in Images /\ i.len \in Lens /\ i.seq <= i.id
    /\ i.seq >= 1 => i.len <= AvailableSizeOneImg
    /\ i.at = HalfWay => FitsHalf(i.len) /\ i.seq >= 1

(* A part of an image is where it belongs. *)
PartPlaced(b) ==
    IsPart(flash[b]) =>
        LET i == flash[b].img
        IN  /\ flash[b] \in Parts /\ flash[b].idx = b - i.at
            /\ Checked(i) /\ i.id <= updates

Writing == job.step \in {"erase", "write"}

(* A request writes a new image, in its sectors, or from the start of the flash on. *)
JobPlaced ==
    /\ job.kind \in {"fs", "whole"} /\ job.step \in {"erase", "write", "tail"} =>
          /\ Checked(job.img) /\ booted.id < job.img.id /\ job.img.id <= updates
    /\ job.kind = "fs" => job.step # "tail"
    /\ Writing =>
        /\ job.kind \in {"fs", "cfe", "whole"}
        /\ job.kind = "fs" => job.img.seq >= 1 /\ job.blk \in SectorsOf(job.img)
        /\ job.kind = "whole" => /\ job.img.at = RootfsStart /\ job.img.seq = 0
                                  /\ job.blk \in {0} \cup SectorsOf(job.img)
        /\ job.kind = "cfe" => job.blk = 0
    /\ job.step = "nvwrite" => job.boot \in BootSectors

(* The image that was started is whole as long as its tag is there: the tag is what  *)
(* a request that overwrites it erases first.                                        *)
TagMeansWhole == booted \in Tags => Whole(booted)
NotYetReached ==
    booted \in Tags /\ job.step \in {"erase", "write", "tail"} =>
        job.blk <= booted.at \/ \A b \in SectorsOf(booted) : b < job.blk

(* The partitions never have images with one sequence number. *)
SequencesDiffer ==
    /\ \A one \in TagAt(RootfsStart), two \in TagAt(HalfWay) : one.seq # two.seq
    /\ Writing /\ job.kind = "fs" => \A t \in Tags : t = job.img \/ t.seq < job.img.seq

(* An update beside the running image. *)
Beside ==
    /\ job.kind = "fs" /\ job.cur = {booted}
    /\ FitsHalf(job.img.len) /\ FitsHalf(booted.len)
    => /\ booted \in Tags
       /\ Writing => SectorsOf(job.img) \cap SectorsOf(booted) = {}

(* The inductive invariant. *)
ImageInv ==
    /\ UpdateTypeOK
    /\ Checked(booted) /\ booted.id <= updates /\ SectorsOf(booted) \subseteq Sectors
    /\ \A b \in Sectors \ {0} : PartPlaced(b)
    /\ JobPlaced
    /\ TagMeansWhole /\ NotYetReached
    /\ SequencesDiffer /\ Beside

-------------------------------------------------------------------------------------
(* Sizes and sectors *)

(* The larger of two numbers, and the end of an interval. *)
LEMMA MaxOfTwo ==
    ASSUME NEW m \in Int, NEW n \in Int, m <= n
    PROVE  Max({m, n}) = n
<1>1. n \in {m, n} /\ \A y \in {m, n} : n >= y
  OBVIOUS
<1>2. \A x \in {m, n} : (\A y \in {m, n} : x >= y) => x = n
  OBVIOUS
<1> QED BY <1>1, <1>2 DEF Max

LEMMA MaxOfInterval ==
    ASSUME NEW m \in Int, NEW n \in Int, m <= n
    PROVE  Max(m .. n) = n
<1>1. n \in m .. n /\ \A y \in m .. n : n >= y
  OBVIOUS
<1>2. \A x \in m .. n : (\A y \in m .. n : x >= y) => x = n
  OBVIOUS
<1> QED BY <1>1, <1>2 DEF Max

(* The second partition starts in the middle, at most half a sector too early. *)
LEMMA HalfWayPlace ==
    /\ HalfWay \in Int /\ 2 <= HalfWay
    /\ SectSize * HalfWay <= TotalSize \div 2
    /\ 2 * (TotalSize \div 2) <= 2 * (SectSize * HalfWay) + SectSize
    /\ TotalSize \div 2 \in Nat /\ 2 * (TotalSize \div 2) <= TotalSize
<1> DEFINE h == TotalSize \div 2
<1>1. h \in Nat /\ 2 * h <= TotalSize /\ TotalSize < 2 * h + 2
  BY TotalIsInt
<1>2. HalfWay = flash_get_blk(h)
  BY DEF HalfWay
<1> HIDE DEF h
<1>3. /\ HalfWay \in Int /\ SectSize * HalfWay <= h
  BY <1>1, <1>2, BlkBounds
<1>4. h >= SectSize * 2
  <2>1. SectSize * NSect >= SectSize * 4
    BY UpdateAssumption, LayoutAssumption
  <2> QED BY <1>1, <2>1, TotalIsInt, LayoutAssumption
<1>5. HalfWay >= 2
  BY <1>1, <1>2, <1>4, BlkAtLeast
<1>6. 2 * h <= 2 * (SectSize * HalfWay) + SectSize
  <2>1. PICK k \in Nat : NSect = 2 * k \/ NSect = 2 * k + 1
    <3>1. NSect \div 2 \in Nat /\ (NSect = 2 * (NSect \div 2) \/ NSect = 2 * (NSect \div 2) + 1)
      BY LayoutAssumption
    <3> QED BY <3>1
  <2>2. SectSize * k \in Nat
    BY LayoutAssumption
  <2>3. CASE NSect = 2 * k
    <3>1. SectSize * NSect = 2 * (SectSize * k)
      BY <2>3, LayoutAssumption
    <3>2. h >= SectSize * k /\ 2 * h <= 2 * (SectSize * k)
      BY <1>1, <2>2, <3>1, TotalIsInt
    <3>3. HalfWay >= k
      BY <1>1, <1>2, <3>2, BlkAtLeast
    <3>4. SectSize * HalfWay >= SectSize * k
      BY <1>3, <3>3, LayoutAssumption
    <3> QED BY <1>1, <1>3, <2>2, <3>2, <3>4, LayoutAssumption
  <2>4. CASE NSect = 2 * k + 1
    <3>1. SectSize * NSect = 2 * (SectSize * k) + SectSize
      BY <2>4, LayoutAssumption
    <3>2. h >= SectSize * k /\ 2 * h <= 2 * (SectSize * k) + SectSize
      BY <1>1, <2>2, <3>1, TotalIsInt, LayoutAssumption
    <3>3. HalfWay >= k
      BY <1>1, <1>2, <3>2, BlkAtLeast
    <3>4. SectSize * HalfWay >= SectSize * k
      BY <1>3, <3>3, LayoutAssumption
    <3> QED BY <1>1, <1>3, <2>2, <3>2, <3>4, LayoutAssumption
  <2> QED BY <2>1, <2>3, <2>4
<1> QED BY <1>1, <1>3, <1>5, <1>6 DEF h

(* What the size checks of flashFsKernelImage amount to. *)
LEMMA Sizes ==
    /\ AvailableSizeOneImg = TotalSize - 3 * SectSize - TagLen
    /\ AvailableSizeTwoImgs = TotalSize \div 2 - 2 * SectSize
<1>1. Max({RootfsStart * SectSize, Reserved}) = 2 * SectSize
  <2>1. RootfsStart * SectSize = SectSize /\ Reserved = 2 * SectSize
    BY UpdateAssumption, LayoutAssumption DEF RootfsStart
  <2> QED BY <2>1, MaxOfTwo, LayoutAssumption
<1> QED BY <1>1, TotalIsInt, UpdateAssumption, LayoutAssumption
        DEF AvailableSizeOneImg, AvailableSizeTwoImgs, RootfsStart

(* An image starts with its tag, after the boot loader. *)
LEMMA CheckedPlace ==
    ASSUME NEW i, Checked(i)
    PROVE  /\ i.at \in {RootfsStart, HalfWay} /\ i.at \in Int /\ i.at >= 1
           /\ i.len \in Nat \ {0}
           /\ EndOf(i) = SectSize * i.at + TagLen + i.len /\ SectSize * i.at \in Int
           /\ EndOf(i) \in Int /\ EndOf(i) > SectSize * i.at
           /\ SectorsOf(i) = i.at .. flash_get_blk(EndOf(i) - 1)
           /\ flash_get_blk(EndOf(i) - 1) \in Int
           /\ flash_get_blk(EndOf(i) - 1) >= i.at
<1>1. /\ i.at \in {RootfsStart, HalfWay} /\ i.len \in Nat \ {0}
  BY UpdateAssumption DEF Checked, Images
<1>2. i.at \in Int /\ i.at >= 1
  BY <1>1, HalfWayPlace DEF RootfsStart
<1>3. TagLen \in Nat /\ TagLen >= 1 /\ SectSize \in Nat
  BY UpdateAssumption, LayoutAssumption
<1>4. SectSize * i.at \in Int /\ i.at * SectSize = SectSize * i.at
  BY <1>2, <1>3
<1>5. EndOf(i) = SectSize * i.at + TagLen + i.len /\ EndOf(i) \in Int
  BY <1>1, <1>3, <1>4 DEF EndOf
<1>6. EndOf(i) > SectSize * i.at
  BY <1>1, <1>3, <1>4, <1>5
<1>7. EndOf(i) - 1 \in Int /\ EndOf(i) - 1 >= SectSize * i.at
  BY <1>4, <1>5, <1>6
<1>8. flash_get_blk(EndOf(i) - 1) \in Int /\ flash_get_blk(EndOf(i) - 1) >= i.at
  BY <1>2, <1>7, BlkBounds, BlkAtLeast
<1> QED BY <1>1, <1>2, <1>4, <1>5, <1>6, <1>8 DEF SectorsOf

LEMMA CheckedSectors ==
    ASSUME NEW i, Checked(i)
    PROVE  /\ SectorsOf(i) \subseteq Nat \ {0} /\ i.at \in SectorsOf(i)
           /\ Max(SectorsOf(i)) \in SectorsOf(i)
           /\ \A b \in SectorsOf(i) : b >= i.at /\ b <= Max(SectorsOf(i))
           /\ \A b \in SectorsOf(i) : b < Max(SectorsOf(i)) => b + 1 \in SectorsOf(i)
BY CheckedPlace, MaxOfInterval

(* One that flashFsKernelImage accepts ends before the last sector. *)
LEMMA AcceptedPlace ==
    ASSUME NEW i, Checked(i), i.len <= AvailableSizeOneImg
    PROVE  /\ EndOf(i) <= TotalSize - 2 * SectSize + TagLen
           /\ flash_get_blk(EndOf(i) - 1) <= NSect - 2
           /\ SectorsOf(i) \subseteq Sectors
<1>1. /\ TagLen \in Nat /\ 2 * TagLen <= SectSize /\ TagLen >= 1
      /\ SectSize \in Nat /\ NSect \in Nat /\ TotalSize \in Nat
  BY UpdateAssumption, LayoutAssumption, TotalIsInt
<1>2. /\ i.at \in {RootfsStart, HalfWay} /\ i.at \in Int /\ i.at >= 1 /\ i.len \in Nat
      /\ EndOf(i) = SectSize * i.at + TagLen + i.len /\ SectSize * i.at \in Int
      /\ EndOf(i) \in Int /\ flash_get_blk(EndOf(i) - 1) \in Int
      /\ SectorsOf(i) = i.at .. flash_get_blk(EndOf(i) - 1)
  BY CheckedPlace
<1>3. EndOf(i) <= TotalSize - 2 * SectSize + TagLen
  <2>1. CASE i.at = HalfWay
    <3>1. i.len <= TotalSize \div 2 - 2 * SectSize
      BY <2>1, Sizes DEF Checked, FitsHalf
    <3> QED BY <1>1, <1>2, <2>1, <3>1, HalfWayPlace
  <2>2. CASE i.at = RootfsStart
    <3>1. i.len <= TotalSize - 3 * SectSize - TagLen
      BY Sizes
    <3>2. SectSize * i.at = SectSize
      BY <1>1, <2>2 DEF RootfsStart
    <3>3. EndOf(i) = SectSize + TagLen + i.len /\ i.len \in Nat
      BY <1>2, <3>2
    <3> QED BY <1>1, <3>1, <3>3
  <2> QED BY <1>2, <2>1, <2>2
<1>4. EndOf(i) - 1 \in Int /\ EndOf(i) - 1 < SectSize * (NSect - 1)
  <2>1. SectSize * (NSect - 1) = TotalSize - SectSize
    BY <1>1, TotalIsInt
  <2> QED BY <1>1, <1>2, <1>3, <2>1
<1>5. flash_get_blk(EndOf(i) - 1) < NSect - 1
  BY <1>1, <1>4, BlkBelow
<1>6. flash_get_blk(EndOf(i) - 1) <= NSect - 2
  BY <1>1, <1>2, <1>5
<1>7. SectorsOf(i) \subseteq Sectors
  <2>1. PICK last \in Int : last = flash_get_blk(EndOf(i) - 1)
    BY <1>2
  <2>2. last <= NSect - 2 /\ SectorsOf(i) = i.at .. last /\ i.at \in Int /\ i.at >= 1
    BY <1>2, <1>6, <2>1
  <2> QED BY <1>1, <2>2 DEF Sectors
<1> QED BY <1>3, <1>6, <1>7

(* An image that fits half of the flash ends before the second partition. *)
LEMMA HalfApart ==
    ASSUME NEW i, Checked(i), i.at = RootfsStart, FitsHalf(i.len)
    PROVE  \A b \in SectorsOf(i) : b < HalfWay
<1>1. /\ TagLen \in Nat /\ 2 * TagLen <= SectSize /\ SectSize \in Nat
      /\ i.len \in Nat /\ HalfWay \in Int
  BY UpdateAssumption, LayoutAssumption, CheckedPlace, HalfWayPlace
<1>2. i.len <= TotalSize \div 2 - 2 * SectSize
  BY Sizes DEF FitsHalf
<1>3. EndOf(i) = SectSize + TagLen + i.len
  BY <1>1 DEF EndOf, RootfsStart
<1>4. SectSize * HalfWay \in Int
  BY <1>1
<1>5. EndOf(i) - 1 \in Int /\ EndOf(i) - 1 < SectSize * HalfWay
  BY <1>1, <1>2, <1>3, <1>4, HalfWayPlace
<1>6. flash_get_blk(EndOf(i) - 1) < HalfWay
  BY <1>1, <1>5, BlkBelow
<1> QED BY <1>1, <1>6, CheckedPlace

(* No section of a system shares a sector with its image: what would start in the   *)
(* sector where the kernel ends is left out.                                        *)
LEMMA SectionsOff ==
    ASSUME NEW i, Checked(i), i.len <= AvailableSizeOneImg, NEW psi \in PsiSizes, NEW s \in SectionNames
    PROVE  BlocksOf(Layout(psi, EndOf(i))[s]) \cap SectorsOf(i) = {}
<1> DEFINE last == flash_get_blk(EndOf(i) - 1)
           kb   == flash_get_blk(EndOf(i))
           pers == PersistentSection(psi)
           sp   == ScratchPadSection(psi, EndOf(i))
           dare == DareSection(psi, EndOf(i))
<1>1. /\ psi \in Nat /\ psi >= 1 /\ psi \in 1 .. SectSize /\ NSect \in Nat
      /\ SectSize \in Nat /\ SectSize >= 1
  BY UpdateAssumption, LayoutAssumption
<1>2. /\ EndOf(i) \in Int /\ SectorsOf(i) = i.at .. last /\ i.at \in Int /\ i.at >= 1
      /\ last \in Int /\ last <= NSect - 2 /\ EndOf(i) > SectSize * i.at
  BY CheckedPlace, AcceptedPlace
<1>3. kb \in Int /\ last <= kb /\ kb <= last + 1 /\ kb <= NSect - 2
  <2>1. EndOf(i) - 1 \in Int /\ EndOf(i) - 1 <= EndOf(i)
    BY <1>2
  <2>2. kb \in Int /\ last <= kb
    BY <1>2, <2>1, BlkBounds, BlkMonotone
  <2>3. EndOf(i) < SectSize * (last + 2)
    <3>1. EndOf(i) - 1 < SectSize * last + SectSize
      BY <2>1, BlkBounds
    <3>2. SectSize * (last + 2) = SectSize * last + 2 * SectSize
      BY <1>1, <1>2
    <3> QED BY <1>1, <1>2, <3>1, <3>2
  <2>4. kb < last + 2
    BY <1>2, <2>3, BlkBelow
  <2>5. EndOf(i) < SectSize * (NSect - 1)
    <3>1. EndOf(i) <= TotalSize - 2 * SectSize + TagLen
      BY AcceptedPlace
    <3>2. SectSize * (NSect - 1) = TotalSize - SectSize
      BY <1>1, TotalIsInt
    <3> QED BY <1>1, <1>2, <3>1, <3>2, UpdateAssumption, TotalIsInt
  <2>6. kb < NSect - 1
    BY <1>1, <1>2, <2>5, BlkBelow
  <2> QED BY <1>1, <1>2, <2>2, <2>4, <2>6
<1>4. pers.start = NSect - 1 /\ pers.num = 1
  <2>1. TotalSize - psi = SectSize * NSect - psi
    BY TotalIsInt
  <2>2. PICK q \in Int : q = NSect
    BY <1>1
  <2>3. flash_get_blk(SectSize * q - psi) = q - 1
    BY <1>1, BlkOfStart
  <2> QED BY <1>1, <2>1, <2>2, <2>3, PersistentPlace
<1>5. /\ sp.start \in {NSect - 1, NSect - 2}
      /\ (sp.start = kb /\ sp.num = 0) \/ (sp.start # kb /\ sp.num = 1)
  BY <1>1, <1>2, <1>4, PadPlace
<1>6. /\ dare.start = TailStart(psi, EndOf(i)) - 1
      /\ TailStart(psi, EndOf(i)) = IF sp.num = 0 THEN pers.start ELSE sp.start
      /\ \/ dare.num = 0
         \/ dare.start # kb /\ dare.num = sp.start - dare.start /\ dare.start < sp.start
  <2>1. TailStart(psi, EndOf(i)) \in Int
    BY <1>1, <1>2, TailIsWhole
  <2>2. flash_get_blk(SectSize * TailStart(psi, EndOf(i)) - psi) = TailStart(psi, EndOf(i)) - 1
    BY <1>1, <2>1, BlkOfStart
  <2>3. TailStart(psi, EndOf(i)) = IF sp.num = 0 THEN pers.start ELSE sp.start
    BY DEF TailStart
  <2> QED BY <1>1, <1>2, <2>2, <2>3, DarePlace
<1>7. EndOf(i) >= 0
  <2>1. SectSize * i.at >= 0
    BY <1>1, <1>2
  <2> QED BY <1>1, <1>2, <2>1
<1> DEFINE L == Layout(psi, EndOf(i))
<1>8. /\ L["psi"] = pers /\ L["sp"] = sp /\ L["dare"] = dare
      /\ BlocksOf(L["nvram"]) = {0}
  BY <1>2, <1>7 DEF Layout, SectionNames, BlocksOf, NvramSection, Section
<1> HIDE DEF L, pers, sp, dare, kb, last
<1>9. CASE s = "nvram"
  BY <1>2, <1>8, <1>9 DEF L
<1>10. CASE s = "psi"
  BY <1>1, <1>2, <1>4, <1>8, <1>10 DEF L, BlocksOf
<1>11. CASE s = "sp"
  BY <1>1, <1>2, <1>3, <1>5, <1>8, <1>11 DEF L, BlocksOf
<1>12. CASE s = "dare"
  BY <1>1, <1>2, <1>3, <1>4, <1>5, <1>6, <1>8, <1>12, SMTT(30) DEF L, BlocksOf
<1> QED BY <1>9, <1>10, <1>11, <1>12 DEF SectionNames

(* A checked image with room for its tag leaves the reserved sectors alone. *)
LEMMA ReservedFree ==
    ASSUME NEW i, Checked(i), i.len <= AvailableSizeOneImg,
           FitsHalf(i.len) => FitsHalf(i.len + TagLen), NEW b \in SectorsOf(i)
    PROVE  (b + 1) * SectSize <= TotalSize - Reserved
<1>1. /\ i.at \in {RootfsStart, HalfWay} /\ i.at \in Int /\ i.len \in Nat
      /\ TagLen \in Nat /\ SectSize \in Nat /\ NSect \in Nat
      /\ Reserved = 2 * SectSize
  BY CheckedPlace, UpdateAssumption, LayoutAssumption DEF Checked, Images
<1>2. SectSize * i.at \in Int /\ EndOf(i) = SectSize * i.at + TagLen + i.len
  BY <1>1 DEF EndOf
<1>3. EndOf(i) <= TotalSize - 2 * SectSize
  <2>1. CASE i.at = HalfWay
    <3>1. i.len + TagLen <= TotalSize \div 2 - 2 * SectSize
      BY <2>1, Sizes DEF Checked, FitsHalf
    <3> QED BY <1>1, <1>2, <2>1, <3>1, HalfWayPlace, TotalIsInt
  <2>2. CASE i.at = RootfsStart
    <3>1. i.len <= TotalSize - 3 * SectSize - TagLen
      BY Sizes
    <3>2. SectSize * i.at = SectSize
      BY <1>1, <2>2 DEF RootfsStart
    <3> QED BY <1>1, <1>2, <3>1, <3>2, TotalIsInt
  <2> QED BY <1>1, <2>1, <2>2
<1>4. EndOf(i) - 1 \in Int /\ EndOf(i) - 1 < SectSize * (NSect - 2)
  <2>1. SectSize * (NSect - 2) = TotalSize - 2 * SectSize
    BY <1>1, TotalIsInt
  <2> QED BY <1>1, <1>2, <1>3, <2>1, TotalIsInt
<1>5. flash_get_blk(EndOf(i) - 1) < NSect - 2
  BY <1>1, <1>4, BlkBelow
<1>6. b \in Int /\ b + 1 <= NSect - 2
  <2>1. PICK last \in Int : last = flash_get_blk(EndOf(i) - 1)
    BY CheckedPlace
  <2>2. b \in i.at .. last /\ last < NSect - 2
    BY <1>5, <2>1, CheckedPlace
  <2> QED BY <1>1, <2>1, <2>2
<1>7. SectSize * (b + 1) <= SectSize * (NSect - 2)
  BY <1>1, <1>6
<1> QED BY <1>1, <1>6, <1>7, TotalIsInt

-------------------------------------------------------------------------------------
(* Tags and the sectors a request writes *)

(* What is stored in a sector: a boot sector in sector 0, else nothing, or a part of *)
(* the image of the request in progress.                                             *)
Stored(x, v) ==
    /\ DOMAIN flash' = Sectors
    /\ \A b \in Sectors : flash'[b] = IF b = x THEN v ELSE flash[b]

Legal(x, v) ==
    \/ x = 0 /\ v \in BootSectors \cup Blanks
    \/ /\ x = job.blk /\ x \in Sectors \ {0} /\ job.step \in {"erase", "write", "tail"}
       /\ \/ v \in Blanks
          \/ /\ Writing /\ job.kind \in {"fs", "whole"}
             /\ \E cut \in BOOLEAN : v = Part(job.img, x, cut)

(* A tag is at the start of its image's partition. *)
LEMMA TagPlace ==
    ASSUME \A b \in Sectors \ {0} : PartPlaced(b), NEW t \in Tags
    PROVE  /\ t \in TagAt(t.at) /\ t.at \in {RootfsStart, HalfWay}
           /\ Checked(t) /\ t.id <= updates
           /\ IsPart(flash[t.at]) /\ flash[t.at].img = t /\ flash[t.at].idx = 0
<1>1. RootfsStart \in Sectors \ {0} /\ HalfWay \in Sectors \ {0}
  BY HalfWayPlace, LayoutAssumption, TotalIsInt DEF RootfsStart, Sectors
<1>2. PICK b \in {RootfsStart, HalfWay} : t \in TagAt(b)
  BY DEF Tags
<1>3. IsPart(flash[b]) /\ flash[b].idx = 0 /\ flash[b].img = t
  BY <1>2 DEF TagAt
<1>4. Checked(t) /\ t.id <= updates /\ 0 = b - t.at
  BY <1>1, <1>3 DEF PartPlaced
<1>5. t.at = b
  BY <1>1, <1>4, CheckedPlace DEF Sectors
<1> QED BY <1>2, <1>3, <1>4, <1>5

(* A legal write keeps every part where it belongs. *)
LEMMA PartsKept ==
    ASSUME ImageInv, updates' = updates, NEW x, NEW v, Stored(x, v), Legal(x, v),
           NEW b \in Sectors \ {0}
    PROVE  PartPlaced(b)' /\ flash'[b] \in Parts \cup Blanks
<1>1. CASE b # x
  <2>1. flash'[b] = flash[b]
    BY <1>1 DEF Stored
  <2>2. PartPlaced(b) /\ flash[b] \in Parts \cup Blanks
    BY DEF ImageInv, UpdateTypeOK
  <2> QED BY <2>1, <2>2 DEF PartPlaced
<1>2. CASE b = x /\ v \in Blanks
  BY <1>2 DEF Stored, PartPlaced, IsPart, Blanks
<1>3. ASSUME b = x, Writing, job.kind \in {"fs", "whole"}, x = job.blk,
             NEW cut \in BOOLEAN, v = Part(job.img, x, cut)
      PROVE  PartPlaced(b)' /\ flash'[b] \in Parts \cup Blanks
  <2> DEFINE i == job.img
  <2>1. /\ Checked(i) /\ i.id <= updates /\ b \in SectorsOf(i)
    BY <1>3 DEF ImageInv, JobPlaced, Writing
  <2>2. b \in Int /\ i.at \in Int /\ b >= i.at /\ i.at >= 1 /\ b <= NSect - 1
    BY <2>1, CheckedSectors, CheckedPlace, LayoutAssumption DEF Sectors
  <2>3. b - i.at \in Sectors
    BY <2>2, LayoutAssumption DEF Sectors
  <2>4. flash'[b] = [img |-> i, idx |-> b - i.at, cut |-> cut]
    BY <1>3 DEF Stored, Part
  <2>5. flash'[b] \in Parts
    BY <2>1, <2>3, <2>4 DEF Parts, Checked
  <2>6. flash'[b].img = i /\ flash'[b].idx = b - i.at
    BY <2>4
  <2> QED BY <2>1, <2>5, <2>6 DEF PartPlaced
<1> QED BY <1>1, <1>2, <1>3 DEF Legal

(* The tags after a write: the old ones, or the one of the image being written. *)
LEMMA TagsAfter ==
    ASSUME ImageInv, updates' = updates, NEW x, NEW v, Stored(x, v), Legal(x, v),
           NEW b \in {RootfsStart, HalfWay}, NEW t \in TagAt(b)'
    PROVE  /\ t.at = b /\ Checked(t)
           /\ \/ b # x /\ t \in TagAt(b)
              \/ b = x /\ t = job.img /\ Writing /\ job.kind \in {"fs", "whole"}
<1>0. b \in Sectors \ {0}
  BY HalfWayPlace, LayoutAssumption, TotalIsInt DEF RootfsStart, Sectors
<1>1. /\ PartPlaced(b)'
  BY <1>0, PartsKept
<1>2. IsPart(flash'[b]) /\ flash'[b].idx = 0 /\ flash'[b].img = t
  BY DEF TagAt, IsPart
<1>3. Checked(t) /\ 0 = b - t.at
  BY <1>1, <1>2 DEF PartPlaced, IsPart, Checked, Images
<1>4. t.at = b
  BY <1>0, <1>3, CheckedPlace DEF Sectors
<1>5. CASE b # x
  <2>1. flash'[b] = flash[b]
    BY <1>0, <1>5 DEF Stored
  <2> QED BY <1>2, <1>3, <1>4, <1>5, <2>1 DEF TagAt
<1>6. CASE b = x
  <2>1. flash'[b] = v
    BY <1>0, <1>6 DEF Stored
  <2>2. v \notin Blanks
    BY <1>2, <2>1 DEF IsPart, Blanks
  <2>3. /\ Writing /\ job.kind \in {"fs", "whole"}
        /\ \E cut \in BOOLEAN : v = Part(job.img, x, cut)
    BY <1>0, <1>6, <2>2 DEF Legal
  <2>4. v.img = job.img
    BY <2>3 DEF Part
  <2> QED BY <1>2, <1>3, <1>4, <1>6, <2>1, <2>3, <2>4
<1> QED BY <1>5, <1>6

(* The tag of the image that was started is not written, and is the first of its    *)
(* sectors to go.                                                                    *)
LEMMA BootedTag ==
    ASSUME ImageInv, updates' = updates, booted' = booted,
           NEW x, NEW v, Stored(x, v), Legal(x, v), booted \in Tags'
    PROVE  /\ booted \in Tags /\ x # booted.at
           /\ x \notin SectorsOf(booted) /\ Whole(booted)'
<1>1. PICK b \in {RootfsStart, HalfWay} : booted \in TagAt(b)'
  BY DEF Tags
<1>2. Checked(booted)
  BY DEF ImageInv
<1>3. /\ booted.at = b
      /\ \/ b # x /\ booted \in TagAt(b)
         \/ b = x /\ booted = job.img /\ Writing /\ job.kind \in {"fs", "whole"}
  BY <1>1, TagsAfter
<1>4. ~(booted = job.img /\ Writing /\ job.kind \in {"fs", "whole"})
  <2>1. booted.id \in Int
    BY <1>2, UpdateAssumption DEF Checked, Images
  <2> QED BY <2>1 DEF ImageInv, JobPlaced, Writing
<1>5. b # x /\ booted \in Tags
  BY <1>3, <1>4 DEF Tags
<1>6. x \notin SectorsOf(booted)
  <2>1. CASE x = 0
    BY <1>2, <2>1, CheckedSectors
  <2>2. CASE x = job.blk /\ job.step \in {"erase", "write", "tail"} /\ x \in Sectors
    <3>1. x <= booted.at \/ \A c \in SectorsOf(booted) : c < x
      BY <1>5, <2>2 DEF ImageInv, NotYetReached
    <3>2. x # booted.at /\ booted.at \in Int
      BY <1>2, <1>3, <1>5, CheckedPlace
    <3>3. \A c \in SectorsOf(booted) : c >= booted.at /\ c \in Int
      BY <1>2, CheckedSectors
    <3> QED BY <2>2, <3>1, <3>2, <3>3 DEF Sectors
  <2> QED BY <2>1, <2>2 DEF Legal
<1>7. Whole(booted)'
  <2>1. Whole(booted)
    BY <1>5 DEF ImageInv, TagMeansWhole
  <2>2. \A c \in SectorsOf(booted) : flash'[c] = flash[c]
    BY <1>6 DEF Stored, ImageInv
  <2> QED BY <2>1, <2>2 DEF Whole, SectorsOf, EndOf
<1> QED BY <1>3, <1>5, <1>6, <1>7

(* A step of a request that keeps what it is about and moves on by a sector at most. *)
LEMMA JobStep ==
    ASSUME ImageInv, UNCHANGED <<updates, booted, fInfo>>, up' \in BOOLEAN,
           NEW x, NEW v, Stored(x, v), Legal(x, v),
           job' \in Jobs, JobPlaced',
           job'.kind = job.kind, job'.img = job.img, job'.cur = job.cur,
           job'.step \in {"erase", "write"} => Writing,
           job'.step \in {"erase", "write", "tail"} =>
               /\ job.step \in {"erase", "write", "tail"}
               /\ job'.blk = job.blk \/ (job'.blk = job.blk + 1 /\ x = job.blk)
    PROVE  ImageInv'
<1>1. UpdateTypeOK'
  <2>1. /\ DOMAIN flash' = Sectors
        /\ \A b \in Sectors \ {0} : flash'[b] \in Parts \cup Blanks
    BY PartsKept DEF Stored
  <2>2. flash'[0] \in BootSectors \cup Blanks
    <3>1. 0 \in Sectors /\ flash[0] \in BootSectors \cup Blanks
      BY LayoutAssumption DEF Sectors, ImageInv, UpdateTypeOK
    <3>2. flash'[0] = IF 0 = x THEN v ELSE flash[0]
      BY <3>1 DEF Stored
    <3> QED BY <3>1, <3>2 DEF Legal
  <2>3. /\ fInfo' \in {Layout(psi, EndOf(booted)) : psi \in PsiSizes}'
        /\ booted' \in Images /\ updates' \in 0 .. MaxUpdates
    BY DEF ImageInv, UpdateTypeOK, EndOf
  <2> QED BY <2>1, <2>2, <2>3 DEF UpdateTypeOK
<1>2. Checked(booted)' /\ (booted.id <= updates)' /\ (SectorsOf(booted) \subseteq Sectors)'
  BY DEF ImageInv, Checked, SectorsOf, EndOf
<1>3. \A b \in Sectors \ {0} : PartPlaced(b)'
  BY PartsKept
<1>4. TagMeansWhole'
  BY BootedTag DEF TagMeansWhole
<1>5. NotYetReached'
  <2> SUFFICES ASSUME booted \in Tags', job'.step \in {"erase", "write", "tail"}
               PROVE  job'.blk <= booted.at \/ \A b \in SectorsOf(booted) : b < job'.blk
    BY DEF NotYetReached, SectorsOf, EndOf
  <2>1. booted \in Tags /\ x # booted.at
    BY BootedTag
  <2>2. job.blk <= booted.at \/ \A b \in SectorsOf(booted) : b < job.blk
    BY <2>1 DEF ImageInv, NotYetReached
  <2>3. job.blk \in Int /\ booted.at \in Int /\ \A b \in SectorsOf(booted) : b \in Int
    <3>1. job.blk \in Int
      BY LayoutAssumption DEF ImageInv, UpdateTypeOK, Jobs
    <3>2. booted.at \in Int /\ SectorsOf(booted) \subseteq Sectors
      BY CheckedPlace DEF ImageInv
    <3> QED BY <3>1, <3>2 DEF Sectors
  <2>4. CASE job'.blk = job.blk
    BY <2>2, <2>4
  <2>5. CASE job'.blk = job.blk + 1 /\ x = job.blk
    BY <2>1, <2>2, <2>3, <2>5
  <2> QED BY <2>4, <2>5
<1>6. SequencesDiffer'
  <2>1. ASSUME NEW one \in TagAt(RootfsStart)', NEW two \in TagAt(HalfWay)'
        PROVE  one.seq # two.seq
    <3>0. RootfsStart # HalfWay
      BY HalfWayPlace DEF RootfsStart
    <3>1. /\ one.at = RootfsStart /\ Checked(one)
          /\ \/ RootfsStart # x /\ one \in TagAt(RootfsStart)
             \/ RootfsStart = x /\ one = job.img /\ Writing /\ job.kind \in {"fs", "whole"}
      BY TagsAfter
    <3>2. /\ two.at = HalfWay /\ Checked(two)
          /\ \/ HalfWay # x /\ two \in TagAt(HalfWay)
             \/ HalfWay = x /\ two = job.img /\ Writing /\ job.kind \in {"fs", "whole"}
      BY TagsAfter
    <3>3. one.seq \in Int /\ two.seq \in Int
      BY <3>1, <3>2, UpdateAssumption DEF Checked, Images
    <3>4. two.seq >= 1
      BY <3>2 DEF Checked
    <3>5. CASE one \in TagAt(RootfsStart) /\ two \in TagAt(HalfWay)
      BY <3>5 DEF ImageInv, SequencesDiffer
    <3>6. CASE one = job.img /\ Writing /\ job.kind = "whole"
      BY <3>3, <3>4, <3>6 DEF ImageInv, JobPlaced
    <3>7. CASE one = job.img /\ Writing /\ job.kind = "fs" /\ two \in TagAt(HalfWay)
      <4>1. two \in Tags /\ two # job.img
        BY <3>0, <3>1, <3>2, <3>7 DEF Tags
      <4> QED BY <3>3, <3>7, <4>1 DEF ImageInv, SequencesDiffer
    <3>8. CASE two = job.img /\ Writing /\ one \in TagAt(RootfsStart)
               /\ job.kind \in {"fs", "whole"}
      <4>1. job.kind = "fs"
        BY <3>0, <3>2, <3>8 DEF ImageInv, JobPlaced
      <4>2. one \in Tags /\ one # job.img
        BY <3>0, <3>1, <3>2, <3>8 DEF Tags
      <4> QED BY <3>3, <3>8, <4>1, <4>2 DEF ImageInv, SequencesDiffer
    <3> QED BY <3>0, <3>1, <3>2, <3>5, <3>6, <3>7, <3>8
  <2>2. ASSUME job'.step \in {"erase", "write"}, job'.kind = "fs", NEW t \in Tags'
        PROVE  t = job'.img \/ t.seq < job'.img.seq
    <3>1. PICK b \in {RootfsStart, HalfWay} : t \in TagAt(b)'
      BY DEF Tags
    <3>2. t \in Tags \/ t = job.img
      BY <3>1, TagsAfter DEF Tags
    <3> QED BY <2>2, <3>2 DEF ImageInv, SequencesDiffer
  <2> QED BY <2>1, <2>2 DEF SequencesDiffer, Writing
<1>7. Beside'
  <2> SUFFICES ASSUME job.kind = "fs", job.cur = {booted},
                      FitsHalf(job.img.len), FitsHalf(booted.len)
               PROVE  /\ booted \in Tags'
                      /\ job'.step \in {"erase", "write"} =>
                             SectorsOf(job.img) \cap SectorsOf(booted) = {}
    BY DEF Beside, Writing, FitsHalf, SectorsOf, EndOf, AvailableSizeTwoImgs, RootfsStart
  <2>1. /\ booted \in Tags
        /\ Writing => SectorsOf(job.img) \cap SectorsOf(booted) = {}
    BY DEF ImageInv, Beside
  <2>2. booted \in TagAt(booted.at) /\ booted.at \in {RootfsStart, HalfWay} /\ Checked(booted)
    BY <2>1, TagPlace DEF ImageInv
  <2>3. booted.at \in SectorsOf(booted) /\ booted.at \in Sectors /\ booted.at # 0
    BY <2>2, CheckedSectors DEF ImageInv
  <2>4. x # booted.at
    <3>1. CASE x = 0
      BY <2>3, <3>1
    <3>2. CASE x = job.blk /\ job.step \in {"erase", "write", "tail"}
      <4>1. Writing
        BY <3>2 DEF ImageInv, JobPlaced, Writing
      <4>2. x \in SectorsOf(job.img)
        BY <3>2, <4>1 DEF ImageInv, JobPlaced
      <4> QED BY <2>1, <2>3, <4>1, <4>2
    <3> QED BY <3>1, <3>2 DEF Legal
  <2>5. flash'[booted.at] = flash[booted.at]
    BY <2>3, <2>4 DEF Stored
  <2>6. booted \in Tags'
    BY <2>2, <2>5 DEF Tags, TagAt, IsPart
  <2> QED BY <2>1, <2>6
<1> QED BY <1>1, <1>2, <1>3, <1>4, <1>5, <1>6, <1>7 DEF ImageInv

-------------------------------------------------------------------------------------
(* Requests *)

LEMMA NoJobType == NoJob \in Jobs /\ NoImage \in Images
<1>1. NoImage \in Images
  BY UpdateAssumption DEF NoImage, Image, Images
<1> QED BY <1>1, LayoutAssumption DEF NoJob, Jobs, Nvrams, Blanks

LEMMA OverType ==
    ASSUME ImageInv, NEW step \in {"idle", "reset", "cut"}, NEW mem \in BOOLEAN
    PROVE  LET j == [Over(step) EXCEPT !.mem = mem]
           IN  /\ j \in Jobs /\ Over(step) \in Jobs
               /\ j.kind = job.kind /\ j.img = job.img /\ j.cur = job.cur /\ j.step = step
               /\ Over(step).kind = job.kind /\ Over(step).img = job.img
               /\ Over(step).cur = job.cur /\ Over(step).step = step
<1>1. job \in Jobs /\ NoJob \in Jobs
  BY NoJobType DEF ImageInv, UpdateTypeOK
<1> QED BY <1>1 DEF Over, Jobs

(* A request is accepted, or refused: the flash is as it was. *)
LEMMA RequestKeeps ==
    ASSUME ImageInv, UNCHANGED <<flash, fInfo, up, booted>>,
           updates < MaxUpdates, updates' = updates + 1,
           job' \in Jobs, JobPlaced', NotYetReached', Beside',
           job'.step \in {"erase", "write"} /\ job'.kind = "fs" =>
               \A t \in Tags : t.seq < job'.img.seq
    PROVE  ImageInv'
<1>0. updates \in Nat /\ updates' \in 0 .. MaxUpdates
  BY UpdateAssumption DEF ImageInv, UpdateTypeOK
<1>1. UpdateTypeOK'
  BY <1>0 DEF ImageInv, UpdateTypeOK, EndOf
<1>2. Checked(booted)' /\ (booted.id <= updates)' /\ (SectorsOf(booted) \subseteq Sectors)'
  <2>1. booted.id \in Int
    BY UpdateAssumption DEF ImageInv, Checked, Images
  <2> QED BY <1>0, <2>1 DEF ImageInv, Checked, SectorsOf, EndOf
<1>3. ASSUME NEW b \in Sectors \ {0} PROVE PartPlaced(b)'
  <2>1. PartPlaced(b)
    BY DEF ImageInv
  <2>2. IsPart(flash[b]) => flash[b].img.id \in Int
    BY <2>1, UpdateAssumption DEF PartPlaced, Checked, Images
  <2> QED BY <1>0, <2>1, <2>2 DEF PartPlaced
<1>4. Tags' = Tags /\ \A b : TagAt(b)' = TagAt(b)
  BY DEF Tags, TagAt
<1>5. TagMeansWhole'
  BY <1>4 DEF ImageInv, TagMeansWhole, Whole, SectorsOf, EndOf
<1>6. SequencesDiffer'
  BY <1>4 DEF ImageInv, SequencesDiffer, Writing
<1> QED BY <1>1, <1>2, <1>3, <1>5, <1>6 DEF ImageInv

(* The image that boots next is one that has a tag; the only one, if there is one. *)
LEMMA BootImageIsTag ==
    ASSUME NEW line
    PROVE  /\ BootImage(line) \subseteq Tags
           /\ TagAt(HalfWay) = {} => BootImage(line) = TagAt(RootfsStart)
<1>1. CASE TagAt(RootfsStart) = {} \/ TagAt(HalfWay) = {}
  BY <1>1 DEF BootImage, Tags
<1>2. CASE TagAt(RootfsStart) # {} /\ TagAt(HalfWay) # {}
  <2>1. /\ (CHOOSE i \in TagAt(RootfsStart) : TRUE) \in Tags
        /\ (CHOOSE i \in TagAt(HalfWay) : TRUE) \in Tags
    BY <1>2 DEF Tags
  <2> QED BY <1>2, <2>1 DEF BootImage
<1> QED BY <1>1, <1>2

(* UpdateImageSequenceNumber is above every number in use. *)
LEMMA NextSequenceAbove ==
    ASSUME ImageInv
    PROVE  /\ NextSequence \in 1 .. updates + 1
           /\ \A t \in Tags : t.seq < NextSequence
<1> DEFINE S == {0} \cup {t.seq : t \in Tags}
<1>0. updates \in Nat
  BY UpdateAssumption DEF ImageInv, UpdateTypeOK
<1>1. \A t \in Tags : t.seq \in 0 .. updates
  <2> TAKE t \in Tags
  <2>1. Checked(t) /\ t.id <= updates
    BY TagPlace DEF ImageInv
  <2>2. t.seq \in Nat /\ t.id \in Int /\ t.seq <= t.id
    BY <2>1, UpdateAssumption DEF Checked, Images
  <2> QED BY <1>0, <2>1, <2>2
<1>2. \A b : \A t, r \in TagAt(b) : t = r
  BY DEF TagAt
<1>3. \E m \in S : \A y \in S : m >= y
  <2>1. CASE Tags = {}
    BY <2>1
  <2>2. ASSUME NEW t \in Tags, \A r \in Tags : r.seq <= t.seq
        PROVE  \E m \in S : \A y \in S : m >= y
    BY <1>1, <2>2
  <2>3. CASE Tags # {}
    <3>1. PICK a \in Tags : TRUE
      BY <2>3
    <3>2. CASE \A r \in Tags : r.seq <= a.seq
      BY <2>2, <3>1, <3>2
    <3>3. ASSUME NEW r \in Tags, ~(r.seq <= a.seq)
          PROVE  \E m \in S : \A y \in S : m >= y
      <4>1. a.seq \in Int /\ r.seq \in Int
        BY <1>1, <3>1
      <4>2. a # r
        BY <3>3, <4>1
      <4>3. \A t \in Tags : t = a \/ t = r
        BY <1>2, <3>1, <3>3, <4>2 DEF Tags
      <4>4. \A t \in Tags : t.seq <= r.seq
        BY <3>3, <4>1, <4>3
      <4> QED BY <2>2, <4>4
    <3> QED BY <3>2, <3>3
  <2> QED BY <2>1, <2>3
<1>4. Max(S) \in S /\ \A y \in S : Max(S) >= y
  BY <1>3 DEF Max
<1>5. NextSequence = 1 + Max(S)
  BY DEF NextSequence
<1>6. S \subseteq 0 .. updates
  BY <1>0, <1>1
<1> HIDE DEF S
<1>7. Max(S) \in 0 .. updates
  BY <1>4, <1>6
<1>8. \A t \in Tags : t.seq <= Max(S) /\ t.seq \in Int
  BY <1>1, <1>4 DEF S
<1> QED BY <1>0, <1>5, <1>7, <1>8

(* Two images that fit half of the flash, in different partitions, share no sector. *)
LEMMA HalvesApart ==
    ASSUME NEW i, NEW j, Checked(i), Checked(j), i.at # j.at,
           FitsHalf(i.len), FitsHalf(j.len)
    PROVE  SectorsOf(i) \cap SectorsOf(j) = {}
<1>1. i.at \in {RootfsStart, HalfWay} /\ j.at \in {RootfsStart, HalfWay}
  BY DEF Checked, Images
<1>2. HalfWay \in Int
  BY HalfWayPlace
<1>3. \A b \in SectorsOf(i) : b \in Int /\ b >= i.at
  BY CheckedSectors
<1>4. \A b \in SectorsOf(j) : b \in Int /\ b >= j.at
  BY CheckedSectors
<1>5. CASE i.at = RootfsStart /\ j.at = HalfWay
  BY <1>2, <1>3, <1>4, <1>5, HalfApart
<1>6. CASE j.at = RootfsStart /\ i.at = HalfWay
  BY <1>2, <1>3, <1>4, <1>6, HalfApart
<1> QED BY <1>1, <1>5, <1>6

LEMMA RequestType ==
    ASSUME ImageInv, NEW kind \in {"fs", "cfe", "whole"}, NEW img \in Images,
           NEW cur \in SUBSET Images, NEW own \in Nvrams, NEW mem \in BOOLEAN,
           Request(kind, img, cur, own, mem)
    PROVE  /\ job' \in Jobs /\ job'.kind = kind /\ job'.img = img /\ job'.cur = cur
           /\ job'.step = "erase" /\ job'.blk = IF kind = "fs" THEN img.at ELSE 0
           /\ UNCHANGED <<flash, fInfo, up, booted>>
           /\ updates < MaxUpdates /\ updates' = updates + 1
<1>1. PICK saved \in {NvramOf(flash[0])} \cup IF mem THEN {} ELSE {Garbage} :
        job' = [kind |-> kind, step |-> "erase", img |-> img, cur |-> cur, saved |-> saved,
                boot |-> BootSector(TRUE, own),
                blk |-> IF kind = "fs" THEN img.at ELSE 0, mem |-> mem]
  BY DEF Request
<1>2. NvramOf(flash[0]) \in Nvrams
  BY DEF ImageInv, UpdateTypeOK, NvramOf, IsPart, Blanks, BootSectors, Nvrams
<1>3. saved \in Nvrams
  BY <1>2 DEF Nvrams
<1>4. BootSector(TRUE, own) \in BootSectors
  BY DEF BootSector, BootSectors
<1>5. (IF kind = "fs" THEN img.at ELSE 0) \in 0 .. NSect
  <2>1. HalfWay \in 0 .. NSect /\ RootfsStart \in 0 .. NSect
    <3>1. HalfWay < NSect
      <4>1. TotalSize \div 2 < SectSize * NSect
        BY HalfWayPlace, TotalIsInt, LayoutAssumption
      <4> QED BY <4>1, HalfWayPlace, BlkBelow, LayoutAssumption DEF HalfWay
    <3> QED BY <3>1, HalfWayPlace, LayoutAssumption DEF RootfsStart
  <2>2. img.at \in {RootfsStart, HalfWay}
    BY DEF Images
  <2> QED BY <2>1, <2>2, LayoutAssumption
<1>6. job' \in Jobs
  BY <1>1, <1>3, <1>4, <1>5 DEF Jobs
<1> QED BY <1>1, <1>6 DEF Request

(* BCM_IMAGE_FS *)
LEMMA InvFlashFs ==
    ASSUME ImageInv, NEW len \in Lens, FlashFs(len)
    PROVE  ImageInv'
<1>1. PICK mem, line :
        /\ mem \in BOOLEAN
        /\ LET cur == BootImage(line)
           IN  Request("fs", Image(updates + 1, NextSequence, len, Target(cur, len)), cur,
                       NoNvram, mem)
  BY DEF FlashFs
<1> DEFINE cur == BootImage(line)
           img == Image(updates + 1, NextSequence, len, Target(cur, len))
<1>2. /\ len <= AvailableSizeOneImg /\ updates < MaxUpdates /\ updates \in Nat
      /\ MaxUpdates \in Nat
  BY <1>1, UpdateAssumption DEF FlashFs, Request, ImageInv, UpdateTypeOK
<1>3. /\ img.id = updates + 1 /\ img.seq = NextSequence /\ img.len = len
      /\ img.at = Target(cur, len) /\ img.at \in {RootfsStart, HalfWay}
  BY DEF Image, Target
<1>4. img.at = HalfWay => /\ FitsHalf(len) /\ InPartitionOne(cur)
                          /\ \A i \in cur : FitsHalf(i.len)
  <2>1. RootfsStart # HalfWay
    BY HalfWayPlace DEF RootfsStart
  <2> QED BY <1>3, <2>1 DEF Target
<1>5. NextSequence \in 1 .. updates + 1 /\ \A t \in Tags : t.seq < NextSequence
  BY NextSequenceAbove
<1>6. img \in Images
  BY <1>2, <1>3, <1>5 DEF Image, Images, Target
<1>7. Checked(img)
  BY <1>2, <1>3, <1>4, <1>5, <1>6 DEF Checked
<1>8. cur \subseteq Tags /\ (TagAt(HalfWay) = {} => cur = TagAt(RootfsStart))
  BY BootImageIsTag
<1>9. cur \in SUBSET Images
  <2>1. \A t \in Tags : Checked(t)
    BY TagPlace DEF ImageInv
  <2> QED BY <1>8, <2>1 DEF Checked
<1>10. Request("fs", img, cur, NoNvram, mem) /\ NoNvram \in Nvrams
  BY <1>1 DEF Nvrams
<1> HIDE DEF img, cur
<1>11. /\ job' \in Jobs /\ job'.kind = "fs" /\ job'.img = img /\ job'.cur = cur
       /\ job'.step = "erase" /\ job'.blk = img.at
       /\ UNCHANGED <<flash, fInfo, up, booted>>
       /\ updates < MaxUpdates /\ updates' = updates + 1
  BY <1>1, <1>6, <1>9, <1>10, RequestType
<1>12. booted.id \in Int /\ booted.id <= updates /\ Checked(booted)
  BY UpdateAssumption DEF ImageInv, Checked, Images
<1>13. JobPlaced'
  <2>1. img.at \in SectorsOf(img)
    BY <1>7, CheckedSectors
  <2>2. booted.id < img.id
    BY <1>2, <1>3, <1>12
  <2>3. img.seq >= 1
    BY <1>2, <1>3, <1>5
  <2> QED BY <1>2, <1>3, <1>7, <1>11, <2>1, <2>2, <2>3
          DEF JobPlaced, Writing, Checked, SectorsOf, EndOf, FitsHalf
<1>14. Tags' = Tags
  BY <1>11 DEF Tags, TagAt
<1>15. NotYetReached'
  <2> SUFFICES ASSUME booted \in Tags
               PROVE  img.at <= booted.at \/ \A b \in SectorsOf(booted) : b < img.at
    BY <1>11, <1>14 DEF NotYetReached, SectorsOf, EndOf
  <2>0. /\ booted.at \in {RootfsStart, HalfWay} /\ HalfWay \in Int /\ HalfWay >= 2
        /\ RootfsStart = 1 /\ booted \in TagAt(booted.at)
    BY TagPlace, HalfWayPlace DEF ImageInv, RootfsStart
  <2>1. CASE img.at = RootfsStart \/ booted.at = HalfWay
    BY <1>3, <2>0, <2>1
  <2>2. CASE img.at = HalfWay /\ booted.at = RootfsStart /\ HalfWay \notin SectorsOf(booted)
    <3>1. SectorsOf(booted) = booted.at .. flash_get_blk(EndOf(booted) - 1)
          /\ flash_get_blk(EndOf(booted) - 1) \in Int
      BY <1>12, CheckedPlace
    <3> QED BY <2>0, <2>2, <3>1
  <2>3. CASE img.at = HalfWay /\ booted.at = RootfsStart /\ HalfWay \in SectorsOf(booted)
    <3>1. flash[HalfWay] = Part(booted, HalfWay, FALSE)
      BY <2>3 DEF ImageInv, TagMeansWhole, Whole
    <3>2. flash[HalfWay].idx = HalfWay - 1
      BY <2>0, <2>3, <3>1 DEF Part
    <3>3. TagAt(HalfWay) = {}
      BY <2>0, <3>2 DEF TagAt
    <3>4. booted \in cur
      BY <1>8, <2>0, <2>3, <3>3
    <3>5. FitsHalf(booted.len)
      BY <1>4, <2>3, <3>4
    <3> QED BY <1>12, <2>3, <3>5, HalfApart
  <2> QED BY <1>3, <2>0, <2>1, <2>2, <2>3
<1>16. Beside'
  <2> SUFFICES ASSUME cur = {booted}, FitsHalf(img.len), FitsHalf(booted.len)
               PROVE  booted \in Tags /\ SectorsOf(img) \cap SectorsOf(booted) = {}
    BY <1>11, <1>14 DEF Beside, Writing, FitsHalf, SectorsOf, EndOf
  <2>1. booted \in Tags
    BY <1>8
  <2>2. booted \in TagAt(booted.at) /\ booted.at \in {RootfsStart, HalfWay}
    BY <2>1, TagPlace DEF ImageInv
  <2>3. img.at # booted.at
    <3>0. RootfsStart # HalfWay
      BY HalfWayPlace DEF RootfsStart
    <3>1. CASE booted.at = RootfsStart
      <4>1. InPartitionOne(cur)
        BY <2>2, <3>1 DEF InPartitionOne
      <4>2. Target(cur, len) = HalfWay
        BY <1>3, <4>1 DEF Target
      <4> QED BY <1>3, <3>0, <3>1, <4>2
    <3>2. CASE booted.at = HalfWay
      <4>1. \A t \in TagAt(RootfsStart) : t.seq # booted.seq
        BY <2>2, <3>2 DEF ImageInv, SequencesDiffer
      <4>2. ~InPartitionOne(cur)
        BY <4>1 DEF InPartitionOne
      <4> QED BY <1>4, <3>2, <4>2
    <3> QED BY <2>2, <3>1, <3>2
  <2> QED BY <1>7, <1>12, <2>1, <2>3, HalvesApart
<1>17. \A t \in Tags : t.seq < job'.img.seq
  BY <1>3, <1>5, <1>11
<1> QED BY <1>11, <1>13, <1>15, <1>16, <1>17, RequestKeeps

(* BCM_IMAGE_CFE and BCM_IMAGE_WHOLE *)
LEMMA InvFlashFromStart ==
    ASSUME ImageInv, NEW own \in {"latest", NoNvram},
           FlashCfe(own) \/ \E len \in Lens : FlashWhole(len, own)
    PROVE  ImageInv'
<1>1. PICK mem \in BOOLEAN, kind \in {"cfe", "whole"}, img \in Images :
        /\ Request(kind, img, {}, own, mem)
        /\ kind = "whole" => /\ Checked(img) /\ img.at = RootfsStart /\ img.seq = 0
                             /\ img.id = updates + 1
  <2>1. CASE FlashCfe(own)
    BY <2>1, NoJobType DEF FlashCfe
  <2>2. ASSUME NEW len \in Lens, FlashWhole(len, own)
        PROVE  \E mem \in BOOLEAN, kind \in {"cfe", "whole"}, img \in Images :
                  /\ Request(kind, img, {}, own, mem)
                  /\ kind = "whole" => /\ Checked(img) /\ img.at = RootfsStart
                                       /\ img.seq = 0 /\ img.id = updates + 1
    <3> DEFINE img == Image(updates + 1, 0, len, RootfsStart)
    <3>0. /\ updates \in Nat /\ updates < MaxUpdates /\ MaxUpdates \in Nat
      BY <2>2, UpdateAssumption DEF FlashWhole, Request, ImageInv, UpdateTypeOK
    <3>1. /\ img.id = updates + 1 /\ img.seq = 0 /\ img.len = len /\ img.at = RootfsStart
          /\ img \in Images
      BY <3>0 DEF Image, Images
    <3>2. RootfsStart # HalfWay
      BY HalfWayPlace DEF RootfsStart
    <3>3. Checked(img)
      BY <3>0, <3>1, <3>2 DEF Checked
    <3>4. PICK mem \in BOOLEAN : Request("whole", img, {}, own, mem)
      BY <2>2 DEF FlashWhole
    <3> HIDE DEF img
    <3> QED BY <3>1, <3>3, <3>4
  <2> QED BY <2>1, <2>2
<1>2. own \in Nvrams
  BY DEF Nvrams, Lines
<1>3. /\ job' \in Jobs /\ job'.kind = kind /\ job'.img = img /\ job'.cur = {}
      /\ job'.step = "erase" /\ job'.blk = 0
      /\ UNCHANGED <<flash, fInfo, up, booted>>
      /\ updates < MaxUpdates /\ updates' = updates + 1
  BY <1>1, <1>2, RequestType
<1>4. booted.id \in Int /\ booted.id <= updates /\ Checked(booted) /\ updates \in Nat
  BY UpdateAssumption DEF ImageInv, Checked, Images, UpdateTypeOK
<1>5. JobPlaced'
  <2>1. kind = "whole" => booted.id < img.id /\ img.id <= updates + 1
    BY <1>1, <1>4
  <2> QED BY <1>1, <1>3, <2>1 DEF JobPlaced, Writing, Checked, FitsHalf
<1>6. NotYetReached'
  BY <1>3, <1>4, CheckedPlace DEF NotYetReached
<1>7. Beside'
  BY <1>1, <1>3 DEF Beside
<1> QED BY <1>1, <1>3, <1>5, <1>6, <1>7, RequestKeeps

LEMMA InvRefuse ==
    ASSUME ImageInv, Refuse
    PROVE  ImageInv'
<1>1. job' \in Jobs /\ job'.kind = "none" /\ job'.step = "idle"
  BY NoJobType DEF Refuse, NoJob
<1>2. JobPlaced' /\ NotYetReached' /\ Beside'
  BY <1>1 DEF JobPlaced, NotYetReached, Beside, Writing
<1> QED BY <1>1, <1>2, RequestKeeps DEF Refuse

-------------------------------------------------------------------------------------
(* kerSysBcmImageSet *)

(* A request writes inside the flash, but for a whole image that is too large. *)
LEMMA WritesInFlash ==
    ASSUME ImageInv, Writing
    PROVE  /\ job.blk \in Sectors \/ (job.blk = NSect /\ job.kind = "whole")
           /\ job.kind \in {"fs", "cfe", "whole"}
           /\ job.blk # 0 => job.kind \in {"fs", "whole"} /\ job.blk \in SectorsOf(job.img)
           /\ job.kind \in {"fs", "whole"} => Checked(job.img)
<1>1. job.kind \in {"fs", "cfe", "whole"} /\ (job.kind \in {"fs", "whole"} => Checked(job.img))
  BY DEF ImageInv, JobPlaced, Writing
<1>2. 0 \in Sectors /\ NSect \in Nat /\ job.blk \in 0 .. NSect
  BY LayoutAssumption DEF Sectors, ImageInv, UpdateTypeOK, Jobs
<1>3. CASE job.kind = "cfe"
  BY <1>2, <1>3 DEF ImageInv, JobPlaced
<1>4. CASE job.kind = "fs"
  <2>1. job.img.seq >= 1 /\ job.blk \in SectorsOf(job.img)
    BY <1>4 DEF ImageInv, JobPlaced
  <2>2. SectorsOf(job.img) \subseteq Sectors
    BY <1>1, <1>4, <2>1, AcceptedPlace DEF Checked
  <2> QED BY <1>1, <1>4, <2>1, <2>2
<1>5. CASE job.kind = "whole"
  <2>1. job.blk \in {0} \cup SectorsOf(job.img)
    BY <1>5 DEF ImageInv, JobPlaced
  <2>2. job.blk \in Sectors \/ job.blk = NSect
    BY <1>2 DEF Sectors
  <2> QED BY <1>1, <1>5, <2>1, <2>2
<1> QED BY <1>1, <1>3, <1>4, <1>5

LEMMA StoredOne ==
    ASSUME ImageInv, NEW x \in Sectors, NEW v, flash' = [flash EXCEPT ![x] = v]
    PROVE  Stored(x, v)
BY DEF ImageInv, UpdateTypeOK, Stored

LEMMA StoredNothing ==
    ASSUME ImageInv, UNCHANGED flash
    PROVE  Stored(0, flash[0]) /\ Legal(0, flash[0])
BY DEF ImageInv, UpdateTypeOK, Stored, Legal

LEMMA InvEraseSector ==
    ASSUME ImageInv, EraseSector
    PROVE  ImageInv'
<1>1. Writing /\ job \in Jobs
  BY DEF EraseSector, Writing, ImageInv, UpdateTypeOK
<1> DEFINE x == SectorAt(job.blk)
<1>2. x \in Sectors /\ (x = 0 \/ x = job.blk)
  BY LayoutAssumption DEF SectorAt, Sectors
<1>3. Stored(x, Erased)
  BY <1>2, StoredOne DEF EraseSector
<1>4. Legal(x, Erased)
  BY <1>1, <1>2 DEF Legal, Writing, Blanks
<1>5. /\ job' \in Jobs /\ job'.step = "write" /\ job'.kind = job.kind /\ job'.img = job.img
      /\ job'.cur = job.cur /\ job'.blk = job.blk
  BY <1>1 DEF EraseSector, Jobs
<1>6. JobPlaced'
  <2>1. JobPlaced /\ job.step = "erase" /\ UNCHANGED <<updates, booted>>
    BY DEF ImageInv, EraseSector
  <2> QED BY <1>5, <2>1 DEF JobPlaced, Writing, Checked, SectorsOf, EndOf, FitsHalf
<1>7. UNCHANGED <<updates, booted, fInfo>> /\ up' \in BOOLEAN
  BY DEF EraseSector, ImageInv, UpdateTypeOK
<1> QED BY <1>1, <1>3, <1>4, <1>5, <1>6, <1>7, JobStep DEF Writing

(* The end of the image, or of an attempt to write it. *)
LEMMA AfterImageKeeps ==
    ASSUME ImageInv, Writing, job.blk \in Sectors, NEW ok \in BOOLEAN, NEW n \in {job.blk, job.blk + 1},
           AfterImage(ok, n), UNCHANGED <<updates, booted, fInfo, up>>,
           NEW v, Stored(job.blk, v), Legal(job.blk, v)
    PROVE  ImageInv'
<1>1. job \in Jobs /\ up' \in BOOLEAN /\ JobPlaced
  BY DEF ImageInv, UpdateTypeOK
<1>2. CASE job.kind = "fs" /\ ~ok
  <2>1. job' = Over("idle")
    BY <1>2 DEF AfterImage
  <2>2. /\ job' \in Jobs /\ job'.kind = job.kind /\ job'.img = job.img
        /\ job'.cur = job.cur /\ job'.step = "idle"
    BY <2>1, OverType
  <2>3. JobPlaced'
    BY <2>2 DEF JobPlaced, Writing
  <2> QED BY <1>1, <2>2, <2>3, JobStep
<1>3. CASE ~(job.kind = "fs" /\ ~ok)
  <2>1. job' = [job EXCEPT !.blk = n,
                           !.step = IF job.kind = "whole" THEN "tail" ELSE "nvram"]
    BY <1>3 DEF AfterImage
  <2>2. n \in 0 .. NSect
    <3>1. job.blk \in 0 .. NSect - 1 /\ NSect \in Nat
      BY LayoutAssumption DEF Sectors
    <3> QED BY <3>1
  <2>3. /\ job' \in Jobs /\ job'.kind = job.kind /\ job'.img = job.img
        /\ job'.cur = job.cur /\ job'.blk = n
        /\ job'.step = IF job.kind = "whole" THEN "tail" ELSE "nvram"
    BY <1>1, <2>1, <2>2 DEF Jobs
  <2>4. JobPlaced'
    BY <1>1, <2>3 DEF JobPlaced, Writing, Checked, FitsHalf
  <2> QED BY <1>1, <2>3, <2>4, JobStep DEF Writing
<1> QED BY <1>2, <1>3

LEMMA InvWriteSector ==
    ASSUME ImageInv, WriteSector
    PROVE  ImageInv'
<1>1. /\ Writing /\ job.step = "write" /\ job \in Jobs /\ JobPlaced
      /\ UNCHANGED <<updates, booted, fInfo, up>> /\ up' \in BOOLEAN
  BY DEF WriteSector, Writing, ImageInv, UpdateTypeOK
<1>2. /\ job.blk \in Sectors \/ (job.blk = NSect /\ job.kind = "whole")
      /\ job.kind \in {"fs", "cfe", "whole"}
      /\ job.blk # 0 => job.kind \in {"fs", "whole"} /\ job.blk \in SectorsOf(job.img)
      /\ job.kind \in {"fs", "whole"} => Checked(job.img)
  BY <1>1, WritesInFlash
<1>3. CASE /\ job.blk \in Sectors
           /\ flash' = [flash EXCEPT ![job.blk] = NewContents(job.blk, FALSE)]
           /\ \/ job.blk < LastSector /\ job' = [job EXCEPT !.blk = @ + 1, !.step = "erase"]
              \/ AfterImage(TRUE, job.blk + 1)
  <2> DEFINE v == NewContents(job.blk, FALSE)
  <2>1. Stored(job.blk, v)
    BY <1>2, <1>3, StoredOne
  <2>2. Legal(job.blk, v)
    <3>1. CASE job.blk = 0
      BY <1>1, <3>1 DEF NewContents, Legal, Jobs
    <3>2. CASE job.blk # 0
      BY <1>1, <1>2, <1>3, <3>2 DEF NewContents, Legal, Writing
    <3> QED BY <3>1, <3>2
  <2> HIDE DEF v
  <2>3. CASE AfterImage(TRUE, job.blk + 1)
    BY <1>1, <1>3, <2>1, <2>2, <2>3, AfterImageKeeps
  <2>4. CASE job.blk < LastSector /\ job' = [job EXCEPT !.blk = @ + 1, !.step = "erase"]
    <3>1. /\ job.kind # "cfe" /\ Checked(job.img) /\ LastSector = Max(SectorsOf(job.img))
      <4>1. job.kind # "cfe"
        BY <1>1, <2>4 DEF JobPlaced, LastSector
      <4> QED BY <1>2, <4>1 DEF LastSector
    <3>2. job.blk + 1 \in SectorsOf(job.img)
      <4>1. CASE job.blk # 0
        BY <1>2, <2>4, <3>1, <4>1, CheckedSectors
      <4>2. CASE job.blk = 0
        <5>1. job.kind = "whole"
          <6>1. 0 \notin SectorsOf(job.img)
            BY <3>1, CheckedSectors
          <6> QED BY <1>1, <1>2, <3>1, <4>2, <6>1 DEF JobPlaced
        <5>2. job.img.at = 0 + 1
          BY <1>1, <5>1 DEF JobPlaced, RootfsStart
        <5> QED BY <3>1, <4>2, <5>2, CheckedSectors
      <4> QED BY <4>1, <4>2
    <3>3. /\ job' \in Jobs /\ job'.kind = job.kind /\ job'.img = job.img
          /\ job'.cur = job.cur /\ job'.blk = job.blk + 1 /\ job'.step = "erase"
      <4>1. job.blk + 1 \in 0 .. NSect
        BY <1>3, LayoutAssumption DEF Sectors
      <4> QED BY <1>1, <2>4, <4>1 DEF Jobs
    <3>4. JobPlaced'
      BY <1>1, <1>2, <3>1, <3>2, <3>3 DEF JobPlaced, Writing, Checked, SectorsOf, EndOf, FitsHalf
    <3> QED BY <1>1, <2>1, <2>2, <3>3, <3>4, JobStep
  <2> QED BY <1>3, <2>3, <2>4
<1>4. ASSUME job.blk \in Sectors, NEW c \in {Erased, Junk}, flash' = [flash EXCEPT ![job.blk] = c],
             AfterImage(FALSE, job.blk)
      PROVE  ImageInv'
  <2>1. Stored(job.blk, c)
    BY <1>4, StoredOne
  <2>2. Legal(job.blk, c)
    BY <1>1, <1>4 DEF Legal, Blanks
  <2> QED BY <1>1, <1>4, <2>1, <2>2, AfterImageKeeps
<1>5. CASE job' = [job EXCEPT !.step = "erase"] /\ UNCHANGED flash
  <2>1. /\ job' \in Jobs /\ job'.kind = job.kind /\ job'.img = job.img
        /\ job'.cur = job.cur /\ job'.blk = job.blk /\ job'.step = "erase"
    BY <1>1, <1>5 DEF Jobs
  <2>2. JobPlaced'
    BY <1>1, <2>1 DEF JobPlaced, Writing, Checked, SectorsOf, EndOf, FitsHalf
  <2> QED BY <1>1, <1>5, <2>1, <2>2, StoredNothing, JobStep
<1> QED BY <1>3, <1>4, <1>5, UpdateAssumption DEF WriteSector

LEMMA InvEraseTail ==
    ASSUME ImageInv, EraseTail
    PROVE  ImageInv'
<1>1. /\ job.step = "tail" /\ job \in Jobs /\ JobPlaced
      /\ UNCHANGED <<updates, booted, fInfo, up>> /\ up' \in BOOLEAN
  BY DEF EraseTail, ImageInv, UpdateTypeOK
<1>2. CASE /\ job.blk < NSect /\ flash' = [flash EXCEPT ![job.blk] = Erased]
           /\ job' = [job EXCEPT !.blk = @ + 1]
  <2>1. job.blk \in Sectors /\ job.blk + 1 \in 0 .. NSect
    BY <1>1, <1>2, LayoutAssumption DEF Jobs, Sectors
  <2>2. Stored(job.blk, Erased)
    BY <1>2, <2>1, StoredOne
  <2>3. Legal(job.blk, Erased)
    BY <1>1, <2>1 DEF Legal, Blanks
  <2>4. /\ job' \in Jobs /\ job'.kind = job.kind /\ job'.img = job.img
        /\ job'.cur = job.cur /\ job'.blk = job.blk + 1 /\ job'.step = "tail"
    BY <1>1, <1>2, <2>1 DEF Jobs
  <2>5. JobPlaced'
    BY <1>1, <2>4 DEF JobPlaced, Writing, Checked, FitsHalf
  <2> QED BY <1>1, <2>2, <2>3, <2>4, <2>5, JobStep
<1>3. CASE job' = [job EXCEPT !.step = "nvram"] /\ UNCHANGED flash
  <2>1. /\ job' \in Jobs /\ job'.kind = job.kind /\ job'.img = job.img
        /\ job'.cur = job.cur /\ job'.step = "nvram"
    BY <1>1, <1>3 DEF Jobs
  <2>2. JobPlaced'
    BY <2>1 DEF JobPlaced, Writing
  <2> QED BY <1>1, <1>3, <2>1, <2>2, StoredNothing, JobStep
<1> QED BY <1>2, <1>3 DEF EraseTail

(* The end of a request, whatever became of sector 0. *)
LEMMA AfterNvramKeeps ==
    ASSUME ImageInv, NEW mem \in BOOLEAN, AfterNvram(mem),
           UNCHANGED <<updates, booted, fInfo, up>>,
           NEW v \in BootSectors \cup Blanks, Stored(0, v)
    PROVE  ImageInv'
<1>1. up' \in BOOLEAN /\ Legal(0, v)
  BY DEF ImageInv, UpdateTypeOK, Legal
<1>2. PICK step \in {"idle", "reset", "cut"} : job' = [Over(step) EXCEPT !.mem = mem]
  BY DEF AfterNvram
<1>3. /\ job' \in Jobs /\ job'.kind = job.kind /\ job'.img = job.img
      /\ job'.cur = job.cur /\ job'.step = step
  BY <1>2, OverType
<1>4. JobPlaced'
  BY <1>3 DEF JobPlaced, Writing
<1> QED BY <1>1, <1>3, <1>4, JobStep

LEMMA InvWriteBack ==
    ASSUME ImageInv, WriteBack
    PROVE  ImageInv'
<1>1. /\ job.step = "nvram" /\ job \in Jobs /\ JobPlaced /\ 0 \in Sectors
      /\ UNCHANGED <<updates, booted, fInfo, up>> /\ up' \in BOOLEAN
      /\ flash[0] \in BootSectors \cup Blanks /\ job.mem \in BOOLEAN
  BY LayoutAssumption DEF WriteBack, ImageInv, UpdateTypeOK, Jobs, Sectors
<1>2. CASE /\ flash' = [flash EXCEPT ![0] = Erased]
           /\ job' = [job EXCEPT !.step = "nvwrite",
                                 !.boot = BootSector(LoaderThere, WrittenBack)]
  <2>1. Stored(0, Erased) /\ Legal(0, Erased)
    BY <1>1, <1>2, StoredOne DEF Legal, Blanks
  <2>2. BootSector(LoaderThere, WrittenBack) \in BootSectors
    <3>1. WrittenBack \in Nvrams
      BY <1>1 DEF WrittenBack, Nvrams, Lines
    <3>2. LoaderThere \in BOOLEAN
      <4>1. CASE flash[0] \in Blanks
        BY <4>1 DEF LoaderThere, IsPart, Blanks
      <4>2. CASE flash[0] \in BootSectors
        BY <4>2 DEF LoaderThere, BootSectors
      <4> QED BY <1>1, <4>1, <4>2
    <3> QED BY <3>1, <3>2 DEF BootSector, BootSectors
  <2>3. /\ job' \in Jobs /\ job'.kind = job.kind /\ job'.img = job.img
        /\ job'.cur = job.cur /\ job'.step = "nvwrite" /\ job'.boot \in BootSectors
    BY <1>1, <1>2, <2>2 DEF Jobs
  <2>4. JobPlaced'
    BY <2>3 DEF JobPlaced, Writing
  <2> QED BY <1>1, <2>1, <2>3, <2>4, JobStep
<1>3. ASSUME NEW mem \in BOOLEAN, AfterNvram(mem), UNCHANGED flash
      PROVE  ImageInv'
  BY <1>1, <1>3, StoredNothing, AfterNvramKeeps
<1> QED BY <1>1, <1>2, <1>3 DEF WriteBack

LEMMA InvWriteBackDone ==
    ASSUME ImageInv, WriteBackDone
    PROVE  ImageInv'
<1>1. /\ job.step = "nvwrite" /\ job \in Jobs /\ 0 \in Sectors /\ job.mem \in BOOLEAN
      /\ UNCHANGED <<updates, booted, fInfo, up>> /\ AfterNvram(job.mem)
      /\ job.boot \in BootSectors
  BY LayoutAssumption DEF WriteBackDone, ImageInv, UpdateTypeOK, Jobs, Sectors, JobPlaced
<1>2. PICK v \in BootSectors \cup Blanks : flash' = [flash EXCEPT ![0] = v]
  BY <1>1 DEF WriteBackDone, Blanks
<1>3. Stored(0, v)
  BY <1>1, <1>2, StoredOne
<1> QED BY <1>1, <1>3, AfterNvramKeeps

LEMMA InvReset ==
    ASSUME ImageInv, Reset
    PROVE  ImageInv'
<1>1. /\ job.step = "reset" /\ job' = job /\ job' \in Jobs
      /\ UNCHANGED <<updates, booted, fInfo, flash>> /\ up' \in BOOLEAN
  BY DEF Reset, ImageInv, UpdateTypeOK
<1>2. JobPlaced'
  BY <1>1 DEF JobPlaced, Writing
<1> QED BY <1>1, <1>2, StoredNothing, JobStep

-------------------------------------------------------------------------------------
(* Power and restarts *)

LEMMA InvPowerFails ==
    ASSUME ImageInv, PowerFails
    PROVE  ImageInv'
<1>1. /\ UNCHANGED <<updates, booted, fInfo>> /\ up' \in BOOLEAN /\ job \in Jobs
      /\ 0 \in Sectors
  <2>1. UNCHANGED <<updates, booted, fInfo>> /\ up' = FALSE
    BY DEF PowerFails
  <2>2. job \in Jobs
    BY DEF ImageInv, UpdateTypeOK
  <2>3. 0 \in Sectors
    BY LayoutAssumption DEF Sectors
  <2>4. up' \in BOOLEAN
    BY <2>1
  <2> QED BY <2>1, <2>2, <2>3, <2>4
<1>2. /\ job' \in Jobs /\ job'.kind = job.kind /\ job'.img = job.img
      /\ job'.cur = job.cur /\ job'.step \in {"idle", "reset", "cut"}
  <2>1. CASE job.step \in {"idle", "reset"}
    BY <1>1, <2>1 DEF PowerFails
  <2>2. CASE job.step \notin {"idle", "reset"}
    <3>1. job' = Over("cut")
      BY <2>2 DEF PowerFails
    <3> QED BY <3>1, OverType
  <2> QED BY <2>1, <2>2
<1>3. JobPlaced'
  BY <1>2 DEF JobPlaced, Writing
<1>4. CASE UNCHANGED flash
  BY <1>1, <1>2, <1>3, <1>4, StoredNothing, JobStep
<1>5. ASSUME job.step = "write",
             NEW c \in {Junk} \cup IF SectorAt(job.blk) = 0 THEN {}
                                    ELSE {NewContents(job.blk, TRUE)},
             flash' = [flash EXCEPT ![SectorAt(job.blk)] = c]
      PROVE  ImageInv'
  <2>1. Writing
    BY <1>5 DEF Writing
  <2> DEFINE x == SectorAt(job.blk)
  <2>2. /\ x \in Sectors /\ (x = 0 \/ x = job.blk)
        /\ job.blk # 0 => job.kind \in {"fs", "whole"}
    BY <1>1, <2>1, WritesInFlash DEF SectorAt
  <2>3. Stored(x, c)
    BY <1>5, <2>2, StoredOne
  <2>4. Legal(x, c)
    <3>1. CASE c = Junk
      BY <1>5, <2>2, <3>1 DEF Legal, Blanks
    <3>2. CASE c # Junk
      <4>1. x = job.blk /\ x # 0 /\ c = Part(job.img, job.blk, TRUE)
        BY <2>2, <3>2 DEF NewContents
      <4> QED BY <1>5, <2>1, <2>2, <4>1 DEF Legal
    <3> QED BY <3>1, <3>2
  <2> QED BY <1>1, <1>2, <1>3, <2>3, <2>4, JobStep
<1>6. CASE flash' = [flash EXCEPT ![0] = Junk]
  <2>1. Stored(0, Junk) /\ Legal(0, Junk)
    BY <1>1, <1>6, StoredOne DEF Legal, Blanks
  <2> QED BY <1>1, <1>2, <1>3, <2>1, JobStep
<1> QED BY <1>4, <1>5, <1>6 DEF PowerFails

LEMMA InvSetBootLine ==
    ASSUME ImageInv, NEW line \in Lines, SetBootLine(line)
    PROVE  ImageInv'
<1>1. /\ UNCHANGED <<updates, booted, fInfo, up, job>> /\ up' \in BOOLEAN /\ job \in Jobs
      /\ 0 \in Sectors
  BY LayoutAssumption DEF SetBootLine, ImageInv, UpdateTypeOK, Sectors
<1> DEFINE v == [flash[0] EXCEPT !.nv = line]
<1>2. v \in BootSectors
  <2>1. flash[0] \in BootSectors
    BY DEF SetBootLine, IsPart, ImageInv, UpdateTypeOK, Blanks
  <2> QED BY <2>1 DEF BootSectors, Nvrams
<1>3. flash' = [flash EXCEPT ![0] = v]
  BY DEF SetBootLine
<1>4. Stored(0, v) /\ Legal(0, v)
  BY <1>1, <1>2, <1>3, StoredOne DEF Legal
<1>5. JobPlaced'
  BY <1>1 DEF ImageInv, JobPlaced, Writing, Checked, FitsHalf, SectorsOf, EndOf
<1> QED BY <1>1, <1>4, <1>5, JobStep DEF Writing

LEMMA InvBoot ==
    ASSUME ImageInv, Boot
    PROVE  ImageInv'
<1>1. PICK i \in Startable, psi \in PsiSizes :
        booted' = i /\ fInfo' = Layout(psi, EndOf(i))
  BY DEF Boot
<1>2. UNCHANGED <<flash, updates>> /\ job' = NoJob /\ up' = TRUE
  BY DEF Boot
<1>3. i \in Tags /\ Whole(i)
  <2>1. PICK l : i \in BootImage(l) /\ Whole(i)
    BY DEF Startable
  <2> QED BY <2>1, BootImageIsTag
<1>4. Checked(i) /\ i.id <= updates
  BY <1>3, TagPlace DEF ImageInv
<1>5. /\ job' \in Jobs /\ job'.kind = "none" /\ job'.step = "idle"
  BY <1>2, NoJobType DEF NoJob
<1>6. UpdateTypeOK'
  <2>1. fInfo' \in {Layout(q, EndOf(booted')) : q \in PsiSizes}
    BY <1>1
  <2>2. booted' \in Images
    BY <1>1, <1>4 DEF Checked
  <2> QED BY <1>2, <1>5, <2>1, <2>2 DEF ImageInv, UpdateTypeOK, EndOf
<1>7. \A b \in Sectors \ {0} : PartPlaced(b)'
  BY <1>2 DEF ImageInv, PartPlaced
<1>8. Tags' = Tags /\ \A b : TagAt(b)' = TagAt(b)
  BY <1>2 DEF Tags, TagAt
<1>9. TagMeansWhole'
  BY <1>1, <1>2, <1>3 DEF TagMeansWhole, Whole, SectorsOf, EndOf
<1>10. JobPlaced' /\ NotYetReached' /\ Beside'
  BY <1>5 DEF JobPlaced, NotYetReached, Beside, Writing
<1>11. SequencesDiffer'
  BY <1>5, <1>8 DEF ImageInv, SequencesDiffer, Writing
<1>12. Checked(booted)' /\ (booted.id <= updates)' /\ (SectorsOf(booted) \subseteq Sectors)'
  BY <1>1, <1>2, <1>3, <1>4 DEF Checked, Whole, SectorsOf, EndOf
<1> QED BY <1>6, <1>7, <1>9, <1>10, <1>11, <1>12 DEF ImageInv

LEMMA InvInit ==
    ASSUME UpdateInit
    PROVE  ImageInv
<1>1. PICK len \in Lens, psi \in PsiSizes :
        /\ booted = Image(0, 0, len, RootfsStart)
        /\ EndOf(booted) <= TotalSize - Reserved
        /\ flash = [b \in Sectors |->
                        IF b = 0 THEN BootSector(TRUE, "latest")
                        ELSE IF b \in SectorsOf(booted) THEN Part(booted, b, FALSE)
                        ELSE Settings]
        /\ fInfo = Layout(psi, EndOf(booted))
  BY DEF UpdateInit
<1>2. /\ booted \in Images /\ booted.id = 0 /\ booted.seq = 0 /\ booted.len = len
      /\ booted.at = RootfsStart /\ RootfsStart = 1 /\ HalfWay \in Int /\ HalfWay >= 2
  BY <1>1, UpdateAssumption, HalfWayPlace DEF Image, Images, RootfsStart
<1>3. Checked(booted) /\ booted.len <= AvailableSizeOneImg
  <2>1. EndOf(booted) = SectSize + TagLen + len /\ len \in Nat
    BY <1>2, UpdateAssumption, LayoutAssumption DEF EndOf
  <2>2. len <= TotalSize - 3 * SectSize - TagLen
    BY <1>1, <2>1, UpdateAssumption, LayoutAssumption, TotalIsInt
  <2> QED BY <1>1, <1>2, <2>2, Sizes DEF Checked
<1>4. up = TRUE /\ job = NoJob /\ updates = 0
  BY DEF UpdateInit
<1>5. job \in Jobs /\ job.kind = "none" /\ job.step = "idle"
  BY <1>4, NoJobType DEF NoJob
<1>6. ASSUME NEW b \in Sectors \ {0}
      PROVE  /\ PartPlaced(b) /\ flash[b] \in Parts \cup Blanks
             /\ flash[b] = Settings \/ (flash[b].idx = b - 1 /\ flash[b].img = booted)
  <2>1. CASE b \in SectorsOf(booted)
    <3>1. flash[b] = [img |-> booted, idx |-> b - 1, cut |-> FALSE]
      BY <1>1, <1>2, <2>1 DEF Part
    <3>2. b - 1 \in Sectors
      BY LayoutAssumption DEF Sectors
    <3>3. flash[b] \in Parts
      BY <1>2, <3>1, <3>2 DEF Parts
    <3>4. flash[b].img = booted /\ flash[b].idx = b - 1
      BY <3>1
    <3> QED BY <1>2, <1>3, <1>4, <3>3, <3>4 DEF PartPlaced
  <2>2. CASE b \notin SectorsOf(booted)
    BY <1>1, <2>2 DEF PartPlaced, IsPart, Blanks
  <2> QED BY <2>1, <2>2
<1>7. UpdateTypeOK
  <2>1. flash[0] \in BootSectors /\ DOMAIN flash = Sectors
    BY <1>1, LayoutAssumption DEF BootSector, BootSectors, Nvrams, Lines, Sectors
  <2>2. fInfo \in {Layout(q, EndOf(booted)) : q \in PsiSizes}
    BY <1>1
  <2>3. up \in BOOLEAN /\ updates \in 0 .. MaxUpdates
    BY <1>4, UpdateAssumption
  <2> QED BY <1>2, <1>5, <1>6, <2>1, <2>2, <2>3 DEF UpdateTypeOK
<1>8. TagMeansWhole
  <2>1. SectorsOf(booted) \subseteq Sectors \ {0}
    BY <1>3, AcceptedPlace, CheckedSectors
  <2>2. \A b \in SectorsOf(booted) : flash[b] = Part(booted, b, FALSE)
    BY <1>1, <2>1
  <2> QED BY <2>1, <2>2 DEF TagMeansWhole, Whole
<1>9. TagAt(HalfWay) = {}
  <2>1. HalfWay \in Sectors \ {0}
    BY HalfWayPlace, LayoutAssumption, TotalIsInt DEF Sectors
  <2>2. flash[HalfWay] = Settings \/ flash[HalfWay].idx = HalfWay - 1
    BY <1>6, <2>1
  <2> QED BY <1>2, <2>2 DEF TagAt, IsPart
<1>10. SequencesDiffer
  BY <1>5, <1>9 DEF SequencesDiffer, Writing
<1>11. JobPlaced /\ NotYetReached /\ Beside
  BY <1>5 DEF JobPlaced, NotYetReached, Beside, Writing
<1> QED BY <1>2, <1>3, <1>4, <1>6, <1>7, <1>8, <1>10, <1>11, AcceptedPlace DEF ImageInv

LEMMA InvNext ==
    ASSUME ImageInv, [UpdateNext]_updateVars
    PROVE  ImageInv'
<1>1. CASE UNCHANGED updateVars
  <2>1. /\ UNCHANGED <<updates, booted, fInfo, flash, job>> /\ up' \in BOOLEAN
        /\ job' \in Jobs
    BY <1>1 DEF updateVars, ImageInv, UpdateTypeOK
  <2>2. JobPlaced'
    BY <2>1 DEF ImageInv, JobPlaced, Writing, Checked, FitsHalf, SectorsOf, EndOf
  <2> QED BY <2>1, <2>2, StoredNothing, JobStep DEF Writing
<1>2. ASSUME NEW len \in Lens, FlashFs(len) PROVE ImageInv'
  BY <1>2, InvFlashFs
<1>3. ASSUME NEW own \in {"latest", NoNvram},
             FlashCfe(own) \/ \E len \in Lens : FlashWhole(len, own)
      PROVE  ImageInv'
  BY <1>3, InvFlashFromStart
<1>4. CASE UpdateStep
  BY <1>4, InvEraseSector, InvWriteSector, InvEraseTail, InvWriteBack, InvWriteBackDone,
     InvReset DEF UpdateStep
<1>5. ASSUME NEW line \in Lines, SetBootLine(line) PROVE ImageInv'
  BY <1>5, InvSetBootLine
<1> QED BY <1>1, <1>2, <1>3, <1>4, <1>5, InvRefuse, InvPowerFails, InvBoot DEF UpdateNext

-------------------------------------------------------------------------------------
(* Every reachable state satisfies the invariant. *)
LEMMA ImageInvariant == UpdateSpec => []ImageInv
<1>1. UpdateInit => ImageInv
  BY InvInit
<1>2. ImageInv /\ [UpdateNext]_updateVars => ImageInv'
  BY InvNext
<1> QED BY <1>1, <1>2, PTL DEF UpdateSpec

(* Every variable has its type, after any sequence of updates, failed sectors, cuts  *)
(* of power and restarts: no sector holds part of an image that was not offered.     *)
THEOREM UpdateTypeCorrect == UpdateSpec => []UpdateTypeOK
<1>1. ImageInv => UpdateTypeOK
  BY DEF ImageInv
<1> QED BY <1>1, ImageInvariant, PTL

(* flashFsKernelImage: an update beside the running image, wherever it fails, leaves *)
(* that image whole and with its tag.                                                *)
THEOREM RunningImageAlwaysKept == UpdateSpec => []RunningImageKept
<1>1. ImageInv => RunningImageKept
  BY DEF ImageInv, RunningImageKept, Beside, TagMeansWhole
<1> QED BY <1>1, ImageInvariant, PTL

(* kerSysFlashInit: the sections of the running system never share a sector with the *)
(* image it was started from, whatever updates came before, large whole images among *)
(* them, if that image is of a size flashFsKernelImage accepts.                      *)
THEOREM SectionsAlwaysOffImage == UpdateSpec => []SectionsOffImage
<1>1. ASSUME ImageInv PROVE SectionsOffImage
  <2> SUFFICES ASSUME NEW s \in SectionNames, booted.len <= AvailableSizeOneImg
               PROVE  BlocksOf(fInfo[s]) \cap SectorsOf(booted) = {}
    BY DEF SectionsOffImage
  <2>1. PICK psi \in PsiSizes : fInfo = Layout(psi, EndOf(booted))
    BY <1>1 DEF ImageInv, UpdateTypeOK
  <2>2. Checked(booted)
    BY <1>1 DEF ImageInv
  <2> QED BY <2>1, <2>2, SectionsOff
<1> QED BY <1>1, ImageInvariant, PTL

(* kerSysBcmImageSet: an update of the file system does not reach the sectors kept   *)
(* for settings, if its partition has room for the tag as well.                      *)
THEOREM ReservedAlwaysKept == UpdateSpec => []ReservedKept
<1>1. ASSUME ImageInv PROVE ReservedKept
  <2> SUFFICES ASSUME job.kind = "fs", job.step \in {"erase", "write"},
                      FitsHalf(job.img.len) => FitsHalf(job.img.len + TagLen)
               PROVE  (job.blk + 1) * SectSize <= TotalSize - Reserved
    BY DEF ReservedKept
  <2>1. /\ Checked(job.img) /\ job.blk \in SectorsOf(job.img)
        /\ job.img.len <= AvailableSizeOneImg
    BY <1>1 DEF ImageInv, JobPlaced, Writing, Checked
  <2> QED BY <2>1, ReservedFree
<1> QED BY <1>1, ImageInvariant, PTL
====================================================================================
