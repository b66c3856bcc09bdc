------------------------------ MODULE FlashStoreProofs ------------------------------
(* Storage operations lose nothing but what the three cases of                      *)
(* SectorsHoldWhatWasSet name, for any number of processes, sectors, calls, power   *)
(* failures and worn sectors.                                                       *)
EXTENDS FlashStore, FlashLayoutProofs

Setting == {"erasing", "writing"}
Active == {"reading"} \cup Setting

(* The calls that have the lock, as other processes see it. *)
Holds(p) == pc[p] \in Active \/ (pc[p] = "done" /\ ret[p] = 0)

-------------------------------------------------------------------------------------
(* The layout and the operators of the model *)

(* The sections in use are a layout of the flash. *)
LEMMA FInfoFacts ==
    ASSUME StoreTypeOK, NEW s \in SectionNames
    PROVE  /\ fInfo[s].start \in Int /\ fInfo[s].num \in Int
           /\ fInfo[s].off \in Int /\ fInfo[s].len \in Nat
           /\ BlocksOf(fInfo[s]) \subseteq Sectors
           /\ fInfo[s].len > 0 => fInfo[s].num > 0
<1>1. PICK psi \in PsiSizes : fInfo = Layout(psi, KernelEnd)
  BY DEF StoreTypeOK
<1>2. /\ psi \in Nat /\ psi >= 1 /\ KernelEnd \in Int
      /\ 2 * psi + SpMaxLen + 2 * SectSize <= TotalSize
  BY StoreAssumption, SectionsFit, TotalIsInt
<1> QED BY <1>1, <1>2, SectionsInFlash

(* The fields of a call. *)
LEMMA CallFields ==
    ASSUME NEW c \in Calls \cup {NoCall}
    PROVE  /\ c.kind \in Kinds /\ c.sec \in SectionNames /\ c.data \in Cell
           /\ c.off \in Nat /\ c.len \in Nat /\ c.len > 0
           /\ c.kind = "clear" => c.sec = "sp"
<1>1. CASE c \in Calls
  BY <1>1, CallsAssumption, TotalIsInt DEF Call
<1>2. CASE c = NoCall
  BY <1>2 DEF NoCall, Kinds, SectionNames, Cell
<1> QED BY <1>1, <1>2

(* The sectors of a call are sectors of the flash, from its first to LastBlk. *)
LEMMA CallBlocks ==
    ASSUME StoreTypeOK, NEW c \in Calls \cup {NoCall}
    PROVE  /\ BlocksOfCall(c) \subseteq Sectors
           /\ BlocksOfCall(c) = fInfo[c.sec].start .. LastBlk(c)
           /\ fInfo[c.sec].start \in Int /\ LastBlk(c) \in Int
           /\ ~Refused(c) => fInfo[c.sec].start \in BlocksOfCall(c)
<1>1. c.sec \in SectionNames /\ c.len \in Nat /\ c.len > 0
  BY CallFields
<1>2. /\ fInfo[c.sec].start \in Int /\ fInfo[c.sec].num \in Int
      /\ fInfo[c.sec].len \in Nat
      /\ BlocksOf(fInfo[c.sec]) \subseteq Sectors
      /\ fInfo[c.sec].len > 0 => fInfo[c.sec].num > 0
  BY <1>1, FInfoFacts
<1> QED BY <1>1, <1>2 DEF BlocksOfCall, LastBlk, Refused, BlocksOf

(* Contents stay contents when a call makes its change. *)
LEMMA ModifiedType ==
    ASSUME NEW c \in Calls \cup {NoCall}, NEW bf \in Contents
    PROVE  Modified(c, bf) \in Contents
<1>1. c.data \in Cell
  BY CallFields
<1> QED BY <1>1 DEF Modified, Contents

(* A sector that is programmed, whole or in part, holds contents. *)
LEMMA ProgrammedType ==
    ASSUME NEW old \in [Units -> Cell], NEW new \in [Units -> Cell], NEW n
    PROVE  Programmed(old, new, n) \in [Units -> Cell]
<1>1. Junk \in Cell
  BY DEF Cell
<1> QED BY <1>1 DEF Programmed

LEMMA BlankType ==
    ASSUME NEW x \in Cell
    PROVE  Blank(x) \in [Units -> Cell]
BY DEF Blank

LEMMA CellMembers == {Erased, Zero, Junk, Loader, ResetMark} \subseteq Cell
BY DEF Cell

LEMMA HalfWrittenType ==
    ASSUME StoreTypeOK, NEW n
    PROVE  HalfWritten(n) \in Contents
<1> SUFFICES ASSUME NEW b \in Sectors
             PROVE  HalfWritten(n)[b] \in [Units -> Cell]
  BY DEF HalfWritten, Contents
<1>1. flash[b] \in [Units -> Cell]
  BY DEF StoreTypeOK, Contents
<1>2. CASE lock # None /\ pc[lock] = "writing" /\ blk[lock] = b
  <2>1. lock \in Procs
    BY <1>2 DEF StoreTypeOK
  <2>2. buf[lock][b] \in [Units -> Cell]
    BY <2>1 DEF StoreTypeOK, Contents
  <2>3. Programmed(flash[b], buf[lock][b], n) \in [Units -> Cell]
    BY <1>1, <2>2, ProgrammedType
  <2> QED BY <1>2, <2>3 DEF HalfWritten
<1>3. CASE ~(lock # None /\ pc[lock] = "writing" /\ blk[lock] = b)
  BY <1>1, <1>3 DEF HalfWritten
<1> QED BY <1>2, <1>3

LEMMA MarkedType ==
    ASSUME NEW done, NEW old \in Contents
    PROVE  Marked(done, old) \in Contents
BY CellMembers DEF Marked, Contents

(* What a write leaves in a sector is contents. *)
LEMMA WriteResultsType ==
    ASSUME NEW old \in [Units -> Cell], NEW new \in [Units -> Cell], NEW worn,
           NEW r \in WriteResults(old, new, worn)
    PROVE  r \in [Units -> Cell]
<1>1. CASE r = Programmed(old, new, SectSize)
  BY <1>1, ProgrammedType
<1>2. ASSUME NEW u \in Units, r = [Programmed(old, new, u) EXCEPT ![u] = Junk]
      PROVE  r \in [Units -> Cell]
  <2>1. Programmed(old, new, u) \in [Units -> Cell]
    BY ProgrammedType
  <2> QED BY <1>2, <2>1, CellMembers
<1>3. (IF worn THEN Units ELSE {}) \subseteq Units
  OBVIOUS
<1> QED BY <1>1, <1>2, <1>3 DEF WriteResults

LEMMA ErasingType ==
    ASSUME NEW fl \in Contents, NEW b \in Sectors
    PROVE  Erasing(fl, b) \in Contents
<1>1. Blank(Junk) \in [Units -> Cell]
  BY BlankType, CellMembers
<1> QED BY <1>1 DEF Erasing, Contents

-------------------------------------------------------------------------------------
(* Type correctness and mutual exclusion *)

(* What types need: calls are in their sectors, attempts are counted to three, and  *)
(* a call in progress has the lock.                                                 *)
TypeInv ==
    /\ StoreTypeOK
    /\ ~up => \A p \in Procs : pc[p] = "idle"
    /\ \A p \in Procs :
          /\ pc[p] \in Active => blk[p] \in BlocksOfCall(op[p])
          /\ pc[p] = "read" => /\ blk[p] = fInfo[op[p].sec].start
                               /\ blk[p] \in BlocksOfCall(op[p])
          /\ pc[p] = "writing" => try[p] < 3
          /\ Holds(p) => lock = p

LEMMA TypeInit == StoreInit => TypeInv
<1> SUFFICES ASSUME StoreInit PROVE TypeInv
  OBVIOUS
<1>1. PICK psi \in PsiSizes : fInfo = Layout(psi, KernelEnd) /\ flash = FactoryFlash(psi)
  BY DEF StoreInit
<1>2. (CHOOSE d \in Data : TRUE) \in Cell
  BY StoreAssumption DEF Cell
<1>3. psi \in Cell /\ Loader \in Cell
  BY DEF Cell
<1>4. FactoryFlash(psi) \in Contents
  BY <1>2, <1>3 DEF FactoryFlash, Contents
<1>5. 0 \in Sectors
  BY LayoutAssumption DEF Sectors
<1>6. [b \in Sectors |-> Blank(Zero)] \in Contents
  BY BlankType, CellMembers DEF Contents
<1>7. StoreTypeOK
  BY <1>1, <1>4, <1>5, <1>6, StoreAssumption DEF StoreInit, StoreTypeOK
<1> QED BY <1>7 DEF TypeInv, StoreInit, Active, Setting, Holds

(* A call starts, or fails before it reads anything. *)
LEMMA TypeCall ==
    ASSUME TypeInv, NEW p \in Procs, NEW c \in Calls, CallFails(p, c) \/ CallStarts(p, c)
    PROVE  TypeInv'
<1>1. CASE CallFails(p, c)
  <2>1. StoreTypeOK'
    BY <1>1, StoreAssumption DEF TypeInv, StoreTypeOK, CallFails
  <2> QED BY <1>1, <2>1
          DEF TypeInv, StoreTypeOK, CallFails, Active, Setting, Holds, BlocksOfCall
<1>2. CASE CallStarts(p, c)
  <2>1. fInfo[c.sec].start \in BlocksOfCall(c) /\ BlocksOfCall(c) \subseteq Sectors
    BY <1>2, CallBlocks DEF TypeInv, CallStarts
  <2>2. StoreTypeOK'
    BY <1>2, <2>1, StoreAssumption DEF TypeInv, StoreTypeOK, CallStarts
  <2> QED BY <1>2, <2>1, <2>2
          DEF TypeInv, StoreTypeOK, CallStarts, Active, Setting, Holds, BlocksOfCall
<1> QED BY <1>1, <1>2

(* The lock is taken when nobody has it. *)
LEMMA TypeReadStart ==
    ASSUME TypeInv, NEW p \in Procs, ReadStart(p)
    PROVE  TypeInv'
<1>1. StoreTypeOK'
  BY DEF TypeInv, StoreTypeOK, ReadStart
<1>2. \A q \in Procs : ~Holds(q)
  BY StoreAssumption DEF TypeInv, ReadStart
<1> QED BY <1>1, <1>2 DEF TypeInv, StoreTypeOK, ReadStart, Active, Setting, Holds, BlocksOfCall

LEMMA TypeRead ==
    ASSUME TypeInv, NEW p \in Procs, ReadBlk(p)
    PROVE  TypeInv'
<1> DEFINE bf == [buf[p] EXCEPT ![blk[p]] = Sensed(blk[p])]
           first == fInfo[op[p].sec].start
<1>0. /\ pc[p] = "reading" /\ op[p] \in Calls \cup {NoCall} /\ lock = p
      /\ blk[p] \in BlocksOfCall(op[p]) /\ blk[p] \in Sectors
  BY DEF TypeInv, StoreTypeOK, ReadBlk, Active, Holds
<1>1. /\ BlocksOfCall(op[p]) \subseteq Sectors /\ LastBlk(op[p]) \in Int
      /\ BlocksOfCall(op[p]) = first .. LastBlk(op[p])
      /\ first \in Int
  BY <1>0, CallBlocks DEF TypeInv
<1>2. first \in BlocksOfCall(op[p]) /\ first \in Sectors
  BY <1>0, <1>1
<1>3. bf \in Contents /\ Modified(op[p], bf) \in Contents
  <2>1. Sensed(blk[p]) \in [Units -> Cell]
    BY <1>0, BlankType, CellMembers DEF Sensed, TypeInv, StoreTypeOK, Contents
  <2>2. bf \in Contents
    BY <1>0, <2>1 DEF TypeInv, StoreTypeOK, Contents
  <2> QED BY <1>0, <2>2, ModifiedType
<1>4. Erasing(flash, first) \in Contents
  BY <1>2, ErasingType DEF TypeInv, StoreTypeOK
<1> HIDE DEF bf, first
<1>5. CASE /\ blk[p] < LastBlk(op[p])
           /\ blk' = [blk EXCEPT ![p] = @ + 1]
           /\ buf' = [buf EXCEPT ![p] = bf]
           /\ UNCHANGED <<flash, pc, ret>>
  <2>1. blk[p] + 1 \in BlocksOfCall(op[p])
    BY <1>0, <1>1, <1>5
  <2>2. StoreTypeOK'
    BY <1>1, <1>3, <1>5, <2>1 DEF TypeInv, StoreTypeOK, ReadBlk
  <2> QED BY <1>0, <1>5, <2>1, <2>2 DEF TypeInv, StoreTypeOK, ReadBlk, BlocksOfCall, Holds
<1>6. CASE /\ buf' = [buf EXCEPT ![p] = bf]
           /\ pc' = [pc EXCEPT ![p] = "done"]
           /\ ret' = [ret EXCEPT ![p] = 0]
           /\ UNCHANGED <<flash, blk>>
  <2>1. StoreTypeOK'
    BY <1>3, <1>6 DEF TypeInv, StoreTypeOK, ReadBlk
  <2> QED BY <1>0, <1>6, <2>1
          DEF TypeInv, StoreTypeOK, ReadBlk, BlocksOfCall, Active, Setting, Holds
<1>7. CASE /\ buf' = [buf EXCEPT ![p] = Modified(op[p], bf)]
           /\ blk' = [blk EXCEPT ![p] = first]
           /\ flash' = Erasing(flash, first)
           /\ pc' = [pc EXCEPT ![p] = "erasing"]
           /\ UNCHANGED ret
  <2>1. StoreTypeOK'
    BY <1>2, <1>3, <1>4, <1>7 DEF TypeInv, StoreTypeOK, ReadBlk
  <2> QED BY <1>0, <1>2, <1>7, <2>1
          DEF TypeInv, StoreTypeOK, ReadBlk, BlocksOfCall, Active, Setting, Holds
<1>8. CASE /\ pc' = [pc EXCEPT ![p] = "done"]
           /\ ret' = [ret EXCEPT ![p] = -1]
           /\ UNCHANGED <<flash, blk, buf>>
  <2>1. StoreTypeOK'
    BY <1>8 DEF TypeInv, StoreTypeOK, ReadBlk
  <2> QED BY <1>0, <1>8, <2>1
          DEF TypeInv, StoreTypeOK, ReadBlk, BlocksOfCall, Active, Setting, Holds
<1> QED BY <1>5, <1>6, <1>7, <1>8 DEF ReadBlk, bf, first

LEMMA TypeErase ==
    ASSUME TypeInv, NEW p \in Procs, EraseDone(p)
    PROVE  TypeInv'
<1>0. Blank(Erased) \in [Units -> Cell] /\ pc[p] = "erasing" /\ lock = p /\ blk[p] \in Sectors
  BY BlankType, CellMembers DEF EraseDone, TypeInv, StoreTypeOK, Active, Setting, Holds
<1>1. flash' \in Contents
  BY <1>0 DEF TypeInv, StoreTypeOK, EraseDone, Contents
<1>2. lost' \subseteq UnitsOf(Sectors)
  BY <1>0 DEF TypeInv, StoreTypeOK, EraseDone, UnitsOf
<1>3. StoreTypeOK'
  BY <1>1, <1>2 DEF TypeInv, StoreTypeOK, EraseDone
<1> QED BY <1>0, <1>3 DEF TypeInv, StoreTypeOK, EraseDone, BlocksOfCall, Active, Setting, Holds

LEMMA TypeWrite ==
    ASSUME TypeInv, NEW p \in Procs, WriteDone(p)
    PROVE  TypeInv'
<1> DEFINE c == op[p]
           k == blk[p]
           Target == {u \in Units : InTarget(c, k, u)}
<1>0. /\ pc[p] = "writing" /\ c \in Calls \cup {NoCall} /\ lock = p
      /\ k \in BlocksOfCall(c) /\ k \in Sectors
      /\ flash \in Contents /\ want \in Contents
      /\ flash[k] \in [Units -> Cell] /\ buf[p][k] \in [Units -> Cell]
      /\ want[k] \in [Units -> Cell]
      /\ try[p] < 3 /\ try[p] \in 0 .. 3
  BY DEF TypeInv, StoreTypeOK, WriteDone, Active, Setting, Holds, Contents
<1>1. /\ BlocksOfCall(c) \subseteq Sectors /\ LastBlk(c) \in Int
      /\ BlocksOfCall(c) = fInfo[c.sec].start .. LastBlk(c)
      /\ fInfo[c.sec].start \in Int
  BY <1>0, CallBlocks DEF TypeInv
<1>2. PICK result \in WriteResults(flash[k], buf[p][k], k \in Worn) :
          \/ Stored(p, [flash EXCEPT ![k] = result])
          \/ TriedAgain(p, [flash EXCEPT ![k] = result])
  BY DEF WriteDone
<1> DEFINE fl == [flash EXCEPT ![k] = result]
<1>3. fl \in Contents
  <2>1. result \in [Units -> Cell]
    BY <1>0, <1>2, WriteResultsType
  <2> QED BY <1>0, <2>1 DEF Contents
<1>4. c.data \in Cell
  BY <1>0, CallFields
<1>5. /\ fInfo' = fInfo /\ lock' = lock /\ up' = up /\ op' = op /\ buf' = buf
      /\ crashes' = crashes /\ calls' = calls
  BY DEF WriteDone
<1>6. CASE TriedAgain(p, fl)
  <2>1. try' \in [Procs -> 0 .. 3]
    BY <1>0, <1>6 DEF TypeInv, StoreTypeOK, TriedAgain
  <2>2. flash' \in Contents
    BY <1>0, <1>3, <1>6, ErasingType DEF TriedAgain
  <2>3. StoreTypeOK'
    BY <1>5, <1>6, <2>1, <2>2 DEF TypeInv, StoreTypeOK, TriedAgain
  <2> QED BY <1>0, <1>5, <1>6, <2>3
          DEF TypeInv, StoreTypeOK, TriedAgain, BlocksOfCall, Active, Setting, Holds
<1>7. CASE Stored(p, fl)
  <2>1. want' \in Contents
    <3> DEFINE new == [u \in Units |-> IF u \in Target THEN c.data ELSE want[k][u]]
    <3>1. new \in [Units -> Cell]
      BY <1>0, <1>4
    <3>2. want' = [want EXCEPT ![k] = new]
      BY <1>7 DEF Stored
    <3> HIDE DEF new
    <3> QED BY <1>0, <3>1, <3>2 DEF Contents
  <2>2. lost' \subseteq UnitsOf(Sectors)
    <3>1. lost \subseteq UnitsOf(Sectors)
      BY DEF TypeInv, StoreTypeOK
    <3>2. {k} \X {u \in Units \ Target : Overwrites(c, k, u)} \subseteq UnitsOf(Sectors)
      BY <1>0 DEF UnitsOf
    <3>3. lost' = (lost \ ({k} \X Target))
                     \cup ({k} \X {u \in Units \ Target : Overwrites(c, k, u)})
      BY <1>7 DEF Stored
    <3> QED BY <3>1, <3>2, <3>3
  <2>3. CASE /\ k < LastBlk(c)
             /\ blk' = [blk EXCEPT ![p] = k + 1]
             /\ flash' = Erasing(fl, k + 1)
             /\ pc' = [pc EXCEPT ![p] = "erasing"]
             /\ try' = [try EXCEPT ![p] = 0]
             /\ UNCHANGED ret
    <3>1. k + 1 \in BlocksOfCall(c) /\ k + 1 \in Sectors
      BY <1>0, <1>1, <2>3
    <3>2. flash' \in Contents
      BY <1>3, <2>3, <3>1, ErasingType
    <3> HIDE DEF fl
    <3>3. StoreTypeOK'
      BY <1>1, <1>5, <2>1, <2>2, <2>3, <3>1, <3>2 DEF TypeInv, StoreTypeOK
    <3> QED BY <1>0, <1>5, <2>3, <3>1, <3>3
            DEF TypeInv, StoreTypeOK, BlocksOfCall, Active, Setting, Holds
  <2>4. CASE /\ flash' = fl
             /\ pc' = [pc EXCEPT ![p] = "done"]
             /\ ret' = [ret EXCEPT ![p] = 0]
             /\ try' = [try EXCEPT ![p] = 0]
             /\ UNCHANGED blk
    <3> HIDE DEF fl
    <3>1. StoreTypeOK'
      BY <1>3, <1>5, <2>1, <2>2, <2>4 DEF TypeInv, StoreTypeOK
    <3> QED BY <1>0, <1>5, <2>4, <3>1
            DEF TypeInv, StoreTypeOK, BlocksOfCall, Active, Setting, Holds
  <2> QED BY <1>7, <2>3, <2>4 DEF Stored
<1> QED BY <1>2, <1>6, <1>7

(* Nothing of a call outlives the loss of power or a reset. *)
LEMMA TypeStop ==
    ASSUME TypeInv, Stop, flash' \in Contents, want' \in Contents,
           lost' \subseteq UnitsOf(Sectors)
    PROVE  TypeInv'
<1>1. 0 \in Sectors
  BY LayoutAssumption DEF Sectors
<1>2. [b \in Sectors |-> Blank(Zero)] \in Contents
  BY BlankType, CellMembers DEF Contents
<1>3. crashes' \in 0 .. MaxCrashes /\ calls' \in 0 .. MaxCalls
  BY StoreAssumption DEF TypeInv, StoreTypeOK, Stop
<1>4. lock' \in Procs \cup {None} /\ up' \in BOOLEAN /\ fInfo' = fInfo
  BY DEF Stop
<1>5. /\ pc' \in [Procs -> {"idle", "read", "reading", "erasing", "writing", "done"}]
      /\ op' \in [Procs -> Calls \cup {NoCall}]
      /\ blk' \in [Procs -> Sectors] /\ buf' \in [Procs -> Contents]
      /\ try' \in [Procs -> 0 .. 3] /\ ret' \in [Procs -> {0, -1}]
  BY <1>1, <1>2 DEF Stop
<1>6. StoreTypeOK'
  BY <1>3, <1>4, <1>5 DEF TypeInv, StoreTypeOK
<1> QED BY <1>6 DEF TypeInv, Stop, Active, Setting, Holds

(* What the reset button does to the flash. *)
ResetBy(n, done, spoilt) ==
    /\ flash' = [b \in Sectors |-> IF b \in spoilt THEN Blank(Junk)
                                   ELSE Marked(done, HalfWritten(n))[b]]
    /\ want' = Marked(done, want)
    /\ lost' = lost \cup UnitsOf(Windows \cup spoilt)

LEMMA ResetCase ==
    ASSUME ResetButton
    PROVE  \E n \in 0 .. SectSize, done \in SUBSET {"psi", "dare"}, k \in Int :
               ResetBy(n, done, {b \in ReadFirst(done) : b < k})
<1>1. (IF Busy THEN 0 .. NSect ELSE {0}) \subseteq Int
  OBVIOUS
<1>2. PICK n \in 0 .. SectSize, done \in SUBSET {"psi", "dare"},
           k \in IF Busy THEN 0 .. NSect ELSE {0} :
          ResetBy(n, done, {b \in ReadFirst(done) : b < k})
  BY ZenonT(40) DEF ResetButton, ResetBy
<1> QED BY <1>1, <1>2

LEMMA TypeReset ==
    ASSUME TypeInv, PowerFails \/ ResetButton
    PROVE  TypeInv'
<1>0. /\ StoreTypeOK /\ flash \in Contents /\ want \in Contents
      /\ lost \subseteq UnitsOf(Sectors) /\ UnitsOf(Windows) \subseteq UnitsOf(Sectors)
  BY DEF TypeInv, StoreTypeOK, Windows, UnitsOf
<1>1. CASE PowerFails
  <2>1. flash' \in Contents
    BY <1>0, <1>1, HalfWrittenType DEF PowerFails
  <2> QED BY <1>0, <1>1, <2>1, TypeStop DEF PowerFails
<1>2. CASE ResetButton
  <2>0. PICK n \in 0 .. SectSize, done \in SUBSET {"psi", "dare"}, k \in Int :
            ResetBy(n, done, {b \in ReadFirst(done) : b < k})
    BY <1>2, ResetCase
  <2> DEFINE spoilt == {b \in ReadFirst(done) : b < k}
  <2>1. ReadFirst(done) \subseteq Sectors
    <3>1. BlocksOf(fInfo["psi"]) \subseteq Sectors /\ BlocksOf(fInfo["dare"]) \subseteq Sectors
      BY <1>0, FInfoFacts DEF SectionNames
    <3> QED BY <3>1 DEF ReadFirst
  <2>2. spoilt \subseteq Sectors
    BY <2>1
  <2> HIDE DEF spoilt
  <2>3. /\ Marked(done, HalfWritten(n)) \in Contents
        /\ Marked(done, want) \in Contents
    BY <1>0, HalfWrittenType, MarkedType
  <2>4. Blank(Junk) \in [Units -> Cell]
    BY BlankType, CellMembers
  <2>5. ResetBy(n, done, spoilt)
    BY <2>0 DEF spoilt
  <2>6. flash' \in Contents
    BY <2>3, <2>4, <2>5 DEF Contents, ResetBy
  <2>7. lost' \subseteq UnitsOf(Sectors)
    BY <1>0, <2>2, <2>5 DEF ResetBy, UnitsOf
  <2> QED BY <1>2, <2>3, <2>5, <2>6, <2>7, TypeStop DEF ResetButton, ResetBy
<1> QED BY <1>1, <1>2

LEMMA TypeReturn ==
    ASSUME TypeInv, NEW p \in Procs, Return(p)
    PROVE  TypeInv'
<1>1. 0 \in Sectors
  BY LayoutAssumption DEF Sectors
<1>2. [b \in Sectors |-> Blank(Zero)] \in Contents
  BY BlankType, CellMembers DEF Contents
<1>3. StoreTypeOK'
  BY <1>1, <1>2 DEF TypeInv, StoreTypeOK, Return
<1> QED BY <1>3 DEF TypeInv, StoreTypeOK, Return, BlocksOfCall, Active, Setting, Holds

LEMMA TypeNext == TypeInv /\ [StoreNext]_storeVars => TypeInv'
<1> SUFFICES ASSUME TypeInv, [StoreNext]_storeVars PROVE TypeInv'
  OBVIOUS
<1>1. CASE Boot
  <2>1. fInfo' \in {Layout(psi, KernelEnd) : psi \in PsiSizes}
    <3>1. PICK psi \in PsiOf(flash[0][1]) : fInfo' = Layout(psi, KernelEnd)
      BY <1>1 DEF Boot
    <3>2. psi \in PsiSizes
      BY StoreAssumption DEF PsiOf
    <3> QED BY <3>1, <3>2
  <2>2. StoreTypeOK'
    BY <1>1, <2>1 DEF TypeInv, StoreTypeOK, Boot
  <2> QED BY <1>1, <2>2 DEF TypeInv, Boot, Active, Setting, Holds
<1>2. CASE UNCHANGED storeVars
  BY <1>2 DEF TypeInv, StoreTypeOK, storeVars, BlocksOfCall, Holds
<1> QED BY <1>1, <1>2, TypeCall, TypeReadStart, TypeRead, TypeErase, TypeWrite, TypeReturn,
           TypeReset
        DEF StoreNext, Step

(* The variables of the storage operations keep their types: in particular every    *)
(* sector a call reads, erases or writes is a sector of the flash, and no sector is *)
(* tried more than three times (getSharedBlks, setSharedBlks, cfi_flash_write_buf). *)
THEOREM StoreTypeCorrect == StoreSpec => []StoreTypeOK
<1>1. TypeInv => StoreTypeOK
  BY DEF TypeInv
<1> QED BY <1>1, TypeInit, TypeNext, PTL DEF StoreSpec

-------------------------------------------------------------------------------------
(* Nothing is lost but what the history says *)

(* A unit holds what was last stored in it, or it is lost. *)
Kept(b, u, x) == <<b, u>> \notin lost => x = want[b][u]

(* The sectors a call has behind it: read, or stored. *)
ReadAlready(p) ==
    pc[p] = "reading" => \A b \in BlocksOfCall(op[p]) : b < blk[p] => buf[p][b] = flash[b]

StoredIn(c, b) == \A u \in Units : InTarget(c, b, u) => flash[b][u] = c.data
StoredAlready(p) ==
    pc[p] \in Setting =>
        /\ op[p].kind # "get"
        /\ \A b \in BlocksOfCall(op[p]) : b < blk[p] => StoredIn(op[p], b)

(* The sectors it has before it: the buffer is what is wanted with the change made. *)
Ready(c, b, sec) ==
    \A u \in Units : IF Overwrites(c, b, u) THEN sec[u] = c.data ELSE Kept(b, u, sec[u])
BufferReady(p) ==
    pc[p] \in Setting =>
        \A b \in BlocksOfCall(op[p]) : b >= blk[p] => Ready(op[p], b, buf[p][b])

(* A call that has returned 0 has done what it should. *)
Copied(b, sec) == \A u \in Units : Kept(b, u, sec[u])
ResultRight(p) ==
    pc[p] = "done" /\ ret[p] = 0 =>
        \A b \in BlocksOfCall(op[p]) :
            IF op[p].kind = "get" THEN Copied(b, buf[p][b]) ELSE StoredIn(op[p], b)

ProcInv(p) == ReadAlready(p) /\ StoredAlready(p) /\ BufferReady(p) /\ ResultRight(p)

(* The inductive invariant. *)
StoreInv ==
    /\ TypeInv
    /\ \A p \in Procs : ProcInv(p)
    /\ SectorsHoldWhatWasSet

(* A call that does not hold the lock has nothing to show. *)
LEMMA WithoutLock ==
    ASSUME NEW p \in Procs, ~Holds(p)
    PROVE  ProcInv(p)
BY DEF Holds, ProcInv, ReadAlready, StoredAlready, BufferReady, ResultRight, Active, Setting

(* While a call reads or has returned, nobody is in a window. *)
LEMMA NoWindows ==
    ASSUME StoreInv, NEW p \in Procs, lock = p, pc[p] \notin Setting
    PROVE  Windows = {} /\ ~Busy
<1>1. ASSUME NEW q \in Procs, pc[q] \in Setting PROVE FALSE
  BY <1>1 DEF StoreInv, TypeInv, Holds, Active
<1> QED BY <1>1 DEF Windows, InWindow, Busy, Setting

(* A target of a call lies in what the call overwrites, and in its sectors. *)
LEMMA TargetOverwritten ==
    ASSUME NEW c \in Calls \cup {NoCall}, NEW b, NEW u, InTarget(c, b, u)
    PROVE  Overwrites(c, b, u) /\ b \in BlocksOfCall(c)
BY CallFields DEF InTarget, Overwrites, BlocksOfCall

(* A step of the call that holds the lock: the others have nothing to show. *)
LEMMA HolderStep ==
    ASSUME StoreInv, NEW p \in Procs, lock = p, TypeInv', ProcInv(p)',
           SectorsHoldWhatWasSet',
           \A q \in Procs \ {p} : pc'[q] = pc[q] /\ ret'[q] = ret[q]
    PROVE  StoreInv'
<1>1. ASSUME NEW q \in Procs \ {p} PROVE ProcInv(q)'
  <2>1. ~Holds(q)
    BY DEF StoreInv, TypeInv
  <2>2. ~Holds(q)'
    BY <2>1 DEF Holds
  <2> QED BY <2>2
          DEF Holds, ProcInv, ReadAlready, StoredAlready, BufferReady, ResultRight, Active,
              Setting
<1> QED BY <1>1 DEF StoreInv

(* A step that leaves the flash and its history alone keeps what other calls have   *)
(* done.                                                                            *)
LEMMA OthersKept ==
    ASSUME StoreInv, NEW q \in Procs, fInfo' = fInfo, flash' = flash, want' = want,
           lost' = lost, pc'[q] = pc[q], op'[q] = op[q], blk'[q] = blk[q],
           buf'[q] = buf[q], ret'[q] = ret[q]
    PROVE  ProcInv(q)'
<1> DEFINE c == op[q]
           B == BlocksOf(fInfo[c.sec])
<1>1. ProcInv(q)
  BY DEF StoreInv
<1>2. BlocksOfCall(op[q])' = B /\ BlocksOfCall(op[q]) = B
  BY DEF BlocksOfCall
<1>3. \A b \in B : StoredIn(op[q], b)' <=> StoredIn(op[q], b)
  BY DEF StoredIn, InTarget, InSection
<1>4. \A b \in B : Ready(op[q], b, buf[q][b])' <=> Ready(op[q], b, buf[q][b])
  BY DEF Ready, Kept, Overwrites, InTarget, InSection
<1>5. \A b \in B : Copied(b, buf[q][b])' <=> Copied(b, buf[q][b])
  BY DEF Copied, Kept
<1>6. ReadAlready(q)'
  BY <1>1, <1>2 DEF ProcInv, ReadAlready
<1>7. StoredAlready(q)'
  BY <1>1, <1>2, <1>3 DEF ProcInv, StoredAlready
<1>8. BufferReady(q)'
  BY <1>1, <1>2, <1>4 DEF ProcInv, BufferReady
<1>9. ResultRight(q)'
  BY <1>1, <1>2, <1>3, <1>5 DEF ProcInv, ResultRight
<1> QED BY <1>6, <1>7, <1>8, <1>9 DEF ProcInv

(* Likewise for what the sectors hold, when the windows stay. *)
LEMMA SectorsKept ==
    ASSUME SectorsHoldWhatWasSet, Windows' = Windows, flash' = flash, want' = want,
           lost' = lost
    PROVE  SectorsHoldWhatWasSet'
BY DEF SectorsHoldWhatWasSet

-------------------------------------------------------------------------------------
(* The steps of a call *)

LEMMA InvCall ==
    ASSUME StoreInv, NEW p \in Procs, NEW c \in Calls, CallFails(p, c) \/ CallStarts(p, c)
    PROVE  StoreInv'
<1>0. /\ pc[p] = "idle" /\ op' = [op EXCEPT ![p] = c]
      /\ fInfo' = fInfo /\ flash' = flash /\ want' = want /\ lost' = lost /\ buf' = buf
      /\ \/ pc' = [pc EXCEPT ![p] = "done"] /\ ret' = [ret EXCEPT ![p] = -1] /\ blk' = blk
         \/ /\ pc' = [pc EXCEPT ![p] = "read"] /\ ret' = ret
            /\ blk' = [blk EXCEPT ![p] = fInfo[c.sec].start]
  BY DEF CallFails, CallStarts
<1>1. TypeInv'
  BY TypeCall DEF StoreInv
<1>2. \A q \in Procs \ {p} : /\ pc'[q] = pc[q] /\ op'[q] = op[q] /\ blk'[q] = blk[q]
                             /\ buf'[q] = buf[q] /\ ret'[q] = ret[q]
  BY <1>0 DEF StoreInv, TypeInv, StoreTypeOK
<1>3. pc'[p] = "read" \/ (pc'[p] = "done" /\ ret'[p] = -1)
  BY <1>0 DEF StoreInv, TypeInv, StoreTypeOK
<1>4. ProcInv(p)'
  BY <1>3 DEF ProcInv, ReadAlready, StoredAlready, BufferReady, ResultRight, Setting
<1>5. \A q \in Procs \ {p} : ProcInv(q)'
  BY <1>0, <1>2, OthersKept
<1>6. Windows' = Windows
  <2>1. \A b \in Sectors, q \in Procs : InWindow(q, b)' <=> InWindow(q, b)
    BY <1>0, <1>2, <1>3 DEF InWindow
  <2> QED BY <2>1 DEF Windows
<1>7. SectorsHoldWhatWasSet'
  BY <1>0, <1>6, SectorsKept DEF StoreInv
<1> QED BY <1>1, <1>4, <1>5, <1>7 DEF StoreInv

(* The first read of a call: nothing is behind it. *)
LEMMA InvReadStart ==
    ASSUME StoreInv, NEW p \in Procs, ReadStart(p)
    PROVE  StoreInv'
<1>0. /\ pc[p] = "read" /\ pc' = [pc EXCEPT ![p] = "reading"] /\ op' = op /\ blk' = blk
      /\ fInfo' = fInfo /\ flash' = flash /\ want' = want /\ lost' = lost /\ buf' = buf
      /\ ret' = ret /\ op[p] \in Calls \cup {NoCall}
      /\ blk[p] = fInfo[op[p].sec].start
  BY DEF ReadStart, StoreInv, TypeInv, StoreTypeOK
<1>1. TypeInv'
  BY TypeReadStart DEF StoreInv
<1>2. pc'[p] = "reading" /\ \A q \in Procs \ {p} : pc'[q] = pc[q]
  BY <1>0 DEF StoreInv, TypeInv, StoreTypeOK
<1>3. ProcInv(p)'
  <2>1. BlocksOfCall(op[p])' = BlocksOfCall(op[p])
    BY <1>0 DEF BlocksOfCall
  <2>2. BlocksOfCall(op[p]) = fInfo[op[p].sec].start .. LastBlk(op[p])
        /\ fInfo[op[p].sec].start \in Int /\ LastBlk(op[p]) \in Int
    BY <1>0, CallBlocks DEF StoreInv, TypeInv
  <2>3. \A b \in BlocksOfCall(op[p]) : ~(b < blk[p])
    BY <1>0, <2>2
  <2> QED BY <1>0, <1>2, <2>1, <2>3
          DEF ProcInv, ReadAlready, StoredAlready, BufferReady, ResultRight, Setting
<1>4. \A q \in Procs \ {p} : ProcInv(q)'
  BY <1>0, <1>2, OthersKept
<1>5. Windows' = Windows
  <2>1. \A b \in Sectors, q \in Procs : InWindow(q, b)' <=> InWindow(q, b)
    BY <1>0, <1>2 DEF InWindow
  <2> QED BY <2>1 DEF Windows
<1>6. SectorsHoldWhatWasSet'
  BY <1>0, <1>5, SectorsKept DEF StoreInv
<1> QED BY <1>1, <1>3, <1>4, <1>6 DEF StoreInv

(* The buffer of a call fills with what its sectors hold; with the change made it   *)
(* is ready, and the first sector is in a window.                                   *)
LEMMA InvRead ==
    ASSUME StoreInv, NEW p \in Procs, ReadBlk(p)
    PROVE  StoreInv'
<1> DEFINE c  == op[p]
           bf == [buf[p] EXCEPT ![blk[p]] = Sensed(blk[p])]
           first == fInfo[c.sec].start
<1>0. /\ pc[p] = "reading" /\ lock = p /\ c \in Calls \cup {NoCall} /\ StoreTypeOK
      /\ blk[p] \in BlocksOfCall(c) /\ buf[p] \in Contents /\ want \in Contents
      /\ flash \in Contents
      /\ fInfo' = fInfo /\ want' = want /\ lost' = lost /\ op' = op /\ try' = try
  BY DEF StoreInv, TypeInv, StoreTypeOK, ReadBlk, Active, Holds
<1>1. TypeInv'
  BY TypeRead DEF StoreInv
<1>2. /\ BlocksOfCall(c) \subseteq Sectors /\ LastBlk(c) \in Int
      /\ BlocksOfCall(c) = first .. LastBlk(c)
      /\ first \in Int
  BY <1>0, CallBlocks
<1>3. BlocksOfCall(op[p])' = BlocksOfCall(c)
  BY <1>0 DEF BlocksOfCall
<1>4. Windows = {} /\ Sensed(blk[p]) = flash[blk[p]]
  BY <1>0, NoWindows DEF Sensed, Setting
<1>5. \A b \in BlocksOfCall(c) : b <= blk[p] => bf[b] = flash[b]
  <2>1. \A b \in BlocksOfCall(c) : b < blk[p] => buf[p][b] = flash[b]
    BY <1>0 DEF StoreInv, ProcInv, ReadAlready
  <2>2. DOMAIN buf[p] = Sectors
    BY <1>0 DEF Contents
  <2> QED BY <1>0, <1>2, <1>4, <2>1, <2>2
<1>6. \A b \in Sectors, u \in Units : Kept(b, u, flash[b][u])
  BY <1>4 DEF StoreInv, SectorsHoldWhatWasSet, Kept
<1>7. \A q \in Procs \ {p} : pc'[q] = pc[q] /\ ret'[q] = ret[q] /\ blk'[q] = blk[q]
  BY <1>0 DEF ReadBlk, StoreTypeOK
<1>8. ASSUME flash' = flash, pc'[p] \notin Setting PROVE SectorsHoldWhatWasSet'
  <2>1. \A b \in Sectors, q \in Procs : ~InWindow(q, b)'
    BY <1>4, <1>7, <1>8 DEF Windows, InWindow, Setting
  <2>2. Windows' = Windows
    BY <1>4, <2>1 DEF Windows
  <2> QED BY <1>0, <1>8, <2>2, SectorsKept DEF StoreInv
<1> HIDE DEF bf, first
<1>9. CASE /\ blk[p] < LastBlk(c)
           /\ blk' = [blk EXCEPT ![p] = @ + 1]
           /\ buf' = [buf EXCEPT ![p] = bf]
           /\ UNCHANGED <<flash, pc, ret>>
  <2>1. blk'[p] = blk[p] + 1 /\ buf'[p] = bf /\ pc'[p] = "reading"
    BY <1>0, <1>9 DEF StoreTypeOK
  <2>2. \A b \in BlocksOfCall(c) : b < blk[p] + 1 => bf[b] = flash[b]
    BY <1>0, <1>2, <1>5
  <2>3. ReadAlready(p)'
    BY <1>0, <1>3, <1>9, <2>1, <2>2 DEF ReadAlready
  <2>4. ProcInv(p)'
    BY <2>1, <2>3 DEF ProcInv, StoredAlready, BufferReady, ResultRight, Setting
  <2>5. SectorsHoldWhatWasSet'
    BY <1>8, <1>9, <2>1 DEF Setting
  <2> QED BY <1>0, <1>1, <1>7, <2>4, <2>5, HolderStep
<1>10. CASE /\ blk[p] = LastBlk(c) /\ c.kind = "get"
            /\ buf' = [buf EXCEPT ![p] = bf]
            /\ pc' = [pc EXCEPT ![p] = "done"]
            /\ ret' = [ret EXCEPT ![p] = 0]
            /\ UNCHANGED <<flash, blk>>
  <2>1. buf'[p] = bf /\ pc'[p] = "done"
    BY <1>0, <1>10 DEF StoreTypeOK
  <2>2. \A b \in BlocksOfCall(c) : b \in Sectors /\ bf[b] = flash[b]
    BY <1>2, <1>5, <1>10
  <2>3. \A b \in BlocksOfCall(c) : Copied(b, bf[b])
    BY <1>6, <2>2 DEF Copied
  <2>4. \A b \in BlocksOfCall(c) : Copied(b, buf[p][b])'
    BY <1>0, <2>1, <2>3 DEF Copied, Kept
  <2>5. ProcInv(p)'
    BY <1>0, <1>3, <1>10, <2>1, <2>4
       DEF ProcInv, ReadAlready, StoredAlready, BufferReady, ResultRight, Setting
  <2>6. SectorsHoldWhatWasSet'
    BY <1>8, <1>10, <2>1 DEF Setting
  <2> QED BY <1>0, <1>1, <1>7, <2>5, <2>6, HolderStep
<1>11. CASE /\ blk[p] = LastBlk(c) /\ c.kind # "get"
            /\ buf' = [buf EXCEPT ![p] = Modified(c, bf)]
            /\ blk' = [blk EXCEPT ![p] = first]
            /\ flash' = Erasing(flash, first)
            /\ pc' = [pc EXCEPT ![p] = "erasing"]
            /\ UNCHANGED ret
  <2>1. buf'[p] = Modified(c, bf) /\ pc'[p] = "erasing" /\ blk'[p] = first
    BY <1>0, <1>11 DEF StoreTypeOK
  <2>2. \A b \in BlocksOfCall(c) : b \in Sectors /\ bf[b] = flash[b]
    BY <1>2, <1>5, <1>11
  <2>3. \A b \in BlocksOfCall(c) : Ready(c, b, Modified(c, bf)[b])
    BY <1>6, <1>11, <2>2 DEF Ready, Modified
  <2>4. \A b \in BlocksOfCall(c) : Ready(op[p], b, buf[p][b])'
    BY <1>0, <2>1, <2>3 DEF Ready, Kept, Overwrites, InTarget, InSection
  <2>5. \A b \in BlocksOfCall(c) : ~(b < first)
    BY <1>2
  <2>6. StoredAlready(p)'
    BY <1>0, <1>3, <1>11, <2>1, <2>5 DEF StoredAlready
  <2>7. BufferReady(p)'
    BY <1>3, <2>4 DEF BufferReady
  <2>8. ProcInv(p)'
    BY <2>1, <2>6, <2>7 DEF ProcInv, ReadAlready, ResultRight
  <2>9. SectorsHoldWhatWasSet'
    <3> SUFFICES ASSUME NEW b \in Sectors, b \notin Windows', NEW u \in Units
                 PROVE  Kept(b, u, flash'[b][u])
      BY <1>0 DEF SectorsHoldWhatWasSet, Kept
    <3>1. b # first
      BY <2>1 DEF Windows, InWindow
    <3>2. flash'[b] = flash[b]
      BY <1>0, <1>11, <3>1 DEF Erasing, Contents
    <3> QED BY <1>6, <3>2
  <2> QED BY <1>0, <1>1, <1>7, <2>8, <2>9, HolderStep
<1>12. CASE /\ pc' = [pc EXCEPT ![p] = "done"]
            /\ ret' = [ret EXCEPT ![p] = -1]
            /\ UNCHANGED <<flash, blk, buf>>
  <2>1. pc'[p] = "done" /\ ret'[p] = -1
    BY <1>0, <1>12 DEF StoreTypeOK
  <2>2. ProcInv(p)'
    BY <2>1 DEF ProcInv, ReadAlready, StoredAlready, BufferReady, ResultRight, Setting
  <2>3. SectorsHoldWhatWasSet'
    BY <1>8, <1>12, <2>1 DEF Setting
  <2> QED BY <1>0, <1>1, <1>7, <2>2, <2>3, HolderStep
<1> QED BY <1>9, <1>10, <1>11, <1>12 DEF ReadBlk, bf, first

(* A call in a window changes no other sector: what it stored before stays stored,  *)
(* and what the other sectors hold.                                                 *)
LEMMA SameSector ==
    ASSUME StoreInv, NEW p \in Procs, pc[p] \in Setting,
           fInfo' = fInfo, want' = want, op' = op, blk'[p] = blk[p], buf' = buf,
           \A b \in Sectors : b # blk[p] => flash'[b] = flash[b],
           lost' = lost \/ pc'[p] \notin Setting,
           lost' = lost \/ lost' = lost \cup UnitsOf({blk[p]}),
           pc'[p] \in Setting \/ (pc'[p] = "done" /\ ret'[p] = -1),
           pc'[p] \notin Setting => UnitsOf({blk[p]}) \subseteq lost'
    PROVE  ProcInv(p)' /\ SectorsHoldWhatWasSet'
<1> DEFINE c == op[p]
           k == blk[p]
<1>0. /\ StoreTypeOK /\ c \in Calls \cup {NoCall} /\ k \in Sectors /\ ProcInv(p) /\ lock = p
      /\ BlocksOfCall(c) \subseteq Sectors
      /\ BlocksOfCall(c) = fInfo[c.sec].start .. LastBlk(c)
      /\ fInfo[c.sec].start \in Int /\ LastBlk(c) \in Int /\ k \in BlocksOfCall(c)
  BY CallBlocks DEF StoreInv, TypeInv, StoreTypeOK, Holds, Active
<1>1. BlocksOfCall(op[p])' = BlocksOfCall(c)
  BY DEF BlocksOfCall
<1>2. ProcInv(p)'
  <2>1. CASE pc'[p] \in Setting
    <3>1. \A b \in BlocksOfCall(c) : b < k => StoredIn(op[p], b)'
      <4> SUFFICES ASSUME NEW b \in BlocksOfCall(c), b < k PROVE StoredIn(op[p], b)'
        OBVIOUS
      <4>1. StoredIn(op[p], b) /\ b # k /\ b \in Sectors
        BY <1>0 DEF ProcInv, StoredAlready
      <4> QED BY <4>1 DEF StoredIn, InTarget, InSection
    <3>2. \A b \in BlocksOfCall(c) : b >= k => Ready(op[p], b, buf[p][b])'
      <4> SUFFICES ASSUME NEW b \in BlocksOfCall(c), b >= k
                   PROVE  Ready(op[p], b, buf[p][b])'
        OBVIOUS
      <4>1. Ready(op[p], b, buf[p][b]) /\ lost' = lost
        BY <1>0, <2>1 DEF ProcInv, BufferReady
      <4> QED BY <4>1 DEF Ready, Kept, Overwrites, InTarget, InSection
    <3>3. StoredAlready(p)'
      BY <1>0, <1>1, <3>1 DEF ProcInv, StoredAlready
    <3>4. BufferReady(p)'
      BY <1>1, <3>2 DEF BufferReady
    <3> QED BY <2>1, <3>3, <3>4 DEF ProcInv, ReadAlready, ResultRight, Setting
  <2>2. CASE pc'[p] = "done" /\ ret'[p] = -1
    BY <2>2 DEF ProcInv, ReadAlready, StoredAlready, BufferReady, ResultRight, Setting
  <2> QED BY <2>1, <2>2
<1>3. SectorsHoldWhatWasSet'
  <2> SUFFICES ASSUME NEW b \in Sectors, b \notin Windows', NEW u \in Units,
                      <<b, u>> \notin lost'
               PROVE  flash'[b][u] = want[b][u]
    BY DEF SectorsHoldWhatWasSet
  <2>1. b # k
    <3>1. CASE pc'[p] \in Setting
      BY <3>1 DEF Windows, InWindow, Setting
    <3>2. CASE pc'[p] \notin Setting
      BY <3>2 DEF UnitsOf
    <3> QED BY <3>1, <3>2
  <2>2. b \notin Windows
    <3>1. \A q \in Procs : pc[q] \in Setting => q = p
      BY <1>0 DEF StoreInv, TypeInv, Holds, Active
    <3> QED BY <2>1, <3>1 DEF Windows, InWindow, Setting
  <2>3. <<b, u>> \notin lost
    OBVIOUS
  <2> QED BY <2>1, <2>2, <2>3 DEF StoreInv, SectorsHoldWhatWasSet
<1> QED BY <1>2, <1>3

LEMMA InvErase ==
    ASSUME StoreInv, NEW p \in Procs, EraseDone(p)
    PROVE  StoreInv'
<1>0. /\ StoreTypeOK /\ pc[p] \in Setting /\ lock = p /\ blk[p] \in Sectors
      /\ op' = op /\ blk' = blk /\ buf' = buf /\ fInfo' = fInfo /\ want' = want
      /\ flash \in Contents
  BY DEF StoreInv, TypeInv, StoreTypeOK, EraseDone, Setting, Holds, Active
<1>1. TypeInv'
  BY TypeErase DEF StoreInv
<1>2. \A q \in Procs \ {p} : pc'[q] = pc[q] /\ ret'[q] = ret[q]
  BY <1>0 DEF EraseDone, StoreTypeOK
<1>3. \A b \in Sectors : b # blk[p] => flash'[b] = flash[b]
  BY <1>0 DEF EraseDone, Contents
<1>4. \/ pc'[p] = "writing" /\ lost' = lost
      \/ /\ pc'[p] = "done" /\ ret'[p] = -1
         /\ lost' = lost \cup UnitsOf({blk[p]})
  BY <1>0 DEF EraseDone, StoreTypeOK
<1>5. ProcInv(p)' /\ SectorsHoldWhatWasSet'
  BY <1>0, <1>3, <1>4, SameSector DEF Setting
<1> QED BY <1>0, <1>1, <1>2, <1>5, HolderStep

(* A sector whose contents compare equal with the buffer holds the call's data in   *)
(* its target and what was there in the rest, or that is lost.                      *)
LEMMA InvWrite ==
    ASSUME StoreInv, NEW p \in Procs, WriteDone(p)
    PROVE  StoreInv'
<1> DEFINE c == op[p]
           k == blk[p]
           Target == {u \in Units : InTarget(c, k, u)}
           Others == {u \in Units \ Target : Overwrites(c, k, u)}
<1>0. /\ StoreTypeOK /\ pc[p] = "writing" /\ pc[p] \in Setting /\ lock = p
      /\ c \in Calls \cup {NoCall} /\ k \in BlocksOfCall(c) /\ k \in Sectors
      /\ fInfo' = fInfo /\ op' = op /\ buf' = buf /\ want \in Contents
      /\ flash \in Contents
  BY DEF StoreInv, TypeInv, StoreTypeOK, WriteDone, Setting, Active, Holds
<1>1. TypeInv'
  BY TypeWrite DEF StoreInv
<1>2. /\ BlocksOfCall(c) \subseteq Sectors /\ LastBlk(c) \in Int
      /\ BlocksOfCall(c) = fInfo[c.sec].start .. LastBlk(c)
      /\ fInfo[c.sec].start \in Int
  BY <1>0, CallBlocks
<1>3. PICK result \in WriteResults(flash[k], buf[p][k], k \in Worn) :
          \/ result = buf[p][k] /\ Stored(p, [flash EXCEPT ![k] = result])
          \/ TriedAgain(p, [flash EXCEPT ![k] = result])
  BY DEF WriteDone
<1> DEFINE fl == [flash EXCEPT ![k] = result]
<1>4. fl[k] = result /\ \A b \in Sectors : b # k => fl[b] = flash[b]
  BY <1>0 DEF Contents
<1>5. DOMAIN fl = Sectors
  BY <1>0 DEF Contents
<1> HIDE DEF fl
<1>6. CASE TriedAgain(p, fl)
  <2>1. /\ pc'[p] = "erasing" /\ want' = want /\ lost' = lost /\ blk' = blk /\ ret' = ret
        /\ \A q \in Procs \ {p} : pc'[q] = pc[q]
        /\ \A b \in Sectors : b # k => flash'[b] = flash[b]
    BY <1>0, <1>4, <1>5, <1>6 DEF TriedAgain, Erasing, StoreTypeOK
  <2>2. ProcInv(p)' /\ SectorsHoldWhatWasSet'
    BY <1>0, <2>1, SameSector DEF Setting
  <2> QED BY <1>0, <1>1, <2>1, <2>2, HolderStep
<1>7. CASE result = buf[p][k] /\ Stored(p, fl)
  <2>1. /\ want'[k] = [u \in Units |-> IF u \in Target THEN c.data ELSE want[k][u]]
        /\ \A b \in Sectors : b # k => want'[b] = want[b]
        /\ lost' = (lost \ ({k} \X Target)) \cup ({k} \X Others)
    BY <1>0, <1>7 DEF Stored, Contents
  <2>2. /\ c.kind # "get"
        /\ \A b \in BlocksOfCall(c) : b >= k => Ready(c, b, buf[p][b])
        /\ \A b \in BlocksOfCall(c) : b < k => StoredIn(c, b)
    BY <1>0 DEF StoreInv, ProcInv, StoredAlready, BufferReady
  <2>3. \A b \in Sectors, u \in Units : b # k => (<<b, u>> \in lost' <=> <<b, u>> \in lost)
    BY <2>1
  <2>4. \A u \in Units : /\ u \in Others => <<k, u>> \in lost'
                         /\ u \notin Target /\ u \notin Others =>
                                (<<k, u>> \in lost' <=> <<k, u>> \in lost)
    BY <2>1
  <2>5. Ready(c, k, fl[k])
    BY <1>0, <1>2, <1>4, <1>7, <2>2
  <2>6. \A u \in Units : /\ u \in Target => fl[k][u] = c.data
                         /\ <<k, u>> \notin lost' => fl[k][u] = want'[k][u]
    <3> SUFFICES ASSUME NEW u \in Units
                 PROVE  /\ u \in Target => fl[k][u] = c.data
                        /\ <<k, u>> \notin lost' => fl[k][u] = want'[k][u]
      OBVIOUS
    <3>1. CASE u \in Target
      <4>1. Overwrites(c, k, u)
        BY <1>0, <3>1, TargetOverwritten
      <4>2. fl[k][u] = c.data
        BY <2>5, <4>1 DEF Ready
      <4> QED BY <2>1, <3>1, <4>2
    <3>2. CASE u \in Others
      BY <2>4, <3>2
    <3>3. CASE u \notin Target /\ u \notin Others
      <4>1. ~Overwrites(c, k, u)
        BY <3>3
      <4>2. Kept(k, u, fl[k][u])
        BY <2>5, <4>1 DEF Ready
      <4>3. want'[k][u] = want[k][u]
        BY <2>1, <3>3
      <4> QED BY <2>4, <3>3, <4>2, <4>3 DEF Kept
    <3> QED BY <3>1, <3>2, <3>3
  <2>7. \A b \in Sectors \ {k}, u \in Units : <<b, u>> \notin lost' => fl[b][u] = want'[b][u]
    <3> SUFFICES ASSUME NEW b \in Sectors \ {k}, NEW u \in Units, <<b, u>> \notin lost'
                 PROVE  fl[b][u] = want'[b][u]
      OBVIOUS
    <3>1. b \notin Windows
      <4>1. \A q \in Procs : pc[q] \in Setting => q = p
        BY <1>0 DEF StoreInv, TypeInv, Holds, Active
      <4> QED BY <4>1 DEF Windows, InWindow, Setting
    <3>2. flash[b][u] = want[b][u]
      BY <2>3, <3>1 DEF StoreInv, SectorsHoldWhatWasSet
    <3> QED BY <1>4, <2>1, <3>2
  <2>8. \A b \in Sectors, u \in Units : <<b, u>> \notin lost' => fl[b][u] = want'[b][u]
    BY <2>6, <2>7
  <2>9. \A b \in BlocksOfCall(c), u \in Units :
            b <= k /\ InTarget(c, b, u) => fl[b][u] = c.data
    <3> SUFFICES ASSUME NEW b \in BlocksOfCall(c), NEW u \in Units, b <= k,
                        InTarget(c, b, u)
                 PROVE  fl[b][u] = c.data
      OBVIOUS
    <3>1. CASE b = k
      BY <2>6, <3>1
    <3>2. CASE b # k
      <4>1. b < k /\ b \in Sectors
        BY <1>0, <1>2, <3>2
      <4>2. fl[b] = flash[b]
        BY <1>4, <3>2, <4>1
      <4>3. StoredIn(c, b)
        BY <2>2, <4>1
      <4> QED BY <4>2, <4>3 DEF StoredIn
    <3> QED BY <3>1, <3>2
  <2>10. BlocksOfCall(op[p])' = BlocksOfCall(c)
    BY <1>0 DEF BlocksOfCall
  <2>11. \A b \in BlocksOfCall(c) : b > k => Ready(op[p], b, buf[p][b])'
    <3> SUFFICES ASSUME NEW b \in BlocksOfCall(c), b > k PROVE Ready(op[p], b, buf[p][b])'
      OBVIOUS
    <3>1. Ready(c, b, buf[p][b]) /\ b # k /\ b \in Sectors
      BY <1>0, <1>2, <2>2
    <3>2. want'[b] = want[b] /\ \A u \in Units : (<<b, u>> \in lost' <=> <<b, u>> \in lost)
      BY <2>1, <2>3, <3>1
    <3> QED BY <1>0, <3>1, <3>2 DEF Ready, Kept, Overwrites, InTarget, InSection
  <2> HIDE DEF Target, Others
  <2>12. CASE /\ k < LastBlk(c)
              /\ blk' = [blk EXCEPT ![p] = k + 1]
              /\ flash' = Erasing(fl, k + 1)
              /\ pc' = [pc EXCEPT ![p] = "erasing"]
              /\ UNCHANGED ret
    <3>1. /\ blk'[p] = k + 1 /\ pc'[p] = "erasing"
          /\ \A q \in Procs \ {p} : pc'[q] = pc[q] /\ ret'[q] = ret[q]
      BY <1>0, <2>12 DEF StoreTypeOK
    <3>2. \A b \in Sectors : b # k + 1 => flash'[b] = fl[b]
      BY <1>5, <2>12 DEF Erasing
    <3>3. \A b \in BlocksOfCall(c) : /\ b < k + 1 => b <= k /\ b # k + 1 /\ b \in Sectors
                                     /\ b >= k + 1 => b > k
      BY <1>0, <1>2
    <3>4. \A b \in BlocksOfCall(c) : b < k + 1 => StoredIn(op[p], b)'
      BY <1>0, <2>9, <3>2, <3>3 DEF StoredIn, InTarget, InSection
    <3>5. StoredAlready(p)'
      BY <1>0, <2>2, <2>10, <3>1, <3>4 DEF StoredAlready
    <3>6. BufferReady(p)'
      BY <2>10, <2>11, <3>1, <3>3 DEF BufferReady
    <3>7. ProcInv(p)'
      BY <3>1, <3>5, <3>6 DEF ProcInv, ReadAlready, ResultRight
    <3>8. SectorsHoldWhatWasSet'
      <4> SUFFICES ASSUME NEW b \in Sectors, b \notin Windows', NEW u \in Units,
                          <<b, u>> \notin lost'
                   PROVE  flash'[b][u] = want'[b][u]
        BY DEF SectorsHoldWhatWasSet
      <4>1. b # k + 1
        BY <3>1 DEF Windows, InWindow
      <4> QED BY <2>8, <3>2, <4>1
    <3> QED BY <1>0, <1>1, <3>1, <3>7, <3>8, HolderStep
  <2>13. CASE /\ k = LastBlk(c)
              /\ flash' = fl
              /\ pc' = [pc EXCEPT ![p] = "done"]
              /\ ret' = [ret EXCEPT ![p] = 0]
              /\ UNCHANGED blk
    <3>1. /\ pc'[p] = "done"
          /\ \A q \in Procs \ {p} : pc'[q] = pc[q] /\ ret'[q] = ret[q]
      BY <1>0, <2>13 DEF StoreTypeOK
    <3>2. \A b \in BlocksOfCall(c) : b <= k
      BY <1>0, <1>2, <2>13
    <3>3. \A b \in BlocksOfCall(c) : StoredIn(op[p], b)'
      BY <1>0, <2>9, <2>13, <3>2 DEF StoredIn, InTarget, InSection
    <3>4. ProcInv(p)'
      BY <1>0, <2>2, <2>10, <3>1, <3>3
         DEF ProcInv, ReadAlready, StoredAlready, BufferReady, ResultRight, Setting
    <3>5. SectorsHoldWhatWasSet'
      BY <2>8, <2>13 DEF SectorsHoldWhatWasSet
    <3> QED BY <1>0, <1>1, <3>1, <3>4, <3>5, HolderStep
  <2> QED BY <1>7, <2>12, <2>13 DEF Stored
<1> QED BY <1>3, <1>6, <1>7 DEF fl

LEMMA InvReturn ==
    ASSUME StoreInv, NEW p \in Procs, Return(p)
    PROVE  StoreInv'
<1>0. /\ pc[p] = "done" /\ pc'[p] = "idle"
      /\ fInfo' = fInfo /\ flash' = flash /\ want' = want /\ lost' = lost
      /\ \A q \in Procs \ {p} : /\ pc'[q] = pc[q] /\ op'[q] = op[q] /\ blk'[q] = blk[q]
                                /\ buf'[q] = buf[q] /\ ret'[q] = ret[q]
  BY DEF Return, StoreInv, TypeInv, StoreTypeOK
<1>1. TypeInv'
  BY TypeReturn DEF StoreInv
<1>2. ProcInv(p)'
  BY <1>0 DEF ProcInv, ReadAlready, StoredAlready, BufferReady, ResultRight, Setting
<1>3. \A q \in Procs \ {p} : ProcInv(q)'
  BY <1>0, OthersKept
<1>4. Windows' = Windows
  <2>1. \A b \in Sectors, q \in Procs : InWindow(q, b)' <=> InWindow(q, b)
    BY <1>0 DEF InWindow
  <2> QED BY <2>1 DEF Windows
<1>5. SectorsHoldWhatWasSet'
  BY <1>0, <1>4, SectorsKept DEF StoreInv
<1> QED BY <1>1, <1>2, <1>3, <1>5 DEF StoreInv

-------------------------------------------------------------------------------------
(* Power failure, reset and start *)

(* Without a call in progress nothing is to be shown about calls. *)
LEMMA IdleInv ==
    ASSUME \A p \in Procs : pc[p] = "idle"
    PROVE  Windows = {} /\ \A p \in Procs : ProcInv(p)
BY DEF ProcInv, ReadAlready, StoredAlready, BufferReady, ResultRight, Setting, Windows,
       InWindow

(* A write that is cut short changes a sector in a window. *)
LEMMA OnlyWindowsCut ==
    ASSUME StoreTypeOK, NEW n, NEW b \in Sectors \ Windows
    PROVE  HalfWritten(n)[b] = flash[b]
<1>1. CASE lock # None /\ pc[lock] = "writing" /\ blk[lock] = b
  <2>1. lock \in Procs
    BY <1>1 DEF StoreTypeOK
  <2> QED BY <1>1, <2>1 DEF Windows, InWindow
<1>2. CASE ~(lock # None /\ pc[lock] = "writing" /\ blk[lock] = b)
  BY <1>2 DEF HalfWritten
<1> QED BY <1>1, <1>2

LEMMA InvReset ==
    ASSUME StoreInv, PowerFails \/ ResetButton
    PROVE  StoreInv'
<1>0. Stop /\ StoreTypeOK
  BY DEF PowerFails, ResetButton, StoreInv, TypeInv
<1>1. TypeInv'
  BY TypeReset DEF StoreInv
<1>2. \A p \in Procs : pc'[p] = "idle"
  BY <1>0 DEF Stop
<1>3. \A p \in Procs : ProcInv(p)'
  BY <1>2 DEF ProcInv, ReadAlready, StoredAlready, BufferReady, ResultRight, Setting
<1>4. \A b \in Sectors, u \in Units : <<b, u>> \notin lost' => flash'[b][u] = want'[b][u]
  <2>1. CASE PowerFails
    <3>1. PICK n \in 0 .. SectSize : flash' = HalfWritten(n)
      BY <2>1 DEF PowerFails
    <3> SUFFICES ASSUME NEW b \in Sectors, NEW u \in Units, <<b, u>> \notin lost'
                 PROVE  flash'[b][u] = want'[b][u]
      OBVIOUS
    <3>2. want' = want /\ <<b, u>> \notin lost /\ b \notin Windows
      BY <2>1 DEF PowerFails, UnitsOf
    <3>3. flash'[b] = flash[b]
      BY <1>0, <3>1, <3>2, OnlyWindowsCut
    <3> QED BY <3>2, <3>3 DEF StoreInv, SectorsHoldWhatWasSet
  <2>2. CASE ResetButton
    <3>0. PICK n \in 0 .. SectSize, done \in SUBSET {"psi", "dare"}, k \in Int :
              ResetBy(n, done, {b \in ReadFirst(done) : b < k})
      BY <2>2, ResetCase
    <3> DEFINE spoilt == {b \in ReadFirst(done) : b < k}
    <3>1. ResetBy(n, done, spoilt)
      BY <3>0
    <3> HIDE DEF spoilt
    <3> SUFFICES ASSUME NEW b \in Sectors, NEW u \in Units, <<b, u>> \notin lost'
                 PROVE  flash'[b][u] = want'[b][u]
      OBVIOUS
    <3>2. <<b, u>> \notin lost /\ b \notin Windows /\ b \notin spoilt
      BY <3>1 DEF ResetBy, UnitsOf
    <3>3. HalfWritten(n)[b][u] = want[b][u]
      BY <1>0, <3>2, OnlyWindowsCut DEF StoreInv, SectorsHoldWhatWasSet
    <3>4. flash'[b] = Marked(done, HalfWritten(n))[b] /\ want' = Marked(done, want)
      BY <3>1, <3>2 DEF ResetBy
    <3> QED BY <3>3, <3>4 DEF Marked
  <2> QED BY <2>1, <2>2
<1> QED BY <1>1, <1>3, <1>4 DEF StoreInv, SectorsHoldWhatWasSet

LEMMA InvBoot ==
    ASSUME StoreInv, Boot
    PROVE  StoreInv'
<1>1. TypeInv'
  <2>1. StoreNext
    BY DEF StoreNext
  <2> QED BY <2>1, TypeNext DEF StoreInv
<1>2. \A p \in Procs : pc'[p] = "idle"
  BY DEF StoreInv, TypeInv, Boot
<1>3. \A p \in Procs : ProcInv(p)'
  BY <1>2 DEF ProcInv, ReadAlready, StoredAlready, BufferReady, ResultRight, Setting
<1>4. SectorsHoldWhatWasSet'
  BY DEF StoreInv, SectorsHoldWhatWasSet, Windows, InWindow, Boot
<1> QED BY <1>1, <1>3, <1>4 DEF StoreInv

-------------------------------------------------------------------------------------
LEMMA InvInit == StoreInit => StoreInv
<1> SUFFICES ASSUME StoreInit PROVE StoreInv
  OBVIOUS
<1>1. \A p \in Procs : pc[p] = "idle"
  BY DEF StoreInit
<1>2. SectorsHoldWhatWasSet
  BY DEF SectorsHoldWhatWasSet, StoreInit
<1> QED BY <1>1, <1>2, TypeInit, IdleInv DEF StoreInv

LEMMA InvNext == StoreInv /\ [StoreNext]_storeVars => StoreInv'
<1> SUFFICES ASSUME StoreInv, [StoreNext]_storeVars PROVE StoreInv'
  OBVIOUS
<1>1. CASE UNCHANGED storeVars
  <2>1. TypeInv'
    BY <1>1, TypeNext DEF StoreInv
  <2>2. SectorsHoldWhatWasSet'
    BY <1>1 DEF StoreInv, SectorsHoldWhatWasSet, Windows, InWindow, storeVars
  <2>3. \A p \in Procs : ProcInv(p)'
    BY <1>1, OthersKept DEF storeVars
  <2> QED BY <2>1, <2>2, <2>3 DEF StoreInv
<1> QED BY <1>1, InvCall, InvReadStart, InvRead, InvErase, InvWrite, InvReturn, InvReset,
           InvBoot
        DEF StoreNext, Step

LEMMA InvAlways == StoreSpec => []StoreInv
BY InvInit, InvNext, PTL DEF StoreSpec

(* Outside the window between an erase and its write the flash holds what was last  *)
(* stored in it and not lost, whatever processes call, sectors are worn and         *)
(* wherever power fails or the reset button is pressed (getSharedBlks,              *)
(* setSharedBlks).                                                                  *)
THEOREM SectorsAlwaysHold == StoreSpec => []SectorsHoldWhatWasSet
<1>1. StoreInv => SectorsHoldWhatWasSet
  BY DEF StoreInv
<1> QED BY <1>1, InvAlways, PTL

(* A set that returned 0 has its data in the flash (kerSysNvRamSet,                 *)
(* kerSysPersistentSet, kerSysScratchPadSet).                                       *)
THEOREM OkAlwaysStored == StoreSpec => []OkMeansStored
<1>1. ASSUME StoreInv PROVE OkMeansStored
  <2> SUFFICES ASSUME NEW p \in Procs, pc[p] = "done", ret[p] = 0, op[p].kind # "get",
                      NEW b \in Sectors, NEW u \in Units, InTarget(op[p], b, u)
               PROVE  flash[b][u] = op[p].data
    BY DEF OkMeansStored
  <2>1. op[p] \in Calls \cup {NoCall}
    BY <1>1 DEF StoreInv, TypeInv, StoreTypeOK
  <2>2. b \in BlocksOfCall(op[p])
    BY <2>1, TargetOverwritten
  <2> QED BY <1>1, <2>2 DEF StoreInv, ProcInv, ResultRight, StoredIn
<1> QED BY <1>1, InvAlways, PTL

(* A get that returned 0 has copied what was last stored and not lost               *)
(* (kerSysNvRamGet, kerSysPersistentGet, kerSysScratchPadGet).                      *)
THEOREM GetAlwaysReturnsSet == StoreSpec => []GetReturnsSet
<1>1. ASSUME StoreInv PROVE GetReturnsSet
  <2> SUFFICES ASSUME NEW p \in Procs, pc[p] = "done", ret[p] = 0, op[p].kind = "get",
                      NEW b \in Sectors, NEW u \in Units, InTarget(op[p], b, u),
                      <<b, u>> \notin lost
               PROVE  buf[p][b][u] = want[b][u]
    BY DEF GetReturnsSet
  <2>1. op[p] \in Calls \cup {NoCall}
    BY <1>1 DEF StoreInv, TypeInv, StoreTypeOK
  <2>2. b \in BlocksOfCall(op[p])
    BY <2>1, TargetOverwritten
  <2> QED BY <1>1, <2>2 DEF StoreInv, ProcInv, ResultRight, Copied, Kept
<1> QED BY <1>1, InvAlways, PTL
====================================================================================
