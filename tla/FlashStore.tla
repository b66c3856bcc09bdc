-------------------------------- MODULE FlashStore ---------------------------------
(* The storage operations of bcm63xx_flash.c and the flash driver below them        *)
(* (cfiflash.c).  Every write of a section is a read-modify-write of whole sectors: *)
(* getSharedBlks reads them, the caller changes the section in the buffer, and      *)
(* setSharedBlks erases and programs them one by one.  Power may fail at any        *)
(* moment.                                                                          *)
(*                                                                                  *)
(* cfi_flash_lock is taken and released for every single read, erase and write.     *)
(* The kernel runs on one processor and is not preemptive, up() only makes a waiter *)
(* runnable, and a call gives up the processor with the lock held only (schedule()  *)
(* in cfi_flash_read_buf and cfi_flash_wait): to other processes a call holds the   *)
(* lock from its first read to its return.  Interrupts come at any moment.          *)
EXTENDS FlashLayout

CONSTANTS
    Procs,          \* processes in an ioctl of /dev/brcmboard
    None,           \* cfi_flash_lock is free
    Data,           \* contents a caller stores
    Erased, Zero,   \* 0xff.. and 0x00..
    Junk,           \* a unit cut short while it was erased or programmed
    Loader,         \* the start of the boot loader, which shares sector 0 with the NVRAM
    ResetMark,      \* "Reset Persistent"
    PsiSizes,       \* values of ulPsiSize in the NVRAM
    DefaultPsi,     \* DEFAULT_PSI_SIZE
    KernelEnd,      \* end of the booted kernel
    Calls,          \* the calls processes make
    Worn,           \* sectors that may fail to be erased or programmed
    MaxCrashes,     \* bound on power failures and resets
    MaxCalls        \* bound on calls

ASSUME StoreAssumption ==
    /\ None \notin Procs
    /\ PsiSizes \subseteq 1 .. TotalSize /\ DefaultPsi \in PsiSizes
    /\ KernelEnd \in Int
    /\ Worn \subseteq Sectors /\ MaxCrashes \in Nat /\ MaxCalls \in Nat
    /\ Data # {}

(* The sections of the largest persistent data (NVRAM_MAX_PSI_SIZE) leave the       *)
(* sector of the boot loader free.                                                  *)
ASSUME SectionsFit ==
    \A psi \in PsiSizes : 2 * psi + SpMaxLen + 2 * SectSize <= TotalSize

(* Calls.  A call names a section and a range of it. *)
Units == 0 .. SectSize - 1
Cell == Data \cup PsiSizes \cup {Erased, Zero, Junk, Loader, ResetMark}
Contents == [Sectors -> [Units -> Cell]]
Kinds == {"get", "set", "clear"}
Call == [kind : Kinds, sec : SectionNames, off : 0 .. TotalSize, len : 1 .. TotalSize,
         data : Cell]

ASSUME CallsAssumption ==
    /\ Calls \subseteq Call
    /\ \A c \in Calls : /\ c.kind = "clear" => c.sec = "sp" /\ c.data = Zero
                        /\ c.sec = "nvram" => c.data \in PsiSizes \cup {Erased}

VARIABLES
    fInfo,      \* the layout computed at boot
    flash,      \* contents, by sector and unit
    lock,       \* the process that holds cfi_flash_lock, as other processes see it
    up,         \* the board is running
    pc, op, blk, buf, try, ret,     \* per process: step, call, sector, buffer, attempt
    crashes, calls,     \* count the bounded events
    want,       \* history: what was last stored in every unit
    lost        \* history: the units that lost it, and were not stored since

storeVars == <<fInfo, flash, lock, up, pc, op, blk, buf, try, ret, crashes, calls,
               want, lost>>

-------------------------------------------------------------------------------------
(* The position of a unit relative to the start of a section. *)
Position(sec, b, u) == (b - sec.start) * SectSize + u - sec.off
InSection(s, b, u) ==
    /\ b \in BlocksOf(fInfo[s])
    /\ Position(fInfo[s], b, u) \in 0 .. fInfo[s].len - 1

(* The units a call is about: its range, or for ClearAll the pad with the slack of  *)
(* its sectors that belongs to no section.                                          *)
InTarget(c, b, u) ==
    IF c.kind = "clear"
    THEN /\ b \in BlocksOf(fInfo["sp"])
         /\ \A s \in SectionNames \ {"sp"} : ~InSection(s, b, u)
    ELSE /\ b \in BlocksOf(fInfo[c.sec])
         /\ Position(fInfo[c.sec], b, u) \in c.off .. c.off + c.len - 1

(* The units the code overwrites: ClearAll zeroes the sectors of the pad whole.     *)
Overwrites(c, b, u) ==
    IF c.kind = "clear" THEN b \in BlocksOf(fInfo["sp"]) ELSE InTarget(c, b, u)

BlocksOfCall(c) == BlocksOf(fInfo[c.sec])
LastBlk(c) == fInfo[c.sec].start + fInfo[c.sec].num - 1

-------------------------------------------------------------------------------------
(* The flash part: programming takes a unit that is erased, holds the value, or is  *)
(* cleared; the write stops at the first unit that does not take its value.         *)

Takes(old, new) == old = Erased \/ old = new \/ new = Zero
Programmed(old, new, n) ==
    [u \in Units |->
        IF u >= n \/ (\E v \in Units : v < u /\ ~Takes(old[v], new[v])) THEN old[u]
        ELSE IF Takes(old[u], new[u]) THEN new[u] ELSE Junk]

Blank(x) == [u \in Units |-> x]
UnitsOf(secs) == secs \X Units

-------------------------------------------------------------------------------------
NoCall == [kind |-> "get", sec |-> "nvram", off |-> 0, len |-> 1, data |-> Zero]

(* A flash as it leaves the factory: a boot loader, an NVRAM, data everywhere else. *)
FactoryFlash(psi) ==
    [b \in Sectors |-> [u \in Units |->
        IF b = 0 /\ u = 0 THEN Loader
        ELSE IF b = 0 /\ u = 1 THEN psi ELSE CHOOSE d \in Data : TRUE]]

StoreInit ==
    /\ \E psi \in PsiSizes :
        /\ fInfo = Layout(psi, KernelEnd)
        /\ flash = FactoryFlash(psi)
    /\ want = flash /\ lost = {}
    /\ lock = None /\ up = TRUE /\ crashes = 0 /\ calls = 0
    /\ pc = [p \in Procs |-> "idle"]
    /\ op = [p \in Procs |-> NoCall]
    /\ blk = [p \in Procs |-> 0]
    /\ buf = [p \in Procs |-> [b \in Sectors |-> Blank(Zero)]]
    /\ try = [p \in Procs |-> 0]
    /\ ret = [p \in Procs |-> 0]

(* What callers keep to and the driver does not check: a string that is not longer  *)
(* than the section ends inside it.                                                 *)
InRange(c) == c.len > fInfo[c.sec].len \/ c.off + c.len <= fInfo[c.sec].len

(* The checks of every operation: the length of the string, a pad that exists. *)
Refused(c) == c.len > fInfo[c.sec].len

(* A call that is refused, or finds no memory for its buffer. *)
CallFails(p, c) ==
    /\ up /\ pc[p] = "idle" /\ InRange(c)
    /\ calls < MaxCalls /\ calls' = calls + 1
    /\ op' = [op EXCEPT ![p] = c]
    /\ pc' = [pc EXCEPT ![p] = "done"]
    /\ ret' = [ret EXCEPT ![p] = -1]
    /\ UNCHANGED <<fInfo, flash, lock, up, blk, buf, try, crashes, want, lost>>

CallStarts(p, c) ==
    /\ up /\ pc[p] = "idle" /\ InRange(c) /\ ~Refused(c)
    /\ calls < MaxCalls /\ calls' = calls + 1
    /\ op' = [op EXCEPT ![p] = c]
    /\ pc' = [pc EXCEPT ![p] = "read"]
    /\ blk' = [blk EXCEPT ![p] = fInfo[c.sec].start]
    /\ UNCHANGED <<fInfo, flash, lock, up, buf, try, ret, crashes, want, lost>>

(* Mutant: the buffer is not filled from the flash first. *)
ModifiedUnread(c, bf) ==
    [b \in Sectors |-> [u \in Units |->
        IF c.kind = "get" THEN bf[b][u] ELSE IF Overwrites(c, b, u) THEN c.data ELSE Zero]]

(* The buffer of a call with its change made. *)
Modified(c, bf) ==
    [b \in Sectors |-> [u \in Units |->
        IF c.kind # "get" /\ Overwrites(c, b, u) THEN c.data ELSE bf[b][u]]]

(* Mutant: cfi_flash_read_buf does not wait for the lock. *)
ReadStartUnlocked(p) ==
    /\ pc[p] = "read"
    /\ lock' = p
    /\ pc' = [pc EXCEPT ![p] = "reading"]
    /\ UNCHANGED <<fInfo, flash, up, op, blk, buf, try, ret, crashes, calls, want, lost>>

(* The first access of a call waits for the lock. *)
ReadStart(p) ==
    /\ pc[p] = "read" /\ lock = None
    /\ lock' = p
    /\ pc' = [pc EXCEPT ![p] = "reading"]
    /\ UNCHANGED <<fInfo, flash, up, op, blk, buf, try, ret, crashes, calls, want, lost>>

(* A part that erases or programs is read as its status. *)
Busy == \E q \in Procs : pc[q] \in {"erasing", "writing"}
Sensed(b) == IF Busy THEN Blank(Junk) ELSE flash[b]

(* The part begins to erase a sector. *)
Erasing(fl, b) == [fl EXCEPT ![b] = Blank(Junk)]

(* getSharedBlks reads one sector.  After the last one the caller copies its string *)
(* out of the buffer, or into it and the first sector is erased, or finds that the  *)
(* pad has no room for a token.                                                     *)
ReadBlk(p) ==
    LET bf    == [buf[p] EXCEPT ![blk[p]] = Sensed(blk[p])]
        first == fInfo[op[p].sec].start
    IN  /\ pc[p] = "reading"
        /\ \/ /\ blk[p] < LastBlk(op[p])
              /\ blk' = [blk EXCEPT ![p] = @ + 1]
              /\ buf' = [buf EXCEPT ![p] = bf]
              /\ UNCHANGED <<flash, pc, ret>>
           \/ /\ blk[p] = LastBlk(op[p]) /\ op[p].kind = "get"
              /\ buf' = [buf EXCEPT ![p] = bf]
              /\ pc' = [pc EXCEPT ![p] = "done"]
              /\ ret' = [ret EXCEPT ![p] = 0]
              /\ UNCHANGED <<flash, blk>>
           \/ /\ blk[p] = LastBlk(op[p]) /\ op[p].kind # "get"
              /\ buf' = [buf EXCEPT ![p] = Modified(op[p], bf)]
              /\ blk' = [blk EXCEPT ![p] = first]
              /\ flash' = Erasing(flash, first)
              /\ pc' = [pc EXCEPT ![p] = "erasing"]
              /\ UNCHANGED ret
           \/ /\ blk[p] = LastBlk(op[p]) /\ op[p].kind = "set" /\ op[p].sec = "sp"
              /\ pc' = [pc EXCEPT ![p] = "done"]
              /\ ret' = [ret EXCEPT ![p] = -1]
              /\ UNCHANGED <<flash, blk, buf>>
        /\ UNCHANGED <<fInfo, lock, up, op, try, crashes, calls, want, lost>>

(* Mutant: a write that failed for good is not reported. *)
EraseDoneOk(p) ==
    /\ pc[p] = "erasing"
    /\ flash' = [flash EXCEPT ![blk[p]] = Blank(Erased)]
    /\ IF try[p] < 3
       THEN pc' = [pc EXCEPT ![p] = "writing"] /\ UNCHANGED lost
       ELSE /\ pc' = [pc EXCEPT ![p] = "done"]
            /\ lost' = lost \cup UnitsOf({blk[p]})
    /\ UNCHANGED <<fInfo, lock, up, op, blk, buf, try, ret, crashes, calls, want>>

(* Mutant: every attempt starts the count anew. *)
EraseDoneRecount(p) ==
    /\ pc[p] = "erasing"
    /\ flash' = [flash EXCEPT ![blk[p]] = Blank(Erased)]
    /\ pc' = [pc EXCEPT ![p] = "writing"]
    /\ try' = [try EXCEPT ![p] = 0]
    /\ UNCHANGED <<fInfo, lock, up, op, blk, buf, ret, crashes, calls, want, lost>>

(* An erase that does not succeed in three attempts is not reported, and the write  *)
(* follows.  After the third write that failed the call gives up and leaves the     *)
(* sector erased.                                                                   *)
EraseDone(p) ==
    /\ pc[p] = "erasing"
    /\ \/ flash' = [flash EXCEPT ![blk[p]] = Blank(Erased)]
       \/ blk[p] \in Worn /\ UNCHANGED flash
    /\ \/ /\ try[p] < 3
          /\ pc' = [pc EXCEPT ![p] = "writing"]
          /\ UNCHANGED <<ret, lost>>
       \/ /\ try[p] = 3
          /\ pc' = [pc EXCEPT ![p] = "done"]
          /\ ret' = [ret EXCEPT ![p] = -1]
          /\ lost' = lost \cup UnitsOf({blk[p]})
    /\ UNCHANGED <<fInfo, lock, up, op, blk, buf, try, crashes, calls, want>>

(* What a write may leave in the sector: a worn one stops at some unit. *)
WriteResults(old, new, worn) ==
    {Programmed(old, new, SectSize)} \cup
    {[Programmed(old, new, u) EXCEPT ![u] = Junk] : u \in IF worn THEN Units ELSE {}}

(* The sector compares equal with the buffer: the next one is erased, or the call   *)
(* is done.  What is overwritten outside the target of the call is lost.            *)
Stored(p, fl) ==
    LET c      == op[p]
        b      == blk[p]
        Target == {u \in Units : InTarget(c, b, u)}
    IN  /\ want' = [want EXCEPT ![b] = [u \in Units |-> IF u \in Target THEN c.data ELSE @[u]]]
        /\ lost' = (lost \ ({b} \X Target))
                      \cup ({b} \X {u \in Units \ Target : Overwrites(c, b, u)})
        /\ try' = [try EXCEPT ![p] = 0]
        /\ \/ /\ b < LastBlk(c)
              /\ blk' = [blk EXCEPT ![p] = b + 1]
              /\ flash' = Erasing(fl, b + 1)
              /\ pc' = [pc EXCEPT ![p] = "erasing"]
              /\ UNCHANGED ret
           \/ /\ b = LastBlk(c)
              /\ flash' = fl
              /\ pc' = [pc EXCEPT ![p] = "done"]
              /\ ret' = [ret EXCEPT ![p] = 0]
              /\ UNCHANGED blk

(* It does not: the sector is erased and written again. *)
TriedAgain(p, fl) ==
    /\ try' = [try EXCEPT ![p] = @ + 1]
    /\ flash' = Erasing(fl, blk[p])
    /\ pc' = [pc EXCEPT ![p] = "erasing"]
    /\ UNCHANGED <<blk, ret, want, lost>>

(* cfi_flash_write ends, and cfi_flash_write_buf compares. *)
WriteDone(p) ==
    /\ pc[p] = "writing"
    /\ \E result \in WriteResults(flash[blk[p]], buf[p][blk[p]], blk[p] \in Worn) :
        LET fl == [flash EXCEPT ![blk[p]] = result]
        IN  \/ result = buf[p][blk[p]] /\ Stored(p, fl)
            \/ result # buf[p][blk[p]] /\ TriedAgain(p, fl)
    /\ UNCHANGED <<fInfo, lock, up, op, buf, crashes, calls>>

(* The caller has its result. *)
Return(p) ==
    /\ pc[p] = "done"
    /\ lock' = IF lock = p THEN None ELSE lock
    /\ pc' = [pc EXCEPT ![p] = "idle"]
    /\ op' = [op EXCEPT ![p] = NoCall]
    /\ blk' = [blk EXCEPT ![p] = 0]
    /\ buf' = [buf EXCEPT ![p] = [b \in Sectors |-> Blank(Zero)]]
    /\ try' = [try EXCEPT ![p] = 0]
    /\ ret' = [ret EXCEPT ![p] = 0]
    /\ UNCHANGED <<fInfo, flash, up, crashes, calls, want, lost>>

-------------------------------------------------------------------------------------
(* Power failure and reset. *)

(* The sector a process has erased and not yet programmed again. *)
InWindow(p, b) == blk[p] = b /\ pc[p] \in {"erasing", "writing"}
Windows == {b \in Sectors : \E p \in Procs : InWindow(p, b)}

(* The contents when n units of a running write are programmed. *)
HalfWritten(n) ==
    [b \in Sectors |->
        IF lock # None /\ pc[lock] = "writing" /\ blk[lock] = b
        THEN Programmed(flash[b], buf[lock][b], n) ELSE flash[b]]

Stop ==
    /\ up' = FALSE /\ lock' = None
    /\ pc' = [p \in Procs |-> "idle"]
    /\ op' = [p \in Procs |-> NoCall]
    /\ blk' = [p \in Procs |-> 0]
    /\ buf' = [p \in Procs |-> [b \in Sectors |-> Blank(Zero)]]
    /\ try' = [p \in Procs |-> 0]
    /\ ret' = [p \in Procs |-> 0]
    /\ crashes < MaxCrashes /\ crashes' = crashes + 1
    /\ UNCHANGED <<fInfo, calls>>

PowerFails ==
    /\ up
    /\ \E n \in 0 .. SectSize : flash' = HalfWritten(n)
    /\ lost' = lost \cup UnitsOf(Windows)
    /\ Stop /\ UNCHANGED want

(* reset_isr after the button was held, in a build without SUPPORT_PORT_MAP (with it *)
(* the monitor is asked instead): it marks both configurations, each if there is    *)
(* memory for its buffer, and resets the board.  In an interrupt the driver does    *)
(* not take the lock: while a process has the part erasing or programming, the      *)
(* sectors the handler reads first, up to the k-th of the flash, are read as the    *)
(* status of the part and written back.                                             *)
Marked(done, old) ==
    [b \in Sectors |-> [u \in Units |->
        IF \E s \in done : InSection(s, b, u) /\ Position(fInfo[s], b, u) = 0
        THEN ResetMark ELSE old[b][u]]]
ReadFirst(done) ==
    IF "psi" \in done THEN BlocksOf(fInfo["psi"])
    ELSE IF "dare" \in done THEN BlocksOf(fInfo["dare"]) ELSE {}
ResetButton ==
    /\ up
    /\ \E n \in 0 .. SectSize, done \in SUBSET {"psi", "dare"},
          k \in IF Busy THEN 0 .. NSect ELSE {0} :
        LET spoilt == {b \in ReadFirst(done) : b < k}
        IN  /\ flash' = [b \in Sectors |-> IF b \in spoilt THEN Blank(Junk)
                                           ELSE Marked(done, HalfWritten(n))[b]]
            /\ want' = Marked(done, want)
            /\ lost' = lost \cup UnitsOf(Windows \cup spoilt)
    /\ Stop

(* The board starts if its boot loader is there; the driver takes the size of the   *)
(* persistent section from the NVRAM without looking at the checksum.               *)
PsiOf(x) == IF x \in PsiSizes THEN {x}
            ELSE IF x \in {Erased, Zero} THEN {DefaultPsi} ELSE PsiSizes
Boot ==
    /\ ~up /\ flash[0][0] = Loader
    /\ up' = TRUE
    /\ \E psi \in PsiOf(flash[0][1]) : fInfo' = Layout(psi, KernelEnd)
    /\ UNCHANGED <<flash, lock, pc, op, blk, buf, try, ret, crashes, calls, want, lost>>

Step(p) == ReadStart(p) \/ ReadBlk(p) \/ EraseDone(p) \/ WriteDone(p) \/ Return(p)

StoreNext ==
    \/ \E p \in Procs :
        \/ \E c \in Calls : CallFails(p, c) \/ CallStarts(p, c)
        \/ Step(p)
    \/ PowerFails \/ ResetButton \/ Boot

StoreSpec == StoreInit /\ [][StoreNext]_storeVars
StoreFairSpec == StoreSpec /\ \A p \in Procs : WF_storeVars(Step(p))

-------------------------------------------------------------------------------------
(* Types of all variables. *)
StoreTypeOK ==
    /\ fInfo \in {Layout(psi, KernelEnd) : psi \in PsiSizes}
    /\ flash \in Contents /\ want \in Contents /\ lost \subseteq UnitsOf(Sectors)
    /\ lock \in Procs \cup {None} /\ up \in BOOLEAN
    /\ pc \in [Procs -> {"idle", "read", "reading", "erasing", "writing", "done"}]
    /\ op \in [Procs -> Calls \cup {NoCall}]
    /\ blk \in [Procs -> Sectors]
    /\ buf \in [Procs -> Contents]
    /\ try \in [Procs -> 0 .. 3] /\ ret \in [Procs -> {0, -1}]
    /\ crashes \in 0 .. MaxCrashes /\ calls \in 0 .. MaxCalls

(* Outside the window between an erase and the write that follows it, every unit    *)
(* of the flash holds what was last stored in it: a set of one section keeps the    *)
(* rest of its sectors (another section, the boot loader), whatever other processes *)
(* do.  What was stored is lost in three ways only, and until it is stored anew:    *)
(* the board stops, or a write fails for good, in the window of the sector; the     *)
(* reset button's handler reads the sector from a part that is busy; the unit       *)
(* belongs to another section in a sector of the scratch pad, which                 *)
(* kerSysScratchPadClearAll zeroes whole (getSharedBlks, setSharedBlks).            *)
SectorsHoldWhatWasSet ==
    \A b \in Sectors \ Windows, u \in Units :
        <<b, u>> \notin lost => flash[b][u] = want[b][u]

(* A set that returned 0 has its data in the flash (the return values of            *)
(* kerSysNvRamSet, kerSysPersistentSet, kerSysScratchPadSet).                       *)
OkMeansStored ==
    \A p \in Procs : pc[p] = "done" /\ ret[p] = 0 /\ op[p].kind # "get" =>
        \A b \in Sectors, u \in Units :
            InTarget(op[p], b, u) => flash[b][u] = op[p].data

(* A get that returned 0 has copied what was last stored and not lost, and never    *)
(* the status of a part that is busy with another call (kerSysPersistentGet...).    *)
GetReturnsSet ==
    \A p \in Procs : pc[p] = "done" /\ ret[p] = 0 /\ op[p].kind = "get" =>
        \A b \in Sectors, u \in Units :
            InTarget(op[p], b, u) /\ <<b, u>> \notin lost => buf[p][b][u] = want[b][u]

(* Wiping out the scratch pad leaves the persistent data alone                      *)
(* (kerSysScratchPadClearAll).                                                      *)
ClearKeepsPersistent ==
    \A p \in Procs : pc[p] = "done" /\ ret[p] = 0 /\ op[p].kind = "clear" =>
        \A b \in Sectors, u \in Units :
            InSection("psi", b, u) => flash[b][u] = want[b][u]

(* Every call returns, whatever the other processes do and however often the part   *)
(* fails: the retries of cfi_flash_write_buf end.                                   *)
EveryCallReturns == \A p \in Procs : pc[p] # "idle" ~> pc[p] = "idle"
====================================================================================
