# Verification of the open drivers of the Alice 1121 modem firmware

The repository is the Broadcom 963xx firmware tree for a DSL gateway: a vendored
Linux kernel, vendored user applications, and the board support and network drivers
in `bcmdrivers/opensource` and `shared/opensource`. Those drivers are the code this
project is about. Everything else is third-party, binary, or configuration.

The models follow the configuration the repository builds (`targets/96338W2`): one
processor, a kernel without preemption (`BRCM_KERNEL_PREEMPT` is not set). Where code
depends on an option this target leaves open or sets otherwise, the section of the module
says which build it models; the XTM driver itself is built only when `BRCM_DRIVER_XTM` is
chosen.

## Inventory

| Component | State | Operations | Hard behaviours |
|---|---|---|---|
| XTM runtime driver, transmit (`net/xtmrt/impl1/bcmxtmrt.c`) | devices, device table, link states, transmit rings, timer | create, delete, open, close, admin status, watchdog, transmit, send cell, link up, link down, timer | the DMA engine clears own bits at any moment; the timer and the stack run between two statements of a link request |
| XTM runtime driver, receive (same file) | receive rings, free header list, vcid table, interrupt bookkeeping | DMA receive, interrupt, tasklet, return of headers and data | interrupts between any two statements of the tasklet; buffers come back in any order; a deferred tasklet |
| XTM runtime driver, initialisation and cell handlers | memory blocks, handler and context pointers | global init, register and unregister | failed allocations; a cell between two stores |
| MAC address allocator (`char/board/bcm963xx/impl1/board.c`) | table of in-use flags and owner ids | get, release | callers that ask again, addresses taken from their last owner, 24-bit wrap-around |
| Image update (`board.c`, `bcm63xx_flash.c`) | images and tags of two partitions, boot line in NVRAM | update of file system, boot loader, whole flash; choice of the image | power loss, failing sectors and missing memory in the middle; retries |
| Dying gasp (`board.c`) | list of callbacks | register, deregister, power loss interrupt | the interrupt between two stores of a list operation |
| SES button, monitor (`board.c`) | wait queue, interrupt mask, hooked poll function | interrupt, poll, read, wake up | events between a test and a sleep; an interrupt that stays masked |
| Flash storage (`bcm63xx_flash.c`) | sectors shared by NVRAM, PSI and scratch pad, tokens of the pad | get, set, clear | read, modify and write of sectors that sections share; power loss between two sectors; tokens that move |
| Flash access (`shared/opensource/flash`) | CFI semaphore | read, write, erase | waits that give up the processor; retries; no lock in interrupts |
| LED driver (`bcm63xx_led.c`) | board LEDs, names that share them, GPIO register, two timers, hardware handlers | initialise, control, register handler, timers | a timer between any two accesses of a request; one timer for all LEDs |
| Serial console (`char/serial/impl1/bcm63xx_cons.c`) | flip buffer, tty state | interrupt, write | break and sysrq handling in the handler |
| Board parameters (`boardparms.c`) | none | table lookup | none |

How they interact: the configuration driver (binary `bcmxtmcfg`, outside this tree)
sends requests to `bcmxtmrt_request`; the network stack calls the device callbacks;
the kernel timer, the receive interrupt and the tasklet call the driver back; the
driver asks the board driver for MAC addresses, whose number and base it reads from
flash storage, which uses the flash access layers. Drivers and user processes control
LEDs through `kerSysLedCtrl`; the LED driver's timers call it back. Transmit and
receive share `DoLinkUp` and `DoLinkDown` but no data other than the driver state.

What makes them correct: a packet or buffer is in exactly one place and the hardware
is done with it before it is freed; rings never run over; nothing received or queued
is forgotten; interrupts that are masked are enabled again; the driver runs exactly
while a link is up; a MAC address has one user, or users that share an id; a section of the flash holds what was
last stored in it, whatever happens to its neighbours; an update leaves something to
boot; the loss of power reaches every driver that registered for it.

## Modules

| Module | What it is |
|---|---|
| `XtmTx` | transmit side of the XTM runtime driver |
| `TxFifo` | abstract specification: bounded first-in first-out transmit queues |
| `XtmTxProofs` | safety of `XtmTx`, and that its rings implement `TxFifo` |
| `MCXtmTx` | instances of `XtmTx` for TLC |
| `XtmRx` | receive side of the XTM runtime driver |
| `XtmRxProofs` | safety of `XtmRx` |
| `MCXtmRx` | instances of `XtmRx` for TLC |
| `Led` | LED driver |
| `LedProofs` | safety of `Led` |
| `MCLed` | instances of `Led` for TLC |
| `MacAlloc` | MAC address allocator and its callers |
| `MCMacAlloc` | instances of `MacAlloc` for TLC |
| `FlashLayout` | where the sections of the flash lie |
| `FlashStore` | storage operations and the flash driver below them; extends `FlashLayout` |
| `FlashLayoutProofs` | lemmas about the layout, for `FlashStoreProofs` and `ImageUpdateProofs` |
| `FlashStoreProofs` | safety of `FlashStore` |
| `MCFlashStore` | instances of `FlashStore` for TLC |
| `PadMap` | abstract specification: a map from names to data |
| `ScratchPad` | the tokens of the scratch pad |
| `ScratchPadProofs` | safety of `ScratchPad`, and that it implements `PadMap` |
| `MCScratchPad` | an instance of `ScratchPad` for TLC |
| `ImageUpdate` | firmware update and choice of the image; extends `FlashLayout` |
| `ImageUpdateProofs` | safety of `ImageUpdate` |
| `MCImageUpdate` | an instance of `ImageUpdate` for TLC |
| `DyingGasp` | the dying gasp callbacks |
| `Wakeups` | the monitor and the SES button |
| `BoardEvents` | `DyingGasp` and `Wakeups` together, with fairness |
| `MCBoardEvents` | an instance of `BoardEvents` for TLC |
| `BoardProofs` | safety of `MacAlloc`, `DyingGasp` and `Wakeups` |

### XtmTx

A transmit queue (`TXQINFO`) is a record: `size`, `free`, `head`, `tail` are
`ulQueueSize`, `ulFreeBds`, `ulHead`, `ulTail`; `own` is the set of descriptors with
`DMA_OWN`; `skb` is `ppSkbs`; `hw` is the descriptor the DMA engine is at; `dma` is
the channel's `cfg`; `bds` says whether `pBds` is stored. `txPrio` is `pTxPriorities`
and holds ring numbers. `held` is a ghost: the packets the driver accepted and has
not freed.

`bcmxtmrt_xmit` runs with bottom halves disabled and is one step (`Xmit`); its release
loop is described by how far it gets (`Completed`), since the loop stops at the first
descriptor the DMA engine owns. `DoLinkUp` and `DoLinkDown` run in process context and
are split where a bottom half can see a difference: after the link state is set, around
the store of `pBds` of each queue, after the channels are halted and the memory is
freed, after the rings are zeroed. Other threads cannot run inside a request (no
preemption; the one allocation comes before the first store).

A step that would dereference NULL is not taken (`Walkable`, and the guard of
`LinkDownFree`): the thread dies there. `StrayOnlyInRequest` confines the states in
which that, or a read of freed memory, can happen to link requests in progress.

`DoLinkUp` leaves an entry as it is when its queue has a port or a sub-priority that does
not exist (`ValidQueueId`).

The index `1 << port` that `DoSendCellReq` uses may lie past the end of
`pTxPriorities`; the sub-priority found there is any (`CellPrios`).

Assumptions on the configuration driver, which is not part of the tree: for a device
it alternates LINK_UP and LINK_DOWN, takes the link down before it deletes the device,
and sends its requests one after the other. Cell requests may come at any moment.

### XtmRx

A receive ring (`RXBDINFO`) is a record: `head` and `tail` are `pBdHead` and `pBdTail`
as indices, `buf` the descriptors with an `address`, `own` those with `DMA_OWN`, `hw`
the DMA engine's position. `up[q]` counts the data buffers of ring `q` with the stack,
`free` and `upHdrs` the headers on `pFreeRxSkbList` and with the stack. `done` and
`noDesc` are the latched bits of `intStat`, `irqOn` the interrupts not masked in
`PERF->IrqMask`, `intMask` is `ulIntEnableMask`.

The tasklet is split at every point where an interrupt or the DMA engine makes a
difference: the look at each ring, the read and the zeroing of `ulIntEnableMask`, and
the enabling loop. `irq_dispatch_int` masks an interrupt before it calls the handler,
and a handler mapped with `BcmHalMapInterrupt` must enable it again itself. `FreeData`
and `FreeHeader` are the two halves of `bcmxtmrt_freeskbordata`; the kernel's
`skbuff.c` returns them independently (a freed packet's data before its header, data
alone in `pskb_expand_head`, a header alone while a clone lives). `DoDeleteDeviceReq`
also clears the vcids of a device: after its link down there are none left.

### Led

An entry of `led` is a `LED_INFO`: `norm` and `fail` are the pins of `ledMask` and
`ledMaskFail` (`None` for 0), `state`, `saved` and `cd` are `ledState`,
`savedLedState` and `blinkCountDown`. `virt` is `gpVirtLeds`, `handlers` holds the names
registered in `gLedHwFunc` and `gLedHwFailFunc`, and `hwOut` what their functions were
last called with. `gpio` is the set of pins whose LED is lit: active levels, the
direction register and the serial shift register (not built for this chip) are
abstracted away. `settled` is a ghost: the LEDs whose last steady request, which set all
their pins, was not interrupted by a timer.

`boardLedInit` is one step per entry of the mapping; names are below `MAX_VIRT_LEDS`, so
that no entry is passed over. Its second half looks for the first
board LED that shares a pin (`InitShared`), which may have disappeared when a third name
replaced that pin; such a name gets no LED. All initial states are
`kLedStateOff` (`LedMapping` in `board.c`), so no timer is started there.

`boardLedCtrl` runs in process context. No other request can run inside it (no
preemption, no sleep), but the timers can: they are softirqs and nothing disables
interrupts. It is split at every access to shared state. What a request for a steady
state does is computed at its entry as a list of outputs (`HwOutputs`, `PinOutputs`),
each of which is a handler call or a read of `GPIOio`, a write, and a store of the
states; nothing the list depends on changes before it is done. `ledTimerExpire` is one
step. The timer that `ledTimerStart` adds cannot expire before `gTimerOn` is stored one
statement later: it has 125 ms to go.

### MacAlloc

`mai` is the table of `MAC_ADDR_INFO`, `held` the address each caller uses, `default` the
XTM devices that use the address 02:10:18:02:00:01. An address is its last three bytes.
The two operations do not sleep and are one step each. User processes may ask again for
what they have; an XTM device asks once, when it is created, and releases its address
when it is deleted, also when that is the default address. `RegisterFails` is a device
that is freed without a release. Ids come from the constant `Id`: a user's own, 0,
`MAC_ADDRESS_ANY`, and `XtmId` for every XTM device, since `DoCreateDeviceReq` reads
`dev->ifindex` before `register_netdev` sets it. Callers with one id share an address;
`robbed` is a history variable, the callers whose address was released by someone else.

### FlashLayout and FlashStore

`FlashLayout` is `kerSysFlashInit`: the persistent data (Config 1) at the end, the
scratch pad before them in the same sector or in sectors of its own, Config 2 below.
Addresses are counted in units of the smallest section, sectors have one size.

`FlashStore` has processes in calls of the four sections. A get reads the sectors of the
section one by one; a set reads them, changes its range in the buffer, then erases and
programs them one by one. `pc` is where the process is, `blk` its sector, `try` the
number of writes of the sector that have failed. `cfi_flash_lock` is taken and released
for every single read, erase and write, but the processor is given up inside them only
(`schedule()` in `cfi_flash_read_buf` and `cfi_flash_wait`), and `up` does not hand the
lock to the waiter: on one processor without preemption nobody runs between the `up` of
one access and the `down` of the next. `lock` is therefore what other processes see of it:
held from the first read of a call (`ReadStart`) to its return. The end of one access and
the begin of the next are one step, so that the states are those in which the processor is
given up or an interrupt comes; a read under the lock is one step.
`Worn` sectors may fail to be erased or programmed. `PowerFails` may come at any
moment and leaves a sector that was being erased or written in part; `ResetButton` is
`reset_isr`, which marks both configurations without taking the lock in a build without
`SUPPORT_PORT_MAP` and USB; with them it asks the monitor (`WakeupMonitorTask`). `Boot` takes the
size of the persistent data from the NVRAM as it is. `kerSysEraseNvRam` is a set of the
NVRAM to `Erased`. What a set of the scratch pad does inside its section is the subject of
`ScratchPad`; here it is one unit, and a pad that has no room for the token is a branch of
`ReadBlk`. Two history variables say what the flash should hold: `want` is what was last
stored in every unit, and `lost` the units that lost it and were not stored since. There
are three ways to lose something, and every action that adds to `lost` is one of them: a
crash or a write that failed for good in the window of a sector, the reset button's
handler that read a busy part, and the clearing of a pad that shares its sector.

The driver checks the length of a string and not its offset (`InRange` keeps strings inside
their section), and copies the string with `memcpy` from the caller's pages, which are
taken as resident (not modelled, below).

### ScratchPad and PadMap

The pad is a function from offsets to units: a header of two units, then tokens of a
name, a length and data rounded up to the alignment. `TokensFrom` and `UsedLen` are the
first loop of `kerSysScratchPadSet`, `Find` the second, `Stored` its three branches,
`GetFrom` the loop of `kerSysScratchPadGet` with its own conditions and its own count.
Data units may be names and lengths themselves, so that anything left over could be
taken for a token. A set without a buffer has length 0. `last` is a history variable
that ties the result to the map, and `PadMap` is what the pad promises. The loops are
recursive functions on `Places`, twice the pad: a valid length is shorter than the pad, so
that no loop leads further (`SkipFacts` in `ScratchPadProofs`).

### ImageUpdate

A sector holds a part of an image, the boot loader with the NVRAM, settings, or nothing.
The tag is in the first part; its checksum covers the tag alone, so a tag may be
valid while the rest of its image is missing. `FlashFs` is `flashFsKernelImage` up to
`kerSysBcmImageSet`, which runs sector by sector (`EraseSector`, `WriteSector`,
`EraseTail`); `WriteBack` and `WriteBackDone` are the NVRAM writes that follow. Whether
there was memory to read the NVRAM is `mem`: the code does not look. `Refuse` is an image
that is too large or lacks the vendor's signature. `FlashWhole` has no limit, as in the
code. An image that ends beyond the flash runs past the last sector, where the table of
sectors has zeros: sector 0 is erased over and over, nothing is written, and only a power
failure ends it (`SectorAt`). Whether the NVRAM of a new boot loader or whole image is for
a board that `BpSetBoardId` knows is open (`WritesBack`). The move of an image
whose file system address lies below the start of the file system changes addresses
only and is left out, as is the branch of `kerSysBcmImageSet` for the sector of the
persistent data (`bcm63xx_flash.c:566-586`), which whole images skip and which a file
system image that passed the size check does not reach in the bounds of `ReservedKept`. A
boot loader image is one sector here, as in `FLASH_LENGTH_BOOT_ROM`. The boot loader is not
part of the tree: it starts the image that `getBootImageTag` would choose, if that is whole.

### DyingGasp, Wakeups and BoardEvents

`DyingGasp` has the links of the list and the stores of the request in progress, taken
one by one in the order of `list.h`; since the pointers may alias for the compiler
it keeps that order. `PowerLoss` walks the list at any moment and does not return:
`EntryAt` follows the links turn by turn, and `called` records for each handler the turns
at which it was called, so that a handler called twice, or never, can be told.
Each driver registers once, under its own name.

`Wakeups` has the monitor, which sleeps in `select` on a file whose poll function is
hooked, and the reader of the SES button. `select` sets the task to sleep before it
polls, and a wake-up makes it poll again; `monAwake` and `rdAwake` are the task states.
The dispatch of an external interrupt masks it; the handler does not enable it,
`sesBtn_read` and SET_TRIGGER_EVENT do. The monitor calls SET_MONITOR_FD once.

`BoardEvents` composes them: after the loss of power nothing runs.

## Runs

| Run | Shows |
|---|---|
| `XtmTxTwoDevices` | two devices, two packets, rings of one descriptor: `SkbInOnePlace`, `FreedAfterTransmit`, `RunningIffLinkUp`, `StrayOnlyInRequest`, and `QueuedIsFreed` under fairness |
| `XtmTxMixed` | three packets, two priorities, an invalid port and an invalid sub-priority, a full device table: `TxRingsConsistent`, and the rings implement `TxFifo` |
| `XtmRx` | a ring of two descriptors and one of one, two devices, one match id: `RxRingsConsistent`, `PlaceForFreeBuffer`, `NoStuckChannel`, `ReceivedIsNoticed`, `HeadersLast`, `IrqLostOnlyByZeroing`, and `ReceivedIsTaken` under fairness |
| `Led` | names that share LEDs, pins mixed with hardware handlers, all requests, timers anywhere: `BlinkersHaveTimer`, `SettledShowsState`, `NamesReachTheirPins`, `OneColour`, and `KeepsBlinking` under fairness |
| `MacAlloc` | five callers, three of them with one id or any, three addresses of which one wraps around: `OneHolder`, `HeldCanBeReleased`, `IdsUnique`, `FreshFirst` |
| `FlashStore` | two processes, all sections, the clearing of the pad, a failing sector, a power failure or reset: `SectorsHoldWhatWasSet`, `OkMeansStored`, `GetReturnsSet`, and `EveryCallReturns` under fairness |
| `ScratchPad` | three tokens of changing lengths: `ImplementsMap`, `GetSeesEveryToken`, `TokensWellFormed` |
| `ImageUpdate` | two updates of any kind and size with failures: `RunningImageKept`, `SectionsOffImage`, `ReservedKept`, and `NewImageRuns` under fairness |
| `BoardEvents` | three callbacks, the monitor, the button: `ListIsRegistered`, `GaspReachesAll`, `DeadOnlyByRelease`, and `MonitorIsTold`, `ButtonIsReported` under fairness |
| `XtmTxLinkDownLeak` | violated: DoLinkDown leaks packets the DMA engine still owns |
| `PadClear` | violated: wiping out the scratch pad zeroes the persistent data that share its sector |
| `ImageRetry` | violated: a second attempt at an update writes over the image that is running |

Bounds. Rings of one and two descriptors wrap, fill up and empty; three packets
overflow a ring of two, two packets a ring of one. Two devices are what a timer inside
a link request, the full table and the last link need; two rings are what the
round-robin loop and the interrupt mask need. The receive ring of two lets buffers come
back in another order than they were taken and around the end of the ring, the ring of one
wraps at every step; one device has the match id, the other keeps the driver running. The
receive model needs no counter bound: buffers and headers are conserved. Packets are symmetric in `XtmTxMixed`; runs
with liveness use no symmetry. Three names and two pins give LEDs with one
name and with two, with one pin, with two, and with a pin and a hardware handler; the
mappings list the orders in which shared pins can appear. Five callers for three addresses
make the allocator run out, and take back an address from its last owner; two of them are
XTM devices and share an id, one asks for any address, and the base lies two below the
wrap-around. The id 0 is covered by the proofs only. The LED and MAC models have no unbounded variable.

Six sectors of two units give persistent data of two units (the pad in a sector of its
own) and of three (the pad shares their sector); Config 2 takes one sector or two. Two
calls (`MaxCalls`) of two processes overlap in every way, and one crash (`MaxCrashes`)
comes at any point of both. A pad of 14 units holds three short tokens or two long ones
and overflows; lengths 1 and 3 need padding, and every set sees all orders of tokens.
`VIEW` leaves out the history variable `last`, which no action reads. Eight sectors hold
two images in halves and one image that needs both; of the lengths 3, 4, 9, 10, 13 and 14
the first two fit a half with and without their tag, 9 is the largest file system that is
accepted, and the others are whole images only: 10 reaches the reserved sectors, 13 ends
with the flash and 14 behind it.
Two updates (`MaxUpdates`) are what the retry needs. Three callbacks give a list
with an entry in front of, behind and between others.

Distinct states of the larger runs: `XtmTxMixed` 140,584; `XtmRx` 1,129,478; `Led` 758 thousand; `MacAlloc` 2,560; `FlashStore` 46,876;
`ImageUpdate` 386,870.

The type invariants other than `TxTypeOK` are theorems and in no run.

Fairness. The timer restarts itself and expires within its period; the model holds it
back only in the states where it would read a ring that is being built or freed,
hence strong fairness. For the rest weak fairness: a request runs to its end, the DMA
engine works on enabled channels, a pending interrupt that is not masked is taken,
and a raised softirq runs. For the LEDs: a request in progress goes on and a pending
timer expires. A process in a storage call goes on; weak fairness is enough for the
lock, since the number of calls is bounded and each gives it up. An update goes on, and
a board that is off is switched on. A process that was woken in `select` runs, pending
interrupts are taken, and the monitor and the reader call `select` again, which is
all they do. Nothing is assumed of the stack, the user, the configuration driver or
the sectors that fail. `ReceivedIsTaken` excludes the lost interrupt and the empty
header list (known deviations).

Known deviations without a run of their own, found in the same models:

* a timer inside `boardLedCtrl` (between the write of `GPIOio` and the store of
  `ledState`, or inside the read and write of another pin) leaves an LED that was told
  to be on or off showing the opposite, although `savedLedState` is there "for restore
  to the orignal ledState" (`bcm63xx_led.c:92`), and after a failure request may leave its
  green pin lit beside the red one, as does an LED that blinks after a failure;
  `SettledShowsState` and `OneColour` exclude LEDs whose last request was interrupted;
* `boardLedCtrl` checks the number of a name against the table of LEDs, then uses it to
  index the tables of handlers unchecked (`bcm63xx_led.c:503-508`);
* a tasklet scheduled before the last link went down enables receive interrupts
  afterwards, although `DoLinkDown` says "Disable receive interrupts and stop the timer";
* `DoSendCellReq` indexes `pTxPriorities` by the port mask instead of the port and keeps
  the sub-priority only, so a cell may go to another port than the one it names;
* the address of an entry past the wrap-around of the last three bytes cannot be
  released, since `kerSysReleaseMacAddress` subtracts 32-bit numbers
  (`HeldCanBeReleased` says that no other is affected);
* every XTM device asks for its MAC address with the id of interface 0, since
  `DoCreateDeviceReq` reads `dev->ifindex` before `register_netdev` sets it
  (`bcmxtmrt.c:1318`): the second device gets the address of the first, and deleting
  either releases it (`OneHolder` names these users; `RobbedByLikes` says who can lose an
  address to whom);
* when the NVRAM has no valid number of addresses, or there is no memory for the table,
  `g_pMacInfo` stays NULL, and both operations use it unchecked (`board.c:660, 745`);
  `MacInit` is the table that was set up;
* while another link is up the timer fires inside `DoLinkUp` and `DoLinkDown` and then
  walks rings at NULL or in freed memory; `StrayOnlyInRequest` confines it to that;
* an interrupt between the read and the zeroing of `ulIntEnableMask`
  (`bcmxtmrt.c:936-937`) stays masked; `IrqLostOnlyByZeroing` says there is no other way;
* the tasklet takes a header from an empty list when the stack returned data without
  their headers (`bcmxtmrt.c:844`); `HeadersLast` says when;
* the reset button's handler reads a part that another process has erasing or programming,
  and writes what it read back with its mark: the rest of those sectors is lost (`lost` in
  `ResetButton`);
* `kerSysScratchPadSet` does not free its buffer when the pad overflows
  (`bcm63xx_flash.c:798`);
* `cfi_flash_write` keeps the lock when the length or the offset is odd
  (`cfiflash.c:857-859`); the calls modelled write whole sectors, which are even;
* the first set of a pad without the magic number leaves what is behind its token in
  place (`bcm63xx_flash.c:757-767`), so that leftovers that look like a token are taken for
  one; `PadInit` has an erased or zeroed flash. `kerSysScratchPadSet` stores names that do not
  start with a letter, and its walk ends at such a token (line 780) while that of
  `kerSysScratchPadGet` does not (line 683); the model's names start with one;
* a set of data of the same length, which would overwrite in place, is refused on a pad
  that is nearly full;
* an image that fits half of the flash without its tag runs into the first of the
  sectors reserved for settings when it goes to the second half (`ReservedKept`
  excludes it);
* an update that was cut short leaves a valid tag with the highest sequence number: the
  driver, and a boot loader like it, chooses that image at the next start, until the
  boot line is changed at its console (`SetBootLine`);
* a kernel that ends where a sector of the pad or of Config 2 begins disables that
  section, although they share nothing;
* the size of a whole image is not checked: a larger one lies under the settings, which
  then overwrite it (`SectionsOffImage` speaks of the others), and one that ends beyond the
  flash erases the boot loader and never returns. One that runs past the end of the table
  of sectors reads outside it, which is not modelled;
* the branch of `kerSysBcmImageSet` for the sector of the persistent data frees its buffer
  twice (`bcm63xx_flash.c:584, 618`);
* NVRAM data that could not be read for want of memory are written back, with a valid
  checksum, from uninitialised memory;
* a failure of sector 0 is reported as 0, which is success, although the comment says
  "should not be 0" (`bcm63xx_flash.c:528`);
* the SES button stays dead after a press that was released before the handler's or
  poll's test, until somebody calls SET_TRIGGER_EVENT or reads (`DeadOnlyByRelease`);
* a second SET_MONITOR_FD would make the poll hook call itself.

## Proofs

Every safety property of the passing runs is a theorem, for every value of the constants
that satisfies the named assumptions.

| Module | Theorems state |
|---|---|
| `XtmTxProofs` | `TxTypeOK`, `TxRingsConsistent`, `RunningIffLinkUp`, `SkbInOnePlace`, `FreedAfterTransmit`, `StrayOnlyInRequest`, `ImplementsFifo` |
| `XtmRxProofs` | `RxTypeOK`, `RxRingsConsistent`, `PlaceForFreeBuffer`, `NoStuckChannel`, `ReceivedIsNoticed`, `HeadersLast`, `IrqLostOnlyByZeroing` |
| `LedProofs` | `LedTypeOK`, `BlinkersHaveTimer`, `NamesReachTheirPins`, `SettledShowsState`; `OneColour` under `HandlersReplacePins` |
| `FlashStoreProofs` | `StoreTypeOK`, `SectorsHoldWhatWasSet`, `OkMeansStored`, `GetReturnsSet` |
| `ImageUpdateProofs` | `UpdateTypeOK`, `RunningImageKept`, `SectionsOffImage`, `ReservedKept` |
| `ScratchPadProofs` | `PadInv`, `TokensWellFormed`, `GetSeesEveryToken`, `ImplementsMap` |
| `BoardProofs` | `MacTypeOK`, `IdsUnique`, `FreshFirst`, `OneHolder`, `HeldCanBeReleased`, `RobbedByLikes`; `EventTypeOK`, `ListIsRegistered`, `GaspReachesAll`, `DeadOnlyByRelease` |

### The arguments

*Rings.* Both ring arguments describe a ring by offsets from its head (`Slot`, `RxSlot`).
Offsets are injective and the wrap-around step adds one to them, so the operations on a
ring become operations on intervals of offsets.

*Transmit.* The release loop stops exactly at the DMA position (`CompletedIsSent`), hence
releasing, queueing and transmitting keep the interval of packets in flight. `TxInv` covers
every entry of `TxQInfos`, also the ones beyond `ulTxQInfosSize`, and says that the entry a
link up is working on is blank, since that is what makes its last step safe.
`RunningIffLinkUp` needs to know which link a request is taking up or down (`RunInv`).
`SkbsApart` is stronger than `SkbInOnePlace`: it speaks of every descriptor, also those the
driver has given up, and says that what they hold is `held`. `StrayInv` says when a queue
has no descriptors and when its memory is freed. The refinement needs, besides these, that
a device whose link is down has no queues and that priorities name live queues (`LinkInv`).
A queue maps to the sequence of the packets between its head and its tail (`Packets`);
releasing drops a prefix of it, queueing appends, and every step of a link request is a
step or a stutter of `TxFifo`.

*Receive.* A ring holds `f` received buffers, then `m` the engine may fill, then one gap
per buffer of the stack. `ReceivedIsNoticed` is not inductive: `StillNoticed` adds which
part of the tasklet's round is still to come. `IrqLostOnlyByZeroing` needs that `ulMask` is
empty until it is read. `HeadersLast` compares two sums: headers are conserved
(`HeaderInv`), no ring has more buffers with the stack than it has descriptors, and the
ring with a received buffer has fewer. That sums compare as what they sum is proved by
induction on the size of the set (`AllNumbers`, `SumsCompare`).

*LEDs.* `BlinkersHaveTimer` already speaks of the request in progress (`WillStart`), since
the timer may expire between the stores of a request and its start of the timer; `LedInv`
adds that a request in progress has a board LED and an output to do. `NamesReachTheirPins`
rests on `MapInv`: during the initialisation every name handled so far reaches its pins
through the LED it was given, and no pin is in two LEDs. `SettledShowsState` needs most: a
request that no timer has interrupted still works on the snapshot it took (`SnapInv`), what
is left of its list of outputs leads to the requested state (`FullInv`), and an LED that
settled shows its state up to the toggles of a blink (`SettledInv`). `OneColour` reads the
pins: at rest a green pin shows the state of its LED (`SettledShowsState`), and `ColourInv`
says that the states and the handlers never show both. It needs that a name
with a handler has no pin of that colour in the mapping (`HandlersReplacePins`): `brcm_board_init`
leaves out the pins marked `BP_HW_DEFINED` (`board.c:338-349`). With both, the pin would be
switched and the handler's colour left on.

*Allocator.* `OneHolder` is not inductive; `HolderOwnsEntry` is: the address a caller uses,
unless it was robbed of it, has an entry that is in use and answers to the caller's id, so
that a caller with another id can neither match it nor find it free. Addresses of
different entries differ, also when they wrap around, since there are at most 32
(`NVRAM_MAC_COUNT_MAX`).

*Flash.* The lemmas of `FlashLayoutProofs` say that the sections follow each other, end
inside the flash and share a sector only where the code says so. `StoreInv` says of every
call in progress which sectors lie behind it, read or stored, and that for those before it
the buffer is what is wanted with the change made, as far as it is not lost. It is inductive
because a call that has read its first sector holds the lock, so that there is one such call
at a time.

*Scratch pad.* `PadInv`, the inductive invariant, says that the flash is blank or that there
is a sequence of offsets, the `Layout`: each token starts where the one before it ends, all
are aligned, their names differ, their lengths are ones both operations accept, and behind
the last there is no valid length and nothing that was written. The loops are defined by
recursion, so first a function that satisfies the recursion is shown to exist
(`GetLoopExists` and its like, from the far end of `Places`); then, from the last token
back, that on a layout the loops of `kerSysScratchPadSet` find exactly its tokens and its
end, and the loop of `kerSysScratchPadGet` the same data. Its count of the used length is
too small by the token headers, which is harmless: it never exceeds the offset it stands
for, and the list ends before either reaches the pad's length. Each branch of
`kerSysScratchPadSet` then maps a layout to a layout (`PutAtEnd`, `PutInPlace`,
`RemoveToken`, `FirstToken`) and changes the data of one token (`Stores`), which is a step
of `PadMap`. Alignment is what makes a token that fits without its padding fit with it.

*Image.* `RunningImageKept` holds because the first sector of an image, which has the tag,
is the first to go: as long as the tag is there the image is whole (`TagMeansWhole`), and a
request that is writing is not yet at it or past all of it (`NotYetReached`). A whole image
of any size keeps that: the boot loader starts an image only if all its sectors exist. That an update
of the file system goes beside the running image needs that the two tags never have one
sequence number (`SequencesDiffer`).

*Dying gasp.* Between any two stores of a list operation the links lead from the head
through different handlers back to the head (`Follows`), and every registered handler is
among them; `Pending` says what the stores still to do make of that list. That the walk
meets them in that order, each once, is proved by the least turn at which it would not.

### Assumptions

Sizes and counts are natural numbers and the queue lists fit the table. Beyond that:

* `LayoutAssumption`, `SectionsFit`: the scratch pad (`SP_MAX_LEN`, 8 KB) is no longer than a
  sector, and the sections of the largest persistent data (`NVRAM_MAX_PSI_SIZE`, 64 KB) leave
  the sector of the boot loader free;
* `UpdateAssumption`: two tags (`TAG_LEN`, 256 bytes) fit a sector, and there is a sector
  besides the reserved ones;
* `BoardTables`: in a mapping a name appears once, no pin is used for both colours,
  and names that share a pin agree on their pins and form a group. This was compared with the
  37 tables of `shared/opensource/boardparms/bcm963xx/boardparms.c`;
* `PadAssumption`: the header, the token header and the pad are multiples of the alignment,
  and there is room for both headers. Each header is two units, so the alignment is one
  unit or two;
* `UnitsApart`: zeroed and erased flash reads neither as a name (`'A'` to `'z'`) nor as a
  length above 0 (erased is -1) nor as the magic number. What lies behind the pad is taken
  to be no token either: the used length that `kerSysScratchPadGet` tests leaves out the token
  headers and does not keep it from looking there when the pad is full;
* `GaspAssumption`: the handlers are finitely many.

### Only model-checked

The liveness properties `QueuedIsFreed`, `ReceivedIsTaken`, `KeepsBlinking`,
`EveryCallReturns`, `NewImageRuns`, `MonitorIsTold` and `ButtonIsReported`: fairness and
`ENABLED` are beyond the prover.

## Plan

1. `XtmInit`: DoGlobInitReq with failing allocations and repeated requests; cell
   handler registration against the tasklet.
2. Console receive path.

## Not modelled

Packet contents (RFC 2684 headers, padding, alignment copies), statistics, ioctl and
ethtool copies; `DoGlobInitReq`, which is the initial state of the XTM models; the
commands to the flash parts, the SPI flash layer and the detection of parts, which are
hardware I/O; signals that interrupt the wait for the flash lock (`down_interruptible` is not
checked); a page fault at the caller's string between the read and the erase of a call,
which would sleep with the lock free (the kernel has no swap and callers fill the string
just before); `AddRfc2684Hdr` without memory for a longer header, after which the packet is
used at NULL (`bcmxtmrt.c:665-697, 503`); an update that starts
while a storage call is waiting inside the flash driver; the clean-up of the dying gasp
list (the driver is built in); the serial console; the kernel beyond what the drivers
rely on; vendored user applications, host tools, binary drivers, board tables and web
pages.
