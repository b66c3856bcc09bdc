---------------------------------- MODULE XtmRx ----------------------------------
(* The receive side of the XTM (ATM/PTM) runtime driver                           *)
(* bcmdrivers/opensource/net/xtmrt/impl1/bcmxtmrt.c: the receive descriptor       *)
(* rings, the interrupt handler and tasklet that empty them, the pool of socket   *)
(* buffer headers, and the return of headers and data buffers by the network      *)
(* stack.                                                                         *)
(*                                                                                *)
(* One processor, no preemption: the DMA engine and the interrupt handler run at  *)
(* any moment; the tasklet is a bottom half, so returns of buffers (which disable *)
(* bottom halves) and link requests run only while it is not in the middle of a   *)
(* pass.  A scheduled tasklet may be deferred to ksoftirqd, so anything may run   *)
(* before it starts.                                                              *)
EXTENDS Integers, FiniteSets, Functions

CONSTANTS
    Devs,           \* network devices
    MatchIds,       \* match ids (receive vcids)
    NULL,           \* no device context
    MaxRxQueues,    \* MAX_RECEIVE_QUEUES
    RxSizes,        \* ulReceiveQueueSizes: queue -> number of descriptors
    RxVcids         \* device -> the lists ucRxVcids its link up may bring

Queues == 0 .. MaxRxQueues - 1

ASSUME RxAssumption ==
    /\ NULL \notin Devs
    /\ MaxRxQueues \in Nat \ {0}
    /\ RxSizes \in [Queues -> Nat]
    /\ RxVcids \in [Devs -> SUBSET SUBSET MatchIds]

(* Queues DoGlobInitReq gives a ring (pBdBase is not NULL). *)
Rings == {q \in Queues : RxSizes[q] > 0}

VARIABLES
    ring,        \* RxBdInfos: pBdHead, pBdTail and the DMA position as indices,
                 \* descriptors with a buffer (address), with DMA_OWN (status)
    up,          \* queue -> data buffers of its ring that the stack holds
    free,        \* number of headers on pFreeRxSkbList
    upHdrs,      \* number of headers the stack holds
    byMatch,     \* pDevCtxsByMatchId
    links,       \* devices with ulLinkState = LINK_UP
    running,     \* ulDrvState = XTMRT_RUNNING
    dmaOn,       \* channels whose cfg is DMA_ENABLE
    noDesc,      \* channels with DMA_NO_DESC latched in intStat
    done,        \* channels with DMA_DONE latched in intStat
    irqOn,       \* receive interrupts not masked in PERF->IrqMask
    intMask,     \* ulIntEnableMask
    sched,       \* RxTasklet is scheduled
    tl           \* the tasklet: where it is, its locals i, ulMoreToReceive, ulMask

hwVars == <<dmaOn, noDesc, done, irqOn>>
linkVars == <<byMatch, links, running>>
rxVars == <<ring, up, free, upHdrs, linkVars, hwVars, intMask, sched, tl>>

TlIdle == [pc |-> "idle", i |-> 0, more |-> FALSE, mask |-> {}]

(* The descriptor after i: the last one carries DMA_WRAP. *)
NextRxBd(q, i) == IF i = RxSizes[q] - 1 THEN 0 ELSE i + 1

(* DoGlobInitReq: every descriptor has a buffer and belongs to the DMA engine,    *)
(* there is a header for every buffer, interrupts are masked.                     *)
RxTotal == FoldFunction(+, 0, RxSizes)

RxInit ==
    /\ ring = [q \in Queues |-> [buf |-> 0 .. RxSizes[q] - 1,
                                 own |-> 0 .. RxSizes[q] - 1,
                                 head |-> 0, tail |-> 0, hw |-> 0]]
    /\ up = [q \in Queues |-> 0]
    /\ free = RxTotal
    /\ upHdrs = 0
    /\ byMatch = [m \in MatchIds |-> NULL]
    /\ links = {}
    /\ running = FALSE
    /\ dmaOn = {} /\ noDesc = {} /\ done = {} /\ irqOn = {}
    /\ intMask = {}
    /\ sched = FALSE
    /\ tl = TlIdle

(* ------------------------------------------------------------------------------ *)
(* AssignRxBuffer on ring r of queue q: the buffer goes to the tail descriptor,   *)
(* or nowhere when that one has a buffer ("No place to put free buffer").         *)
Assigned(q, r) ==
    IF r.tail \notin r.buf
    THEN [r EXCEPT !.buf = @ \cup {r.tail}, !.own = @ \cup {r.tail},
                   !.tail = NextRxBd(q, @)]
    ELSE r

(* Mutant: DMA_NO_DESC is cleared and the channel left off. *)
ClearNoDesc(q) ==
    IF q \in noDesc
    THEN noDesc' = noDesc \ {q} /\ UNCHANGED dmaOn
    ELSE UNCHANGED <<noDesc, dmaOn>>

(* Its last step restarts a channel that ran out of descriptors. *)
RestartDma(q) ==
    IF q \in noDesc
    THEN noDesc' = noDesc \ {q} /\ dmaOn' = dmaOn \cup {q}
    ELSE UNCHANGED <<noDesc, dmaOn>>

(* Mutants: the head does not wrap; the descriptor keeps its buffer address. *)
TakenNoWrap(q, r) ==
    [r EXCEPT !.buf = @ \ {r.head}, !.own = @ \ {r.head}, !.head = @ + 1]

TakenKeepsBuffer(q, r) ==
    [r EXCEPT !.own = @ \ {r.head}, !.head = NextRxBd(q, @)]

(* The head descriptor without its buffer, the head advanced. *)
Taken(q, r) ==
    [r EXCEPT !.buf = @ \ {r.head}, !.own = @ \ {r.head}, !.head = NextRxBd(q, @)]

(* ------------------------------------------------------------------------------ *)
(* The descriptor the DMA engine is at, filled. *)
Filled(q, r) == [r EXCEPT !.own = @ \ {r.hw}, !.hw = NextRxBd(q, @)]

(* The DMA engine fills the descriptor it is at and latches DMA_DONE; at a        *)
(* descriptor without a buffer it latches DMA_NO_DESC and shuts down.             *)
RxDma(q) ==
    /\ q \in dmaOn
    /\ LET r == ring[q]
       IN  \/ /\ r.hw \in r.own
              /\ ring' = [ring EXCEPT ![q] = Filled(q, @)]
              /\ done' = done \cup {q}
              /\ UNCHANGED <<dmaOn, noDesc>>
           \/ /\ r.hw \notin r.own
              /\ noDesc' = noDesc \cup {q}
              /\ dmaOn' = dmaOn \ {q}
              /\ UNCHANGED <<ring, done>>
    /\ UNCHANGED <<up, free, upHdrs, linkVars, irqOn, intMask, sched, tl>>

(* Mutants of the handler: the tasklet is not scheduled; the interrupt is not     *)
(* noted in ulIntEnableMask.                                                      *)
RxIsrNoSchedule(q) ==
    /\ q \in done /\ q \in irqOn
    /\ irqOn' = irqOn \ {q}
    /\ done' = done \ {q}
    /\ intMask' = intMask \cup {q}
    /\ UNCHANGED <<ring, up, free, upHdrs, linkVars, dmaOn, noDesc, sched, tl>>

RxIsrForgetsMask(q) ==
    /\ q \in done /\ q \in irqOn
    /\ irqOn' = irqOn \ {q}
    /\ done' = done \ {q}
    /\ sched' = TRUE
    /\ UNCHANGED <<ring, up, free, upHdrs, linkVars, dmaOn, noDesc, intMask,
                   tl>>

(* bcmxtmrt_rxisr.  irq_dispatch_int has masked the interrupt, and the handler of *)
(* an interrupt mapped with BcmHalMapInterrupt must enable it again itself.       *)
RxIsr(q) ==
    /\ q \in done
    /\ q \in irqOn
    /\ irqOn' = irqOn \ {q}
    /\ done' = done \ {q}
    /\ intMask' = intMask \cup {q}
    /\ sched' = TRUE
    /\ UNCHANGED <<ring, up, free, upHdrs, linkVars, dmaOn, noDesc, tl>>

(* ------------------------------------------------------------------------------ *)
(* bcmxtmrt_rxtasklet *)

(* The softirq starts a scheduled tasklet; it may be scheduled anew from then on. *)
TaskletStart ==
    /\ sched
    /\ tl.pc = "idle"
    /\ sched' = FALSE
    /\ tl' = [pc |-> "scan", i |-> 0, more |-> FALSE, mask |-> {}]
    /\ UNCHANGED <<ring, up, free, upHdrs, linkVars, hwVars, intMask>>

(* The head descriptor has a buffer and is not the DMA engine's. *)
HeadFull(q) == q \in Rings /\ ring[q].head \in ring[q].buf \ ring[q].own

(* Mutant: the loop stays with a queue while it receives. *)
AdvanceSticky(more) ==
    tl' = IF more THEN [tl EXCEPT !.more = FALSE]
          ELSE IF tl.i < MaxRxQueues - 1 THEN [tl EXCEPT !.i = @ + 1]
          ELSE [tl EXCEPT !.i = 0, !.pc = "mask"]

(* The loop counter after queue tl.i: the next queue, another round when one      *)
(* received something, or the end of the loop.                                    *)
Advance(more) ==
    tl' = IF tl.i < MaxRxQueues - 1 THEN [tl EXCEPT !.i = @ + 1, !.more = more]
          ELSE IF more THEN [tl EXCEPT !.i = 0, !.more = FALSE]
          ELSE [tl EXCEPT !.i = 0, !.more = FALSE, !.pc = "mask"]

(* Nothing to receive on this queue. *)
ScanEmpty ==
    /\ tl.pc = "scan"
    /\ ~ HeadFull(tl.i)
    /\ Advance(tl.more)
    /\ UNCHANGED <<ring, up, free, upHdrs, linkVars, hwVars, intMask, sched>>

(* A good packet of a known match id: a header from the free list (which is not   *)
(* checked for being empty) carries the buffer to the stack.                      *)
ScanPacket(m) ==
    LET q == tl.i
    IN  /\ tl.pc = "scan" /\ HeadFull(q)
        /\ byMatch[m] # NULL
        /\ free > 0
        /\ ring' = [ring EXCEPT ![q] = Taken(q, @)]
        /\ free' = free - 1
        /\ upHdrs' = upHdrs + 1
        /\ up' = [up EXCEPT ![q] = @ + 1]
        /\ Advance(TRUE)
        /\ UNCHANGED <<linkVars, hwVars, intMask, sched>>

(* A cell (ProcessRxCell), an errored packet or an unknown match id: the buffer   *)
(* goes straight back to the ring.                                                *)
ScanReassign ==
    LET q == tl.i
    IN  /\ tl.pc = "scan" /\ HeadFull(q)
        /\ ring' = [ring EXCEPT ![q] = Assigned(q, Taken(q, @))]
        /\ RestartDma(q)
        /\ Advance(TRUE)
        /\ UNCHANGED <<up, free, upHdrs, linkVars, done, irqOn, intMask,
                       sched>>

(* ulMask = pGi->ulIntEnableMask *)
TaskletReadMask ==
    /\ tl.pc = "mask"
    /\ tl' = [tl EXCEPT !.pc = "zero", !.mask = intMask]
    /\ UNCHANGED <<ring, up, free, upHdrs, linkVars, hwVars, intMask, sched>>

(* pGi->ulIntEnableMask = 0: an interrupt may come between the two statements. *)
TaskletZeroMask ==
    /\ tl.pc = "zero"
    /\ intMask' = {}
    /\ tl' = [tl EXCEPT !.pc = "enable"]
    /\ UNCHANGED <<ring, up, free, upHdrs, linkVars, hwVars, sched>>

(* BcmHalInterruptEnable for every bit of ulMask, and the tasklet ends. *)
TaskletEnable ==
    /\ tl.pc = "enable"
    /\ irqOn' = irqOn \cup tl.mask
    /\ tl' = TlIdle
    /\ UNCHANGED <<ring, up, free, upHdrs, linkVars, dmaOn, noDesc, done,
                   intMask, sched>>

(* ------------------------------------------------------------------------------ *)
(* bcmxtmrt_freeskbordata.  The stack gives back data buffers and headers         *)
(* independently: a freed packet returns its data before its header with bottom   *)
(* halves enabled in between, pskb_expand_head returns the data of a packet that  *)
(* lives on, and a clone keeps the data of a packet whose header is returned.     *)
FreeData(q) ==
    /\ tl.pc = "idle"
    /\ up[q] > 0
    /\ up' = [up EXCEPT ![q] = @ - 1]
    /\ ring' = [ring EXCEPT ![q] = Assigned(q, @)]
    /\ RestartDma(q)
    /\ UNCHANGED <<free, upHdrs, linkVars, done, irqOn, intMask, sched, tl>>

(* Mutant: the header of a packet is dropped with its data. *)
FreeHeaderWithData ==
    /\ tl.pc = "idle"
    /\ upHdrs > 0
    /\ upHdrs' = upHdrs - 1
    /\ UNCHANGED <<ring, up, free, linkVars, hwVars, intMask, sched, tl>>

FreeHeader ==
    /\ tl.pc = "idle"
    /\ upHdrs > 0
    /\ upHdrs' = upHdrs - 1
    /\ free' = free + 1
    /\ UNCHANGED <<ring, up, linkVars, hwVars, intMask, sched, tl>>

(* ------------------------------------------------------------------------------ *)
(* The receive part of DoLinkUp: the vcids of the link name the device.  Requests *)
(* come one after the other: the previous link up has started the driver.         *)
RxLinkUp(d, ids) ==
    /\ tl.pc = "idle"
    /\ d \notin links
    /\ links = {} \/ running
    /\ links' = links \cup {d}
    /\ byMatch' = [m \in MatchIds |-> IF m \in ids THEN d ELSE byMatch[m]]
    /\ UNCHANGED <<ring, up, free, upHdrs, running, hwVars, intMask, sched, tl>>

(* Its end, for the first link: enable the channels and their interrupts. *)
RxStart ==
    /\ tl.pc = "idle"
    /\ links # {}
    /\ ~ running
    /\ running' = TRUE
    /\ dmaOn' = Rings
    /\ irqOn' = irqOn \cup Rings
    /\ UNCHANGED <<ring, up, free, upHdrs, byMatch, links, noDesc, done, intMask,
                   sched, tl>>

(* The receive part of DoLinkDown: forget the vcids and, when no link is left,    *)
(* disable the channels and mask their interrupts.                                *)
RxLinkDown(d) ==
    /\ tl.pc = "idle"
    /\ d \in links
    /\ running
    /\ links' = links \ {d}
    /\ byMatch' = [m \in MatchIds |-> IF byMatch[m] = d THEN NULL ELSE byMatch[m]]
    /\ \/ /\ links' = {}
          /\ running' = FALSE
          /\ dmaOn' = {}
          /\ irqOn' = irqOn \ Rings
       \/ /\ links' # {}
          /\ UNCHANGED <<running, dmaOn, irqOn>>
    /\ UNCHANGED <<ring, up, free, upHdrs, noDesc, done, intMask, sched, tl>>

(* ------------------------------------------------------------------------------ *)
Tasklet ==
    \/ TaskletStart
    \/ ScanEmpty
    \/ \E m \in MatchIds : ScanPacket(m)
    \/ ScanReassign
    \/ TaskletReadMask
    \/ TaskletZeroMask
    \/ TaskletEnable

RxNext ==
    \/ \E q \in Rings : RxDma(q) \/ RxIsr(q) \/ FreeData(q)
    \/ FreeHeader
    \/ Tasklet
    \/ \E d \in Devs : RxLinkDown(d) \/ \E ids \in RxVcids[d] : RxLinkUp(d, ids)
    \/ RxStart

RxSpec == RxInit /\ [][RxNext]_rxVars

(* An interrupt that is pending and not masked is taken, and a softirq that is    *)
(* raised runs to its end.                                                        *)
RxFairness == WF_rxVars(Tasklet) /\ \A q \in Rings : WF_rxVars(RxIsr(q))

RxFairSpec == RxSpec /\ RxFairness

(* ------------------------------------------------------------------------------ *)
(* Properties *)

RxRing == [buf : SUBSET Nat, own : SUBSET Nat, head : Nat, tail : Nat, hw : Nat]

(* Type invariant of the receive side. *)
RxTypeOK ==
    /\ ring \in [Queues -> RxRing]
    /\ up \in [Queues -> Nat]
    /\ free \in Nat /\ upHdrs \in Nat
    /\ byMatch \in [MatchIds -> Devs \cup {NULL}]
    /\ links \subseteq Devs
    /\ running \in BOOLEAN /\ sched \in BOOLEAN
    /\ dmaOn \subseteq Rings /\ noDesc \subseteq Rings /\ done \subseteq Rings
    /\ irqOn \subseteq Rings /\ intMask \subseteq Rings
    /\ tl \in [pc : {"idle", "scan", "mask", "zero", "enable"}, i : Queues,
               more : BOOLEAN, mask : SUBSET Rings]

(* The j-th descriptor from the head of ring r of queue q. *)
RxSlot(q, r, j) ==
    IF r.head + j < RxSizes[q] THEN r.head + j ELSE r.head + j - RxSizes[q]

(* Ring r of queue q holds, from its head on, f received buffers, then m buffers  *)
(* the DMA engine may fill, then descriptors without a buffer.                    *)
RingHas(q, r, f, m) ==
    /\ r.head < RxSizes[q]
    /\ r.hw = RxSlot(q, r, f)
    /\ r.tail = RxSlot(q, r, f + m)
    /\ r.buf = {RxSlot(q, r, j) : j \in 0 .. f + m - 1}
    /\ r.own = {RxSlot(q, r, j) : j \in f .. f + m - 1}

(* A ring has one descriptor without a buffer for every buffer of this ring that  *)
(* the stack holds, and they lie between its tail and its head: no buffer is      *)
(* lost, duplicated or returned to a foreign ring, whatever the order in which    *)
(* the stack returns them.                                                        *)
RxRingsConsistent ==
    \A q \in Rings : \E f, m \in 0 .. RxSizes[q] :
        f + m + up[q] = RxSizes[q] /\ RingHas(q, ring[q], f, m)

(* AssignRxBuffer's "This should not happen": whenever a buffer can come back,    *)
(* the tail descriptor is empty.                                                  *)
PlaceForFreeBuffer ==
    \A q \in Rings : /\ up[q] > 0 => ring[q].tail \notin ring[q].buf
                     /\ HeadFull(q) =>
                           LET r == Taken(q, ring[q]) IN r.tail \notin r.buf

(* A channel that is shut down while the driver runs has DMA_NO_DESC latched and  *)
(* no descriptor to work on: the next buffer that comes back restarts it, so a    *)
(* ring never stays shut down with buffers in it.                                 *)
NoStuckChannel ==
    running => \A q \in Rings \ dmaOn :
                  q \in noDesc /\ ring[q].own = {}

(* A received buffer is always noticed: the tasklet will still look at the ring,  *)
(* or the channel has DMA_DONE latched, which interrupts as soon as the interrupt *)
(* is enabled.                                                                    *)
ReceivedIsNoticed ==
    \A q \in Rings : HeadFull(q) => sched \/ tl.pc = "scan" \/ q \in done

(* The interrupt of a running ring is masked and nothing will enable it again. *)
IrqLost(q) == running /\ q \notin irqOn \cup intMask \cup tl.mask

(* The one statement that can lose an interrupt is the zeroing of                 *)
(* ulIntEnableMask after it was read: masking at dispatch, the handler's          *)
(* bookkeeping, restarts of the driver and the enabling loop never do.            *)
IrqLostOnlyByZeroing ==
    [][\A q \in Rings : (IrqLost(q)' /\ ~ IrqLost(q)) => tl.pc = "zero"]_rxVars

(* While the driver keeps running and headers last, every received buffer is      *)
(* taken from its descriptor in the end, unless the ring's interrupt is lost.     *)
ReceivedIsTaken ==
    \A q \in Rings : \A i \in 0 .. RxSizes[q] - 1 :
        (running /\ i \in ring[q].buf \ ring[q].own)
            ~> (\/ i \notin ring[q].buf \ ring[q].own
                \/ ~ running \/ free = 0 \/ IrqLost(q))

(* When a buffer was received and the list of headers is empty (which the tasklet *)
(* does not check), the stack holds more headers than data: no header is ever     *)
(* lost, and as long as the stack returns both together there is one for every    *)
(* packet.                                                                        *)
HeadersLast ==
    (\E q \in Rings : HeadFull(q)) /\ free = 0 => upHdrs > FoldFunction(+, 0, up)
==================================================================================
