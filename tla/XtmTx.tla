---------------------------------- MODULE XtmTx ----------------------------------
(* The transmit side of the XTM (ATM/PTM) runtime driver                          *)
(* bcmdrivers/opensource/net/xtmrt/impl1/bcmxtmrt.c: the network devices it       *)
(* creates, their transmit descriptor rings, the link-up and link-down requests   *)
(* of the configuration driver, the periodic timer that releases transmitted      *)
(* packets, and the DMA engine that transmits them.                               *)
(*                                                                                *)
(* The target (targets/96338W2) is a uniprocessor kernel without preemption.      *)
(* bcmxtmrt_xmit disables bottom halves, so one call is one step with respect to  *)
(* all software; only the DMA engine runs beside it, and it only clears DMA_OWN   *)
(* bits, which commutes with the call.  DoLinkUp and DoLinkDown run in process    *)
(* context with bottom halves enabled: the timer, a transmission from the         *)
(* network stack or a cell request may run between any two of their steps, so     *)
(* they are split there; other threads run only between requests.  A step that    *)
(* dereferences NULL kills the thread that takes it: that thread takes no further *)
(* step.                                                                          *)
EXTENDS Integers, Sequences, FiniteSets

CONSTANTS
    Devs,           \* network devices the configuration driver may create
    Skbs,           \* socket buffers: the supply bounds the behaviours
    NULL,           \* an empty slot of ppSkbs
    MaxDevCtxs,     \* MAX_DEV_CTXS, entries of the table pDevCtxs
    Ports,          \* ports a cell can name
    MaxPhyPorts,    \* MAX_PHY_PORTS
    SubPrios,       \* the sub-priorities below MAX_SUB_PRIORITIES
    MaxTxQueues,    \* MAX_TRANSMIT_QUEUES
    MaxQueueSize,   \* bound on ulQueueSize
    TxQConfigs      \* transmit queue lists a LINK_UP may carry

(* TransitQueueIds of a LINK_UP: port, sub-priority and ring size of each queue.  *)
TxQueueId == [port : Nat, prio : Nat, size : 1 .. MaxQueueSize]

ASSUME TxAssumption ==
    /\ NULL \notin Skbs
    /\ MaxDevCtxs \in Nat
    /\ MaxPhyPorts \in Nat \ {0}
    /\ Ports \subseteq 0 .. MaxPhyPorts - 1
    /\ SubPrios \subseteq Nat
    /\ MaxTxQueues \in Nat \ {0}
    /\ MaxQueueSize \in Nat
    /\ \A cfg \in TxQConfigs : cfg \in Seq(TxQueueId) /\ Len(cfg) <= MaxTxQueues

VARIABLES
    drvState,    \* pGi->ulDrvState
    timer,       \* pGi->Timer is pending
    created,     \* devices whose context is allocated
    table,       \* contexts stored in pGi->pDevCtxs
    admin,       \* ulAdminStatus = ADMSTS_UP
    opened,      \* ulOpenState = XTMRT_DEV_OPENED (the interface is up)
    stopped,     \* the netif queue of the device is stopped
    linkUp,      \* ulLinkState = LINK_UP
    cfgUp,       \* last link status the configuration driver asked for
    nTxQ,        \* ulTxQInfosSize
    txq,         \* TxQInfos, numbered from 1
    txPrio,      \* pTxPriorities: port index -> sub-priority -> ring number, 0 for NULL
    txMem,       \* what pTxQMem points to: "null", "live" or "freed" memory
    req,         \* the request the configuration driver's thread is in
    held         \* ghost: socket buffers the driver accepted and has not freed

devVars == <<created, table, admin, opened>>
txVars  == <<drvState, timer, devVars, stopped, linkUp, cfgUp,
             nTxQ, txq, txPrio, txMem, req, held>>

Idle == [op |-> "idle"]

Bds == 0 .. MaxQueueSize - 1

(* TxQInfos[i] for i < ulTxQInfosSize *)
Live(d) == 1 .. nTxQ[d]

(* ------------------------------------------------------------------------------ *)
(* A transmit ring: struct TXQINFO with its descriptors (pBds), the socket buffer *)
(* of each descriptor (ppSkbs) and the position of the DMA engine.                *)

(* A TXQINFO as memset leaves it. *)
NoSkbs == [i \in Bds |-> NULL]

ZeroRing == [port |-> 0, size |-> 0, free |-> 0, head |-> 0, tail |-> 0, hw |-> 0,
             own |-> {}, skb |-> NoSkbs, dma |-> "off", bds |-> FALSE]

(* The entry once DoLinkUp has stored ulQueueSize but not yet pBds and ulFreeBds. *)
HalfRing(id) == [ZeroRing EXCEPT !.port = id.port, !.size = id.size]

(* The entry DoLinkUp leaves: all descriptors free, the channel not yet enabled.  *)
FreshRing(id) ==
    [port |-> id.port, size |-> id.size, free |-> id.size, head |-> 0, tail |-> 0,
     hw |-> 0, own |-> {}, skb |-> NoSkbs, dma |-> "off", bds |-> TRUE]

(* The descriptor after i: the last one carries DMA_WRAP. *)
NextBd(r, i) == IF i = r.size - 1 THEN 0 ELSE i + 1

Used(r) == r.size - r.free

(* The j-th descriptor in flight, counted from ulHead. *)
Slot(r, j) == IF r.head + j < r.size THEN r.head + j ELSE r.head + j - r.size

(* How many descriptors the release loop passes: it stops at the first one the    *)
(* DMA engine still owns, or when all are free.                                   *)
Completed(r) ==
    {k \in 0 .. Used(r) : /\ \A j \in 0 .. k - 1 : Slot(r, j) \notin r.own
                          /\ k = Used(r) \/ Slot(r, k) \in r.own}

ReleasedSlots(r) ==
    LET k == CHOOSE n \in Completed(r) : TRUE IN {Slot(r, j) : j \in 0 .. k - 1}

(* The release loop of bcmxtmrt_xmit on one ring. *)
ReapRing(r) ==
    IF ~ r.bds THEN r
    ELSE LET k == CHOOSE n \in Completed(r) : TRUE
         IN  [r EXCEPT !.head = Slot(r, k), !.free = @ + k,
                       !.skb = [i \in Bds |-> IF i \in ReleasedSlots(r) THEN NULL
                                              ELSE @[i]]]

(* Mutant: the packet at the head is freed without a look at DMA_OWN. *)
FreedByOneMore(r) ==
    IF r.bds THEN {r.skb[i] : i \in ReleasedSlots(r)} \cup {r.skb[r.head]} ELSE {}

(* What it frees. *)
FreedBy(r) == IF r.bds THEN {r.skb[i] : i \in ReleasedSlots(r)} ELSE {}

(* Mutant: the tail does not wrap. *)
PushRingNoWrap(r, s) ==
    [r EXCEPT !.free = @ - 1, !.skb = [@ EXCEPT ![r.tail] = s],
              !.own = @ \cup {r.tail}, !.tail = @ + 1, !.dma = "on"]

(* The tail descriptor gets the packet and DMA_OWN; the channel is enabled. *)
PushRing(r, s) ==
    [r EXCEPT !.free = @ - 1, !.skb = [@ EXCEPT ![r.tail] = s],
              !.own = @ \cup {r.tail}, !.tail = NextBd(r, @), !.dma = "on"]

(* The descriptor the DMA engine is at, transmitted. *)
TransmitRing(r) == [r EXCEPT !.own = @ \ {r.hw}, !.hw = NextBd(r, @)]

RingSkbs(r) == {r.skb[i] : i \in {j \in Bds : r.skb[j] # NULL}}

DevSkbs(d) == UNION {RingSkbs(txq[d][i]) : i \in Live(d)}

(* The release loop would read the descriptors of ring r of d, but their memory   *)
(* is not there.                                                                  *)
StrayRing(d, r) == r.free < r.size /\ (~ r.bds \/ txMem[d] = "freed")

(* Mutant: the loop over the queues ends one early. *)
ReapedButLast(d) ==
    [i \in 1 .. MaxTxQueues |->
        IF i \in Live(d) \ {nTxQ[d]} THEN ReapRing(txq[d][i]) ELSE txq[d][i]]

(* The rings of d after the release loop of bcmxtmrt_xmit, and what it frees.     *)
(* Memory DoLinkDown has freed still holds the descriptors; the read of it is     *)
(* what StrayOnlyInRequest is about.                                              *)
Reaped(d) ==
    [i \in 1 .. MaxTxQueues |->
        IF i \in Live(d) THEN ReapRing(txq[d][i]) ELSE txq[d][i]]

Freed(d) == UNION {FreedBy(txq[d][i]) : i \in Live(d)}

(* The release loop runs to its end on d: it meets no ring with descriptors in    *)
(* flight but without pBds, where it would dereference NULL.                      *)
Walkable(d) == \A i \in Live(d) : txq[d][i].free < txq[d][i].size => txq[d][i].bds

NoRings == [i \in 1 .. MaxTxQueues |-> ZeroRing]
NoPrio  == [p \in 0 .. MaxPhyPorts - 1 |-> [b \in SubPrios |-> 0]]

(* ------------------------------------------------------------------------------ *)
(* After a successful DoGlobInitReq. *)
TxInit ==
    /\ drvState = "INITIALIZED"
    /\ timer = FALSE
    /\ created = {} /\ table = {}
    /\ admin = [d \in Devs |-> FALSE]
    /\ opened = [d \in Devs |-> FALSE]
    /\ stopped = [d \in Devs |-> FALSE]
    /\ linkUp = [d \in Devs |-> FALSE]
    /\ cfgUp = [d \in Devs |-> FALSE]
    /\ nTxQ = [d \in Devs |-> 0]
    /\ txq = [d \in Devs |-> NoRings]
    /\ txPrio = [d \in Devs |-> NoPrio]
    /\ txMem = [d \in Devs |-> "null"]
    /\ req = Idle
    /\ held = {}

(* ------------------------------------------------------------------------------ *)
(* Devices *)

(* The context is zeroed and goes to a free table entry; with a full table the    *)
(* device exists all the same.                                                    *)
DoCreateDeviceReq(d) ==
    /\ req = Idle
    /\ d \notin created
    /\ created' = created \cup {d}
    /\ table' = IF Cardinality(table) < MaxDevCtxs THEN table \cup {d} ELSE table
    /\ admin' = [admin EXCEPT ![d] = TRUE]
    /\ opened' = [opened EXCEPT ![d] = FALSE]
    /\ stopped' = [stopped EXCEPT ![d] = FALSE]
    /\ linkUp' = [linkUp EXCEPT ![d] = FALSE]
    /\ nTxQ' = [nTxQ EXCEPT ![d] = 0]
    /\ txq' = [txq EXCEPT ![d] = NoRings]
    /\ txPrio' = [txPrio EXCEPT ![d] = NoPrio]
    /\ txMem' = [txMem EXCEPT ![d] = "null"]
    /\ UNCHANGED <<drvState, timer, cfgUp, req, held>>

(* Mutant: the table keeps the context. *)
DeleteKeepsEntry(d) ==
    /\ req = Idle
    /\ d \in table
    /\ ~ cfgUp[d]
    /\ created' = created \ {d}
    /\ opened' = [opened EXCEPT ![d] = FALSE]
    /\ stopped' = [stopped EXCEPT ![d] = @ \/ opened[d]]
    /\ UNCHANGED <<drvState, timer, table, admin, linkUp, cfgUp, nTxQ, txq, txPrio,
                   txMem, req, held>>

(* Only a device of the table is deleted; unregister_netdev closes it.  The       *)
(* configuration driver takes the link down first.                                *)
DoDeleteDeviceReq(d) ==
    /\ req = Idle
    /\ d \in table
    /\ ~ cfgUp[d]
    /\ created' = created \ {d}
    /\ table' = table \ {d}
    /\ opened' = [opened EXCEPT ![d] = FALSE]
    /\ stopped' = [stopped EXCEPT ![d] = @ \/ opened[d]]
    /\ UNCHANGED <<drvState, timer, admin, linkUp, cfgUp, nTxQ, txq, txPrio, txMem,
                   req, held>>

(* XTMRT_CMD_SET_ADMIN_STATUS *)
SetAdminStatus(d) ==
    /\ req = Idle
    /\ d \in created
    /\ admin' = [admin EXCEPT ![d] = ~ @]
    /\ UNCHANGED <<drvState, timer, created, table, opened, stopped, linkUp, cfgUp,
                   nTxQ, txq, txPrio, txMem, req, held>>

(* bcmxtmrt_open: the queue is started even when the open fails. *)
Open(d) ==
    /\ req = Idle
    /\ d \in created
    /\ ~ opened[d]
    /\ opened' = [opened EXCEPT ![d] = admin[d]]
    /\ stopped' = [stopped EXCEPT ![d] = FALSE]
    /\ UNCHANGED <<drvState, timer, created, table, admin, linkUp, cfgUp, nTxQ, txq,
                   txPrio, txMem, req, held>>

(* bcmxtmrt_close *)
Close(d) ==
    /\ req = Idle
    /\ opened[d]
    /\ opened' = [opened EXCEPT ![d] = FALSE]
    /\ stopped' = [stopped EXCEPT ![d] = TRUE]
    /\ UNCHANGED <<drvState, timer, created, table, admin, linkUp, cfgUp, nTxQ, txq,
                   txPrio, txMem, req, held>>

(* bcmxtmrt_timeout: the watchdog of the network stack finds the queue stopped. *)
Timeout(d) ==
    /\ opened[d]
    /\ stopped[d]
    /\ stopped' = [stopped EXCEPT ![d] = FALSE]
    /\ UNCHANGED <<drvState, timer, devVars, linkUp, cfgUp, nTxQ, txq, txPrio, txMem,
                   req, held>>

(* ------------------------------------------------------------------------------ *)
(* bcmxtmrt_xmit *)

(* The ring for a packet of priority prio: the queue of that sub-priority on      *)
(* port 0, or else the first one.                                                 *)
PickQueue(d, prio) ==
    IF prio \in (1 .. 4) \cap SubPrios /\ txPrio[d][0][prio] # 0
    THEN txPrio[d][0][prio] ELSE 1

(* Release what has been transmitted, then queue s, or free it when the device    *)
(* has no queue or the queue is full.  Where AddRfc2684Hdr has to copy the packet *)
(* there is memory for the copy: without, the code goes on with a NULL packet.    *)
Xmit(d, s, prio) ==
    LET rs == Reaped(d)
        q  == PickQueue(d, prio)
        room == nTxQ[d] > 0 /\ rs[q].free > 0
    IN  /\ Walkable(d)
        /\ \/ /\ room
              /\ txq' = [txq EXCEPT ![d] = [rs EXCEPT ![q] = PushRing(rs[q], s)]]
              /\ held' = (held \ Freed(d)) \cup {s}
           \/ /\ ~ room
              /\ txq' = [txq EXCEPT ![d] = rs]
              /\ held' = held \ Freed(d)

(* The network stack transmits on a device that is up and whose queue runs.       *)
HardStartXmit(d, s, prio) ==
    /\ opened[d]
    /\ ~ stopped[d]
    /\ s \notin held
    /\ Xmit(d, s, prio)
    /\ UNCHANGED <<drvState, timer, devVars, stopped, linkUp, cfgUp, nTxQ, txPrio,
                   txMem, req>>

(* skb->priority of a cell for port: pTxPriorities is indexed with the port MASK. *)
(* A cell without a queue keeps priority 0; past the end of the array the loop    *)
(* finds whatever the memory holds.                                               *)
CellPrios(d, port) ==
    LET idx == 2 ^ port
        found == {b \in SubPrios : txPrio[d][idx][b] # 0}
    IN  IF idx >= MaxPhyPorts THEN SubPrios \cup {0}
        ELSE IF found = {} THEN {0}
        ELSE {CHOOSE b \in found : \A c \in found : b <= c}

DoSendCellReq(d, port, s) ==
    /\ d \in created
    /\ linkUp[d]
    /\ s \notin held
    /\ \E prio \in CellPrios(d, port) : Xmit(d, s, prio)
    /\ UNCHANGED <<drvState, timer, devVars, stopped, linkUp, cfgUp, nTxQ, txPrio,
                   txMem, req>>

(* Mutant: the timer passes over devices that are not open. *)
TimerTickOpened ==
    /\ timer
    /\ \A d \in table : opened[d] => Walkable(d)
    /\ txq' = [d \in Devs |-> IF d \in table /\ opened[d] THEN Reaped(d) ELSE txq[d]]
    /\ held' = held \ UNION {Freed(d) : d \in {e \in table : opened[e]}}
    /\ UNCHANGED <<drvState, timer, devVars, stopped, linkUp, cfgUp, nTxQ, txPrio,
                   txMem, req>>

(* bcmxtmrt_timer: release on every device of the table, and start over. *)
TimerTick ==
    /\ timer
    /\ \A d \in table : Walkable(d)
    /\ txq' = [d \in Devs |-> IF d \in table THEN Reaped(d) ELSE txq[d]]
    /\ held' = held \ UNION {Freed(d) : d \in table}
    /\ UNCHANGED <<drvState, timer, devVars, stopped, linkUp, cfgUp, nTxQ, txPrio,
                   txMem, req>>

(* The DMA engine transmits the descriptor it is at and clears DMA_OWN. *)
DmaTransmit(d, i) ==
    /\ i \in Live(d)
    /\ txq[d][i].dma = "on"
    /\ txq[d][i].hw \in txq[d][i].own
    /\ txq' = [txq EXCEPT ![d][i] = TransmitRing(@)]
    /\ UNCHANGED <<drvState, timer, devVars, stopped, linkUp, cfgUp, nTxQ, txPrio,
                   txMem, req, held>>

(* ------------------------------------------------------------------------------ *)
(* DoLinkUp *)

(* The memory for the rings is allocated; ulLinkState and ulTxQInfosSize are set. *)
DoLinkUp(d, cfg) ==
    /\ req = Idle
    /\ d \in table
    /\ ~ cfgUp[d]
    /\ cfgUp' = [cfgUp EXCEPT ![d] = TRUE]
    /\ txMem' = [txMem EXCEPT ![d] = "live"]
    /\ linkUp' = [linkUp EXCEPT ![d] = TRUE]
    /\ nTxQ' = [nTxQ EXCEPT ![d] = Len(cfg)]
    /\ req' = [op |-> "up", d |-> d, cfg |-> cfg, i |-> 1, half |-> FALSE]
    /\ UNCHANGED <<drvState, timer, devVars, stopped, txq, txPrio, held>>

(* kmalloc fails: pTxQMem is NULL and -ENOMEM is returned, upon which the         *)
(* configuration driver may or may not regard the link as up.                     *)
DoLinkUpNoMem(d) ==
    /\ req = Idle
    /\ d \in table
    /\ ~ cfgUp[d]
    /\ \E b \in BOOLEAN : cfgUp' = [cfgUp EXCEPT ![d] = b]
    /\ txMem' = [txMem EXCEPT ![d] = "null"]
    /\ UNCHANGED <<drvState, timer, devVars, stopped, linkUp, nTxQ, txq, txPrio, req,
                   held>>

ValidQueueId(id) == id.port < MaxPhyPorts /\ id.prio \in SubPrios

(* The next queue: skipped when its port or sub-priority is invalid, otherwise     *)
(* ulQueueSize is stored.                                                         *)
LinkUpQueueBegin ==
    /\ req.op = "up"
    /\ req.i <= Len(req.cfg)
    /\ ~ req.half
    /\ LET id == req.cfg[req.i]
       IN  \/ /\ ~ ValidQueueId(id)
              /\ req' = [req EXCEPT !.i = @ + 1]
              /\ UNCHANGED txq
           \/ /\ ValidQueueId(id)
              /\ txq' = [txq EXCEPT ![req.d][req.i] = HalfRing(id)]
              /\ req' = [req EXCEPT !.half = TRUE]
    /\ UNCHANGED <<drvState, timer, devVars, stopped, linkUp, cfgUp, nTxQ, txPrio,
                   txMem, held>>

(* Then pBds, ppSkbs and ulFreeBds; the channel is off and starts at the base. *)
LinkUpQueueEnd ==
    /\ req.op = "up"
    /\ req.half
    /\ LET id == req.cfg[req.i]
       IN  /\ txq' = [txq EXCEPT ![req.d][req.i] = FreshRing(id)]
           /\ txPrio' = [txPrio EXCEPT ![req.d][id.port][id.prio] = req.i]
    /\ req' = [req EXCEPT !.i = @ + 1, !.half = FALSE]
    /\ UNCHANGED <<drvState, timer, devVars, stopped, linkUp, cfgUp, nTxQ, txMem,
                   held>>

(* The first link starts the driver. *)
LinkUpEnd ==
    /\ req.op = "up"
    /\ req.i > Len(req.cfg)
    /\ \/ /\ drvState = "INITIALIZED"
          /\ timer' = TRUE
          /\ stopped' = [stopped EXCEPT ![req.d] = @ /\ ~ opened[req.d]]
          /\ drvState' = "RUNNING"
       \/ /\ drvState # "INITIALIZED"
          /\ UNCHANGED <<timer, stopped, drvState>>
    /\ req' = Idle
    /\ UNCHANGED <<devVars, linkUp, cfgUp, nTxQ, txq, txPrio, txMem, held>>

LinkUpSteps == LinkUpQueueBegin \/ LinkUpQueueEnd \/ LinkUpEnd

(* ------------------------------------------------------------------------------ *)
(* DoLinkDown *)

(* Mutant: all packets are freed before the channels are halted. *)
DoLinkDownFreesAll(d) ==
    /\ req = Idle
    /\ d \in table
    /\ cfgUp[d]
    /\ cfgUp' = [cfgUp EXCEPT ![d] = FALSE]
    /\ stopped' = [stopped EXCEPT ![d] = TRUE]
    /\ txq' = [txq EXCEPT ![d] = NoRings]
    /\ held' = held \ DevSkbs(d)
    /\ req' = [op |-> "down", d |-> d, step |-> "free"]
    /\ UNCHANGED <<drvState, timer, devVars, linkUp, nTxQ, txPrio, txMem>>

(* Stop the queue and release what has been transmitted. *)
DoLinkDown(d) ==
    /\ req = Idle
    /\ d \in table
    /\ cfgUp[d]
    /\ cfgUp' = [cfgUp EXCEPT ![d] = FALSE]
    /\ stopped' = [stopped EXCEPT ![d] = TRUE]
    /\ txq' = [txq EXCEPT ![d] = Reaped(d)]
    /\ held' = held \ Freed(d)
    /\ req' = [op |-> "down", d |-> d, step |-> "free"]
    /\ UNCHANGED <<drvState, timer, devVars, linkUp, nTxQ, txPrio, txMem>>

(* Halt the channels and free pTxQMem.  A skipped queue has no pDma: writing its  *)
(* cfg kills the thread.                                                          *)
LinkDownFree ==
    /\ req.op = "down" /\ req.step = "free"
    /\ \A i \in Live(req.d) : txq[req.d][i].bds
    /\ txq' = [txq EXCEPT ![req.d] =
                 [i \in 1 .. MaxTxQueues |-> [@[i] EXCEPT !.dma = "off"]]]
    /\ txMem' = [txMem EXCEPT ![req.d] = IF @ = "live" THEN "freed" ELSE @]
    /\ req' = [req EXCEPT !.step = "zero"]
    /\ UNCHANGED <<drvState, timer, devVars, stopped, linkUp, cfgUp, nTxQ, txPrio,
                   held>>

(* Mutant: the rings are left as they are. *)
LinkDownZeroKeepsRings ==
    /\ req.op = "down" /\ req.step = "zero"
    /\ txPrio' = [txPrio EXCEPT ![req.d] = NoPrio]
    /\ linkUp' = [linkUp EXCEPT ![req.d] = FALSE]
    /\ req' = [req EXCEPT !.step = "stop"]
    /\ UNCHANGED <<drvState, timer, devVars, stopped, cfgUp, nTxQ, txq, txMem, held>>

(* Zero the transmit state of the device; pTxQMem keeps its value. *)
LinkDownZero ==
    /\ req.op = "down" /\ req.step = "zero"
    /\ nTxQ' = [nTxQ EXCEPT ![req.d] = 0]
    /\ txq' = [txq EXCEPT ![req.d] = NoRings]
    /\ txPrio' = [txPrio EXCEPT ![req.d] = NoPrio]
    /\ linkUp' = [linkUp EXCEPT ![req.d] = FALSE]
    /\ req' = [req EXCEPT !.step = "stop"]
    /\ UNCHANGED <<drvState, timer, devVars, stopped, cfgUp, txMem, held>>

(* Mutant: one link that is down is enough. *)
SomeLinkDown == \E d \in table : ~ linkUp[d]

LastLinkDown == \A d \in table : ~ linkUp[d]

(* The last link stops the driver; the queue is woken in any case. *)
LinkDownEnd ==
    /\ req.op = "down" /\ req.step = "stop"
    /\ \/ /\ LastLinkDown
          /\ timer' = FALSE
          /\ drvState' = "INITIALIZED"
       \/ /\ ~ LastLinkDown
          /\ UNCHANGED <<timer, drvState>>
    /\ stopped' = [stopped EXCEPT ![req.d] = FALSE]
    /\ req' = Idle
    /\ UNCHANGED <<devVars, linkUp, cfgUp, nTxQ, txq, txPrio, txMem, held>>

LinkDownSteps == LinkDownFree \/ LinkDownZero \/ LinkDownEnd

(* ------------------------------------------------------------------------------ *)
TxNext ==
    \/ \E d \in Devs :
          \/ DoCreateDeviceReq(d) \/ DoDeleteDeviceReq(d) \/ SetAdminStatus(d)
          \/ Open(d) \/ Close(d) \/ Timeout(d)
          \/ \E s \in Skbs :
                \/ \E prio \in SubPrios : HardStartXmit(d, s, prio)
                \/ \E port \in Ports : DoSendCellReq(d, port, s)
          \/ \E i \in 1 .. MaxTxQueues : DmaTransmit(d, i)
          \/ \E cfg \in TxQConfigs : DoLinkUp(d, cfg)
          \/ DoLinkUpNoMem(d)
          \/ DoLinkDown(d)
    \/ TimerTick
    \/ LinkUpSteps
    \/ LinkDownSteps

TxSpec == TxInit /\ [][TxNext]_txVars

(* The timer fires: it is only held up, for a moment, where it would read a ring  *)
(* that is being built or freed.  A request runs to its end unless its thread     *)
(* dies, and the DMA engine works on the channels that are enabled.               *)
TxFairness ==
    /\ SF_txVars(TimerTick)
    /\ WF_txVars(LinkUpSteps \/ LinkDownSteps)
    /\ \A d \in Devs : \A i \in 1 .. MaxTxQueues : WF_txVars(DmaTransmit(d, i))

TxFairSpec == TxSpec /\ TxFairness

(* ------------------------------------------------------------------------------ *)
(* Properties *)

TxRing == [port : Nat, size : Nat, free : Nat, head : Nat, tail : Nat, hw : Nat,
           own : SUBSET Bds, skb : [Bds -> Skbs \cup {NULL}],
           dma : {"on", "off"}, bds : BOOLEAN]

Request ==
    {Idle}
    \cup [op : {"up"}, d : Devs, cfg : TxQConfigs, i : 1 .. MaxTxQueues + 1,
          half : BOOLEAN]
    \cup [op : {"down"}, d : Devs, step : {"free", "zero", "stop"}]

(* Type invariant of the transmit side. *)
TxTypeOK ==
    /\ drvState \in {"INITIALIZED", "RUNNING"}
    /\ timer \in BOOLEAN
    /\ created \subseteq Devs
    /\ table \subseteq created
    /\ admin \in [Devs -> BOOLEAN]
    /\ opened \in [Devs -> BOOLEAN]
    /\ stopped \in [Devs -> BOOLEAN]
    /\ linkUp \in [Devs -> BOOLEAN]
    /\ cfgUp \in [Devs -> BOOLEAN]
    /\ txMem \in [Devs -> {"null", "live", "freed"}]
    /\ held \subseteq Skbs
    /\ nTxQ \in [Devs -> 0 .. MaxTxQueues]
    /\ txq \in [Devs -> [1 .. MaxTxQueues -> TxRing]]
    /\ txPrio \in [Devs -> [0 .. MaxPhyPorts - 1 -> [SubPrios -> 0 .. MaxTxQueues]]]
    /\ req \in Request

(* The descriptors between ulHead and the DMA position are transmitted, those     *)
(* between the DMA position and ulTail belong to the DMA engine, and exactly      *)
(* these two groups carry a socket buffer: ulFreeBds, ulHead, ulTail, ppSkbs and  *)
(* the DMA_OWN bits of a ring never disagree, however xmit, the timer, the link   *)
(* requests and the DMA engine interleave.                                        *)
RingConsistent(r) ==
    /\ r.size <= MaxQueueSize /\ r.free <= r.size
    /\ r.head < r.size /\ r.tail = Slot(r, Used(r))
    /\ \E p \in 0 .. Used(r) :
          /\ r.hw = Slot(r, p)
          /\ r.own = {Slot(r, j) : j \in p .. Used(r) - 1}
    /\ \A i \in Bds :
          r.skb[i] # NULL <=> \E j \in 0 .. Used(r) - 1 : i = Slot(r, j)

TxRingsConsistent ==
    \A d \in Devs : \A i \in Live(d) :
        txq[d][i].bds => RingConsistent(txq[d][i])

(* A socket buffer sits in at most one descriptor of one ring, and only while the *)
(* driver has not freed it: no packet is freed twice and no descriptor points to  *)
(* a freed packet.                                                                *)
SkbInOnePlace ==
    \A d, e \in Devs : \A i \in Live(d), j \in Live(e) :
       \A a \in Bds, b \in Bds :
           LET s == txq[d][i].skb[a]
           IN  s # NULL => /\ s \in held
                           /\ s = txq[e][j].skb[b] => <<d, i, a>> = <<e, j, b>>

(* A packet is only freed once the DMA engine is done with it, and packets of a   *)
(* ring are freed in the order they were queued.                                  *)
FreedAfterTransmit ==
    [][\A d \in Devs : \A i \in Live(d) :
         LET r == txq[d][i]
         IN  \A j \in 0 .. Used(r) - 1 :
               (r.bds /\ r.skb[Slot(r, j)] \in held \ held')
                  => \A k \in 0 .. j : /\ Slot(r, k) \notin r.own
                                       /\ r.skb[Slot(r, k)] \notin held']_txVars

(* Outside a request the driver runs, with its timer pending, exactly when a      *)
(* device of the table has its link up.                                           *)
RunningIffLinkUp ==
    req = Idle => /\ drvState = "RUNNING" <=> \E d \in table : linkUp[d]
                  /\ timer <=> drvState = "RUNNING"

(* A packet queued on a link that stays up is freed in the end, with or without   *)
(* further transmissions, if the device got a place in the table of devices.      *)
QueuedIsFreed ==
    \A d \in Devs, s \in Skbs :
        (s \in DevSkbs(d) /\ linkUp[d] /\ d \in table)
            ~> (s \notin DevSkbs(d) \/ ~ cfgUp[d])

(* Every socket buffer the driver accepted and has not freed is in a descriptor   *)
(* of a ring: DoLinkDown says it frees "all packets in transmit queues".          *)
NoSkbLeak == \A s \in held : \E d \in Devs : s \in DevSkbs(d)

(* Whenever the timer may fire, the rings it would walk have their descriptors,   *)
(* unless a request is at work on that very device: DoLinkUp has stored a size    *)
(* and not yet the descriptors, or DoLinkDown has freed them and not yet zeroed   *)
(* the rings.  No order of requests leaves a stray ring behind.                   *)
StrayOnlyInRequest ==
    timer => \A d \in table : \A i \in Live(d) :
        StrayRing(d, txq[d][i]) =>
            req # Idle /\ req.d = d /\ (req.op = "down" => req.step = "zero")

(* A ring as the queue it implements: the packets in flight from ulHead on, and   *)
(* how many of them the DMA engine has transmitted.                               *)
AsQueue(r) ==
    IF ~ r.bds THEN [cap |-> 0, pkts |-> <<>>, sent |-> 0]
    ELSE [cap  |-> r.size,
          pkts |-> [j \in 1 .. Used(r) |-> r.skb[Slot(r, j - 1)]],
          sent |-> CHOOSE k \in Completed(r) : TRUE]

TxQueues == [d \in Devs |-> [i \in Live(d) |-> AsQueue(txq[d][i])]]

Fifo == INSTANCE TxFifo WITH FDevs <- Devs, FSkbs <- Skbs,
                        FMaxQueues <- MaxTxQueues, fifo <- TxQueues

(* The rings implement bounded first-in first-out queues that release transmitted *)
(* packets only.                                                                  *)
ImplementsFifo == Fifo!FSpec
==================================================================================
