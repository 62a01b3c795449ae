----------------------------- MODULE DeviceTick ----------------------------
(***************************************************************************)
(* devmgr_tick() of src/src/devices/devicemanager.c: after every           *)
(* instruction it calls only the devices that have work.  The CPU thread   *)
(* runs the pass; other host threads (telnet clients, the debugger, the    *)
(* ND-5000) put input into a device and set g_dev_tick_wanted while it     *)
(* runs.                                                                   *)
(*                                                                         *)
(* s_tick_list is kept in table order by construction, so it is a set of   *)
(* table places here, and "the next entry" is the smallest place not yet   *)
(* served.  g_dev_tick_wanted is the only word two threads write.  With    *)
(* StoreBuffer, a store of the CPU thread may become visible late, as a    *)
(* release store may on every processor the emulator is built for; without *)
(* it memory is sequentially consistent.                                   *)
(***************************************************************************)
EXTENDS Devices

CONSTANT StoreBuffer
ASSUME StoreBufferAssumption == StoreBuffer \in BOOLEAN

VARIABLES
  wanted,     \* g_dev_tick_wanted, as the memory holds it
  pending,    \* the CPU thread's store to it that is not visible yet: {} or {value}
  dirty,      \* g_dev_irq_dirty
  cache,      \* s_irq_bits
  inTickList, \* devices with inTickList set
  list,       \* s_tick_list
  listed,     \* s_tick_list_devices = deviceCount: the list has been built
  typed,      \* devices given input whose dev_request_tick() is still to come
  pc,         \* the CPU thread: "cpu", "take", "scan" or "loop"
  i,          \* the table place the scan looks at
  added,      \* devmgr_take_requests: a device joined
  removed,    \* devmgr_tick: a device left
  order       \* tickOrder of the device served last in this pass, 0 before the first

vars == <<delay, queue, irq, wanted, pending, dirty, cache, inTickList, list, listed,
          typed, pc, i, added, removed, order>>
listVars == <<inTickList, list, listed, added, removed>>
-----------------------------------------------------------------------------
(* A load of g_dev_tick_wanted by the CPU thread sees its own pending store. *)
Wanted == IF pending = {} THEN wanted ELSE TRUE \in pending

(* A store by the CPU thread. *)
Store(v) == IF StoreBuffer THEN pending' = {v} /\ UNCHANGED wanted
                           ELSE wanted' = v /\ UNCHANGED pending

(* dev_request_tick(), when asked, by the CPU thread. *)
RequestTick(asked) == IF asked THEN Store(TRUE) ELSE UNCHANGED <<wanted, pending>>

(* Where devmgr_rebuild_tick_list() gets its members from. *)
Members(joined) == Always \cup joined

Init ==
  /\ DevInit
  /\ wanted = TRUE /\ pending = {} /\ dirty = TRUE /\ cache = FALSE
  /\ inTickList = {} /\ list = {} /\ listed = FALSE
  /\ typed = {} /\ pc = "cpu" /\ i = 1 /\ added = FALSE /\ removed = FALSE /\ order = 0
-----------------------------------------------------------------------------
(* An instruction, on the CPU thread: an IOX that starts a transfer, ... *)
IoxDelay(d, t) ==
  /\ pc = "cpu" /\ QueueDelay(d, t) /\ Store(TRUE)
  /\ UNCHANGED <<dirty, cache, listVars, typed, pc, i, order>>

(* ... one that gives the device something to do in its Tick, ... *)
IoxWork(d) ==
  /\ pc = "cpu" /\ Arrives(d) /\ Store(TRUE)
  /\ UNCHANGED <<dirty, cache, listVars, typed, pc, i, order>>

(* ... or one that changes interruptBits, which calls dev_irq_changed(). *)
IoxIrq(d, b) ==
  /\ pc = "cpu" /\ SetIrq(d, b) /\ dirty' = TRUE
  /\ UNCHANGED <<wanted, pending, cache, listVars, typed, pc, i, order>>

(* The head of devmgr_tick(): the first time, the list is built. *)
BeginPass ==
  /\ pc = "cpu" /\ pc' = "take"
  /\ IF listed
       THEN UNCHANGED <<wanted, pending, dirty, listVars>>
       ELSE /\ inTickList' = {} /\ list' = Members({}) /\ listed' = TRUE
            /\ Store(TRUE) /\ dirty' = TRUE
            /\ UNCHANGED <<added, removed>>
  /\ UNCHANGED <<devVars, cache, typed, i, order>>

(* devmgr_take_requests(): leave, or clear the request and look at the table. *)
TakeRequests ==
  /\ pc = "take"
  /\ IF Wanted THEN pc' = "scan" /\ Store(FALSE)
               ELSE pc' = "loop" /\ UNCHANGED <<wanted, pending>>
  /\ UNCHANGED <<devVars, dirty, cache, listVars, typed, i, order>>

(* Its loop, one device at a time: other threads run in between. *)
ScanDevice ==
  /\ pc = "scan" /\ i \in Devs /\ i' = i + 1
  /\ IF i \notin Always \cup inTickList /\ HasWork(i)
       THEN inTickList' = inTickList \cup {i} /\ added' = TRUE
       ELSE UNCHANGED <<inTickList, added>>
  /\ UNCHANGED <<devVars, wanted, pending, dirty, cache, list, listed, removed, typed, pc, order>>

BadEndScan ==                   \* the list is rebuilt at the end of the pass only
  /\ pc = "scan" /\ i = N + 1 /\ pc' = "loop" /\ i' = 1
  /\ removed' = (removed \/ added) /\ added' = FALSE
  /\ UNCHANGED <<devVars, wanted, pending, dirty, cache, list, inTickList, listed, typed, order>>

BadClearLate ==                 \* the flag is cleared when the table has been looked at
  /\ pc = "scan" /\ i = N + 1 /\ pc' = "loop" /\ i' = 1
  /\ IF added THEN list' = Members(inTickList) /\ removed' = FALSE
              ELSE UNCHANGED <<list, removed>>
  /\ added' = FALSE /\ Store(FALSE)
  /\ UNCHANGED <<devVars, dirty, cache, inTickList, listed, typed, order>>

(* The rebuild when a device joined.  The pass goes on after the device it   *)
(* was on, whatever the list has become.                                     *)
EndScan ==
  /\ pc = "scan" /\ i = N + 1 /\ pc' = "loop" /\ i' = 1
  /\ IF added THEN list' = Members(inTickList) /\ removed' = FALSE
              ELSE UNCHANGED <<list, removed>>
  /\ added' = FALSE
  /\ UNCHANGED <<devVars, wanted, pending, dirty, cache, inTickList, listed, typed, order>>

Rest == {d \in list : d > order}

BadTickDevice(d, asked) ==      \* TickNeeded is not asked before the device leaves
  /\ pc = "loop" /\ d \in Rest /\ \A e \in Rest : d <= e
  /\ Ticks(d, asked) /\ RequestTick(asked)
  /\ dirty' = (dirty \/ irq' # irq)
  /\ IF d \in Always \/ delay'[d] > 0
       THEN UNCHANGED <<inTickList, removed>>
       ELSE inTickList' = inTickList \ {d} /\ removed' = TRUE
  /\ order' = d /\ pc' = "take"
  /\ UNCHANGED <<cache, list, listed, added, typed, i>>

(* The body of the loop: the device's Tick, then it leaves the list if it    *)
(* has nothing left.  A request made by its callback is looked at next.      *)
TickDevice(d, asked) ==
  /\ pc = "loop" /\ d \in Rest /\ \A e \in Rest : d <= e
  /\ Ticks(d, asked) /\ RequestTick(asked)
  /\ dirty' = (dirty \/ irq' # irq)
  /\ IF d \in Always \/ HasWork(d)'
       THEN UNCHANGED <<inTickList, removed>>
       ELSE inTickList' = inTickList \ {d} /\ removed' = TRUE
  /\ order' = d /\ pc' = "take"
  /\ UNCHANGED <<cache, list, listed, added, typed, i>>

BadEndPass ==                   \* the flag is cleared, the OR is not computed again
  /\ pc = "loop" /\ Rest = {} /\ pc' = "cpu" /\ order' = 0
  /\ list' = (IF removed THEN Members(inTickList) ELSE list) /\ removed' = FALSE
  /\ dirty' = FALSE /\ UNCHANGED cache
  /\ UNCHANGED <<devVars, wanted, pending, inTickList, listed, added, typed, i>>

(* The tail: drop the devices that left, compute the OR if a bit moved. *)
EndPass ==
  /\ pc = "loop" /\ Rest = {} /\ pc' = "cpu" /\ order' = 0
  /\ list' = (IF removed THEN Members(inTickList) ELSE list) /\ removed' = FALSE
  /\ dirty' = FALSE /\ cache' = IF dirty THEN AnyIrq ELSE cache
  /\ UNCHANGED <<devVars, wanted, pending, inTickList, listed, added, typed, i>>

(* The CPU thread's store reaches memory. *)
StoreVisible ==
  /\ pending # {} /\ wanted' = (TRUE \in pending) /\ pending' = {}
  /\ UNCHANGED <<devVars, dirty, cache, listVars, typed, pc, i, order>>

(* Another host thread: the input first, ... *)
HostInput(d) ==
  /\ d \notin typed /\ Arrives(d) /\ typed' = typed \cup {d}
  /\ UNCHANGED <<wanted, pending, dirty, cache, listVars, pc, i, order>>

(* ... then the request. *)
HostRequest(d) ==
  /\ d \in typed /\ typed' = typed \ {d} /\ wanted' = TRUE
  /\ UNCHANGED <<devVars, pending, dirty, cache, listVars, pc, i, order>>

Instruction ==
  \/ \E d \in Devs, t \in 1..MaxDelay : IoxDelay(d, t)
  \/ \E d \in Devs : IoxWork(d)
  \/ \E d \in Devs, b \in BOOLEAN : IoxIrq(d, b)

Pass ==
  \/ BeginPass \/ TakeRequests \/ ScanDevice \/ EndScan \/ EndPass
  \/ \E d \in Devs, asked \in BOOLEAN : TickDevice(d, asked)

Next ==
  \/ Instruction \/ Pass \/ StoreVisible
  \/ \E d \in Devs : HostInput(d) \/ HostRequest(d)

(* The CPU thread keeps running: instructions end and are followed by a pass, *)
(* and a store becomes visible.  A host thread that added input goes on.      *)
Fairness == WF_vars(Pass) /\ WF_vars(StoreVisible) /\ \A d \in Devs : WF_vars(HostRequest(d))

Spec == Init /\ [][Next]_vars /\ Fairness
-----------------------------------------------------------------------------
(* Types of the flags, the list and the program counter. *)
TypeOK ==
  /\ DevTypeOK
  /\ wanted \in BOOLEAN /\ pending \in {{}, {TRUE}, {FALSE}}
  /\ ~StoreBuffer => pending = {}
  /\ dirty \in BOOLEAN /\ cache \in BOOLEAN
  /\ inTickList \in SUBSET (Devs \ Always) /\ list \in SUBSET Devs /\ listed \in BOOLEAN
  /\ typed \in SUBSET Queued
  /\ pc \in {"cpu", "take", "scan", "loop"}
  /\ i \in 1..(N + 1) /\ added \in BOOLEAN /\ removed \in BOOLEAN /\ order \in 0..N

\* The scan under way will still look at d.
ToScan(d) == pc = "scan" /\ i <= d

(* A device with work is in the list, or a request for it stands, or the     *)
(* thread that gave it the work is about to make one: "a request that        *)
(* arrives while it is looking is never lost" (device.c).                    *)
NoRequestLost ==
  \A d \in Devs \ Always :
    HasWork(d) => d \in inTickList \/ Wanted \/ d \in typed \/ ToScan(d)

(* The saved OR is right whenever g_dev_irq_dirty is clear, although devices *)
(* are called at different times and IDENT changes bits between passes.      *)
IrqCoherent == ~dirty => cache = AnyIrq

(* The list is not visible: a delay started before or during a pass counts   *)
(* in exactly the passes, and in the order, in which the walk over the whole *)
(* table counted it.                                                         *)
Walk == INSTANCE TableWalk WITH walking <- pc # "cpu", at <- order, bits <- cache
ImplementsWalk == Walk!WalkSpec

(* Input is never left lying: the device it is for has its turn. *)
InputServed == \A d \in Queued : queue[d] > 0 ~> (order = d /\ pc = "take")

(* The invariant behind IrqCoherent and ImplementsWalk. *)
IInv ==
  /\ TypeOK
  /\ IrqCoherent
  /\ pc = "cpu" => order = 0 /\ ~removed
  /\ pc # "cpu" => listed
  /\ pc # "scan" => i = 1 /\ ~added
  /\ listed => Always \subseteq list
  /\ listed => \A d \in inTickList : d \in list \/ added
  /\ \A d \in Devs \ Always : delay[d] > 0 =>
        \/ d \in inTickList
        \/ ToScan(d)
        \/ pc \in {"cpu", "take"} /\ Wanted
=============================================================================
