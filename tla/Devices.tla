------------------------------ MODULE Devices ------------------------------
(***************************************************************************)
(* What one turn of a device does, whoever calls it: the part of           *)
(* src/src/devices/device.c (I/O delays and interrupt bits) and of a       *)
(* device's own Tick that devmgr_tick() depends on.  Devices are numbered  *)
(* by their place in the device table.  A device has at most one I/O delay *)
(* running and one interrupt level; MaxDelay and MaxInput bound a delay    *)
(* and an input queue.                                                     *)
(***************************************************************************)
EXTENDS Integers

CONSTANTS N,          \* devices in the table
          Always,     \* devices with tickAlways: RTC, HDLC, Ethernet
          Queued,     \* devices with TickNeeded: terminal, SCSI, octobus
          MaxDelay, MaxInput

Devs == 1..N

ASSUME DevicesAssumption ==
  /\ N \in Nat /\ MaxDelay \in Nat \ {0} /\ MaxInput \in Nat
  /\ Always \subseteq Devs
  /\ Queued \subseteq Devs \ Always

VARIABLES
  delay,      \* ticks left on a device's I/O delay, 0 when it has none
  queue,      \* input waiting in a device: what its TickNeeded looks at
  irq         \* the device's interruptBits

devVars == <<delay, queue, irq>>

DevTypeOK ==
  /\ delay \in [Devs -> 0..MaxDelay]
  /\ queue \in [Devs -> 0..MaxInput]
  /\ irq \in [Devs -> BOOLEAN]

DevInit ==
  /\ delay = [d \in Devs |-> 0]
  /\ queue = [d \in Devs |-> 0]
  /\ irq = [d \in Devs |-> FALSE]

(* devmgr_has_work() *)
HasWork(d) == delay[d] > 0 \/ queue[d] > 0

(* dev_tick_io_delay(): count down; at zero the callback runs, and may queue *)
(* another delay (asked).  One queued on the device itself is counted in the *)
(* same loop, so it has lost one tick when the loop ends.                    *)
DelayTicks(d, asked) ==
  \/ ~asked /\ delay' = [delay EXCEPT ![d] = IF @ = 0 THEN 0 ELSE @ - 1]
  \/ delay[d] = 1 /\ asked /\ \E t \in 2..MaxDelay : delay' = [delay EXCEPT ![d] = t - 1]
  \/ /\ delay[d] = 1 /\ asked
     /\ \E e \in Devs \ {d}, t \in 1..MaxDelay :
          delay[e] = 0 /\ delay' = [delay EXCEPT ![d] = 0, ![e] = t]

(* A device's Tick: its delays, then at most one unit of waiting input, and  *)
(* the interrupt the device finds right.                                     *)
Ticks(d, asked) ==
  /\ DelayTicks(d, asked)
  /\ queue' \in {queue, [queue EXCEPT ![d] = IF @ = 0 THEN 0 ELSE @ - 1]}
  /\ \E b \in BOOLEAN : irq' = [irq EXCEPT ![d] = b]

(* dev_queue_io_delay() from an IOX. *)
QueueDelay(d, t) == delay[d] = 0 /\ delay' = [delay EXCEPT ![d] = t] /\ UNCHANGED <<queue, irq>>

(* dev_generate_interrupt(), device_clear_interrupt() and IDENT. *)
SetIrq(d, b) == irq[d] # b /\ irq' = [irq EXCEPT ![d] = b] /\ UNCHANGED <<delay, queue>>

(* Input for a device: terminal_queue_key_code(), mfbus_work_set(), or an    *)
(* IOX that starts the SCSI controller.                                      *)
Arrives(d) ==
  /\ d \in Queued /\ queue[d] < MaxInput
  /\ queue' = [queue EXCEPT ![d] = @ + 1]
  /\ UNCHANGED <<delay, irq>>

(* The OR of every device's interruptBits. *)
AnyIrq == \E d \in Devs : irq[d]
=============================================================================
