------------------------------ MODULE Ethernet ------------------------------
(***************************************************************************)
(* The Ethernet card: the LANCE (src/src/devices/ethernet/eth_lance.c)     *)
(* with its two descriptor rings, its queue of received frames, the ring   *)
(* of the host's network thread in front of it (net/eth_net.c) and the     *)
(* card's registers on the ND-100 side (device_ethernet.c).  The firmware  *)
(* that owns the other half of the rings is external.  A frame is its      *)
(* number and the count of buffers it fills; addresses, filters, checksums *)
(* and loopback are left out, and so is the 68000.                         *)
(***************************************************************************)
EXTENDS Integers, Sequences, FiniteSets

CONSTANTS RingSize,     \* descriptors of either ring of the LANCE
          HostRing,     \* ETH_NET_RX_RING_SIZE
          LanceQueue,   \* LANCE_RX_QUEUE_SIZE
          FrameBuffers, \* bound: buffers a frame fills
          MaxFrames,    \* bound: frames of a behaviour
          EthRare       \* what the firmware may also do: see FillsDescriptor

ASSUME EthernetAssumption ==
  /\ {RingSize, HostRing, LanceQueue, FrameBuffers} \subseteq Nat \ {0}
  /\ FrameBuffers < RingSize /\ MaxFrames \in Nat
  /\ EthRare \subseteq {"first buffer first"}

VARIABLES
  lance,    \* registers, ring positions, pending poll
  rxd, txd, \* the descriptors, in memory
  rxQueue,  \* the LANCE's queue of received frames
  hostRing, \* the network thread's
  fw,       \* the firmware: its places in the rings, the frame it is filling, and
            \* how many it has given without asking for a poll
  ndSide,   \* the card's registers on the ND-100 side
  load,     \* what the behaviour is about: frames in, frames out, the ND-100 side
  wire      \* history: frames arrived, frames sent, frames the firmware took

ethVars == <<lance, rxd, txd, rxQueue, hostRing, fw, ndSide, load, wire>>

Places == 0 .. RingSize - 1
After(pos, n) == (pos + n) % RingSize
Empty == [own |-> FALSE, stp |-> FALSE, enp |-> FALSE, err |-> FALSE, frame |-> 0, part |-> 0]
Loads == {[in |-> MaxFrames, out |-> 0, nd |-> FALSE], [in |-> 0, out |-> MaxFrames, nd |-> FALSE],
          [in |-> 1, out |-> 1, nd |-> FALSE], [in |-> 0, out |-> 0, nd |-> TRUE]}

(* lance_reset() *)
Stopped ==
  [stop |-> TRUE, init |-> FALSE, rxon |-> FALSE, txon |-> FALSE, pending |-> FALSE, flags |-> {},
   inea |-> FALSE, irq |-> FALSE, rxpos |-> 0, txpos |-> 0]

EthInit ==
  /\ load \in Loads /\ lance = Stopped
  /\ rxd = [p \in Places |-> Empty] /\ txd = [p \in Places |-> Empty]
  /\ rxQueue = <<>> /\ hostRing = <<>>
  /\ fw = [rx |-> 0, tx |-> 0, fill |-> 0, left |-> 0, unasked |-> 0]
  /\ ndSide = [enabled |-> FALSE, scip |-> FALSE, bit |-> FALSE, reset |-> TRUE]
  /\ wire = [came |-> 0, made |-> 0, sent |-> 0, last |-> 0, whole |-> TRUE,
            taken |-> 0, part |-> -1]

(* lance_check_interrupts(); masking (CSR3) is left out. *)
Checked(l) == [l EXCEPT !.irq = l.inea /\ l.flags # {}]
-----------------------------------------------------------------------------
(* How many of the places from pos on, at most n, belong to the LANCE. *)
Owned(d, pos, n) ==
  CHOOSE k \in 0 .. n :
    /\ \A i \in 0 .. k - 1 : d[After(pos, i)].own
    /\ k = n \/ ~d[After(pos, k)].own

(* lance_receive_packet() and lance_receive_complete(): the frame goes into  *)
(* as many buffers as it needs, or as are left, which is an error the last   *)
(* of them carries; without any it is missed.                                *)
Receive(s, f) ==
  LET l == s.lance
      k == Owned(s.rxd, l.rxpos, f.size)
      Slot(i) == [own |-> FALSE, stp |-> i = 0, enp |-> i = f.size - 1,
                  err |-> i = k - 1 /\ k < f.size, frame |-> f.frame, part |-> i]
  IN IF ~l.rxon THEN s
     ELSE IF k = 0 THEN [s EXCEPT !.lance = Checked([l EXCEPT !.flags = @ \cup {"MISS", "RINT"}])]
     ELSE [lance |-> Checked([l EXCEPT !.flags = @ \cup {"RINT"}, !.rxpos = After(@, k)]),
           rxd |-> [p \in Places |->
                      LET i == (p - l.rxpos) % RingSize IN IF i < k THEN Slot(i) ELSE s.rxd[p]]]

(* lance_transmit_poll() and lance_transmit(): one frame, from its first to  *)
(* its last buffer; when the firmware has not given the next one yet, what   *)
(* there is goes out and the transmitter stops.                              *)
Given(l) ==
  LET own == Owned(txd, l.txpos, RingSize)
      ends == {i \in 0 .. own - 1 : txd[After(l.txpos, i)].enp}
  IN IF ends = {} THEN own ELSE 1 + CHOOSE i \in ends : \A j \in ends : i <= j
Polls(l) ==
  LET n == Given(l)
      d == txd[l.txpos]
      end == txd[After(l.txpos, n - 1)]
  IN IF ~l.txon \/ ~d.own
     THEN lance' = l /\ UNCHANGED <<txd, wire>>
     ELSE IF ~d.stp
     THEN /\ lance' = [l EXCEPT !.txpos = After(@, 1)]
          /\ txd' = [txd EXCEPT ![l.txpos].own = FALSE] /\ UNCHANGED wire
     ELSE /\ lance' = [l EXCEPT !.txpos = After(@, n), !.flags = @ \cup {"TINT"},
                                !.txon = end.enp, !.irq = l.inea]
          /\ txd' = [p \in Places |->
                       LET i == (p - l.txpos) % RingSize
                       IN [txd[p] EXCEPT !.own = @ /\ i >= n]]
          /\ wire' = [wire EXCEPT !.sent = @ + 1, !.last = d.frame,
                               !.whole = @ /\ end.enp /\ d.frame > wire.last]

(* lance_clock(): the queue is emptied, frame by frame, then a pending poll  *)
(* is made.                                                                  *)
Received[n \in 0 .. Len(rxQueue)] ==
  IF n = 0 THEN [lance |-> lance, rxd |-> rxd] ELSE Receive(Received[n - 1], rxQueue[n])
Clock ==
  LET r == Received[Len(rxQueue)]
      l == r.lance
  IN /\ rxd' = r.rxd
     /\ IF l.pending /\ l.txon THEN Polls([l EXCEPT !.pending = FALSE])
        ELSE lance' = l /\ UNCHANGED <<txd, wire>>

(* eth_tick(): the LANCE's clock, then eth_poll_network() takes frames from  *)
(* the host's ring while the LANCE's queue, now empty, has room.             *)
EthTick ==
  LET n == IF Len(hostRing) < LanceQueue THEN Len(hostRing) ELSE LanceQueue IN
  /\ Clock /\ rxQueue' = SubSeq(hostRing, 1, n)
  /\ hostRing' = SubSeq(hostRing, n + 1, Len(hostRing)) /\ UNCHANGED <<fw, ndSide, load>>

(* ring_put(), on the network thread: a full ring drops the frame. *)
FrameArrives ==
  /\ wire.came < load.in /\ wire' = [wire EXCEPT !.came = @ + 1]
  /\ \E size \in 1 .. FrameBuffers :
       hostRing' = IF Len(hostRing) >= HostRing THEN hostRing
                   ELSE Append(hostRing, [frame |-> wire.came + 1, size |-> size])
  /\ UNCHANGED <<lance, rxd, txd, rxQueue, fw, ndSide, load>>
-----------------------------------------------------------------------------
(* lance_write_csr0(): the firmware acknowledges causes, sets the interrupt  *)
(* enable and may ask for a transmit poll.                                   *)
WriteCsr0(acked, inea, demand) ==
  LET l == [lance EXCEPT !.flags = @ \ acked, !.inea = inea, !.pending = @ \/ demand] IN
  /\ ~lance.stop
  /\ IF demand THEN Polls(Checked(l)) ELSE lance' = Checked(l) /\ UNCHANGED <<txd, wire>>
  /\ fw' = [fw EXCEPT !.unasked = IF demand /\ @ > 0 THEN @ - 1 ELSE @]
  /\ UNCHANGED <<rxd, rxQueue, hostRing, ndSide, load>>

(* STOP, then INIT and STRT in one word: the firmware sets up its rings anew *)
(* with all receive buffers given.  Received frames that wait in the queue   *)
(* survive.                                                                  *)
LanceStop ==
  /\ ~lance.stop /\ lance' = Stopped
  /\ UNCHANGED <<rxd, txd, rxQueue, hostRing, fw, ndSide, wire, load>>
LanceStart ==
  /\ lance.stop /\ ~ndSide.reset
  /\ \E inea \in BOOLEAN :
       lance' = Checked([Stopped EXCEPT !.stop = FALSE, !.init = TRUE, !.rxon = TRUE, !.txon = TRUE,
                                        !.pending = TRUE, !.flags = {"IDON"}, !.inea = inea])
  /\ rxd' = [p \in Places |-> [Empty EXCEPT !.own = TRUE]] /\ txd' = [p \in Places |-> Empty]
  /\ fw' = [rx |-> 0, tx |-> 0, fill |-> 0, left |-> 0, unasked |-> 0]
  /\ wire' = [wire EXCEPT !.part = -1] /\ UNCHANGED <<rxQueue, hostRing, ndSide, load>>

(* The firmware (external) takes a filled buffer and gives it back. *)
TakesBuffer ==
  LET d == rxd[fw.rx]
      fits == IF d.stp THEN d.frame > wire.taken /\ wire.part = -1
              ELSE d.frame = wire.taken /\ d.part = wire.part
  IN /\ ~lance.stop /\ ~d.own /\ rxd' = [rxd EXCEPT ![fw.rx] = [Empty EXCEPT !.own = TRUE]]
     /\ fw' = [fw EXCEPT !.rx = After(@, 1)]
     /\ wire' = [wire EXCEPT !.taken = IF fits THEN d.frame ELSE -1,
                             !.part = IF d.enp \/ d.err THEN -1 ELSE d.part + 1]
     /\ UNCHANGED <<lance, txd, rxQueue, hostRing, ndSide, load>>

(* It begins a frame where the ring has room for all of it, and fills the    *)
(* buffers from the last to the first, which makes the frame visible all at  *)
(* once; from the first to the last only if EthRare says so.                 *)
BeginsFrame ==
  /\ ~lance.stop /\ fw.left = 0 /\ wire.made < load.out
  /\ \E n \in 1 .. FrameBuffers :
       /\ \A i \in 0 .. n - 1 : ~txd[After(fw.tx, i)].own
       /\ fw' = [fw EXCEPT !.fill = n, !.left = n]
  /\ wire' = [wire EXCEPT !.made = @ + 1]
  /\ UNCHANGED <<lance, rxd, txd, rxQueue, hostRing, ndSide, load>>
FillsDescriptor ==
  LET i == IF "first buffer first" \in EthRare THEN fw.fill - fw.left ELSE fw.left - 1 IN
  /\ ~lance.stop /\ fw.left > 0
  /\ txd' = [txd EXCEPT ![After(fw.tx, i)] =
               [own |-> TRUE, stp |-> i = 0, enp |-> i = fw.fill - 1, err |-> FALSE,
                frame |-> wire.made, part |-> i]]
  /\ fw' = IF fw.left > 1 THEN [fw EXCEPT !.left = @ - 1]
           ELSE [fw EXCEPT !.left = 0, !.tx = After(@, fw.fill), !.unasked = @ + 1]
  /\ UNCHANGED <<lance, rxd, rxQueue, hostRing, ndSide, wire, load>>

(* It writes CSR0 whenever it likes. *)
WritesCsr0 ==
  \E acked \in SUBSET lance.flags, inea, demand \in BOOLEAN : WriteCsr0(acked, inea, demand)
-----------------------------------------------------------------------------
(* eth_memory_map_on_nd_interrupt(): the firmware interrupts the ND-100. *)
NdInterrupt ==
  /\ load.nd /\ ~ndSide.reset
  /\ ndSide' = [ndSide EXCEPT !.scip = TRUE, !.bit = @ \/ ndSide.enabled]
  /\ UNCHANGED <<lance, rxd, txd, rxQueue, hostRing, fw, wire, load>>

(* eth_write() of the control word: the bit follows the enable while an      *)
(* interrupt is pending; a reset that begins resets memory and LANCE.        *)
EthControl(enable, reset) ==
  /\ ndSide' = [enabled |-> enable, reset |-> reset,
                bit |-> IF ndSide.scip THEN enable ELSE ndSide.bit,
                scip |-> ndSide.scip /\ (ndSide.reset \/ ~reset)]
  /\ lance' = (IF reset /\ ~ndSide.reset THEN Stopped ELSE lance)
  /\ UNCHANGED <<rxd, txd, rxQueue, hostRing, fw, wire, load>>

(* eth_ident() and eth_reset(); the latter leaves the interrupt bit alone. *)
EthIdent ==
  /\ ndSide.bit /\ ndSide' = [ndSide EXCEPT !.enabled = FALSE, !.scip = FALSE, !.bit = FALSE]
  /\ UNCHANGED <<lance, rxd, txd, rxQueue, hostRing, fw, wire, load>>
EthReset ==
  /\ ndSide' = [ndSide EXCEPT !.enabled = FALSE, !.scip = FALSE, !.reset = TRUE] /\ lance' = Stopped
  /\ UNCHANGED <<rxd, txd, rxQueue, hostRing, fw, wire, load>>

EthNext ==
  \/ EthTick \/ FrameArrives \/ LanceStop \/ LanceStart \/ TakesBuffer \/ BeginsFrame
  \/ FillsDescriptor \/ WritesCsr0 \/ NdInterrupt \/ EthIdent \/ EthReset
  \/ \E reset \in BOOLEAN, enable \in {FALSE, load.nd} : EthControl(enable, reset)
EthSpec == EthInit /\ [][EthNext]_ethVars
-----------------------------------------------------------------------------
(* Received frames reach the firmware in order and with all their buffers,   *)
(* or with the error mark; frames it sends go out whole, once and in order,  *)
(* and none stays behind once it has asked for as many polls as it has given *)
(* frames.                                                                   *)
EthInOrder ==
  /\ wire.taken # -1 /\ wire.whole
  /\ lance.txon /\ fw.unasked = 0 => ~txd[lance.txpos].own

(* The interrupt line of the LANCE follows from its registers, and a pending *)
(* interrupt of the card has reached the ND-100 if it may.                   *)
EthTold ==
  /\ lance.irq = (lance.inea /\ lance.flags # {})
  /\ ndSide.scip /\ ndSide.enabled => ndSide.bit
=============================================================================
