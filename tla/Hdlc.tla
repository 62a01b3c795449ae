-------------------------------- MODULE Hdlc --------------------------------
(***************************************************************************)
(* The DMA side of the HDLC controller (src/src/devices/hdlc): the         *)
(* receiver walks a list of blocks in the ND-100's memory and fills them,  *)
(* the transmitter sends a list of blocks, both from the device's tick,    *)
(* against the driver that owns the lists (external).  A block is an index *)
(* of the list, its key "empty" or "full"; the receive list ends with a    *)
(* "new list" key.  The receiver works on a copy of the key it has loaded. *)
(* Left out: the COM5025's bits, modem lines, displacements, bytes.        *)
(***************************************************************************)
EXTENDS Integers, Sequences, FiniteSets

CONSTANTS RxBlocks,     \* blocks of the receive list before its end
          MaxRxFrames,  \* bound: frames that arrive
          MaxRxBuf,     \* bound: frames in tcpReceiveBuffer
          MaxTxLists,   \* bound: transmit lists
          HdlcRare      \* what the driver and the line are spared: see HdlcAssumption

ASSUME HdlcAssumption ==
  /\ RxBlocks \in Nat \ {0} /\ MaxRxFrames \in Nat /\ MaxRxBuf \in Nat /\ MaxTxLists \in Nat
  /\ HdlcRare \subseteq {"damaged frame",      \* the check sum of a frame is wrong
                         "blocks first",       \* blocks are given back, then the status is read
                         "resumes midway",     \* CONTINUE at the driver's place in the list
                         "enables last"}       \* interrupts enabled after blocks are looked at

VARIABLES
  hrx,    \* the receiver: control, status, list and its copy of the block's key
  hmem,   \* the receive list in memory: keys and what the blocks hold
  hdrv,   \* the driver of the receiver: where it is, its place in the list, blocks taken
  htx,    \* the transmitter
  hline   \* frames that have come, frames that have gone

hdlcVars == <<hrx, hmem, hdrv, htx, hline>>

Blocks == 0..(RxBlocks - 1)
EndBlock == RxBlocks

HdlcInit ==
  /\ hrx = [ctl |-> {}, st |-> {}, irq |-> FALSE, buf |-> <<>>, ptr |-> 0, off |-> 0, dcb |-> "none"]
  /\ hmem = [key |-> [b \in Blocks \cup {EndBlock} |-> IF b = EndBlock THEN "new list" ELSE "empty"],
             held |-> [b \in Blocks |-> <<0, 0>>]]
  /\ hdrv = [at |-> "fresh", pos |-> 0, took |-> <<>>]
  /\ htx = [ctl |-> {}, st |-> {}, irq |-> FALSE, sender |-> "stopped", counts |-> FALSE,
            list |-> <<>>, at |-> "idle", lists |-> 0]
  /\ hline = [come |-> 0, gone |-> <<>>]
-----------------------------------------------------------------------------
(* The receiver, as functions of s = [r |-> hrx, m |-> hmem].                *)
At(s) == s.r.ptr + s.r.off
(* dmacb_load_rx_buffer() *)
LoadRx(s) == [s EXCEPT !.r.dcb = s.m.key[At(s)]]
(* dmacb_load_next_rx_buffer(): at the end of the list the offset is 0 again. *)
LoadNextRx(s) ==
  LET next == LoadRx([s EXCEPT !.r.off = @ + 1])
  IN  IF next.r.dcb = "new list" THEN LoadRx([next EXCEPT !.r.off = 0]) ELSE next

(* dma_receiver_set_rxdma_flag(): "empty" stops the receiver, and is set     *)
(* whenever the next place in the list, its end included, has no empty block. *)
FlagStatus(s, flags) ==
  LET told == flags \cup (IF s.m.key[At(s) + 1] # "empty" THEN {"empty"} ELSE {})
      stopped == IF "empty" \in flags THEN s.r.st \ {"active"} ELSE s.r.st
      asks == "empty" \in told \/ ("ends" \in s.r.ctl /\ "end" \in stopped \cup told)
  IN  stopped \cup told \cup (IF asks THEN {"request"} ELSE {})
SetRxFlag(s, flags) ==
  LET status == FlagStatus(s, flags)
  IN  [s EXCEPT !.r.st = status, !.r.irq = @ \/ ("ie" \in s.r.ctl /\ "request" \in status)]

(* dmacb_mark_buffer_received() *)
Mark(s, piece) == [s EXCEPT !.m.key[At(s)] = "full", !.m.held[At(s)] = piece, !.r.dcb = "full"]

(* dma_receiver_process_complete_frame(): a frame that takes two blocks may  *)
(* find only one, and one with a wrong check sum takes none.                 *)
EndOfFrame(s) == SetRxFlag(s, {"end", "active"})
ProcessFrame(s, f) ==
  LET first == SetRxFlag(Mark(s, <<f.n, 1>>), {"end", "active"})
      second == LoadNextRx(first)
  IN  CASE ~f.good -> s
        [] f.good /\ f.size = 1 -> EndOfFrame(Mark(s, <<f.n, 0>>))
        [] OTHER -> IF second.r.dcb = "empty" THEN EndOfFrame(Mark(second, <<f.n, 2>>))
                    ELSE SetRxFlag(SetRxFlag(second, {"empty"}), {"empty", "overrun"})

(* dma_receiver_process_buffered_data(): one frame, if there is a block for   *)
(* it.  Whether the receiver is active is not asked.                          *)
ProcessBuffered(s) ==
  LET found == IF s.r.dcb = "empty" THEN s ELSE LoadNextRx(s)
      after == LoadNextRx(ProcessFrame([found EXCEPT !.r.buf = Tail(@)], Head(s.r.buf)))
  IN  IF found.r.dcb # "empty" THEN SetRxFlag(found, {"empty", "overrun"})
      ELSE IF after.r.dcb = "empty" THEN after ELSE SetRxFlag(after, {"empty"})

Now == [r |-> hrx, m |-> hmem]
Become(s) == hrx' = s.r /\ hmem' = s.m

(* dma_rx_tick().  The pauses between two frames are any time. *)
RxTick ==
  /\ hrx.buf # <<>> /\ "dma" \in hrx.ctl /\ hrx.dcb # "none"
  /\ Become(ProcessBuffered(Now)) /\ UNCHANGED <<hdrv, htx, hline>>

(* modem_tick() gives a frame to hdlc_on_modem_received_data(), which drops   *)
(* it while the receiver is not active.                                       *)
FrameComes(size, good) ==
  /\ hline.come < MaxRxFrames /\ Len(hrx.buf) < MaxRxBuf
  /\ good \/ "damaged frame" \in HdlcRare
  /\ hline' = [hline EXCEPT !.come = @ + 1]
  /\ hrx' = IF "active" \notin hrx.st THEN hrx
            ELSE [hrx EXCEPT !.buf = Append(@, [n |-> hline.come + 1, size |-> size, good |-> good])]
  /\ UNCHANGED <<hmem, hdrv, htx>>
-----------------------------------------------------------------------------
(* dma_engine_command_receiver_start() and _continue(), which are the same:   *)
(* dmacb_set_rx_pointer() and dma_rx_set_receiver_state().                    *)
ReceiverStart(s, block) ==
  LET loaded == LoadRx([s EXCEPT !.r.ptr = block, !.r.off = 0, !.r.ctl = @ \cup {"dma"},
                                 !.r.st = (@ \ {"empty", "overrun"}) \cup {"active"}])
      next == LoadNextRx(loaded)
  IN  IF loaded.r.dcb = "empty" THEN loaded
      ELSE IF next.r.dcb = "empty" THEN next ELSE SetRxFlag(next, {"empty"})

GivenBack(s, blocks) ==
  [s EXCEPT !.m.key = [b \in DOMAIN @ |-> IF b \in blocks THEN "empty" ELSE @[b]]]

DriverStarts ==
  /\ hdrv.at = "fresh" /\ Become(ReceiverStart(GivenBack(Now, Blocks), 0))
  /\ hdrv' = [hdrv EXCEPT !.at = "enables", !.pos = 0] /\ UNCHANGED <<htx, hline>>

(* hdlc_write(), receiver transfer control. *)
DriverEnables ==
  /\ hdrv.at \in {"enables", "identified"} /\ hrx' = [hrx EXCEPT !.ctl = {"dma", "ie", "ends"}]
  /\ hdrv' = [hdrv EXCEPT !.at = IF "enables last" \in HdlcRare /\ hdrv.at = "enables"
                                 THEN "waits" ELSE "looks"]
  /\ UNCHANGED <<hmem, htx, hline>>

(* The full blocks from the driver's place on, in the order of the list. *)
Ring(i) == (hdrv.pos + i) % RxBlocks
Run == CHOOSE k \in 0..RxBlocks :
         /\ \A i \in 0..(k - 1) : hmem.key[Ring(i)] = "full"
         /\ k = RxBlocks \/ hmem.key[Ring(k)] # "full"
Taken == [i \in 1..Run |-> hmem.held[Ring(i - 1)]]
\* A first block without its second, when the list ran out.
WithoutRest(blocks) ==
  IF blocks # <<>> /\ blocks[Len(blocks)][2] = 1 THEN SubSeq(blocks, 1, Len(blocks) - 1) ELSE blocks

(* The driver reads the status (hdlc_read() clears it), takes what has come   *)
(* and gives the blocks back; when the list was empty it begins it anew.      *)
StatusRead(s) == [s EXCEPT !.r.st = @ \ {"request", "end", "empty"}]
DriverLooks ==
  LET blocks == {Ring(i) : i \in 0..(Run - 1)}
      after == IF "enables last" \in HdlcRare THEN "enables" ELSE "waits"
      took == WithoutRest(hdrv.took \o Taken)
  IN  /\ hdrv.at = "looks" /\ UNCHANGED <<htx, hline>>
      /\ \/ /\ "empty" \notin hrx.st \/ "blocks first" \in HdlcRare
            /\ hdrv' = [hdrv EXCEPT !.pos = Ring(Run), !.took = @ \o Taken,
                                    !.at = IF "empty" \in hrx.st THEN "looks" ELSE after]
            /\ Become(IF "empty" \in hrx.st THEN GivenBack(Now, blocks)
                      ELSE StatusRead(GivenBack(Now, blocks)))
         \/ /\ "empty" \in hrx.st
            /\ LET place == IF "resumes midway" \in HdlcRare THEN Ring(Run) ELSE 0
               IN  /\ Become(ReceiverStart(StatusRead(GivenBack(Now, blocks)), place))
                   /\ hdrv' = [hdrv EXCEPT !.pos = place, !.took = took, !.at = after]

(* hdlc_ident(), level 13 *)
RxIdent ==
  /\ hrx.irq /\ hdrv.at = "waits"
  /\ hrx' = [hrx EXCEPT !.irq = FALSE, !.ctl = @ \ {"ie"}]
  /\ hdrv' = [hdrv EXCEPT !.at = IF "enables last" \in HdlcRare THEN "looks" ELSE "identified"]
  /\ UNCHANGED <<hmem, htx, hline>>

(* A device clear: hdlc_reset() leaves the DMA engine and the interrupt bits. *)
DeviceClear ==
  /\ hdrv.at # "cleared" /\ hdrv' = [hdrv EXCEPT !.at = "cleared"]
  /\ hrx' = [hrx EXCEPT !.ctl = {}, !.st = {}]
  /\ htx' = [htx EXCEPT !.ctl = {}, !.st = {}, !.at = "cleared"]
  /\ UNCHANGED <<hmem, hline>>
(* dma_engine_command_device_clear(): dma_rx_clear(), dmacb_clear(). *)
DmaClear ==
  /\ hdrv.at = "cleared" /\ hdrv' = [hdrv EXCEPT !.at = "fresh", !.took = WithoutRest(@)]
  /\ hrx' = [hrx EXCEPT !.buf = <<>>, !.ptr = 0, !.off = 0, !.dcb = "none"]
  /\ htx' = [htx EXCEPT !.list = <<>>, !.at = "idle"] /\ UNCHANGED <<hmem, hline>>

ReceiverNext ==
  \/ RxTick \/ \E size \in 1..2, good \in BOOLEAN : FrameComes(size, good)
  \/ DriverStarts \/ DriverEnables \/ DriverLooks \/ RxIdent
  \/ DeviceClear \/ DmaClear
-----------------------------------------------------------------------------
(* The transmitter.  A list is a sequence of blocks, the first of them perhaps *)
(* sent already; last marks the end of a frame.                               *)
TxLists == {<<[key |-> "send", last |-> TRUE]>>,
            <<[key |-> "sent", last |-> TRUE], [key |-> "send", last |-> TRUE]>>,
            <<[key |-> "send", last |-> FALSE], [key |-> "send", last |-> TRUE]>>,
            <<[key |-> "send", last |-> TRUE], [key |-> "send", last |-> TRUE]>>}

(* dma_engine_command_transmitter_start() *)
TransmitterStart(list) ==
  /\ htx.at = "idle" /\ htx.lists < MaxTxLists
  /\ htx' = [htx EXCEPT !.list = list, !.sender = "ready", !.counts = TRUE, !.at = "started",
                        !.lists = @ + 1]
  /\ UNCHANGED <<hrx, hmem, hdrv, hline>>

(* hdlc_write(), transmitter transfer control: an end that came while its     *)
(* interrupt was off is told now.                                             *)
TransmitterEnable ==
  /\ htx.at = "started"
  /\ htx' = [htx EXCEPT !.ctl = {"tx", "dma", "ie"}, !.at = "waits",
                        !.irq = @ \/ "request" \in htx.st]
  /\ UNCHANGED <<hrx, hmem, hdrv, hline>>

(* dma_tx_tick() and dma_transmitter_send_all_buffers(): blocks sent already  *)
(* are passed over, the others are sent in one go.                            *)
Sent == [i \in DOMAIN htx.list |-> [htx.list[i] EXCEPT !.key = "sent"]]
FrameEnds == {i \in DOMAIN htx.list : htx.list[i].key = "send" /\ htx.list[i].last}
TxTick ==
  /\ htx.sender = "ready" /\ htx.counts /\ {"tx", "dma"} \subseteq htx.ctl
  /\ IF htx.list = <<>> THEN htx' = [htx EXCEPT !.counts = FALSE] /\ UNCHANGED hline
     ELSE /\ htx' = [htx EXCEPT !.list = Sent, !.sender = "stopped", !.counts = FALSE,
                                !.ctl = @ \ {"tx"}, !.st = @ \cup {"request"},
                                !.irq = @ \/ "ie" \in htx.ctl]
          /\ \E f \in [1..Cardinality(FrameEnds) -> FrameEnds] :
               /\ \A i, j \in DOMAIN f : i < j => f[i] < f[j]
               /\ hline' = [hline EXCEPT !.gone = @ \o [i \in DOMAIN f |-> <<htx.lists, f[i]>>]]
  /\ UNCHANGED <<hrx, hmem, hdrv>>

(* hdlc_ident(), level 12, and the status that is read then. *)
TxIdent ==
  /\ htx.irq /\ htx.at = "waits"
  /\ htx' = [htx EXCEPT !.irq = FALSE, !.ctl = @ \ {"ie"}, !.at = "identified"]
  /\ UNCHANGED <<hrx, hmem, hdrv, hline>>
TxStatus ==
  /\ htx.at = "identified" /\ htx' = [htx EXCEPT !.st = @ \ {"request"}, !.at = "idle"]
  /\ UNCHANGED <<hrx, hmem, hdrv, hline>>

TransmitterNext ==
  \/ \E list \in TxLists : TransmitterStart(list)
  \/ TransmitterEnable \/ TxTick \/ TxIdent \/ TxStatus \/ DeviceClear \/ DmaClear

(* Both directions of a card, each at its own pace. *)
HdlcNext == ReceiverNext \/ TransmitterNext
HdlcSpec == HdlcInit /\ [][HdlcNext]_hdlcVars
-----------------------------------------------------------------------------
(* The blocks reach the driver in the order of the frames, whole frames only, *)
(* none twice, however often the list runs out; frames leave in order and     *)
(* once.                                                                      *)
HdlcInOrder ==
  /\ \A i \in 1..(Len(hdrv.took) - 1) :
       LET a == hdrv.took[i]  b == hdrv.took[i + 1]
       IN  IF a[2] = 1 THEN b = <<a[1], 2>> ELSE b[1] > a[1] /\ b[2] # 2
  /\ \A i \in 1..(Len(hline.gone) - 1) :
       LET a == hline.gone[i]  b == hline.gone[i + 1]
       IN  b[1] > a[1] \/ (b[1] = a[1] /\ b[2] > a[2])

(* A driver that waits has been told of the block it waits for, and that its  *)
(* list is empty; one that waits for its list to be sent has been told so, or *)
(* it will be.                                                                *)
HdlcTold ==
  /\ hdrv.at = "waits" /\ (hmem.key[hdrv.pos] = "full" \/ "empty" \in hrx.st) => hrx.irq
  /\ htx.at = "waits" /\ ~htx.irq => htx.sender = "ready" /\ htx.counts /\ "tx" \in htx.ctl
=============================================================================
