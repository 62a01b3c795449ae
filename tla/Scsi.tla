-------------------------------- MODULE Scsi --------------------------------
(***************************************************************************)
(* The SCSI adapter (src/src/devices/scsi/device_scsi.c) with its NCR 5386 *)
(* (ncr5386.c), the bus (scsi_bus.c) and one target (scsi_device.c, with   *)
(* the commands of scsi_hdd.c and scsi_tape.c as plans).  Chip and target  *)
(* are two state machines that meet on the bus lines.  A write to a line   *)
(* calls the other end back before it returns (scsi_bus_regen_ctrl), so    *)
(* the steps are functions from state to state, nested as the calls are.   *)
(* Bytes are their numbers in the data phase, so that a byte lost, doubled *)
(* or mixed shows.  The program that drives the adapter is external: it    *)
(* follows the phases, may clear the adapter at any time, and then resets  *)
(* the bus.  Sense data, addresses, diagnostics, reselection (which no     *)
(* target asks for) and the second target of a bus are left out.           *)
(***************************************************************************)
EXTENDS Integers, Sequences

CONSTANTS DataBytes,      \* bound: bytes of a data phase, and of a transfer count
          CommandBytes,   \* bytes of a command: scsi_target_command_done()
          ScsiRare        \* what a program may also do: see Clear and BusReset

ASSUME ScsiAssumption ==
  /\ {DataBytes, CommandBytes} \subseteq Nat \ {0}
  /\ ScsiRare \subseteq {"clear with a request", "reset alone"}

VARIABLES
  scsi,   \* adapter, chip, bus lines and target
  prog    \* the driving program: where it is, causes it has read, bytes it moves itself

scsiVars == <<scsi, prog>>

Off == -1         \* a timer that is not running
Mixed == -1       \* two ends drive the data lines
OwnId == -2       \* the chip's own bit on the data lines
WithTarget == -3  \* its bit and the target's
Bad == -4         \* history: a byte that was not the next one

(* Phases, as the lines under S_PHASE_MASK. *)
PhaseLines == {"MSG", "CD", "IO"}
DataOut == {}
DataIn == {"IO"}
Command == {"CD"}
Status == {"CD", "IO"}
MessageOut == {"MSG", "CD"}
MessageIn == {"MSG", "CD", "IO"}

(* What scsi_command() queues: data in or out, of any length, or none; then  *)
(* status, message and bus free (scsi_device_status_complete).  A tape that  *)
(* ends the phase early (scsi_device_end_data_phase) has a shorter one.      *)
Plans == {<<>>} \cup {<<[act |-> a, size |-> k]>> : a \in {"in", "out"}, k \in 0 .. DataBytes}
Complete == << [act |-> "status", size |-> 0], [act |-> "message", size |-> 0],
               [act |-> "free", size |-> 0] >>

ScsiInit ==
  /\ scsi = [nLines |-> {}, tLines |-> {}, nData |-> 0, tData |-> 0,
             chip |-> "disconnected", state |-> "idle", cmd |-> "reset", loaded |-> FALSE,
             single |-> FALSE, dma |-> FALSE, count |-> 0, sbx |-> FALSE, full |-> FALSE,
             byte |-> 0, phase |-> {}, int |-> {}, mint |-> FALSE, dreq |-> FALSE,
             timer |-> Off, stall |-> FALSE, dest |-> FALSE,
             target |-> "idle", sub |-> "none", queue |-> <<>>, pos |-> 0, size |-> 0,
             tTimer |-> FALSE, tWait |-> {"SEL", "BSY", "RST"}, plan |-> <<>>,
             active |-> FALSE, enabled |-> FALSE, ready |-> FALSE, dmaOn |-> FALSE,
             write |-> FALSE, intNcr |-> FALSE, dataReq |-> FALSE, irq |-> FALSE,
             got |-> 0, put |-> 0, taken |-> 0]
  /\ prog = [at |-> "idle", seen |-> {}, left |-> 0, in |-> FALSE]

Ctrl(s) == s.nLines \cup s.tLines
Phase(s) == Ctrl(s) \cap PhaseLines
BusData(s) == IF s.nData = 0 THEN s.tData ELSE IF s.tData = 0 THEN s.nData ELSE Mixed
-----------------------------------------------------------------------------
(* NCR_UpdateInt() and scsi_on_ncr_interrupt(), which only takes a rising    *)
(* interrupt; a rising one also forgets the flags of the command.            *)
UpdateInt(s) ==
  LET on == s.int # {} IN
  IF s.mint = on THEN s
  ELSE [s EXCEPT !.mint = on, !.intNcr = @ \/ on, !.single = @ /\ ~on, !.dma = @ /\ ~on]
Interrupt(s, cause) == UpdateInt([s EXCEPT !.int = @ \cup {cause}])

(* NCR_SetDreq() and scsi_on_ncr_data_request() *)
SetDreq(s, on) == IF s.dreq = on THEN s ELSE [s EXCEPT !.dreq = on, !.dataReq = on]

(* NCR_CtrlChanged(): a bus in use wakes the chip up, a bus that has become  *)
(* free disconnects it.                                                      *)
NcrCtrlChanged(s) ==
  IF "BSY" \in Ctrl(s)
  THEN IF "SEL" \notin Ctrl(s) /\ s.state # "idle" THEN [s EXCEPT !.timer = 0] ELSE s
  ELSE IF s.chip = "initiator"
       THEN Interrupt([s EXCEPT !.chip = "disconnected"], "disconnected") ELSE s

(* scsi_bus_control_write() by the target: the chip waits for every line. *)
TargetWrite(s, on, off) ==
  LET w == [s EXCEPT !.tLines = (@ \ off) \cup on] IN
  IF Ctrl(w) = Ctrl(s) THEN w ELSE NcrCtrlChanged(w)
SetPhase(s, phase) == TargetWrite(s, phase, PhaseLines)
-----------------------------------------------------------------------------
(* scsi_device_device_reset() *)
TargetReset(s) ==
  [TargetWrite([s EXCEPT !.target = "idle", !.sub = "none", !.queue = <<>>, !.pos = 0,
                         !.size = 0, !.tTimer = FALSE, !.tData = 0],
               {}, {"BSY", "REQ"} \cup PhaseLines)
   EXCEPT !.tWait = {"SEL", "BSY", "RST"}]

(* scsi_target_put_data(), with the check that the byte is the next one. *)
Stored(s) ==
  [s EXCEPT !.pos = @ + 1,
            !.taken = IF Phase(s) # DataOut THEN @
                      ELSE IF s.cmd = "pad" \/ BusData(s) = @ + 1 THEN @ + 1 ELSE Bad]

(* The states of scsi_target_step() in which REQ is on. *)
Acknowledged(s) ==
  IF "ACK" \notin Ctrl(s) THEN s
  ELSE IF s.sub = "recv1" THEN TargetWrite([Stored(s) EXCEPT !.sub = "recv0"], {}, {"REQ"})
  ELSE TargetWrite([s EXCEPT !.sub = "send0", !.tData = 0], {}, {"REQ"})

(* scsi_target_recv_byte() and scsi_target_send_byte() *)
RecvByte(s) ==
  Acknowledged(TargetWrite([s EXCEPT !.tWait = @ \cup {"ACK"}, !.sub = "recv1"], {"REQ"}, {}))
SendByte(s, value) ==
  Acknowledged(TargetWrite([s EXCEPT !.tWait = @ \cup {"ACK"}, !.sub = "send1", !.tData = value],
                           {"REQ"}, {}))

(* The data states: the last byte is followed by the next entry. *)
DataByte(s) ==
  LET t == [s EXCEPT !.target = IF s.pos = s.size - 1 THEN "next" ELSE @] IN
  IF s.target = "in" THEN SendByte([t EXCEPT !.pos = @ + 1], s.pos + 1) ELSE RecvByte(t)

(* TS_TARGET_NEXT_CONTROL: the next entry of buf_control.  A data entry      *)
(* without bytes goes on with the one behind it, which is no data entry:     *)
(* Plans and Complete.                                                       *)
ControlEntry(s) ==
  LET q == [s EXCEPT !.queue = Tail(@)]
      act == Head(s.queue).act
  IN CASE act = "command" ->
            IF "ATN" \in Ctrl(s)
            THEN RecvByte(SetPhase([q EXCEPT !.pos = 0, !.target = "msg"], MessageOut))
            ELSE RecvByte(SetPhase([q EXCEPT !.pos = 0, !.target = "cmd"], Command))
       [] act = "status" -> SendByte(SetPhase(q, Status), 0)
       [] act = "message" -> SendByte(SetPhase(q, MessageIn), 0)
       [] act = "free" ->
            [TargetWrite([q EXCEPT !.tData = 0, !.tWait = {"BSY", "SEL", "RST"}],
                         {}, {"BSY", "REQ"} \cup PhaseLines) EXCEPT !.target = "idle"]
NextControl(s) ==
  LET c == Head(s.queue)
      q == [SetPhase([s EXCEPT !.queue = Tail(@)], IF c.act = "in" THEN DataIn ELSE DataOut)
            EXCEPT !.size = c.size, !.pos = 0]
      data == c.act \in {"in", "out"}
  IN IF data /\ c.size > 0 THEN DataByte([q EXCEPT !.target = c.act])
     ELSE ControlEntry(IF data THEN [q EXCEPT !.target = "next"] ELSE s)

(* The message and command states: messages until ATN is off, then the       *)
(* command, which is carried out when it is complete.                        *)
CommandByte(s) ==
  LET atn == "ATN" \in Ctrl(s) IN
  IF "SEL" \in Ctrl(s) THEN s
  ELSE IF s.target = "msg"
       THEN RecvByte(IF atn THEN s ELSE SetPhase([s EXCEPT !.pos = 0, !.target = "cmd"], Command))
  ELSE IF atn THEN [s EXCEPT !.target = "idle"]
  ELSE IF s.pos = CommandBytes
       THEN NextControl([s EXCEPT !.tWait = @ \ {"ACK"}, !.target = "next",
                                  !.queue = @ \o s.plan \o Complete])
       ELSE RecvByte(s)

(* Selection: TS_IDLE, TS_TARGET_SELECT_WAIT_BUS_SETTLE, ..._WAIT_SEL_0 *)
Selection(s) ==
  LET sel == "SEL" \in Ctrl(s)
      selected == sel /\ "BSY" \notin Ctrl(s)
  IN CASE s.target = "idle" ->
            IF selected /\ BusData(s) = WithTarget
            THEN [s EXCEPT !.target = "settle", !.tTimer = TRUE] ELSE s
       [] s.target = "settle" ->
            IF selected THEN TargetWrite([s EXCEPT !.target = "selected"], {"BSY"}, {})
            ELSE [s EXCEPT !.target = "idle"]
       [] s.target = "selected" ->
            IF sel THEN s
            ELSE NextControl([s EXCEPT !.target = "next",
                                       !.queue = Append(@, [act |-> "command", size |-> 0])])

(* scsi_target_step(): a byte's handshake first, then what the state asks. *)
Proceeds(s) ==
  CASE s.target \in {"idle", "settle", "selected"} -> Selection(s)
    [] s.target = "next" -> NextControl(s)
    [] s.target \in {"in", "out"} -> DataByte(s)
    [] s.target \in {"msg", "cmd"} -> CommandByte(s)
TargetStep(s) ==
  IF "RST" \in Ctrl(s) THEN TargetReset(s)
  ELSE IF s.sub \in {"recv1", "send1"} THEN Acknowledged(s)
  ELSE IF s.sub # "none" /\ "ACK" \in Ctrl(s) THEN s
  ELSE Proceeds(IF s.sub = "none" THEN s ELSE [s EXCEPT !.sub = "none", !.tWait = @ \ {"ACK"}])

(* scsi_bus_control_write() by the chip *)
NcrWrite(s, on, off) ==
  LET w == [s EXCEPT !.nLines = (@ \ off) \cup on]
      changed == (Ctrl(s) \ Ctrl(w)) \cup (Ctrl(w) \ Ctrl(s))
  IN IF changed \cap s.tWait = {} THEN w ELSE TargetStep(w)
-----------------------------------------------------------------------------
(* NCR_Remaining() *)
Remaining(s) == IF s.single THEN s.sbx ELSE s.count # 0
LastOne(s) == IF s.single THEN s.sbx ELSE s.count = 1
OneLess(s) == IF s.single THEN [s EXCEPT !.sbx = FALSE] ELSE [s EXCEPT !.count = @ - 1]

(* NCR_CommandChipReset(): neither the bus lines nor the interrupt and data  *)
(* request lines are touched.                                                *)
ChipReset(s) ==
  [s EXCEPT !.single = FALSE, !.dma = FALSE, !.cmd = "reset", !.full = FALSE, !.int = {},
            !.count = 0, !.chip = "disconnected", !.state = "idle", !.loaded = FALSE,
            !.sbx = FALSE, !.byte = 0, !.timer = Off, !.dest = FALSE]

(* NCR_ExecuteLoadedCommand() *)
Execute(s) ==
  LET wrong == Interrupt(s, "invalid") IN
  CASE s.cmd = "reset" -> ChipReset(s)
    [] s.cmd = "disconnect" ->
         IF s.chip = "initiator" THEN [s EXCEPT !.chip = "disconnected"] ELSE wrong
    [] s.cmd = "accept" -> IF s.chip = "initiator" THEN NcrWrite(s, {}, {"ACK"}) ELSE wrong
    [] s.cmd \in {"select", "select with ATN"} ->
         IF s.chip = "disconnected" THEN [s EXCEPT !.state = "arbitrate", !.timer = 0] ELSE wrong
    [] s.cmd \in {"info", "pad"} ->
         IF s.chip = "initiator"
         THEN [s EXCEPT !.sbx = s.single, !.state = "start", !.timer = 0] ELSE wrong

(* Arbitration and selection in NCR_StepState() *)
NcrSelect(s) ==
  LET c == Ctrl(s) IN
  CASE s.state = "arbitrate" ->
         IF c \cap {"SEL", "BSY", "RST"} = {} THEN [s EXCEPT !.state = "started"] ELSE s
    [] s.state = "started" ->
         NcrWrite([s EXCEPT !.state = "evaluate", !.nData = OwnId], {"BSY"}, {})
    [] s.state = "evaluate" ->
         IF "SEL" \in c THEN NcrWrite([s EXCEPT !.state = "arbitrate", !.nData = 0], {}, {"BSY"})
         ELSE [s EXCEPT !.state = "selection"]
    [] s.state = "selection" ->
         NcrWrite([s EXCEPT !.state = "delay", !.nData = IF s.dest THEN WithTarget ELSE OwnId],
                  {"SEL"}, {})
    [] s.state = "delay" ->
         NcrWrite([s EXCEPT !.state = "wait busy"],
                  IF s.cmd = "select with ATN" THEN {"ATN"} ELSE {}, {"BSY"})
    [] s.state = "wait busy" ->
         IF "BSY" \in c THEN [s EXCEPT !.state = "complete"]
         ELSE Interrupt(NcrWrite([s EXCEPT !.state = "idle"], {}, {"ATN", "SEL"}), "disconnected")
    [] s.state = "complete" ->
         [Interrupt(NcrWrite([s EXCEPT !.chip = "initiator", !.state = "wait req", !.nData = 0],
                             {}, {"SEL"}), "complete") EXCEPT !.stall = TRUE]
    [] s.state = "wait req" ->
         IF "REQ" \in c /\ ~s.mint THEN Interrupt([s EXCEPT !.state = "idle"], "service")
         ELSE [s EXCEPT !.stall = TRUE]

(* Transfers in NCR_StepState(): towards the program, then from it. *)
NcrInfo(s) ==
  LET c == Ctrl(s)
      req == "REQ" \in c
      same == Remaining(s) /\ Phase(s) = s.phase
      over == Interrupt([s EXCEPT !.state = "idle"], "service")
      stalled == [s EXCEPT !.stall = TRUE]
  IN CASE s.state = "start" ->
            [s EXCEPT !.phase = Phase(s), !.state = IF "IO" \in c THEN "in req" ELSE "out req"]
       [] s.state = "in req" ->
            IF ~req THEN stalled ELSE IF ~same THEN over
            ELSE IF s.cmd = "pad"
                 THEN [s EXCEPT !.state = "in drq", !.got = IF s.phase = DataIn THEN @ + 1 ELSE @]
                 ELSE LET t == [s EXCEPT !.state = "in drq", !.full = TRUE, !.byte = BusData(s),
                                         !.stall = TRUE]
                      IN IF s.dma THEN SetDreq(t, TRUE) ELSE t
       [] s.state = "in drq" -> NcrWrite([s EXCEPT !.state = "in ack"], {"ACK"}, {})
       [] s.state = "in ack" ->
            IF req THEN stalled
            ELSE LET t == [OneLess(s) EXCEPT !.state = "in req"]
                 IN IF ~Remaining(t) /\ Phase(s) = MessageIn
                    THEN Interrupt([t EXCEPT !.state = "idle"], "complete")
                    ELSE NcrWrite(t, {}, {"ACK"})
       [] s.state = "out req" ->
            IF ~req THEN stalled ELSE IF ~same THEN over
            ELSE LET t == [s EXCEPT !.state = "out drq", !.stall = ~s.full]
                 IN IF s.dma THEN SetDreq(t, TRUE) ELSE t
       [] s.state = "out drq" ->
            NcrWrite([s EXCEPT !.state = "out ack", !.full = FALSE, !.nData = s.byte], {"ACK"},
                     IF LastOne(s) /\ Phase(s) = MessageOut THEN {"ATN"} ELSE {})
       [] s.state = "out ack" ->
            IF req THEN stalled
            ELSE NcrWrite([OneLess(s) EXCEPT !.nData = 0,
                                             !.state = IF s.cmd = "pad" THEN "out pad" ELSE "out req"],
                          {}, {"ACK"})
       [] s.state = "out pad" ->
            IF ~req THEN s ELSE IF ~same THEN over ELSE [s EXCEPT !.state = "out drq"]

Selecting == {"arbitrate", "started", "evaluate", "selection", "delay", "wait busy", "complete",
              "wait req"}

(* NCR_StepState(): a command that was loaded first, which is then told of. *)
Unloaded(t) == [t EXCEPT !.loaded = FALSE, !.intNcr = @ \/ t.int # {}]
NcrStep(s) ==
  IF s.loaded THEN Unloaded(Execute(s))
  ELSE IF s.state = "idle" THEN s ELSE IF s.state \in Selecting THEN NcrSelect(s) ELSE NcrInfo(s)

(* NCR_Clock(): a step, and another one unless the step has stalled. *)
Rearmed(t) ==
  [t EXCEPT !.timer = IF t.stall \/ t.state = "idle" THEN @ ELSE 0, !.stall = FALSE]
NcrClock(s) ==
  IF s.timer = Off THEN s
  ELSE IF s.timer > 0 THEN [s EXCEPT !.timer = @ - 1]
  ELSE Rearmed(NcrStep([s EXCEPT !.timer = Off]))

(* scsi_target_clock() *)
TargetClock(s) == IF s.tTimer THEN TargetStep([s EXCEPT !.tTimer = FALSE]) ELSE s
-----------------------------------------------------------------------------
(* NCR_WriteCommandRegister(): commands from SELECT on wait for the clock,   *)
(* and empty the data register of what an earlier one left.                  *)
WriteCommand(s, cmd, single, dma) ==
  LET t == [s EXCEPT !.cmd = cmd, !.single = single, !.dma = dma] IN
  IF cmd \in {"reset", "disconnect", "accept"} THEN Execute(t)
  ELSE [t EXCEPT !.full = FALSE, !.loaded = TRUE, !.timer = 2]

Wake(s) == IF s.state # "idle" THEN [s EXCEPT !.timer = 0] ELSE s

(* NCR_WriteDataRegister(), and the data register of NCR5386_Read() *)
WriteData(s, byte) == IF s.full THEN s ELSE Wake([s EXCEPT !.byte = byte, !.full = TRUE])
ReadData(s) == IF s.full THEN Wake([s EXCEPT !.full = FALSE]) ELSE s

(* The interrupt register: NCR_ReadInterruptRegister(), from scsi_read(). *)
ReadInt(s) == [Wake(UpdateInt([s EXCEPT !.int = {}])) EXCEPT !.intNcr = FALSE]

(* The next byte to the program, and the next one from it: bytes are their   *)
(* numbers in the data phase, or in the transfer.                            *)
Took(s) ==
  [s EXCEPT !.got = IF s.phase # DataIn THEN @ ELSE IF s.byte = @ + 1 THEN @ + 1 ELSE Bad]
Gave(s) == [s EXCEPT !.put = @ + 1]

(* Mutant: the byte is taken and the request left standing. *)
BadDMARead(s) == [Took(s) EXCEPT !.full = FALSE, !.timer = 0]

(* NCR5386_DMARead() and NCR5386_DMAWrite() *)
DMARead(s) == [SetDreq([Took(s) EXCEPT !.full = FALSE], FALSE) EXCEPT !.timer = 0]
DMAWrite(s) ==
  [SetDreq([Gave(s) EXCEPT !.full = TRUE, !.byte = s.put + 1], FALSE) EXCEPT !.timer = 0]

(* scsi_step_go_state().  The request falls with the byte, so the loop goes  *)
(* round once.                                                               *)
GoState(s) ==
  LET t == IF s.intNcr
           THEN [s EXCEPT !.active = FALSE, !.ready = TRUE, !.irq = @ \/ s.enabled] ELSE s
  IN IF ~s.active THEN s
     ELSE IF t.dmaOn /\ t.dataReq /\ t.active
          THEN IF t.write THEN DMARead(t) ELSE DMAWrite(t)
          ELSE t

(* scsi_tick_needed(), and scsi_tick() with scsi_bus_clock(): the chip was   *)
(* put on the bus first.                                                     *)
TickNeeded(s) ==
  s.timer # Off \/ s.tTimer \/ (s.active /\ (s.intNcr \/ (s.dmaOn /\ s.dataReq)))
Tick(s) == GoState(TargetClock(NcrClock(s)))

(* NCR5386_DeviceReset() and NCR5386_InitiateResetSCSIBus() *)
DeviceReset(s) == UpdateInt(ChipReset(s))
ResetBus(s) ==
  LET all == s.nLines \cup {"RST"} IN NcrWrite(NcrWrite(NcrWrite(s, {}, all), {"RST"}, {}), {}, all)

(* scsi_write_control(); bits is the set of bits that are on.  An adapter    *)
(* that is not made active is ready, which interrupts.                       *)
Activated(r) ==
  IF r.active THEN [r EXCEPT !.ready = FALSE] ELSE [r EXCEPT !.irq = @ \/ r.enabled]
WriteControl(s, bits) ==
  LET c == [s EXCEPT !.enabled = "enable" \in bits, !.active = "activate" \in bits,
                     !.dmaOn = "dma" \in bits, !.write = "write" \in bits, !.ready = TRUE]
      d == IF "clear" \in bits THEN DeviceReset(c) ELSE c
  IN Activated(IF "reset bus" \in bits THEN ResetBus(d) ELSE d)

(* scsi_reset(), the master clear of the machine: it forgets the chip's data *)
(* request, which the chip remembers.                                        *)
MasterClear(s) ==
  DeviceReset([s EXCEPT !.enabled = FALSE, !.active = FALSE, !.ready = FALSE, !.dmaOn = FALSE,
                        !.write = FALSE, !.dataReq = FALSE, !.intNcr = FALSE])
-----------------------------------------------------------------------------
(* Actions.  scsi_ident(): *)
ScsiIdent ==
  scsi.irq /\ scsi' = [scsi EXCEPT !.irq = FALSE, !.enabled = FALSE] /\ UNCHANGED prog

(* Ticks that change nothing stutter: SkippedTicksAreIdle. *)
ScsiTick == scsi' = Tick(scsi) /\ scsi' # scsi /\ UNCHANGED prog

(* The program (external) selects a target that is there or not, with or     *)
(* without a message to follow, having chosen what it will ask of it.        *)
ProgSelect ==
  /\ prog.at = "idle" /\ prog' = [prog EXCEPT !.at = "go", !.left = 0]
  /\ \E there \in BOOLEAN, plan \in Plans, cmd \in {"select", "select with ATN"} :
       scsi' = WriteCommand([scsi EXCEPT !.dest = there, !.plan = plan, !.got = 0, !.put = 0,
                                         !.taken = 0], cmd, FALSE, FALSE)

(* It activates the adapter, which interrupts when the chip does. *)
ProgActivate ==
  /\ prog.at = "go" /\ prog' = [prog EXCEPT !.at = "wait"]
  /\ scsi' = WriteControl(scsi, {"enable", "activate", "dma"} \cup
                                (IF prog.in THEN {"write"} ELSE {}))

(* Bytes it moves itself, asking the chip whether its register is full. *)
ProgReads ==
  /\ prog.at = "wait" /\ prog.left > 0 /\ prog.in /\ scsi.full
  /\ scsi' = ReadData(Took(scsi)) /\ prog' = [prog EXCEPT !.left = @ - 1]
ProgWrites ==
  /\ prog.at = "wait" /\ prog.left > 0 /\ ~prog.in /\ ~scsi.full
  /\ scsi' = WriteData(Gave(scsi), scsi.put + 1) /\ prog' = [prog EXCEPT !.left = @ - 1]

(* The adapter is ready again: it reads the causes. *)
ProgInterrupt ==
  /\ prog.at = "wait" /\ ~scsi.active
  /\ scsi' = ReadInt(scsi) /\ prog' = [prog EXCEPT !.at = "decide", !.seen = scsi.int]

(* It answers a request of the target: a transfer in the target's phase, of  *)
(* a length of its own, by DMA or not; one byte may use the single byte      *)
(* flag, data may be padded.  In a data phase it continues at the byte the   *)
(* transfer counter names.                                                   *)
ProgTransfers ==
  \E cmd \in {"info", "pad"}, single, dma \in BOOLEAN, count \in 1 .. DataBytes \cup {CommandBytes} :
    LET phase == Phase(scsi)
        data == phase \in {DataIn, DataOut}
    IN /\ prog.at = "decide" /\ prog.seen = {"service"}
       /\ data \/ (cmd = "info" /\ count = IF phase = Command THEN CommandBytes ELSE 1)
       /\ count <= DataBytes \/ ~data
       /\ single => count = 1
       /\ scsi' = WriteCommand([scsi EXCEPT !.count = count, !.put = scsi.taken], cmd, single, dma)
       /\ prog' = [prog EXCEPT !.at = "go", !.in = "IO" \in phase,
                               !.left = IF dma THEN 0
                                        ELSE IF cmd = "info" THEN count
                                        ELSE IF phase = DataOut THEN 1 ELSE 0]

(* Any other interrupt: it accepts a message, goes on, gives up or is done;  *)
(* or it makes a mistake.                                                    *)
ProgDecides ==
  /\ prog.at = "decide"
  /\ \/ /\ prog.seen = {"complete"} /\ prog' = [prog EXCEPT !.at = "go", !.left = 0]
        /\ scsi' = IF Phase(scsi) = MessageIn THEN WriteCommand(scsi, "accept", FALSE, FALSE)
                   ELSE scsi
     \/ /\ "disconnected" \in prog.seen /\ prog' = [prog EXCEPT !.at = "idle"] /\ UNCHANGED scsi
     \/ /\ "invalid" \in prog.seen /\ prog' = [prog EXCEPT !.at = "recover"] /\ UNCHANGED scsi
ProgMistakes ==
  /\ prog.at = "decide" /\ prog.seen = {"service"}
  /\ \/ scsi' = WriteCommand(scsi, "select", FALSE, FALSE) /\ prog' = [prog EXCEPT !.at = "go"]
     \/ scsi' = WriteCommand(scsi, "disconnect", FALSE, FALSE)
        /\ prog' = [prog EXCEPT !.at = "recover"]

(* It gives up at any time: it clears the adapter or resets the chip, or the *)
(* machine is cleared.  With a data request standing this loses it or keeps  *)
(* a stale one: only if ScsiRare says so.                                    *)
ProgClears ==
  /\ prog.at \notin {"idle", "recover", "drain"}
  /\ ~scsi.dreq \/ "clear with a request" \in ScsiRare
  /\ scsi' \in {WriteControl(scsi, {"clear"}), WriteControl(scsi, {"clear", "enable"}),
                MasterClear(scsi), WriteCommand(scsi, "reset", FALSE, FALSE)}
  /\ prog' = [prog EXCEPT !.at = "recover"]

(* Then it resets the bus and reads the causes, which it drops.  A bus reset *)
(* alone leaves the chip in the middle of a transfer: only if ScsiRare says. *)
ProgResetsBus ==
  /\ prog.at = "recover" \/ (prog.at = "wait" /\ "reset alone" \in ScsiRare)
  /\ scsi' = WriteControl(scsi, {"reset bus"}) /\ prog' = [prog EXCEPT !.at = "drain"]
ProgDrains ==
  /\ prog.at = "drain" /\ scsi' = ReadInt(scsi)
  /\ prog' = [at |-> "idle", seen |-> {}, left |-> 0, in |-> FALSE]

(* What the program goes on with by itself. *)
ProgGoesOn ==
  \/ ProgActivate \/ ProgReads \/ ProgWrites \/ ProgInterrupt \/ ProgTransfers \/ ProgDecides
  \/ ProgResetsBus \/ ProgDrains

ScsiNext ==
  \/ ScsiTick \/ ScsiIdent \/ ProgSelect \/ ProgGoesOn \/ ProgMistakes \/ ProgClears
ScsiSpec == ScsiInit /\ [][ScsiNext]_scsiVars

(* What a tick or the program can do: their ENABLED, written out. *)
TickDoesSomething == Tick(scsi) # scsi
ProgCanGoOn ==
  \/ prog.at \in {"go", "decide", "recover", "drain"}
  \/ prog.at = "wait" /\ ~scsi.active
  \/ prog.at = "wait" /\ prog.left > 0 /\ prog.in = scsi.full
-----------------------------------------------------------------------------
(* A transfer never stands still: when the chip's clock is off, in the       *)
(* middle of a connection, it waits for something that will come -- the      *)
(* program to read the interrupt, or a byte the program or the DMA owes it.  *)
ScsiMoves ==
  LET s == scsi IN
  s.chip = "initiator" /\ s.state # "idle" /\ s.timer = Off /\ prog.at = "wait" =>
    \/ s.state = "wait req" /\ s.mint
    \/ s.state = "in drq" /\ s.full /\ (IF s.dma THEN s.dataReq ELSE prog.left > 0)
    \/ s.state = "out drq" /\ ~s.full /\ (IF s.dma THEN s.dataReq ELSE prog.left > 0)

(* scsi_tick_needed() skips no tick that would have done something. *)
SkippedTicksAreIdle == ~TickNeeded(scsi) => Tick(scsi) = scsi

ScsiEnds == ScsiMoves /\ SkippedTicksAreIdle

(* A cause in the chip's register has reached the adapter, and an adapter    *)
(* that is ready again has told the CPU, unless the CPU took the interrupt.  *)
ScsiTold ==
  /\ scsi.int # {} => scsi.mint /\ scsi.intNcr
  /\ prog.at = "wait" /\ ~scsi.active /\ scsi.enabled => scsi.irq

(* The bytes of a data phase arrive once each and in order, whoever moves    *)
(* them and however the program cuts the phase into transfers; when the      *)
(* target reports its status all of them have.                               *)
ScsiInOrder ==
  LET s == scsi
      total == IF s.plan = <<>> THEN 0 ELSE s.plan[1].size
  IN /\ Bad \notin {s.got, s.taken}
     /\ Phase(s) = Status /\ "REQ" \in Ctrl(s) /\ prog.at \notin {"recover", "drain"} =>
          (IF s.plan = <<>> THEN 0 ELSE IF s.plan[1].act = "in" THEN s.got ELSE s.taken) = total

(* A connection comes to an end: the program gets the bus back. *)
ScsiOver == prog.at # "idle" ~> prog.at = "idle" /\ scsi.tLines = {}
=============================================================================
