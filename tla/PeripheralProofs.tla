-------------------------- MODULE PeripheralProofs --------------------------
(***************************************************************************)
(* What holds of the slow peripherals for every size of queue, tape and    *)
(* clock: no interrupt is missing, the real-time clock's backlog is        *)
(* bounded, and the keys of the main loop's terminal arrive in order; and, *)
(* at the end, what holds of the ND-5000 bridge, which shares nothing with *)
(* them.                                                                   *)
(***************************************************************************)
EXTENDS MCPeripherals, Nd5000Bridge, TLAPS

(* A step is one of the fitted peripheral, or leaves each of them alone. *)
LEMMA PartSteps ==
  ASSUME [Next]_vars
  PROVE  /\ TerminalNext \/ UNCHANGED ttyVars
         /\ RtcNext \/ UNCHANGED rtcVars
         /\ PaperNext \/ UNCHANGED paperVars
<1>1. CASE UNCHANGED vars
  BY <1>1 DEF vars
<1>2. CASE Next
  BY <1>2 DEF Next
<1> QED
  BY <1>1, <1>2
-----------------------------------------------------------------------------
(* The reader, the punch and the printer have their registers, and request  *)
(* an interrupt exactly while it is enabled.                                *)
PaperInv ==
  /\ ptr \in [enabled : BOOLEAN, ready : BOOLEAN, irq : BOOLEAN, buffer : Nat, position : Nat,
              length : Nat]
  /\ ptp \in [enabled : BOOLEAN, ready : BOOLEAN, irq : BOOLEAN, position : Nat, capacity : Nat]
  /\ lpr \in [enabled : BOOLEAN, active : BOOLEAN, irq : BOOLEAN]
  /\ PaperInterrupts

(* Every access and every punch_end() keeps the two bits together. *)
LEMMA PaperInvNext == ASSUME PaperInv, PaperNext PROVE PaperInv'
<1>1. ASSUME NEW n \in TapeLengths, NEW a \in BOOLEAN, PtrLoadTape(n, a) PROVE PaperInv'
  <2>1. n \in Nat
    BY PaperAssumption
  <2> QED
    BY <1>1, <2>1 DEF PtrLoadTape, PaperInv, PaperInterrupts
<1>2. CASE PtrReadData
  BY <1>2 DEF PtrReadData, PaperInv, PaperInterrupts
<1>3. CASE PtrIdent
  BY <1>3 DEF PtrIdent, PaperInv, PaperInterrupts
<1>4. CASE PtpTick
  BY <1>4 DEF PtpTick, PunchEnds, PaperInv, PaperInterrupts
<1>5. CASE PtpIdent
  BY <1>5 DEF PtpIdent, PaperInv, PaperInterrupts
<1>6. CASE LprIdent
  BY <1>6 DEF LprIdent, PaperInv, PaperInterrupts
<1>7. ASSUME NEW e \in BOOLEAN, NEW r \in BOOLEAN, NEW c \in BOOLEAN, PtrWriteControl(e, r, c)
      PROVE PaperInv'
  <2> DEFINE position == IF c THEN 0 ELSE ptr.position
             found == r /\ ~c /\ position < ptr.length
             after == IF found THEN position + 1 ELSE position
             buffer == IF found THEN position + 1 ELSE IF (r /\ ~c) \/ c THEN 0 ELSE ptr.buffer
  <2>1. after \in Nat /\ buffer \in Nat
    BY DEF PaperInv
  <2>2. /\ ptr' = [ptr EXCEPT !.enabled = e, !.ready = TRUE, !.irq = e, !.position = after, !.buffer = buffer]
        /\ UNCHANGED <<ptp, lpr>>
    BY <1>7 DEF PtrWriteControl, PaperInv
  <2> HIDE DEF after, buffer
  <2> QED
    BY <2>1, <2>2 DEF PaperInv, PaperInterrupts
<1>8. ASSUME NEW e \in BOOLEAN, NEW a \in BOOLEAN, NEW c \in BOOLEAN, NEW m \in BOOLEAN,
             PtpWriteControl(e, a, c, m) PROVE PaperInv'
  <2>1. \A p \in Nat : Grown(p, ptp.capacity) \in Nat
    BY PaperAssumption DEF Grown, PaperInv
  <2> QED
    <3>1. /\ ptp' \in [enabled : BOOLEAN, ready : BOOLEAN, irq : BOOLEAN,
                        position : Nat, capacity : Nat]
          /\ ptp'.irq = ptp'.enabled /\ UNCHANGED <<ptr, lpr>>
      <4> DEFINE position == IF c THEN 0 ELSE ptp.position
                 punches == a /\ ~c
                 grows == m \/ ~GrowMayFail(position, ptp.capacity)
                 ready == ~punches \/ grows
                 after == IF punches /\ grows THEN position + 1 ELSE position
                 capacity == IF punches /\ grows THEN Grown(position, ptp.capacity) ELSE ptp.capacity
      <4>1. position \in Nat /\ ptp.capacity \in Nat
        BY DEF PaperInv
      <4>2. after \in Nat /\ capacity \in Nat /\ ready \in BOOLEAN
        BY <2>1, <4>1
      <4>3. ptp' = [enabled |-> e, irq |-> e, ready |-> ready, position |-> after, capacity |-> capacity]
            /\ UNCHANGED <<ptr, lpr>>
        BY <1>8 DEF PtpWriteControl
      <4> HIDE DEF ready, after, capacity
      <4> QED
        BY <4>2, <4>3
    <3> QED
      BY <3>1 DEF PaperInv, PaperInterrupts
<1>9. ASSUME NEW e \in BOOLEAN, NEW a \in BOOLEAN, LprWriteControl(e, a) PROVE PaperInv'
  BY <1>9 DEF LprWriteControl, PaperInv, PaperInterrupts
<1> QED
  BY <1>1, <1>2, <1>3, <1>4, <1>5, <1>6, <1>7, <1>8, <1>9 DEF PaperNext
-----------------------------------------------------------------------------
(* The terminal has its registers, and no interrupt is missing. *)
RegistersInv ==
  /\ ttyIn \in [enabled : BOOLEAN, ready : BOOLEAN, overrun : BOOLEAN]
  /\ ttyOut \in [enabled : BOOLEAN, ready : BOOLEAN]
  /\ TerminalInterrupts

(* Keys, characters that end, controls and IDENT keep them so. *)
LEMMA RegistersInvNext == ASSUME RegistersInv, TerminalNext PROVE RegistersInv'
<1> USE DEF RegistersInv, TerminalInterrupts
<1>1. ASSUME QueueKeyCode, UNCHANGED <<ttyOut, ttyIrq>> PROVE RegistersInv'
  BY <1>1 DEF QueueKeyCode
<1>2. CASE KeyTyped
  BY <1>1, <1>2 DEF KeyTyped
<1>3. CASE HostPut \/ HostCount \/ TickCount
  BY <1>3 DEF HostPut, HostCount, TickCount, ttyRegs
<1>4. CASE TerminalTick
  <2>1. /\ OutAfterTick \in [enabled : BOOLEAN, ready : BOOLEAN]
        /\ OutAfterTick.enabled = ttyOut.enabled
        /\ OutAfterTick.ready => ttyOut.ready \/ Ended
    BY DEF OutAfterTick
  <2>2. /\ OutAfterTick.enabled /\ OutAfterTick.ready => 10 \in IrqAfterTick
        /\ ttyIn.enabled /\ ttyIn.ready => 12 \in IrqAfterTick
    BY <2>1 DEF IrqAfterTick, TtySetInterrupt
  <2>3. CASE Arrived
    <3>1. /\ ttyIn' = [ttyIn EXCEPT !.ready = TRUE] /\ ttyOut' = OutAfterTick
          /\ ttyIrq' = IF ttyIn.enabled THEN IrqAfterTick \cup {12} ELSE IrqAfterTick \ {12}
      BY <1>4, <2>3 DEF TerminalTick, TtySetInterrupt
    <3>2. /\ ttyIn' \in [enabled : BOOLEAN, ready : BOOLEAN, overrun : BOOLEAN]
          /\ ttyOut' \in [enabled : BOOLEAN, ready : BOOLEAN]
      BY <2>1, <3>1
    <3>3. ttyIn'.enabled = ttyIn.enabled /\ (10 \in IrqAfterTick => 10 \in ttyIrq')
      BY <3>1
    <3> QED
      BY <2>1, <2>2, <3>1, <3>2, <3>3
  <2>4. CASE ~Arrived
    BY <1>4, <2>1, <2>2, <2>4 DEF TerminalTick
  <2> QED
    BY <2>3, <2>4
<1>5. CASE ReadInputData
  <2>1. ttyIn' = [ttyIn EXCEPT !.ready = FALSE] /\ ttyIrq' = ttyIrq \ {12} /\ UNCHANGED ttyOut
    BY <1>5 DEF ReadInputData, TtySetInterrupt
  <2>2. ttyIn' \in [enabled : BOOLEAN, ready : BOOLEAN, overrun : BOOLEAN]
    BY <2>1
  <2>3. ~ttyIn'.ready
    BY <2>1
  <2>4. 10 \in ttyIrq => 10 \in ttyIrq'
    BY <2>1
  <2> QED
    BY <2>1, <2>2, <2>3, <2>4
<1>6. CASE WriteData
  <2>1. /\ ttyOut' = [ttyOut EXCEPT !.ready = FALSE] /\ ttyIrq' = ttyIrq \ {10}
        /\ ttyIn' = [ttyIn EXCEPT !.overrun = TRUE] \/ UNCHANGED ttyIn
    BY <1>6 DEF WriteData, QueueKeyCode, TtySetInterrupt
  <2>2. /\ ttyIn' \in [enabled : BOOLEAN, ready : BOOLEAN, overrun : BOOLEAN]
        /\ ttyOut' \in [enabled : BOOLEAN, ready : BOOLEAN]
    BY <2>1
  <2>3. ~ttyOut'.ready /\ ttyIn'.enabled = ttyIn.enabled /\ ttyIn'.ready = ttyIn.ready
    BY <2>1
  <2>4. 12 \in ttyIrq => 12 \in ttyIrq'
    BY <2>1
  <2> QED
    BY <2>2, <2>3, <2>4
<1>7. ASSUME NEW e \in BOOLEAN, NEW c \in BOOLEAN, NEW t \in BOOLEAN, WriteInputControl(e, c, t)
      PROVE RegistersInv'
  <2>1. ttyIrq' = IF e /\ ttyIn.ready THEN ttyIrq \cup {12} ELSE ttyIrq \ {12}
    BY <1>7 DEF WriteInputControl, TtySetInterrupt
  <2>2. CASE c
    <3>1. /\ ttyIn' = [enabled |-> FALSE, ready |-> FALSE, overrun |-> FALSE]
          /\ ttyOut' = [enabled |-> FALSE, ready |-> TRUE]
      BY <1>7, <2>2 DEF WriteInputControl
    <3> QED
      BY <3>1
  <2>3. CASE ~c
    <3>1. ttyIn' = [ttyIn EXCEPT !.enabled = e, !.overrun = FALSE] /\ UNCHANGED ttyOut
      BY <1>7, <2>3 DEF WriteInputControl
    <3>2. /\ ttyIn' \in [enabled : BOOLEAN, ready : BOOLEAN, overrun : BOOLEAN]
          /\ ttyIn'.enabled = e /\ ttyIn'.ready = ttyIn.ready
      BY <3>1
    <3>3. 10 \in ttyIrq => 10 \in ttyIrq'
      BY <2>1
    <3> QED
      BY <2>1, <3>1, <3>2, <3>3
  <2> QED
    BY <2>2, <2>3
<1>8. ASSUME NEW e \in BOOLEAN, SetOutputControl(e) PROVE RegistersInv'
  BY <1>8 DEF SetOutputControl, TtySetInterrupt
<1>9. ASSUME NEW l \in {10, 12}, TerminalIdent(l) PROVE RegistersInv'
  <2>1. ttyIn' = [ttyIn EXCEPT !.enabled = @ /\ l # 12]
           /\ ttyOut' = [ttyOut EXCEPT !.enabled = @ /\ l # 10]
    BY <1>9 DEF TerminalIdent
  <2>2. CASE l = 12
    BY <1>9, <2>2 DEF TerminalIdent
  <2>3. CASE l = 10
    BY <1>9, <2>3 DEF TerminalIdent
  <2> QED
    BY <2>2, <2>3
<1> QED
  BY <1>2, <1>3, <1>4, <1>5, <1>6, <1>7, <1>8, <1>9 DEF TerminalNext, TerminalThread, TerminalProgram

(* Nothing but a pulse that is enabled raises the clock's interrupt, and      *)
(* whatever takes back the pulse or the enabling takes it back as well.       *)
ClockInv == {rtcEnabled, rtcReady, rtcIrq} \subseteq BOOLEAN /\ ClockInterrupts

(* Pulses, control words, the cleared counter and IDENT keep it so. *)
LEMMA ClockInvNext == ASSUME ClockInv, RtcNext PROVE ClockInv'
<1> USE DEF ClockInv, ClockInterrupts
<1>1. CASE HostTimePasses
  BY <1>1 DEF HostTimePasses
<1>2. CASE RtcTick
  BY <1>2 DEF RtcTick, TickSkipped, TickReadsClock, TickCounts, RtcPulse, NoPulse
<1>3. CASE RtcClearCounter \/ RtcIdent
  BY <1>3 DEF RtcClearCounter, RtcIdent
<1>4. ASSUME NEW e \in BOOLEAN, NEW c \in BOOLEAN, NEW r \in BOOLEAN, RtcWriteControl(e, c, r)
      PROVE  ClockInv'
  <2>1. rtcEnabled' = e /\ rtcReady' = (rtcReady /\ ~c) /\ rtcIrq' = (rtcIrq /\ e /\ ~c)
    BY <1>4, Zenon DEF RtcWriteControl
  <2> QED
    BY <2>1
<1> QED
  BY <1>1, <1>2, <1>3, <1>4 DEF RtcNext

(* No driver of terminal, printer, paper tape reader or punch waits for an   *)
(* interrupt that the registers of its device promise (terminal_tick(),      *)
(* write_end(), punch_end(), the control words and IDENT), for every speed   *)
(* of line and punch and every length of tape; and the clock interrupts for  *)
(* a pulse that stands and is enabled, and for nothing else (rtc_tick(),     *)
(* rtc_write(), rtc_ident()).                                                *)
THEOREM InterruptsComplete == Spec => []InterruptsCoherent
<1> DEFINE IInv == PaperInv /\ RegistersInv /\ ClockInv
<1>1. Init => IInv
  <2>1. Init => ClockInv
    BY DEF Init, RtcInit, ClockInv, ClockInterrupts
  <2>2. Init => PaperInv /\ RegistersInv
    BY DEF Init, PaperInit, TerminalInit, PaperInv, PaperInterrupts, RegistersInv,
       TerminalInterrupts
  <2> QED
    BY <2>1, <2>2
<1>2. IInv /\ [Next]_vars => IInv'
  <2> SUFFICES ASSUME IInv, [Next]_vars PROVE IInv'
    OBVIOUS
  <2>1. PaperInv'
    BY PaperInvNext, PartSteps DEF paperVars, PaperInv, PaperInterrupts
  <2>2. RegistersInv'
    BY RegistersInvNext, PartSteps DEF ttyVars, ttyRegs, RegistersInv, TerminalInterrupts
  <2>3. ClockInv'
    BY ClockInvNext, PartSteps DEF rtcVars, ClockInv, ClockInterrupts
  <2> QED
    BY <2>1, <2>2, <2>3
<1>3. IInv => InterruptsCoherent
  BY DEF PaperInv, RegistersInv, ClockInv, InterruptsCoherent
<1> QED
  BY <1>1, <1>2, <1>3, PTL DEF Spec
-----------------------------------------------------------------------------
(* A due pulse lies at most a period ahead, and when the clock has just been *)
(* read, at most Backlog periods back; time can only be measured from a      *)
(* reading, which arms the pulse.                                            *)
RtcInv ==
  /\ rtcDue \in Int /\ rtcSince \in Nat /\ rtcDue <= Period
  /\ rtcArmed \in BOOLEAN /\ (rtcArmed => rtcRead)
  /\ RtcBacklogBounded

(* Neither time, nor a tick, nor the program brings the pulse further back. *)
LEMMA RtcInvNext == ASSUME RtcInv, RtcNext PROVE RtcInv'
<1> DEFINE Back == Backlog * Period
<1>1. Back \in Nat /\ Period \in Nat \ {0}
  BY RtcAssumption
<1>2. RtcBacklogBounded <=> (rtcArmed /\ rtcSince = 0 => rtcDue \in -Back..Period)
  BY DEF RtcBacklogBounded
<1>3. RtcBacklogBounded' <=> (rtcArmed' /\ rtcSince' = 0 => rtcDue' \in -Back..Period)
  BY DEF RtcBacklogBounded
<1>4. \A d : DueAfterPulse(d) = IF -(d + Period) > Back THEN Period ELSE d + Period
  BY DEF DueAfterPulse
<1> HIDE DEF Back
<1>5. CASE HostTimePasses
  BY <1>1, <1>3, <1>5 DEF HostTimePasses, RtcInv
<1>6. CASE TickReadsClock
  <2>1. rtcSince' = 0 /\ rtcArmed' = TRUE /\ rtcRead' = TRUE
    BY <1>6 DEF TickReadsClock
  <2> DEFINE due == IF rtcArmed THEN rtcDue ELSE Period
  <2>2. due \in Int /\ due <= Period
    BY <1>1 DEF RtcInv
  <2>3. rtcDue' = IF due <= 0 THEN DueAfterPulse(due) ELSE due
    BY <1>6 DEF TickReadsClock
  <2> HIDE DEF due
  <2>4. rtcDue' \in -Back..Period
    BY <1>1, <1>4, <2>2, <2>3
  <2> QED
    BY <1>1, <1>3, <2>1, <2>4 DEF RtcInv
<1>7. CASE UNCHANGED rtcHost
  BY <1>2, <1>3, <1>7 DEF rtcHost, RtcInv
<1>8. CASE TickSkipped
  BY <1>2, <1>3, <1>8 DEF TickSkipped, RtcInv
<1>9. CASE TickCounts \/ RtcClearCounter \/ RtcIdent
         \/ \E e, c, r \in BOOLEAN : RtcWriteControl(e, c, r)
  BY <1>7, <1>9 DEF TickCounts, RtcClearCounter, RtcIdent, RtcWriteControl, ClearClockTicks, rtcHost
<1> QED
  BY <1>5, <1>6, <1>8, <1>9 DEF RtcNext, RtcTick

(* However long the host stalls between two readings, rtc_tick() leaves at   *)
(* most Backlog periods to make up for.                                      *)
THEOREM BacklogIsBounded == Spec => []RtcBacklogBounded
<1>1. Init => RtcInv
  <2>1. Period \in Nat
    BY RtcAssumption
  <2>2. RtcInit => RtcBacklogBounded
    BY DEF RtcInit, RtcBacklogBounded
  <2>3. RtcInit => rtcDue \in Int /\ rtcSince \in Nat /\ rtcDue <= Period /\ rtcArmed = FALSE
    BY <2>1 DEF RtcInit
  <2> QED
    BY <2>2, <2>3 DEF Init, RtcInv
<1>2. RtcInv /\ [Next]_vars => RtcInv'
  BY RtcInvNext, PartSteps DEF rtcVars, rtcHost, RtcInv, RtcBacklogBounded
<1>3. RtcInv => RtcBacklogBounded
  BY DEF RtcInv
<1> QED
  BY <1>1, <1>2, <1>3, PTL DEF Spec
-----------------------------------------------------------------------------
(* x modulo m, for an x that is at most once around. *)
Wrap(x, m) == IF x < m THEN x ELSE x - m

(* % on the sums the ring buffer of terminal_queue_key_code() forms. *)
LEMMA Wrapped == ASSUME NEW m \in Nat \ {0}, NEW x \in 0..(m - 1) PROVE (x + 1) % m = Wrap(x + 1, m)
  BY DEF Wrap

(* The main loop's queue: between head and tail lie the keys from the one    *)
(* that is due to the last one typed, each at its place, nobody is half way  *)
(* through an update, and the UART holds the key before the one due.         *)
OwnQueue ==
  /\ ttyHead \in 0..(QueueSize - 1) /\ ttyTail = Wrap(ttyHead + ttyCount, QueueSize)
  /\ ttyDue \in 0..(KeyNumbers - 1) /\ ttyNext = Wrap(ttyDue + ttyCount, KeyNumbers)
  /\ ttyCount \in 0..QueueSize /\ ttyHost = -1 /\ ttyTake = -1
  /\ ttyBuf \in [0..(QueueSize - 1) -> 0..(KeyNumbers - 1)]
  /\ \A i \in Nat : i < ttyCount =>
       ttyBuf[Wrap(ttyHead + i, QueueSize)] = Wrap(ttyDue + i, KeyNumbers)
  /\ ttyIn \in [enabled : BOOLEAN, ready : BOOLEAN, overrun : BOOLEAN]
  /\ KeysInOrder

(* Keys typed, echoed, taken by the line and thrown away when the queue is   *)
(* full keep it so.                                                          *)
LEMMA OwnQueueNext == ASSUME OwnQueue, ~ttyShared, TerminalNext PROVE OwnQueue' /\ ~ttyShared'
<1>0. /\ QueueSize \in Nat \ {0} /\ KeyNumbers \in Nat \ {0} /\ KeyNumbers > QueueSize + 1
      /\ \A p \in 0..(QueueSize - 1) : NextPlace(p) = Wrap(p + 1, QueueSize)
      /\ \A k \in 0..(KeyNumbers - 1) : NextKey(k) = Wrap(k + 1, KeyNumbers)
  BY TerminalAssumption, Wrapped DEF NextPlace, NextKey
<1>1. ASSUME QueueKeyCode, UNCHANGED <<ttyHead, ttyHost, ttyTake, ttyDue, ttyUart>> PROVE OwnQueue'
  <2>1. CASE ttyCount >= QueueSize
    <3>1. ttyIn' = [ttyIn EXCEPT !.overrun = TRUE] /\ UNCHANGED <<ttyBuf, ttyTail, ttyNext, ttyCount>>
      BY <1>1, <2>1 DEF QueueKeyCode
    <3>2. ttyIn' \in [enabled : BOOLEAN, ready : BOOLEAN, overrun : BOOLEAN]
             /\ ttyIn'.ready = ttyIn.ready
      BY <3>1 DEF OwnQueue
    <3> QED
      BY <1>1, <3>1, <3>2 DEF OwnQueue, KeysInOrder
  <2>2. CASE ttyCount < QueueSize
    <3>1. /\ ttyBuf' = [ttyBuf EXCEPT ![ttyTail] = ttyNext] /\ ttyTail' = Wrap(ttyTail + 1, QueueSize)
          /\ ttyNext' = Wrap(ttyNext + 1, KeyNumbers) /\ ttyCount' = ttyCount + 1 /\ UNCHANGED ttyIn
          /\ ttyTail \in 0..(QueueSize - 1) /\ ttyNext \in 0..(KeyNumbers - 1)
      <4>1. ttyTail \in 0..(QueueSize - 1) /\ ttyNext \in 0..(KeyNumbers - 1)
        BY <1>0 DEF OwnQueue, Wrap
      <4>2. ~(ttyCount >= QueueSize)
        BY <1>0, <2>2 DEF OwnQueue
      <4> QED
        BY <1>0, <1>1, <4>1, <4>2 DEF QueueKeyCode, PutKey
    <3>2. \A i \in Nat : i < ttyCount' =>
            ttyBuf'[Wrap(ttyHead + i, QueueSize)] = Wrap(ttyDue + i, KeyNumbers)
      <4> SUFFICES ASSUME NEW i \in Nat, i < ttyCount'
                   PROVE  ttyBuf'[Wrap(ttyHead + i, QueueSize)] = Wrap(ttyDue + i, KeyNumbers)
        OBVIOUS
      <4>0. ttyHead \in 0..(QueueSize - 1) /\ ttyCount \in 0..QueueSize
            /\ ttyBuf \in [0..(QueueSize - 1) -> 0..(KeyNumbers - 1)]
        BY DEF OwnQueue
      <4>1. CASE i = ttyCount
        <5>1. ttyBuf'[ttyTail] = ttyNext
          BY <3>1, <4>0
        <5> QED
          BY <4>1, <5>1 DEF OwnQueue
      <4>2. CASE i < ttyCount
        <5>1. Wrap(ttyHead + i, QueueSize) # ttyTail
                 /\ Wrap(ttyHead + i, QueueSize) \in 0..(QueueSize - 1)
          <6>1. ttyTail = Wrap(ttyHead + ttyCount, QueueSize)
            BY DEF OwnQueue
          <6> QED
            BY <1>0, <2>2, <4>0, <4>2, <6>1 DEF Wrap
        <5>2. ttyBuf'[Wrap(ttyHead + i, QueueSize)] = ttyBuf[Wrap(ttyHead + i, QueueSize)]
          BY <3>1, <4>0, <5>1
        <5> QED
          BY <4>2, <5>2 DEF OwnQueue
      <4> QED
        BY <3>1, <4>0, <4>1, <4>2
    <3>3. /\ ttyBuf' \in [0..(QueueSize - 1) -> 0..(KeyNumbers - 1)] /\ ttyCount' \in 0..QueueSize
          /\ ttyTail' = Wrap(ttyHead + ttyCount', QueueSize)
               /\ ttyNext' = Wrap(ttyDue + ttyCount', KeyNumbers)
      <4>1. ttyBuf' \in [0..(QueueSize - 1) -> 0..(KeyNumbers - 1)]
        BY <3>1 DEF OwnQueue
      <4>2. /\ ttyHead \in 0..(QueueSize - 1) /\ ttyTail = Wrap(ttyHead + ttyCount, QueueSize)
            /\ ttyDue \in 0..(KeyNumbers - 1) /\ ttyNext = Wrap(ttyDue + ttyCount, KeyNumbers)
            /\ ttyCount \in 0..QueueSize
        BY DEF OwnQueue
      <4> QED
        BY <1>0, <2>2, <3>1, <4>1, <4>2 DEF Wrap
    <3> QED
      BY <1>1, <3>1, <3>2, <3>3 DEF OwnQueue, KeysInOrder
  <2>3. ttyCount >= QueueSize \/ ttyCount < QueueSize
    BY <1>0 DEF OwnQueue
  <2> QED
    BY <2>1, <2>2, <2>3
<1>2. ASSUME UNCHANGED <<ttyQueue, ttyUart>>,
             ttyIn' \in [enabled : BOOLEAN, ready : BOOLEAN, overrun : BOOLEAN],
             ttyIn'.ready => ttyIn.ready
      PROVE  OwnQueue' /\ ~ttyShared'
  BY <1>2 DEF ttyQueue, OwnQueue, KeysInOrder
<1>3. CASE KeyTyped
  BY <1>1, <1>3 DEF KeyTyped, ttyLine
<1>4. CASE HostPut \/ HostCount \/ TickCount
  BY <1>4 DEF HostPut, HostCount, TickCount, OwnQueue
<1>5. CASE TerminalTick
  <2>1. CASE Arrived
    <3>1. /\ ttyUart' = ttyBuf[ttyHead] /\ ttyHead' = NextPlace(ttyHead) /\ ttyDue' = NextKey(ttyDue)
          /\ ttyCount' = ttyCount - 1 /\ ttyCount > 0 /\ ttyIn' = [ttyIn EXCEPT !.ready = TRUE]
          /\ UNCHANGED <<ttyShared, ttyBuf, ttyTail, ttyHost, ttyTake, ttyNext>>
      BY <1>5, <2>1 DEF TerminalTick, Arrived
    <3>2. ttyIn' \in [enabled : BOOLEAN, ready : BOOLEAN, overrun : BOOLEAN]
      BY <3>1 DEF OwnQueue
    <3>3. ttyHead' = Wrap(ttyHead + 1, QueueSize) /\ ttyDue' = Wrap(ttyDue + 1, KeyNumbers)
      BY <1>0, <3>1 DEF OwnQueue
    <3>4. ttyUart' = ttyDue
      <4>1. ttyBuf[Wrap(ttyHead + 0, QueueSize)] = Wrap(ttyDue + 0, KeyNumbers)
        BY <3>1 DEF OwnQueue
      <4> QED
        BY <1>0, <3>1, <4>1 DEF OwnQueue, Wrap
    <3>5. ASSUME NEW i \in Nat, i < ttyCount'
          PROVE  ttyBuf[Wrap(ttyHead' + i, QueueSize)] = Wrap(ttyDue' + i, KeyNumbers)
      <4>1. i + 1 \in Nat /\ i + 1 < ttyCount
        BY <3>1, <3>5 DEF OwnQueue
      <4>2. ttyBuf[Wrap(ttyHead + (i + 1), QueueSize)] = Wrap(ttyDue + (i + 1), KeyNumbers)
        BY <4>1 DEF OwnQueue
      <4>3. /\ Wrap(ttyHead' + i, QueueSize) = Wrap(ttyHead + (i + 1), QueueSize)
            /\ Wrap(ttyDue' + i, KeyNumbers) = Wrap(ttyDue + (i + 1), KeyNumbers)
        BY <1>0, <3>3, <4>1 DEF OwnQueue, Wrap
      <4> QED
        BY <4>2, <4>3
    <3>6. /\ ttyHead' \in 0..(QueueSize - 1) /\ ttyTail = Wrap(ttyHead' + ttyCount', QueueSize)
          /\ ttyDue' \in 0..(KeyNumbers - 1) /\ ttyNext = Wrap(ttyDue' + ttyCount', KeyNumbers)
          /\ ttyCount' \in 0..QueueSize
      <4>1. /\ ttyHead \in 0..(QueueSize - 1) /\ ttyTail = Wrap(ttyHead + ttyCount, QueueSize)
            /\ ttyDue \in 0..(KeyNumbers - 1) /\ ttyNext = Wrap(ttyDue + ttyCount, KeyNumbers)
            /\ ttyCount \in 0..QueueSize
        BY DEF OwnQueue
      <4> QED
        BY <1>0, <3>1, <3>3, <4>1 DEF Wrap
    <3> QED
      BY <3>1, <3>2, <3>4, <3>5, <3>6 DEF OwnQueue, KeysInOrder
  <2>2. CASE ~Arrived
    <3>1. UNCHANGED <<ttyQueue, ttyUart, ttyIn>>
      BY <1>5, <2>2 DEF TerminalTick, ttyQueue
    <3> QED
      BY <1>2, <3>1 DEF OwnQueue
  <2> QED
    BY <2>1, <2>2
<1>6. CASE ReadInputData
  <2>1. ttyIn' = [ttyIn EXCEPT !.ready = FALSE] /\ UNCHANGED ttyQueue
    BY <1>6 DEF ReadInputData
  <2>2. ttyIn' \in [enabled : BOOLEAN, ready : BOOLEAN, overrun : BOOLEAN] /\ ~ttyIn'.ready
    BY <2>1 DEF OwnQueue
  <2> QED
    BY <2>1, <2>2 DEF ttyQueue, OwnQueue, KeysInOrder
<1>7. CASE WriteData
  <2>1. UNCHANGED <<ttyShared, ttyHead, ttyHost, ttyTake, ttyDue, ttyUart>>
    BY <1>7 DEF WriteData, ttyLine
  <2>2. CASE ttyTest
    BY <1>1, <1>7, <2>1, <2>2 DEF WriteData
  <2>3. CASE ~ttyTest
    BY <1>2, <1>7, <2>1, <2>3 DEF WriteData, ttyQueue, OwnQueue
  <2> QED
    BY <2>2, <2>3
<1>8. ASSUME NEW e \in BOOLEAN, NEW c \in BOOLEAN, NEW t \in BOOLEAN, WriteInputControl(e, c, t)
      PROVE  OwnQueue' /\ ~ttyShared'
  <2>1. /\ UNCHANGED <<ttyQueue, ttyUart>>
        /\ \/ ttyIn' = [enabled |-> FALSE, ready |-> FALSE, overrun |-> FALSE]
           \/ ttyIn' = [ttyIn EXCEPT !.enabled = e, !.overrun = FALSE]
    BY <1>8 DEF WriteInputControl, ttyLine
  <2>2. ttyIn' \in [enabled : BOOLEAN, ready : BOOLEAN, overrun : BOOLEAN]
           /\ (ttyIn'.ready => ttyIn.ready)
    <3>1. CASE ttyIn' = [enabled |-> FALSE, ready |-> FALSE, overrun |-> FALSE]
      BY <3>1
    <3>2. CASE ttyIn' = [ttyIn EXCEPT !.enabled = e, !.overrun = FALSE]
      BY <3>2 DEF OwnQueue
    <3> QED
      BY <2>1, <3>1, <3>2
  <2> QED
    BY <1>2, <2>1, <2>2
<1>9. ASSUME NEW e \in BOOLEAN, SetOutputControl(e) PROVE OwnQueue' /\ ~ttyShared'
  BY <1>2, <1>9 DEF SetOutputControl, ttyLine, OwnQueue
<1>10. ASSUME NEW l \in {10, 12}, TerminalIdent(l) PROVE OwnQueue' /\ ~ttyShared'
  <2>1. UNCHANGED <<ttyQueue, ttyUart>> /\ ttyIn' = [ttyIn EXCEPT !.enabled = @ /\ l # 12]
    BY <1>10 DEF TerminalIdent, ttyLine
  <2>2. ttyIn' \in [enabled : BOOLEAN, ready : BOOLEAN, overrun : BOOLEAN] /\ ttyIn'.ready = ttyIn.ready
    <3>1. CASE l = 12
      BY <2>1, <3>1 DEF OwnQueue
    <3>2. CASE l = 10
      BY <2>1, <3>2 DEF OwnQueue
    <3> QED
      BY <3>1, <3>2
  <2> QED
    BY <1>2, <2>1, <2>2
<1>11. UNCHANGED ttyShared
  BY <1>3, <1>4, <1>5, <1>6, <1>7, <1>8, <1>9, <1>10
  DEF TerminalNext, TerminalThread, TerminalProgram, KeyTyped, HostPut, HostCount, TerminalTick,
      TickCount, ReadInputData, WriteData, WriteInputControl, SetOutputControl, TerminalIdent, ttyQueue
<1> QED
  BY <1>3, <1>4, <1>5, <1>6, <1>7, <1>8, <1>9, <1>10, <1>11
     DEF TerminalNext, TerminalThread, TerminalProgram

(* The program reads the keys of the main loop's terminal once each and in   *)
(* the order typed, for every size of the queue and whatever the program     *)
(* does with echo, test mode and clears.                                     *)
THEOREM KeysComeInOrder == Spec => []OwnKeysInOrder
<1> DEFINE IInv == ~ttyShared => OwnQueue
<1>1. Init => IInv
  <2>1. QueueSize \in Nat \ {0} /\ KeyNumbers \in Nat \ {0}
    BY TerminalAssumption
  <2>2. TerminalInit => OwnQueue
    BY <2>1 DEF TerminalInit, OwnQueue, Wrap, KeysInOrder
  <2> QED
    BY <2>2 DEF Init
<1>2. IInv /\ [Next]_vars => IInv'
  <2> SUFFICES ASSUME IInv, [Next]_vars PROVE IInv'
    OBVIOUS
  <2>1. CASE UNCHANGED ttyVars
    <3>1. UNCHANGED <<ttyShared, ttyHead, ttyTail, ttyDue, ttyNext, ttyCount, ttyHost, ttyTake, ttyBuf, ttyIn, ttyUart>>
      BY <2>1 DEF ttyVars, ttyQueue, ttyLine, ttyRegs
    <3>2. OwnQueue => OwnQueue'
      BY <3>1 DEF OwnQueue, KeysInOrder
    <3> QED
      BY <3>1, <3>2
  <2>2. CASE TerminalNext /\ ~ttyShared
    BY <2>2, OwnQueueNext
  <2>3. CASE TerminalNext /\ ttyShared
    <3>1. UNCHANGED ttyShared
      BY <2>3 DEF TerminalNext, TerminalThread, TerminalProgram, KeyTyped, HostPut,
         HostCount, TerminalTick,
        TickCount, ReadInputData, WriteData, WriteInputControl, SetOutputControl, TerminalIdent, ttyQueue
    <3> QED
      BY <2>3, <3>1
  <2> QED
    BY <2>1, <2>2, <2>3, PartSteps
<1>3. IInv => OwnKeysInOrder
  BY DEF OwnQueue, OwnKeysInOrder
<1> QED
  BY <1>1, <1>2, <1>3, PTL DEF Spec
-----------------------------------------------------------------------------
(* The ND-5000 bridge: no work is forgotten, and a process goes on from its  *)
(* newest registers, for any number of CPUs and processes, any table of      *)
(* deferred messages, and any number of messages, kicks, resets and starts,  *)
(* also if CPUs are reset while they execute.  Neither property is inductive. *)
(* BInv adds to them how far the ND-100's thread has come (NdInv), what the   *)
(* marks of a host thread say about it (ThreadInv), and where a process's    *)
(* registers are (CopyInv).                                                  *)

NdStates == {"idle", "kick", "stop", "join", "kicks", "walk", "clear", "reset"}

BridgeTypes ==
  /\ runner \in [Nd5000s -> {"idle", "stopped", "running", "stopping"}]
  /\ at \in [Nd5000s -> {"step", "report", "undo", "flag", "leave"}]
  /\ parked \in [Nd5000s -> BOOLEAN] /\ leaving \in [Nd5000s -> BOOLEAN]
  /\ walkAgain \in [Nd5000s -> BOOLEAN] /\ kick \in [Nd5000s -> BOOLEAN]
  /\ loaded \in [Nd5000s -> Processes \cup {Nobody}]
  /\ deferred \in [Nd5000s -> SUBSET Processes]
  /\ owner \in [Processes -> Nd5000s \cup {Nobody}]
  /\ preempted \in [Processes -> BOOLEAN]
  /\ newest \in [Processes -> SUBSET (Nd5000s \cup {"block"})] /\ mixed \subseteq Processes
  /\ sta \in [Processes -> {"none", "tond500", "waiting", "answer", "refused"}]
  /\ cpuOf \in [Processes -> Nd5000s]
  /\ nd \in [do : NdStates, cpu : Nd5000s \cup {Nobody}, left : SUBSET Nd5000s]

\* What the ND-100's thread is at.  The process it wants to preempt stays loaded
\* while it waits.
NdInv ==
  /\ nd.do \notin {"idle", "kicks"} => nd.cpu \in Nd5000s
  /\ nd.do \in {"idle", "walk", "clear", "reset"} => nd.left = {}
  /\ nd.do \in {"stop", "join"} => loaded[nd.cpu] # Nobody

\* A host thread.  parked and leaving are set by the thread itself before it ends,
\* or by the ND-100's thread once it has; a preempting kick or a reset asks it to stop.
ThreadInv == \A c \in Nd5000s :
  /\ at[c] # "step" => runner[c] \in Live
  /\ runner[c] \in Live => (leaving[c] <=> at[c] \in {"leave", "undo"})
  /\ parked[c] /\ runner[c] \in Live => at[c] \in {"leave", "undo"}
  /\ at[c] = "report" => loaded[c] # Nobody
  /\ at[c] = "undo" => parked[c]
  /\ parked[c] => loaded[c] # Nobody
  /\ leaving[c] /\ runner[c] = "idle" => parked[c]
  /\ runner[c] = "stopping" => nd.do \in {"join", "reset"} /\ nd.cpu = c

\* A CPU executes a process from its resumption to its park, or until the kick that
\* stopped its thread has saved it.  A park the thread will take back is none.
Stops(c) == nd.do \in {"stop", "join"} /\ nd.cpu = c
Executes(c, p) ==
  loaded[c] = p /\ (~parked[c] \/ at[c] = "undo") /\ (runner[c] \in Live \/ Stops(c))

\* A process that a CPU may take: its message is queued, deferred or answered.
Rests(p) == sta[p] \in {"tond500", "answer", "refused"} \/ \E c \in Nd5000s : p \in deferred[c]

\* Whoever executes a process executed it last, and its message says so.  As long as
\* no two copies of a process are mixed up, it executes the newest one; and one
\* that rests has been saved, and whoever takes a copy for its own has the newest.
CopyInv ==
  /\ \A c \in Nd5000s, p \in Processes :
       /\ Executes(c, p) => owner[p] = c /\ sta[p] = "waiting" /\ cpuOf[p] = c /\ p \notin deferred[c]
       /\ Executes(c, p) /\ p \notin mixed => c \in newest[p]
       /\ at[c] = "report" /\ loaded[c] = p /\ p \notin mixed => "block" \in newest[p]
       /\ p \in deferred[c] => sta[p] = "waiting" /\ cpuOf[p] = c
  /\ \A p \in Processes : Rests(p) /\ p \notin mixed =>
       "block" \in newest[p] /\ \A c \in Nd5000s : Holds(c, p) => c \in newest[p]

BInv == BridgeTypes /\ NdInv /\ ThreadInv /\ CopyInv /\ WorkKept
-----------------------------------------------------------------------------
(* The steps of a host thread (mfbus_cpu_step, mfbus_ext_write) keep BInv.    *)
LEMMA HostKeeps ==
  ASSUME BInv, NEW c \in Nd5000s, Host(c)
  PROVE  BInv'
<1> USE BridgeAssumption DEF BInv, Live, slotVars, procVars, msgVars
<1>1. CASE HostStep(c)
  <2> USE <1>1 DEF HostStep, Stepping
  <2>1. BridgeTypes' BY DEF BridgeTypes
  <2>2. NdInv' BY DEF NdInv
  <2>3. ThreadInv' BY DEF ThreadInv
  <2>4. CopyInv' BY DEF ThreadInv, CopyInv, Rests, Holds, Owns, Executes, Stops
  <2>5. WorkKept' BY DEF WorkKept
  <2> QED BY <2>1, <2>2, <2>3, <2>4, <2>5
<1>2. CASE HostStop(c)
  <2> USE <1>2 DEF HostStop, Stepping, Saved
  <2>1. BridgeTypes' BY DEF BridgeTypes
  <2>2. NdInv' BY DEF NdInv
  <2>3. ThreadInv' BY DEF ThreadInv
  <2>4. CopyInv' BY DEF BridgeTypes, CopyInv, Rests, Holds, Owns, Executes, Stops
  <2>5. WorkKept' BY DEF WorkKept
  <2> QED BY <2>1, <2>2, <2>3, <2>4, <2>5
<1>3. CASE HostPark(c)
  <2> USE <1>3 DEF HostPark
  <2>1. BridgeTypes' BY DEF BridgeTypes
  <2>2. NdInv' BY DEF NdInv
  <2>3. ThreadInv' BY DEF BridgeTypes, ThreadInv
  <2>4. CopyInv' BY DEF BridgeTypes, ThreadInv, CopyInv, Rests, Holds, Owns, Executes, Stops
  <2>5. WorkKept' BY DEF BridgeTypes, WorkKept
  <2> QED BY <2>1, <2>2, <2>3, <2>4, <2>5
<1>4. CASE HostRefused(c)
  <2> USE <1>4 DEF HostRefused
  <2>0. /\ leaving' = leaving \/ leaving' = [leaving EXCEPT ![c] = TRUE]
        /\ parked' = parked \/ parked' = [parked EXCEPT ![c] = TRUE]
    OBVIOUS
  <2>1. BridgeTypes'
    <3>1. leaving' \in [Nd5000s -> BOOLEAN]
      <4>1. leaving' = leaving \/ leaving' = [leaving EXCEPT ![c] = TRUE] BY <2>0
      <4> HIDE DEF HostRefused
      <4> QED BY <4>1 DEF BridgeTypes
    <3>2. parked' \in [Nd5000s -> BOOLEAN]
      <4>1. parked' = parked \/ parked' = [parked EXCEPT ![c] = TRUE] BY <2>0
      <4> HIDE DEF HostRefused
      <4> QED BY <4>1 DEF BridgeTypes
    <3> QED BY <3>1, <3>2 DEF BridgeTypes
  <2>2. NdInv' BY DEF NdInv
  <2>3. ThreadInv' BY DEF BridgeTypes, ThreadInv
  <2>4. CopyInv'
    <3>1. runner[c] \in Live /\ ~parked[c] BY DEF ThreadInv
    <3>2. /\ at'[c] # "report" /\ \A d \in Nd5000s \ {c} : at'[d] = at[d] /\ (parked'[d] <=> parked[d])
          /\ UNCHANGED <<runner, loaded, deferred, owner, newest, mixed, sta, cpuOf, nd>>
      BY DEF BridgeTypes
    <3>3. \A d \in Nd5000s, q \in Processes : Executes(d, q)' => Executes(d, q)
      BY <3>1, <3>2 DEF Executes, Stops
    <3> HIDE DEF HostRefused
    <3> QED BY <3>2, <3>3 DEF CopyInv, Rests, Holds, Owns
  <2>5. WorkKept' BY DEF BridgeTypes, WorkKept
  <2> QED BY <2>1, <2>2, <2>3, <2>4, <2>5
<1>5. CASE HostQuit(c)
  <2> USE <1>5 DEF HostQuit, Stepping
  <2>1. BridgeTypes' BY DEF BridgeTypes
  <2>2. NdInv' BY DEF NdInv
  <2>3. ThreadInv' BY DEF BridgeTypes, ThreadInv
  <2>4. CopyInv' BY DEF CopyInv, Rests, Holds, Owns, Executes, Stops
  <2>5. WorkKept' BY DEF WorkKept
  <2> QED BY <2>1, <2>2, <2>3, <2>4, <2>5
<1>6. CASE HostEnd(c)
  <2> USE <1>6 DEF HostEnd
  <2>1. BridgeTypes' BY DEF BridgeTypes
  <2>2. NdInv' BY DEF NdInv
  <2>3. ThreadInv' BY DEF BridgeTypes, ThreadInv
  <2>4. CopyInv' BY DEF CopyInv, Rests, Holds, Owns, Executes, Stops
  <2>5. WorkKept' BY DEF ThreadInv, WorkKept
  <2> QED BY <2>1, <2>2, <2>3, <2>4, <2>5
<1>7. CASE HostFlag(c)
  <2> USE <1>7 DEF HostFlag
  <2>1. BridgeTypes' BY DEF BridgeTypes
  <2>2. NdInv' BY DEF NdInv
  <2>3. ThreadInv' BY DEF ThreadInv
  <2>4. CopyInv' BY DEF CopyInv, Rests, Holds, Owns, Executes, Stops
  <2>5. WorkKept' BY DEF WorkKept
  <2> QED BY <2>1, <2>2, <2>3, <2>4, <2>5
<1>8. ASSUME NEW d \in Nd5000s, HostKick(c, d) PROVE BInv'
  <2> USE <1>8 DEF HostKick, Stepping, WouldPreempt, SeemsParked
  <2>0. kick' = kick \/ kick' = [kick EXCEPT ![d] = TRUE] OBVIOUS
  <2>1. BridgeTypes'
    <3>1. kick' \in [Nd5000s -> BOOLEAN] BY DEF BridgeTypes
    <3> QED BY <3>1 DEF BridgeTypes
  <2>2. NdInv' BY DEF NdInv
  <2>3. ThreadInv' BY DEF BridgeTypes, ThreadInv
  <2>4. CopyInv' BY DEF BridgeTypes, CopyInv, Rests, Holds, Owns, Executes, Stops
  <2>5. WorkKept' BY DEF BridgeTypes, WorkKept
  <2> QED BY <2>1, <2>2, <2>3, <2>4, <2>5
<1>9. CASE HostUndo(c)
  <2> USE <1>9 DEF HostUndo
  <2>1. BridgeTypes' BY DEF BridgeTypes
  <2>2. NdInv' BY DEF NdInv
  <2>3. ThreadInv' BY DEF BridgeTypes, ThreadInv
  <2>4. CopyInv' BY DEF BridgeTypes, CopyInv, Rests, Holds, Owns, Executes, Stops
  <2>5. WorkKept'
    <3>1. parked[c] BY DEF ThreadInv
    <3> QED BY <3>1 DEF BridgeTypes, WorkKept
  <2> QED BY <2>1, <2>2, <2>3, <2>4, <2>5
<1> QED BY <1>1, <1>2, <1>3, <1>4, <1>5, <1>6, <1>7, <1>8, <1>9 DEF Host, HostGoesOn
-----------------------------------------------------------------------------
(* So does the preempting kick, from the tick that reads it to the delivery    *)
(* of the frame (mfbus_card_transmit): what it saves is the newest copy.      *)
LEMMA KicksKeep ==
  ASSUME BInv, TickKicks \/ (\E c \in Nd5000s : TickKick(c)) \/ KickMissed \/ KickSeen
       \/ AskStop("stop", "join") \/ Preempt
  PROVE  BInv'
<1> USE BridgeAssumption DEF BInv, Live, slotVars, procVars, msgVars
<1>1. CASE TickKicks
  <2> USE <1>1 DEF TickKicks, Idle
  <2>1. BridgeTypes' BY DEF BridgeTypes, NdStates
  <2>2. NdInv' BY DEF NdInv
  <2>3. ThreadInv' BY DEF ThreadInv
  <2>4. CopyInv' BY DEF CopyInv, Rests, Holds, Owns, Executes, Stops
  <2>5. WorkKept' BY DEF WorkKept
  <2> QED BY <2>1, <2>2, <2>3, <2>4, <2>5
<1>2. CASE KickMissed
  <2> USE <1>2 DEF KickMissed, SeemsParked, WouldPreempt, Delivered, Idle
  <2>1. BridgeTypes' BY DEF BridgeTypes, NdStates
  <2>2. NdInv' BY DEF NdInv
  <2>3. ThreadInv' BY DEF ThreadInv
  <2>4. CopyInv' BY DEF CopyInv, Rests, Holds, Owns, Executes, Stops
  <2>5. WorkKept' BY DEF WorkKept
  <2> QED BY <2>1, <2>2, <2>3, <2>4, <2>5
<1>3. CASE KickSeen
  <2> USE <1>3 DEF KickSeen, WouldPreempt
  <2>1. BridgeTypes' BY DEF BridgeTypes, NdStates
  <2>2. NdInv' BY DEF NdInv
  <2>3. ThreadInv' BY DEF ThreadInv
  <2>4. CopyInv' BY DEF CopyInv, Rests, Holds, Owns, Executes, Stops
  <2>5. WorkKept' BY DEF WorkKept
  <2> QED BY <2>1, <2>2, <2>3, <2>4, <2>5
<1>4. CASE AskStop("stop", "join")
  <2> USE <1>4 DEF AskStop
  <2>1. BridgeTypes' BY DEF BridgeTypes, NdStates
  <2>2. NdInv' BY DEF NdInv
  <2>3. ThreadInv' BY DEF ThreadInv
  <2>4. CopyInv' BY DEF CopyInv, Rests, Holds, Owns, Executes, Stops
  <2>5. WorkKept' BY DEF WorkKept
  <2> QED BY <2>1, <2>2, <2>3, <2>4, <2>5
<1>5. CASE Preempt
  <2> USE <1>5 DEF Preempt, Delivered, Saved, Idle
  <2>1. BridgeTypes'
    <3>1. parked' = parked \/ parked' = [parked EXCEPT ![nd.cpu] = TRUE] OBVIOUS
    <3>2. leaving' = leaving \/ leaving' = [leaving EXCEPT ![nd.cpu] = FALSE] OBVIOUS
    <3>3. preempted' = preempted \/ preempted' = [preempted EXCEPT ![loaded[nd.cpu]] = TRUE] OBVIOUS
    <3>4. sta' = sta \/ sta' = [sta EXCEPT ![loaded[nd.cpu]] = IF @ = "waiting"
             THEN "tond500" ELSE @] OBVIOUS
    <3>5. parked' \in [Nd5000s -> BOOLEAN] /\ leaving' \in [Nd5000s -> BOOLEAN]
      <4> HIDE DEF Preempt
      <4>1. parked' \in [Nd5000s -> BOOLEAN] BY <3>1 DEF BridgeTypes
      <4>2. leaving' \in [Nd5000s -> BOOLEAN] BY <3>2 DEF BridgeTypes
      <4> QED BY <4>1, <4>2
    <3>6. preempted' \in [Processes -> BOOLEAN] BY DEF BridgeTypes
    <3>7. sta' \in [Processes -> {"none", "tond500", "waiting", "answer", "refused"}]
      BY <3>4 DEF BridgeTypes
    <3>8. newest' \in [Processes -> SUBSET (Nd5000s \cup {"block"})] BY SMTT(60) DEF BridgeTypes
    <3>9. nd' \in [do : NdStates, cpu : Nd5000s \cup {Nobody}, left : SUBSET Nd5000s]
      BY DEF BridgeTypes, NdStates
    <3> QED BY <3>5, <3>6, <3>7, <3>8, <3>9 DEF BridgeTypes
  <2>2. NdInv' BY DEF NdInv
  <2>3. ThreadInv' BY DEF BridgeTypes, NdInv, ThreadInv
  <2>4. CopyInv'
    <3> DEFINE c == nd.cpu
               p == loaded[c]
    <3>1. CASE parked[c]
       BY <3>1 DEF CopyInv, Rests, Holds, Owns, Executes, Stops
    <3>2. CASE ~parked[c]
      <4>1. c \in Nd5000s /\ p \in Processes /\ Executes(c, p)
        BY <3>2 DEF NdInv, BridgeTypes, Executes, Stops
      <4>2. owner[p] = c /\ sta[p] = "waiting" /\ p \notin deferred[c] /\ (p \notin mixed => c \in newest[p])
        BY <4>1 DEF CopyInv
      <4>3. newest' = Saved(newest, c, p) /\ mixed' = mixed BY <3>2
      <4>9. ASSUME p \notin mixed PROVE "block" \in newest'[p] /\ newest[p] \subseteq newest'[p]
        BY <4>1, <4>2, <4>3, <4>9 DEF BridgeTypes
      <4>4. sta' = [sta EXCEPT ![p] = "tond500"] BY <3>2, <4>2
      <4>5. parked' = [parked EXCEPT ![c] = TRUE] /\ runner' = [runner EXCEPT ![c] = "idle"] BY <3>2
      <4>6. ASSUME NEW d \in Nd5000s, NEW q \in Processes, Executes(d, q)'
            PROVE d # c /\ q # p /\ Executes(d, q)
         BY <4>2, <4>5, <4>6 DEF Executes, Stops, CopyInv
      <4>7. ASSUME NEW q \in Processes
            PROVE q # p => newest'[q] = newest[q] /\ sta'[q] = sta[q]
         BY <4>3, <4>4 DEF BridgeTypes
      <4>8. ASSUME NEW d \in Nd5000s PROVE p \notin deferred[d] BY <4>1 DEF CopyInv
      <4> DEFINE Unchanged == /\ at' = at /\ loaded' = loaded /\ owner' = owner
                             /\ deferred' = deferred /\ cpuOf' = cpuOf
      <4>10. Unchanged OBVIOUS
      <4> HIDE DEF Preempt
      <4>11. ASSUME NEW d \in Nd5000s, NEW q \in Processes
             PROVE /\ Executes(d, q)' => /\ owner'[q] = d /\ sta'[q] = "waiting"
                                         /\ cpuOf'[q] = d /\ q \notin deferred'[d]
                   /\ Executes(d, q)' /\ q \notin mixed' => d \in newest'[q]
                   /\ q \in deferred'[d] => sta'[q] = "waiting" /\ cpuOf'[q] = d
         BY <4>3, <4>6, <4>7, <4>8, <4>10 DEF CopyInv
      <4>12. ASSUME NEW d \in Nd5000s, NEW q \in Processes, at'[d] = "report",
                    loaded'[d] = q, q \notin mixed'
             PROVE "block" \in newest'[q]
         BY <4>3, <4>7, <4>9, <4>10, <4>12 DEF CopyInv
      <4>13. ASSUME NEW q \in Processes, Rests(q)', q \notin mixed'
             PROVE  "block" \in newest'[q] /\ \A d \in Nd5000s : Holds(d, q)' => d \in newest'[q]
         <5>1. CASE q = p
           <6>1. ASSUME NEW d \in Nd5000s, Holds(d, q)' PROVE d = c
             BY <5>1, <6>1, <4>1, <4>2, <4>10, BridgeAssumption DEF Holds, Owns
           <6> QED BY <5>1, <6>1, <4>2, <4>3, <4>9, <4>13
         <5>2. CASE q # p
           <6>1. Rests(q) BY <5>2, <4>7, <4>10, <4>13 DEF Rests
           <6>2. \A d \in Nd5000s : Holds(d, q)' => Holds(d, q) BY <4>10 DEF Holds, Owns
           <6> QED BY <5>2, <6>1, <6>2, <4>3, <4>7, <4>13 DEF CopyInv
         <5> QED BY <5>1, <5>2
      <4> QED BY <4>11, <4>12, <4>13 DEF CopyInv
    <3> QED BY <3>1, <3>2
  <2>5. WorkKept' BY DEF BridgeTypes, WorkKept
  <2> QED BY <2>1, <2>2, <2>3, <2>4, <2>5
<1>6. ASSUME NEW c \in Nd5000s, TickKick(c) PROVE BInv'
  <2> USE <1>6 DEF TickKick, Idle
  <2>1. BridgeTypes' BY DEF BridgeTypes, NdStates
  <2>2. NdInv' BY DEF NdInv
  <2>3. ThreadInv' BY DEF ThreadInv
  <2>4. CopyInv' BY DEF CopyInv, Rests, Holds, Owns, Executes, Stops
  <2>5. WorkKept' BY DEF BridgeTypes, WorkKept
  <2> QED BY <2>1, <2>2, <2>3, <2>4, <2>5
<1> QED BY <1>1, <1>2, <1>3, <1>4, <1>5, <1>6
-----------------------------------------------------------------------------
(* So do mfbus_release_deferred, the doorbell and the end of a walk.          *)
LEMMA DeferredKeep ==
  ASSUME BInv, ReleaseDeferred \/ (\E c \in Nd5000s : TickDoorbell(c)) \/ WalkEnds
  PROVE  BInv'
<1> USE BridgeAssumption DEF BInv, Live, slotVars, procVars, msgVars
<1>1. CASE ReleaseDeferred
  <2> USE <1>1 DEF ReleaseDeferred, Idle
  <2>1. BridgeTypes' BY DEF BridgeTypes
  <2>2. NdInv' BY DEF NdInv
  <2>3. ThreadInv' BY DEF ThreadInv
  <2>4. CopyInv' BY DEF CopyInv, Rests, Holds, Owns, Executes, Stops, Released
  <2>5. WorkKept'
    <3>1. ASSUME NEW p \in Processes, sta'[p] = "waiting"
          PROVE  sta[p] = "waiting" /\ \A c \in Released : p \notin deferred[c]
       BY <3>1
    <3>2. ASSUME NEW p \in Processes, sta'[p] = "waiting"
          PROVE  LET c == cpuOf[p] IN
                   \/ p \in untold' \cup deferred'[c]
                   \/ loaded[c] = p /\ runner[c] \in Live /\ ~parked[c] /\ at[c] # "leave"
                   \/ nd.do = "join" /\ nd.cpu = c /\ loaded[c] = p /\ ~parked[c]
       BY <3>2 DEF WorkKept, BridgeTypes
    <3>3. ASSUME NEW c \in Nd5000s, deferred'[c] # {} \/ walkAgain'[c] PROVE "DEFER" \in work'
       <4>1. c \notin Released /\ (deferred[c] # {} \/ walkAgain[c]) BY <3>3
       <4>2. work' = work BY <4>1
       <4> QED BY <4>1, <4>2 DEF WorkKept
    <3>4. ASSUME NEW c \in Nd5000s, kick'[c]
          PROVE  "KICK" \in work' \/ (\E d \in Nd5000s : at'[d] = "flag") \/ c \in nd'.left
       BY <3>4 DEF WorkKept
    <3> QED BY <3>2, <3>3, <3>4 DEF WorkKept
  <2> QED BY <2>1, <2>2, <2>3, <2>4, <2>5
<1>2. CASE WalkEnds
  <2> USE <1>2 DEF WalkEnds, Queue, IsExecuting, Idle
  <2>1. BridgeTypes' BY DEF BridgeTypes, NdStates
  <2>2. NdInv' BY DEF NdInv
  <2>3. ThreadInv' BY DEF ThreadInv
  <2>4. CopyInv' BY DEF CopyInv, Rests, Holds, Owns, Executes, Stops
  <2>5. WorkKept' BY DEF NdInv, WorkKept
  <2> QED BY <2>1, <2>2, <2>3, <2>4, <2>5
<1>3. ASSUME NEW c \in Nd5000s, TickDoorbell(c) PROVE BInv'
  <2> USE <1>3 DEF TickDoorbell, Idle
  <2>1. BridgeTypes' BY DEF BridgeTypes, NdStates
  <2>2. NdInv' BY DEF NdInv
  <2>3. ThreadInv' BY DEF ThreadInv
  <2>4. CopyInv' BY DEF CopyInv, Rests, Holds, Owns, Executes, Stops
  <2>5. WorkKept' BY DEF WorkKept
  <2> QED BY <2>1, <2>2, <2>3, <2>4, <2>5
<1> QED BY <1>1, <1>2, <1>3
-----------------------------------------------------------------------------
(* What a walk finds when it comes to a message: its CPU executes nothing, and *)
(* after mfbus_quiesce_runner the thread of a CPU that is parked or marked    *)
(* has ended.                                                                *)
LEMMA WalkFinds ==
  ASSUME BInv, nd.do = "walk", ~IsExecuting(nd.cpu), Quiet(nd.cpu)
  PROVE  /\ nd.cpu \in Nd5000s /\ nd.left = {}
         /\ leaving[nd.cpu] => runner[nd.cpu] \notin Live
         /\ parked[nd.cpu] => runner[nd.cpu] \notin Live
         /\ \A q \in Processes : ~Executes(nd.cpu, q)
<1> USE DEF BInv, Live, Quiet, BridgeTypes
<1>1. nd.cpu \in Nd5000s /\ nd.left = {} BY DEF NdInv
<1>2. leaving[nd.cpu] => runner[nd.cpu] \notin Live OBVIOUS
<1>3. parked[nd.cpu] => runner[nd.cpu] \notin Live BY <1>1, <1>2 DEF ThreadInv
<1>4. ASSUME NEW q \in Processes, Executes(nd.cpu, q) PROVE FALSE
  <2>1. loaded[nd.cpu] = q /\ runner[nd.cpu] \in Live BY <1>4 DEF Executes, Stops
  <2>2. ~parked[nd.cpu] BY <1>3, <2>1
  <2> QED BY <2>1, <2>2, BridgeAssumption DEF IsExecuting
<1> QED BY <1>1, <1>2, <1>3, <1>4

\* A process of which CopyInv says where its newest registers are.
Sound(p) == p \notin mixed /\ (Rests(p) \/ \E d \in Nd5000s : Executes(d, p))

(* mfbus_switch_to_process leaves the CPU with the newest registers of a      *)
(* process that rests, saves what it throws out, and takes no other CPU's     *)
(* copy away.                                                                *)
LEMMA CopyIsFresh ==
  ASSUME BInv, NEW c \in Nd5000s, NEW p \in Processes
  PROVE /\ Switched(c, p) \in [Processes -> SUBSET (Nd5000s \cup {"block"})]
        /\ Rests(p) /\ p \notin mixed => c \in Switched(c, p)[p]
        /\ \A q \in Processes : Sound(q) /\ "block" \in newest[q] => "block" \in Switched(c, p)[q]
        /\ \A q \in Processes, d \in Nd5000s \ {c} : d \in newest[q] => d \in Switched(c, p)[q]
<1> USE DEF BInv, BridgeTypes
<1> DEFINE q == loaded[c]
<1> DEFINE owned == q # Nobody /\ Owns(c, q)
<1> DEFINE w == IF owned THEN Saved(newest, c, q) ELSE newest
<1>1. owned => q \in Processes OBVIOUS
<1>2. ASSUME owned, Sound(q) PROVE c \in newest[q]
  <2>1. CASE Rests(q) BY <1>1, <1>2, <2>1 DEF CopyInv, Holds, Sound
  <2>2. CASE \E d \in Nd5000s : Executes(d, q)
    <3>1. PICK d \in Nd5000s : Executes(d, q) BY <2>2
    <3>2. owner[q] = d /\ d \in newest[q] BY <1>1, <1>2, <3>1 DEF CopyInv, Sound
    <3> QED BY <1>2, <3>2, BridgeAssumption DEF Owns
  <2> QED BY <1>2, <2>1, <2>2 DEF Sound
<1>3. w \in [Processes -> SUBSET (Nd5000s \cup {"block"})] BY DEF Saved
<1>4. \A r \in Processes, d \in Nd5000s : d \in newest[r] <=> d \in w[r]
  BY <1>1, BridgeAssumption DEF Saved
<1>5. \A r \in Processes : Sound(r) /\ "block" \in newest[r] => "block" \in w[r]
  BY <1>1, <1>2 DEF Saved
<1>6. Rests(p) /\ p \notin mixed => "block" \in w[p]
  BY <1>5 DEF CopyInv, Sound
<1>7. Loaded(w, c, p) \in [Processes -> SUBSET (Nd5000s \cup {"block"})] BY <1>3 DEF Loaded
<1>8. Rests(p) /\ p \notin mixed => c \in Loaded(w, c, p)[p] BY <1>6 DEF Loaded
<1>9. \A r \in Processes : Sound(r) /\ "block" \in newest[r] => "block" \in Loaded(w, c, p)[r]
  BY <1>5, BridgeAssumption DEF Loaded
<1>10. \A r \in Processes, d \in Nd5000s \ {c} : d \in newest[r] => d \in Loaded(w, c, p)[r]
  BY <1>3, <1>4 DEF Loaded
<1>11. (Switched(c, p) = newest /\ owned /\ q = p) \/ Switched(c, p) = Loaded(w, c, p)
  BY DEF Switched
<1>12. CASE Switched(c, p) = newest /\ owned /\ q = p
  BY <1>2, <1>12 DEF Sound
<1>13. CASE Switched(c, p) = Loaded(w, c, p)
  BY <1>7, <1>8, <1>9, <1>10, <1>13
<1> QED BY <1>11, <1>12, <1>13

(* The outcomes of mfbus_start_process keep BInv.                             *)
LEMMA TakesKeep ==
  ASSUME BInv, NEW p \in Processes,
         TakesResume(p) \/ TakesCopyFault(p) \/ TakesDefer(p) \/ TakesStart(p) \/ TakesRefuse(p)
  PROVE  BInv'
<1> USE BridgeAssumption DEF BInv, Live, slotVars, procVars, msgVars
<1> DEFINE c == nd.cpu
<1>0. Takes(p) BY DEF TakesResume, TakesCopyFault, TakesDefer, TakesStart, TakesRefuse
<1>a. /\ c \in Nd5000s /\ sta[p] = "tond500" /\ cpuOf[p] = c /\ nd.left = {}
      /\ Rests(p) /\ (p \notin mixed => "block" \in newest[p])
      /\ leaving[c] => runner[c] \notin Live
      /\ parked[c] => runner[c] \notin Live
      /\ \A q \in Processes : ~Executes(c, q)
  <2>1. nd.do = "walk" /\ ~IsExecuting(c) /\ Quiet(c) /\ p \in Queue(c) BY <1>0 DEF Takes
  <2>2. sta[p] = "tond500" /\ cpuOf[p] = c BY <2>1 DEF Queue
  <2>3. Rests(p) BY <2>2 DEF Rests
  <2>4. p \notin mixed => "block" \in newest[p] BY <2>3 DEF CopyInv
  <2> QED BY <2>1, <2>2, <2>3, <2>4, WalkFinds
<1>b. nd.do = "walk" /\ nd' = nd /\ cpuOf' = cpuOf /\ untold' = untold /\ kick' = kick
         /\ walkAgain' = walkAgain
   BY <1>0 DEF Takes
<1>t. leaving \in [Nd5000s -> BOOLEAN]
   BY DEF BridgeTypes
<1>c. ASSUME Joined(c), NEW d \in Nd5000s PROVE leaving'[d] <=> leaving[d] /\ d # c
   <2>1. leaving[c] => runner[c] \notin Live
      BY <1>a
   <2>2. leaving'[d] = IF d = c THEN leaving[c] /\ runner[c] \in Live ELSE leaving[d]
      BY <1>a, <1>c, <1>t DEF Joined
   <2> QED BY <2>1, <2>2
<1>d. Joined(c) => leaving' \in [Nd5000s -> BOOLEAN]
   BY <1>a DEF Joined, BridgeTypes
<1>1. CASE TakesResume(p) \/ TakesStart(p)
  <2>1. /\ loaded' = [loaded EXCEPT ![c] = p] /\ parked' = [parked EXCEPT ![c] = FALSE]
        /\ sta' = [sta EXCEPT ![p] = "waiting"] /\ deferred' = deferred /\ work' = work
        /\ runner[c] \notin Live
        /\ Resume(c, p)
    <3>1. CASE TakesResume(p)
      <4>1. parked[c] BY <3>1 DEF TakesResume
      <4>2. runner[c] \notin Live BY <4>1, <1>a
      <4> QED BY <3>1, <4>2 DEF TakesResume, Resume
    <3>2. CASE TakesStart(p)
      <4>1. runner[c] \notin Live BY <3>2, <1>a DEF TakesStart, Runner
      <4> QED BY <3>2, <4>1 DEF TakesStart, Resume
    <3> QED BY <1>1, <3>1, <3>2
  <2>2. /\ runner' = [runner EXCEPT ![c] = "running"] /\ at' = [at EXCEPT ![c] = "step"]
        /\ owner' = [owner EXCEPT ![p] = c] /\ Joined(c)
     BY <2>1 DEF Resume, Runner
  <2>3. /\ newest' \in [Processes -> SUBSET (Nd5000s \cup {"block"})] /\ mixed' \subseteq Processes
        /\ p \notin mixed' => c \in newest'[p]
        /\ \A q \in Processes : Sound(q) /\ "block" \in newest[q] => "block" \in newest'[q]
        /\ \A q \in Processes, d \in Nd5000s \ {c} : d \in newest[q] => d \in newest'[q]
        /\ \A q \in Processes \ {p} : q \in mixed <=> q \in mixed'
     <3>1. CASE TakesResume(p)
       <4>1. newest' = Switched(c, p) /\ mixed' = mixed BY <3>1 DEF TakesResume
       <4>2. mixed' \subseteq Processes BY <4>1 DEF BridgeTypes
       <4>3. /\ newest' \in [Processes -> SUBSET (Nd5000s \cup {"block"})]
             /\ p \notin mixed => c \in newest'[p]
             /\ \A q \in Processes : Sound(q) /\ "block" \in newest[q] => "block" \in newest'[q]
             /\ \A q \in Processes, d \in Nd5000s \ {c} : d \in newest[q] => d \in newest'[q]
         BY <4>1, <1>a, CopyIsFresh
       <4> QED BY <4>1, <4>2, <4>3
     <3>2. CASE TakesStart(p)
       <4>1. newest' = Loaded(newest, c, p) BY <3>2 DEF TakesStart
       <4>2. mixed' = IF "block" \in newest[p] THEN mixed \ {p} ELSE mixed BY <3>2 DEF TakesStart
       <4> QED BY <4>1, <4>2, <1>a, BridgeAssumption DEF Loaded, BridgeTypes
     <3> QED BY <1>1, <3>1, <3>2
  <2>4. preempted' \in [Processes -> BOOLEAN]
     <3>1. preempted' = preempted \/ preempted' = [preempted EXCEPT ![p] = FALSE]
        BY <1>1 DEF TakesResume, TakesStart
     <3> QED BY <3>1 DEF BridgeTypes
  <2>5. BridgeTypes' BY <1>b, <1>d, <2>1, <2>2, <2>3, <2>4 DEF BridgeTypes
  <2>6. NdInv' BY <1>b DEF NdInv
  <2>7. ThreadInv' BY <1>c, <2>1, <2>2 DEF ThreadInv, BridgeTypes
  <2>8. CopyInv'
    <3>0. /\ \A d \in Nd5000s : loaded'[d] = IF d = c THEN p ELSE loaded[d]
          /\ \A d \in Nd5000s \ {c} : at'[d] = at[d] /\ runner'[d] = runner[d] /\ (parked'[d] <=> parked[d])
          /\ \A q \in Processes : owner'[q] = IF q = p THEN c ELSE owner[q]
          /\ \A q \in Processes : sta'[q] = IF q = p THEN "waiting" ELSE sta[q]
          /\ at'[c] = "step"
      BY <1>a, <2>1, <2>2 DEF BridgeTypes
    <3>1. \A d \in Nd5000s \ {c}, q \in Processes : Executes(d, q)' => Executes(d, q)
      BY <1>b, <3>0 DEF Executes, Stops
    <3>2. \A q \in Processes : Executes(c, q)' => q = p BY <1>a, <1>b, <3>0 DEF Executes
    <3>3. \A d \in Nd5000s : ~Executes(d, p) /\ p \notin deferred[d] BY <1>a DEF CopyInv
    <3>4. ASSUME NEW d \in Nd5000s, NEW q \in Processes, Executes(d, q)'
          PROVE  /\ owner'[q] = d /\ sta'[q] = "waiting" /\ cpuOf'[q] = d /\ q \notin deferred'[d]
                 /\ q \notin mixed' => d \in newest'[q]
      <4>1. CASE d = c BY <4>1, <3>0, <3>2, <3>3, <3>4, <1>a, <1>b, <2>1, <2>3
      <4>2. CASE d # c
        <5>1. Executes(d, q) /\ q # p BY <4>2, <3>1, <3>3, <3>4
        <5>2. owner[q] = d /\ sta[q] = "waiting" /\ cpuOf[q] = d /\ q \notin deferred[d]
              /\ (q \notin mixed => d \in newest[q])
          BY <5>1 DEF CopyInv
        <5> QED BY <4>2, <5>1, <5>2, <3>0, <1>b, <2>1, <2>3
      <4> QED BY <4>1, <4>2
    <3>5. ASSUME NEW d \in Nd5000s, NEW q \in Processes, at'[d] = "report", loaded'[d] = q, q \notin mixed'
          PROVE  "block" \in newest'[q]
      <4>1. d # c /\ at[d] = "report" /\ loaded[d] = q BY <3>0, <3>5
      <4>2. Executes(d, q) BY <4>1 DEF ThreadInv, Executes
      <4>3. q # p BY <3>3, <4>2
      <4>4. q \notin mixed BY <2>3, <3>5, <4>3
      <4>5. Sound(q) /\ "block" \in newest[q] BY <4>1, <4>2, <4>4 DEF Sound, CopyInv
      <4> QED BY <4>5, <2>3
    <3>6. ASSUME NEW d \in Nd5000s, NEW q \in Processes, q \in deferred'[d]
          PROVE  sta'[q] = "waiting" /\ cpuOf'[q] = d
      BY <3>6, <3>0, <1>b, <2>1 DEF CopyInv
    <3>7. ASSUME NEW q \in Processes, Rests(q)', q \notin mixed'
          PROVE  "block" \in newest'[q] /\ \A d \in Nd5000s : Holds(d, q)' => d \in newest'[q]
      <4>1. q # p /\ Rests(q) BY <3>0, <3>3, <3>7, <2>1 DEF Rests
      <4>2. Sound(q) /\ "block" \in newest[q] /\ \A d \in Nd5000s : Holds(d, q) => d \in newest[q]
        BY <4>1, <3>7, <2>3 DEF Sound, CopyInv
      <4>3. \A d \in Nd5000s : Holds(d, q)' => d # c /\ Holds(d, q)
        BY <4>1, <3>0 DEF Holds, Owns
      <4> QED BY <4>2, <4>3, <2>3
    <3> QED BY <3>4, <3>5, <3>6, <3>7 DEF CopyInv
  <2>9. WorkKept'
    <3>1. ASSUME NEW q \in Processes, sta'[q] = "waiting"
          PROVE  LET d == cpuOf[q] IN
                   \/ q \in untold \cup deferred[d]
                   \/ loaded'[d] = q /\ runner'[d] \in Live /\ ~parked'[d] /\ at'[d] # "leave"
      <4>1. CASE q = p BY <4>1, <1>a, <2>1, <2>2 DEF BridgeTypes
      <4>2. CASE q # p /\ cpuOf[q] = c
        <5>1. sta[q] = "waiting" /\ ~Executes(c, q) BY <4>2, <3>1, <1>a, <2>1
        <5> QED BY <5>1, <4>2, <1>b DEF WorkKept, Executes
      <4>3. CASE q # p /\ cpuOf[q] # c
        <5>1. sta[q] = "waiting" /\ cpuOf[q] \in Nd5000s BY <4>3, <3>1, <2>1 DEF BridgeTypes
        <5> QED BY <5>1, <4>3, <1>a, <1>b, <2>1, <2>2 DEF WorkKept, BridgeTypes
      <4> QED BY <4>1, <4>2, <4>3
    <3>2. ASSUME NEW d \in Nd5000s
          PROVE  /\ deferred[d] # {} \/ walkAgain[d] => "DEFER" \in work
                 /\ kick[d] => "KICK" \in work \/ (\E e \in Nd5000s : at'[e] = "flag")
      <4>1. at[c] # "flag" BY <1>a, <2>1 DEF ThreadInv
      <4>2. \A e \in Nd5000s : at[e] = "flag" => at'[e] = "flag" BY <4>1, <2>2
      <4> QED BY <4>2, <1>a DEF WorkKept
    <3> QED BY <3>1, <3>2, <1>b, <2>1 DEF WorkKept
  <2> QED BY <2>5, <2>6, <2>7, <2>8, <2>9
<1>2. CASE TakesCopyFault(p)
  <2>1. /\ parked[c] /\ runner[c] \notin Live /\ Joined(c)
        /\ newest' = Saved([Switched(c, p) EXCEPT ![p] = {c}], c, p)
        /\ mixed' = IF \E d \in Nd5000s \ {c} : Holds(d, p) THEN mixed \cup {p} ELSE mixed
        /\ loaded' = [loaded EXCEPT ![c] = p]
        /\ sta' = [sta EXCEPT ![p] = "answer"]
        /\ runner' = [runner EXCEPT ![c] = Runner(c)]
        /\ Runner(c) \in {"idle", "stopped"} /\ (leaving[c] => Runner(c) = "idle")
        /\ UNCHANGED <<at, parked, deferred, owner, preempted, work>>
     BY <1>2, <1>a DEF TakesCopyFault, Runner, BridgeTypes
  <2>0. /\ \A d \in Nd5000s : loaded'[d] = IF d = c THEN p ELSE loaded[d]
        /\ \A q \in Processes : sta'[q] = IF q = p THEN "answer" ELSE sta[q]
        /\ at' = at /\ parked' = parked /\ deferred' = deferred /\ owner' = owner
        /\ \A d \in Nd5000s \ {c} : runner'[d] = runner[d]
        /\ \A q \in Processes \ {p} : q \in mixed' <=> q \in mixed
     BY <2>1 DEF BridgeTypes
  <2>2. /\ newest' \in [Processes -> SUBSET (Nd5000s \cup {"block"})] /\ mixed' \subseteq Processes
        /\ c \in newest'[p] /\ "block" \in newest'[p]
        /\ \A q \in Processes : Sound(q) /\ "block" \in newest[q] => "block" \in newest'[q]
        /\ \A q \in Processes \ {p}, d \in Nd5000s \ {c} : d \in newest[q] => d \in newest'[q]
     BY <1>a, <2>1, CopyIsFresh DEF Saved, BridgeTypes
  <2>3. BridgeTypes' BY <1>b, <1>d, <2>1, <2>2 DEF BridgeTypes
  <2>4. NdInv' BY <1>b DEF NdInv
  <2>5. ThreadInv' BY <1>c, <2>1 DEF ThreadInv
  <2>6. CopyInv'
    <3>0. /\ at[c] \notin {"report", "undo"}
          /\ \A d \in Nd5000s : ~Executes(d, p) /\ p \notin deferred[d]
      BY <1>a, <2>1 DEF ThreadInv, CopyInv
    <3>1. \A q \in Processes, d \in Nd5000s : Executes(d, q)' => d # c /\ q # p /\ Executes(d, q)
      <4>1. \A q \in Processes : ~Executes(c, q)' BY <3>0, <1>a, <1>b, <2>0, <2>1 DEF Executes
      <4>2. \A q \in Processes, d \in Nd5000s \ {c} : Executes(d, q)' => Executes(d, q)
        BY <1>b, <2>0 DEF Executes, Stops
      <4>3. ASSUME NEW q \in Processes, NEW d \in Nd5000s, Executes(d, q)' PROVE d # c
        <5>1. CASE d = c BY <4>1, <4>3, <5>1, <1>b
        <5> QED BY <5>1
      <4> QED BY <3>0, <4>2, <4>3
    <3>2. ASSUME NEW q \in Processes, NEW d \in Nd5000s, Executes(d, q)'
          PROVE  /\ owner'[q] = d /\ sta'[q] = "waiting" /\ cpuOf'[q] = d /\ q \notin deferred'[d]
                 /\ q \notin mixed' => d \in newest'[q]
      <4>1. d # c /\ q # p /\ Executes(d, q) BY <3>1, <3>2
      <4>2. owner[q] = d /\ sta[q] = "waiting" /\ cpuOf[q] = d /\ q \notin deferred[d]
            /\ (q \notin mixed => d \in newest[q])
        BY <4>1 DEF CopyInv
      <4> QED BY <4>1, <4>2, <1>b, <2>0, <2>2
    <3>3. ASSUME NEW q \in Processes, NEW d \in Nd5000s, at'[d] = "report", loaded'[d] = q, q \notin mixed'
          PROVE  "block" \in newest'[q]
      <4>1. d # c /\ at[d] = "report" /\ loaded[d] = q BY <3>0, <3>3, <2>0
      <4>2. Executes(d, q) BY <4>1 DEF ThreadInv, Executes
      <4>3. q # p /\ q \notin mixed BY <3>0, <3>3, <4>2, <2>0
      <4>4. Sound(q) /\ "block" \in newest[q] BY <4>1, <4>2, <4>3 DEF Sound, CopyInv
      <4> QED BY <4>4, <2>2
    <3>4. ASSUME NEW q \in Processes, NEW d \in Nd5000s, q \in deferred'[d]
          PROVE  sta'[q] = "waiting" /\ cpuOf'[q] = d
       BY <3>0, <3>4, <1>b, <2>0 DEF CopyInv
    <3>5. ASSUME NEW q \in Processes, Rests(q)', q \notin mixed'
          PROVE  "block" \in newest'[q] /\ \A d \in Nd5000s : Holds(d, q)' => d \in newest'[q]
      <4>1. CASE q = p
        <5>1. \A d \in Nd5000s \ {c} : ~Holds(d, p) BY <3>5, <4>1, <2>1
        <5>2. \A d \in Nd5000s : Holds(d, p)' => d = c BY <5>1, <2>0 DEF Holds, Owns
        <5> QED BY <4>1, <5>2, <2>2
      <4>2. CASE q # p
        <5>1. Rests(q) /\ q \notin mixed BY <4>2, <3>5, <2>0 DEF Rests
        <5>2. Sound(q) /\ "block" \in newest[q] /\ \A d \in Nd5000s : Holds(d, q) => d \in newest[q]
          BY <5>1 DEF Sound, CopyInv
        <5>3. \A d \in Nd5000s : Holds(d, q)' => d # c /\ Holds(d, q)
          BY <4>2, <2>0 DEF Holds, Owns
        <5> QED BY <4>2, <5>2, <5>3, <2>2
      <4> QED BY <4>1, <4>2
    <3> QED BY <3>2, <3>3, <3>4, <3>5 DEF CopyInv
  <2>7. WorkKept' BY <1>b, <2>1 DEF WorkKept
  <2> QED BY <2>3, <2>4, <2>5, <2>6, <2>7
<1>3. CASE TakesDefer(p)
  <2> USE <1>3 DEF TakesDefer, Takes, Queue, IsExecuting, Quiet, Runner
  <2>1. BridgeTypes' BY DEF BridgeTypes
  <2>2. NdInv' BY DEF NdInv
  <2>3. ThreadInv' BY DEF ThreadInv
  <2>4. CopyInv' BY DEF BridgeTypes, CopyInv, Rests, Holds, Owns, Executes, Stops
  <2>5. WorkKept' BY DEF BridgeTypes, WorkKept
  <2> QED BY <2>1, <2>2, <2>3, <2>4, <2>5
<1>4. CASE TakesRefuse(p)
  <2> USE <1>4 DEF TakesRefuse, Takes, Queue, IsExecuting, Quiet, Runner, Joined
  <2>1. BridgeTypes' BY DEF BridgeTypes
  <2>2. NdInv' BY DEF NdInv
  <2>3. ThreadInv' BY DEF BridgeTypes, ThreadInv
  <2>4. CopyInv' BY DEF ThreadInv, CopyInv, Rests, Holds, Owns, Executes, Stops
  <2>5. WorkKept' BY DEF WorkKept
  <2> QED BY <2>1, <2>2, <2>3, <2>4, <2>5
<1> QED BY <1>1, <1>2, <1>3, <1>4
-----------------------------------------------------------------------------
(* So does mfbus_load_named_process: a process that rests may move to the      *)
(* parked CPU, one that executes is not disturbed by a copy of its block.     *)
LEMMA AccessKeeps ==
  ASSUME BInv, NEW p \in Processes, TakesCopy(p)
  PROVE  BInv'
<1> USE BridgeAssumption DEF BInv, Live, slotVars, procVars, msgVars
<1> DEFINE c == nd.cpu
<1>a. /\ c \in Nd5000s /\ nd.do = "walk" /\ nd.left = {}
      /\ leaving[c] => runner[c] \notin Live
      /\ parked[c] => runner[c] \notin Live
      /\ \A q \in Processes : ~Executes(c, q)
  BY WalkFinds DEF TakesCopy
<1>b. UNCHANGED <<at, parked, walkAgain, deferred, owner, preempted, mixed, msgVars, bell, kick, work, nd>>
  BY DEF TakesCopy
<1>c. /\ Joined(c) /\ runner' = [runner EXCEPT ![c] = Runner(c)]
      /\ Runner(c) \in Live <=> runner[c] \in Live
      /\ leaving[c] => Runner(c) = "idle"
      /\ Runner(c) \in {"idle", runner[c]}
  BY <1>a DEF TakesCopy, Runner
<1>d. leaving' \in [Nd5000s -> BOOLEAN] /\ \A d \in Nd5000s : leaving'[d] <=> leaving[d] /\ d # c
  <2>1. leaving' = [leaving EXCEPT ![c] = FALSE] BY <1>a, <1>c DEF Joined, BridgeTypes
  <2> QED BY <2>1 DEF BridgeTypes
<1>e. /\ \A d \in Nd5000s \ {c} : loaded'[d] = loaded[d] /\ runner'[d] = runner[d]
      /\ runner'[c] \in Live <=> runner[c] \in Live
      /\ runner' \in [Nd5000s -> {"idle", "stopped", "running", "stopping"}]
      /\ loaded' \in [Nd5000s -> Processes \cup {Nobody}]
      /\ loaded'[c] = IF parked[c] THEN p ELSE loaded[c]
  BY <1>a, <1>c DEF TakesCopy, BridgeTypes
<1>f. /\ newest' \in [Processes -> SUBSET (Nd5000s \cup {"block"})]
      /\ parked[c] => (Rests(p) /\ p \notin mixed => c \in newest'[p])
      /\ ~parked[c] => newest' = newest
      /\ \A q \in Processes : Sound(q) /\ "block" \in newest[q] => "block" \in newest'[q]
      /\ \A q \in Processes, d \in Nd5000s \ {c} : d \in newest[q] => d \in newest'[q]
  BY <1>a, CopyIsFresh DEF TakesCopy, BridgeTypes
<1>1. BridgeTypes' BY <1>b, <1>d, <1>e, <1>f DEF BridgeTypes
<1>2. NdInv' BY <1>a, <1>b DEF NdInv
<1>3. ThreadInv' BY <1>a, <1>b, <1>c, <1>d, <1>e DEF ThreadInv, BridgeTypes
<1>4. CopyInv'
  <2>1. \A q \in Processes, d \in Nd5000s : Executes(d, q)' => d # c /\ Executes(d, q)
    <3>1. \A q \in Processes : ~Executes(c, q)'
      <4>1. CASE parked[c] BY <4>1, <1>a, <1>b, <1>e DEF Executes, Stops
      <4>2. CASE ~parked[c] BY <4>2, <1>a, <1>b, <1>e DEF Executes, Stops
      <4> QED BY <4>1, <4>2
    <3>2. \A q \in Processes, d \in Nd5000s \ {c} : Executes(d, q)' => Executes(d, q)
      BY <1>b, <1>e DEF Executes, Stops
    <3>3. ASSUME NEW q \in Processes, NEW d \in Nd5000s, Executes(d, q)' PROVE d # c
      <4>1. CASE d = c BY <3>1, <3>3, <4>1, <1>b
      <4> QED BY <4>1
    <3> QED BY <3>2, <3>3
  <2>2. ASSUME NEW q \in Processes, NEW d \in Nd5000s, Executes(d, q)'
        PROVE  /\ owner'[q] = d /\ sta'[q] = "waiting" /\ cpuOf'[q] = d /\ q \notin deferred'[d]
               /\ q \notin mixed' => d \in newest'[q]
    <3>1. d # c /\ Executes(d, q) BY <2>1, <2>2
    <3>2. owner[q] = d /\ sta[q] = "waiting" /\ cpuOf[q] = d /\ q \notin deferred[d]
          /\ (q \notin mixed => d \in newest[q])
      BY <3>1 DEF CopyInv
    <3> QED BY <3>1, <3>2, <1>b, <1>f
  <2>3. ASSUME NEW q \in Processes, NEW d \in Nd5000s, at'[d] = "report", loaded'[d] = q, q \notin mixed'
        PROVE  "block" \in newest'[q]
    <3>1. at[d] = "report" /\ runner[d] \in Live /\ ~parked[d] BY <2>3, <1>b DEF ThreadInv
    <3>2. d # c
      <4>1. loaded'[c] = loaded[c] \/ parked[c] BY <1>e
      <4> QED BY <2>3, <3>1, <4>1, <1>a DEF Executes
    <3>3. loaded[d] = q /\ Executes(d, q) BY <2>3, <3>1, <3>2, <1>e DEF Executes
    <3>4. Sound(q) /\ "block" \in newest[q] BY <2>3, <3>1, <3>3, <1>b DEF Sound, CopyInv
    <3> QED BY <3>4, <1>f
  <2>4. ASSUME NEW q \in Processes, NEW d \in Nd5000s, q \in deferred'[d]
        PROVE  sta'[q] = "waiting" /\ cpuOf'[q] = d
    BY <2>4, <1>b DEF CopyInv
  <2>5. ASSUME NEW q \in Processes, Rests(q)', q \notin mixed'
        PROVE  "block" \in newest'[q] /\ \A d \in Nd5000s : Holds(d, q)' => d \in newest'[q]
    <3>1. Rests(q) /\ q \notin mixed BY <2>5, <1>b DEF Rests
    <3>2. Sound(q) /\ "block" \in newest[q] /\ \A d \in Nd5000s : Holds(d, q) => d \in newest[q]
      BY <3>1 DEF Sound, CopyInv
    <3>3. ASSUME NEW d \in Nd5000s, Holds(d, q)' PROVE d \in newest'[q]
      <4>1. CASE d # c
        <5>1. Holds(d, q) BY <4>1, <3>3, <1>b, <1>e DEF Holds, Owns
        <5> QED BY <4>1, <5>1, <3>2, <1>f
      <4>2. CASE d = c /\ parked[c]
        <5>1. q = p BY <4>2, <3>3, <1>e DEF Holds
        <5> QED BY <4>2, <5>1, <3>1, <1>f
      <4>3. CASE d = c /\ ~parked[c]
        <5>1. Holds(d, q) BY <4>3, <3>3, <1>b, <1>e DEF Holds, Owns
        <5> QED BY <4>3, <5>1, <3>2, <1>f
      <4> QED BY <4>1, <4>2, <4>3
    <3> QED BY <3>2, <3>3, <1>f
  <2> QED BY <2>2, <2>3, <2>4, <2>5 DEF CopyInv
<1>5. WorkKept'
  <2>1. ASSUME NEW q \in Processes, sta'[q] = "waiting"
        PROVE  LET d == cpuOf'[q] IN
                 \/ q \in untold' \cup deferred'[d]
                 \/ loaded'[d] = q /\ runner'[d] \in Live /\ ~parked'[d] /\ at'[d] # "leave"
    <3>1. sta[q] = "waiting" /\ cpuOf[q] \in Nd5000s BY <2>1, <1>b DEF BridgeTypes
    <3> QED BY <3>1, <1>a, <1>b, <1>e DEF WorkKept
  <2> QED BY <2>1, <1>b DEF WorkKept
<1> QED BY <1>1, <1>2, <1>3, <1>4, <1>5
-----------------------------------------------------------------------------
(* So do SINTRAN's messages, its kicks, starts by hand, and resets.           *)
LEMMA SintranKeeps ==
  ASSUME BInv, Sintran \/ AskStop("clear", "reset") \/ Reset
  PROVE  BInv'
<1> USE BridgeAssumption DEF BInv, Live, slotVars, procVars, msgVars
<1>1. ASSUME NEW p \in Processes, NEW c \in Nd5000s, NEW f \in {"start", "cont"}, SintranSends(p, c, f)
      PROVE BInv'
  <2> USE <1>1 DEF SintranSends, Idle, Owns
  <2>1. BridgeTypes' BY DEF BridgeTypes
  <2>2. NdInv' BY DEF NdInv
  <2>3. ThreadInv' BY DEF ThreadInv
  <2>4. CopyInv' BY DEF BridgeTypes, CopyInv, Rests, Holds, Owns, Executes, Stops
  <2>5. WorkKept' BY DEF WorkKept
  <2> QED BY <2>1, <2>2, <2>3, <2>4, <2>5
<1>2. ASSUME NEW c \in Nd5000s, SintranKicks(c) PROVE BInv'
  <2> USE <1>2 DEF SintranKicks, Idle
  <2>1. BridgeTypes' BY DEF BridgeTypes, NdStates
  <2>2. NdInv' BY DEF NdInv
  <2>3. ThreadInv' BY DEF ThreadInv
  <2>4. CopyInv' BY DEF CopyInv, Rests, Holds, Owns, Executes, Stops
  <2>5. WorkKept' BY DEF WorkKept
  <2> QED BY <2>1, <2>2, <2>3, <2>4, <2>5
<1>3. ASSUME NEW c \in Nd5000s, SintranResets(c) PROVE BInv'
  <2> USE <1>3 DEF SintranResets, Idle
  <2>1. BridgeTypes' BY DEF BridgeTypes, NdStates
  <2>2. NdInv' BY DEF NdInv
  <2>3. ThreadInv' BY DEF ThreadInv
  <2>4. CopyInv' BY DEF CopyInv, Rests, Holds, Owns, Executes, Stops
  <2>5. WorkKept' BY DEF WorkKept
  <2> QED BY <2>1, <2>2, <2>3, <2>4, <2>5
<1>4. ASSUME NEW c \in Nd5000s, StartByHand(c) PROVE BInv'
  <2> USE <1>4 DEF StartByHand, Idle
  <2>1. BridgeTypes' BY DEF BridgeTypes
  <2>2. NdInv' BY DEF NdInv
  <2>3. ThreadInv' BY DEF ThreadInv
  <2>4. CopyInv' BY DEF CopyInv, Rests, Holds, Owns, Executes, Stops
  <2>5. WorkKept' BY DEF ThreadInv, WorkKept
  <2> QED BY <2>1, <2>2, <2>3, <2>4, <2>5
<1>5. CASE AskStop("clear", "reset")
  <2> USE <1>5 DEF AskStop
  <2>1. BridgeTypes' BY DEF BridgeTypes, NdStates
  <2>2. NdInv' BY DEF NdInv
  <2>3. ThreadInv' BY DEF NdInv, ThreadInv
  <2>4. CopyInv' BY DEF CopyInv, Rests, Holds, Owns, Executes, Stops
  <2>5. WorkKept' BY DEF WorkKept
  <2> QED BY <2>1, <2>2, <2>3, <2>4, <2>5
<1>6. CASE Reset
  <2> USE <1>6 DEF Reset, Idle
  <2>1. BridgeTypes' BY DEF BridgeTypes, NdStates
  <2>2. NdInv' BY DEF NdInv
  <2>3. ThreadInv' BY DEF BridgeTypes, ThreadInv
  <2>4. CopyInv' BY DEF BridgeTypes, NdInv, CopyInv, Rests, Holds, Owns, Executes, Stops
  <2>5. WorkKept'
    <3>1. \A p \in Processes : sta'[p] = "waiting" => sta[p] = "waiting"
             /\ cpuOf[p] # nd.cpu
      BY DEF BridgeTypes
    <3>2. nd.cpu \in Nd5000s /\ nd.left = {} BY DEF NdInv
    <3>3. \A d \in Nd5000s \ {nd.cpu} : /\ deferred'[d] = deferred[d] /\ loaded'[d] = loaded[d]
                                       /\ runner'[d] = runner[d] /\ (parked'[d] <=> parked[d])
 OBVIOUS
    <3>4. ASSUME NEW p \in Processes, sta'[p] = "waiting"
          PROVE  LET d == cpuOf[p] IN
                   \/ p \in untold \cup deferred'[d]
                   \/ loaded'[d] = p /\ runner'[d] \in Live /\ ~parked'[d] /\ at[d] # "leave"
       <4>1. cpuOf[p] \in Nd5000s \ {nd.cpu} /\ sta[p] = "waiting" BY <3>4 DEF BridgeTypes
       <4> QED BY <3>3, <4>1 DEF WorkKept
    <3>5. ASSUME NEW d \in Nd5000s, deferred'[d] # {} \/ walkAgain'[d] PROVE "DEFER" \in work'
       BY <3>5 DEF WorkKept
    <3>6. ASSUME NEW d \in Nd5000s, kick'[d]
          PROVE "KICK" \in work' \/ (\E e \in Nd5000s : at'[e] = "flag")
       BY <3>6, <3>2 DEF WorkKept
    <3> QED BY <3>4, <3>5, <3>6 DEF WorkKept
  <2> QED BY <2>1, <2>2, <2>3, <2>4, <2>5
<1> QED BY <1>1, <1>2, <1>3, <1>4, <1>5, <1>6 DEF Sintran
-----------------------------------------------------------------------------
(* The bridge starts with no message, no thread and every process in its      *)
(* context block.                                                           *)
LEMMA BInvInit == BridgeInit => BInv
  BY BridgeAssumption
     DEF BridgeInit, Idle, BInv, BridgeTypes, NdInv, NdStates, ThreadInv, CopyInv, WorkKept,
     Rests, Holds, Executes, Stops, Live

(* Every step of tick, SINTRAN and host threads keeps BInv.                   *)
LEMMA BInvNext == BInv /\ [BridgeNext]_bridgeVars => BInv'
<1> SUFFICES ASSUME BInv, [BridgeNext]_bridgeVars PROVE BInv' OBVIOUS
<1>1. CASE UNCHANGED bridgeVars
   BY <1>1 DEF bridgeVars, slotVars, procVars, msgVars, BInv, BridgeTypes, NdInv,
      ThreadInv, CopyInv, Rests, Holds, Owns, Executes, Stops, WorkKept
<1>2. CASE Tick BY <1>2, KicksKeep, DeferredKeep, TakesKeep, AccessKeeps, SintranKeeps DEF Tick
<1>3. CASE Sintran BY <1>3, SintranKeeps
<1>4. CASE \E c \in Nd5000s : Host(c) BY <1>4, HostKeeps
<1> QED BY <1>1, <1>2, <1>3, <1>4 DEF BridgeNext

(* Hence BInv holds always.                                                  *)
LEMMA BInvAlways == BridgeSpec => []BInv
<1>1. BInv /\ [BridgeNext]_bridgeVars => BInv' BY BInvNext
<1> QED BY <1>1, BInvInit, PTL DEF BridgeSpec

(* A message taken from the queue is executed, waits in its CPU's table, or   *)
(* belongs to a process that stopped unreported; deferred messages and kicks *)
(* have the flag that makes the tick look at them.                           *)
THEOREM NoWorkForgotten == BridgeSpec => []WorkKept
<1>1. BInv => WorkKept BY DEF BInv
<1> QED BY <1>1, BInvAlways, PTL

(* A CPU executes a process from the newest copy of its registers, although   *)
(* processes move between CPUs and the copies they leave behind stay; and it  *)
(* goes on doing so whatever START, copy fault or reset comes, except for a   *)
(* process of which that START, copy fault or reset has left two copies that  *)
(* pass for the newest, until a START takes it from its block.               *)
THEOREM NewestResumed == BridgeSpec => []ResumesNewest
<1>1. BInv => ResumesNewest
   BY DEF BInv, BridgeTypes, CopyInv, Executes, Live, ResumesNewest
<1> QED BY <1>1, BInvAlways, PTL
=============================================================================
