--------------------------- MODULE RealTimeClock ---------------------------
(***************************************************************************)
(* The real-time clock of src/src/devices/rtc/device_rtc.c, in both of its *)
(* time bases: wall-clock, where a pulse is due every Period of host time  *)
(* and the host's clock is read once per batch of ticks, and ticks, where  *)
(* it is due every Division ticks.                                         *)
(*                                                                         *)
(* Absolute host time only enters through differences, so the model keeps  *)
(* those: how far the next pulse is from now, and how long ago the clock   *)
(* was last read.                                                          *)
(***************************************************************************)
EXTENDS Integers

CONSTANTS Period,       \* RTC_WALL_PERIOD_NS
          Division,     \* TICKS_20MS
          Backlog,      \* how many periods the pulses may fall behind
          BatchNs,      \* RTC_WALL_BATCH_NS
          BatchMax,     \* RTC_WALL_BATCH_MAX
          MaxGap        \* bound: longest time between two readings of the clock

ASSUME RtcAssumption ==
  /\ Period \in Nat \ {0} /\ Division \in Nat \ {0} /\ Backlog \in Nat
  /\ BatchNs \in Nat /\ BatchMax \in Nat /\ MaxGap \in Nat

VARIABLES
  rtcWall,      \* rtc_wall_clock_mode
  rtcCounter,   \* rtcCounter
  rtcArmed,     \* nextPulseNs # 0
  rtcDue,       \* nextPulseNs - now
  rtcRead,      \* wallLastReadNs # 0
  rtcSince,     \* now - wallLastReadNs
  rtcBatch, rtcSkip,       \* wallBatch, wallSkip
  rtcEnabled, rtcReady,    \* statusRegister
  rtcIrq                   \* bit 13 of interruptBits

rtcHost == <<rtcArmed, rtcDue, rtcRead, rtcSince, rtcBatch, rtcSkip>>
rtcVars == <<rtcWall, rtcCounter, rtcHost, rtcEnabled, rtcReady, rtcIrq>>

(* rtc_reset(); the mode is set from the configuration before the machine runs. *)
RtcInit ==
  /\ rtcWall \in BOOLEAN /\ rtcCounter = 0
  /\ rtcArmed = FALSE /\ rtcDue = 0 /\ rtcRead = FALSE /\ rtcSince = 0
  /\ rtcBatch = 0 /\ rtcSkip = 0
  /\ rtcEnabled = FALSE /\ rtcReady = FALSE /\ rtcIrq = FALSE
-----------------------------------------------------------------------------
(* Host time passes between two ticks. *)
HostTimePasses ==
  /\ rtcWall /\ rtcSince < MaxGap
  /\ rtcSince' = IF rtcRead THEN rtcSince + 1 ELSE 0
  /\ rtcDue' = IF rtcArmed THEN rtcDue - 1 ELSE 0
  /\ UNCHANGED <<rtcWall, rtcCounter, rtcArmed, rtcRead, rtcBatch, rtcSkip,
                 rtcEnabled, rtcReady, rtcIrq>>

(* A pulse: ready, and the interrupt when it is enabled. *)
RtcPulse == rtcReady' = TRUE /\ rtcIrq' = (rtcIrq \/ rtcEnabled)
NoPulse == UNCHANGED <<rtcReady, rtcIrq>>

\* rtc_clear_clock_ticks() as it was: the pulse re-armed with the countdown.
BadClearClockTicks == rtcCounter' = Division /\ rtcDue' = Period
                      /\ UNCHANGED <<rtcArmed, rtcRead, rtcSince, rtcBatch, rtcSkip>>
(* rtc_clear_clock_ticks(): the countdown only, the pulse train runs on. *)
ClearClockTicks == rtcCounter' = Division /\ UNCHANGED rtcHost

(* The ticks until the clock is read again, from the tick rate just measured. *)
NewBatch ==
  LET perTick == rtcSince \div (rtcBatch + 1)
  IN  IF ~rtcRead THEN 0
      ELSE IF perTick = 0 \/ BatchNs \div perTick >= BatchMax THEN BatchMax
      ELSE BatchNs \div perTick

(* nextPulseNs after a pulse: one period on, or resynchronised. *)
BadDueAfterPulse(due) == due + Period
DueAfterPulse(due) == IF -(due + Period) > Backlog * Period THEN Period ELSE due + Period

(* rtc_tick(), wall-clock mode, within a batch. *)
CountedDown == IF rtcCounter - 1 <= 0 THEN Division ELSE rtcCounter - 1
TickSkipped ==
  /\ rtcWall /\ rtcSkip > 0 /\ rtcSkip' = rtcSkip - 1 /\ rtcCounter' = CountedDown
  /\ UNCHANGED <<rtcWall, rtcArmed, rtcDue, rtcRead, rtcSince, rtcBatch, rtcEnabled, rtcReady, rtcIrq>>

(* The tick that reads the host's clock. *)
TickReadsClock ==
  LET due == IF rtcArmed THEN rtcDue ELSE Period
  IN  /\ rtcWall /\ rtcSkip = 0
      /\ rtcBatch' = NewBatch /\ rtcSkip' = NewBatch
      /\ rtcRead' = TRUE /\ rtcSince' = 0 /\ rtcArmed' = TRUE
      /\ IF due <= 0
           THEN RtcPulse /\ rtcCounter' = Division /\ rtcDue' = DueAfterPulse(due)
           ELSE NoPulse /\ rtcCounter' = CountedDown /\ rtcDue' = due
      /\ UNCHANGED <<rtcWall, rtcEnabled>>

(* rtc_tick(), instruction ticks. *)
TickCounts ==
  /\ ~rtcWall
  /\ IF rtcCounter - 1 <= 0 THEN RtcPulse /\ rtcCounter' = Division
                            ELSE NoPulse /\ rtcCounter' = rtcCounter - 1
  /\ UNCHANGED <<rtcWall, rtcHost, rtcEnabled>>

RtcTick == TickSkipped \/ TickReadsClock \/ TickCounts
-----------------------------------------------------------------------------
(* rtc_write(): RTC_CLEAR_COUNTER. *)
RtcClearCounter ==
  /\ ClearClockTicks /\ rtcReady' = FALSE /\ rtcIrq' = FALSE /\ UNCHANGED <<rtcWall, rtcEnabled>>

(* rtc_write(): RTC_WRITE_CONTROL. *)
RtcWriteControl(enable, clearReady, restart) ==
  /\ rtcEnabled' = enable
  /\ rtcReady' = (rtcReady /\ ~clearReady)
  /\ rtcIrq' = (rtcIrq /\ enable /\ ~clearReady)
  /\ IF restart THEN ClearClockTicks ELSE UNCHANGED <<rtcCounter, rtcHost>>
  /\ UNCHANGED rtcWall

(* rtc_ident() *)
RtcIdent ==
  /\ rtcIrq /\ ClearClockTicks /\ rtcEnabled' = FALSE /\ rtcIrq' = FALSE
  /\ UNCHANGED <<rtcWall, rtcReady>>

RtcNext ==
  \/ HostTimePasses \/ RtcTick \/ RtcClearCounter \/ RtcIdent
  \/ \E e, c, r \in BOOLEAN : RtcWriteControl(e, c, r)
-----------------------------------------------------------------------------
(* Types, and the range of the countdown a program can read. *)
RtcTypeOK ==
  /\ {rtcWall, rtcArmed, rtcRead, rtcEnabled, rtcReady, rtcIrq} \subseteq BOOLEAN
  /\ rtcCounter \in 0..Division /\ rtcDue \in Int /\ rtcSince \in 0..MaxGap
  /\ rtcBatch \in 0..BatchMax /\ rtcSkip \in 0..rtcBatch

(* Pulses missed in a stall are made up for but do not queue without bound:  *)
(* whenever the clock has just been read, the next pulse is due within one   *)
(* period and at most Backlog periods overdue.                               *)
RtcBacklogBounded ==
  rtcArmed /\ rtcSince = 0 => rtcDue \in -(Backlog * Period)..Period

(* The clock requests an interrupt only while the program has it enabled and  *)
(* the pulse that caused it still stands as ready.  The converse is not so:   *)
(* enabling the interrupt of a pulse that has come raises none.               *)
ClockInterrupts == rtcIrq => rtcEnabled /\ rtcReady

(* The wall clock cannot be held up by the program: though its handler      *)
(* clears and restarts the counter at will, a pulse comes while it leaves    *)
(* the interrupt enabled.                                                    *)
RtcPulseComes == rtcWall /\ rtcEnabled ~> rtcIrq \/ ~rtcEnabled
=============================================================================
