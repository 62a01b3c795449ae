------------------------------- MODULE Panel -------------------------------
(***************************************************************************)
(* The display panel processor of src/src/devices/panel/panel.c: the       *)
(* commands TRR PANC gives it, its text buffer, and the hardware clock it  *)
(* derives from the host's time of day.  Host time is seconds since the    *)
(* base of the clock, taken from a set of instants.                        *)
(***************************************************************************)
EXTENDS Integers

CONSTANTS HostTimes,     \* the instants at which commands are given
          DisplaySize,   \* sizeof(func_display)
          WrittenBytes   \* the bytes programs write to the clock

ASSUME PanelAssumption ==
  /\ HostTimes \subseteq Nat /\ HostTimes # {} /\ DisplaySize \in Nat \ {0}
  /\ WrittenBytes \subseteq 0..255

VARIABLES
  panNow,       \* the host's time
  panSeconds, panDays,   \* the 16-bit registers of the clock
  panText,      \* fdisp_cntr
  panMode,      \* function_mode
  panAnswer,    \* gPANS: does it hold a byte that was read, and which
  panUpdated    \* history: the registers are as update_machine_time() left them at panNow

panVars == <<panNow, panSeconds, panDays, panText, panMode, panAnswer, panUpdated>>

Hour == 3600
Day == 24 * Hour
HalfDay == 12 * Hour
Word16 == 65536
NoAnswer == [valid |-> FALSE, byte |-> 0]

(* update_machine_time().  Before 11 o'clock "midnight" is still now.  At 11 *)
(* the difference is negative, and what becomes of it in an unsigned         *)
(* register is up to the machine: truncated or saturated.                    *)
ClockSeconds(t) ==
  LET ofDay == t % Day
  IN  IF ofDay < 11 * Hour THEN {0}
      ELSE IF ofDay >= HalfDay THEN {ofDay - HalfDay}
      ELSE {(ofDay - HalfDay) % Word16, 0}

ClockDays(t) == (2 * (t \div Day) + (IF t % Day >= 11 * Hour THEN 1 ELSE 0)) % Word16

(* panel_setup_pap() *)
PanelInit ==
  /\ panNow \in HostTimes
  /\ panSeconds \in ClockSeconds(panNow) /\ panDays = ClockDays(panNow)
  /\ panText = 0 /\ panMode = 0 /\ panAnswer = NoAnswer /\ panUpdated = TRUE
-----------------------------------------------------------------------------
HostClockMoves ==
  /\ \E t \in HostTimes : t > panNow /\ panNow' = t
  /\ panUpdated' = FALSE
  /\ UNCHANGED <<panSeconds, panDays, panText, panMode, panAnswer>>

(* The byte a read request is answered with, of a register's two. *)
ByteOf(register, high) == IF high THEN register \div 256 ELSE register % 256
WithByte(register, high, byte) ==
  IF high THEN byte * 256 + (register % 256) ELSE (register \div 256) * 256 + byte

(* A read request brings the clock up to date; the four clock functions     *)
(* answer with a byte, the others with none.                                 *)
PancReadClock(days, high) ==
  /\ panSeconds' \in ClockSeconds(panNow) /\ panDays' = ClockDays(panNow) /\ panUpdated' = TRUE
  /\ panAnswer' = [valid |-> TRUE, byte |-> ByteOf(IF days THEN panDays' ELSE panSeconds', high)]
  /\ UNCHANGED <<panNow, panText, panMode>>

PancReadOther ==
  /\ panSeconds' \in ClockSeconds(panNow) /\ panDays' = ClockDays(panNow) /\ panUpdated' = TRUE
  /\ panAnswer' = NoAnswer /\ UNCHANGED <<panNow, panText, panMode>>

PancWriteClock(days, high, byte) ==
  /\ IF days THEN panDays' = WithByte(panDays, high, byte) /\ UNCHANGED panSeconds
             ELSE panSeconds' = WithByte(panSeconds, high, byte) /\ UNCHANGED panDays
  /\ panUpdated' = FALSE /\ panAnswer' = NoAnswer /\ UNCHANGED <<panNow, panText, panMode>>

(* Message append: a character that does not fit is dropped. *)
PancAppend ==
  /\ panText' = IF panText < DisplaySize - 1 THEN panText + 1 ELSE panText
  /\ panAnswer' = NoAnswer /\ UNCHANGED <<panNow, panSeconds, panDays, panMode, panUpdated>>

(* process_message_control(): a mode to enter, a text to clear, or both. *)
PancMessageControl(clear, mode) ==
  /\ panText' = IF clear THEN 0 ELSE panText
  /\ panMode' = mode
  /\ panAnswer' = NoAnswer /\ UNCHANGED <<panNow, panSeconds, panDays, panUpdated>>

(* panel_process_terminal_lamp() *)
PanelLamp ==
  /\ panAnswer' = NoAnswer
  /\ UNCHANGED <<panNow, panSeconds, panDays, panText, panMode, panUpdated>>

PanelNext ==
  \/ HostClockMoves \/ PancReadOther \/ PancAppend \/ PanelLamp
  \/ \E d, h \in BOOLEAN : PancReadClock(d, h)
  \/ \E d, h \in BOOLEAN, b \in WrittenBytes : PancWriteClock(d, h, b)
  \/ \E m \in {0, 1, 2} : PancMessageControl(FALSE, m)
  \/ \E m \in {panMode, 2} : PancMessageControl(TRUE, m)

PanelSpec == PanelInit /\ [][PanelNext]_panVars
-----------------------------------------------------------------------------
(* Types: the clock's registers hold 16 bits, and the text leaves room for   *)
(* its terminator.                                                           *)
PanelTypeOK ==
  /\ panNow \in HostTimes /\ panSeconds \in 0..(Word16 - 1) /\ panDays \in 0..(Word16 - 1)
  /\ panText \in 0..(DisplaySize - 1) /\ panMode \in 0..2
  /\ panAnswer \in [valid : BOOLEAN, byte : 0..255] /\ panUpdated \in BOOLEAN

(* "The clock counts seconds and half-days (12 hours)", as the comment on    *)
(* update_machine_time() says: a register just brought up to date holds the  *)
(* half-days since the base and the seconds of the current one.              *)
PanelKeepsTime ==
  panUpdated => panDays = panNow \div HalfDay /\ panSeconds = panNow % HalfDay
=============================================================================
