--------------------------- MODULE MCPeripherals ---------------------------
(***************************************************************************)
(* The slow peripherals for model checking.  They share nothing but the    *)
(* machine that ticks them, so a behaviour exercises one of them, chosen   *)
(* at the start: the state spaces add up instead of multiplying.           *)
(***************************************************************************)
EXTENDS Terminal, RealTimeClock, PaperDevices, Panel

VARIABLE fitted   \* the peripheral this behaviour is about

vars == <<fitted, ttyVars, rtcVars, paperVars, panVars>>

Init ==
  /\ fitted \in {"terminal", "rtc", "paper", "panel"}
  /\ TerminalInit /\ RtcInit /\ PaperInit /\ PanelInit
  \* one way to leave alone what is not fitted
  /\ (fitted # "terminal" => ttyShared = FALSE) /\ (fitted # "rtc" => rtcWall = FALSE)
  /\ (fitted # "panel" => \A t \in HostTimes : panNow <= t)

\* What the machine does by itself, and what the host's time does.
Thread ==
  \/ fitted = "terminal" /\ TerminalThread /\ UNCHANGED <<fitted, rtcVars, paperVars, panVars>>
  \/ fitted = "rtc" /\ RtcTick /\ UNCHANGED <<fitted, ttyVars, paperVars, panVars>>

Time == fitted = "rtc" /\ HostTimePasses /\ UNCHANGED <<fitted, ttyVars, paperVars, panVars>>

Next ==
  \/ fitted = "terminal" /\ TerminalNext /\ UNCHANGED <<fitted, rtcVars, paperVars, panVars>>
  \/ fitted = "rtc" /\ RtcNext /\ UNCHANGED <<fitted, ttyVars, paperVars, panVars>>
  \/ fitted = "paper" /\ PaperNext /\ UNCHANGED <<fitted, ttyVars, rtcVars, panVars>>
  \/ fitted = "panel" /\ PanelNext /\ UNCHANGED <<fitted, ttyVars, rtcVars, paperVars>>

(* Devices are ticked for ever, and time goes on. *)
Spec == Init /\ [][Next]_vars /\ WF_vars(Thread) /\ WF_vars(Time)
-----------------------------------------------------------------------------
(* The interrupt bits of the terminal, the line printer, the paper tape       *)
(* reader and the punch follow from their status and enable bits after every  *)
(* access and every tick: no driver waits for an interrupt the registers      *)
(* promise, whatever order ends, controls and IDENTs come in.  The clock, on   *)
(* which that is not true, at least never interrupts without a cause.          *)
InterruptsCoherent == TerminalInterrupts /\ PaperInterrupts /\ ClockInterrupts
=============================================================================
