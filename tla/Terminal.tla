------------------------------ MODULE Terminal ------------------------------
(***************************************************************************)
(* The terminal interface of src/src/devices/terminal/device_terminal.c:   *)
(* the UART the program sees through IOX, and the queue of keys on the     *)
(* host's side of the line.  A shared queue is filled by another host      *)
(* thread (telnet client or DAP server) and the two threads' updates of    *)
(* its count are a load and a store each; any other is filled by the main  *)
(* loop, which is the CPU thread.                                          *)
(*                                                                         *)
(* Keys are numbered in the order they are typed, modulo KeyNumbers, so    *)
(* that a run has no end and an order can be stated.  Parity and character *)
(* length change the bits of a key and nothing else; they are left out.    *)
(***************************************************************************)
EXTENDS Integers, Sequences

CONSTANTS QueueSize,     \* TERMINAL_QUEUE_SIZE
          KeyNumbers,    \* how many numbers keys have, more than fit in the queue
          CharTicks,     \* terminal_char_ticks(): the line time of a character
          WriteTicks,    \* IODELAY_TERMINAL
          MaxWrites,     \* bound: characters on their way out
          SharedQueues   \* {FALSE}: the main loop's terminal, {TRUE}: another thread's

ASSUME TerminalAssumption ==
  /\ QueueSize \in Nat \ {0} /\ KeyNumbers \in Nat /\ KeyNumbers > QueueSize + 1
  /\ CharTicks \in Nat \ {0} /\ WriteTicks \in Nat \ {0} /\ MaxWrites \in Nat \ {0}
  /\ SharedQueues \subseteq BOOLEAN

VARIABLES
  ttyShared,                            \* keys are queued by another thread
  ttyBuf, ttyHead, ttyTail, ttyCount,   \* inputQueue
  ttyTimed, ttyLeft,                    \* lineTimed, lineTicksLeft
  ttyUart,                              \* uartInputBuf
  ttyIn,       \* inputStatus: enabled, ready, overrun
  ttyOut,      \* outputStatus: enabled, ready
  ttyTest,     \* testMode of the input control word
  ttyIrq,      \* interruptBits
  ttyDelays,   \* ticks left of each queued write_end()
  ttyHost,     \* the count the host thread has loaded, -1 when it is not in the queue
  ttyTake,     \* the count the CPU thread has loaded, -1 likewise
  ttyNext,     \* history: number of the next key to be typed
  ttyDue       \* history: number of the next key the UART must get

ttyQueue == <<ttyShared, ttyBuf, ttyHead, ttyTail, ttyCount, ttyHost, ttyTake, ttyNext, ttyDue>>
ttyLine == <<ttyTimed, ttyLeft, ttyUart>>
ttyRegs == <<ttyIn, ttyOut, ttyTest, ttyIrq, ttyDelays>>
ttyVars == <<ttyQueue, ttyLine, ttyRegs>>

(* dev_set_interrupt_status() *)
TtySetInterrupt(bits, active, level) == IF active THEN bits \cup {level} ELSE bits \ {level}

NextKey(k) == (k + 1) % KeyNumbers
NextPlace(p) == (p + 1) % QueueSize

(* terminal_create_device() *)
TerminalInit ==
  /\ ttyShared \in SharedQueues
  /\ ttyBuf = [p \in 0..(QueueSize - 1) |-> 0] /\ ttyHead = 0 /\ ttyTail = 0 /\ ttyCount = 0
  /\ ttyTimed = FALSE /\ ttyLeft = 0 /\ ttyUart = 0
  /\ ttyIn = [enabled |-> FALSE, ready |-> FALSE, overrun |-> FALSE]
  /\ ttyOut = [enabled |-> FALSE, ready |-> TRUE]
  /\ ttyTest = FALSE /\ ttyIrq = {} /\ ttyDelays = <<>>
  /\ ttyHost = -1 /\ ttyTake = -1 /\ ttyNext = 0 /\ ttyDue = 0
-----------------------------------------------------------------------------
\* The key stored one place on, past the tail.
BadPutKey ==
  /\ ttyBuf' = [ttyBuf EXCEPT ![NextPlace(ttyTail)] = ttyNext] /\ ttyTail' = NextPlace(ttyTail)
  /\ ttyNext' = NextKey(ttyNext)
(* terminal_queue_key_code(), up to the update of the count. *)
PutKey ==
  /\ ttyBuf' = [ttyBuf EXCEPT ![ttyTail] = ttyNext] /\ ttyTail' = NextPlace(ttyTail)
  /\ ttyNext' = NextKey(ttyNext)

(* All of it, on the CPU thread. *)
QueueKeyCode ==
  IF ttyCount >= QueueSize
    THEN ttyIn' = [ttyIn EXCEPT !.overrun = TRUE]
         /\ UNCHANGED <<ttyBuf, ttyTail, ttyNext, ttyCount>>
    ELSE PutKey /\ ttyCount' = ttyCount + 1 /\ UNCHANGED ttyIn

(* A key of the main loop; it asks terminal_input_room() first. *)
KeyTyped ==
  /\ ~ttyShared /\ ttyCount < QueueSize /\ QueueKeyCode
  /\ UNCHANGED <<ttyShared, ttyHead, ttyHost, ttyTake, ttyDue, ttyLine, ttyOut, ttyTest, ttyIrq, ttyDelays>>

(* A key of another thread: the room is asked for, the key is put, the count *)
(* loaded ...                                                                *)
HostPut ==
  /\ ttyShared /\ ttyHost = -1 /\ ttyCount < QueueSize
  /\ PutKey /\ ttyHost' = ttyCount
  /\ UNCHANGED <<ttyShared, ttyHead, ttyCount, ttyTake, ttyDue, ttyLine, ttyRegs>>

(* ... and stored. *)
HostCount ==
  /\ ttyHost # -1 /\ ttyCount' = ttyHost + 1 /\ ttyHost' = -1
  /\ UNCHANGED <<ttyShared, ttyBuf, ttyHead, ttyTail, ttyTake, ttyNext, ttyDue, ttyLine, ttyRegs>>
-----------------------------------------------------------------------------
(* dev_tick_io_delay() with write_end(): the characters that are out. *)
Ended == \E i \in DOMAIN ttyDelays : ttyDelays[i] = 1
OutAfterTick == [ttyOut EXCEPT !.ready = @ \/ Ended]
BadIrqAfterTick == ttyIrq       \* write_end() does not look at the interrupt
IrqAfterTick == IF Ended THEN TtySetInterrupt(ttyIrq, ttyOut.enabled, 10) ELSE ttyIrq

(* The line time left of the key at the head of the queue. *)
LineLeft == IF ttyTimed THEN ttyLeft - (IF ttyLeft > 0 THEN 1 ELSE 0) ELSE CharTicks - 1

\* The line looked at before the delays of this tick have ended.
BadArrived == ttyCount > 0 /\ LineLeft = 0 /\ ~ttyIn.ready /\ ttyOut.ready
(* The key at the head reaches the UART in this tick. *)
Arrived == ttyCount > 0 /\ LineLeft = 0 /\ ~ttyIn.ready /\ OutAfterTick.ready

(* terminal_tick(): the delays first, then the line. *)
TerminalTick ==
  /\ ttyTake = -1
  /\ ttyDelays' = [i \in DOMAIN SelectSeq(ttyDelays, LAMBDA d : d > 1) |->
                     SelectSeq(ttyDelays, LAMBDA d : d > 1)[i] - 1]
  /\ ttyOut' = OutAfterTick
  /\ IF Arrived
       THEN /\ ttyUart' = ttyBuf[ttyHead] /\ ttyHead' = NextPlace(ttyHead)
            /\ ttyDue' = NextKey(ttyDue)
            /\ IF ttyShared THEN ttyTake' = ttyCount /\ UNCHANGED ttyCount
                         ELSE ttyCount' = ttyCount - 1 /\ UNCHANGED ttyTake
            /\ ttyTimed' = FALSE /\ ttyLeft' = 0
            /\ ttyIn' = [ttyIn EXCEPT !.ready = TRUE]
            /\ ttyIrq' = TtySetInterrupt(IrqAfterTick, ttyIn.enabled, 12)
       ELSE /\ IF ttyCount > 0 THEN ttyTimed' = TRUE /\ ttyLeft' = LineLeft
                               ELSE UNCHANGED <<ttyTimed, ttyLeft>>
            /\ ttyIrq' = IrqAfterTick
            /\ UNCHANGED <<ttyUart, ttyHead, ttyDue, ttyCount, ttyTake, ttyIn>>
  /\ UNCHANGED <<ttyShared, ttyBuf, ttyTail, ttyHost, ttyNext, ttyTest>>

(* The CPU thread's store of the count. *)
TickCount ==
  /\ ttyTake # -1 /\ ttyCount' = ttyTake - 1 /\ ttyTake' = -1
  /\ UNCHANGED <<ttyShared, ttyBuf, ttyHead, ttyTail, ttyHost, ttyNext, ttyDue, ttyLine, ttyRegs>>
-----------------------------------------------------------------------------
\* An IOX of the program.
Iox == ttyTake = -1

ReadInputData ==
  /\ Iox /\ ttyUart' = 0 /\ ttyIn' = [ttyIn EXCEPT !.ready = FALSE]
  /\ ttyIrq' = TtySetInterrupt(ttyIrq, FALSE, 12)
  /\ UNCHANGED <<ttyQueue, ttyTimed, ttyLeft, ttyOut, ttyTest, ttyDelays>>

(* terminal_write_input_control(): the interrupt is settled before the clear. *)
WriteInputControl(enable, clear, test) ==
  /\ Iox /\ ttyTest' = test
  /\ ttyIrq' = TtySetInterrupt(ttyIrq, enable /\ ttyIn.ready, 12)
  /\ IF clear
       THEN /\ ttyIn' = [enabled |-> FALSE, ready |-> FALSE, overrun |-> FALSE]
            /\ ttyOut' = [enabled |-> FALSE, ready |-> TRUE]
       ELSE /\ ttyIn' = [ttyIn EXCEPT !.enabled = enable, !.overrun = FALSE]
            /\ UNCHANGED ttyOut
  /\ UNCHANGED <<ttyQueue, ttyLine, ttyDelays>>

(* A character to the screen, or in test mode back into the queue. *)
WriteData ==
  /\ Iox /\ Len(ttyDelays) < MaxWrites
  /\ ttyOut' = [ttyOut EXCEPT !.ready = FALSE]
  /\ ttyIrq' = TtySetInterrupt(ttyIrq, FALSE, 10)
  /\ ttyDelays' = Append(ttyDelays, WriteTicks)
  /\ IF ttyTest THEN QueueKeyCode
                ELSE UNCHANGED <<ttyIn, ttyBuf, ttyTail, ttyNext, ttyCount>>
  /\ UNCHANGED <<ttyShared, ttyHead, ttyHost, ttyTake, ttyDue, ttyLine, ttyTest>>

SetOutputControl(enable) ==
  /\ Iox /\ ttyOut' = [ttyOut EXCEPT !.enabled = enable]
  /\ ttyIrq' = TtySetInterrupt(ttyIrq, enable /\ ttyOut.ready, 10)
  /\ UNCHANGED <<ttyQueue, ttyLine, ttyIn, ttyTest, ttyDelays>>

TerminalIdent(level) ==
  /\ Iox /\ level \in ttyIrq /\ ttyIrq' = ttyIrq \ {level}
  /\ ttyIn' = [ttyIn EXCEPT !.enabled = @ /\ level # 12]
  /\ ttyOut' = [ttyOut EXCEPT !.enabled = @ /\ level # 10]
  /\ UNCHANGED <<ttyQueue, ttyLine, ttyTest, ttyDelays>>

TerminalProgram ==
  \/ ReadInputData \/ WriteData
  \/ \E e, c, t \in BOOLEAN : WriteInputControl(e, c, t)
  \/ \E e \in BOOLEAN : SetOutputControl(e)
  \/ \E l \in {10, 12} : TerminalIdent(l)

TerminalThread == TerminalTick \/ TickCount

TerminalNext == KeyTyped \/ HostPut \/ HostCount \/ TerminalThread \/ TerminalProgram

(* The devices are ticked for ever. *)
TerminalFairness == WF_ttyVars(TerminalThread)

TerminalSpec == TerminalInit /\ [][TerminalNext]_ttyVars /\ TerminalFairness
-----------------------------------------------------------------------------
(* Types of the registers and the queue. *)
TerminalTypeOK ==
  /\ ttyBuf \in [0..(QueueSize - 1) -> 0..(KeyNumbers - 1)]
  /\ ttyHead \in 0..(QueueSize - 1) /\ ttyTail \in 0..(QueueSize - 1)
  /\ ttyCount \in 0..QueueSize /\ ttyLeft \in 0..CharTicks /\ ttyTimed \in BOOLEAN
  /\ ttyUart \in 0..(KeyNumbers - 1)
  /\ ttyIn \in [enabled : BOOLEAN, ready : BOOLEAN, overrun : BOOLEAN]
  /\ ttyOut \in [enabled : BOOLEAN, ready : BOOLEAN] /\ ttyTest \in BOOLEAN
  /\ ttyIrq \subseteq {10, 12} /\ Len(ttyDelays) <= MaxWrites
  /\ \A i \in DOMAIN ttyDelays : ttyDelays[i] \in 1..WriteTicks
  /\ ttyHost \in -1..QueueSize /\ ttyTake \in -1..QueueSize

(* The program is given every key once and in the order typed: the queue's   *)
(* head, tail and count stay together through echo, overrun and wrap-around. *)
KeysInOrder == ttyIn.ready => NextKey(ttyUart) = ttyDue

(* ... which it is when no other thread fills the queue. *)
OwnKeysInOrder == ~ttyShared => KeysInOrder

(* No interrupt is missing: a direction that is enabled and ready has its    *)
(* level's bit set, whatever order characters end, controls are written and  *)
(* IDENT answers in.                                                         *)
TerminalInterrupts ==
  /\ ttyIn.enabled /\ ttyIn.ready => 12 \in ttyIrq
  /\ ttyOut.enabled /\ ttyOut.ready => 10 \in ttyIrq

(* Output does not starve input: a key in the queue reaches the UART though  *)
(* the program keeps the transmitter busy.                                   *)
KeyArrives == ttyCount > 0 ~> ttyIn.ready
=============================================================================
