--------------------------- MODULE DebugHandshake ---------------------------
(***************************************************************************)
(* Who may touch the CPU: the handshake between the CPU thread (main loop  *)
(* of nd100x.c, machine_run() of machine.c, cpu_run() of cpu.c and         *)
(* bkpt_check_hit() of cpu_bkpt.c) and the debugger thread (debugger.c),   *)
(* on three flags and the run mode.                                        *)
(*                                                                         *)
(* The DAP server library is not part of the repository: it calls          *)
(* WAIT_FOR_DEBUGGER, a command and RELEASE_DEBUGGER, and polls            *)
(* CHECK_CPU_EVENTS between commands.  Breakpoints are a choice.           *)
(***************************************************************************)
EXTENDS Integers

CONSTANTS Slice,       \* instructions of one machine_run(), 5000 in the code
          PollEvery,   \* DBG_POLL_INSTR
          Faults,      \* instructions may fault
          LineSteps    \* the client steps by source line

ASSUME HandshakeAssumption ==
  /\ Slice \in Nat \ {0} /\ PollEvery \in Nat \ {0}
  /\ Faults \in BOOLEAN /\ LineSteps \in BOOLEAN

VARIABLES
  mode,       \* CPURunMode
  request,    \* s_debugger_request_pause
  granted,    \* s_debugger_control_granted
  reason,     \* the CPU's stop reason
  stepping,   \* g_breakpoint_step_pending
  cpc,        \* the CPU thread
  ticks,      \* what is left of the slice
  polls,      \* dbg_poll_ctr
  dpc,        \* the debugger thread
  line,       \* s_line_step.active
  told        \* debugger_state.has_stopped: what the client was told last

vars == <<mode, request, granted, reason, stepping, cpc, ticks, polls, dpc, line, told>>
cpuVars == <<cpc, ticks, polls>>
dbgVars == <<dpc, line, told>>

Halted == {"paused", "breakpoint"}

(* main() with --debugger starts paused. *)
Init ==
  /\ mode = "paused" /\ request = FALSE /\ granted = FALSE
  /\ reason = "none" /\ stepping = FALSE
  /\ cpc = "main" /\ ticks = 0 /\ polls = 0
  /\ dpc = "idle" /\ line = FALSE /\ told = TRUE
-----------------------------------------------------------------------------
Cpu(from, to) == cpc = from /\ cpc' = to

(* One round of the main loop: keyboard, timeouts, then machine_run().  The  *)
(* keyboard (the menu, or "q" while halted) may ask for the end.             *)
MainLoop ==
  /\ cpc = "main"
  /\ IF mode = "shutdown" THEN cpc' = "done" /\ UNCHANGED <<mode, ticks>>
                          ELSE cpc' = "head" /\ ticks' = Slice /\ mode' \in {mode, "shutdown"}
  /\ UNCHANGED <<request, granted, reason, stepping, polls, dbgVars>>

(* The head of machine_run()'s loop, and of cpu_run(): the debugger may have *)
(* control.                                                                  *)
MachineHead ==
  /\ cpc = "head"
  /\ cpc' = IF mode = "shutdown" THEN "main" ELSE "entry"
  /\ UNCHANGED <<mode, request, granted, reason, stepping, ticks, polls, dbgVars>>

CpuEntry ==
  /\ cpc = "entry"
  /\ cpc' = IF granted THEN "after" ELSE "loop"
  /\ UNCHANGED <<mode, request, granted, reason, stepping, ticks, polls, dbgVars>>

(* The head of cpu_run()'s loop: now and then a look at the pause request,   *)
(* then what the run mode says.                                              *)
CpuLoop ==
  /\ cpc = "loop"
  /\ IF ticks = 0 THEN cpc' = "after" /\ UNCHANGED <<mode, polls>>
     ELSE /\ polls' = (polls + 1) % PollEvery
          /\ IF polls' = 0 /\ request THEN cpc' = "after" /\ UNCHANGED mode
             ELSE /\ cpc' = IF mode = "running" THEN "exec" ELSE "after"
                  /\ mode' = IF mode = "stopped" THEN "shutdown" ELSE mode
  /\ UNCHANGED <<request, granted, reason, stepping, ticks, dbgVars>>

\* What every instruction that ends has in common.
Executed == cpc = "exec" /\ ticks' = ticks - 1 /\ UNCHANGED <<request, granted, polls, dbgVars>>

(* An instruction, the device tick, and no breakpoint.  HALT and WAIT may    *)
(* stop the machine, the instruction limit and -B end it.                    *)
Execute ==
  /\ Executed /\ ~stepping /\ cpc' = "loop"
  /\ mode' \in {mode, "stopped", "shutdown"}
  /\ UNCHANGED <<reason, stepping>>

(* bkpt_check_hit(): the pending step, or a breakpoint at the next address   *)
(* (a temporary one stands for a step).  The reason is published first, ...  *)
BreakpointHit ==
  /\ Executed /\ cpc' = "stopping"
  /\ reason' \in {"step", "breakpoint"} /\ (stepping => reason' = "step")
  /\ stepping' = FALSE
  /\ mode' \in {mode, "stopped", "shutdown"}

(* A watchpoint matches while the instruction accesses memory. *)
Watchpoint ==
  /\ Cpu("exec", "watching") /\ mode = "running" /\ reason' = "breakpoint"
  /\ UNCHANGED <<mode, request, granted, stepping, ticks, polls, dbgVars>>

(* ... then the run mode; after a watchpoint the instruction goes on. *)
EnterBreakpoint ==
  /\ Cpu("stopping", "after") \/ Cpu("watching", "exec")
  /\ mode' = "breakpoint"
  /\ UNCHANGED <<request, granted, reason, stepping, ticks, polls, dbgVars>>

BadFault ==                     \* the poll counter does not survive the longjmp()
  /\ Faults /\ Cpu("exec", "loop") /\ polls' = 0
  /\ UNCHANGED <<mode, request, granted, reason, stepping, ticks, dbgVars>>

(* A fault: longjmp() to the head of the loop, past ticks and breakpoints. *)
Fault ==
  /\ Faults /\ Cpu("exec", "loop")
  /\ UNCHANGED <<mode, request, granted, reason, stepping, ticks, polls, dbgVars>>

(* The rest of machine_run()'s loop: the request is read, ... *)
SeeRequest ==
  /\ cpc = "after"
  /\ cpc' = IF request THEN "grant" ELSE "decide"
  /\ UNCHANGED <<mode, request, granted, reason, stepping, ticks, polls, dbgVars>>

(* ... control is granted, and machine_run() returns ... *)
Grant ==
  /\ Cpu("grant", "main") /\ granted' = TRUE
  /\ UNCHANGED <<mode, request, reason, stepping, ticks, polls, dbgVars>>

(* ... or it returns when halted or out of ticks. *)
Decide ==
  /\ cpc = "decide"
  /\ cpc' = IF mode \in Halted \/ ticks = 0 THEN "main" ELSE "head"
  /\ UNCHANGED <<mode, request, granted, reason, stepping, ticks, polls, dbgVars>>

CpuThread ==
  \/ MainLoop \/ MachineHead \/ CpuEntry \/ CpuLoop \/ Execute \/ BreakpointHit
  \/ Watchpoint \/ EnterBreakpoint \/ Fault \/ SeeRequest \/ Grant \/ Decide
-----------------------------------------------------------------------------
Dbg(from, to) == dpc = from /\ dpc' = to /\ UNCHANGED <<cpuVars, granted>>

(* A DAP command begins: cmd_wait_for_debugger().  No command begins once    *)
(* the main loop has ended and debugger_stop_thread() has been called.       *)
StartWait ==
  /\ Dbg("idle", "waiting") /\ cpc # "done" /\ request' = TRUE
  /\ UNCHANGED <<mode, reason, stepping, line, told>>

BadOwn ==                       \* the request alone is taken for the grant
  Dbg("waiting", "own") /\ UNCHANGED <<mode, request, reason, stepping, line, told>>

Own ==
  /\ granted /\ Dbg("waiting", "own")
  /\ UNCHANGED <<mode, request, reason, stepping, line, told>>

(* Ten seconds without an answer: the command fails, the request stays. *)
WaitTimeout ==
  /\ ~granted /\ Dbg("waiting", "idle")
  /\ UNCHANGED <<mode, request, reason, stepping, line, told>>

\* A command's body, while the debugger owns the CPU.
Command == Dbg("own", "release") /\ UNCHANGED request

(* ensure_cpu_running(), and the run mode part of cmd_continue(). *)
Resume == mode' = IF mode \in Halted THEN "running" ELSE mode

Continue ==
  /\ Command /\ mode \in Halted /\ Resume /\ told' = FALSE
  /\ UNCHANGED <<reason, stepping, line>>

(* cmd_next(), cmd_step_in(), cmd_step_out(): one instruction, or up to a    *)
(* temporary breakpoint; with line, until the source line changes.           *)
StepCpu ==
  /\ Command /\ Resume /\ stepping' \in {stepping, TRUE} /\ told' = FALSE
  /\ line' \in (IF LineSteps THEN BOOLEAN ELSE {FALSE})
  /\ UNCHANGED reason

(* cmd_launch_callback(), alone or after the breakpoint clear and the reset  *)
(* of cmd_restart().                                                         *)
Launch ==
  /\ Command
  /\ \/ mode' = "paused" /\ reason' = "entry" /\ UNCHANGED told
     \/ mode' = "running" /\ told' = FALSE /\ UNCHANGED reason
  /\ UNCHANGED <<stepping, line>>

(* cmd_terminate(), cmd_disconnect(). *)
Terminate == Command /\ mode' = "paused" /\ UNCHANGED <<reason, stepping, line, told>>
Disconnect ==
  /\ Command /\ mode' \in {"running", "shutdown"}
  /\ UNCHANGED <<reason, stepping, line, told>>

(* cmd_pause() and every command that only looks or writes memory. *)
Inspect == Command /\ line' \in {line, FALSE} /\ UNCHANGED <<mode, reason, stepping, told>>

(* cmd_release_debugger(): the request goes first, ... *)
ReleaseRequest ==
  /\ Dbg("release", "release2") /\ request' = FALSE
  /\ UNCHANGED <<mode, reason, stepping, line, told>>

(* ... the grant second. *)
ReleaseGrant ==
  /\ dpc = "release2" /\ dpc' = "idle" /\ granted' = FALSE
  /\ UNCHANGED <<mode, request, reason, stepping, cpuVars, line, told>>

(* cmd_check_cpu_events(), on no command's behalf: report the stop ... *)
BadReportStop ==                \* only a stop at a breakpoint is reported
  /\ Dbg("idle", "idle") /\ reason = "breakpoint"
  /\ told' = TRUE /\ reason' = "none" /\ line' = FALSE
  /\ UNCHANGED <<mode, request, stepping>>

ReportStop ==
  /\ Dbg("idle", "idle") /\ reason # "none"
  /\ told' = TRUE /\ reason' = "none" /\ line' = FALSE
  /\ UNCHANGED <<mode, request, stepping>>

(* ... or, in line_step_continue(), step again: the reason is cleared and a  *)
(* step or a temporary breakpoint is set, ...                                *)
StepAgain ==
  /\ Dbg("idle", "again") /\ reason = "step" /\ line
  /\ reason' = "none" /\ stepping' \in {stepping, TRUE}
  /\ UNCHANGED <<mode, request, line, told>>

(* ... and the CPU is started if it has stopped. *)
StartAgain ==
  /\ Dbg("again", "idle") /\ Resume
  /\ UNCHANGED <<request, reason, stepping, line, told>>

(* The server's message loop fails: the thread makes the CPU exit. *)
ServerEnds ==
  /\ Dbg("idle", "gone") /\ mode' = "shutdown"
  /\ UNCHANGED <<request, reason, stepping, line, told>>

CommandBody == Continue \/ StepCpu \/ Launch \/ Terminate \/ Disconnect \/ Inspect

CheckEvents == ReportStop \/ StepAgain

DebuggerThread ==
  \/ StartWait \/ Own \/ WaitTimeout \/ CommandBody \/ ReleaseRequest \/ ReleaseGrant
  \/ CheckEvents \/ StartAgain \/ ServerEnds

Next == CpuThread \/ DebuggerThread

(* Both threads keep running.  The server polls for events between commands, *)
(* however many commands the client sends.                                   *)
Fairness ==
  /\ WF_vars(CpuThread)
  /\ WF_vars(Own \/ CommandBody \/ ReleaseRequest \/ ReleaseGrant \/ StartAgain)
  /\ SF_vars(CheckEvents)

Spec == Init /\ [][Next]_vars /\ Fairness
-----------------------------------------------------------------------------
(* Types, and the program counters of both threads. *)
TypeOK ==
  /\ mode \in {"running", "paused", "breakpoint", "stopped", "shutdown"}
  /\ request \in BOOLEAN /\ granted \in BOOLEAN /\ stepping \in BOOLEAN
  /\ reason \in {"none", "step", "breakpoint", "entry"}
  /\ cpc \in {"main", "head", "entry", "loop", "exec", "watching", "stopping", "after",
              "grant", "decide", "done"}
  /\ ticks \in 0..Slice /\ polls \in 0..(PollEvery - 1)
  /\ dpc \in {"idle", "waiting", "own", "release", "release2", "again", "gone"}
  /\ line \in BOOLEAN /\ told \in BOOLEAN

\* The CPU thread is inside cpu_run()'s loop: it reads and writes CPU state.
Running == cpc \in {"loop", "exec", "watching", "stopping"}

(* While a command owns the CPU no instruction runs and no breakpoint stop   *)
(* is half done, also after a wait that timed out.                           *)
ExclusiveCpu == dpc = "own" => ~Running

(* A pause request is answered, although it is looked at only now and then   *)
(* and a fault skips the end of the loop: no wait depends on the timeout.    *)
PauseAnswered == (dpc = "waiting") ~> (granted \/ dpc # "waiting" \/ mode = "shutdown")

(* A stop that has a reason reaches the client, at a breakpoint or after a   *)
(* step, unless the CPU is started again first (as a line step does) or the  *)
(* server is gone.                                                           *)
StopReported ==
  (mode = "breakpoint" /\ reason # "none")
    ~> (told /\ reason = "none") \/ mode # "breakpoint" \/ dpc = "gone"

(* machine_run() keeps returning to the main loop: "park briefly and return  *)
(* so the main loop keeps servicing keyboard/timeouts until released"        *)
(* (machine.c line 340).                                                     *)
KeyboardServed == []<>(cpc \in {"main", "done"})

(* "Make sure CPU exits" (debugger.c line 396): when the server has ended    *)
(* the machine stops.                                                        *)
MachineEnds == (dpc = "gone") ~> (cpc = "done")

(* line_step_continue() returns true when "the CPU has been started again"   *)
(* (debugger.c line 668): a CPU at a breakpoint has a stop to report, or a   *)
(* client that knows, or a debugger about to start it.                       *)
NoSilentStop ==
  (mode = "breakpoint" /\ line /\ dpc = "idle") => reason # "none" \/ told

(* The invariant behind ExclusiveCpu: only the CPU thread grants, and never  *)
(* from inside cpu_run(); only the debugger that was granted takes it back.  *)
IInv ==
  /\ TypeOK
  /\ cpc \in {"exec", "watching"} => ticks > 0
  /\ granted => ~Running
  /\ dpc \in {"own", "release", "release2"} => granted
=============================================================================
