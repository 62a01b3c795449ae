------------------------ MODULE DebugHandshakeProofs ------------------------
(***************************************************************************)
(* Theorems about DebugHandshake, for slices and poll intervals of every   *)
(* length.                                                                 *)
(***************************************************************************)
EXTENDS DebugHandshake, TLAPS

(* The start, paused and with nobody in control, satisfies the invariant. *)
LEMMA InitIInv == Init => IInv
<1> SUFFICES ASSUME Init PROVE IInv
  OBVIOUS
<1>1. ticks \in 0..Slice /\ polls \in 0..(PollEvery - 1)
  BY HandshakeAssumption, SMT DEF HandshakeAssumption, Init
<1>. QED  BY <1>1, Zenon DEF Init, IInv, TypeOK, Running

(* The poll counter of cpu_run() stays below DBG_POLL_INSTR. *)
LEMMA PollBound ==
  ASSUME NEW n \in Nat
  PROVE  (n + 1) % PollEvery \in 0..(PollEvery - 1)
  BY HandshakeAssumption, SMT DEF HandshakeAssumption

(* No step of the CPU thread breaks the invariant: control is granted only   *)
(* outside cpu_run(), and cpu_run() is not entered while it is.              *)
LEMMA CpuKeepsIInv == IInv /\ CpuThread => IInv'
<1> SUFFICES ASSUME IInv, CpuThread
             PROVE  IInv'
  OBVIOUS
<1> USE HandshakeAssumption DEF HandshakeAssumption, IInv, TypeOK, Running, dbgVars
<1>1. CASE MainLoop
  BY <1>1 DEF MainLoop
<1>2. CASE MachineHead
  BY <1>2 DEF MachineHead
<1>3. CASE CpuEntry
  BY <1>3 DEF CpuEntry
<1>4. CASE CpuLoop
  <2>1. polls \in Nat
    OBVIOUS
  <2>2. polls' \in 0..(PollEvery - 1)
    BY <1>4, <2>1, PollBound DEF CpuLoop
  <2>3. mode' \in {"running", "paused", "breakpoint", "stopped", "shutdown"}
    BY <1>4 DEF CpuLoop
  <2>4. cpc' \in {"after", "exec"} /\ (cpc' = "exec" => ticks > 0) /\ (granted => cpc' # "exec")
    BY <1>4 DEF CpuLoop
  <2>5. UNCHANGED <<request, granted, reason, stepping, ticks, dpc, line, told>>
    BY <1>4 DEF CpuLoop
  <2>. QED  BY <2>2, <2>3, <2>4, <2>5
<1>5. CASE Execute
  BY <1>5 DEF Execute, Executed
<1>6. CASE BreakpointHit
  <2>1. reason' \in {"step", "breakpoint"} /\ stepping' = FALSE
    BY <1>6, Zenon DEF BreakpointHit
  <2>2. ticks' \in 0..Slice
    BY <1>6 DEF BreakpointHit, Executed
  <2>3. ~granted
    BY <1>6 DEF BreakpointHit, Executed
  <2>4. mode' \in {mode, "stopped", "shutdown"} /\ cpc' = "stopping" /\ granted' = granted
        /\ UNCHANGED <<request, polls, dpc, line, told>>
    BY <1>6 DEF BreakpointHit, Executed
  <2>. QED  BY <2>1, <2>2, <2>3, <2>4, Zenon
<1>7. CASE EnterBreakpoint
  BY <1>7 DEF EnterBreakpoint, Cpu
<1>8. CASE Fault
  BY <1>8 DEF Fault, Cpu
<1>9. CASE SeeRequest
  BY <1>9 DEF SeeRequest
<1>10. CASE Grant
  BY <1>10 DEF Grant, Cpu
<1>11. CASE Decide
  BY <1>11 DEF Decide
<1>12. CASE Watchpoint
  BY <1>12 DEF Watchpoint, Cpu
<1>. QED
  BY <1>1, <1>2, <1>3, <1>4, <1>5, <1>6, <1>7, <1>8, <1>9, <1>10, <1>11, <1>12 DEF CpuThread

(* No step of the debugger thread breaks it: control is given back by the    *)
(* command that holds it, and by nobody else.                                *)
LEMMA DebuggerKeepsIInv == IInv /\ DebuggerThread => IInv'
<1> SUFFICES ASSUME IInv, DebuggerThread
             PROVE  IInv'
  OBVIOUS
<1> USE DEF IInv, TypeOK, Running, cpuVars, Dbg
<1>1. CASE StartWait
  BY <1>1 DEF StartWait
<1>2. CASE Own
  BY <1>2 DEF Own
<1>3. CASE WaitTimeout
  BY <1>3 DEF WaitTimeout
<1>4. CASE CommandBody
  <2>1. mode' \in {"running", "paused", "breakpoint", "stopped", "shutdown"}
    BY <1>4 DEF CommandBody, Continue, StepCpu, Launch, Terminate, Disconnect, Inspect, Resume
  <2>2. reason' \in {"none", "step", "breakpoint", "entry"}
    BY <1>4 DEF CommandBody, Continue, StepCpu, Launch, Terminate, Disconnect, Inspect
  <2>3. stepping' \in BOOLEAN /\ line' \in BOOLEAN /\ told' \in BOOLEAN
    BY <1>4 DEF CommandBody, Continue, StepCpu, Launch, Terminate, Disconnect, Inspect
  <2>4. Command
    BY <1>4 DEF CommandBody, Continue, StepCpu, Launch, Terminate, Disconnect, Inspect
  <2>. QED  BY <2>1, <2>2, <2>3, <2>4 DEF Command
<1>5. CASE ReleaseRequest
  BY <1>5, ZenonT(60) DEF ReleaseRequest
<1>6. CASE ReleaseGrant
  BY <1>6, ZenonT(60) DEF ReleaseGrant
<1>7. CASE CheckEvents
  <2>1. CASE ReportStop
    BY <2>1, Zenon DEF ReportStop
  <2>2. CASE StepAgain
    BY <2>2, ZenonT(60) DEF StepAgain
  <2>. QED  BY <1>7, <2>1, <2>2 DEF CheckEvents
<1>8. CASE StartAgain
  BY <1>8 DEF StartAgain, Resume
<1>9. CASE ServerEnds
  BY <1>9 DEF ServerEnds
<1>. QED
  BY <1>1, <1>2, <1>3, <1>4, <1>5, <1>6, <1>7, <1>8, <1>9 DEF DebuggerThread

(* The invariant holds in every reachable state. *)
THEOREM Invariance == Spec => []IInv
<1>1. IInv /\ UNCHANGED vars => IInv'
  BY DEF IInv, TypeOK, Running, vars, cpuVars, dbgVars
<1>2. IInv /\ [Next]_vars => IInv'
  BY <1>1, CpuKeepsIInv, DebuggerKeepsIInv DEF Next
<1>. QED  BY InitIInv, <1>2, PTL DEF Spec

(* Every flag, counter and program counter keeps its type. *)
THEOREM TypeCorrect == Spec => []TypeOK
<1>1. IInv => TypeOK
  BY DEF IInv
<1>. QED  BY Invariance, <1>1, PTL

(* While a debugger command owns the CPU (cmd_wait_for_debugger() has        *)
(* returned and cmd_release_debugger() has not been called) the CPU thread   *)
(* is outside cpu_run()'s loop.                                              *)
THEOREM DebuggerOwnsCpu == Spec => []ExclusiveCpu
<1>1. IInv => ExclusiveCpu
  BY DEF IInv, ExclusiveCpu
<1>. QED  BY Invariance, <1>1, PTL
=============================================================================
