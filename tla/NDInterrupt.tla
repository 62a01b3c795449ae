---------------------------- MODULE NDInterrupt ----------------------------
(***************************************************************************)
(* The interrupt system of the ND-100 CPU: src/src/cpu/cpu.c (the run loop *)
(* and the interrupt routines), cpu_regs.c and the instructions of         *)
(* cpu_instr.c that touch an interrupt register.                           *)
(*                                                                         *)
(* One turn of cpu_run()'s loop is three phases.  "check" is               *)
(* check_and_switch(), "exec" is the fetch and the instruction, "io" is    *)
(* IO_Tick().  An internal interrupt that leaves by longjmp() goes from    *)
(* "exec" straight back to "check": the devices are not ticked for it.     *)
(*                                                                         *)
(* Registers are sets of bit numbers.  A program is any sequence of the    *)
(* instructions below with any value in A.  The 16 general registers,      *)
(* gPVL, memory and the ring of the running program are abstracted:        *)
(* whether a privileged instruction is refused, and whether an access      *)
(* faults, is a choice.                                                    *)
(***************************************************************************)
EXTENDS Integers

CONSTANTS Levels,         \* program levels in use, bit numbers of PIE and PID
          DeviceLevels,   \* levels a device can interrupt on (mask 0xBC00)
          Sources         \* internal interrupt sources, bit numbers of IIE and IID

\* Bit numbers of the internal interrupt register, as the table above
\* cpu_calc_iic() gives them.
MonitorCall     == 1
ProtectViolation == 2
PageFault       == 3
IllegalInstr    == 4
ErrorIndicator  == 5
PrivilegedInstr == 6
IoxError        == 7
MemoryParity    == 8
MemoryOutOfRange == 9

\* The level every internal interrupt is raised on.
InternalLevel == 14

\* Sources whose interrupt abandons the instruction by longjmp().
Faults == {ProtectViolation, PageFault, IllegalInstr} \cap Sources
\* Sources whose interrupt lets it end.  Source 10, power fail, is never raised.
MemoryErrors == {MemoryParity, MemoryOutOfRange} \cap Sources
Traps == ({PrivilegedInstr, IoxError} \cap Sources) \cup MemoryErrors

ASSUME LevelsAssumption ==
  /\ Levels \subseteq 0..15
  /\ 0 \in Levels
  /\ InternalLevel \in Levels
ASSUME DeviceLevelsAssumption == DeviceLevels \subseteq Levels \cap {10, 11, 12, 13, 15}
ASSUME SourcesAssumption == Sources \subseteq 0..10

VARIABLES
  pie,      \* gPIE: enabled levels
  pid,      \* gPID: detected levels
  iie,      \* gIIE: enabled internal sources
  iid,      \* gIID: detected internal sources
  z,        \* the Z bit of each level's STS
  pil,      \* gPIL: the running level
  ion,      \* STS bit "interrupt system on"
  chkit,    \* gCHKIT: recompute the level before the next instruction
  phase,    \* where the run loop is
  mode      \* CPURunMode, without the debugger's modes

\* A history variable: Z of the running level has been set by a transfer to
\* STS, or came into force with the level, and no recomputation has looked at
\* it since.  No guard reads it.
VARIABLE unseen

vars == <<pie, pid, iie, iid, z, pil, ion, chkit, phase, mode, unseen>>
-----------------------------------------------------------------------------
\* Faulty variants, named Bad..., are plausible bugs of the definition that
\* follows them; the README's table says which property rejects each.

(* calc_pk(): the highest level that is both enabled and detected, 0 if none. *)
PK(enabled, detected) ==
  LET requested == enabled \cap detected
  IN  IF requested = {} THEN 0
      ELSE CHOOSE l \in requested : \A k \in requested : k <= l

(* The IID bits once recalc_internal_interrupt_bits() has sampled Z of the   *)
(* running level.                                                            *)
WithError(detected, errorSet) ==
  IF errorSet /\ ErrorIndicator \in Sources
    THEN detected \cup {ErrorIndicator} ELSE detected

BadRecalc(detected, ck) ==      \* gCHKIT is left alone
  /\ iid' = WithError(detected, z[pil])
  /\ pid' = IF iid' \cap iie = {} THEN pid ELSE pid \cup {InternalLevel}
  /\ chkit' = ck

(* The rest of recalc_internal_interrupt_bits(), on sampled IID bits: an     *)
(* enabled source requests level 14 and asks for another look next time.     *)
Recalc(detected, ck) ==
  /\ iid' = WithError(detected, z[pil])
  /\ pid' = IF iid' \cap iie = {} THEN pid ELSE pid \cup {InternalLevel}
  /\ chkit' = (ck \/ iid' \cap iie # {})

(* cpu_interrupt(14, 1 << source), ck being what the caller does to CHKIT.   *)
Raise(source, ck) == Recalc(iid \cup {source}, ck) /\ unseen' = FALSE
-----------------------------------------------------------------------------
(* cpu_reset(): every register is cleared. *)
Init ==
  /\ pie = {} /\ pid = {} /\ iie = {} /\ iid = {}
  /\ z = [l \in Levels |-> FALSE]
  /\ pil = 0
  /\ ion = FALSE /\ chkit = FALSE
  /\ phase = "check" /\ mode = "running" /\ unseen = FALSE

BadCheckAndSwitch ==            \* the interrupt system's switch is not tested
  /\ mode = "running" /\ phase = "check"
  /\ phase' = "exec"
  /\ \/ ~chkit /\ UNCHANGED <<iid, pid, chkit, pil, unseen>>
     \/ chkit /\ Recalc(iid, FALSE) /\ pil' = PK(pie, pid') /\ unseen' = FALSE
  /\ UNCHANGED <<pie, iie, z, ion, mode>>

(* check_and_switch(), at the start of every tick. *)
CheckAndSwitch ==
  /\ mode = "running" /\ phase = "check"
  /\ phase' = "exec"
  /\ \/ ~chkit /\ UNCHANGED <<iid, pid, chkit, pil, unseen>>
     \/ /\ chkit
        /\ Recalc(iid, FALSE)
        /\ IF ion /\ PK(pie, pid') # pil
             THEN pil' = PK(pie, pid') ELSE UNCHANGED pil
        /\ unseen' = (pil' # pil /\ z[pil'])
  /\ UNCHANGED <<pie, iie, z, ion, mode>>

(* What every instruction that does not fault has in common. *)
Executing == mode = "running" /\ phase = "exec" /\ phase' = "io" /\ UNCHANGED pil

(* MCL, MST and TRR on PID and PIE: A is a mask, or the new value for TRR. *)
SetPid(value) ==
  pid' = value /\ chkit' = TRUE /\ UNCHANGED <<pie, iie, iid, z, ion, mode, unseen>>
SetPie(value) ==
  pie' = value /\ chkit' = TRUE /\ UNCHANGED <<pid, iie, iid, z, ion, mode, unseen>>
(* The same instructions on STS: Z of the running level, and no CHKIT. *)
SetZ(l, b) ==
  /\ z' = [z EXCEPT ![l] = b]
  /\ unseen' = IF l = pil THEN b ELSE unseen
  /\ UNCHANGED <<pie, pid, iie, iid, ion, chkit, mode>>

MaskedClear == Executing /\ \/ \E a \in SUBSET Levels : SetPid(pid \ a) \/ SetPie(pie \ a)
                            \/ SetZ(pil, FALSE)
MaskedSet == Executing /\ \/ \E a \in SUBSET Levels : SetPid(pid \cup a) \/ SetPie(pie \cup a)
                          \/ SetZ(pil, TRUE)
TransferToRegister ==
  /\ Executing
  /\ \/ \E a \in SUBSET Levels : SetPid(a) \/ SetPie(a)
     \/ \E b \in BOOLEAN : SetZ(pil, b)
     \/ \E a \in SUBSET Sources :
          iie' = a /\ chkit' = TRUE /\ UNCHANGED <<pie, pid, iid, z, ion, mode, unseen>>

(* TRA IIC reads the code of the highest enabled source and acknowledges all. *)
ReadInternalCode ==
  /\ Executing
  /\ iid' = {} /\ chkit' = TRUE
  /\ UNCHANGED <<pie, pid, iie, z, ion, mode, unseen>>

BadSetError(b) ==               \* Z is set without gCHKIT
  /\ Executing
  /\ z' = [z EXCEPT ![pil] = b] /\ unseen' = FALSE
  /\ UNCHANGED <<pie, pid, iie, iid, ion, chkit, mode>>

(* cpu_setbit() on Z: arithmetic, bit instructions, EXR of an EXR. *)
SetError(b) ==
  /\ Executing
  /\ z' = [z EXCEPT ![pil] = b]
  /\ chkit' = (chkit \/ b) /\ unseen' = FALSE
  /\ UNCHANGED <<pie, pid, iie, iid, ion, mode>>

(* LRB and IRW load the low STS byte of any level. *)
WriteLevelStatus(l, b) == Executing /\ SetZ(l, b)

BadInterruptsOn == Executing /\ ion' = TRUE /\ UNCHANGED <<pie, pid, iie, iid, z, chkit, mode, unseen>>

InterruptsOn == Executing /\ ion' = TRUE /\ chkit' = TRUE
                /\ UNCHANGED <<pie, pid, iie, iid, z, mode, unseen>>
InterruptsOff == Executing /\ ion' = FALSE
                 /\ UNCHANGED <<pie, pid, iie, iid, z, chkit, mode, unseen>>

(* WAIT: stop the machine, do nothing on level 0, or give up the level. *)
Wait ==
  /\ Executing
  /\ \/ ~ion /\ mode' = "stopped" /\ UNCHANGED <<pid, chkit>>
     \/ ion /\ pil = 0 /\ UNCHANGED <<pid, chkit, mode>>
     \/ ion /\ pil # 0 /\ pid' = pid \ {pil} /\ chkit' = TRUE /\ UNCHANGED mode
  /\ UNCHANGED <<pie, iie, iid, z, ion, unseen>>

Halt == /\ Executing /\ mode' = "stopped"
        /\ UNCHANGED <<pie, pid, iie, iid, z, ion, chkit, unseen>>

(* MON is ignored from level 14 and up. *)
MonitorCallInstr ==
  /\ Executing /\ MonitorCall \in Sources
  /\ IF pil < InternalLevel THEN Raise(MonitorCall, TRUE)
     ELSE UNCHANGED <<pid, iid, chkit, unseen>>
  /\ UNCHANGED <<pie, iie, z, ion, mode>>

(* Interrupts that let the instruction end: a refused privileged instruction, *)
(* an IOX or an IDENT that no device answers, a word of memory that is not    *)
(* there or has a wrong check code.                                           *)
Trap(source) ==
  /\ Executing /\ source \in Traps
  /\ Raise(source, chkit)
  /\ UNCHANGED <<pie, iie, z, ion, mode>>

(* Interrupts that leave by longjmp(): back to the top of the run loop. *)
Fault(source) ==
  /\ mode = "running" /\ phase = "exec" /\ source \in Faults
  /\ Raise(source, chkit)
  /\ phase' = "check"
  /\ UNCHANGED <<pie, iie, z, pil, ion, mode>>

(* Every other instruction. *)
Plain == Executing /\ UNCHANGED <<pie, pid, iie, iid, z, ion, chkit, mode, unseen>>

(* The instruction limit or the -B breakpoint ends the run before the        *)
(* instruction is executed.                                                  *)
EndRun == /\ Executing /\ mode' = "shutdown"
          /\ UNCHANGED <<pie, pid, iie, iid, z, ion, chkit, unseen>>

(* In IO_Tick(), a device's transfer leaves memory or meets a wrong check code. *)
DmaError(source) ==
  /\ phase = "io" /\ source \in MemoryErrors
  /\ Raise(source, chkit)
  /\ UNCHANGED <<pie, iie, z, pil, ion, phase, mode>>

BadIoTick(bits) ==              \* PID follows the lines instead of latching them
  /\ phase = "io" /\ phase' = "check"
  /\ pid' = (pid \ DeviceLevels) \cup bits
  /\ chkit' = (chkit \/ pid' # pid)
  /\ UNCHANGED <<pie, iie, iid, z, pil, ion, mode, unseen>>

(* IO_Tick(): cpu_device_interrupt() with the levels the devices assert.  It *)
(* runs after the instruction that stopped the machine too.                  *)
IoTick(bits) ==
  /\ phase = "io" /\ phase' = "check"
  /\ pid' = pid \cup bits
  /\ chkit' = (chkit \/ pid' # pid)
  /\ UNCHANGED <<pie, iie, iid, z, pil, ion, mode, unseen>>

(* cpu_run() turns a stopped machine into a shut down one. *)
ShutDown ==
  /\ phase = "check" /\ mode = "stopped" /\ mode' = "shutdown"
  /\ UNCHANGED <<pie, pid, iie, iid, z, pil, ion, chkit, phase, unseen>>

(* cpu_reset(), by the debugger's restart while it holds the CPU. *)
Reset ==
  /\ phase = "check" /\ phase' = "check" /\ mode' = "running"
  /\ pie' = {} /\ pid' = {} /\ iie' = {} /\ iid' = {}
  /\ z' = [l \in Levels |-> FALSE]
  /\ pil' = 0
  /\ ion' = FALSE /\ chkit' = FALSE /\ unseen' = FALSE

Instruction ==
  \/ MaskedClear \/ MaskedSet \/ TransferToRegister \/ ReadInternalCode
  \/ \E b \in BOOLEAN : SetError(b) \/ \E l \in Levels : WriteLevelStatus(l, b)
  \/ InterruptsOn \/ InterruptsOff \/ Wait \/ Halt
  \/ MonitorCallInstr \/ \E s \in Sources : Trap(s) \/ Fault(s)
  \/ Plain \/ EndRun

Next ==
  \/ CheckAndSwitch
  \/ Instruction
  \/ \E s \in Sources : DmaError(s)
  \/ \E bits \in SUBSET DeviceLevels : IoTick(bits)
  \/ ShutDown
  \/ Reset

Spec == Init /\ [][Next]_vars
-----------------------------------------------------------------------------
(* Types of all registers. *)
TypeOK ==
  /\ pie \in SUBSET Levels /\ pid \in SUBSET Levels
  /\ iie \in SUBSET Sources /\ iid \in SUBSET Sources
  /\ z \in [Levels -> BOOLEAN]
  /\ pil \in Levels
  /\ ion \in BOOLEAN /\ chkit \in BOOLEAN /\ unseen \in BOOLEAN
  /\ phase \in {"check", "exec", "io"}
  /\ mode \in {"running", "stopped", "shutdown"}

(* With the interrupt system on, no instruction runs on any level but the    *)
(* highest one that is enabled and requested, although cpu.c recomputes the  *)
(* level only when one of a dozen places has set gCHKIT.                     *)
PriorityRule == (phase = "exec" /\ ion) => pil = PK(pie, pid)

(* A detected internal interrupt that is enabled, on a level that is         *)
(* enabled, preempts: no instruction of a lower level runs before it.  A     *)
(* second MON can therefore not overwrite the number the first one left in   *)
(* T of level 14.                                                            *)
InternalPreempts ==
  (phase = "exec" /\ ion /\ InternalLevel \in pie /\ iid \cap iie # {})
     => pil >= InternalLevel

(* When gCHKIT is clear a recomputation would change nothing, with one       *)
(* exception: a Z that was set by a transfer to STS (MST, TRR, LRB, IRW), or *)
(* came into force with the level, waits for whatever sets gCHKIT next.  So  *)
(* no detected and enabled internal interrupt is overlooked, no level that   *)
(* should run, and no Z that arithmetic has set.                             *)
NothingForgotten ==
  ~chkit => /\ iid \cap iie = {}
            /\ (ErrorIndicator \in iie /\ z[pil]) => unseen
            /\ ion => pil = PK(pie, pid)

(* With the interrupt system off the level never changes, whatever is        *)
(* requested in the meantime (a reset starts over on level 0).               *)
LevelFrozen == [][(~ion /\ pil' # pil) => (~ion' /\ pie' = {} /\ pid' = {})]_vars

(* The lazy recomputation is not visible: this system implements the one     *)
(* that settles the level at every instruction boundary.                     *)
Priority == INSTANCE InterruptPriority
ImplementsPriority == Priority!Spec

(* What makes the three invariants inductive: what is known of the level     *)
(* while the instruction runs, and what is known when CHKIT is clear.        *)
IInv ==
  /\ TypeOK
  /\ phase = "exec" => /\ ion => pil = PK(pie, pid)
                       /\ iid \cap iie # {} => chkit /\ InternalLevel \in pid
  /\ NothingForgotten
=============================================================================
