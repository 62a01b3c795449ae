------------------------------ MODULE NDMachine -----------------------------
(***************************************************************************)
(* The interrupt system of NDInterrupt together with the devices that      *)
(* drive it: their request lines, IO_Tick() (src/src/machine/io.c), IDENT  *)
(* (do_ident() of cpu_instr.c, devmgr_ident() of devicemanager.c) and the  *)
(* programs an operating system runs on the levels:                        *)
(*   level 0         MON, IOX and instructions that leave the interrupt    *)
(*                   registers alone, with page faults and traps;          *)
(*   device levels   IDENT, then WAIT, the way the drivers' loops do it;   *)
(*   level 14        TRA IIC, then WAIT.                                   *)
(* Device drivers are resident: they do not fault.  Nobody sets Z, and no   *)
(* device is given an address outside memory.                              *)
(***************************************************************************)
EXTENDS NDInterrupt

CONSTANTS Devs,        \* devices, numbered by their place in the device table
          LevelOf      \* the level a device interrupts on

ASSUME DevsAssumption == Devs \subseteq Nat /\ LevelOf \in [Devs -> DeviceLevels]

VARIABLES line,        \* devices with their interrupt bit set
          prog         \* per level, the next instruction of its program

mvars == <<pie, pid, iie, iid, z, pil, ion, chkit, phase, mode, unseen,
           line, prog>>

\* Levels on which some device asserts a request.
Asserted == {LevelOf[d] : d \in line}

(* The operating system has filled PIE and IIE and executed ION. *)
MInit ==
  /\ pie = Levels /\ pid = {0} /\ iie = Sources /\ iid = {}
  /\ z = [l \in Levels |-> FALSE]
  /\ pil = 0
  /\ ion = TRUE /\ chkit = TRUE
  /\ phase = "check" /\ mode = "running" /\ unseen = FALSE
  /\ line = {} /\ prog = [l \in Levels |-> "begin"]

Step(l, next) == prog' = [prog EXCEPT ![l] = next]

MCheckAndSwitch == CheckAndSwitch /\ UNCHANGED <<line, prog>>

(* The background program: MON, page faults, traps, plain instructions, and  *)
(* IOX, which may raise or withdraw a request.  PIE, PID, IIE, Z and WAIT it  *)
(* leaves to the operating system.                                           *)
Background ==
  /\ pil = 0 /\ prog[0] = "begin" /\ UNCHANGED prog
  /\ \/ (MonitorCallInstr \/ \E s \in Sources : Trap(s) \/ Fault(s)) /\ UNCHANGED line
     \/ Plain /\ \E d \in Devs : line' \in {line, line \cup {d}, line \ {d}}

(* Its critical section: IOF, one IOX or plain instruction, ION. *)
Critical ==
  /\ pil = 0
  /\ \/ prog[0] = "begin" /\ InterruptsOff /\ Step(0, "inside") /\ UNCHANGED line
     \/ /\ prog[0] = "inside" /\ Plain /\ Step(0, "end")
        /\ \E d \in Devs : line' \in {line, line \cup {d}, line \ {d}}
     \/ prog[0] = "end" /\ InterruptsOn /\ Step(0, "begin") /\ UNCHANGED line

BadIdent ==                     \* the identified device keeps its request
  /\ pil \in DeviceLevels /\ prog[pil] = "begin" /\ Step(pil, "end")
  /\ \/ pil \in Asserted /\ Plain /\ UNCHANGED line
     \/ pil \notin Asserted /\ Trap(IoxError) /\ UNCHANGED line

(* IDENT: the first device of the table that asserts this level answers, and *)
(* its request is cleared; without one it is an IOX error.                   *)
Ident ==
  /\ pil \in DeviceLevels /\ prog[pil] = "begin" /\ Step(pil, "end")
  /\ \/ \E d \in line :
          /\ LevelOf[d] = pil
          /\ \A e \in line : LevelOf[e] = pil => d <= e
          /\ Plain /\ line' = line \ {d}
     \/ pil \notin Asserted /\ Trap(IoxError) /\ UNCHANGED line

(* The level-14 program acknowledges what interrupted it. *)
Acknowledge ==
  /\ pil = InternalLevel /\ prog[pil] = "begin" /\ Step(pil, "end")
  /\ ReadInternalCode /\ UNCHANGED line

(* WAIT gives the level up; the program begins again with the next request. *)
GiveUp == pil # 0 /\ prog[pil] = "end" /\ Step(pil, "begin") /\ Wait /\ UNCHANGED line

BadMIoTick ==                   \* only a line that rises reaches PID
  /\ line' \in SUBSET Devs
  /\ IoTick({LevelOf[d] : d \in line'} \ Asserted)
  /\ UNCHANGED prog

(* IO_Tick(): the devices have their turn, then their lines go to PID. *)
MIoTick ==
  /\ line' \in SUBSET Devs
  /\ IoTick({LevelOf[d] : d \in line'})
  /\ UNCHANGED prog

MNext == MCheckAndSwitch \/ Background \/ Critical \/ Ident \/ Acknowledge \/ GiveUp \/ MIoTick

(* The CPU thread keeps running. *)
MSpec == MInit /\ [][MNext]_mvars /\ WF_mvars(MNext)
-----------------------------------------------------------------------------
(* With interrupts on, no instruction runs below a level on which a device   *)
(* asserts its request, although WAIT takes the level out of PID, IDENT does *)
(* not, and a fault skips the tick that carries the lines to PID.            *)
LinePreempts == (phase = "exec" /\ ion) => \A l \in Asserted \cap pie : pil >= l

\* The device that yields to no other: first in the table on the top level.
Foremost(d) == \A e \in Devs : LevelOf[e] < LevelOf[d] \/ (LevelOf[e] = LevelOf[d] /\ d <= e)

(* Its request does not stay: it is identified, however often others request *)
(* and whatever IDENT finds unanswered.                                      *)
RequestServed == \A d \in Devs : Foremost(d) => (d \in line ~> d \notin line)

(* "the CPU's pending-interrupt latch (gPID) is recomputed from LIVE device  *)
(* requests by the IO_Tick / device_interrupt() path" (do_ident(), cpu_instr.c *)
(* line 1874).                                                               *)
PidFollowsLines == [][phase = "io" => pid' \cap DeviceLevels = Asserted']_mvars
=============================================================================
