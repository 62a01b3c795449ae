--------------------------- MODULE NDMachineProofs ---------------------------
(***************************************************************************)
(* The interrupt system for every set of levels and sources, and the       *)
(* machine around it for every set of devices: the running level follows   *)
(* the registers, and the request lines of the devices reach it in time.   *)
(* What is known of the interrupt system (IInv) carries over: every step   *)
(* of the machine is one of its steps.                                     *)
(***************************************************************************)
EXTENDS NDMachine, TLAPS

(* A nonempty set of levels has a highest one: without it, its elements      *)
(* would climb past 15.                                                      *)
LEMMA MaxExists ==
  ASSUME NEW S \in SUBSET (0..15), S # {}
  PROVE  \E m \in S : \A k \in S : k <= m
<1> SUFFICES ASSUME \A m \in S : \E k \in S : k > m PROVE FALSE
  OBVIOUS
<1>1. PICK j \in S : TRUE
  BY Zenon
<1>2. j >= 0
  OBVIOUS
<1>3. \E l \in S : l >= 4
  BY <1>2
<1>4. \E l \in S : l >= 8
  BY <1>3
<1>5. \E l \in S : l >= 12
  BY <1>4
<1> QED
  BY <1>5

(* calc_pk() computes a level in use, and the highest of the requested ones. *)
LEMMA PKHighest ==
  ASSUME NEW e \in SUBSET Levels, NEW d \in SUBSET Levels
  PROVE  /\ PK(e, d) \in Levels
         /\ Priority!IsHighest(PK(e, d), e \cap d)
<1> DEFINE S == e \cap d
<1>1. CASE S = {}
  BY <1>1, LevelsAssumption DEF PK, Priority!IsHighest
<1>2. CASE S # {}
  <2>1. S \in SUBSET (0..15)
    BY LevelsAssumption
  <2>2. \E m \in S : \A k \in S : k <= m
    BY <2>1, <1>2, MaxExists
  <2>3. PK(e, d) = CHOOSE l \in S : \A k \in S : k <= l
    BY <1>2 DEF PK
  <2> QED
    BY <2>2, <2>3, LevelsAssumption DEF Priority!IsHighest
<1> QED
  BY <1>1, <1>2

(* What the proofs use of recalc_internal_interrupt_bits(). *)
LEMMA RecalcFacts ==
  ASSUME TypeOK, NEW d \in SUBSET Sources, NEW ck \in BOOLEAN, Recalc(d, ck)
  PROVE  /\ d \subseteq iid' /\ iid' \in SUBSET Sources
         /\ pid' = IF iid' \cap iie = {} THEN pid ELSE pid \cup {InternalLevel}
         /\ pid' \in SUBSET Levels
         /\ chkit' \in BOOLEAN
         /\ iid' \cap iie # {} => chkit'
         /\ chkit' => ck \/ iid' \cap iie # {}
         /\ (z[pil] /\ ErrorIndicator \in iie) => chkit'
BY LevelsAssumption DEF TypeOK, Recalc, WithError

(* The machine starts with no interrupt asked for and the switch off. *)
LEMMA InitIInv == Init => IInv
BY LevelsAssumption DEF Init, IInv, NothingForgotten, TypeOK, PK

(* The level check settles the level and keeps CHKIT up as long as an        *)
(* enabled internal interrupt is detected.                                   *)
LEMMA CheckIInv ==
  ASSUME IInv, CheckAndSwitch
  PROVE  IInv'
<1> USE DEF IInv, NothingForgotten, CheckAndSwitch
<1>1. CASE ~chkit
  BY <1>1 DEF TypeOK
<1>2. CASE chkit
  <2>1. Recalc(iid, FALSE) /\ iid \in SUBSET Sources
    BY <1>2 DEF TypeOK
  <2>2. /\ iid' \in SUBSET Sources /\ pid' \in SUBSET Levels /\ chkit' \in BOOLEAN
        /\ pid' = IF iid' \cap iie = {} THEN pid ELSE pid \cup {InternalLevel}
        /\ chkit' <=> iid' \cap iie # {}
        /\ (z[pil] /\ ErrorIndicator \in iie) => chkit'
    BY <2>1, RecalcFacts
  <2>3. PK(pie, pid') \in Levels
    BY <2>2, PKHighest DEF TypeOK
  <2>4. /\ pil' \in Levels
        /\ ion => pil' = PK(pie, pid')
        /\ unseen' = (pil' # pil /\ z[pil'])
    BY <1>2, <2>3 DEF TypeOK
  <2>5. TypeOK'
    BY <2>2, <2>4 DEF TypeOK
  <2> QED
    BY <2>2, <2>4, <2>5
<1> QED
  BY <1>1, <1>2

(* Instructions that write PID, PIE or the Z bit, directly. *)
LEMMA RegisterIInv ==
  ASSUME IInv, MaskedClear \/ MaskedSet \/ TransferToRegister
  PROVE  IInv'
<1> USE DEF IInv, NothingForgotten, TypeOK, Executing
<1>1. ASSUME NEW v \in SUBSET Levels, Executing, SetPid(v) PROVE IInv'
  BY <1>1 DEF SetPid
<1>2. ASSUME NEW v \in SUBSET Levels, Executing, SetPie(v) PROVE IInv'
  BY <1>2 DEF SetPie
<1>3. ASSUME NEW l \in Levels, NEW b \in BOOLEAN, Executing, SetZ(l, b) PROVE IInv'
  BY <1>3 DEF SetZ
<1>4. CASE MaskedClear
  BY <1>4, <1>1, <1>2, <1>3 DEF MaskedClear
<1>5. CASE MaskedSet
  BY <1>5, <1>1, <1>2, <1>3 DEF MaskedSet
<1>6. CASE TransferToRegister
  BY <1>6, <1>1, <1>2, <1>3 DEF TransferToRegister
<1> QED
  BY <1>4, <1>5, <1>6

(* cpu_interrupt() from an instruction that then ends or is abandoned. *)
LEMMA RaiseIInv ==
  ASSUME IInv, phase \in {"exec", "io"}, phase' \in {"io", "check"},
         NEW s \in Sources, NEW ck \in BOOLEAN, Raise(s, ck), chkit => ck,
         UNCHANGED <<pie, iie, z, pil, ion, mode>>
  PROVE  IInv'
<1>1. /\ iid' \in SUBSET Sources /\ pid' \in SUBSET Levels /\ chkit' \in BOOLEAN
      /\ pid' = IF iid' \cap iie = {} THEN pid ELSE pid \cup {InternalLevel}
      /\ iid' \cap iie # {} => chkit'
      /\ chkit => chkit'
      /\ (z[pil] /\ ErrorIndicator \in iie) => chkit'
      /\ unseen' = FALSE
  <2>1. iid \cup {s} \in SUBSET Sources
    BY DEF IInv, NothingForgotten, TypeOK
  <2>2. chkit => chkit'
    BY DEF Raise, Recalc, IInv, NothingForgotten, TypeOK
  <2> QED
    BY <2>1, <2>2, RecalcFacts DEF Raise, IInv
<1> QED
  BY <1>1 DEF IInv, NothingForgotten, TypeOK

(* IInv is inductive. *)
LEMMA NextIInv == IInv /\ [Next]_vars => IInv'
<1> SUFFICES ASSUME IInv, [Next]_vars PROVE IInv'
  OBVIOUS
<1>1. CASE CheckAndSwitch
  BY <1>1, CheckIInv
<1>2. CASE MaskedClear \/ MaskedSet \/ TransferToRegister
  BY <1>2, RegisterIInv
<1>3. CASE ReadInternalCode
  BY <1>3 DEF ReadInternalCode, Executing, IInv, NothingForgotten, TypeOK
<1>4. ASSUME NEW b \in BOOLEAN, SetError(b)
      PROVE  IInv'
  <2>1. b => chkit'
    BY <1>4 DEF SetError, IInv, TypeOK
  <2>2. ~b => ~z'[pil']
    BY <1>4 DEF SetError, Executing, IInv, TypeOK
  <2>3. TypeOK'
    BY <1>4 DEF SetError, Executing, IInv, TypeOK
  <2>4. NothingForgotten'
    BY <1>4, <2>1, <2>2 DEF SetError, Executing, IInv, NothingForgotten
  <2> QED
    BY <1>4, <2>3, <2>4 DEF SetError, Executing, IInv
<1>5. CASE \E b \in BOOLEAN : \E l \in Levels : WriteLevelStatus(l, b)
  BY <1>5 DEF WriteLevelStatus, SetZ, Executing, IInv, NothingForgotten, TypeOK
<1>6. CASE InterruptsOn \/ InterruptsOff
  BY <1>6 DEF InterruptsOn, InterruptsOff, Executing, IInv, NothingForgotten, TypeOK
<1>7. CASE Wait
  BY <1>7 DEF Wait, Executing, IInv, NothingForgotten, TypeOK
<1>8. CASE MonitorCallInstr
  <2>1. CASE pil < InternalLevel
    BY <1>8, <2>1, RaiseIInv DEF MonitorCallInstr, Executing
  <2>2. CASE ~(pil < InternalLevel)
    BY <1>8, <2>2 DEF MonitorCallInstr, Executing, IInv, NothingForgotten, TypeOK
  <2> QED
    BY <2>1, <2>2
<1>9. ASSUME NEW s \in Sources, Trap(s) \/ Fault(s)
      PROVE  IInv'
  <2>1. chkit \in BOOLEAN
    BY DEF IInv, NothingForgotten, TypeOK
  <2> QED
    BY <1>9, <2>1, RaiseIInv DEF Trap, Fault, Executing
<1>10. CASE Halt \/ Plain \/ EndRun
  BY <1>10 DEF Halt, Plain, EndRun, Executing, IInv, NothingForgotten, TypeOK
<1>11. ASSUME NEW bits \in SUBSET DeviceLevels, IoTick(bits)
       PROVE  IInv'
  BY <1>11, DeviceLevelsAssumption DEF IoTick, IInv, NothingForgotten, TypeOK
<1>12. ASSUME NEW s \in Sources, DmaError(s)
       PROVE  IInv'
  <2>1. chkit \in BOOLEAN
    BY DEF IInv, TypeOK
  <2> QED
    BY <1>12, <2>1, RaiseIInv DEF DmaError
<1>13. CASE ShutDown
  BY <1>13 DEF ShutDown, IInv, NothingForgotten, TypeOK
<1>14. CASE Reset
  BY <1>14, LevelsAssumption DEF Reset, IInv, NothingForgotten, TypeOK
<1>15. CASE UNCHANGED vars
  BY <1>15 DEF vars, IInv, NothingForgotten, TypeOK
<1> QED
  BY <1>1, <1>2, <1>3, <1>4, <1>5, <1>6, <1>7, <1>8, <1>9, <1>10, <1>11, <1>12,
     <1>13, <1>14, <1>15 DEF Next, Instruction
-----------------------------------------------------------------------------
(* The registers keep their types and what is known at each phase holds in   *)
(* every reachable state.                                                    *)
THEOREM Invariance == Spec => []IInv
BY InitIInv, NextIInv, PTL DEF Spec

(* Type correctness of the interrupt registers. *)
THEOREM TypeCorrect == Spec => []TypeOK
<1>1. IInv => TypeOK
  BY DEF IInv
<1> QED
  BY <1>1, Invariance, PTL

(* No instruction runs on a level other than the highest requested one: the  *)
(* dozen places of cpu.c and cpu_instr.c that set gCHKIT are enough.         *)
THEOREM PriorityKept == Spec => []PriorityRule
<1>1. IInv => PriorityRule
  BY DEF IInv, PriorityRule
<1> QED
  BY <1>1, Invariance, PTL

(* An enabled internal interrupt is served before any lower level goes on. *)
THEOREM InternalInterruptsPreempt == Spec => []InternalPreempts
<1>1. IInv => InternalPreempts
  <2> SUFFICES ASSUME IInv, phase = "exec", ion, InternalLevel \in pie, iid \cap iie # {}
               PROVE  pil >= InternalLevel
    BY DEF InternalPreempts
  <2>1. pil = PK(pie, pid) /\ InternalLevel \in pie \cap pid
    BY DEF IInv
  <2>2. Priority!IsHighest(pil, pie \cap pid)
    BY <2>1, PKHighest DEF IInv, NothingForgotten, TypeOK
  <2> QED
    BY <2>1, <2>2 DEF Priority!IsHighest
<1> QED
  BY <1>1, Invariance, PTL

(* With gCHKIT clear there is no request the run loop would miss, and no Z    *)
(* that arithmetic or a bit instruction has set.                              *)
THEOREM NoRequestForgotten == Spec => []NothingForgotten
<1>1. IInv => NothingForgotten
  BY DEF IInv
<1> QED
  BY <1>1, Invariance, PTL

(* The level is never switched while the interrupt system is off. *)
THEOREM LevelFrozenWhileOff == Spec => LevelFrozen
<1>1. [Next]_vars => [(~ion /\ pil' # pil) => (~ion' /\ pie' = {} /\ pid' = {})]_vars
  <2> SUFFICES ASSUME Next, ~ion, pil' # pil
               PROVE  ~ion' /\ pie' = {} /\ pid' = {}
    OBVIOUS
  <2>1. ~CheckAndSwitch
    BY DEF CheckAndSwitch
  <2>2. ~Instruction
    BY DEF Instruction, MaskedClear, MaskedSet, TransferToRegister, ReadInternalCode, SetError,
           WriteLevelStatus, InterruptsOn, InterruptsOff, Wait, Halt, MonitorCallInstr, Trap,
           Fault, Plain, EndRun, Executing
  <2>3. ~(\E bits \in SUBSET DeviceLevels : IoTick(bits)) /\ ~ShutDown
    BY DEF IoTick, ShutDown
  <2>4. ~(\E s \in Sources : DmaError(s))
    BY DEF DmaError
  <2>5. Reset
    BY <2>1, <2>2, <2>3, <2>4 DEF Next
  <2> QED
    BY <2>5 DEF Reset
<1> QED
  BY <1>1, PTL DEF Spec, LevelFrozen
-----------------------------------------------------------------------------
(* Every instruction is a step the abstract program may take. *)
LEMMA InstructionImplementsRun ==
  ASSUME IInv, IInv', Instruction
  PROVE  Priority!Run
<1>1. phase = "exec" /\ phase' \in {"io", "check"} /\ pil' = pil
  BY DEF Instruction, MaskedClear, MaskedSet, TransferToRegister, ReadInternalCode, SetError,
         WriteLevelStatus, InterruptsOn, InterruptsOff, Wait, Halt, MonitorCallInstr, Trap,
         Fault, Plain, EndRun, Executing
<1> QED
  BY <1>1 DEF Priority!Run, IInv, NothingForgotten, TypeOK

(* check_and_switch() settles the level like the abstract boundary, whether  *)
(* or not it looks at the registers.                                         *)
LEMMA CheckImplementsBoundary ==
  ASSUME IInv, IInv', CheckAndSwitch
  PROVE  Priority!Boundary
<1>1. phase = "check" /\ phase' = "exec" /\ UNCHANGED <<pie, iie, ion>>
  BY DEF CheckAndSwitch
<1>2. iid \subseteq iid' /\ iid' \subseteq Sources
      /\ pid' = IF iid' \cap iie = {} THEN pid ELSE pid \cup {Priority!InternalLevel}
  <2>1. CASE ~chkit
    BY <2>1 DEF CheckAndSwitch, IInv, NothingForgotten, TypeOK
  <2>2. CASE chkit
    BY <2>2, RecalcFacts DEF CheckAndSwitch, IInv, NothingForgotten, TypeOK, InternalLevel, Priority!InternalLevel
  <2> QED
    BY <2>1, <2>2
<1>3. IF ion THEN Priority!IsHighest(pil', pie \cap pid') ELSE pil' = pil
  <2>1. CASE ~ion
    BY <2>1 DEF CheckAndSwitch
  <2>2. CASE ion
    <3>1. pil' = PK(pie, pid')
      BY <1>1, <2>2 DEF IInv
    <3> QED
      BY <3>1, <2>2, PKHighest DEF IInv, NothingForgotten, TypeOK
  <2> QED
    BY <2>1, <2>2
<1> QED
  BY <1>1, <1>2, <1>3 DEF Priority!Boundary

(* The CPU, which recomputes the level only when gCHKIT is set, implements   *)
(* the interrupt system that settles it at every instruction boundary.       *)
THEOREM PriorityImplemented == Spec => ImplementsPriority
<1>1. Init => Priority!Init
  BY DEF Init, Priority!Init
<1>2. IInv /\ IInv' /\ [Next]_vars => [Priority!Next]_(Priority!avars)
  <2> SUFFICES ASSUME IInv, IInv', [Next]_vars PROVE [Priority!Next]_(Priority!avars)
    OBVIOUS
  <2>1. CASE CheckAndSwitch
    BY <2>1, CheckImplementsBoundary DEF Priority!Next
  <2>2. CASE Instruction
    BY <2>2, InstructionImplementsRun DEF Priority!Next
  <2>3. ASSUME NEW bits \in SUBSET DeviceLevels, IoTick(bits) PROVE Priority!Latch
    BY <2>3 DEF IoTick, Priority!Latch
  <2>4. ASSUME NEW s \in Sources, DmaError(s) PROVE Priority!Notice
    <3>1. iid \cup {s} \in SUBSET Sources /\ chkit \in BOOLEAN
      BY DEF IInv, TypeOK
    <3>2. Recalc(iid \cup {s}, chkit) /\ TypeOK
      BY <2>4 DEF DmaError, Raise, IInv
    <3> QED
      BY <2>4, <3>1, <3>2, RecalcFacts DEF DmaError, InternalLevel, Priority!InternalLevel,
         Priority!Notice
  <2>5. CASE ShutDown
    BY <2>5 DEF ShutDown, Priority!avars
  <2>6. CASE Reset
    BY <2>6 DEF Reset, Priority!Next, Priority!Restart, Priority!Init
  <2>7. CASE UNCHANGED vars
    BY <2>7 DEF vars, Priority!avars
  <2> QED
    BY <2>1, <2>2, <2>3, <2>4, <2>5, <2>6, <2>7 DEF Next, Priority!Next
<1> QED
  BY <1>1, <1>2, Invariance, PTL DEF Spec, ImplementsPriority, Priority!Spec
-----------------------------------------------------------------------------
(* Wherever the next instruction may be chosen PID has every asserted line:  *)
(* whatever touches a line or takes a level out of PID goes on to IO_Tick(), *)
(* and what skips IO_Tick(), a fault, touches neither.                       *)
LineInv ==
  /\ IInv
  /\ line \in SUBSET Devs
  /\ phase # "io" => Asserted \subseteq pid
-----------------------------------------------------------------------------
(* Lines stand for levels a device can interrupt on. *)
LEMMA LevelsOfLines ==
  ASSUME NEW ds \in SUBSET Devs
  PROVE  {LevelOf[d] : d \in ds} \in SUBSET DeviceLevels
BY DevsAssumption

(* The machine starts with nothing asserted. *)
LEMMA LineInvInit == MInit => LineInv
BY LevelsAssumption DEF MInit, LineInv, IInv, NothingForgotten, TypeOK, Asserted

(* A step of the machine is a step of the interrupt system. *)
LEMMA MachineSteps == [MNext]_mvars => [Next]_vars
<1> SUFFICES ASSUME [MNext]_mvars PROVE [Next]_vars
  OBVIOUS
<1> USE DEF Next, Instruction
<1>1. CASE MCheckAndSwitch
  BY <1>1 DEF MCheckAndSwitch
<1>2. CASE Background
  BY <1>2 DEF Background
<1>3. CASE Critical
  BY <1>3 DEF Critical
<1>4. CASE Ident
  <2>1. CASE Plain
    BY <2>1
  <2>2. CASE Trap(IoxError)
    <3>1. IoxError \in Sources
      BY <2>2 DEF Trap, Traps, MemoryErrors, IoxError, MemoryParity, MemoryOutOfRange
    <3> QED
      BY <2>2, <3>1
  <2> QED
    BY <1>4, <2>1, <2>2 DEF Ident
<1>5. CASE Acknowledge
  BY <1>5 DEF Acknowledge
<1>6. CASE GiveUp
  BY <1>6 DEF GiveUp
<1>7. CASE MIoTick
  <2>1. {LevelOf[d] : d \in line'} \in SUBSET DeviceLevels
    BY <1>7, LevelsOfLines DEF MIoTick
  <2> QED
    BY <1>7, <2>1 DEF MIoTick
<1>8. CASE UNCHANGED mvars
  BY <1>8 DEF mvars, vars
<1> QED
  BY <1>1, <1>2, <1>3, <1>4, <1>5, <1>6, <1>7, <1>8 DEF MNext

(* The lines stay in PID. *)
LEMMA LineInvNext == LineInv /\ [MNext]_mvars => LineInv'
<1> SUFFICES ASSUME LineInv, [MNext]_mvars PROVE LineInv'
  OBVIOUS
<1>1. IInv'
  BY MachineSteps, NextIInv DEF LineInv
<1>2. line' \in SUBSET Devs
  BY DEF LineInv, MNext, MCheckAndSwitch, Background, Critical, Ident, Acknowledge, GiveUp,
         MIoTick, mvars
<1>3. phase' # "io" => Asserted' \subseteq pid'
  <2>1. CASE MCheckAndSwitch
    <3>1. pid \subseteq pid'
      BY <2>1 DEF MCheckAndSwitch, CheckAndSwitch, Recalc
    <3> QED
      BY <2>1, <3>1 DEF MCheckAndSwitch, CheckAndSwitch, LineInv, Asserted
  <2>2. CASE \E s \in Sources : Fault(s) /\ UNCHANGED line
    <3>1. pid \subseteq pid' /\ phase = "exec"
      BY <2>2 DEF Fault, Raise, Recalc
    <3> QED
      BY <2>2, <3>1 DEF LineInv, Asserted
  <2>3. CASE Executing
    BY <2>3 DEF Executing
  <2>4. CASE MIoTick
    BY <2>4 DEF MIoTick, IoTick, Asserted
  <2>5. CASE UNCHANGED mvars
    BY <2>5 DEF mvars, LineInv, Asserted
  <2> QED
    BY <2>1, <2>2, <2>3, <2>4, <2>5
    DEF MNext, Background, Critical, Ident, Acknowledge, GiveUp, MonitorCallInstr, Trap, Plain,
        InterruptsOff, InterruptsOn, ReadInternalCode, Wait
<1> QED
  BY <1>1, <1>2, <1>3 DEF LineInv

(* The machine keeps what is known of PID and the lines. *)
THEOREM LinesReachPid == MSpec => []LineInv
BY LineInvInit, LineInvNext, PTL DEF MSpec

(* IO_Tick() and check_and_switch(): a device's request preempts every lower *)
(* level, though a fault leaves by longjmp() past the tick, IDENT leaves the *)
(* level in PID and WAIT takes it out.                                       *)
THEOREM RequestsPreempt == MSpec => []LinePreempts
<1>1. LineInv => LinePreempts
  <2> SUFFICES ASSUME LineInv, phase = "exec", ion, NEW l \in Asserted \cap pie
               PROVE  pil >= l
    BY DEF LinePreempts
  <2>1. pil = PK(pie, pid) /\ l \in pie \cap pid
    BY DEF LineInv, IInv
  <2>2. Priority!IsHighest(pil, pie \cap pid)
    BY <2>1, PKHighest DEF LineInv, IInv, NothingForgotten, TypeOK
  <2>3. l \in 0..15 /\ pil \in 0..15
    BY LevelsAssumption DEF LineInv, IInv, NothingForgotten, TypeOK
  <2> QED
    BY <2>1, <2>2, <2>3 DEF Priority!IsHighest
<1> QED
  BY <1>1, LinesReachPid, PTL
=============================================================================
