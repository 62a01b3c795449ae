------------------------------ MODULE MCMemory ------------------------------
(***************************************************************************)
(* The CPU's memory side for model checking: translation, the error        *)
(* registers, the banks of physical memory, test-and-set, and breakpoints. *)
(* A behaviour is about one of them, chosen at the start, so that the      *)
(* state spaces add up instead of multiplying.                             *)
(***************************************************************************)
EXTENDS MemoryManagement, FaultRegisters, MemoryBanks, TestAndSet, Breakpoints

VARIABLE part   \* the part this behaviour is about

vars == <<part, mmsVars, faultVars, bankVars, tsetVars, bpVars>>

MmEntries == {ZeroWord,
              [permits |-> {"R", "W", "F"}, wip |-> FALSE, pgu |-> FALSE, ring |-> 0, frame |-> 0],
              [permits |-> {"R", "W"}, wip |-> FALSE, pgu |-> FALSE, ring |-> 2, frame |-> 3]}
MmPCRs == {[ring |-> 0, sixteen |-> FALSE, pt |-> 0, apt |-> 1],
           [ring |-> 3, sixteen |-> TRUE, pt |-> 3, apt |-> 0],
           [ring |-> 1, sixteen |-> TRUE, pt |-> 3, apt |-> 2]}

BpKindSet == {[type |-> "breakpoint", cond |-> FALSE, hit |-> -1, log |-> FALSE],
              [type |-> "function", cond |-> TRUE, hit |-> 1, log |-> FALSE],
              [type |-> "breakpoint", cond |-> TRUE, hit |-> -1, log |-> TRUE],
              [type |-> "temporary", cond |-> FALSE, hit |-> -1, log |-> FALSE]}
WatchKindSet == {[type |-> "readwrite", space |-> "any", pil |-> -1],
                 [type |-> "write", space |-> "d", pil |-> 1],
                 [type |-> "read", space |-> "i", pil |-> -1]}
Half(a) == a \div 2

Init ==
  /\ part \in {"mms", "faults", "banks", "tset", "break", "watch"}
  /\ MmsInit /\ FaultInit /\ BanksInit /\ TsetInit /\ BpInit
  \* one way to leave alone what the behaviour is not about
  /\ (part # "mms" => mmsType = 1 /\ mmsPcr = CHOOSE p \in PCRs : TRUE)
  /\ (part # "banks" => window = CHOOSE w \in [Cards -> Starts] : TRUE)
  /\ (part # "break" => ~bpThreaded)

Next ==
  \/ part = "mms" /\ MmsNext /\ UNCHANGED <<part, faultVars, bankVars, tsetVars, bpVars>>
  \/ part = "faults" /\ FaultNext /\ UNCHANGED <<part, mmsVars, bankVars, tsetVars, bpVars>>
  \/ part = "banks" /\ BanksNext /\ UNCHANGED <<part, mmsVars, faultVars, tsetVars, bpVars>>
  \/ part = "tset" /\ TsetNext /\ UNCHANGED <<part, mmsVars, faultVars, bankVars, bpVars>>
  \/ part = "break" /\ BreakNext /\ UNCHANGED <<part, mmsVars, faultVars, bankVars, tsetVars>>
  \/ part = "watch" /\ WatchNext /\ UNCHANGED <<part, mmsVars, faultVars, bankVars, tsetVars>>

\* The ND-100 goes on executing the instruction it is in.
Cpu == part = "tset" /\ Tset100 /\ UNCHANGED <<part, mmsVars, faultVars, bankVars, bpVars>>

(* The CPU thread is not stopped inside an instruction. *)
Spec == Init /\ [][Next]_vars /\ WF_vars(Cpu)
-----------------------------------------------------------------------------
(* Every word of installed memory has one bank and no word has two, and a     *)
(* card that says it is placed answers at its window: however often cards and *)
(* the shared memory are put on the bus, moved, refused and taken away.       *)
BanksConsistent == OneBankPerWord /\ CardAnswers
=============================================================================
