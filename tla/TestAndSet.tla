----------------------------- MODULE TestAndSet -----------------------------
(***************************************************************************)
(* A semaphore in memory shared by the ND-100, whose TSET and TSETP are    *)
(* several steps (do_tset() of src/src/cpu/cpu_instr.c, with cpu_mms.c),   *)
(* and ND-5000 CPUs on host threads of their own (external: one exchange   *)
(* under the same mutex).  A semaphore is released with an ordinary store, *)
(* which takes no lock.  An access of the ND-100 may trap, which leaves    *)
(* the instruction by a jump.                                              *)
(***************************************************************************)
EXTENDS Integers

CONSTANT OtherCpus   \* the ND-5000 CPUs

ASSUME TsetAssumption == {"none", "nd100"} \cap OtherCpus = {}

VARIABLES
  cell,       \* the semaphore: TRUE is -1
  holder,     \* history: who was told it has the semaphore
  bus,        \* ndbus_lock(): who has the mutex
  tsPc,       \* where the ND-100 is in TSET
  tsA,        \* its A register: did the cell read as set
  tsOld,      \* s_tset_old_valid and s_tset_old
  tsHeld,     \* s_tset_lock_held
  tsStop      \* the ND-100 asks for the semaphore no more

tsetVars == <<cell, holder, bus, tsPc, tsA, tsOld, tsHeld, tsStop>>

NoOld == [valid |-> FALSE, set |-> FALSE]

TsetInit ==
  /\ cell = FALSE /\ holder = "none" /\ bus = "none"
  /\ tsPc = "idle" /\ tsA = FALSE /\ tsOld = NoOld /\ tsHeld = FALSE /\ tsStop = FALSE
-----------------------------------------------------------------------------
(* mms_tset_lock_begin() *)
TsetBegin ==
  /\ tsPc = "idle" /\ holder # "nd100" /\ ~tsStop /\ bus = "none"
  /\ bus' = "nd100" /\ tsHeld' = TRUE /\ tsOld' = NoOld /\ tsPc' = "read"
  /\ UNCHANGED <<cell, holder, tsA, tsStop>>

TsetRead ==
  /\ tsPc = "read" /\ tsA' = cell /\ tsPc' = "write"
  /\ UNCHANGED <<cell, holder, bus, tsOld, tsHeld, tsStop>>

\* The write half as a plain store.
BadTsetWrite ==
  /\ tsPc = "write" /\ cell' = TRUE /\ tsPc' = "take"
  /\ UNCHANGED <<holder, bus, tsA, tsOld, tsHeld, tsStop>>
(* mms_write_physical_memory_wm() with the lock held: one exchange. *)
TsetWrite ==
  /\ tsPc = "write" /\ tsHeld /\ cell' = TRUE /\ tsPc' = "take"
  /\ tsOld' = [valid |-> TRUE, set |-> cell]
  /\ UNCHANGED <<holder, bus, tsA, tsHeld, tsStop>>

(* mms_tset_take_old() *)
TsetTakeOld ==
  /\ tsPc = "take" /\ tsA' = (IF tsOld.valid THEN tsOld.set ELSE tsA)
  /\ tsOld' = NoOld /\ tsPc' = "end" /\ UNCHANGED <<cell, holder, bus, tsHeld, tsStop>>

(* mms_tset_lock_end(), and what the program makes of A. *)
TsetEnd ==
  /\ tsPc = "end" /\ tsHeld' = FALSE /\ bus' = "none" /\ tsPc' = "idle"
  /\ holder' = (IF tsA THEN holder ELSE "nd100") /\ UNCHANGED <<cell, tsA, tsOld, tsStop>>

\* The trap that jumps without giving the lock back.
BadTsetTrap ==
  /\ tsPc \in {"read", "write"} /\ tsPc' = "idle" /\ tsStop' = TRUE
  /\ UNCHANGED <<cell, holder, bus, tsA, tsOld, tsHeld>>
(* cpu_interrupt() for a faulting access of the pair; whether the program    *)
(* comes back to the instruction is up to the operating system.              *)
TsetTrap ==
  /\ tsPc \in {"read", "write"} /\ tsPc' = "idle" /\ tsStop' \in BOOLEAN
  /\ tsHeld' = FALSE /\ bus' = "none" /\ UNCHANGED <<cell, holder, tsA, tsOld>>

Release100 ==
  /\ tsPc = "idle" /\ holder = "nd100" /\ holder' = "none" /\ cell' = FALSE
  /\ UNCHANGED <<bus, tsPc, tsA, tsOld, tsHeld, tsStop>>
-----------------------------------------------------------------------------
(* Another CPU's TSET, waiting for the mutex, and its release. *)
TakeOther(c) ==
  /\ holder # c /\ bus = "none" /\ cell' = TRUE
  /\ holder' = (IF cell THEN holder ELSE c)
  /\ UNCHANGED <<bus, tsPc, tsA, tsOld, tsHeld, tsStop>>
ReleaseOther(c) ==
  /\ holder = c /\ holder' = "none" /\ cell' = FALSE
  /\ UNCHANGED <<bus, tsPc, tsA, tsOld, tsHeld, tsStop>>

Tset100 == TsetBegin \/ TsetRead \/ TsetWrite \/ TsetTakeOld \/ TsetEnd \/ TsetTrap \/ Release100
TsetNext == Tset100 \/ \E c \in OtherCpus : TakeOther(c) \/ ReleaseOther(c)
-----------------------------------------------------------------------------
TsetTypeOK ==
  /\ {cell, tsA, tsHeld, tsStop} \subseteq BOOLEAN /\ bus \in {"none", "nd100"}
  /\ holder \in {"none", "nd100"} \cup OtherCpus /\ tsPc \in {"idle", "read", "write", "take", "end"}
  /\ tsOld \in [valid : BOOLEAN, set : BOOLEAN]

(* A set semaphore has an owner, or the ND-100 is about to learn that it is  *)
(* the one: a release between the halves of a TSET is not overwritten, and   *)
(* the two never own it together.                                            *)
SemaphoreOwned ==
  /\ cell => \/ holder # "none"
             \/ tsPc = "take" /\ tsOld = [valid |-> TRUE, set |-> FALSE]
             \/ tsPc = "end" /\ ~tsA
  /\ ~cell => holder = "none"

(* The other CPUs are not locked out: the bus lock comes back, though the    *)
(* ND-100 traps out of a TSET for good.                                      *)
BusComesBack == [](bus = "nd100" => <>(bus = "none"))
=============================================================================
