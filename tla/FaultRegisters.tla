--------------------------- MODULE FaultRegisters ---------------------------
(***************************************************************************)
(* The registers a trap leaves for the operating system                    *)
(* (src/src/cpu/cpu_regs.c, cpu_mms.c): PGS tells the page of a fault, PEA *)
(* and PES the low and the high half of the physical address of a memory   *)
(* error.  Each keeps the first error until it is read.  gPGS_Lock is      *)
(* defined as the field of gPES_Lock.  A register is the number of the     *)
(* error it tells, 0 for none.                                             *)
(***************************************************************************)
EXTENDS Integers

CONSTANT MaxErrors   \* bound: errors in a behaviour

ASSUME FaultAssumption == MaxErrors \in Nat

VARIABLES errCount, pgs, pea, pes, lockPea, lockPes

faultVars == <<errCount, pgs, pea, pes, lockPea, lockPes>>

FaultInit == errCount = 0 /\ pgs = 0 /\ pea = 0 /\ pes = 0 /\ lockPea = FALSE /\ lockPes = FALSE

NewError == errCount < MaxErrors /\ errCount' = errCount + 1

(* cpu_set_pgs(), cpu_set_pea(), cpu_set_pes() for the new error; locked is *)
(* the lock as the calls before have left it.                               *)
SetPgs(locked) == pgs' = IF locked THEN pgs ELSE errCount'
SetPea == pea' = (IF lockPea THEN pea ELSE errCount') /\ lockPea' = TRUE
SetPes(locked) == pes' = IF locked THEN pes ELSE errCount'

(* A page fault or a protection violation: mms_update_pgs(). *)
PageError ==
  /\ NewError /\ SetPgs(lockPes) /\ lockPes' = TRUE /\ UNCHANGED <<pea, pes, lockPea>>

(* mms_map_virtual_to_physical() finds no memory: the page is told, then     *)
(* mms_handle_memory_out_of_range() tells the address.                       *)
TranslatedOutOfRange ==
  /\ NewError /\ SetPgs(lockPes) /\ SetPea /\ SetPes(TRUE) /\ lockPes' = TRUE

(* A physical access finds none, or the parity of a word is wrong. *)
PhysicalError ==
  /\ NewError /\ SetPea /\ SetPes(lockPes) /\ lockPes' = TRUE /\ UNCHANGED pgs

(* TRA PGS, TRA PEA *)
TraPgs == pgs' = 0 /\ lockPes' = FALSE /\ UNCHANGED <<errCount, pea, pes, lockPea>>
TraPea == lockPea' = FALSE /\ lockPes' = FALSE /\ UNCHANGED <<errCount, pgs, pea, pes>>

FaultNext == PageError \/ TranslatedOutOfRange \/ PhysicalError \/ TraPgs \/ TraPea

FaultSpec == FaultInit /\ [][FaultNext]_faultVars
-----------------------------------------------------------------------------
FaultTypeOK ==
  /\ {pgs, pea, pes} \subseteq 0..errCount /\ errCount \in 0..MaxErrors
  /\ {lockPea, lockPes} \subseteq BOOLEAN

(* PES is "set once, then locked" together with PEA: while PEA holds an      *)
(* error, PES is the other half of the same address.                         *)
ErrorAddressWhole == lockPea => pes = pea
=============================================================================
