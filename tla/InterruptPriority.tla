------------------------- MODULE InterruptPriority -------------------------
(***************************************************************************)
(* What the ND-100 interrupt system promises a program, without saying how *)
(* a CPU finds out that the level must change: at every instruction        *)
(* boundary, with the interrupt system on, the running level is the        *)
(* highest level that is enabled and requested, an enabled internal        *)
(* interrupt being a request for level 14.  Between boundaries the level   *)
(* stands still while the program does what it likes to the registers and  *)
(* the devices add requests.                                               *)
(*                                                                         *)
(* NDInterrupt, which looks at the registers only when gCHKIT is set, is   *)
(* shown to implement this module.                                         *)
(***************************************************************************)
EXTENDS Integers

CONSTANTS Levels, DeviceLevels, Sources

VARIABLES pie, pid, iie, iid, pil, ion, phase

registers == <<pie, pid, iie, iid, ion>>
avars == <<pie, pid, iie, iid, pil, ion, phase>>

InternalLevel == 14

(* l is the level a CPU with these requests must run on. *)
IsHighest(l, requested) ==
  \/ requested = {} /\ l = 0
  \/ l \in requested /\ \A k \in requested : k <= l

Init ==
  /\ pie = {} /\ pid = {} /\ iie = {} /\ iid = {}
  /\ pil = 0 /\ ion = FALSE /\ phase = "check"

(* The level is settled.  The error indicator may be noticed here. *)
Boundary ==
  /\ phase = "check" /\ phase' = "exec"
  /\ iid \subseteq iid' /\ iid' \subseteq Sources
  /\ pid' = IF iid' \cap iie = {} THEN pid ELSE pid \cup {InternalLevel}
  /\ IF ion THEN IsHighest(pil', pie \cap pid') ELSE pil' = pil
  /\ UNCHANGED <<pie, iie, ion>>

(* An instruction, completed ("io") or abandoned by a fault ("check"). *)
Run ==
  /\ phase = "exec" /\ phase' \in {"io", "check"}
  /\ pil' = pil
  /\ pie' \in SUBSET Levels /\ pid' \in SUBSET Levels
  /\ iie' \in SUBSET Sources /\ iid' \in SUBSET Sources
  /\ ion' \in BOOLEAN

(* The devices' requests are latched; none is withdrawn. *)
Latch ==
  /\ phase = "io" /\ phase' = "check"
  /\ pid \subseteq pid' /\ pid' \subseteq pid \cup DeviceLevels
  /\ UNCHANGED <<pie, iie, iid, pil, ion>>

(* A device's transfer fails: an internal interrupt outside any instruction. *)
Notice ==
  /\ phase = "io" /\ phase' = "io"
  /\ iid \subseteq iid' /\ iid' \subseteq Sources
  /\ pid' = IF iid' \cap iie = {} THEN pid ELSE pid \cup {InternalLevel}
  /\ UNCHANGED <<pie, iie, pil, ion>>

Restart == phase = "check" /\ Init'

Next == Boundary \/ Run \/ Latch \/ Notice \/ Restart

Spec == Init /\ [][Next]_avars
=============================================================================
