----------------------------- MODULE TableWalk -----------------------------
(***************************************************************************)
(* What devmgr_tick() promises: to be indistinguishable from the walk over *)
(* the whole device table that it replaced.  After every instruction each  *)
(* device that must have its turn has it, once, in table order, and the OR *)
(* of the interrupt bits is what the devices hold at that moment.  A       *)
(* device with nothing to do may be passed over; input from another thread *)
(* may be noticed in a later pass.                                         *)
(***************************************************************************)
EXTENDS Devices

VARIABLES walking,    \* a pass is under way
          at,         \* the device that had its turn last
          bits        \* the OR the last pass returned

walkVars == <<delay, queue, irq, walking, at, bits>>

WalkInit == DevInit /\ walking = FALSE /\ at = 0 /\ bits = FALSE

\* Devices a pass may not leave out.
Due == Always \cup {d \in Devs : delay[d] > 0}

StartWalk == ~walking /\ walking' = TRUE /\ UNCHANGED <<delay, queue, irq, at, bits>>

Visit(d) ==
  /\ walking /\ d > at /\ Due \cap (at + 1)..(d - 1) = {}
  /\ \E asked \in BOOLEAN : Ticks(d, asked)
  /\ at' = d
  /\ UNCHANGED <<walking, bits>>

EndWalk ==
  /\ walking /\ Due \cap (at + 1)..N = {}
  /\ walking' = FALSE /\ at' = 0 /\ bits' = AnyIrq
  /\ UNCHANGED devVars

\* The instruction between two passes.
Operate ==
  /\ ~walking
  /\ \/ \E d \in Devs, t \in 1..MaxDelay : QueueDelay(d, t)
     \/ \E d \in Devs, b \in BOOLEAN : SetIrq(d, b)
  /\ UNCHANGED <<walking, at, bits>>

Input == (\E d \in Devs : Arrives(d)) /\ UNCHANGED <<walking, at, bits>>

WalkNext == StartWalk \/ (\E d \in Devs : Visit(d)) \/ EndWalk \/ Operate \/ Input

WalkSpec == WalkInit /\ [][WalkNext]_walkVars
=============================================================================
