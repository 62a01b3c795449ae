---------------------------- MODULE MCNDMachine ----------------------------
(***************************************************************************)
(* Four devices, two on each of two levels, those of the lower level first *)
(* in the table.                                                           *)
(***************************************************************************)
EXTENDS NDMachine

MCLevelOf == [d \in Devs |-> IF d <= 2 THEN 12 ELSE 13]
=============================================================================
