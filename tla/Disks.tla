-------------------------------- MODULE Disks --------------------------------
(***************************************************************************)
(* The disk and floppy controllers side by side.  Each is ticked and       *)
(* written by the machine and none calls another, so their behaviours are  *)
(* those of each, in any interleaving.                                     *)
(***************************************************************************)
EXTENDS SmdDisk, HardDisks, Floppies

SmdSpec == SmdInit /\ [][SmdNext]_smdVars
HardDiskSpec == HardDiskInit /\ [][HardDiskNext]_hdVars
FloppySpec == FloppyInit /\ [][FloppyNext]_flVars

DisksSpec == SmdSpec /\ HardDiskSpec /\ FloppySpec
-----------------------------------------------------------------------------
(* An operation in progress has what will end it, in all controllers,        *)
(* whatever error it met and whatever was cleared before: a callback in the  *)
(* queue or a watchdog that is counting.                                     *)
OperationsEnd == SmdEnds /\ HardDiskEnds /\ FloppyEnds

(* An operation that is over has told the CPU so, if it may interrupt: the   *)
(* driver that waits for the disk gets its interrupt, whichever callback     *)
(* ended the operation.                                                      *)
DisksTold == SmdTold /\ HardDiskTold /\ FloppyTold
=============================================================================
