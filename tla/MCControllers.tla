---------------------------- MODULE MCControllers ----------------------------
(***************************************************************************)
(* The controllers of disks, floppies, the SCSI bus, the Ethernet card and *)
(* the HDLC card for model checking.  They share nothing but the machine   *)
(* that ticks them, so a behaviour exercises one of them, chosen at the    *)
(* start: the state spaces add up instead of multiplying.                  *)
(***************************************************************************)
EXTENDS Disks, Scsi, Ethernet, EthLink, Hdlc

VARIABLE drive   \* the controller this behaviour is about

netVars == <<ethVars, linkVars, hdlcVars>>
vars == <<drive, smdVars, hdVars, flVars, scsiVars, netVars>>

Init ==
  /\ drive \in {"smd", "hard", "floppy", "scsi", "ethernet", "link", "receiver", "transmitter"}
  /\ SmdInit /\ HardDiskInit /\ FloppyInit /\ ScsiInit /\ EthInit /\ LinkInit
  /\ HdlcInit
  \* one way to leave alone what the behaviour is not about
  /\ (drive # "hard" => hdKind = "wd") /\ (drive # "floppy" => flKind = "pio")
  /\ (drive # "ethernet" => load.nd)

SmdSteps == drive = "smd" /\ SmdNext /\ UNCHANGED <<drive, hdVars, flVars, scsiVars, netVars>>
HardDiskSteps ==
  drive = "hard" /\ HardDiskNext /\ UNCHANGED <<drive, smdVars, flVars, scsiVars, netVars>>
FloppySteps ==
  drive = "floppy" /\ FloppyNext /\ UNCHANGED <<drive, smdVars, hdVars, scsiVars, netVars>>
ScsiSteps == drive = "scsi" /\ ScsiNext /\ UNCHANGED <<drive, smdVars, hdVars, flVars, netVars>>
OthersRest == UNCHANGED <<drive, smdVars, hdVars, flVars, scsiVars>>
EthernetSteps == drive = "ethernet" /\ EthNext /\ OthersRest /\ UNCHANGED <<linkVars, hdlcVars>>
LinkSteps == drive = "link" /\ LinkNext /\ OthersRest /\ UNCHANGED <<ethVars, hdlcVars>>
HdlcRest == OthersRest /\ UNCHANGED <<ethVars, linkVars>>
ReceiverSteps == drive = "receiver" /\ ReceiverNext /\ HdlcRest
TransmitterSteps == drive = "transmitter" /\ TransmitterNext /\ HdlcRest

Next ==
  \/ SmdSteps \/ HardDiskSteps \/ FloppySteps \/ ScsiSteps \/ EthernetSteps \/ LinkSteps
  \/ ReceiverSteps \/ TransmitterSteps

\* A tick in which a delay of the SMD controller runs out.
Delays == drive = "smd" /\ SmdTick
\* Steps of the link's thread once it is to stop, and of the thread that waits for it.
LinkEnds == drive = "link" /\ ((net.stop /\ LinkThread) \/ NetStopEnds)

(* Devices are ticked for ever, so every delay runs out; the program that    *)
(* drives the SCSI adapter goes on when it can (both weak fairness, with     *)
(* ENABLED written out); the waits of the link's thread are polls of a       *)
(* fraction of a second.                                                     *)
ScsiFair ==
  /\ <>[](drive = "scsi" /\ TickDoesSomething) => []<><<drive = "scsi" /\ ScsiTick>>_scsiVars
  /\ <>[](drive = "scsi" /\ ProgCanGoOn) => []<><<drive = "scsi" /\ ProgGoesOn>>_scsiVars

Spec == Init /\ [][Next]_vars /\ WF_smdVars(Delays) /\ ScsiFair /\ WF_linkVars(LinkEnds)
-----------------------------------------------------------------------------
(* An operation that is over has told the CPU so, if it may interrupt: the   *)
(* driver that waits for the interrupt gets it, in all controllers.          *)
InterruptsTold == DisksTold /\ ScsiTold /\ EthTold /\ HdlcTold

(* Bytes pass the SCSI bus once each and in order, and all of them do,       *)
(* however the program cuts the data phase into transfers, none of which     *)
(* stands still without a running clock or a byte owed; frames cross the     *)
(* rings of the Ethernet card and the lists of the HDLC card in order and    *)
(* whole, however often they run empty.                                      *)
DataInOrder == ScsiEnds /\ ScsiInOrder /\ EthInOrder /\ HdlcInOrder

(* An SMD operation ends although clears and searches interfere, and a SCSI  *)
(* connection frees the bus although the program gives up half way; a stop   *)
(* of the network link returns.                                              *)
OperationsOver == SmdOver /\ ScsiOver /\ LinkStops
=============================================================================
