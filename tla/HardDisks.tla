----------------------------- MODULE HardDisks -----------------------------
(***************************************************************************)
(* The Winchester controller, the CDC cartridge disk and the drum          *)
(* (src/src/devices/winchester, cdc, drum).  Each takes a control word,    *)
(* transfers at once and says so later, by a delayed callback; none looks  *)
(* whether it is active when it is told to go, and no clear takes back a   *)
(* callback.  A behaviour is about one of the three (hdKind).  Addresses   *)
(* on the surface are kept for the CDC and the drum, which hold it in      *)
(* memory; other register contents, error bits and words are left out.     *)
(***************************************************************************)
EXTENDS Integers

CONSTANTS HdPending,     \* bound: callbacks queued at a time
          SurfaceSizes,  \* words of a surface, as made or grown to the image
          SectorWords,   \* words in a sector
          MaxSector, MaxCount,   \* the registers' largest values
          HdModulus      \* 2^32 of the address arithmetic, scaled down

ASSUME HardDiskAssumption ==
  /\ SurfaceSizes \subseteq Nat /\ {HdPending, SectorWords, MaxSector, MaxCount} \subseteq Nat
  /\ HdModulus \in Nat \ {0} /\ \A s \in SurfaceSizes : s < HdModulus
  /\ MaxSector * SectorWords < HdModulus /\ MaxCount < HdModulus

VARIABLES
  hdKind,      \* the controller: "wd", "cdc" or "drum"
  hdActive, hdReady, hdEnabled, hdIrq,   \* status bits (ready: Winchester), interrupt bit
  hdEnds,      \* end callbacks queued
  hdSurface,   \* surfaceWords
  hdFirst, hdCount,   \* the words of the surface touched by the last operation
  hdDone       \* history: an operation ended, and no IDENT, GO or reset came since

hdVars == <<hdKind, hdActive, hdReady, hdEnabled, hdIrq, hdEnds, hdSurface, hdFirst, hdCount, hdDone>>
hdPlace == <<hdKind, hdSurface>>
hdTouched == <<hdFirst, hdCount>>

HardDiskInit ==
  /\ hdKind \in {"wd", "cdc", "drum"} /\ hdSurface \in SurfaceSizes
  /\ (hdKind = "wd" => \A s \in SurfaceSizes : hdSurface <= s)   \* no surface of its own
  /\ hdActive = FALSE /\ hdReady = FALSE /\ hdEnabled = FALSE /\ hdIrq = FALSE
  /\ hdEnds = 0 /\ hdFirst = 0 /\ hdCount = 0 /\ hdDone = FALSE

(* dev_queue_io_delay() of the end of the operation *)
EndLater == hdEnds < HdPending /\ hdEnds' = hdEnds + 1
-----------------------------------------------------------------------------
\* An error exit of wd_execute_go() that returns without a callback.
BadWdGo(enable) ==
  /\ hdKind = "wd" /\ hdActive' = TRUE /\ hdReady' = FALSE /\ hdEnabled' = enable
  /\ hdIrq' = FALSE /\ (EndLater \/ UNCHANGED hdEnds) /\ hdDone' = FALSE
  /\ UNCHANGED <<hdPlace, hdTouched>>
(* wd_write() of a control word with GO, after a clear or not: whatever     *)
(* wd_execute_go() finds, it queues the end.                                *)
WdGo(enable) ==
  /\ hdKind = "wd" /\ hdActive' = TRUE /\ hdReady' = FALSE /\ hdEnabled' = enable
  /\ hdIrq' = FALSE /\ EndLater /\ hdDone' = FALSE /\ UNCHANGED <<hdPlace, hdTouched>>

(* wd_write() of another control word, with a clear or without. *)
WdLoad(enable, clear) ==
  /\ hdKind = "wd" /\ hdEnabled' = enable /\ hdReady' = TRUE /\ hdIrq' = enable
  /\ hdActive' = (hdActive /\ ~clear) /\ UNCHANGED <<hdPlace, hdTouched, hdEnds, hdDone>>

(* wd_transfer_end() *)
WdEnd ==
  /\ hdKind = "wd" /\ hdEnds > 0 /\ hdEnds' = hdEnds - 1 /\ hdActive' = FALSE /\ hdReady' = TRUE
  /\ hdIrq' = (hdIrq \/ hdEnabled) /\ hdDone' = TRUE /\ UNCHANGED <<hdPlace, hdTouched, hdEnabled>>
-----------------------------------------------------------------------------
\* The check with its second half only: the difference wraps around.
BadOutOfRange(first, count) == count > (hdSurface - first) % HdModulus
(* The bounds check of cdc_execute_go() and drum_execute_go(). *)
OutOfRange(first, count) == first > hdSurface \/ count > (hdSurface - first) % HdModulus

(* cdc_execute_go(), drum_execute_go(): the transfer, or none (a test mode  *)
(* read, an operation without a meaning, an address off the surface).       *)
SurfaceGo(enabled, sector, count) ==
  LET first == sector * SectorWords
  IN  /\ hdActive' = TRUE /\ hdEnabled' = enabled /\ EndLater /\ hdDone' = FALSE
      /\ \/ ~OutOfRange(first, count) /\ hdFirst' = first /\ hdCount' = count
         \/ hdFirst' = 0 /\ hdCount' = 0
      /\ UNCHANGED <<hdPlace, hdReady, hdIrq>>

(* cdc_write() and drum_write() of a control word: go, or clear. *)
CdcGo(sector, count) == hdKind = "cdc" /\ SurfaceGo(TRUE, sector, count)
DrumGo(sector, count) == hdKind = "drum" /\ SurfaceGo(TRUE, sector, count)

SurfaceClear ==
  /\ hdKind \in {"cdc", "drum"} /\ hdActive' = FALSE /\ hdEnabled' = FALSE
  /\ UNCHANGED <<hdPlace, hdTouched, hdReady, hdIrq, hdEnds, hdDone>>

(* cdc_iot_op() of the disk: the ND-1 instructions enable and activate.     *)
CdcIot(pin, act, sector, count) ==
  /\ hdKind = "cdc"
  /\ IF act THEN SurfaceGo(hdEnabled \/ pin, sector, count)
            ELSE /\ hdEnabled' = (hdEnabled \/ pin)
                 /\ UNCHANGED <<hdPlace, hdTouched, hdActive, hdReady, hdIrq, hdEnds, hdDone>>

(* cdc_end() always interrupts; drum_end() if it may. *)
CdcEnd ==
  /\ hdKind = "cdc" /\ hdEnds > 0 /\ hdEnds' = hdEnds - 1 /\ hdActive' = FALSE /\ hdReady' = TRUE
  /\ hdIrq' = TRUE /\ hdDone' = TRUE /\ UNCHANGED <<hdPlace, hdTouched, hdEnabled>>
\* A callback that keeps the interrupt to itself.
BadDrumEnd ==
  /\ hdKind = "drum" /\ hdEnds > 0 /\ hdEnds' = hdEnds - 1 /\ hdActive' = FALSE
  /\ hdDone' = TRUE /\ UNCHANGED <<hdPlace, hdTouched, hdEnabled, hdReady, hdIrq>>
DrumEnd ==
  /\ hdKind = "drum" /\ hdEnds > 0 /\ hdEnds' = hdEnds - 1 /\ hdActive' = FALSE
  /\ hdIrq' = (hdIrq \/ hdEnabled) /\ hdDone' = TRUE
  /\ UNCHANGED <<hdPlace, hdTouched, hdEnabled, hdReady>>
-----------------------------------------------------------------------------
(* wd_ident(), cdc_ident(), drum_ident(): the drum's stays enabled. *)
HardDiskIdent ==
  /\ hdIrq /\ hdIrq' = FALSE /\ hdEnabled' = (hdEnabled /\ hdKind = "drum") /\ hdDone' = FALSE
  /\ UNCHANGED <<hdPlace, hdTouched, hdActive, hdReady, hdEnds>>

(* wd_reset(), cdc_reset(), drum_reset() *)
HardDiskReset ==
  /\ hdActive' = FALSE /\ hdReady' = FALSE /\ hdEnabled' = FALSE /\ hdIrq' = FALSE
  /\ hdDone' = FALSE /\ UNCHANGED <<hdPlace, hdTouched, hdEnds>>

HardDiskNext ==
  \/ \E enable \in BOOLEAN : WdGo(enable)
  \/ \E enable, clear \in BOOLEAN : WdLoad(enable, clear)
  \/ WdEnd
  \/ \E sector \in 0..MaxSector, count \in 0..MaxCount : CdcGo(sector, count)
  \/ \E sector \in 0..MaxSector, count \in 0..MaxCount : DrumGo(sector, count)
  \/ \E pin, act \in BOOLEAN, sector \in 0..MaxSector, count \in 0..MaxCount :
       CdcIot(pin, act, sector, count)
  \/ SurfaceClear
  \/ CdcEnd
  \/ DrumEnd
  \/ HardDiskIdent
  \/ HardDiskReset
-----------------------------------------------------------------------------
HardDiskTypeOK ==
  /\ hdKind \in {"wd", "cdc", "drum"} /\ hdSurface \in SurfaceSizes
  /\ {hdActive, hdReady, hdEnabled, hdIrq, hdDone} \subseteq BOOLEAN
  /\ hdEnds \in 0..HdPending /\ hdFirst \in 0..(MaxSector * SectorWords) /\ hdCount \in 0..MaxCount

(* A controller that is active has a callback to end it: no way through      *)
(* execute_go() leaves it without, and a callback left over from an          *)
(* operation that was cleared, or overtaken by another, ends one and leaves  *)
(* the other's own callback.                                                 *)
HardDiskEnds == hdActive => hdEnds > 0

(* An operation that ended with the interrupt enabled, and was not asked     *)
(* for since, has its interrupt pending, also if the interrupt was enabled   *)
(* after the operation had ended.                                            *)
HardDiskTold == hdDone /\ hdEnabled => hdIrq

(* The words of a transfer are words of the surface, at every size of it: in *)
(* the unsigned arithmetic of the check no address gets past.                *)
WithinSurface == hdFirst + hdCount <= hdSurface
=============================================================================
