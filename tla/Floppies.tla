------------------------------ MODULE Floppies ------------------------------
(***************************************************************************)
(* The two floppy controllers: the one with a buffer read word by word     *)
(* (src/src/devices/floppy/device_floppy_pio.c) and the one with DMA and   *)
(* its self-tests (device_floppy_dma.c).  Both start an operation with a   *)
(* control word whether busy or not, end it by a delayed callback or at    *)
(* once, and clear without taking back callbacks; the DMA controller ends  *)
(* some operations at once AND by a callback.  A behaviour is about one of *)
(* them (flKind).  The buffer, addresses, error codes, the command block   *)
(* and what the self-tests compute are left out.                           *)
(***************************************************************************)
EXTENDS Integers

CONSTANTS FlPending,     \* bound: callbacks of a kind queued at a time
          WatchChunks    \* FLOPPY_DMA_WATCHDOG_CHUNKS

ASSUME FloppyAssumption == FlPending \in Nat /\ WatchChunks \in Nat \ {0}

VARIABLES
  flKind,     \* "pio" or "dma"
  flBusy,     \* deviceBusy, deviceActive
  flReady, flEnabled, flIrq,
  flEnds,     \* end callbacks queued
  flWatch, flChunks, flWatches,   \* watchdogActive, its count, its callbacks queued
  flNoEnd,    \* busy with a streamer command, which is not implemented
  flDone      \* history: an operation ended, and no IDENT, GO or reset came since

flVars == <<flKind, flBusy, flReady, flEnabled, flIrq, flEnds, flWatch, flChunks, flWatches,
            flNoEnd, flDone>>
flWatchdog == <<flWatch, flChunks, flWatches>>

FloppyInit ==
  /\ flKind \in {"pio", "dma"} /\ flBusy = FALSE /\ flReady = (flKind = "pio")
  /\ flEnabled = FALSE /\ flIrq = FALSE /\ flEnds = 0 /\ flWatch = FALSE /\ flChunks = 0
  /\ flWatches = 0 /\ flNoEnd = FALSE /\ flDone = FALSE

QueueEnd == flEnds < FlPending /\ flEnds' = flEnds + 1
-----------------------------------------------------------------------------
(* What floppy_pio_execute_go() makes of a command: it ends later, is over   *)
(* at once (a missing sector, write protection), or fails and leaves the     *)
(* controller neither busy nor ready (no drive, an error of the file, and a  *)
(* control reset).                                                           *)
PioOutcomes == {"end", "over", "fails"}

(* floppy_pio_write() of the control word: autoload, clear and the reset of  *)
(* the buffer address make it ready; then the command, if there is one.      *)
PioControl(enable, ready, how) ==
  /\ flKind = "pio" /\ flEnabled' = enable
  /\ flReady' = (IF how = "none" THEN flReady \/ ready ELSE how = "over")
  /\ flBusy' = (IF how = "none" THEN flBusy ELSE how = "end")
  /\ flDone' = (IF how = "none" THEN flDone ELSE how = "over")
  /\ (IF how = "end" THEN QueueEnd ELSE UNCHANGED flEnds)
  /\ flIrq' = (flEnabled' /\ flReady')
  /\ UNCHANGED <<flKind, flWatchdog, flNoEnd>>

(* floppy_pio_read_end(), _seek_end(), _recalibrate_end() *)
PioEnd ==
  /\ flKind = "pio" /\ flEnds > 0 /\ flEnds' = flEnds - 1 /\ flBusy' = FALSE /\ flReady' = TRUE
  /\ flIrq' = (flIrq \/ flEnabled) /\ flDone' = TRUE
  /\ UNCHANGED <<flKind, flEnabled, flWatchdog, flNoEnd>>
-----------------------------------------------------------------------------
(* floppy_dma_write() of a control word that executes nothing. *)
DmaLoad(enable, clear) ==
  /\ flKind = "dma" /\ flEnabled' = enable
  /\ flBusy' = (flBusy /\ ~clear) /\ flReady' = (flReady \/ clear)
  /\ flWatch' = (flWatch /\ ~clear) /\ flIrq' = (enable /\ flReady')
  /\ flNoEnd' = (flNoEnd /\ ~clear)
  /\ UNCHANGED <<flKind, flEnds, flChunks, flWatches, flDone>>

(* execute_test() of test 1: only the watchdog ends it.  The control word    *)
(* has cancelled an earlier watchdog, not its callback.                      *)
DmaWatchdogTest(enable) ==
  /\ flKind = "dma" /\ flEnabled' = enable /\ flBusy' = TRUE /\ flReady' = FALSE
  /\ flIrq' = FALSE /\ flNoEnd' = FALSE /\ flDone' = FALSE
  /\ flWatch' = TRUE /\ flChunks' = WatchChunks
  /\ flWatches < FlPending /\ flWatches' = flWatches + 1
  /\ UNCHANGED <<flKind, flEnds>>

(* What execute_autoload(), execute_test() of the other tests and            *)
(* execute_floppy_go() do.  "end": a callback ends it; "overEnd": an error   *)
(* ends it with its interrupt, and the callback is queued all the same;      *)
(* "failEnd": a failed read, over at once with its interrupt left to the     *)
(* callback; "over": the format of a drive without a diskette; "streamer":   *)
(* a control word for the streamer, for which nothing is done.               *)
AutoloadOutcomes == {"end"}
TestOutcomes == {"end"}
CommandOutcomes == {"end", "overEnd", "failEnd", "over"}

(* floppy_dma_write() of a control word that executes. *)
DmaGo(enable, how) ==
  /\ flKind = "dma" /\ flEnabled' = enable /\ flWatch' = FALSE
  /\ flBusy' = (how \in {"end", "streamer"}) /\ flReady' = ~flBusy'
  /\ flIrq' = (enable /\ how \in {"overEnd", "over"})
  /\ flDone' = (how \in {"overEnd", "over"}) /\ flNoEnd' = (how = "streamer")
  /\ (IF how \in {"end", "overEnd", "failEnd"} THEN QueueEnd ELSE UNCHANGED flEnds)
  /\ UNCHANGED <<flKind, flChunks, flWatches>>

(* read_end(), auto_load_end(), test_end(), test_error_end(): whichever      *)
(* operation is in progress is over.                                         *)
DmaOver ==
  /\ flBusy' = FALSE /\ flReady' = TRUE /\ flIrq' = flEnabled /\ flNoEnd' = FALSE /\ flDone' = TRUE
DmaEnd ==
  /\ flKind = "dma" /\ flEnds > 0 /\ flEnds' = flEnds - 1 /\ DmaOver
  /\ UNCHANGED <<flKind, flEnabled, flWatchdog>>

(* test_watchdog() *)
DmaWatchdog ==
  /\ flKind = "dma" /\ flWatches > 0 /\ UNCHANGED <<flKind, flEnabled, flEnds>>
  /\ IF ~flWatch
       THEN /\ flWatches' = flWatches - 1
            /\ UNCHANGED <<flBusy, flReady, flIrq, flNoEnd, flDone, flWatch, flChunks>>
     ELSE IF flChunks - 1 > 0
       THEN flChunks' = flChunks - 1 /\ UNCHANGED <<flBusy, flReady, flIrq, flNoEnd, flDone,
                                                   flWatch, flWatches>>
     ELSE flChunks' = 0 /\ flWatch' = FALSE /\ flWatches' = flWatches - 1 /\ DmaOver
-----------------------------------------------------------------------------
(* floppy_pio_ident(), floppy_dma_ident() *)
FloppyIdent ==
  /\ flIrq /\ flIrq' = FALSE /\ flEnabled' = FALSE /\ flDone' = FALSE
  /\ UNCHANGED <<flKind, flBusy, flReady, flEnds, flWatchdog, flNoEnd>>

(* floppy_pio_reset() keeps busy and the enabling; floppy_dma_reset() keeps  *)
(* the interrupt bit.                                                        *)
FloppyReset ==
  /\ flDone' = FALSE
  /\ IF flKind = "pio"
       THEN flReady' = TRUE /\ flIrq' = FALSE /\ UNCHANGED <<flBusy, flEnabled, flWatch, flChunks, flNoEnd>>
       ELSE /\ flBusy' = FALSE /\ flReady' = FALSE /\ flEnabled' = FALSE /\ flWatch' = FALSE
            /\ flChunks' = 0 /\ flNoEnd' = FALSE /\ UNCHANGED flIrq
  /\ UNCHANGED <<flKind, flEnds, flWatches>>

FloppyNext ==
  \/ \E enable, ready \in BOOLEAN, how \in PioOutcomes \cup {"none"} :
       PioControl(enable, ready, how)
  \/ PioEnd
  \/ \E enable, clear \in BOOLEAN : DmaLoad(enable, clear)
  \/ \E enable \in BOOLEAN : DmaWatchdogTest(enable)
  \/ \E enable \in BOOLEAN,
        how \in AutoloadOutcomes \cup TestOutcomes \cup CommandOutcomes \cup {"streamer"} :
       DmaGo(enable, how)
  \/ DmaEnd
  \/ DmaWatchdog
  \/ FloppyIdent
  \/ FloppyReset
-----------------------------------------------------------------------------
FloppyTypeOK ==
  /\ flKind \in {"pio", "dma"}
  /\ {flBusy, flReady, flEnabled, flIrq, flWatch, flNoEnd, flDone} \subseteq BOOLEAN
  /\ flEnds \in 0..FlPending /\ flChunks \in 0..WatchChunks /\ flWatches \in 0..FlPending

(* A busy controller has a callback that ends it, the DMA controller's test  *)
(* of the watchdog a watchdog that is counting, however many callbacks of    *)
(* cancelled operations are still to come.  (The streamer's commands do      *)
(* nothing and are left active.)                                             *)
FloppyEnds ==
  /\ flBusy /\ ~flNoEnd => flEnds > 0 \/ flWatch
  /\ flWatch => flWatches > 0 /\ flChunks > 0

(* An operation that ended with the interrupt enabled, and was not asked for *)
(* since, has its interrupt pending, also if a callback of another one, or  *)
(* an enabling control word, came in between.                                *)
FloppyTold == flDone /\ flEnabled => flIrq
=============================================================================
