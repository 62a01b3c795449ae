------------------------------ MODULE SmdDisk ------------------------------
(***************************************************************************)
(* The SMD disk controller (src/src/devices/smd/device_smd.c): an          *)
(* operation is started by a control word and ended at once or by a        *)
(* delayed callback; the drives move their arms beside it.  A device clear *)
(* does not take back the callbacks that are queued.  Register contents,   *)
(* error bits, the on-cylinder bits and the words transferred are left     *)
(* out; whether the drive is attached, the address good and the transfer   *)
(* successful is a choice.  The delays depend on arm and rotation, so      *)
(* queued callbacks come in any order.                                     *)
(***************************************************************************)
EXTENDS Integers, FiniteSets

CONSTANTS SmdUnits,     \* drives of the controller
          SmdPending,   \* bound: operation ends queued at a time, and seek ends of a unit
          SearchTicks   \* SMD_TIMEOUT_TICKS, in turns of a search

ASSUME SmdAssumption == SmdPending \in Nat /\ SearchTicks \in Nat \ {0}

VARIABLES
  smdActive, smdReady, smdEnabled,   \* status bits 2 and 3, interrupt enabled
  smdIrq,        \* the interrupt bit
  smdNoEnd,      \* the operation code in progress is one without a meaning
  smdSeekDone,   \* seekComplete bits, by unit
  smdIssued,     \* seekIssuedMask
  smdTurns,      \* searchTicks
  smdEnds,       \* callbacks queued that end an operation, by kind
  smdMoves,      \* callbacks of seeks queued, by unit
  smdCleared     \* history: an operation was cut off by a clear

smdVars == <<smdActive, smdReady, smdEnabled, smdIrq, smdNoEnd, smdSeekDone, smdIssued, smdTurns,
             smdEnds, smdMoves, smdCleared>>

SmdOps == {"transfer", "seek", "format", "search", "rtz", "ecc", "undefined"}
EndKinds == {"end", "timeout", "search"}
EndsQueued == smdEnds["end"] + smdEnds["timeout"] + smdEnds["search"]

SmdInit ==
  /\ smdActive = FALSE /\ smdReady = FALSE /\ smdEnabled = FALSE /\ smdIrq = FALSE
  /\ smdNoEnd = FALSE /\ smdSeekDone = {} /\ smdIssued = {} /\ smdTurns = 0
  /\ smdEnds = [k \in EndKinds |-> 0] /\ smdMoves = [u \in SmdUnits |-> 0] /\ smdCleared = FALSE
-----------------------------------------------------------------------------
(* finish_operation() *)
Finish(enable, irq) ==
  smdActive' = FALSE /\ smdReady' = TRUE /\ smdIrq' = (irq \/ enable) /\ smdNoEnd' = FALSE

(* The operation goes on until a callback of this kind comes. *)
Await(kind, irq) ==
  /\ smdActive' = TRUE /\ smdReady' = FALSE /\ smdIrq' = irq /\ smdNoEnd' = FALSE
  /\ EndsQueued < SmdPending /\ smdEnds' = [smdEnds EXCEPT ![kind] = @ + 1]

(* execute_go(), by operation.  A transfer (read, write, parity, compare)    *)
(* forgets the unit's seek; it fails at once or is ended by smd_read_end(),  *)
(* also when the address fields are not found.                               *)
Transfer(u, enable, irq) ==
  /\ smdSeekDone' = smdSeekDone \ {u} /\ smdIssued' = smdIssued \ {u}
  /\ \/ Finish(enable, irq) /\ UNCHANGED smdEnds
     \/ Await("end", irq)
  /\ UNCHANGED <<smdTurns, smdMoves>>

(* A seek is over at once and the arm moves on; a return to zero likewise,   *)
(* but its end sets the on-cylinder bit only.                                *)
InitiateSeek(u, enable, irq) ==
  /\ Finish(enable, irq) /\ smdIssued' = smdIssued \cup {u}
  /\ smdMoves[u] < SmdPending /\ smdMoves' = [smdMoves EXCEPT ![u] = @ + 1]
  /\ UNCHANGED <<smdSeekDone, smdTurns, smdEnds>>
ReturnToZero(u, enable, irq) ==
  /\ Finish(enable, irq) /\ smdIssued' = smdIssued \cup {u}
  /\ UNCHANGED <<smdSeekDone, smdTurns, smdEnds, smdMoves>>

WriteFormat(irq) == Await("end", irq) /\ UNCHANGED <<smdSeekDone, smdIssued, smdTurns, smdMoves>>

(* Without a seek issued there is no pulse to wait for, only the timeout. *)
SeekCompleteSearch(irq) ==
  /\ Await(IF smdIssued = {} THEN "timeout" ELSE "search", irq)
  /\ smdTurns' = (IF smdIssued = {} THEN smdTurns ELSE 0)
  /\ UNCHANGED <<smdSeekDone, smdIssued, smdMoves>>

(* Run ECC and select release are over at once; the default of the switch    *)
(* does nothing, so nothing ends it.                                         *)
Immediate(enable, irq) ==
  Finish(enable, irq) /\ UNCHANGED <<smdSeekDone, smdIssued, smdTurns, smdEnds, smdMoves>>
Undefined(irq) ==
  /\ smdActive' = TRUE /\ smdReady' = FALSE /\ smdIrq' = irq /\ smdNoEnd' = TRUE
  /\ UNCHANGED <<smdSeekDone, smdIssued, smdTurns, smdEnds, smdMoves>>

Operation(op, u, enable, irq) ==
  \/ op = "transfer" /\ Transfer(u, enable, irq)
  \/ op = "seek" /\ InitiateSeek(u, enable, irq)
  \/ op = "rtz" /\ ReturnToZero(u, enable, irq)
  \/ op = "format" /\ WriteFormat(irq)
  \/ op = "search" /\ SeekCompleteSearch(irq)
  \/ op = "ecc" /\ Immediate(enable, irq)
  \/ op = "undefined" /\ Undefined(irq)

(* The checks before the switch: a bad address, a write-protected pack, a    *)
(* format of no whole track; a transfer has forgotten the seek's pulse.      *)
Refused(op, u, enable, irq) ==
  /\ Finish(enable, irq)
  /\ smdSeekDone' = (IF op = "transfer" THEN smdSeekDone \ {u} ELSE smdSeekDone)
  /\ UNCHANGED <<smdIssued, smdTurns, smdEnds, smdMoves>>
-----------------------------------------------------------------------------
(* smd_write() of the control word.  While active only a device clear gets   *)
(* through; the others are illegal loads.                                    *)
Refuses(clear) == smdActive /\ ~clear

(* A control word with GO: no unit, no pack, or the operation. *)
SmdGo(op, u, enable) ==
  LET irq == smdIrq /\ enable   \* withdrawn if not enabled
  IN  /\ ~Refuses(FALSE) /\ smdEnabled' = enable /\ UNCHANGED smdCleared
      /\ \/ /\ Finish(enable, irq)
            /\ UNCHANGED <<smdSeekDone, smdIssued, smdTurns, smdEnds, smdMoves>>
         \/ Refused(op, u, enable, irq)
         \/ Operation(op, u, enable, irq)

(* A control word without GO or clear. *)
SmdLoad(enable) ==
  /\ ~Refuses(FALSE) /\ smdActive' = FALSE /\ smdReady' = TRUE /\ smdEnabled' = enable
  /\ smdIrq' = enable /\ smdNoEnd' = FALSE
  /\ UNCHANGED <<smdSeekDone, smdIssued, smdTurns, smdEnds, smdMoves, smdCleared>>

(* A device clear, in test mode or not. *)
SmdClear(enable, test) ==
  /\ ~Refuses(TRUE) /\ smdActive' = FALSE /\ smdReady' = FALSE /\ smdEnabled' = enable
  /\ smdIrq' = (enable /\ test) /\ smdNoEnd' = FALSE /\ smdIssued' = {}
  /\ smdCleared' = (smdCleared \/ EndsQueued > 0)
  /\ UNCHANGED <<smdSeekDone, smdTurns, smdEnds, smdMoves>>

(* smd_ident() *)
SmdIdent ==
  /\ smdIrq /\ smdIrq' = FALSE /\ smdEnabled' = FALSE
  /\ UNCHANGED <<smdActive, smdReady, smdNoEnd, smdSeekDone, smdIssued, smdTurns, smdEnds,
                 smdMoves, smdCleared>>

(* smd_reset(): the master clear.  The interrupt bit and the queue stay. *)
SmdReset ==
  /\ smdActive' = FALSE /\ smdReady' = FALSE /\ smdEnabled' = FALSE /\ smdNoEnd' = FALSE
  /\ smdCleared' = (smdCleared \/ EndsQueued > 0)
  /\ UNCHANGED <<smdIrq, smdSeekDone, smdIssued, smdTurns, smdEnds, smdMoves>>
-----------------------------------------------------------------------------
(* How a callback ends an operation, whichever is in progress. *)
Over(kind) ==
  /\ Finish(smdEnabled, smdIrq) /\ smdEnds' = [smdEnds EXCEPT ![kind] = @ - 1]

(* smd_read_end() and smd_timeout_end() *)
SmdEnd(kind) ==
  /\ kind # "search" /\ smdEnds[kind] > 0 /\ Over(kind)
  /\ UNCHANGED <<smdEnabled, smdSeekDone, smdIssued, smdTurns, smdMoves, smdCleared>>

\* A search that waits for the pulse only.
BadSearchTick ==
  /\ smdEnds["search"] > 0
  /\ IF smdSeekDone \cap smdIssued # {}
       THEN Over("search")
       ELSE UNCHANGED <<smdActive, smdReady, smdIrq, smdNoEnd, smdEnds>>
  /\ UNCHANGED <<smdEnabled, smdSeekDone, smdIssued, smdTurns, smdMoves, smdCleared>>
(* smd_search_tick(): the pulse of a seek that was issued, the timeout, or   *)
(* once more.                                                                *)
SearchTick ==
  /\ smdEnds["search"] > 0
  /\ IF smdSeekDone \cap smdIssued # {}
       THEN Over("search") /\ UNCHANGED smdTurns
     ELSE IF smdTurns + 1 >= SearchTicks
       THEN Over("search") /\ smdTurns' = SearchTicks   \* later turns only go further past it
     ELSE smdTurns' = smdTurns + 1 /\ UNCHANGED <<smdActive, smdReady, smdIrq, smdNoEnd, smdEnds>>
  /\ UNCHANGED <<smdEnabled, smdSeekDone, smdIssued, smdMoves, smdCleared>>

(* smd_seek_end(): the arm has arrived. *)
SeekEnd(u) ==
  /\ smdMoves[u] > 0 /\ smdMoves' = [smdMoves EXCEPT ![u] = @ - 1] /\ smdSeekDone' = smdSeekDone \cup {u}
  /\ UNCHANGED <<smdActive, smdReady, smdEnabled, smdIrq, smdNoEnd, smdIssued, smdTurns, smdEnds,
                 smdCleared>>

SmdTick == (\E kind \in EndKinds : SmdEnd(kind)) \/ SearchTick \/ \E u \in SmdUnits : SeekEnd(u)

SmdNext ==
  \/ \E kind \in EndKinds : SmdEnd(kind)
  \/ SearchTick
  \/ \E u \in SmdUnits : SeekEnd(u)
  \/ SmdIdent
  \/ SmdReset
  \/ \E enable \in BOOLEAN : SmdLoad(enable)
  \/ \E enable, test \in BOOLEAN : SmdClear(enable, test)
  \/ \E enable \in BOOLEAN, op \in SmdOps, u \in SmdUnits : SmdGo(op, u, enable)
-----------------------------------------------------------------------------
SmdTypeOK ==
  /\ {smdActive, smdReady, smdEnabled, smdIrq, smdNoEnd, smdCleared} \subseteq BOOLEAN
  /\ smdSeekDone \cup smdIssued \subseteq SmdUnits /\ smdMoves \in [SmdUnits -> 0..SmdPending]
  /\ smdTurns \in 0..SearchTicks /\ smdEnds \in [EndKinds -> 0..SmdPending]

(* A controller that is active has a callback to end it, and, as long as no  *)
(* operation was cut off by a clear, exactly its own one.  (An operation     *)
(* code without a meaning is left active, with nothing to end it.)           *)
SmdEnds ==
  /\ smdActive /\ ~smdNoEnd => EndsQueued > 0
  /\ smdActive /\ ~smdNoEnd /\ ~smdCleared => EndsQueued = 1
  /\ (~smdActive \/ smdNoEnd) /\ ~smdCleared => EndsQueued = 0

(* A controller that has finished and may interrupt does: no way out of an   *)
(* operation keeps the interrupt to itself, and neither does a stale         *)
(* callback that ends the operation of another.                              *)
SmdTold == smdEnabled /\ smdReady /\ ~smdActive => smdIrq

(* Every operation is over in the end, a search for a pulse that will never  *)
(* come, after a return to zero, by its timeout.                             *)
SmdOver == (smdActive /\ ~smdNoEnd) ~> ~smdActive
=============================================================================
