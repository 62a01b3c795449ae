---------------------------- MODULE PaperDevices ----------------------------
(***************************************************************************)
(* The paper tape reader, the paper tape punch and the line printer        *)
(* (src/src/devices/papertape, papertapewriter and lineprinter).  Reader   *)
(* and printer answer within the IOX; the punch ends its work some ticks   *)
(* later, when the program may have identified, disabled or cleared it.    *)
(* A tape is the positions of its bytes: the byte at position p is p + 1,  *)
(* and 0 is what the reader gives at the end.                              *)
(***************************************************************************)
EXTENDS Integers, Sequences

CONSTANTS TapeLengths,     \* lengths of the tapes ptr_load_tape() is given
          TapeCapacity,    \* PTW_INITIAL_TAPE_CAPACITY
          MaxPunched,      \* bound: bytes punched since the last clear
          MaxPunching,     \* bound: punch_end() calls under way
          PunchTicks       \* IODELAY_PAPERTAPE

ASSUME PaperAssumption ==
  /\ TapeLengths \subseteq Nat \ {0} /\ TapeCapacity \in Nat \ {0} /\ MaxPunched \in Nat
  /\ MaxPunching \in Nat \ {0} /\ PunchTicks \in Nat \ {0}

VARIABLES
  ptr,       \* reader: enabled, ready, buffer, position, length, interrupt bit 12
  ptp,       \* punch: enabled, ready, position, capacity (0: no buffer), interrupt bit 10
  ptpEnds,   \* ticks left of each queued punch_end()
  lpr        \* printer: enabled, active, interrupt bit 10

paperVars == <<ptr, ptp, ptpEnds, lpr>>

(* The three reset and create functions. *)
PaperInit ==
  /\ ptr = [enabled |-> FALSE, ready |-> TRUE, buffer |-> 0, position |-> 0, length |-> 0,
            irq |-> FALSE]
  /\ ptp = [enabled |-> FALSE, ready |-> FALSE, position |-> 0, capacity |-> 0, irq |-> FALSE]
  /\ ptpEnds = <<>> /\ lpr = [enabled |-> FALSE, active |-> FALSE, irq |-> FALSE]
-----------------------------------------------------------------------------
(* ptr_load_tape(), which may find no memory for the copy. *)
PtrLoadTape(length, allocated) ==
  /\ ptr' = [ptr EXCEPT !.length = IF allocated THEN length ELSE 0, !.position = 0]
  /\ UNCHANGED <<ptp, ptpEnds, lpr>>

(* paper_tape_read() of the data register. *)
PtrReadData == ptr' = [ptr EXCEPT !.ready = FALSE] /\ UNCHANGED <<ptp, ptpEnds, lpr>>

(* paper_tape_write() of the control word: a clear rewinds the tape and then *)
(* nothing is read, whatever the read bit says.                              *)
PtrWriteControl(enable, read, clear) ==
  LET position == IF clear THEN 0 ELSE ptr.position
      reads == read /\ ~clear
      found == reads /\ position < ptr.length
  IN  /\ ptr' = [ptr EXCEPT !.enabled = enable, !.ready = TRUE, !.irq = enable,
                   !.position = IF found THEN position + 1 ELSE position,
                   !.buffer = IF found THEN position + 1
                              ELSE IF reads \/ clear THEN 0 ELSE @]
      /\ UNCHANGED <<ptp, ptpEnds, lpr>>

(* paper_tape_ident() *)
PtrIdent ==
  /\ ptr.irq /\ ptr' = [ptr EXCEPT !.enabled = FALSE, !.irq = FALSE]
  /\ UNCHANGED <<ptp, ptpEnds, lpr>>
-----------------------------------------------------------------------------
(* paper_tape_writer_grow_buffer(): the capacity after it, with memory and   *)
(* without.                                                                  *)
Grown(position, capacity) ==
  IF capacity = 0 THEN TapeCapacity
  ELSE IF position >= capacity THEN 2 * capacity ELSE capacity
GrowMayFail(position, capacity) == Grown(position, capacity) # capacity

(* paper_tape_writer_write() of the control word. *)
PtpWriteControl(enable, activate, clear, allocated) ==
  LET position == IF clear THEN 0 ELSE ptp.position
      punches == activate /\ ~clear
      grows == allocated \/ ~GrowMayFail(position, ptp.capacity)
  IN  /\ punches => position < MaxPunched /\ Len(ptpEnds) < MaxPunching
      /\ ptp' = [enabled |-> enable, irq |-> enable,
                 ready |-> ~punches \/ grows,
                 position |-> IF punches /\ grows THEN position + 1 ELSE position,
                 capacity |-> IF punches /\ grows THEN Grown(position, ptp.capacity)
                              ELSE ptp.capacity]
      /\ ptpEnds' = IF punches /\ enable THEN Append(ptpEnds, PunchTicks) ELSE ptpEnds
      /\ UNCHANGED <<ptr, lpr>>

(* punch_end() and the interrupt dev_tick_io_delay() raises for it. *)
PunchEnds(ends) == [ptp EXCEPT !.ready = @ \/ ends, !.irq = @ \/ (ends /\ ptp.enabled)]

(* paper_tape_writer_tick() *)
PtpTick ==
  LET left == SelectSeq(ptpEnds, LAMBDA d : d > 1)
  IN  /\ ptp' = PunchEnds(left # ptpEnds)
      /\ ptpEnds' = [i \in DOMAIN left |-> left[i] - 1]
      /\ UNCHANGED <<ptr, lpr>>

(* paper_tape_writer_ident() *)
PtpIdent ==
  /\ ptp.irq /\ ptp' = [ptp EXCEPT !.enabled = FALSE, !.irq = FALSE]
  /\ UNCHANGED <<ptr, ptpEnds, lpr>>
-----------------------------------------------------------------------------
(* line_printer_write() of the control word; the device clear does nothing. *)
LprWriteControl(enable, activate) ==
  /\ lpr' = [enabled |-> enable, active |-> activate, irq |-> enable]
  /\ UNCHANGED <<ptr, ptp, ptpEnds>>

(* line_printer_ident() *)
LprIdent ==
  /\ lpr.irq /\ lpr' = [lpr EXCEPT !.enabled = FALSE, !.irq = FALSE]
  /\ UNCHANGED <<ptr, ptp, ptpEnds>>

PaperNext ==
  \/ \E n \in TapeLengths, a \in BOOLEAN : PtrLoadTape(n, a)
  \/ PtrReadData \/ PtrIdent \/ PtpTick \/ PtpIdent \/ LprIdent
  \/ \E e, r, c \in BOOLEAN : PtrWriteControl(e, r, c)
  \/ \E e, a, c, m \in BOOLEAN : PtpWriteControl(e, a, c, m)
  \/ \E e, a \in BOOLEAN : LprWriteControl(e, a)
-----------------------------------------------------------------------------
(* Types; the punch never stores beyond its buffer, however often the tape   *)
(* is cleared, grown or cannot grow.                                         *)
PaperTypeOK ==
  /\ ptr \in [enabled : BOOLEAN, ready : BOOLEAN, irq : BOOLEAN, buffer : Nat, position : Nat,
              length : Nat]
  /\ ptr.position <= ptr.length
  /\ ptp \in [enabled : BOOLEAN, ready : BOOLEAN, irq : BOOLEAN, position : 0..MaxPunched,
              capacity : Nat]
  /\ ptp.position <= ptp.capacity
  /\ \A i \in DOMAIN ptpEnds : ptpEnds[i] \in 1..PunchTicks
  /\ lpr \in [enabled : BOOLEAN, active : BOOLEAN, irq : BOOLEAN]

(* The interrupt is requested exactly while it is enabled: a punch_end() that *)
(* comes after IDENT or after a disabling control word raises nothing, and no *)
(* order of controls, reads and ends leaves an enabled device silent.         *)
PaperInterrupts ==
  ptr.irq = ptr.enabled /\ ptp.irq = ptp.enabled /\ lpr.irq = lpr.enabled
=============================================================================
