-------------------------- MODULE MemoryManagement --------------------------
(***************************************************************************)
(* Address translation of src/src/cpu/cpu_mms.c: page tables kept in a     *)
(* shadow RAM at the top of the first 64K words, in two formats that share *)
(* that RAM (one word an entry in normal mode, two in extended mode), the  *)
(* checks of an access, and the used and written marks.  The registers that *)
(* tell a program about a fault are in FaultRegisters.                     *)
(*                                                                         *)
(* The geometry is a parameter: Pages pages of PageWords words, Tables4    *)
(* and Tables16 tables in the two table modes.  A word of shadow RAM is a  *)
(* record of the fields an entry can have in it; in extended mode the page *)
(* frame is in the second word.                                            *)
(***************************************************************************)
EXTENDS Integers, FiniteSets

CONSTANTS Pages, PageWords, Tables4, Tables16,
          Entries,      \* words that programs store into the tables
          MaxStored,    \* bound: words of the tables that are not zero
          MemoryPages,  \* frames below this one answer on the bus
          PCRs          \* paging control registers of the levels

Permits == {"R", "W", "F"}
ShadowWord == [permits : SUBSET Permits, wip : BOOLEAN, pgu : BOOLEAN, ring : 0..3, frame : Nat]

ASSUME MmsAssumption ==
  /\ Pages \in Nat \ {0} /\ PageWords \in Nat \ {0}
  /\ Tables4 \in Nat \ {0} /\ Tables16 \in Nat /\ Tables16 >= Tables4
  /\ Tables16 * Pages * 2 <= Pages * PageWords
  /\ MaxStored \in Nat /\ MemoryPages \in Nat /\ Entries \subseteq ShadowWord
  /\ PCRs \subseteq [ring : 0..3, sixteen : BOOLEAN, pt : 0..(Tables16 - 1), apt : 0..(Tables16 - 1)]

VARIABLES
  mmsType,    \* g_mms_type: 1 or 2
  mmsExt,     \* STS: extended addressing (SEXI)
  mmsPon,     \* STS: paging on
  mmsPtm,     \* STS: page table mode, data through the alternative table
  mmsPcr,     \* PCR of the running level: ring, sixteen, pt, apt
  mmsRam,     \* shadowRam
  mmsDirty    \* history: entries a write went through since they were stored

mmsMode == <<mmsType, mmsExt, mmsPon, mmsPtm>>
mmsVars == <<mmsMode, mmsPcr, mmsRam, mmsDirty>>

ZeroWord == [permits |-> {}, wip |-> FALSE, pgu |-> FALSE, ring |-> 0, frame |-> 0]

Space == Pages * PageWords     \* 64K words
(* mms_create_paging_tables(): the size of the shadow RAM; it ends at 64K. *)
ShadowSize == IF mmsType = 1 THEN Tables4 * Pages * 2 ELSE Tables16 * Pages * 2
ShadowBase == Space - ShadowSize

MmsInit ==
  /\ mmsType \in {1, 2} /\ mmsExt = FALSE /\ mmsPon = FALSE /\ mmsPtm = FALSE
  /\ mmsPcr \in PCRs /\ mmsRam = [i \in 0..(ShadowSize - 1) |-> ZeroWord]
  /\ mmsDirty = {}
-----------------------------------------------------------------------------
(* The sixteen-table mode needs the PCR's bit and the larger unit. *)
Sixteen == mmsPcr.sixteen /\ mmsType = 2

(* mms_map_virtual_to_physical(): the table an access goes through. *)
TableOf(apt) ==
  LET field == IF mmsPtm /\ apt THEN mmsPcr.apt ELSE mmsPcr.pt
  IN  IF Sixteen THEN field ELSE field % Tables4

(* mms_get_pt_shadow_address() *)
ShadowAddress(table, vpn) ==
  LET area == IF ~mmsExt THEN Tables4 * Pages
              ELSE IF Sixteen THEN Tables16 * Pages * 2 ELSE Tables4 * Pages * 2
      entry == table * Pages + vpn
  IN  (ShadowSize - area) + (IF mmsExt THEN 2 * entry ELSE entry)

\* mms_get_page_table_entry() that does not ask for the table in normal mode.
BadReadable(table) == table < 16
(* The entry is read at all: the normal format has four tables. *)
Readable(table) == mmsExt \/ table < Tables4

(* mms_get_page_table_entry() *)
EntryOf(table, vpn) ==
  LET i == ShadowAddress(table, vpn)
  IN  IF ~Readable(table) \/ i \notin DOMAIN mmsRam THEN ZeroWord
      ELSE IF mmsExt THEN [mmsRam[i] EXCEPT !.frame = mmsRam[i + 1].frame] ELSE mmsRam[i]

\* mms_is_address_shadow_memory() that forgets to ask for the ring.
BadIsShadow(address, privileged) ==
  address < Space /\ address >= Space - (IF mmsExt THEN Tables4 * Pages * 2 ELSE Tables4 * Pages)
(* mms_is_address_shadow_memory() *)
IsShadow(address, privileged) ==
  /\ address < Space
  /\ mmsPcr.ring = 3 \/ ~mmsPon \/ privileged
  /\ address >= Space - (IF ~mmsExt THEN Tables4 * Pages
                         ELSE IF Sixteen THEN Tables16 * Pages * 2 ELSE Tables4 * Pages * 2)

(* mms_memory_bank_lookup() finds a bank *)
Answers(address) == address < MemoryPages * PageWords
-----------------------------------------------------------------------------
(* The permits an access needs one of. *)
Needs(am) == IF am = "READ_FETCH" THEN {"R", "F"} ELSE IF am = "FETCH" THEN {"F"}
             ELSE IF am = "WRITE" THEN {"W"} ELSE {"R"}

(* The ring after a fetch: ring 3 is degraded to that of the page. *)
DegradedRing(am, entry) ==
  IF am \in {"FETCH", "READ_FETCH"} /\ mmsPcr.ring = 3 /\ entry.ring < 3
    THEN entry.ring ELSE mmsPcr.ring

\* mms_set_page_written() left to a read-modify-write's read.
BadMarked(entry, am) == [entry EXCEPT !.pgu = TRUE, !.wip = @ \/ am = "READ"]
(* mms_set_page_used(), mms_set_page_written() *)
Marked(entry, am) == [entry EXCEPT !.pgu = TRUE, !.wip = @ \/ am = "WRITE"]

(* mms_update_page_table_entry() with the entry as it was read and marked. *)
StoreEntry(ram, i, entry) ==
  IF i \notin DOMAIN ram THEN ram
  ELSE IF mmsExt THEN [ram EXCEPT ![i] = [entry EXCEPT !.frame = ram[i].frame]]
  ELSE [ram EXCEPT ![i] = entry]

(* mms_write(): a program stores a word into the shadow RAM. *)
StoreWord(address, word) ==
  LET i == address - ShadowBase
  IN  /\ i \in DOMAIN mmsRam /\ mmsRam' = [mmsRam EXCEPT ![i] = word]
      /\ Cardinality({j \in DOMAIN mmsRam : mmsRam'[j] # ZeroWord}) <= MaxStored
      /\ mmsDirty' = mmsDirty \ {i}

NoStore == UNCHANGED <<mmsRam, mmsDirty>>

(* An access that translation does not take part in: mms_read_physical_memory() *)
(* and mms_write_physical_memory_wm() at this address.                          *)
Untranslated(address, am, word) ==
  /\ UNCHANGED <<mmsMode, mmsPcr>>
  /\ IF am = "WRITE" /\ IsShadow(address, FALSE) THEN StoreWord(address, word) ELSE NoStore

(* mms_map_virtual_to_physical() with the physical access that follows. *)
Translated(address, am, apt, word) ==
  LET vpn == address \div PageWords
      table == TableOf(apt)
      i == ShadowAddress(table, vpn)
      entry == EntryOf(table, vpn)
      physical == entry.frame * PageWords + (address % PageWords)
      ring == DegradedRing(am, entry)
      permitted == entry.permits \cap Needs(am) # {}
      marked == StoreEntry(mmsRam, i, Marked(entry, am))
  IN  /\ mmsPcr' = IF permitted THEN [mmsPcr EXCEPT !.ring = ring] ELSE mmsPcr
      /\ UNCHANGED mmsMode
      /\ \/ ~permitted /\ NoStore                              \* page fault, permit violation
         \/ permitted /\ ring < entry.ring /\ NoStore           \* ring violation
         \/ permitted /\ ring >= entry.ring /\ ~Answers(physical) /\ NoStore   \* out of range
         \/ /\ permitted /\ ring >= entry.ring /\ Answers(physical)
            \* ring 3 (not degraded) reaches the tables through a page as well
            /\ IF am = "WRITE" /\ IsShadow(physical, FALSE) /\ physical >= ShadowBase
                 THEN /\ mmsRam' = [marked EXCEPT ![physical - ShadowBase] = word]
                      /\ Cardinality({j \in DOMAIN mmsRam : mmsRam'[j] # ZeroWord}) <= MaxStored
                      /\ mmsDirty' = (mmsDirty \cup {i}) \ {physical - ShadowBase}
                 ELSE /\ mmsRam' = marked
                      /\ mmsDirty' = IF am = "WRITE" THEN mmsDirty \cup {i} ELSE mmsDirty

Access(address, am, apt, word) ==
  IF (mmsPcr.ring = 3 /\ IsShadow(address, FALSE)) \/ ~mmsPon
    THEN Untranslated(address, am, word)
    ELSE Translated(address, am, apt, word)

(* A privileged physical store (DEPO and others), after check_priv(). *)
Deposit(address, word) ==
  /\ ~mmsPon \/ mmsPcr.ring >= 2
  /\ UNCHANGED <<mmsMode, mmsPcr>>
  /\ IF IsShadow(address, TRUE) THEN StoreWord(address, word) ELSE NoStore
-----------------------------------------------------------------------------
(* Another level runs, with its PCR, or the modes are set. *)
SwitchLevel(pcr) == mmsPcr' = pcr /\ UNCHANGED <<mmsMode, mmsRam, mmsDirty>>
SetMode(ext, pon, ptm) ==
  /\ mmsExt' = ext /\ mmsPon' = pon /\ mmsPtm' = ptm
  /\ UNCHANGED <<mmsType, mmsPcr, mmsRam, mmsDirty>>

\* The first word of every page and its last, and words that only DEPO reaches.
Addresses == {p * PageWords : p \in 0..(Pages - 1)} \cup {p * PageWords - 1 : p \in 1..Pages}
Deposits == {ShadowBase, Space - 1, MemoryPages * PageWords}
Accesses == {"READ", "WRITE", "FETCH", "READ_FETCH"}

MmsNext ==
  \/ \E a \in Addresses, am \in Accesses \ {"WRITE"}, apt \in BOOLEAN : Access(a, am, apt, ZeroWord)
  \/ \E a \in Addresses \cup ShadowBase..(Space - 1), apt \in BOOLEAN, w \in Entries :
       Access(a, "WRITE", apt, w)
  \/ \E a \in Deposits, w \in Entries : Deposit(a, w)
  \/ \E p \in PCRs : SwitchLevel(p)
  \/ \E e, p, t \in BOOLEAN : SetMode(e, p, t)

MmsSpec == MmsInit /\ [][MmsNext]_mmsVars
-----------------------------------------------------------------------------
(* Types. *)
MmsTypeOK ==
  /\ mmsType \in {1, 2} /\ {mmsExt, mmsPon, mmsPtm} \subseteq BOOLEAN
  /\ mmsRam \in [0..(ShadowSize - 1) -> ShadowWord]
  /\ mmsDirty \subseteq DOMAIN mmsRam

(* No translation touches a word outside the shadow RAM, in any mix of unit, *)
(* table mode and entry format: a table the format has no room for is not    *)
(* read, and none of its entries is ever present, so none is marked.         *)
ShadowInBounds ==
  \A apt \in BOOLEAN, vpn \in 0..(Pages - 1) :
    LET table == TableOf(apt)
        i == ShadowAddress(table, vpn)
    IN  Readable(table) \/ EntryOf(table, vpn).permits # {} =>
          i >= 0 /\ i + (IF mmsExt THEN 1 ELSE 0) < ShadowSize

(* A page that was written through an entry has its written mark in it for   *)
(* as long as the entry is not stored anew, though the two formats share the *)
(* RAM: an operating system that pages by the mark loses no page.            *)
WrittenIsMarked == \A i \in mmsDirty : mmsRam[i].wip

(* Translation leaves the tables to the rings they belong to: with paging on *)
(* a step of ring 0 or 1 sets marks in them and nothing else.                *)
LowRingsKeepTables ==
  [][mmsPon /\ mmsPcr.ring < 2 =>
       \A i \in DOMAIN mmsRam :
         [mmsRam'[i] EXCEPT !.wip = FALSE, !.pgu = FALSE] =
         [mmsRam[i] EXCEPT !.wip = FALSE, !.pgu = FALSE]]_mmsVars
=============================================================================
