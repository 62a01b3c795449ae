---------------------------- MODULE MemoryBanks ----------------------------
(***************************************************************************)
(* The table of physical memory banks (src/src/cpu/cpu_mms.c): who answers *)
(* at a word address.  Installed RAM is one bank; a window on memory       *)
(* shared with an ND-5000 is registered beside it (machine/mfbus_bridge.c) *)
(* and an Ethernet card's DRAM may be laid over it and moved about         *)
(* (devices/ethernet/device_ethernet.c), which splits the local bank and   *)
(* leaves pieces behind.                                                   *)
(***************************************************************************)
EXTENDS Integers, Sequences, SequencesExt

CONSTANTS MemSize,     \* g_nd_memsize
          BankMax,     \* ND_MEMORY_BANK_MAX
          Words,       \* bound: addresses above installed memory end here
          Cards,       \* Ethernet cards
          WindowSize,  \* length of a card's DRAM, and the alignment of its address
          SharedStart, SharedSize   \* the shared window

ASSUME BanksAssumption ==
  /\ MemSize \in Nat \ {0} /\ BankMax \in Nat \ {0} /\ Words \in Nat /\ Words > MemSize
  /\ Cards \cap {"local", "shared"} = {}
  /\ WindowSize \in Nat \ {0} /\ SharedStart \in Nat /\ SharedSize \in Nat \ {0}

VARIABLES
  banks,      \* s_memory_banks: [start, size, owner], "local" for installed RAM
  window,     \* the address of each card's window
  placed      \* bank_registered of each card

bankVars == <<banks, window, placed>>

Bank(start, size, owner) == [start |-> start, size |-> size, owner |-> owner]
End(b) == b.start + b.size
Overlaps(b, start, size) == start < End(b) /\ start + size > b.start

Starts == {s \in 0..(Words - WindowSize) : s % WindowSize = 0}

(* mms_memory_banks_init() *)
BanksInit ==
  /\ banks = <<Bank(0, MemSize, "local")>>
  /\ window \in [Cards -> Starts] /\ placed = [c \in Cards |-> FALSE]
-----------------------------------------------------------------------------
(* mms_memory_bank_register_backed(): the table with the bank, or as it was. *)
Register(table, start, size, owner) ==
  IF Len(table) < BankMax /\ \A i \in DOMAIN table : ~Overlaps(table[i], start, size)
    THEN Append(table, Bank(start, size, owner)) ELSE table

(* mms_memory_bank_unregister() *)
Unregister(table, start) ==
  LET at == {i \in DOMAIN table : table[i].start = start}
  IN  IF at = {} THEN table ELSE RemoveAt(table, CHOOSE i \in at : \A j \in at : i <= j)

(* mms_memory_bank_register_over_local(): the local bank it lies in is split. *)
RegisterOverLocal(table, start, size, owner) ==
  LET hits == {i \in DOMAIN table : Overlaps(table[i], start, size)}
      h == CHOOSE i \in hits : TRUE
      local == table[h]
      low == IF start > local.start
               THEN [table EXCEPT ![h].size = start - local.start] ELSE RemoveAt(table, h)
      high == IF start + size < End(local)
                THEN <<Bank(start + size, End(local) - (start + size), "local")>> ELSE <<>>
      all == Append(low, Bank(start, size, owner)) \o high
  IN  IF hits = {} THEN Register(table, start, size, owner)
      ELSE IF hits # {h} \/ local.owner # "local" \/ start < local.start
              \/ start + size > End(local) \/ Len(all) > BankMax THEN table
      ELSE all

\* mms_memory_bank_unregister_over_local() that leaves the words to nobody.
BadUnregisterOverLocal(table, start) == Unregister(table, start)
(* mms_memory_bank_unregister_over_local(): what was installed RAM is so again. *)
UnregisterOverLocal(table, start) ==
  LET at == {i \in DOMAIN table : table[i].start = start}
      size == table[CHOOSE i \in at : \A j \in at : i <= j].size
      end == IF start + size > MemSize THEN MemSize ELSE start + size
  IN  IF at = {} THEN table
      ELSE IF start < MemSize THEN Register(Unregister(table, start), start, end - start, "local")
      ELSE Unregister(table, start)
-----------------------------------------------------------------------------
Owners(table) == {table[i].owner : i \in DOMAIN table}

(* mfbus_attach() and mfbus_detach(); the attach is given up if refused. *)
AttachShared ==
  /\ "shared" \notin Owners(banks)
  /\ banks' = Register(banks, SharedStart, SharedSize, "shared") /\ UNCHANGED <<window, placed>>
DetachShared ==
  /\ "shared" \in Owners(banks)
  /\ banks' = Unregister(banks, SharedStart) /\ UNCHANGED <<window, placed>>

(* eth_register_dram_window() *)
PlaceCard(c) ==
  /\ ~placed[c]
  /\ banks' = RegisterOverLocal(banks, window[c], WindowSize, c)
  /\ placed' = [placed EXCEPT ![c] = banks' # banks] /\ UNCHANGED window

(* eth_set_memory_bank(): moved, or put back where it was. *)
MoveCard(c, start) ==
  LET off == IF placed[c] THEN UnregisterOverLocal(banks, window[c]) ELSE banks
      moved == RegisterOverLocal(off, start, WindowSize, c)
      back == RegisterOverLocal(off, window[c], WindowSize, c)
  IN  /\ start # window[c]
      /\ IF moved # off
           THEN /\ banks' = moved /\ window' = [window EXCEPT ![c] = start]
                /\ placed' = [placed EXCEPT ![c] = TRUE]
           ELSE /\ banks' = back /\ placed' = [placed EXCEPT ![c] = back # off]
                /\ UNCHANGED window

(* eth_destroy() *)
RemoveCard(c) ==
  /\ placed[c] /\ banks' = UnregisterOverLocal(banks, window[c])
  /\ placed' = [placed EXCEPT ![c] = FALSE] /\ UNCHANGED window

BanksNext ==
  \/ AttachShared \/ DetachShared
  \/ \E c \in Cards : PlaceCard(c) \/ RemoveCard(c) \/ \E s \in Starts : MoveCard(c, s)
-----------------------------------------------------------------------------
BanksTypeOK ==
  /\ Len(banks) <= BankMax
  /\ \A i \in DOMAIN banks : banks[i].start \in Nat /\ banks[i].size \in Nat \ {0}
  /\ window \in [Cards -> Starts] /\ placed \in [Cards -> BOOLEAN]

(* Every word of installed RAM has exactly one bank, and no word has two,    *)
(* however often windows are laid over it, moved, refused and taken away.    *)
OneBankPerWord ==
  \A w \in 0..(Words + SharedSize) :
    LET at == {i \in DOMAIN banks : banks[i].start <= w /\ w < End(banks[i])}
    IN  IF w < MemSize THEN \E i \in at : at = {i} ELSE \A i, j \in at : i = j

(* A card that says it is placed answers at its window: a move that finds no *)
(* room puts it back, also when the table is full.                           *)
CardAnswers ==
  \A c \in Cards : placed[c] <=> \E i \in DOMAIN banks : banks[i] = Bank(window[c], WindowSize, c)
=============================================================================
