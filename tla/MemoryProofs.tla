---------------------------- MODULE MemoryProofs ----------------------------
(***************************************************************************)
(* What holds of the CPU's memory side for any geometry of page tables,      *)
(* any bus, any programs and any other CPUs: test-and-set, translation,      *)
(* breakpoints and the table of banks.                                       *)
(***************************************************************************)
EXTENDS MCMemory, SequenceTheorems, WellFoundedInduction, TLAPS

(* A step is one of the part the behaviour is about, and leaves the state of *)
(* the others alone.                                                         *)
LEMMA PartSteps ==
  ASSUME [Next]_vars
  PROVE  /\ TsetNext \/ UNCHANGED tsetVars
         /\ MmsNext \/ UNCHANGED mmsVars
         /\ BreakNext \/ WatchNext \/ UNCHANGED bpVars
         /\ BanksNext \/ UNCHANGED bankVars
BY DEF Next, vars
-----------------------------------------------------------------------------
(* Test-and-set: the bus lock is the ND-100's while it is between the halves *)
(* of a TSET, and what the exchange found is good until it has been looked   *)
(* at, since a set semaphore that nobody holds is nobody else's to take.     *)
TsetInv ==
  /\ TsetTypeOK /\ SemaphoreOwned
  /\ bus = "nd100" <=> tsPc # "idle"
  /\ tsPc \in {"read", "write", "take", "end"} => tsHeld
  /\ tsPc = "take" => tsOld.valid /\ (~tsOld.set => cell /\ holder = "none")
  /\ tsPc = "end" /\ ~tsA => cell /\ holder = "none"

(* The CPU starts outside a TSET, with the semaphore free.                   *)
LEMMA TsetInvInit == TsetInit => TsetInv
<1> SUFFICES ASSUME TsetInit PROVE TsetInv
  OBVIOUS
<1>1. TsetTypeOK
  BY DEF TsetInit, TsetTypeOK, NoOld
<1>2. ~cell /\ ~tsA /\ holder = "none" /\ bus = "none" /\ tsPc = "idle"
  BY DEF TsetInit
<1> QED
  BY <1>1, <1>2 DEF TsetInv, SemaphoreOwned

(* Each half of a TSET, of either machine, keeps the invariant.              *)
LEMMA TsetInvNext == ASSUME TsetInv, TsetNext PROVE TsetInv'
<1> USE DEF TsetInv, TsetTypeOK, SemaphoreOwned, NoOld
<1>1. CASE TsetBegin
  BY <1>1 DEF TsetBegin
<1>2. CASE TsetRead
  BY <1>2 DEF TsetRead
<1>3. CASE TsetWrite
  BY <1>3 DEF TsetWrite
<1>4. CASE TsetTakeOld
  BY <1>4 DEF TsetTakeOld
<1>5. CASE TsetEnd
  BY <1>5 DEF TsetEnd
<1>6. CASE TsetTrap
  BY <1>6 DEF TsetTrap
<1>7. CASE Release100
  BY <1>7 DEF Release100
<1>8. ASSUME NEW c \in OtherCpus, TakeOther(c) PROVE TsetInv'
  BY <1>8, TsetAssumption DEF TakeOther
<1>9. ASSUME NEW c \in OtherCpus, ReleaseOther(c) PROVE TsetInv'
  BY <1>9, TsetAssumption DEF ReleaseOther
<1> QED
  BY <1>1, <1>2, <1>3, <1>4, <1>5, <1>6, <1>7, <1>8, <1>9 DEF TsetNext, Tset100

(* A set semaphore has exactly one owner, or is about to: TSET and TSETP     *)
(* (do_tset() in cpu_instr.c) exclude the ND-100 and any number of other     *)
(* CPUs from each other, though a release takes no lock.                     *)
THEOREM SemaphoreHasOwner == Spec => []SemaphoreOwned
<1>1. Init => TsetInv
  BY TsetInvInit DEF Init
<1>2. TsetInv /\ [Next]_vars => TsetInv'
  <2> SUFFICES ASSUME TsetInv, [Next]_vars PROVE TsetInv'
    OBVIOUS
  <2>1. CASE TsetNext
    BY <2>1, TsetInvNext
  <2>2. CASE UNCHANGED tsetVars
    BY <2>2 DEF tsetVars, TsetInv, TsetTypeOK, SemaphoreOwned
  <2> QED
    BY <2>1, <2>2, PartSteps
<1>3. TsetInv => SemaphoreOwned
  BY DEF TsetInv
<1> QED
  BY <1>1, <1>2, <1>3, PTL DEF Spec
-----------------------------------------------------------------------------
(* Translation.                                                              *)
MmsInv ==
  /\ mmsType \in {1, 2} /\ mmsExt \in BOOLEAN /\ mmsPon \in BOOLEAN /\ mmsPtm \in BOOLEAN
  /\ mmsPcr \in [ring : 0..3, sixteen : BOOLEAN, pt : 0..(Tables16 - 1), apt : 0..(Tables16 - 1)]
  /\ mmsRam \in [0..(ShadowSize - 1) -> ShadowWord] /\ mmsDirty \subseteq DOMAIN mmsRam
  /\ WrittenIsMarked

(* An entry of a table that fits its area lies in it.                        *)
LEMMA TableFits ==
  ASSUME NEW tables \in Nat, NEW table \in 0..(tables - 1), NEW vpn \in 0..(Pages - 1)
  PROVE  /\ table * Pages + vpn \in Nat /\ table * Pages + vpn < tables * Pages
         /\ tables * Pages \in Nat
<1>1. Pages \in Nat \ {0}
  BY MmsAssumption
<1>2. table * Pages \in Nat /\ tables * Pages \in Nat /\ (table + 1) * Pages = table * Pages + Pages
  BY <1>1
<1>3. (table + 1) * Pages <= tables * Pages
  <2>1. PICK n \in Nat : tables = table + 1 + n
    BY tables - (table + 1) \in Nat
  <2>2. (table + 1 + n) * Pages = (table + 1) * Pages + n * Pages /\ n * Pages \in Nat
           /\ (table + 1) * Pages \in Nat
    BY <1>1, <2>1
  <2> QED
    BY <1>2, <2>1, <2>2
<1> QED
  BY <1>1, <1>2, <1>3

(* What ShadowInBounds asks follows from the page tables and the PCRs there are.*)
LEMMA BoundsHold == ASSUME MmsInv PROVE ShadowInBounds
<1> SUFFICES ASSUME NEW apt \in BOOLEAN, NEW vpn \in 0..(Pages - 1),
                    Readable(TableOf(apt)) \/ EntryOf(TableOf(apt), vpn).permits # {}
             PROVE  /\ ShadowAddress(TableOf(apt), vpn) >= 0
                    /\ ShadowAddress(TableOf(apt), vpn) + (IF mmsExt THEN 1 ELSE 0) < ShadowSize
  BY DEF ShadowInBounds
<1> DEFINE table == TableOf(apt)
<1>1. mmsExt \/ table < Tables4
  BY DEF EntryOf, ZeroWord, Readable
<1>2. table \in 0..((IF Sixteen THEN Tables16 ELSE Tables4) - 1)
  <2>1. mmsPcr.pt \in 0..(Tables16 - 1) /\ mmsPcr.apt \in 0..(Tables16 - 1)
    BY DEF MmsInv
  <2>2. \A f \in 0..(Tables16 - 1) : f % Tables4 \in 0..(Tables4 - 1)
    BY MmsAssumption
  <2> QED
    BY <2>1, <2>2 DEF TableOf
<1> HIDE DEF table
<1>3. /\ Tables4 * Pages \in Nat /\ Tables16 * Pages \in Nat /\ Tables4 * Pages <= Tables16 * Pages
  <2>1. PICK n \in Nat : Tables16 = Tables4 + n
    BY MmsAssumption, Tables16 - Tables4 \in Nat
  <2>2. (Tables4 + n) * Pages = Tables4 * Pages + n * Pages /\ n * Pages \in Nat
           /\ Tables4 * Pages \in Nat
    BY MmsAssumption
  <2> QED
    BY <2>1, <2>2
<1>4. ShadowSize = 2 * (Tables4 * Pages) \/ ShadowSize = 2 * (Tables16 * Pages)
  BY MmsAssumption, <1>3 DEF ShadowSize
<1>5. Sixteen => ShadowSize = 2 * (Tables16 * Pages)
  BY MmsAssumption, <1>3 DEF ShadowSize, Sixteen
<1>6. CASE ~mmsExt
  <2>1. table \in 0..(Tables4 - 1)
    BY <1>1, <1>2, <1>6, MmsAssumption
  <2>2. table * Pages + vpn \in Nat /\ table * Pages + vpn < Tables4 * Pages
    BY <2>1, TableFits, MmsAssumption
  <2>3. ShadowAddress(table, vpn) = (ShadowSize - Tables4 * Pages) + (table * Pages + vpn)
    BY <1>6 DEF ShadowAddress
  <2> QED
    BY <1>3, <1>4, <1>6, <2>2, <2>3 DEF table
<1>7. CASE mmsExt /\ Sixteen
  <2>1. table * Pages + vpn \in Nat /\ table * Pages + vpn < Tables16 * Pages
    BY <1>2, <1>7, TableFits, MmsAssumption
  <2>2. ShadowAddress(table, vpn) = (ShadowSize - Tables16 * Pages * 2) + 2 * (table * Pages + vpn)
    BY <1>7 DEF ShadowAddress
  <2>3. Tables16 * Pages * 2 = 2 * (Tables16 * Pages)
    BY <1>3
  <2> QED
    BY <1>3, <1>5, <1>7, <2>1, <2>2, <2>3 DEF table
<1>8. CASE mmsExt /\ ~Sixteen
  <2>1. table * Pages + vpn \in Nat /\ table * Pages + vpn < Tables4 * Pages
    BY <1>2, <1>8, TableFits, MmsAssumption
  <2>2. ShadowAddress(table, vpn) = (ShadowSize - Tables4 * Pages * 2) + 2 * (table * Pages + vpn)
    BY <1>8 DEF ShadowAddress
  <2>3. Tables4 * Pages * 2 = 2 * (Tables4 * Pages)
    BY <1>3
  <2> QED
    BY <1>3, <1>4, <1>8, <2>1, <2>2, <2>3 DEF table
<1> QED
  BY <1>6, <1>7, <1>8

(* The shadow RAM has a size and ends at 64K.                                *)
LEMMA ShadowSizes ==
  ASSUME mmsType \in {1, 2}
  PROVE  /\ ShadowSize \in Nat /\ Space \in Nat /\ ShadowBase \in Nat /\ Space = ShadowBase + ShadowSize
<1>1. Tables4 * Pages * 2 \in Nat /\ Tables16 * Pages * 2 \in Nat /\ Pages * PageWords \in Nat
  BY MmsAssumption
<1>2. Tables4 * Pages * 2 <= Tables16 * Pages * 2
  <2>1. PICK n \in Nat : Tables16 = Tables4 + n
    BY MmsAssumption, Tables16 - Tables4 \in Nat
  <2>2. (Tables4 + n) * Pages = Tables4 * Pages + n * Pages /\ n * Pages \in Nat
           /\ Tables4 * Pages \in Nat
    BY MmsAssumption
  <2> QED
    BY <2>1, <2>2
<1> QED
  BY <1>1, <1>2, MmsAssumption DEF ShadowSize, Space, ShadowBase

(* A word that is stored takes the place of one with its history.            *)
LEMMA WordStored ==
  ASSUME MmsInv, NEW address, NEW word \in ShadowWord, StoreWord(address, word),
         UNCHANGED <<mmsMode, mmsPcr>>
  PROVE  MmsInv'
<1>1. PICK i \in DOMAIN mmsRam : mmsRam' = [mmsRam EXCEPT ![i] = word] /\ mmsDirty' = mmsDirty \ {i}
  BY DEF StoreWord
<1>2. word \in ShadowWord
  BY MmsAssumption
<1> QED
  BY <1>1, <1>2 DEF MmsInv, mmsMode, ShadowSize, WrittenIsMarked

(* The marks of a word, and nothing but the marks.                           *)
LEMMA MarksOnly ==
  ASSUME NEW w \in ShadowWord, NEW am
  PROVE  /\ Marked(w, am) \in ShadowWord /\ Marked(w, am).wip = (w.wip \/ am = "WRITE")
         /\ [Marked(w, am) EXCEPT !.wip = FALSE, !.pgu = FALSE]
              = [w EXCEPT !.wip = FALSE, !.pgu = FALSE]
BY DEF Marked, ShadowWord

(* What a translation makes of the entry it went through: the marks are set, *)
(* and the entry, or the first word of one of the extended format, is the    *)
(* same apart from them.                                                     *)
LEMMA EntryMarked ==
  ASSUME MmsInv, NEW table, NEW vpn, NEW am, EntryOf(table, vpn).permits # {}
  PROVE  LET i == ShadowAddress(table, vpn)
             entry == EntryOf(table, vpn)
             marked == StoreEntry(mmsRam, i, Marked(entry, am))
         IN  /\ i \in DOMAIN mmsRam /\ entry.ring \in 0..3
             /\ marked = [mmsRam EXCEPT ![i] = Marked(mmsRam[i], am)]
<1> DEFINE i == ShadowAddress(table, vpn)
           entry == EntryOf(table, vpn)
           marked == StoreEntry(mmsRam, i, Marked(entry, am))
<1>1. i \in DOMAIN mmsRam /\
         entry = IF mmsExt THEN [mmsRam[i] EXCEPT !.frame = mmsRam[i + 1].frame]
                           ELSE mmsRam[i]
  BY DEF EntryOf, ZeroWord
<1>2. mmsRam[i] \in ShadowWord
  BY <1>1 DEF MmsInv
<1> HIDE DEF i, entry
<1>3. marked = [mmsRam EXCEPT ![i] =
                    IF mmsExt THEN [Marked(entry, am) EXCEPT !.frame = mmsRam[i].frame]
                              ELSE Marked(entry, am)]
  BY <1>1 DEF StoreEntry
<1>4. entry.ring \in 0..3
  BY <1>1, <1>2 DEF ShadowWord
<1>5. (IF mmsExt THEN [Marked(entry, am) EXCEPT !.frame = mmsRam[i].frame] ELSE Marked(entry, am))
      = Marked(mmsRam[i], am)
  BY <1>1, <1>2 DEF Marked, ShadowWord
<1> QED
  BY <1>1, <1>3, <1>4, <1>5 DEF i, entry

(* Apart from the marks a table is what it was.                              *)
SameTables ==
  \A i \in DOMAIN mmsRam :
    [mmsRam'[i] EXCEPT !.wip = FALSE, !.pgu = FALSE]
               = [mmsRam[i] EXCEPT !.wip = FALSE, !.pgu = FALSE]

(* A translated access marks its entry, as a write does with the written     *)
(* mark, or stores a word into the tables, which ring 3 may.                 *)
LEMMA TranslatedKeeps ==
  ASSUME MmsInv, NEW address \in Nat, NEW am, NEW apt, NEW word \in ShadowWord,
         Translated(address, am, apt, word)
  PROVE  MmsInv' /\ (mmsPon /\ mmsPcr.ring < 2 => SameTables)
<1> DEFINE vpn == address \div PageWords
           table == TableOf(apt)
           i == ShadowAddress(table, vpn)
           entry == EntryOf(table, vpn)
           physical == entry.frame * PageWords + (address % PageWords)
           marked == StoreEntry(mmsRam, i, Marked(entry, am))
<1>1. CASE NoStore /\ UNCHANGED mmsMode /\ mmsPcr' = mmsPcr
  BY <1>1 DEF NoStore, mmsMode, MmsInv, ShadowSize, WrittenIsMarked, SameTables
<1>2. ASSUME entry.permits # {}, UNCHANGED mmsMode,
             mmsPcr' = [mmsPcr EXCEPT !.ring = DegradedRing(am, entry)]
      PROVE  /\ mmsType' \in {1, 2} /\ mmsExt' \in BOOLEAN /\ mmsPon' \in BOOLEAN /\ mmsPtm' \in BOOLEAN
             /\ mmsPcr' \in [ring : 0..3, sixteen : BOOLEAN, pt : 0..(Tables16 - 1),
                          apt : 0..(Tables16 - 1)]
             /\ ShadowSize' = ShadowSize
  <2>1. entry.ring \in 0..3
    BY <1>2, EntryMarked
  <2>2. DegradedRing(am, entry) \in 0..3
    BY <2>1 DEF DegradedRing, MmsInv
  <2> QED
    BY <1>2, <2>2 DEF mmsMode, MmsInv, ShadowSize
<1>3. CASE entry.permits # {} /\ NoStore /\ UNCHANGED mmsMode
         /\ mmsPcr' = [mmsPcr EXCEPT !.ring = DegradedRing(am, entry)]
  BY <1>2, <1>3 DEF NoStore, MmsInv, WrittenIsMarked, SameTables
<1>4. ASSUME entry.permits # {}
      PROVE  /\ i \in DOMAIN mmsRam /\ mmsRam[i] \in ShadowWord
             /\ Marked(mmsRam[i], am) \in ShadowWord
             /\ Marked(mmsRam[i], am).wip = (mmsRam[i].wip \/ am = "WRITE")
             /\ marked = [mmsRam EXCEPT ![i] = Marked(mmsRam[i], am)]
  <2>1. i \in DOMAIN mmsRam /\ marked = [mmsRam EXCEPT ![i] = Marked(mmsRam[i], am)]
    BY <1>4, EntryMarked
  <2>2. mmsRam[i] \in ShadowWord
    BY <2>1 DEF MmsInv
  <2> QED
    BY <2>1, <2>2, MarksOnly
<1>5. CASE /\ entry.permits # {} /\ UNCHANGED mmsMode
                /\ mmsPcr' = [mmsPcr EXCEPT !.ring = DegradedRing(am, entry)]
           /\ mmsRam' = marked /\ mmsDirty' = IF am = "WRITE" THEN mmsDirty \cup {i} ELSE mmsDirty
  <2> HIDE DEF i, marked, entry
  <2>1. mmsRam' = [mmsRam EXCEPT ![i] = Marked(mmsRam[i], am)]
    BY <1>4, <1>5
  <2>2. mmsRam' \in [0..(ShadowSize - 1) -> ShadowWord] /\ mmsDirty' \subseteq DOMAIN mmsRam'
    BY <1>4, <1>5, <2>1 DEF MmsInv
  <2>3. WrittenIsMarked'
    BY <1>4, <1>5, <2>1 DEF MmsInv, WrittenIsMarked
  <2>4. SameTables
    <3>1. /\ i \in DOMAIN mmsRam
          /\ [Marked(mmsRam[i], am) EXCEPT !.wip = FALSE, !.pgu = FALSE]
               = [mmsRam[i] EXCEPT !.wip = FALSE, !.pgu = FALSE]
      BY <1>4, <1>5, MarksOnly
    <3>2. \A j \in DOMAIN mmsRam : mmsRam'[j] = IF j = i THEN Marked(mmsRam[i], am) ELSE mmsRam[j]
      BY <2>1, <3>1 DEF MmsInv
    <3> QED
      BY <3>1, <3>2 DEF SameTables
  <2> QED
    BY <1>2, <1>5, <2>2, <2>3, <2>4 DEF MmsInv
<1>6. CASE /\ entry.permits # {} /\ UNCHANGED mmsMode
                /\ mmsPcr' = [mmsPcr EXCEPT !.ring = DegradedRing(am, entry)]
           /\ am = "WRITE" /\ IsShadow(physical, FALSE) /\ physical >= ShadowBase
           /\ mmsRam' = [marked EXCEPT ![physical - ShadowBase] = word]
           /\ mmsDirty' = (mmsDirty \cup {i}) \ {physical - ShadowBase}
  <2>1. ~(mmsPon /\ mmsPcr.ring < 2)
    BY <1>6 DEF IsShadow, MmsInv
  <2> HIDE DEF i, marked, entry
  <2>2. marked \in [0..(ShadowSize - 1) -> ShadowWord]
           /\ \A j \in mmsDirty \cup {i} : j \in DOMAIN marked /\ marked[j].wip
    BY <1>4, <1>6 DEF MmsInv, WrittenIsMarked
  <2> DEFINE k == physical - ShadowBase
  <2> HIDE DEF physical, k
  <2>3. mmsRam' = [marked EXCEPT ![k] = word] /\ mmsDirty' = (mmsDirty \cup {i}) \ {k}
           /\ word \in ShadowWord
    BY <1>6 DEF k
  <2>4. mmsRam' \in [0..(ShadowSize - 1) -> ShadowWord]
           /\ mmsDirty' \subseteq DOMAIN mmsRam' /\ WrittenIsMarked'
    BY <2>2, <2>3 DEF WrittenIsMarked
  <2> QED
    BY <1>2, <1>6, <2>1, <2>4 DEF MmsInv
<1>7. entry.permits \cap Needs(am) # {} => entry.permits # {}
  OBVIOUS
<1> HIDE DEF entry, i, marked, physical
<1>8. \/ NoStore /\ UNCHANGED mmsMode /\ mmsPcr' = mmsPcr
      \/ /\ entry.permits \cap Needs(am) # {} /\ UNCHANGED mmsMode
         /\ mmsPcr' = [mmsPcr EXCEPT !.ring = DegradedRing(am, entry)]
         /\ \/ NoStore
            \/ mmsRam' = marked /\ mmsDirty' = IF am = "WRITE" THEN mmsDirty \cup {i} ELSE mmsDirty
            \/ /\ am = "WRITE" /\ IsShadow(physical, FALSE) /\ physical >= ShadowBase
               /\ mmsRam' = [marked EXCEPT ![physical - ShadowBase] = word]
               /\ mmsDirty' = (mmsDirty \cup {i}) \ {physical - ShadowBase}
  BY DEF Translated, entry, i, marked, physical
<1> QED
  BY <1>1, <1>3, <1>5, <1>6, <1>7, <1>8

(* Any access, and a privileged store.                                       *)
LEMMA AccessKeeps ==
  ASSUME MmsInv, NEW address \in Nat, NEW am, NEW apt, NEW word \in ShadowWord,
         Access(address, am, apt, word)
  PROVE  MmsInv' /\ (mmsPon /\ mmsPcr.ring < 2 => SameTables)
<1>1. CASE (mmsPcr.ring = 3 /\ IsShadow(address, FALSE)) \/ ~mmsPon
  <2>1. Untranslated(address, am, word)
    BY <1>1 DEF Access
  <2>2. mmsPcr.ring = 3 => ~(mmsPcr.ring < 2)
    OBVIOUS
  <2>3. CASE am = "WRITE" /\ IsShadow(address, FALSE)
    <3>1. MmsInv'
      BY <2>1, <2>3, WordStored DEF Untranslated
    <3> QED
      BY <1>1, <2>2, <3>1
  <2>4. CASE NoStore
    <3>1. MmsInv'
      BY <2>1, <2>4 DEF Untranslated, NoStore, mmsMode, MmsInv, ShadowSize, WrittenIsMarked
    <3> QED
      BY <1>1, <2>2, <3>1
  <2> QED
    BY <2>1, <2>3, <2>4 DEF Untranslated
<1>2. CASE ~((mmsPcr.ring = 3 /\ IsShadow(address, FALSE)) \/ ~mmsPon)
  BY <1>2, TranslatedKeeps DEF Access
<1> QED
  BY <1>1, <1>2

(* Each operation of the MMS keeps the invariant, and with paging on, in a   *)
(* low ring, it changes nothing of the tables but the marks.                 *)
LEMMA MmsInvNext == ASSUME MmsInv, MmsNext PROVE MmsInv' /\ (mmsPon /\ mmsPcr.ring < 2 => SameTables)
<1>1. ASSUME NEW a, NEW w \in ShadowWord, Deposit(a, w)
      PROVE MmsInv' /\ (mmsPon /\ mmsPcr.ring < 2 => SameTables)
  <2>1. ~(mmsPon /\ mmsPcr.ring < 2)
    BY <1>1 DEF Deposit, MmsInv
  <2>2. CASE IsShadow(a, TRUE)
    BY <1>1, <2>1, <2>2, WordStored DEF Deposit
  <2>3. CASE ~IsShadow(a, TRUE)
    BY <1>1, <2>1, <2>3 DEF Deposit, NoStore, mmsMode, MmsInv, ShadowSize, WrittenIsMarked
  <2> QED
    BY <2>2, <2>3
<1>2. ASSUME NEW p \in PCRs, SwitchLevel(p) PROVE MmsInv' /\ SameTables
  BY <1>2, MmsAssumption DEF SwitchLevel, mmsMode, MmsInv, ShadowSize, WrittenIsMarked, SameTables
<1>3. ASSUME NEW e \in BOOLEAN, NEW p \in BOOLEAN, NEW t \in BOOLEAN, SetMode(e, p, t)
      PROVE MmsInv' /\ SameTables
  BY <1>3 DEF SetMode, MmsInv, ShadowSize, WrittenIsMarked, SameTables
<1>4. ZeroWord \in ShadowWord /\ Entries \subseteq ShadowWord
  BY MmsAssumption DEF ZeroWord, ShadowWord, Permits
<1>5. Addresses \subseteq Nat /\ ShadowBase..(Space - 1) \subseteq Nat
  <2>1. ShadowBase \in Nat /\ Space \in Nat
    BY ShadowSizes DEF MmsInv
  <2>2. \A p \in 0..(Pages - 1) : p * PageWords \in Nat
    BY MmsAssumption
  <2>3. \A p \in 1..Pages : p * PageWords - 1 \in Nat
    <3> TAKE p \in 1..Pages
    <3>1. p * PageWords = (p - 1) * PageWords + PageWords /\ (p - 1) * PageWords \in Nat
      BY MmsAssumption
    <3> QED
      BY <3>1, MmsAssumption
  <2> QED
    BY <2>1, <2>2, <2>3 DEF Addresses
<1>6. ASSUME NEW a \in Nat, NEW am, NEW apt, NEW w \in ShadowWord, Access(a, am, apt, w)
      PROVE  MmsInv' /\ (mmsPon /\ mmsPcr.ring < 2 => SameTables)
  BY <1>6, AccessKeeps
<1> QED
  BY <1>1, <1>2, <1>3, <1>4, <1>5, <1>6 DEF MmsNext

(* A machine starts with empty tables and a PCR it may have.                 *)
LEMMA MmsInvInit == MmsInit => MmsInv
<1> SUFFICES ASSUME MmsInit PROVE MmsInv
  OBVIOUS
<1>1. ZeroWord \in ShadowWord
  BY DEF ZeroWord, ShadowWord, Permits
<1> QED
  BY <1>1, MmsAssumption DEF MmsInit, MmsInv, WrittenIsMarked

(* The invariant holds of every behaviour.                                   *)
LEMMA MmsInvAlways == Spec => []MmsInv
<1>1. Init => MmsInv
  BY MmsInvInit DEF Init
<1>2. MmsInv /\ [Next]_vars => MmsInv'
  <2> SUFFICES ASSUME MmsInv, [Next]_vars PROVE MmsInv'
    OBVIOUS
  <2>1. CASE MmsNext
    BY <2>1, MmsInvNext
  <2>2. CASE UNCHANGED mmsVars
    BY <2>2 DEF mmsVars, mmsMode, MmsInv, ShadowSize, WrittenIsMarked
  <2> QED
    BY <2>1, <2>2, PartSteps
<1> QED
  BY <1>1, <1>2, PTL DEF Spec

(* mms_get_pt_shadow_address() never leads outside the shadow RAM, in any    *)
(* mix of unit, table mode and entry format, for any size of the tables.     *)
THEOREM TablesInBounds == Spec => []ShadowInBounds
<1>1. MmsInv => ShadowInBounds
  BY BoundsHold
<1> QED
  BY <1>1, MmsInvAlways, PTL

(* An entry that mms_map_virtual_to_physical() let a write through has its   *)
(* written mark until a program stores it anew.                              *)
THEOREM WritesAreMarked == Spec => []WrittenIsMarked
<1>1. MmsInv => WrittenIsMarked
  BY DEF MmsInv
<1> QED
  BY <1>1, MmsInvAlways, PTL

(* With paging on rings 0 and 1 change nothing of the tables but the marks   *)
(* that mms_set_page_used() and mms_set_page_written() set.                  *)
THEOREM TablesKept == Spec => LowRingsKeepTables
<1>1. MmsInv /\ [Next]_vars =>
        [mmsPon /\ mmsPcr.ring < 2 =>
           \A i \in DOMAIN mmsRam :
             [mmsRam'[i] EXCEPT !.wip = FALSE, !.pgu = FALSE] =
             [mmsRam[i] EXCEPT !.wip = FALSE, !.pgu = FALSE]]_mmsVars
  BY PartSteps, MmsInvNext DEF SameTables
<1> QED
  BY <1>1, MmsInvAlways, PTL DEF Spec, LowRingsKeepTables
-----------------------------------------------------------------------------
(* Induction over the naturals, for sets: from the order of the naturals     *)
(* being well founded.                                                       *)
LEMMA LeastNatural ==
  ASSUME NEW T \in SUBSET Nat, T # {}
  PROVE  \E x \in T : \A y \in T : x <= y
<1> DEFINE R == OpToRel(<, Nat)
<1>1. R = {ss \in Nat \X Nat : ss[1] < ss[2]}
  BY DEF OpToRel
<1>2. IsWellFoundedOn(R, Nat)
  BY NatLessThanWellFounded
<1> HIDE DEF R
<1>3. PICK x \in T : \A y \in T : ~ (<<y, x>> \in R)
  BY <1>2, WFMin
<1>4. \A y \in T : y < x => <<y, x>> \in R
  BY <1>1
<1>5. \A y \in T : x \in Nat /\ y \in Nat /\ ~ (y < x)
  BY <1>3, <1>4
<1>6. \A y \in T : x <= y
  BY <1>5
<1> QED
  BY <1>6

(* Induction over the naturals, for a property given as the set that has it. *)
LEMMA SetInduction ==
  ASSUME NEW P, 0 \in P, \A n \in Nat : n \in P => n + 1 \in P
  PROVE  Nat \subseteq P
<1> SUFFICES ASSUME Nat \ P # {} PROVE FALSE
  OBVIOUS
<1>1. PICK x \in Nat \ P : \A y \in Nat \ P : x <= y
  BY LeastNatural
<1> QED
  BY <1>1, x - 1 \in Nat

(* Any set of places can be gone through in order.                           *)
LEMMA Enumerable ==
  ASSUME NEW m \in Nat, NEW K \in SUBSET (1 .. m)
  PROVE  \E n \in 0 .. m : \E f \in [1 .. n -> K] : Enumerates(f, K)
<1> DEFINE Good(i) == \A J \in SUBSET (1 .. i) : \E n \in 0 .. i :
                  \E f \in [1 .. n -> J] : Enumerates(f, J)
           P == {i \in Nat : Good(i)}
<1>1. 0 \in P
  <2> SUFFICES ASSUME NEW J \in SUBSET (1 .. 0)
               PROVE \E n \in 0 .. 0 : \E f \in [1 .. n -> J] : Enumerates(f, J)
    OBVIOUS
  <2> DEFINE f == [k \in 1 .. 0 |-> 0]
  <2>1. f \in [1 .. 0 -> J] /\ Enumerates(f, J)
    BY DEF Enumerates, Rising
  <2> HIDE DEF f
  <2> QED
    BY <2>1, 0 \in 0 .. 0
<1>2. ASSUME NEW i \in Nat, i \in P PROVE i + 1 \in P
  <2> SUFFICES ASSUME NEW J \in SUBSET (1 .. (i + 1))
               PROVE  \E n \in 0 .. (i + 1) : \E f \in [1 .. n -> J] : Enumerates(f, J)
    OBVIOUS
  <2> DEFINE H == J \cap (1 .. i)
  <2>1. PICK n \in 0 .. i : \E f \in [1 .. n -> H] : Enumerates(f, H)
    BY <1>2
  <2>2. PICK f \in [1 .. n -> H] : Enumerates(f, H)
    BY <2>1
  <2>3. CASE i + 1 \notin J
    <3>1. \A j \in J : j \in 1 .. (i + 1) /\ j # i + 1
      BY <2>3
    <3>2. \A j \in J : j \in 1 .. i
      BY <3>1
    <3>3. H = J
      BY <3>2
    <3> QED
      BY <2>2, <3>3, n \in 0 .. (i + 1)
  <2>4. CASE i + 1 \in J
    <3> DEFINE g == [k \in 1 .. (n + 1) |-> IF k = n + 1 THEN i + 1 ELSE f[k]]
    <3>1. \A k \in 1 .. n : f[k] \in J /\ f[k] \in 1 .. i
      BY <2>2
    <3>2. g \in [1 .. (n + 1) -> J]
      BY <2>4, <3>1
    <3>3. Rising(g)
      BY <2>2, <3>1 DEF Enumerates, Rising
    <3>4. \A j \in J : \E k \in DOMAIN g : g[k] = j
      <4> TAKE j \in J
      <4>1. CASE j = i + 1
        BY <4>1, g[n + 1] = i + 1, n + 1 \in DOMAIN g
      <4>2. CASE j # i + 1
        <5>1. PICK k \in 1 .. n : f[k] = j
          BY <2>2, <4>2, j \in H DEF Enumerates
        <5> QED
          BY <5>1, g[k] = f[k], k \in DOMAIN g
      <4> QED
        BY <4>1, <4>2
    <3> QED
      BY <3>2, <3>3, <3>4, n + 1 \in 0 .. (i + 1) DEF Enumerates
  <2> QED
    BY <2>3, <2>4
<1> HIDE DEF P
<1>3. m \in P
  BY <1>1, <1>2, SetInduction
<1> QED
  BY <1>3 DEF P

(* What Kept() returns: the entries at the places, in their order.           *)
LEMMA KeptInOrder ==
  ASSUME NEW S, NEW s \in Seq(S), NEW K \in SUBSET DOMAIN s
  PROVE  \E n \in 0 .. Len(s) : \E f \in [1 .. n -> K] :
           /\ Enumerates(f, K) /\ Kept(s, K) = [k \in 1 .. n |-> s[f[k]]]
           /\ Kept(s, K) \in Seq(S) /\ DOMAIN Kept(s, K) = 1 .. n
<1> DEFINE F == UNION {[1 .. n -> K] : n \in 0 .. Len(s)}
           f == CHOOSE f \in F : Enumerates(f, K)
<1>1. Len(s) \in Nat /\ DOMAIN s = 1 .. Len(s)
  OBVIOUS
<1>2. \E g \in F : Enumerates(g, K)
  BY <1>1, Enumerable
<1>3. f \in F /\ Enumerates(f, K)
  BY <1>2
<1>4. PICK n \in 0 .. Len(s) : f \in [1 .. n -> K]
  BY <1>3
<1>5. Kept(s, K) = [k \in 1 .. n |-> s[f[k]]]
  BY <1>4 DEF Kept
<1> HIDE DEF f, F
<1>6. \A k \in 1 .. n : f[k] \in DOMAIN s /\ s[f[k]] \in S
  BY <1>4
<1>7. Kept(s, K) \in [1 .. n -> S]
  BY <1>5, <1>6
<1>8. Kept(s, K) \in Seq(S)
  BY <1>7, n \in Nat
<1> QED
  BY <1>3, <1>4, <1>5, <1>7, <1>8
-----------------------------------------------------------------------------
(* Breakpoints and watchpoints.  The hits that bkpt_check_hit() has still to *)
(* look at are entries of the list, and a temporary one is the only hit:     *)
(* what is removed when it is met is not looked at again.                    *)
WatchEntry == [addr : WatchAddrs, kind : WatchKinds]

OneTemporary(list) ==
  \A i, j \in DOMAIN list : Temporary(list[i]) /\ Temporary(list[j])
       /\ list[i].addr = list[j].addr => i = j

BpInv ==
  /\ bpThreaded \in BOOLEAN
  /\ bpList \in Seq(BpEntry) /\ bpHits \in Seq(BpEntry) /\ OneTemporary(bpList)
  /\ HitsAlive
  /\ ~bpThreaded => \A i \in DOMAIN bpHits : Temporary(bpHits[i]) => Len(bpHits) = 1

FilterInv ==
  /\ bpList \in Seq(BpEntry) /\ wpList \in Seq(WatchEntry) /\ physList \in Seq(WatchEntry)
  /\ FiltersComplete

(* Entries that are left in the list are still each there once.              *)
LEMMA KeptList ==
  ASSUME BpInv, NEW K \in SUBSET DOMAIN bpList
  PROVE  /\ Kept(bpList, K) \in Seq(BpEntry) /\ OneTemporary(Kept(bpList, K))
         /\ \A j \in DOMAIN Kept(bpList, K) : \E i \in K : Kept(bpList, K)[j] = bpList[i]
         /\ \A i \in K : (\A k \in K : k = i) => Len(Kept(bpList, K)) = 1
<1> DEFINE r == Kept(bpList, K)
<1>1. bpList \in Seq(BpEntry)
  BY DEF BpInv
<1>0. PICK n \in 0 .. Len(bpList) :
        \E f \in [1 .. n -> K] : /\ Enumerates(f, K) /\ r = [k \in 1 .. n |-> bpList[f[k]]]
                                 /\ r \in Seq(BpEntry) /\ DOMAIN r = 1 .. n
  BY <1>1, KeptInOrder
<1>2. PICK f \in [1 .. n -> K] : /\ Enumerates(f, K) /\ r = [k \in 1 .. n |-> bpList[f[k]]]
                                 /\ r \in Seq(BpEntry) /\ DOMAIN r = 1 .. n
  BY <1>0
<1> HIDE DEF r
<1>3. \A k \in 1 .. n : f[k] \in K /\ f[k] \in DOMAIN bpList /\ f[k] \in Nat /\ r[k] = bpList[f[k]]
  BY <1>1, <1>2
<1>4. \A j, k \in 1 .. n : f[j] = f[k] => j = k
  <2> SUFFICES ASSUME NEW j \in 1 .. n, NEW k \in 1 .. n, f[j] = f[k], j < k PROVE FALSE
    BY <1>2
  <2> QED
    BY <1>2, <1>3 DEF Enumerates, Rising
<1>5. OneTemporary(r)
  BY <1>2, <1>3, <1>4 DEF BpInv, OneTemporary
<1>6. ASSUME NEW i \in K, \A k \in K : k = i PROVE Len(r) = 1
  <2>1. PICK k \in 1 .. n : f[k] = i
    BY <1>2 DEF Enumerates
  <2>2. \A j \in 1 .. n : j = k
    BY <1>3, <1>4, <1>6, <2>1
  <2>3. n = 1
    BY <2>1, <2>2, 1 \in 1 .. n, n \in 1 .. n
  <2> QED
    BY <1>2, <2>3
<1> QED
  BY <1>2, <1>3, <1>5, <1>6 DEF r

(* Every edit of a list and every step of a check on the CPU thread keeps what*)
(* the lists are.                                                            *)
LEMMA BpInvNext == ASSUME BpInv, BreakNext \/ WatchNext PROVE BpInv'
<1> USE DEF bpLists, wpLists
<1>1. ASSUME NEW a \in PCs, NEW k \in BpKinds, BkptAdd(a, k) PROVE BpInv'
  <2> DEFINE e == [addr |-> a, kind |-> k]
  <2>1. e \in BpEntry /\ e.addr = a /\ (Temporary(e) <=> k.type = "temporary")
    BY DEF BpEntry, Temporary
  <2> HIDE DEF e
  <2>2. bpList' = <<e>> \o bpList /\ UNCHANGED <<bpThreaded, bpHits>> /\ (bpHits = <<>> \/ bpThreaded)
    BY <1>1 DEF BkptAdd, Edits, e
  <2>3. /\ bpList' \in Seq(BpEntry) /\ DOMAIN bpList' = 1 .. (Len(bpList) + 1) /\ bpList'[1] = e
        /\ \A i \in DOMAIN bpList' : i # 1 => i - 1 \in DOMAIN bpList /\ bpList'[i] = bpList[i - 1]
    BY <2>1, <2>2 DEF BpInv
  <2>4. k.type = "temporary" => \A i \in DOMAIN bpList : ~(bpList[i].addr = a /\ Temporary(bpList[i]))
    BY <1>1 DEF BkptAdd
  <2>5. OneTemporary(bpList')
    <3> SUFFICES ASSUME NEW i \in DOMAIN bpList', NEW j \in DOMAIN bpList',
                        Temporary(bpList'[i]), Temporary(bpList'[j]),
                        bpList'[i].addr = bpList'[j].addr
                 PROVE  i = j
      BY DEF OneTemporary
    <3>1. CASE i = 1 \/ j = 1
      BY <2>1, <2>3, <2>4, <3>1
    <3>2. CASE i # 1 /\ j # 1
      <4>1. i - 1 = j - 1
        BY <2>3, <3>2 DEF BpInv, OneTemporary
      <4> QED
        BY <2>3, <4>1 DEF BpInv
    <3> QED
      BY <3>1, <3>2
  <2> QED
    BY <2>2, <2>3, <2>5 DEF BpInv, HitsAlive
<1>2. ASSUME NEW K \in SUBSET DOMAIN bpList, Edits, bpList' = Kept(bpList, K),
             UNCHANGED <<bpThreaded, bpHits>>
      PROVE  BpInv'
  BY <1>2, KeptList DEF BpInv, HitsAlive, Edits
<1>3. ASSUME NEW a, NEW type, BkptRemove(a, type) PROVE BpInv'
  BY <1>2, <1>3 DEF BkptRemove, Rebuilt, Without
<1>4. ASSUME NEW type, BkptClearType(type) PROVE BpInv'
  BY <1>2, <1>4 DEF BkptClearType, Rebuilt
<1>5. CASE BkptClear
  BY <1>5 DEF BkptClear, BpInv, HitsAlive, Edits, OneTemporary
<1>6. ASSUME NEW a \in PCs, CpuAt(a) PROVE BpInv'
  <2>1. CASE bpHits' = bpHits /\ UNCHANGED <<bpThreaded, bpList>>
    BY <2>1 DEF BpInv, HitsAlive
  <2>2. CASE bpHits' = Matches(a) /\ UNCHANGED <<bpThreaded, bpList>>
    <3> DEFINE T == {i \in Walked(a) : Temporary(bpList[i])}
               K == IF T # {} THEN T ELSE Walked(a)
    <3>1. Walked(a) \subseteq {i \in DOMAIN bpList : bpList[i].addr = a}
      BY DEF Walked
    <3>2. K \in SUBSET DOMAIN bpList /\ \A i \in K : bpList[i].addr = a
      BY <3>1
    <3>3. ASSUME NEW i \in K, Temporary(bpList[i]) PROVE \A k \in K : k = i
      <4>1. K = T
        BY <3>3
      <4> QED
        BY <3>2, <3>3, <4>1 DEF BpInv, OneTemporary
    <3>4. bpHits' = Kept(bpList, K)
      BY <2>2 DEF Matches
    <3> HIDE DEF K
    <3>5. bpHits' \in Seq(BpEntry) /\ \A j \in DOMAIN bpHits' : \E i \in K : bpHits'[j] = bpList[i]
      BY <3>2, <3>4, KeptList
    <3>6. \A j \in DOMAIN bpHits' : Temporary(bpHits'[j]) => Len(bpHits') = 1
      BY <3>2, <3>3, <3>4, <3>5, KeptList
    <3> QED
      BY <2>2, <3>2, <3>5, <3>6 DEF BpInv, HitsAlive
  <2> QED
    BY <1>6, <2>1, <2>2 DEF CpuAt
<1>7. CASE BkptHit
  <2> DEFINE e == Head(bpHits)
  <2>1. /\ bpHits' = Tail(bpHits) /\ bpHits # <<>> /\ bpThreaded' = bpThreaded
        /\ \/ bpList' = bpList
           \/ Temporary(e) /\ bpList' = Without(e.addr, "temporary")
    BY <1>7 DEF BkptHit, Rebuilt
  <2>2. /\ bpHits \in Seq(BpEntry) /\ bpHits' \in Seq(BpEntry) /\ e = bpHits[1] /\ 1 \in DOMAIN bpHits
        /\ Len(bpHits') = Len(bpHits) - 1 /\ Len(bpHits) \in Nat /\ DOMAIN bpHits' = 1 .. Len(bpHits')
        /\ \A i \in DOMAIN bpHits' : i + 1 \in DOMAIN bpHits /\ bpHits'[i] = bpHits[i + 1]
    BY <2>1 DEF BpInv
  <2> HIDE DEF e
  <2>3. CASE bpList' = bpList
    <3>1. ~bpThreaded => \A i \in DOMAIN bpHits' : ~Temporary(bpHits'[i])
      BY <2>2 DEF BpInv
    <3> QED
      BY <2>1, <2>2, <2>3, <3>1 DEF BpInv, HitsAlive
  <2>4. CASE Temporary(e) /\ bpList' = Without(e.addr, "temporary")
    <3>1. ~bpThreaded => DOMAIN bpHits' = {}
      BY <2>2, <2>4, SMTT(60) DEF BpInv
    <3>2. bpList' \in Seq(BpEntry) /\ OneTemporary(bpList')
      BY <2>4, KeptList DEF Without
    <3> QED
      BY <2>1, <2>2, <3>1, <3>2 DEF BpInv, HitsAlive
  <2> QED
    BY <2>1, <2>3, <2>4
<1>8. CASE UNCHANGED <<bpThreaded, bpList, bpHits>>
  BY <1>8 DEF BpInv, HitsAlive
<1>9. CASE BkptStepOne \/ BkptContinue \/ GetLastHit
  BY <1>8, <1>9 DEF BkptStepOne, BkptContinue, GetLastHit
<1>10. CASE WatchNext
  BY <1>8, <1>10 DEF WatchNext, WatchAdd, PhysAdd, WatchRemove, PhysRemove, WatchClear,
     PhysClear, BkptContinue, WatchAccess, PhysAccess
<1> QED
  BY <1>1, <1>3, <1>4, <1>5, <1>6, <1>7, <1>9, <1>10 DEF BreakNext

(* Every edit of a list and every rebuild keeps the filters complete.        *)
LEMMA FilterInvNext == ASSUME BpInv, FilterInv, BreakNext \/ WatchNext PROVE FilterInv'
<1> USE DEF bpLists, wpLists
<1>1. ASSUME bpList' \in Seq(BpEntry), bpBits' = AddrsOf(bpList'), bpCount' = Len(bpList'),
             UNCHANGED wpLists
      PROVE FilterInv'
  BY <1>1 DEF FilterInv, FiltersComplete
<1>2. ASSUME NEW a \in PCs, NEW k \in BpKinds, BkptAdd(a, k) PROVE FilterInv'
  <2> DEFINE e == [addr |-> a, kind |-> k]
  <2>1. e \in BpEntry /\ e.addr = a
    BY DEF BpEntry
  <2> HIDE DEF e
  <2>2. bpList' = <<e>> \o bpList /\ bpBits' = bpBits \cup {a} /\ bpCount' = bpCount + 1
           /\ UNCHANGED wpLists
    BY <1>2 DEF BkptAdd, e
  <2>3. /\ bpList' \in Seq(BpEntry) /\ Len(bpList') = Len(bpList) + 1
             /\ DOMAIN bpList' = 1 .. (Len(bpList) + 1)
        /\ bpList'[1] = e /\ \A i \in DOMAIN bpList' : i # 1 => i - 1 \in DOMAIN bpList
             /\ bpList'[i] = bpList[i - 1]
        /\ \A i \in DOMAIN bpList : i + 1 \in DOMAIN bpList' /\ bpList'[i + 1] = bpList[i]
    BY <2>1, <2>2 DEF FilterInv
  <2>4. AddrsOf(bpList') = AddrsOf(bpList) \cup {a}
    BY <2>1, <2>3 DEF AddrsOf
  <2> QED
    BY <1>1, <2>2, <2>3, <2>4 DEF FilterInv, FiltersComplete
<1>3. ASSUME NEW K \in SUBSET DOMAIN bpList, Rebuilt(Kept(bpList, K)), UNCHANGED wpLists
      PROVE FilterInv'
  BY <1>1, <1>3, KeptList DEF Rebuilt
<1>4. ASSUME NEW a, NEW type, BkptRemove(a, type) PROVE FilterInv'
  BY <1>3, <1>4 DEF BkptRemove, Without
<1>5. ASSUME NEW type, BkptClearType(type) PROVE FilterInv'
  BY <1>3, <1>5 DEF BkptClearType
<1>6. CASE BkptClear
  BY <1>6 DEF BkptClear, FilterInv, FiltersComplete, AddrsOf
<1>7. CASE UNCHANGED <<bpLists, wpList, wpBits, physList, physBits>>
  BY <1>7 DEF FilterInv, FiltersComplete
<1>8. CASE BkptStepOne \/ BkptContinue \/ GetLastHit
  BY <1>7, <1>8 DEF BkptStepOne, BkptContinue, GetLastHit
<1>9. ASSUME NEW a, CpuAt(a) PROVE FilterInv'
  BY <1>7, <1>9 DEF CpuAt
<1>10. CASE BkptHit
  BY <1>3, <1>7, <1>10 DEF BkptHit, Without
<1>11. ASSUME NEW a, NEW write, NEW apt, NEW pil, WatchAccess(a, write, apt, pil)
          \/ PhysAccess(a, write, pil)
       PROVE FilterInv'
  BY <1>7, <1>11 DEF WatchAccess, PhysAccess
<1>12. ASSUME NEW a \in WatchAddrs, NEW k \in WatchKinds, WatchAdd(a, k) \/ PhysAdd(a, k)
       PROVE FilterInv'
  <2> DEFINE e == [addr |-> a, kind |-> k]
  <2>1. e \in WatchEntry /\ e.addr = a
    BY DEF WatchEntry
  <2> HIDE DEF e
  <2>2. ASSUME NEW l \in Seq(WatchEntry), NEW m, m = Append(l, e)
        PROVE  m \in Seq(WatchEntry) /\ AddrsOf(m) = AddrsOf(l) \cup {a}
             /\ PagesOf(m) = PagesOf(l) \cup {PageOf(a)}
    <3>1. /\ m \in Seq(WatchEntry) /\ DOMAIN m = 1 .. (Len(l) + 1) /\ m[Len(l) + 1] = e
               /\ DOMAIN l = 1 .. Len(l)
          /\ \A i \in DOMAIN l : i \in DOMAIN m /\ m[i] = l[i]
      BY <2>1, <2>2
    <3>2. \A i \in DOMAIN m : i = Len(l) + 1 \/ i \in DOMAIN l
      BY <2>2, <3>1
    <3>3. Len(l) + 1 \in DOMAIN m
      BY <2>2, <3>1
    <3> QED
      BY <2>1, <3>1, <3>2, <3>3 DEF AddrsOf, PagesOf
  <2>3. ASSUME NEW l \in Seq(WatchEntry), NEW m, NEW T,
               m = [i \in DOMAIN l |-> IF i \in T THEN e ELSE l[i]],
               \A i \in T : l[i].addr = a
        PROVE  m \in Seq(WatchEntry) /\ AddrsOf(m) = AddrsOf(l) /\ PagesOf(m) = PagesOf(l)
    <3>1. DOMAIN l = 1 .. Len(l) /\ Len(l) \in Nat /\ m \in [1 .. Len(l) -> WatchEntry]
      BY <2>1, <2>3
    <3>2. m \in Seq(WatchEntry) /\ DOMAIN m = DOMAIN l
      BY <3>1
    <3>3. \A i \in DOMAIN l : m[i].addr = l[i].addr
      BY <2>1, <2>3
    <3> QED
      BY <3>2, <3>3 DEF AddrsOf, PagesOf
  <2>4. CASE WatchAdd(a, k)
    <3> DEFINE T == {i \in DOMAIN wpList : SameWatch(wpList[i], a, k)}
    <3>1. CASE wpList' = [i \in DOMAIN wpList |-> IF i \in T THEN e ELSE wpList[i]] /\ UNCHANGED wpBits
      BY <2>3, <2>4, <3>1 DEF WatchAdd, SameWatch, FilterInv, FiltersComplete
    <3>2. CASE wpList' = Append(wpList, e) /\ wpBits' = wpBits \cup {a}
      BY <2>2, <2>4, <3>2 DEF WatchAdd, FilterInv, FiltersComplete
    <3> QED
      BY <2>4, <3>1, <3>2 DEF WatchAdd, e
  <2>5. CASE PhysAdd(a, k)
    <3> DEFINE T == {i \in DOMAIN physList : physList[i].addr = a /\ physList[i].kind.pil = k.pil}
    <3>1. CASE physList' = [i \in DOMAIN physList |-> IF i \in T THEN e ELSE physList[i]]
             /\ UNCHANGED physBits
      BY <2>3, <2>5, <3>1 DEF PhysAdd, FilterInv, FiltersComplete
    <3>2. CASE physList' = Append(physList, e) /\ physBits' = physBits \cup {PageOf(a)}
      BY <2>2, <2>5, <3>2 DEF PhysAdd, FilterInv, FiltersComplete
    <3> QED
      BY <2>5, <3>1, <3>2 DEF PhysAdd, e
  <2> QED
    BY <1>12, <2>4, <2>5
<1>13. ASSUME NEW a, WatchRemove(a) \/ PhysRemove(a) PROVE FilterInv'
  <2>1. ASSUME NEW l \in Seq(WatchEntry), a \in AddrsOf(l), NEW i
        PROVE SwapRemove(l, i) \in Seq(WatchEntry)
    <3>1. Len(l) \in Nat \ {0} /\ DOMAIN l = 1 .. Len(l) /\ \A k \in 1 .. Len(l) : l[k] \in WatchEntry
      BY <2>1 DEF AddrsOf
    <3>2. SwapRemove(l, i) \in [1 .. (Len(l) - 1) -> WatchEntry]
      BY <3>1 DEF SwapRemove
    <3> QED
      BY <3>1, <3>2, Len(l) - 1 \in Nat
  <2> QED
    BY <1>13, <2>1 DEF WatchRemove, PhysRemove, FilterInv, FiltersComplete
<1>14. CASE WatchClear \/ PhysClear
  <2>1. AddrsOf(<<>>) = {} /\ PagesOf(<<>>) = {}
    BY DEF AddrsOf, PagesOf
  <2>2. CASE WatchClear
    BY <2>1, <2>2 DEF WatchClear, FilterInv, FiltersComplete
  <2>3. CASE PhysClear
    BY <2>1, <2>3 DEF PhysClear, FilterInv, FiltersComplete
  <2> QED
    BY <1>14, <2>2, <2>3
<1> QED
  BY <1>2, <1>4, <1>5, <1>6, <1>8, <1>9, <1>10, <1>11, <1>12, <1>13, <1>14 DEF BreakNext, WatchNext

(* Both hold of every behaviour.                                             *)
LEMMA BpInvAlways == Spec => [](BpInv /\ FilterInv)
<1>1. Init => BpInv /\ FilterInv
  <2> SUFFICES ASSUME Init PROVE BpInv /\ FilterInv
    OBVIOUS
  <2>1. /\ bpList = <<>> /\ bpHits = <<>> /\ wpList = <<>> /\ physList = <<>> /\ bpThreaded \in BOOLEAN
        /\ bpBits = {} /\ bpCount = 0 /\ wpBits = {} /\ physBits = {}
    BY BpAssumption DEF Init, BpInit
  <2>2. BpInv
    BY <2>1 DEF BpInv, HitsAlive, OneTemporary
  <2>3. FilterInv
    BY <2>1 DEF FilterInv, FiltersComplete, AddrsOf, PagesOf
  <2> QED
    BY <2>2, <2>3
<1>2. BpInv /\ FilterInv /\ [Next]_vars => (BpInv /\ FilterInv)'
  <2> SUFFICES ASSUME BpInv, FilterInv, [Next]_vars PROVE BpInv' /\ FilterInv'
    OBVIOUS
  <2>1. CASE BreakNext \/ WatchNext
    BY <2>1, BpInvNext, FilterInvNext
  <2>2. CASE UNCHANGED bpVars
    <3>1. BpInv'
      BY <2>2 DEF bpVars, BpInv, HitsAlive
    <3>2. FilterInv'
      BY <2>2 DEF bpVars, FilterInv, FiltersComplete
    <3> QED
      BY <3>1, <3>2
  <2> QED
    BY <2>1, <2>2, PartSteps
<1> QED
  BY <1>1, <1>2, PTL DEF Spec

(* The bit maps and the counter that the CPU asks before it walks a list     *)
(* (breakpoint_bitmap_rebuild(), watchpoint_bitmap_rebuild() and the adds)   *)
(* have what the list has, after any sequence of edits and hits.             *)
THEOREM FiltersAreComplete == Spec => []FiltersComplete
<1>1. FilterInv => FiltersComplete
  BY DEF FilterInv
<1> QED
  BY <1>1, BpInvAlways, PTL

(* On one thread bkpt_check_hit() never looks at an entry that it has freed  *)
(* itself with the temporary breakpoints.                                    *)
THEOREM HitsAreAlive == Spec => []HitsAlive
<1>1. BpInv => HitsAlive
  BY DEF BpInv
<1> QED
  BY <1>1, BpInvAlways, PTL
-----------------------------------------------------------------------------
(* The table of banks.  Two banks never overlap; a window is a bank that is  *)
(* not RAM; every bank lies inside installed memory or above it, and RAM lies*)
(* inside.                                                                   *)
BankSet == [start : Nat, size : Nat \ {0}, owner : Cards \cup {"local", "shared"}]

Apart(a, b) == End(a) <= b.start \/ End(b) <= a.start
Tables == {t \in Seq(BankSet) : \A i, j \in DOMAIN t : i # j => Apart(t[i], t[j])}
Answering(t, w) == \E i \in DOMAIN t : t[i].start <= w /\ w < End(t[i])
Windows(t) == {t[i] : i \in {i \in DOMAIN t : t[i].owner # "local"}}
InOrOut(t) == \A i \in DOMAIN t :
  /\ t[i].owner = "local" => End(t[i]) <= MemSize
  /\ End(t[i]) <= MemSize \/ MemSize <= t[i].start

(* The sequence without one place: those after it move down.                 *)
LEMMA RemovedOne ==
  ASSUME NEW S, NEW s \in Seq(S), NEW i \in DOMAIN s
  PROVE  /\ RemoveAt(s, i) \in Seq(S) /\ Len(RemoveAt(s, i)) = Len(s) - 1
         /\ \A k \in 1 .. (Len(s) - 1) : RemoveAt(s, i)[k] = s[IF k < i THEN k ELSE k + 1]
<1> DEFINE a == SubSeq(s, 1, i - 1)
           b == SubSeq(s, i + 1, Len(s))
<1>1. Len(s) \in Nat /\ i \in 1 .. Len(s) /\ \A k \in 1 .. Len(s) : s[k] \in S OBVIOUS
<1>2. a \in Seq(S) /\ Len(a) = i - 1 /\ \A k \in 1 .. (i - 1) : a[k] = s[k]
  BY <1>1, SubSeqProperties
<1>3. b \in Seq(S) /\ Len(b) = Len(s) - i /\ \A k \in 1 .. (Len(s) - i) : b[k] = s[i + k]
  BY <1>1, SubSeqProperties
<1> HIDE DEF a, b
<1> DEFINE c == a \o b
<1>4. /\ c \in Seq(S) /\ Len(c) = Len(a) + Len(b)
      /\ \A k \in 1 .. (Len(a) + Len(b)) : c[k] = IF k <= Len(a) THEN a[k] ELSE b[k - Len(a)]
  BY <1>2, <1>3, ConcatProperties
<1> HIDE DEF c
<1>5. Len(c) = Len(s) - 1 BY <1>1, <1>2, <1>3, <1>4
<1>6. ASSUME NEW k \in 1 .. (Len(s) - 1) PROVE c[k] = s[IF k < i THEN k ELSE k + 1]
  <2>1. CASE k < i
    <3>1. c[k] = a[k] BY <1>1, <1>2, <1>3, <1>4, <2>1, SMTT(60)
    <3> QED BY <1>1, <1>2, <2>1, <3>1
  <2>2. CASE k >= i
    <3>1. k \in 1 .. (Len(a) + Len(b)) /\ ~(k <= Len(a)) BY <1>1, <1>2, <1>3, <2>2
    <3>2. c[k] = b[k - Len(a)] BY <1>4, <3>1
    <3>3. k - Len(a) \in 1 .. (Len(s) - i) /\ i + (k - Len(a)) = k + 1
      BY <1>1, <1>2, <2>2
    <3> QED BY <1>3, <2>2, <3>2, <3>3
  <2> QED BY <1>1, <2>1, <2>2
<1> QED BY <1>4, <1>5, <1>6 DEF RemoveAt, a, b, c

\* one bank taken out

(* A table without one bank is a table, and has all the others.              *)
LEMMA BankRemoved ==
  ASSUME NEW t \in Tables, NEW h \in DOMAIN t
  PROVE  LET r == RemoveAt(t, h) IN
         /\ r \in Tables /\ Len(r) = Len(t) - 1
         /\ \A j \in DOMAIN r : \E i \in DOMAIN t \ {h} : r[j] = t[i]
         /\ \A i \in DOMAIN t \ {h} : \E j \in DOMAIN r : r[j] = t[i]
<1> DEFINE r == RemoveAt(t, h)
           Was(k) == IF k < h THEN k ELSE k + 1
<1>1. /\ Len(t) \in Nat /\ DOMAIN t = 1 .. Len(t) /\ h \in 1 .. Len(t) /\ t \in Seq(BankSet)
      /\ \A i, j \in 1 .. Len(t) : i # j => Apart(t[i], t[j])
  BY DEF Tables
<1>2. r \in Seq(BankSet) /\ Len(r) = Len(t) - 1 /\ \A k \in 1 .. (Len(t) - 1) : r[k] = t[Was(k)]
  BY <1>1, RemovedOne
<1> HIDE DEF r
<1>3. DOMAIN r = 1 .. (Len(t) - 1) BY <1>1, <1>2
<1>4. \A k \in DOMAIN r : Was(k) \in DOMAIN t \ {h} /\ r[k] = t[Was(k)]
         /\ \A j \in DOMAIN r : Was(j) = Was(k) => j = k
  BY <1>1, <1>2, <1>3
<1>5. ASSUME NEW i \in DOMAIN t \ {h} PROVE \E j \in DOMAIN r : Was(j) = i
  <2>1. CASE i < h BY <1>1, <1>3, <2>1
  <2>2. CASE i > h
    <3>1. i - 1 \in DOMAIN r /\ Was(i - 1) = i BY <1>1, <1>3, <2>2
    <3> QED BY <3>1
  <2> QED BY <1>1, <2>1, <2>2
<1> HIDE DEF Was
<1>6. r \in Tables BY <1>1, <1>2, <1>4 DEF Tables
<1>7. \A i \in DOMAIN t \ {h} : \E j \in DOMAIN r : r[j] = t[i] BY <1>4, <1>5
<1> QED BY <1>2, <1>4, <1>6, <1>7 DEF r

(* A table with one more bank that overlaps none of them is a table.         *)
LEMMA BankAppended ==
  ASSUME NEW t \in Tables, NEW b \in BankSet, \A i \in DOMAIN t : Apart(t[i], b)
  PROVE  LET r == Append(t, b) IN
         /\ r \in Tables /\ Len(r) = Len(t) + 1
         /\ \A j \in DOMAIN r : r[j] = b \/ \E i \in DOMAIN t : r[j] = t[i]
         /\ \A i \in DOMAIN t : \E j \in DOMAIN r : r[j] = t[i]
         /\ \E j \in DOMAIN r : r[j] = b
<1> DEFINE r == Append(t, b)
<1>1. /\ Len(t) \in Nat /\ DOMAIN t = 1 .. Len(t) /\ t \in Seq(BankSet)
      /\ \A i, j \in 1 .. Len(t) : i # j => Apart(t[i], t[j])
  BY DEF Tables
<1>2. /\ r \in Seq(BankSet) /\ Len(r) = Len(t) + 1 /\ DOMAIN r = 1 .. (Len(t) + 1)
      /\ \A k \in 1 .. Len(t) : r[k] = t[k]
      /\ r[Len(t) + 1] = b
  BY <1>1
<1> HIDE DEF r
<1>3. ASSUME NEW i \in DOMAIN r, NEW j \in DOMAIN r, i # j PROVE Apart(r[i], r[j])
  <2>1. CASE i = Len(t) + 1 /\ j \in 1 .. Len(t) BY <1>1, <1>2, <2>1 DEF Apart
  <2>2. CASE j = Len(t) + 1 /\ i \in 1 .. Len(t) BY <1>1, <1>2, <2>2
  <2>3. CASE i \in 1 .. Len(t) /\ j \in 1 .. Len(t) BY <1>1, <1>2, <1>3, <2>3
  <2> QED BY <1>1, <1>2, <1>3, <2>1, <2>2, <2>3
<1>4. r \in Tables BY <1>2, <1>3 DEF Tables
<1>5. /\ \A j \in DOMAIN r : r[j] = b \/ \E i \in DOMAIN t : r[j] = t[i]
      /\ \A i \in DOMAIN t : \E j \in DOMAIN r : r[j] = t[i]
      /\ \E j \in DOMAIN r : r[j] = b
  BY <1>1, <1>2
<1> QED BY <1>2, <1>4, <1>5 DEF r

(* A table with one bank made shorter is a table.                            *)
LEMMA BankCut ==
  ASSUME NEW t \in Tables, NEW h \in DOMAIN t, NEW n \in Nat \ {0}, n <= t[h].size
  PROVE  LET r == [t EXCEPT ![h].size = n] IN
         /\ r \in Tables /\ Len(r) = Len(t) /\ DOMAIN r = DOMAIN t
         /\ \A i \in DOMAIN t \ {h} : r[i] = t[i]
         /\ r[h] = Bank(t[h].start, n, t[h].owner)
<1> DEFINE r == [t EXCEPT ![h].size = n]
           b == [t[h] EXCEPT !.size = n]
<1>1. /\ Len(t) \in Nat /\ DOMAIN t = 1 .. Len(t) /\ t \in Seq(BankSet) /\ h \in 1 .. Len(t)
      /\ \A i, j \in 1 .. Len(t) : i # j => Apart(t[i], t[j])
  BY DEF Tables
<1>2. t[h] \in BankSet BY <1>1
<1>3. b = Bank(t[h].start, n, t[h].owner) /\ b \in BankSet /\ b.start = t[h].start
         /\ End(b) <= End(t[h])
  BY <1>2 DEF BankSet, Bank, End
<1>4. r = [t EXCEPT ![h] = b] OBVIOUS
<1> HIDE DEF b
<1>5. /\ r \in Seq(BankSet) /\ Len(r) = Len(t)
      /\ \A i \in 1 .. Len(t) : r[i] = IF i = h THEN b ELSE t[i]
  BY <1>1, <1>3, <1>4, ExceptSeq
<1> HIDE DEF r
<1>6. DOMAIN r = DOMAIN t BY <1>1, <1>5
<1>7. ASSUME NEW i \in 1 .. Len(t), i # h PROVE Apart(t[i], b) /\ Apart(b, t[i])
  <2>1. Apart(t[i], t[h]) BY <1>1, <1>7
  <2>2. t[i] \in BankSet /\ t[i].start \in Nat /\ End(t[i]) \in Nat /\ End(b) \in Nat
           /\ End(t[h]) \in Nat /\ t[h].start \in Nat
    <3>1. t[i] \in BankSet BY <1>1, <1>7
    <3> QED BY <1>2, <1>3, <3>1, SMTT(60) DEF BankSet, End
  <2> QED BY <1>3, <2>1, <2>2 DEF Apart
<1>8. r \in Tables
  <2>1. ASSUME NEW i \in DOMAIN r, NEW j \in DOMAIN r, i # j PROVE Apart(r[i], r[j])
    BY <1>1, <1>5, <1>6, <1>7, <2>1
  <2> QED BY <1>5, <2>1 DEF Tables
<1> QED BY <1>1, <1>3, <1>5, <1>6, <1>8 DEF r, b

(* A table as the machine keeps it: that every word of RAM has a bank is what*)
(* makes it impossible to register a window inside RAM without splitting it. *)
Sound(t) ==
  /\ t \in Tables /\ Len(t) <= BankMax /\ InOrOut(t)
  /\ \A w \in 0 .. (MemSize - 1) : Answering(t, w)

(* What a bank of a table is like; no two begin at one address.              *)
LEMMA BankFields ==
  ASSUME NEW t \in Tables
  PROVE  /\ Len(t) \in Nat /\ DOMAIN t = 1 .. Len(t)
         /\ \A i \in DOMAIN t : /\ t[i] \in BankSet /\ t[i].start \in Nat /\ t[i].size \in Nat \ {0}
                                /\ End(t[i]) = t[i].start + t[i].size
                                     /\ t[i] = Bank(t[i].start, t[i].size, t[i].owner)
         /\ \A i, j \in DOMAIN t : i # j => Apart(t[i], t[j]) /\ t[i] # t[j] /\ t[i].start # t[j].start
<1>1. t \in Seq(BankSet) /\ \A i, j \in DOMAIN t : i # j => Apart(t[i], t[j])
  BY DEF Tables
<1>2. Len(t) \in Nat /\ DOMAIN t = 1 .. Len(t) /\ \A i \in DOMAIN t : t[i] \in BankSet
  BY <1>1
<1>3. \A i \in DOMAIN t : /\ t[i].start \in Nat /\ t[i].size \in Nat \ {0}
                          /\ End(t[i]) = t[i].start + t[i].size
                               /\ t[i] = Bank(t[i].start, t[i].size, t[i].owner)
  BY <1>2 DEF BankSet, End, Bank
<1>4. \A i, j \in DOMAIN t : i # j => t[i].start # t[j].start
  BY <1>1, <1>3 DEF Apart
<1> QED BY <1>1, <1>2, <1>3, <1>4

(* What Bank makes.                                                          *)
LEMMA BankMade ==
  ASSUME NEW s \in Nat, NEW z \in Nat \ {0}, NEW o \in Cards \cup {"local", "shared"}
  PROVE  /\ Bank(s, z, o) \in BankSet /\ Bank(s, z, o).start = s /\ Bank(s, z, o).size = z
         /\ Bank(s, z, o).owner = o /\ End(Bank(s, z, o)) = s + z
BY DEF Bank, BankSet, End

(* mms_memory_bank_register_backed() takes a bank when there is room and it  *)
(* overlaps none.                                                            *)
LEMMA Registered ==
  ASSUME NEW t \in Tables, Len(t) <= BankMax,
         NEW s \in Nat, NEW z \in Nat \ {0}, NEW o \in Cards \cup {"local", "shared"}
  PROVE  LET r == Register(t, s, z, o)
             b == Bank(s, z, o)
         IN  IF Len(t) < BankMax /\ \A i \in DOMAIN t : Apart(t[i], b) THEN r = Append(t, b) ELSE r = t
<1> DEFINE b == Bank(s, z, o)
<1>0. b.start = s /\ End(b) = s + z BY BankMade
<1>1. \A i \in DOMAIN t : ~Overlaps(t[i], s, z) <=> Apart(t[i], b)
  <2> TAKE i \in DOMAIN t
  <2>1. t[i].start \in Nat /\ End(t[i]) \in Nat
    <3>1. t[i].start \in Nat /\ t[i].size \in Nat /\ End(t[i]) = t[i].start + t[i].size
      BY BankFields
    <3> QED BY <3>1
  <2> HIDE DEF b
  <2> QED BY <1>0, <2>1 DEF Overlaps, Apart
<1> QED BY <1>1 DEF Register

(* The windows of a table in which a bank of RAM has given way to a window and*)
(* to smaller banks of RAM.                                                  *)
LEMMA WindowsAre ==
  ASSUME NEW t \in Tables, NEW r \in Tables, NEW h \in DOMAIN t, NEW B,
         t[h].owner = "local", B.owner # "local",
         \A k \in DOMAIN r : r[k] = B \/ (\E i \in DOMAIN t \ {h} : r[k] = t[i])
              \/ r[k].owner = "local",
         \A i \in DOMAIN t \ {h} : \E k \in DOMAIN r : r[k] = t[i],
         \E k \in DOMAIN r : r[k] = B
  PROVE  Windows(r) = Windows(t) \cup {B}
BY DEF Windows

(* A bank that overlaps none begins above installed RAM, where every word has a*)
(* bank.                                                                     *)
LEMMA OutsideRam ==
  ASSUME NEW t, Sound(t), NEW s \in Nat, NEW z \in Nat \ {0}, NEW o \in Cards \cup {"local", "shared"},
         \A i \in DOMAIN t : Apart(t[i], Bank(s, z, o))
  PROVE  MemSize <= s
<1> SUFFICES ASSUME s < MemSize PROVE FALSE
  BY BanksAssumption
<1>1. PICK i \in DOMAIN t : t[i].start <= s /\ s < End(t[i])
  <2>1. s \in 0 .. (MemSize - 1) /\ MemSize \in Nat BY BanksAssumption
  <2> QED BY <2>1 DEF Sound, Answering
<1> DEFINE b == Bank(s, z, o)
<1>2. b.start = s /\ End(b) = s + z BY BankMade
<1>3. Apart(t[i], b) BY <1>1
<1> HIDE DEF b
<1>4. t[i].start \in Nat /\ End(t[i]) \in Nat
  <2>1. t[i].start \in Nat /\ t[i].size \in Nat /\ End(t[i]) = t[i].start + t[i].size
    BY BankFields DEF Sound
  <2> QED BY <2>1
<1> QED BY <1>1, <1>2, <1>3, <1>4 DEF Apart

(* A window registered beside the others leaves a sound table, with the window*)
(* added, or the table it found.                                             *)
LEMMA RegisteredBeside ==
  ASSUME NEW t, Sound(t), NEW s \in Nat, NEW z \in Nat \ {0}, NEW o \in Cards \cup {"shared"}
  PROVE  LET r == Register(t, s, z, o)
             b == Bank(s, z, o)
         IN  r = t \/ (Sound(r) /\ Windows(r) = Windows(t) \cup {b} /\ MemSize <= s)
<1> DEFINE r == Register(t, s, z, o)
           b == Bank(s, z, o)
<1> SUFFICES ASSUME r # t PROVE Sound(r) /\ Windows(r) = Windows(t) \cup {b} /\ MemSize <= s OBVIOUS
<1>0. t \in Tables /\ Len(t) <= BankMax BY DEF Sound
<1>1. Len(t) < BankMax /\ (\A i \in DOMAIN t : Apart(t[i], b)) /\ r = Append(t, b)
  BY <1>0, Registered
<1>2. MemSize <= s BY <1>1, OutsideRam
<1>3. b \in BankSet /\ b.owner = o /\ o # "local" /\ b.start = s /\ End(b) = s + z
  BY BankMade, BanksAssumption
<1>4. /\ r \in Tables /\ Len(r) = Len(t) + 1
      /\ \A j \in DOMAIN r : r[j] = b \/ \E i \in DOMAIN t : r[j] = t[i]
      /\ \A i \in DOMAIN t : \E j \in DOMAIN r : r[j] = t[i]
      /\ \E j \in DOMAIN r : r[j] = b
  BY <1>0, <1>1, <1>3, BankAppended
<1> HIDE DEF r, b
<1>5. Len(r) <= BankMax BY <1>0, <1>1, <1>4, BankFields, BanksAssumption
<1>6. InOrOut(r) BY <1>2, <1>3, <1>4 DEF InOrOut, Sound
<1>7. \A w \in 0 .. (MemSize - 1) : Answering(r, w) BY <1>4 DEF Sound, Answering
<1>8. Windows(r) = Windows(t) \cup {b} BY <1>3, <1>4 DEF Windows
<1> QED BY <1>2, <1>4, <1>5, <1>6, <1>7, <1>8 DEF Sound

(* mms_memory_bank_register_over_local(): the local bank is cut into the piece*)
(* below the window and the piece above it, and every word still has one bank;*)
(* or nothing is done.                                                       *)
LEMMA LaidOver ==
  ASSUME NEW t, Sound(t), NEW s \in Nat, NEW z \in Nat \ {0}, NEW o \in Cards
  PROVE  LET r == RegisterOverLocal(t, s, z, o)
             b == Bank(s, z, o)
         IN  r = t \/ (Sound(r) /\ Windows(r) = Windows(t) \cup {b})
<1> DEFINE r == RegisterOverLocal(t, s, z, o)
           b == Bank(s, z, o)
           hits == {i \in DOMAIN t : Overlaps(t[i], s, z)}
           h == CHOOSE i \in hits : TRUE
           low == IF s > t[h].start THEN [t EXCEPT ![h].size = s - t[h].start] ELSE RemoveAt(t, h)
           rest == Bank(s + z, End(t[h]) - (s + z), "local")
           high == IF s + z < End(t[h]) THEN <<rest>> ELSE <<>>
           all == Append(low, b) \o high
<1>0. t \in Tables /\ Len(t) <= BankMax BY DEF Sound
<1>1. CASE hits = {}
  <2>1. r = Register(t, s, z, o) BY <1>1 DEF RegisterOverLocal
  <2> QED BY <2>1, RegisteredBeside
<1>2. CASE hits # {} /\ r # t
  <2>1. /\ hits = {h} /\ t[h].owner = "local" /\ t[h].start <= s /\ s + z <= End(t[h])
             /\ ~(Len(all) > BankMax)
        /\ r = all
    <3>1. r = IF hits # {h} \/ t[h].owner # "local" \/ s < t[h].start \/ s + z > End(t[h])
             \/ Len(all) > BankMax
              THEN t ELSE all
      BY <1>2 DEF RegisterOverLocal
    <3>2. hits = {h} /\ t[h].owner = "local" /\ ~(s < t[h].start) /\ ~(s + z > End(t[h]))
             /\ ~(Len(all) > BankMax) /\ r = all
      BY <1>2, <3>1
    <3> HIDE DEF all, h, hits, r
    <3>3. h \in DOMAIN t BY <3>2 DEF hits
    <3>4. t[h].start \in Nat /\ End(t[h]) \in Nat
      <4>1. t[h].start \in Nat /\ t[h].size \in Nat /\ End(t[h]) = t[h].start + t[h].size
        BY <1>0, <3>3, BankFields
      <4> QED BY <4>1
    <3>5. t[h].start <= s /\ s + z <= End(t[h]) BY <3>2, <3>4
    <3> QED BY <3>2, <3>5
  <2>2. h \in DOMAIN t /\ \A i \in DOMAIN t \ {h} : ~Overlaps(t[i], s, z) BY <2>1
  <2> HIDE DEF h, hits, r
  <2> DEFINE local == t[h]
  <2>3. /\ local.start \in Nat /\ local.size \in Nat \ {0} /\ End(local) = local.start + local.size
        /\ local \in BankSet
        /\ \A i \in DOMAIN t \ {h} : /\ Apart(t[i], local) /\ t[i].start \in Nat
                                          /\ End(t[i]) \in Nat /\ t[i].start < End(t[i])
    <3>1. /\ local.start \in Nat /\ local.size \in Nat \ {0} /\ End(local) = local.start + local.size
          /\ local \in BankSet
      BY <1>0, <2>2, BankFields
    <3>2. ASSUME NEW i \in DOMAIN t \ {h}
          PROVE Apart(t[i], local) /\ t[i].start \in Nat /\ End(t[i]) \in Nat
               /\ t[i].start < End(t[i])
      <4>1. t[i].start \in Nat /\ t[i].size \in Nat \ {0} /\ End(t[i]) = t[i].start + t[i].size
        BY <1>0, BankFields
      <4>2. Apart(t[i], local) BY <1>0, <2>2, BankFields
      <4> QED BY <4>1, <4>2
    <3> QED BY <3>1, <3>2
  <2> DEFINE piece == Bank(local.start, s - local.start, "local")
  <2>4. /\ low \in Tables
        /\ \A j \in DOMAIN low : (\E i \in DOMAIN t \ {h} : low[j] = t[i])
             \/ (local.start < s /\ low[j] = piece)
        /\ \A i \in DOMAIN t \ {h} : \E j \in DOMAIN low : low[j] = t[i]
        /\ local.start < s => \E j \in DOMAIN low : low[j] = piece
    <3>1. CASE local.start < s
      <4>1. s - local.start \in Nat \ {0} /\ s - local.start <= local.size
        BY <2>1, <2>3, <3>1, SMTT(60)
      <4>2. low = [t EXCEPT ![h].size = s - local.start] BY <3>1
      <4>3. /\ low \in Tables /\ DOMAIN low = DOMAIN t
            /\ \A i \in DOMAIN t \ {h} : low[i] = t[i]
            /\ low[h] = piece
        BY <1>0, <2>1, <2>2, <4>1, <4>2, BankCut
      <4> HIDE DEF low, piece
      <4> QED BY <2>2, <3>1, <4>3
    <3>2. CASE ~(local.start < s)
      <4>1. low = RemoveAt(t, h) BY <2>3, <3>2
      <4> QED BY <1>0, <2>2, <3>2, <4>1, BankRemoved
    <3> QED BY <3>1, <3>2
  <2>5. b \in BankSet /\ b.start = s /\ End(b) = s + z /\ b.owner = o /\ o \notin {"local", "shared"}
    BY BankMade, BanksAssumption
  <2>6. local.start < s => piece \in BankSet /\ piece.start = local.start /\ End(piece) = s
           /\ piece.owner = "local"
    <3> SUFFICES ASSUME local.start < s
                 PROVE piece \in BankSet /\ piece.start = local.start /\ End(piece) = s
                      /\ piece.owner = "local"
      OBVIOUS
    <3>1. s - local.start \in Nat \ {0} /\ local.start + (s - local.start) = s
      BY <2>3
    <3>2. /\ piece \in BankSet /\ piece.start = local.start /\ piece.owner = "local"
          /\ End(piece) = local.start + (s - local.start)
      <4>1. local.start \in Nat BY <2>3
      <4> HIDE DEF local
      <4> QED BY <3>1, <4>1, BankMade
    <3> QED BY <3>1, <3>2
  <2>7. \A i \in DOMAIN t \ {h} : End(t[i]) <= local.start \/ End(local) <= t[i].start
    BY <2>3 DEF Apart
  <2> HIDE DEF low, piece, b
  <2>8. \A j \in DOMAIN low : Apart(low[j], b) /\ (End(low[j]) <= s \/ End(local) <= low[j].start)
    <3> TAKE j \in DOMAIN low
    <3>1. CASE local.start < s /\ low[j] = piece BY <2>3, <2>5, <2>6, <3>1 DEF Apart
    <3>2. CASE \E i \in DOMAIN t \ {h} : low[j] = t[i]
      <4>1. PICK i \in DOMAIN t \ {h} : low[j] = t[i] BY <3>2
      <4>2. End(t[i]) \in Nat /\ t[i].start \in Nat /\ local.start \in Nat /\ End(local) \in Nat
        BY <2>3
      <4>3. End(t[i]) <= local.start \/ End(local) <= t[i].start BY <2>7
      <4> QED BY <2>1, <2>5, <4>1, <4>2, <4>3 DEF Apart
    <3> QED BY <2>4, <3>1, <3>2
  <2> DEFINE mid == Append(low, b)
  <2>9. /\ mid \in Tables
        /\ \A j \in DOMAIN mid : mid[j] = b \/ \E i \in DOMAIN low : mid[j] = low[i]
        /\ \A i \in DOMAIN low : \E j \in DOMAIN mid : mid[j] = low[i]
        /\ \E j \in DOMAIN mid : mid[j] = b
    BY <2>4, <2>5, <2>8, BankAppended
  <2>10. all = IF s + z < End(local) THEN Append(mid, rest) ELSE mid
    <3>1. mid \in Seq(BankSet) BY <2>9 DEF Tables
    <3> HIDE DEF mid
    <3>2. CASE s + z < End(local)
      <4>1. all = mid \o <<rest>> BY <3>2 DEF mid
      <4>2. rest \in BankSet
        <5>1. s + z \in Nat /\ End(local) - (s + z) \in Nat \ {0} BY <2>3, <3>2
        <5> QED BY <5>1, BankMade
      <4> HIDE DEF rest, all
      <4> QED BY <3>1, <3>2, <4>1, <4>2
    <3>3. CASE ~(s + z < End(local))
      <4>1. all = mid \o <<>> BY <3>3 DEF mid
      <4> HIDE DEF all
      <4> QED BY <3>1, <3>3, <4>1, ConcatEmptySeq
    <3> QED BY <3>2, <3>3
  <2>11. s + z < End(local) => rest \in BankSet /\ rest.start = s + z
            /\ End(rest) = End(local) /\ rest.owner = "local"
    <3> SUFFICES ASSUME s + z < End(local)
                 PROVE rest \in BankSet /\ rest.start = s + z /\ End(rest) = End(local)
                      /\ rest.owner = "local"
      OBVIOUS
    <3>1. s + z \in Nat /\ End(local) - (s + z) \in Nat \ {0}
             /\ (s + z) + (End(local) - (s + z)) = End(local)
      BY <2>3
    <3> QED BY <3>1, BankMade
  <2> HIDE DEF mid, rest, all
  <2>12. \A j \in DOMAIN mid : End(mid[j]) <= s + z \/ End(local) <= mid[j].start
    <3> TAKE j \in DOMAIN mid
    <3>1. CASE mid[j] = b BY <2>5, <3>1
    <3>2. CASE mid[j] # b
      <4>1. PICK i \in DOMAIN low : mid[j] = low[i] BY <2>9, <3>2
      <4>2. End(low[i]) \in Nat /\ low[i].start \in Nat
        <5>1. low[i].start \in Nat /\ low[i].size \in Nat /\ End(low[i]) = low[i].start + low[i].size
          BY <2>4, BankFields
        <5> QED BY <5>1
      <4> QED BY <2>3, <2>8, <4>1, <4>2
    <3> QED BY <3>1, <3>2
  <2>13. /\ all \in Tables
         /\ \A j \in DOMAIN all : \/ s + z < End(local) /\ all[j] = rest
                                  \/ all[j] = b
                                  \/ local.start < s /\ all[j] = piece
                                  \/ \E i \in DOMAIN t \ {h} : all[j] = t[i]
         /\ \A i \in DOMAIN t \ {h} : \E j \in DOMAIN all : all[j] = t[i]
         /\ \E j \in DOMAIN all : all[j] = b
         /\ local.start < s => \E j \in DOMAIN all : all[j] = piece
         /\ s + z < End(local) => \E j \in DOMAIN all : all[j] = rest
    <3>1. CASE s + z < End(local)
      <4>1. \A j \in DOMAIN mid : Apart(mid[j], rest)
        BY <2>3, <2>11, <2>12, <3>1 DEF Apart
      <4>2. all = Append(mid, rest) BY <2>10, <3>1
      <4>3. /\ all \in Tables
            /\ \A j \in DOMAIN all : all[j] = rest \/ \E i \in DOMAIN mid : all[j] = mid[i]
            /\ \A i \in DOMAIN mid : \E j \in DOMAIN all : all[j] = mid[i]
            /\ \E j \in DOMAIN all : all[j] = rest
        BY <2>9, <2>11, <3>1, <4>1, <4>2, BankAppended, SMTT(60)
      <4> QED BY <2>4, <2>9, <3>1, <4>3
    <3>2. CASE ~(s + z < End(local))
      <4>1. all = mid BY <2>10, <3>2
      <4> QED BY <2>4, <2>9, <3>2, <4>1
    <3> QED BY <3>1, <3>2
  <2>14. InOrOut(all)
    <3>1. End(local) <= MemSize BY <2>1, <2>2 DEF Sound, InOrOut
    <3>2. MemSize \in Nat /\ End(local) \in Nat BY <2>3, BanksAssumption
    <3>3. \A i \in DOMAIN t : /\ t[i].owner = "local" => End(t[i]) <= MemSize
                              /\ End(t[i]) <= MemSize \/ MemSize <= t[i].start
      BY DEF Sound, InOrOut
    <3> SUFFICES ASSUME NEW j \in DOMAIN all
                 PROVE  /\ all[j].owner = "local" => End(all[j]) <= MemSize
                        /\ End(all[j]) <= MemSize \/ MemSize <= all[j].start
      BY DEF InOrOut
    <3>4. CASE s + z < End(local) /\ all[j] = rest BY <2>11, <3>1, <3>4
    <3>5. CASE all[j] = b BY <2>1, <2>5, <3>1, <3>2, <3>5
    <3>6. CASE local.start < s /\ all[j] = piece BY <2>1, <2>6, <3>1, <3>2, <3>6
    <3>7. CASE \E i \in DOMAIN t \ {h} : all[j] = t[i] BY <3>3, <3>7
    <3> QED BY <2>13, <3>4, <3>5, <3>6, <3>7
  <2>15. \A w \in 0 .. (MemSize - 1) : Answering(all, w)
    <3> TAKE w \in 0 .. (MemSize - 1)
    <3>0. w \in Int BY BanksAssumption
    <3>1. PICK i \in DOMAIN t : t[i].start <= w /\ w < End(t[i])
      BY DEF Sound, Answering
    <3>2. CASE i # h BY <2>13, <3>1, <3>2 DEF Answering
    <3>3. CASE i = h /\ w < s
      <4>1. local.start < s BY <2>3, <3>0, <3>1, <3>3
      <4>2. piece.start <= w /\ w < End(piece) BY <2>6, <3>1, <3>3, <4>1
      <4> QED BY <2>13, <4>1, <4>2 DEF Answering
    <3>4. CASE i = h /\ s <= w /\ w < s + z
      <4>1. b.start <= w /\ w < End(b) BY <2>5, <3>4
      <4> QED BY <2>13, <4>1 DEF Answering
    <3>5. CASE i = h /\ s + z <= w
      <4>1. s + z < End(local) BY <2>3, <3>0, <3>1, <3>5
      <4>2. rest.start <= w /\ w < End(rest) BY <2>11, <3>1, <3>5, <4>1
      <4> QED BY <2>13, <4>1, <4>2 DEF Answering
    <3> QED BY <3>0, <3>2, <3>3, <3>4, <3>5
  <2>16. Windows(all) = Windows(t) \cup {b}
    <3>1. \A k \in DOMAIN all : all[k] = b \/ (\E i \in DOMAIN t \ {h} : all[k] = t[i])
             \/ all[k].owner = "local"
      BY <2>6, <2>11, <2>13
    <3>2. b.owner # "local" BY <2>5
    <3> QED BY <1>0, <2>1, <2>2, <2>13, <3>1, <3>2, WindowsAre
  <2>17. Len(all) <= BankMax
    <3>1. Len(all) \in Nat BY <2>13, BankFields
    <3> QED BY <2>1, <3>1, BanksAssumption
  <2> QED BY <2>1, <2>13, <2>14, <2>15, <2>16, <2>17 DEF Sound, r, b
<1> QED BY <1>1, <1>2

(* mms_memory_bank_unregister() takes away the bank at the address, the only one*)
(* that begins there.                                                        *)
LEMMA TakenOut ==
  ASSUME NEW t, Sound(t), NEW j \in DOMAIN t, t[j].owner # "local"
  PROVE  LET r == RemoveAt(t, j)
         IN  /\ Unregister(t, t[j].start) = r
             /\ r \in Tables /\ Len(r) = Len(t) - 1 /\ Windows(r) = Windows(t) \ {t[j]}
             /\ \A k \in DOMAIN r : \E i \in DOMAIN t \ {j} : r[k] = t[i]
             /\ \A i \in DOMAIN t \ {j} : \E k \in DOMAIN r : r[k] = t[i]
<1> DEFINE r == RemoveAt(t, j)
           at == {i \in DOMAIN t : t[i].start = t[j].start}
<1>0. t \in Tables BY DEF Sound
<1>1. at = {j} BY <1>0, BankFields
<1>2. (CHOOSE i \in at : \A k \in at : i <= k) = j
  <2>1. j <= j BY <1>0, BankFields
  <2> QED BY <1>1, <2>1
<1>3. Unregister(t, t[j].start) = r BY <1>1, <1>2 DEF Unregister
<1>4. /\ r \in Tables /\ Len(r) = Len(t) - 1
      /\ \A k \in DOMAIN r : \E i \in DOMAIN t \ {j} : r[k] = t[i]
      /\ \A i \in DOMAIN t \ {j} : \E k \in DOMAIN r : r[k] = t[i]
  BY <1>0, BankRemoved
<1>5. Windows(r) = Windows(t) \ {t[j]}
  <2>1. \A i \in DOMAIN t \ {j} : t[i] # t[j] BY <1>0, BankFields
  <2> HIDE DEF r
  <2> QED BY <1>4, <2>1 DEF Windows
<1> QED BY <1>3, <1>4, <1>5

(* The shared window, above installed RAM, taken away: no word of RAM is lost.*)
LEMMA TakenAway ==
  ASSUME NEW t, Sound(t), NEW j \in DOMAIN t, t[j].owner # "local", MemSize <= t[j].start
  PROVE  LET r == Unregister(t, t[j].start) IN Sound(r) /\ Windows(r) = Windows(t) \ {t[j]}
<1> DEFINE r == Unregister(t, t[j].start)
<1>1. /\ r \in Tables /\ Len(r) = Len(t) - 1 /\ Windows(r) = Windows(t) \ {t[j]}
      /\ \A k \in DOMAIN r : \E i \in DOMAIN t \ {j} : r[k] = t[i]
      /\ \A i \in DOMAIN t \ {j} : \E k \in DOMAIN r : r[k] = t[i]
  BY TakenOut
<1> HIDE DEF r
<1>2. Len(t) \in Nat /\ t[j].start \in Nat BY BankFields DEF Sound
<1>3. Len(r) <= BankMax BY <1>1, <1>2, BanksAssumption DEF Sound
<1>4. InOrOut(r) BY <1>1 DEF Sound, InOrOut
<1>5. \A w \in 0 .. (MemSize - 1) : Answering(r, w)
  <2> TAKE w \in 0 .. (MemSize - 1)
  <2>1. PICK i \in DOMAIN t : t[i].start <= w /\ w < End(t[i])
    BY DEF Sound, Answering
  <2>2. i # j BY <1>2, <2>1, BanksAssumption
  <2> QED BY <1>1, <2>1, <2>2 DEF Answering
<1> QED BY <1>1, <1>3, <1>4, <1>5 DEF Sound, r

(* mms_memory_bank_unregister_over_local(): the window's words are RAM again.*)
(* The bank it registers in their place is never refused, since it has the   *)
(* place of the one that was there and overlaps nothing.                     *)
LEMMA TakenOff ==
  ASSUME NEW t, Sound(t), NEW j \in DOMAIN t, t[j].owner # "local"
  PROVE  LET r == UnregisterOverLocal(t, t[j].start) IN Sound(r) /\ Windows(r) = Windows(t) \ {t[j]}
<1> DEFINE r == UnregisterOverLocal(t, t[j].start)
           s == t[j].start
           z == t[j].size
           at == {i \in DOMAIN t : t[i].start = s}
           u == Unregister(t, s)
           b == Bank(s, z, "local")
<1>0. t \in Tables /\ Len(t) <= BankMax BY DEF Sound
<1>1. at = {j} BY <1>0, BankFields
<1>2. (CHOOSE i \in at : \A k \in at : i <= k) = j
  <2>1. j <= j BY <1>0, BankFields
  <2> QED BY <1>1, <2>1
<1>3. s \in Nat /\ z \in Nat \ {0} /\ End(t[j]) = s + z /\ Len(t) \in Nat
         /\ MemSize \in Nat /\ BankMax \in Nat
  BY <1>0, BankFields, BanksAssumption
<1>4. CASE MemSize <= s
  <2>1. r = Unregister(t, s) BY <1>1, <1>2, <1>3, <1>4 DEF UnregisterOverLocal
  <2> QED BY <1>4, <2>1, TakenAway
<1>5. CASE s < MemSize
  <2>1. s + z <= MemSize
    <3>1. End(t[j]) <= MemSize \/ MemSize <= s BY DEF Sound, InOrOut
    <3> QED BY <1>3, <1>5, <3>1
  <2>2. r = Register(u, s, z, "local")
    <3>1. (IF s + z > MemSize THEN MemSize ELSE s + z) - s = z BY <1>3, <2>1
    <3> QED BY <1>1, <1>2, <1>5, <3>1 DEF UnregisterOverLocal
  <2>3. /\ u \in Tables /\ Len(u) = Len(t) - 1 /\ Windows(u) = Windows(t) \ {t[j]}
        /\ \A k \in DOMAIN u : \E i \in DOMAIN t \ {j} : u[k] = t[i]
        /\ \A i \in DOMAIN t \ {j} : \E k \in DOMAIN u : u[k] = t[i]
    BY TakenOut
  <2>4. b \in BankSet /\ b.start = s /\ End(b) = s + z /\ b.owner = "local"
    BY <1>3, BankMade
  <2> HIDE DEF u, b, r
  <2>5. \A k \in DOMAIN u : Apart(u[k], b)
    <3> TAKE k \in DOMAIN u
    <3>1. PICK i \in DOMAIN t \ {j} : u[k] = t[i] BY <2>3
    <3>2. Apart(t[i], t[j]) BY <1>0, BankFields
    <3> QED BY <1>3, <2>4, <3>1, <3>2 DEF Apart
  <2>6. Len(u) < BankMax /\ Len(u) <= BankMax BY <1>0, <1>3, <2>3
  <2>7. r = Append(u, b)
    <3>1. \A i \in DOMAIN u : Apart(u[i], Bank(s, z, "local")) BY <2>5 DEF b
    <3> QED BY <1>3, <2>2, <2>3, <2>6, <3>1, Registered, SMTT(60) DEF b
  <2>8. /\ r \in Tables /\ Len(r) = Len(u) + 1
        /\ \A k \in DOMAIN r : r[k] = b \/ \E i \in DOMAIN u : r[k] = u[i]
        /\ \A i \in DOMAIN u : \E k \in DOMAIN r : r[k] = u[i]
        /\ \E k \in DOMAIN r : r[k] = b
    <3>1. u \in Tables BY <2>3
    <3>2. b \in BankSet BY <2>4
    <3> QED BY <2>5, <2>7, <3>1, <3>2, BankAppended
  <2>9. Len(r) <= BankMax BY <1>0, <1>3, <2>3, <2>8
  <2>10. InOrOut(r)
    <3>1. \A i \in DOMAIN t : /\ t[i].owner = "local" => End(t[i]) <= MemSize
                              /\ End(t[i]) <= MemSize \/ MemSize <= t[i].start
      BY DEF Sound, InOrOut
    <3> SUFFICES ASSUME NEW k \in DOMAIN r
                 PROVE  /\ r[k].owner = "local" => End(r[k]) <= MemSize
                        /\ End(r[k]) <= MemSize \/ MemSize <= r[k].start
      BY DEF InOrOut
    <3>2. CASE r[k] = b BY <2>1, <2>4, <3>2
    <3>3. CASE \E i \in DOMAIN u : r[k] = u[i] BY <2>3, <3>1, <3>3
    <3> QED BY <2>8, <3>2, <3>3
  <2>11. \A w \in 0 .. (MemSize - 1) : Answering(r, w)
    <3> TAKE w \in 0 .. (MemSize - 1)
    <3>1. PICK i \in DOMAIN t : t[i].start <= w /\ w < End(t[i])
      BY DEF Sound, Answering
    <3>2. CASE i = j
      <4>1. b.start <= w /\ w < End(b) BY <1>3, <2>4, <3>1, <3>2
      <4> QED BY <2>8, <4>1 DEF Answering
    <3>3. CASE i # j
      <4>1. PICK k \in DOMAIN u : u[k] = t[i] BY <2>3, <3>3
      <4>2. PICK n \in DOMAIN r : r[n] = u[k] BY <2>8
      <4> QED BY <3>1, <4>1, <4>2 DEF Answering
    <3> QED BY <3>2, <3>3
  <2>12. Windows(r) = Windows(u) BY <2>4, <2>8 DEF Windows
  <2> QED BY <2>3, <2>8, <2>9, <2>10, <2>11, <2>12 DEF Sound, r
<1> QED BY <1>3, <1>4, <1>5

(* The inductive invariant: the table is sound, and its windows are those of *)
(* the placed cards and the shared one, which is above installed memory.     *)
BankInv ==
  /\ Sound(banks) /\ window \in [Cards -> Starts] /\ placed \in [Cards -> BOOLEAN]
  /\ \A b \in Windows(banks) :
       \/ \E c \in Cards : placed[c] /\ b = Bank(window[c], WindowSize, c)
       \/ MemSize <= SharedStart /\ b = Bank(SharedStart, SharedSize, "shared")
  /\ \A c \in Cards : placed[c] => Bank(window[c], WindowSize, c) \in Windows(banks)

(* The table of a machine that has started is one bank of RAM.               *)
LEMMA BankInvInit == BanksInit => BankInv
<1> SUFFICES ASSUME BanksInit PROVE BankInv OBVIOUS
<1> DEFINE b == Bank(0, MemSize, "local")
<1>1. b \in BankSet /\ b.start = 0 /\ End(b) = MemSize /\ b.owner = "local"
  BY BanksAssumption, BankMade
<1>2. banks = <<b>> /\ window \in [Cards -> Starts] /\ placed = [c \in Cards |-> FALSE]
  BY DEF BanksInit
<1> HIDE DEF b
<1>3. DOMAIN banks = {1} /\ Len(banks) = 1 /\ banks[1] = b /\ banks \in Seq(BankSet)
  BY <1>1, <1>2
<1>4. banks \in Tables BY <1>3 DEF Tables
<1>5. InOrOut(banks) BY <1>1, <1>3, BanksAssumption DEF InOrOut
<1>6. \A w \in 0 .. (MemSize - 1) : Answering(banks, w)
  BY <1>1, <1>3, BanksAssumption DEF Answering
<1>7. Windows(banks) = {} BY <1>1, <1>3 DEF Windows
<1>8. Len(banks) <= BankMax BY <1>3, BanksAssumption
<1> QED BY <1>2, <1>4, <1>5, <1>6, <1>7, <1>8 DEF BankInv, Sound

\* the bank of a placed card

(* The bank of a placed card is in the table, a window at its address.       *)
LEMMA CardsBank ==
  ASSUME BankInv, NEW c \in Cards, placed[c]
  PROVE  /\ \E j \in DOMAIN banks : banks[j] = Bank(window[c], WindowSize, c)
              /\ banks[j].owner # "local" /\ banks[j].start = window[c]
<1>1. Bank(window[c], WindowSize, c) \in Windows(banks) BY DEF BankInv
<1>2. window[c] \in Nat BY BanksAssumption DEF BankInv, Starts
<1> QED BY <1>1, <1>2, BankMade, BanksAssumption DEF Windows

\* A card's window taken off leaves nothing of it

(* A card's window taken off, when it has one, leaves a sound table with the *)
(* windows of the others: what eth_set_memory_bank() and a removal begin with.*)
LEMMA CardOff ==
  ASSUME BankInv, NEW c \in Cards
  PROVE  LET off == IF placed[c] THEN UnregisterOverLocal(banks, window[c]) ELSE banks
         IN  /\ Sound(off)
             /\ \A b \in Windows(off) :
                  \/ \E d \in Cards \ {c} : placed[d] /\ b = Bank(window[d], WindowSize, d)
                  \/ MemSize <= SharedStart /\ b = Bank(SharedStart, SharedSize, "shared")
             /\ \A d \in Cards \ {c} : placed[d] => Bank(window[d], WindowSize, d) \in Windows(off)
             /\ placed[c] => off = UnregisterOverLocal(banks, window[c])
<1>0. \A d \in Cards : Bank(window[d], WindowSize, d).owner = d BY DEF Bank
<1>1. CASE placed[c]
  <2>1. PICK j \in DOMAIN banks : banks[j] = Bank(window[c], WindowSize, c)
           /\ banks[j].owner # "local" /\ banks[j].start = window[c]
    BY <1>1, CardsBank
  <2> DEFINE off == UnregisterOverLocal(banks, window[c])
  <2>2. Sound(off) /\ Windows(off) = Windows(banks) \ {banks[j]}
    <3>1. Sound(banks) BY DEF BankInv
    <3> QED BY <2>1, <3>1, TakenOff
  <2> HIDE DEF off
  <2>3. \A d \in Cards \ {c} : Bank(window[d], WindowSize, d) # banks[j]
    BY <1>0, <2>1
  <2> QED BY <1>1, <2>1, <2>2, <2>3 DEF BankInv, off
<1>2. CASE ~placed[c]
  BY <1>2 DEF BankInv
<1> QED BY <1>1, <1>2

(* Every attach, detach, move and removal keeps the invariant.               *)
LEMMA BankInvNext == ASSUME BankInv, BanksNext PROVE BankInv'
<1>0. Sound(banks) /\ window \in [Cards -> Starts] /\ placed \in [Cards -> BOOLEAN]
  BY DEF BankInv
<1>s. Starts \subseteq Nat BY BanksAssumption DEF Starts
<1>o. /\ \A s, c : Bank(s, WindowSize, c).owner = c
      /\ Bank(SharedStart, SharedSize, "shared").owner = "shared"
      /\ Bank(SharedStart, SharedSize, "shared").start = SharedStart
  BY DEF Bank
<1>n. /\ WindowSize \in Nat \ {0} /\ SharedStart \in Nat /\ SharedSize \in Nat \ {0}
      /\ \A c \in Cards : c # "local" /\ c # "shared" /\ window[c] \in Nat
  BY <1>0, <1>s, BanksAssumption
<1>1. CASE AttachShared
  <2> DEFINE b == Bank(SharedStart, SharedSize, "shared")
  <2>1. banks' = Register(banks, SharedStart, SharedSize, "shared") /\ window' = window
           /\ placed' = placed
    BY <1>1 DEF AttachShared
  <2>2. banks' = banks \/ (Sound(banks') /\ Windows(banks') = Windows(banks) \cup {b}
           /\ MemSize <= SharedStart)
    BY <1>0, <1>n, <2>1, RegisteredBeside
  <2> HIDE DEF b
  <2>3. CASE banks' = banks BY <2>1, <2>3 DEF BankInv
  <2>4. CASE Sound(banks') /\ Windows(banks') = Windows(banks) \cup {b} /\ MemSize <= SharedStart
    BY <2>1, <2>4 DEF BankInv, b
  <2> QED BY <2>2, <2>3, <2>4
<1>2. CASE DetachShared
  <2> DEFINE b == Bank(SharedStart, SharedSize, "shared")
  <2>1. "shared" \in Owners(banks) /\ banks' = Unregister(banks, SharedStart)
           /\ window' = window /\ placed' = placed
    BY <1>2 DEF DetachShared
  <2>2. PICK j \in DOMAIN banks : banks[j].owner = "shared" BY <2>1 DEF Owners
  <2>3. banks[j] = b /\ MemSize <= SharedStart
    <3>1. banks[j] \in Windows(banks) BY <2>2 DEF Windows
    <3>2. \A c \in Cards : banks[j] # Bank(window[c], WindowSize, c)
      BY <1>o, <1>n, <2>2
    <3> QED BY <3>1, <3>2 DEF BankInv
  <2>4. Sound(banks') /\ Windows(banks') = Windows(banks) \ {b}
    BY <1>0, <1>o, <2>1, <2>2, <2>3, TakenAway
  <2>5. \A c \in Cards : Bank(window[c], WindowSize, c) # b BY <1>o, <1>n
  <2> HIDE DEF b
  <2> QED BY <1>0, <2>1, <2>4, <2>5 DEF BankInv
<1>3. ASSUME NEW c \in Cards, PlaceCard(c) PROVE BankInv'
  <2> DEFINE b == Bank(window[c], WindowSize, c)
  <2>1. /\ ~placed[c] /\ banks' = RegisterOverLocal(banks, window[c], WindowSize, c) /\ window' = window
        /\ placed' = [placed EXCEPT ![c] = banks' # banks]
    BY <1>3 DEF PlaceCard
  <2>2. banks' = banks \/ (Sound(banks') /\ Windows(banks') = Windows(banks) \cup {b})
    <3>1. window[c] \in Nat BY <1>n
    <3> QED BY <1>0, <1>n, <2>1, <3>1, LaidOver
  <2>3. b \notin Windows(banks)
    <3>1. b # Bank(SharedStart, SharedSize, "shared") BY <1>o, <1>n
    <3>2. \A d \in Cards : b = Bank(window[d], WindowSize, d) => d = c BY <1>o
    <3> QED BY <2>1, <3>1, <3>2 DEF BankInv
  <2>4. placed' \in [Cards -> BOOLEAN] BY <1>0, <2>1
  <2>5. \A d \in Cards \ {c} : placed'[d] <=> placed[d] BY <1>0, <2>1
  <2>6. placed'[c] <=> banks' # banks BY <1>0, <2>1
  <2> HIDE DEF b
  <2>7. CASE banks' = banks BY <1>0, <2>1, <2>4, <2>5, <2>6, <2>7 DEF BankInv
  <2>8. CASE banks' # banks /\ Sound(banks') /\ Windows(banks') = Windows(banks) \cup {b}
    BY <1>0, <2>1, <2>4, <2>5, <2>6, <2>8 DEF BankInv, b
  <2> QED BY <2>2, <2>7, <2>8
<1>4. ASSUME NEW c \in Cards, NEW s \in Starts, MoveCard(c, s) PROVE BankInv'
  <2> DEFINE off == IF placed[c] THEN UnregisterOverLocal(banks, window[c]) ELSE banks
             moved == RegisterOverLocal(off, s, WindowSize, c)
             back == RegisterOverLocal(off, window[c], WindowSize, c)
  <2>1. /\ Sound(off)
        /\ \A b \in Windows(off) :
             \/ \E d \in Cards \ {c} : placed[d] /\ b = Bank(window[d], WindowSize, d)
             \/ MemSize <= SharedStart /\ b = Bank(SharedStart, SharedSize, "shared")
        /\ \A d \in Cards \ {c} : placed[d] => Bank(window[d], WindowSize, d) \in Windows(off)
    BY CardOff
  <2>2. IF moved # off
          THEN /\ banks' = moved /\ window' = [window EXCEPT ![c] = s]
               /\ placed' = [placed EXCEPT ![c] = TRUE]
          ELSE /\ banks' = back /\ placed' = [placed EXCEPT ![c] = back # off]
               /\ window' = window
    BY <1>4 DEF MoveCard
  <2> HIDE DEF off
  <2>3. moved = off \/ (Sound(moved) /\ Windows(moved) = Windows(off) \cup {Bank(s, WindowSize, c)})
    <3>1. s \in Nat BY <1>s
    <3> QED BY <1>n, <2>1, <3>1, LaidOver
  <2>4. back = off \/ (Sound(back) /\ Windows(back) = Windows(off)
           \cup {Bank(window[c], WindowSize, c)})
    <3>1. window[c] \in Nat BY <1>n
    <3> QED BY <1>n, <2>1, <3>1, LaidOver
  <2> HIDE DEF moved, back
  <2>5. window' \in [Cards -> Starts] /\ \A d \in Cards \ {c} : window'[d] = window[d]
    BY <1>0, <2>2
  <2>6. placed' \in [Cards -> BOOLEAN]
    <3>1. placed' = [placed EXCEPT ![c] = TRUE] \/ placed' = [placed EXCEPT ![c] = back # off]
      BY <2>2
    <3> QED BY <1>0, <3>1
  <2>7. \A d \in Cards \ {c} : placed'[d] <=> placed[d]
    <3>1. placed' = [placed EXCEPT ![c] = TRUE] \/ placed' = [placed EXCEPT ![c] = back # off]
      BY <2>2
    <3> QED BY <1>0, <3>1
  <2>8. IF placed'[c] THEN Sound(banks')
           /\ Windows(banks') = Windows(off) \cup {Bank(window'[c], WindowSize, c)}
                      ELSE banks' = off
    <3>1. CASE moved # off
      <4>1. placed'[c] /\ window'[c] = s /\ banks' = moved BY <1>0, <2>2, <3>1
      <4> QED BY <2>3, <3>1, <4>1
    <3>2. CASE moved = off
      <4>1. (placed'[c] <=> back # off) /\ window' = window /\ banks' = back
        BY <1>0, <2>2, <3>2
      <4> QED BY <2>4, <4>1
    <3> QED BY <3>1, <3>2
  <2> QED BY <2>1, <2>5, <2>6, <2>7, <2>8 DEF BankInv
<1>5. ASSUME NEW c \in Cards, RemoveCard(c) PROVE BankInv'
  <2> DEFINE off == IF placed[c] THEN UnregisterOverLocal(banks, window[c]) ELSE banks
  <2>1. /\ Sound(off)
        /\ \A b \in Windows(off) :
             \/ \E d \in Cards \ {c} : placed[d] /\ b = Bank(window[d], WindowSize, d)
             \/ MemSize <= SharedStart /\ b = Bank(SharedStart, SharedSize, "shared")
        /\ \A d \in Cards \ {c} : placed[d] => Bank(window[d], WindowSize, d) \in Windows(off)
    BY CardOff
  <2>2. banks' = off /\ placed' = [placed EXCEPT ![c] = FALSE] /\ window' = window
    BY <1>5 DEF RemoveCard
  <2> HIDE DEF off
  <2>3. placed' \in [Cards -> BOOLEAN] /\ ~placed'[c] /\ \A d \in Cards \ {c} : placed'[d] <=> placed[d]
    BY <1>0, <2>2
  <2> QED BY <1>0, <2>1, <2>2, <2>3 DEF BankInv
<1> QED BY <1>1, <1>2, <1>3, <1>4, <1>5 DEF BanksNext

(* The invariant says what BanksConsistent asks.                             *)
LEMMA BanksRight == BankInv => BanksConsistent
<1> SUFFICES ASSUME BankInv PROVE OneBankPerWord /\ CardAnswers
  BY DEF BanksConsistent
<1>1. Sound(banks) /\ banks \in Tables BY DEF BankInv, Sound
<1>2. ASSUME NEW w \in 0 .. (Words + SharedSize), NEW i \in DOMAIN banks, NEW j \in DOMAIN banks,
             banks[i].start <= w, w < End(banks[i]), banks[j].start <= w, w < End(banks[j])
      PROVE  i = j
  <2> SUFFICES ASSUME i # j PROVE FALSE OBVIOUS
  <2>1. Apart(banks[i], banks[j]) BY <1>1, BankFields
  <2>2. /\ banks[i].start \in Nat /\ banks[i].size \in Nat
             /\ End(banks[i]) = banks[i].start + banks[i].size
        /\ banks[j].start \in Nat /\ banks[j].size \in Nat
             /\ End(banks[j]) = banks[j].start + banks[j].size
    BY <1>1, BankFields
  <2>3. w \in Nat BY BanksAssumption
  <2> QED BY <1>2, <2>1, <2>2, <2>3 DEF Apart
<1>3. OneBankPerWord
  <2> SUFFICES ASSUME NEW w \in 0 .. (Words + SharedSize)
               PROVE  LET at == {i \in DOMAIN banks : banks[i].start <= w /\ w < End(banks[i])}
                      IN  IF w < MemSize THEN \E i \in at : at = {i} ELSE \A i, j \in at : i = j
    BY DEF OneBankPerWord
  <2> DEFINE at == {i \in DOMAIN banks : banks[i].start <= w /\ w < End(banks[i])}
  <2>1. \A i, j \in at : i = j BY <1>2
  <2>2. w < MemSize => \E i \in at : TRUE
    <3>1. w < MemSize => w \in 0 .. (MemSize - 1) BY BanksAssumption
    <3> QED BY <1>1, <3>1 DEF Sound, Answering
  <2> HIDE DEF at
  <2>3. w < MemSize => \E i \in at : at = {i} BY <2>1, <2>2
  <2> QED BY <2>1, <2>3 DEF at
<1>4. CardAnswers
  <2> SUFFICES ASSUME NEW c \in Cards
               PROVE  placed[c] <=> \E i \in DOMAIN banks : banks[i] = Bank(window[c], WindowSize, c)
    BY DEF CardAnswers
  <2>1. placed[c] => \E i \in DOMAIN banks : banks[i] = Bank(window[c], WindowSize, c)
    BY CardsBank
  <2>2. ASSUME NEW i \in DOMAIN banks, banks[i] = Bank(window[c], WindowSize, c) PROVE placed[c]
    <3>2. /\ \A d \in Cards : Bank(window[d], WindowSize, d).owner = d
          /\ Bank(SharedStart, SharedSize, "shared").owner = "shared"
      BY DEF Bank
    <3>3. banks[i].owner = c /\ c # "local" /\ c # "shared"
      BY <2>2, <3>2, BanksAssumption
    <3>4. banks[i] \in Windows(banks) BY <3>3 DEF Windows
    <3> QED BY <3>2, <3>3, <3>4 DEF BankInv
  <2> QED BY <2>1, <2>2
<1> QED BY <1>3, <1>4

(* Whatever sequence of mfbus_attach(), mfbus_detach() and placing, moving and*)
(* removing of Ethernet cards, each with what it does when it is refused, every*)
(* word of installed memory has one bank, no word has two, and a card has its*)
(* bank exactly when its bank_registered says so.                            *)
THEOREM BanksStayConsistent == Spec => []BanksConsistent
<1>1. Init => BankInv BY BankInvInit DEF Init
<1>2. BankInv /\ [Next]_vars => BankInv'
  <2> SUFFICES ASSUME BankInv, [Next]_vars PROVE BankInv' OBVIOUS
  <2>1. CASE BanksNext BY <2>1, BankInvNext
  <2>2. CASE UNCHANGED bankVars BY <2>2 DEF bankVars, BankInv
  <2> QED BY <2>1, <2>2 DEF Next, vars
<1> QED BY <1>1, <1>2, BanksRight, PTL DEF Spec
=============================================================================
