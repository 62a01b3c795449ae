-------------------------- MODULE ControllerProofs --------------------------
(***************************************************************************)
(* Disks, Ethernet card, network link and HDLC card, for every number of   *)
(* units, callbacks, sectors, connections and frames and every size of     *)
(* rings, lists and queues; at the end the controllers are put together,   *)
(* with the SCSI adapter of ScsiProofs.                                    *)
(*                                                                         *)
(* Disks: operations end and are told, no transfer leaves its surface.     *)
(*                                                                         *)
(* Ethernet: received frames reach the firmware in order and whole or      *)
(* marked, sent frames go out whole, once and in order, and interrupts are *)
(* told.  The argument is the ring's: from the firmware's place on, the    *)
(* descriptors are the firmware's up to the LANCE's place and the LANCE's  *)
(* behind it, and the firmware's hold whole frames in order.  When it      *)
(* transmits, the LANCE's descriptors hold whole frames, of which there    *)
(* are no more than polls still to be asked for, then the frame in hand.   *)
(* It needs the firmware to give the LANCE the first buffer of a frame     *)
(* last (EthRare is empty).                                                *)
(*                                                                         *)
(* The link is sound, but for a connection whose active flag a send of the *)
(* one before clears.                                                      *)
(* The HDLC card's frames keep their order and their driver is told, when  *)
(* it keeps to the order that HdlcRare names (it is empty).                *)
(***************************************************************************)
EXTENDS MCControllers, ScsiProofs, WellFoundedInduction, SequenceTheorems, FiniteSetTheorems, TLAPS

(* The SMD controller's registers and queue, with SmdEnds and SmdTold. *)
SmdInv ==
  /\ smdEnds \in [EndKinds -> Nat]
  /\ SmdEnds /\ SmdTold

(* One callback more, and one less. *)
LEMMA EndsCounted ==
  ASSUME smdEnds \in [EndKinds -> Nat], NEW k \in EndKinds
  PROVE  /\ EndsQueued \in Nat /\ (smdEnds[k] > 0 => EndsQueued > 0)
         /\ smdEnds' = [smdEnds EXCEPT ![k] = @ + 1] =>
              smdEnds' \in [EndKinds -> Nat] /\ EndsQueued' = EndsQueued + 1
         /\ smdEnds[k] > 0 /\ smdEnds' = [smdEnds EXCEPT ![k] = @ - 1] =>
              smdEnds' \in [EndKinds -> Nat] /\ EndsQueued' = EndsQueued - 1
<1>1. smdEnds["end"] \in Nat /\ smdEnds["timeout"] \in Nat /\ smdEnds["search"] \in Nat
  BY DEF EndKinds
<1>2. k = "end" \/ k = "timeout" \/ k = "search"
  BY DEF EndKinds
<1>3. smdEnds' = [smdEnds EXCEPT ![k] = @ + 1] =>
        smdEnds' \in [EndKinds -> Nat] /\ EndsQueued' = EndsQueued + 1
  BY <1>1, <1>2 DEF EndsQueued, EndKinds
<1>4. smdEnds[k] > 0 /\ smdEnds' = [smdEnds EXCEPT ![k] = @ - 1] =>
        smdEnds' \in [EndKinds -> Nat] /\ EndsQueued' = EndsQueued - 1
  BY <1>1, <1>2 DEF EndsQueued, EndKinds
<1> QED
  BY <1>1, <1>2, <1>3, <1>4 DEF EndsQueued

(* How the steps of execute_go() and the callbacks leave the controller:     *)
(* finished, waiting for a new callback, or as it was.                       *)
LEMMA SmdInvNext == ASSUME SmdInv, SmdNext PROVE SmdInv'
<1>0. /\ EndsQueued \in Nat /\ smdEnds \in [EndKinds -> Nat]
      /\ {"end", "timeout", "search"} = EndKinds
  BY EndsCounted DEF SmdInv, EndKinds
<1>1. ASSUME NEW e \in BOOLEAN, NEW i \in BOOLEAN, Finish(e, i), smdEnabled' = e, ~smdActive,
             UNCHANGED <<smdEnds, smdCleared>>
      PROVE  SmdInv'
  BY <1>1 DEF Finish, SmdInv, SmdEnds, SmdTold, EndsQueued
<1>2. ASSUME NEW e \in BOOLEAN, NEW i \in BOOLEAN, NEW k \in EndKinds,
             Await(k, i), smdEnabled' = e, ~smdActive,
             UNCHANGED smdCleared
      PROVE  SmdInv'
  <2>1. smdEnds' \in [EndKinds -> Nat] /\ EndsQueued' = EndsQueued + 1
    BY <1>0, <1>2, EndsCounted DEF Await
  <2> QED
    BY <1>0, <1>2, <2>1 DEF Await, SmdInv, SmdEnds, SmdTold
<1>3. ASSUME NEW k \in EndKinds, smdEnds[k] > 0, Over(k), UNCHANGED <<smdEnabled, smdCleared>>
      PROVE SmdInv'
  <2>1. smdEnds' \in [EndKinds -> Nat] /\ EndsQueued' = EndsQueued - 1 /\ EndsQueued > 0
    BY <1>0, <1>3, EndsCounted DEF Over
  <2> QED
    <3>1. ~smdActive' /\ (smdEnabled' => smdIrq')
      BY <1>3 DEF Over, Finish
    <3>2. ~smdCleared' => EndsQueued' = 0
      BY <1>0, <1>3, <2>1 DEF SmdInv, SmdEnds
    <3> QED
      BY <2>1, <3>1, <3>2 DEF SmdInv, SmdEnds, SmdTold
<1>4. ASSUME UNCHANGED <<smdActive, smdReady, smdEnabled, smdIrq, smdNoEnd, smdEnds, smdCleared>>
      PROVE SmdInv'
  BY <1>4 DEF SmdInv, SmdEnds, SmdTold, EndsQueued
<1>5. ASSUME NEW k \in EndKinds, SmdEnd(k) PROVE SmdInv'
  BY <1>3, <1>5 DEF SmdEnd
<1>6. CASE SearchTick
  BY <1>0, <1>3, <1>4, <1>6 DEF SearchTick
<1>7. ASSUME NEW u \in SmdUnits, SeekEnd(u) PROVE SmdInv'
  BY <1>4, <1>7 DEF SeekEnd
<1>8. CASE SmdIdent
  BY <1>8 DEF SmdIdent, SmdInv, SmdEnds, SmdTold, EndsQueued
<1>9. CASE SmdReset
  BY <1>0, <1>9 DEF SmdReset, SmdInv, SmdEnds, SmdTold, EndsQueued
<1>10. ASSUME NEW e \in BOOLEAN, SmdLoad(e) PROVE SmdInv'
  BY <1>10 DEF SmdLoad, Refuses, SmdInv, SmdEnds, SmdTold, EndsQueued
<1>11. ASSUME NEW e \in BOOLEAN, NEW t \in BOOLEAN, SmdClear(e, t) PROVE SmdInv'
  BY <1>0, <1>11 DEF SmdClear, SmdInv, SmdEnds, SmdTold, EndsQueued
<1>12. ASSUME NEW e \in BOOLEAN, NEW op \in SmdOps, NEW u \in SmdUnits, SmdGo(op, u, e) PROVE SmdInv'
  <2> DEFINE i == smdIrq /\ e
  <2>1. ~smdActive /\ smdEnabled' = e /\ UNCHANGED smdCleared /\ i \in BOOLEAN
    BY <1>12 DEF SmdGo, Refuses
  <2> HIDE DEF i
  <2>2. CASE Undefined(i)
    BY <2>1, <2>2 DEF Undefined, SmdInv, SmdEnds, SmdTold, EndsQueued
  <2>3. CASE (\E k \in EndKinds : Await(k, i)) \/ (Finish(e, i) /\ UNCHANGED smdEnds)
    BY <1>1, <1>2, <2>1, <2>3
  <2> QED
    BY <1>0, <1>12, <2>2, <2>3
    DEF SmdGo, Refused, Operation, Transfer, InitiateSeek, ReturnToZero, WriteFormat, SeekCompleteSearch,
        Immediate, i
<1> QED
  BY <1>5, <1>6, <1>7, <1>8, <1>9, <1>10, <1>11, <1>12 DEF SmdNext
-----------------------------------------------------------------------------
(* The hard disks and the drum, with HardDiskEnds, HardDiskTold and          *)
(* WithinSurface.  The CDC's end always interrupts.                          *)
HardDiskInv ==
  /\ hdEnds \in Nat /\ hdFirst \in Nat /\ hdCount \in Nat /\ hdSurface \in SurfaceSizes
  /\ HardDiskEnds /\ HardDiskTold /\ WithinSurface
  /\ hdKind = "cdc" /\ hdDone => hdIrq

(* What the unsigned check of cdc_execute_go() lets through is on the        *)
(* surface.                                                                  *)
LEMMA CheckIsRight ==
  ASSUME hdSurface \in SurfaceSizes, NEW first \in Nat, NEW count \in Nat, ~OutOfRange(first, count)
  PROVE  first + count <= hdSurface
<1>1. hdSurface \in Nat /\ HdModulus \in Nat /\ hdSurface < HdModulus
  BY HardDiskAssumption
<1>2. first <= hdSurface /\ count <= (hdSurface - first) % HdModulus
  BY <1>1 DEF OutOfRange
<1>3. (hdSurface - first) % HdModulus = hdSurface - first
  BY <1>1, <1>2
<1> QED
  BY <1>1, <1>2, <1>3

(* Each kind of controller keeps it, whichever callback comes. *)
LEMMA HardDiskInvNext == ASSUME HardDiskInv, HardDiskNext PROVE HardDiskInv'
<1> USE DEF HardDiskInv, HardDiskEnds, HardDiskTold, WithinSurface, hdPlace, hdTouched
<1>1. ASSUME NEW e \in BOOLEAN, WdGo(e) PROVE HardDiskInv'
  BY <1>1 DEF WdGo, EndLater
<1>2. ASSUME NEW e \in BOOLEAN, NEW c \in BOOLEAN, WdLoad(e, c) PROVE HardDiskInv'
  BY <1>2 DEF WdLoad
<1>3. CASE WdEnd
  <2>1. hdEnds' \in Nat /\ ~hdActive' /\ hdKind = "wd"
           /\ UNCHANGED <<hdKind, hdSurface, hdFirst, hdCount>>
    BY <1>3 DEF WdEnd
  <2>2. hdEnabled' => hdIrq'
    BY <1>3 DEF WdEnd
  <2> QED
    BY <2>1, <2>2
<1>4. ASSUME NEW e \in BOOLEAN, NEW s \in 0..MaxSector, NEW c \in 0..MaxCount, SurfaceGo(e, s, c)
      PROVE HardDiskInv'
  <2> DEFINE first == s * SectorWords
  <2>1. first \in Nat /\ c \in Nat
    BY HardDiskAssumption
  <2>2. /\ hdActive' = TRUE /\ hdEnabled' = e /\ hdEnds' = hdEnds + 1 /\ hdDone' = FALSE
        /\ UNCHANGED <<hdKind, hdSurface, hdReady, hdIrq>>
        /\ (~OutOfRange(first, c) /\ hdFirst' = first /\ hdCount' = c) \/ (hdFirst' = 0 /\ hdCount' = 0)
    BY <1>4 DEF SurfaceGo, EndLater
  <2> HIDE DEF first
  <2>3. hdFirst' \in Nat /\ hdCount' \in Nat /\ hdFirst' + hdCount' <= hdSurface
    BY <2>1, <2>2, CheckIsRight, HardDiskAssumption
  <2> QED
    BY <2>2, <2>3
<1>5. ASSUME NEW s \in 0..MaxSector, NEW c \in 0..MaxCount, CdcGo(s, c) \/ DrumGo(s, c)
      PROVE HardDiskInv'
  BY <1>4, <1>5 DEF CdcGo, DrumGo
<1>6. ASSUME NEW p \in BOOLEAN, NEW a \in BOOLEAN, NEW s \in 0..MaxSector, NEW c \in 0..MaxCount,
             CdcIot(p, a, s, c) PROVE HardDiskInv'
  <2>1. CASE a
    BY <1>4, <1>6, <2>1 DEF CdcIot
  <2>2. CASE ~a
    BY <1>6, <2>2 DEF CdcIot
  <2> QED
    BY <2>1, <2>2
<1>7. CASE SurfaceClear
  BY <1>7 DEF SurfaceClear
<1>8. CASE CdcEnd
  BY <1>8 DEF CdcEnd
<1>9. CASE DrumEnd
  <2>1. hdEnds' \in Nat /\ ~hdActive' /\ hdKind = "drum"
           /\ UNCHANGED <<hdKind, hdSurface, hdFirst, hdCount>>
    BY <1>9 DEF DrumEnd
  <2>2. hdEnabled' => hdIrq'
    BY <1>9 DEF DrumEnd
  <2> QED
    BY <2>1, <2>2
<1>10. CASE HardDiskIdent
  BY <1>10 DEF HardDiskIdent
<1>11. CASE HardDiskReset
  BY <1>11 DEF HardDiskReset
<1> QED
  BY <1>1, <1>2, <1>3, <1>5, <1>6, <1>7, <1>8, <1>9, <1>10, <1>11 DEF HardDiskNext
-----------------------------------------------------------------------------
(* The floppy controllers, with FloppyEnds and FloppyTold.  An operation is  *)
(* over only where the controller is made ready.                             *)
FloppyInv ==
  /\ flEnds \in Nat /\ flWatches \in Nat /\ flChunks \in Nat
  /\ FloppyEnds /\ FloppyTold
  /\ flDone => flReady

(* Control words, callbacks, the watchdog, IDENT and resets keep it. *)
LEMMA FloppyInvNext == ASSUME FloppyInv, FloppyNext PROVE FloppyInv'
<1> USE DEF FloppyInv, FloppyEnds, FloppyTold, flWatchdog, QueueEnd
<1>1. ASSUME NEW e \in BOOLEAN, NEW r \in BOOLEAN, NEW how \in PioOutcomes \cup {"none"},
             PioControl(e, r, how)
      PROVE  FloppyInv'
  <2>1. CASE how = "none"
    BY <1>1, <2>1 DEF PioControl
  <2>2. CASE how = "end"
    BY <1>1, <2>2 DEF PioControl
  <2>3. CASE how = "over" \/ how = "fails"
    BY <1>1, <2>3 DEF PioControl
  <2> QED
    BY <2>1, <2>2, <2>3 DEF PioOutcomes
<1>2. CASE PioEnd
  <2>1. flEnds' \in Nat /\ ~flBusy' /\ flReady' /\ UNCHANGED <<flWatch, flChunks, flWatches>>
    BY <1>2 DEF PioEnd
  <2>2. flEnabled' => flIrq'
    BY <1>2 DEF PioEnd
  <2> QED
    BY <2>1, <2>2
<1>3. ASSUME NEW e \in BOOLEAN, NEW c \in BOOLEAN, DmaLoad(e, c) PROVE FloppyInv'
  BY <1>3 DEF DmaLoad
<1>4. ASSUME NEW e \in BOOLEAN, DmaWatchdogTest(e) PROVE FloppyInv'
  BY <1>4, FloppyAssumption DEF DmaWatchdogTest
<1>5. ASSUME NEW e \in BOOLEAN, NEW how \in {"end", "overEnd", "failEnd", "over", "streamer"}, DmaGo(e, how)
      PROVE  FloppyInv'
  <2>1. CASE how = "end"
    BY <1>5, <2>1 DEF DmaGo
  <2>2. CASE how = "overEnd"
    BY <1>5, <2>2 DEF DmaGo
  <2>3. CASE how = "failEnd"
    BY <1>5, <2>3 DEF DmaGo
  <2>4. CASE how = "over" \/ how = "streamer"
    BY <1>5, <2>4 DEF DmaGo
  <2> QED
    BY <2>1, <2>2, <2>3, <2>4
<1>6. CASE DmaEnd
  BY <1>6 DEF DmaEnd, DmaOver
<1>7. CASE DmaWatchdog
  BY <1>7 DEF DmaWatchdog, DmaOver
<1>8. CASE FloppyIdent
  BY <1>8 DEF FloppyIdent
<1>9. CASE FloppyReset
  BY <1>9 DEF FloppyReset
<1> QED
  BY <1>1, <1>2, <1>3, <1>4, <1>5, <1>6, <1>7, <1>8, <1>9
  DEF FloppyNext, AutoloadOutcomes, TestOutcomes, CommandOutcomes
-----------------------------------------------------------------------------
(* The three invariants together hold in every interleaving. *)
LEMMA DisksInvAlways == DisksSpec => [](SmdInv /\ HardDiskInv /\ FloppyInv)
<1>1. SmdInit => SmdInv
  BY DEF SmdInit, SmdInv, SmdEnds, SmdTold, EndsQueued, EndKinds
<1>2. SmdInv /\ [SmdNext]_smdVars => SmdInv'
  BY SmdInvNext DEF smdVars, SmdInv, SmdEnds, SmdTold, EndsQueued
<1>3. HardDiskInit => HardDiskInv
  BY HardDiskAssumption DEF HardDiskInit, HardDiskInv, HardDiskEnds, HardDiskTold, WithinSurface
<1>4. HardDiskInv /\ [HardDiskNext]_hdVars => HardDiskInv'
  BY HardDiskInvNext DEF hdVars, HardDiskInv, HardDiskEnds, HardDiskTold, WithinSurface
<1>5. FloppyInit => FloppyInv
  BY DEF FloppyInit, FloppyInv, FloppyEnds, FloppyTold
<1>6. FloppyInv /\ [FloppyNext]_flVars => FloppyInv'
  BY FloppyInvNext DEF flVars, FloppyInv, FloppyEnds, FloppyTold
<1> QED
  BY <1>1, <1>2, <1>3, <1>4, <1>5, <1>6, PTL DEF DisksSpec, SmdSpec, HardDiskSpec, FloppySpec

(* No way through the execute_go() of a controller, no clear and no callback *)
(* of an operation that was cut off leaves an operation without its end.     *)
THEOREM OperationsComeToEnd == DisksSpec => []OperationsEnd
<1>1. SmdInv /\ HardDiskInv /\ FloppyInv => OperationsEnd
  BY DEF SmdInv, HardDiskInv, FloppyInv, OperationsEnd
<1> QED
  BY <1>1, DisksInvAlways, PTL

(* The driver of a disk gets its interrupt: the finish_operation() and the   *)
(* end callbacks of all controllers, and the control words that enable it.   *)
THEOREM EndsAreTold == DisksSpec => []DisksTold
<1>1. SmdInv /\ HardDiskInv /\ FloppyInv => DisksTold
  BY DEF SmdInv, HardDiskInv, FloppyInv, DisksTold
<1> QED
  BY <1>1, DisksInvAlways, PTL

(* The CDC's and the drum's transfers stay on their surfaces, in arithmetic  *)
(* of every width and for every size of image.                               *)
THEOREM TransfersOnSurface == DisksSpec => []WithinSurface
<1>1. HardDiskInv => WithinSurface
  BY DEF HardDiskInv
<1> QED
  BY <1>1, DisksInvAlways, PTL
-----------------------------------------------------------------------------
(* The Ethernet card: its rings.                                             *)

(* The place i after p in a ring, as After(p, i) without the modulus. *)
Place(p, i) == IF p + i < RingSize THEN p + i ELSE p + i - RingSize

(* What a descriptor, the LANCE and a queued frame hold. *)
Descriptor == [own : BOOLEAN, stp : BOOLEAN, enp : BOOLEAN, err : BOOLEAN, frame : Nat, part : Nat]
LanceState ==
  [stop : BOOLEAN, init : BOOLEAN, rxon : BOOLEAN, txon : BOOLEAN, pending : BOOLEAN,
   flags : SUBSET {"MISS", "RINT", "TINT", "IDON"}, inea : BOOLEAN, irq : BOOLEAN,
   rxpos : Places, txpos : Places]
NewFrame == [frame : Nat, size : 1 .. FrameBuffers]

(* Receiver and transmitter are on while the LANCE runs; its line follows  *)
(* its registers.                                                          *)
LanceOK(l) ==
  /\ l \in LanceState /\ (l.rxon <=> ~l.stop) /\ (l.txon <=> ~l.stop)
  /\ (l.irq <=> (l.inea /\ l.flags # {}))

(* The type invariant. *)
EthTypes ==
  /\ LanceOK(lance) /\ rxd \in [Places -> Descriptor] /\ txd \in [Places -> Descriptor]
  /\ rxQueue \in Seq(NewFrame) /\ hostRing \in Seq(NewFrame)
  /\ fw \in [rx : Places, tx : Places, fill : 0 .. FrameBuffers,
            left : 0 .. FrameBuffers, unasked : Nat]
  /\ ndSide \in [enabled : BOOLEAN, scip : BOOLEAN, bit : BOOLEAN, reset : BOOLEAN]
  /\ load \in [in : Nat, out : Nat, nd : BOOLEAN]
  /\ wire \in [came : Nat, made : Nat, sent : Nat, last : Nat, whole : BOOLEAN,
              taken : Nat, part : Nat \cup {-1}]

(* The frames of a queue, those that wait in either, and the one that      *)
(* comes next.                                                             *)
Frames(q) == {q[i].frame : i \in 1 .. Len(q)}
Waiting == Frames(rxQueue) \cup Frames(hostRing)
NextFrame == wire.came + 1
Coming == Waiting \cup {NextFrame}

(* The frames of a queue rise, in either and from one to the other; the    *)
(* firmware has taken none of them yet.                                    *)
Rises(q) == \A i \in 1 .. Len(q), j \in 1 .. Len(q) : i < j => q[i].frame < q[j].frame
Queued ==
  /\ Rises(rxQueue) /\ Rises(hostRing)
  /\ \A v \in Frames(rxQueue), w \in Frames(hostRing) : v < w
  /\ \A w \in Waiting : wire.taken < w /\ w <= wire.came
  /\ wire.taken <= wire.came

(* The part that must follow a descriptor: -1 when the next one begins a   *)
(* frame.                                                                  *)
PartAfter(e) == IF e.enp \/ e.err THEN -1 ELSE e.part + 1

(* Descriptor e continues part `part' of frame `frame', or begins a later  *)
(* one.                                                                    *)
Fits(frame, part, e) ==
  IF part = -1 THEN e.stp /\ e.part = 0 /\ e.frame > frame
  ELSE ~e.stp /\ e.part = part /\ e.frame = frame

(* Frame and part the firmware has reached once it has taken i descriptors *)
(* from its place v.rx on.                                                 *)
FrameAt(v, d, i) == IF i = 0 THEN v.taken ELSE d[Place(v.rx, i - 1)].frame
PartAt(v, d, i) == IF i = 0 THEN v.part ELSE PartAfter(d[Place(v.rx, i - 1)])

(* From pos on, k descriptors are the firmware's and the rest are the      *)
(* LANCE's.                                                                *)
Split(d, pos, k) ==
  /\ \A i \in 0 .. k - 1 : d[Place(pos, i)].own = FALSE
  /\ \A i \in k .. RingSize - 1 : d[Place(pos, i)].own = TRUE

(* The firmware's k descriptors hold whole frames in order, all before     *)
(* those of W.                                                             *)
Filled(v, d, k, W) ==
  /\ Split(d, v.rx, k)
  /\ \A i \in 0 .. k - 1 : Fits(FrameAt(v, d, i), PartAt(v, d, i), d[Place(v.rx, i)])
  /\ PartAt(v, d, k) = -1
  /\ \A i \in 0 .. k - 1, w \in W : d[Place(v.rx, i)].frame < w

(* While the LANCE runs it stands where the firmware's descriptors end. *)
RxGood(v, l, d, W) == ~l.stop => \E k \in 0 .. RingSize : Filled(v, d, k, W) /\ l.rxpos = Place(v.rx, k)

(* A descriptor of the frame the firmware is filling: it owns it no more,  *)
(* and only the last one ends the frame.                                   *)
Prepared(e, i, fill, made) ==
  /\ e.own = TRUE /\ e.frame = made /\ (i = 0 => e.stp = TRUE)
  /\ (i = fill - 1 => e.enp = TRUE) /\ (i # fill - 1 => e.enp = FALSE)

(* What the transmit ring depends on besides LANCE and memory, and the     *)
(* number of frames that have been filled.                                 *)
TxView == [tx |-> fw.tx, fill |-> fw.fill, left |-> fw.left, unasked |-> fw.unasked,
           last |-> wire.last, made |-> wire.made]
Done(w) == IF w.left > 0 THEN w.made - 1 ELSE w.made

(* The k descriptors from pos on are the LANCE's and hold whole frames in  *)
(* order: later ones than those sent, and no more of them than there are   *)
(* polls to be asked for.                                                  *)
FramesReady(w, d, pos, k) ==
  /\ \A i \in 0 .. k - 1 : LET e == d[Place(pos, i)] IN
       e.own = TRUE /\ w.last < e.frame /\ Done(w) - w.unasked < e.frame /\ e.frame <= Done(w)
  /\ \A i \in 0 .. k - 1 : i = 0 => d[Place(pos, i)].stp = TRUE
  /\ \A i \in 0 .. k - 1 : i = k - 1 => d[Place(pos, i)].enp = TRUE
  /\ \A i, j \in 0 .. k - 1 : i < j => d[Place(pos, i)].frame <= d[Place(pos, j)].frame
  /\ \A i, j \in 0 .. k - 1 : i < j /\ d[Place(pos, i)].enp = TRUE
                                => d[Place(pos, i)].frame < d[Place(pos, j)].frame
  /\ \A i, j \in 0 .. k - 1 : j = i + 1 /\ d[Place(pos, i)].enp = TRUE
                                => d[Place(pos, j)].stp = TRUE

(* Behind them come the buffers of the frame in hand, of which the last    *)
(* ones are filled; nothing else is the LANCE's.                           *)
InHand(w, j) == w.left > 0 /\ w.left <= j /\ j < w.fill
Behind(w, d, pos, k) ==
  \A i \in k .. RingSize - 1 :
    /\ InHand(w, i - k) => Prepared(d[Place(pos, i)], i - k, w.fill, w.made)
    /\ ~InHand(w, i - k) => d[Place(pos, i)].own = FALSE

TxHolds(w, d, pos, k) ==
  /\ FramesReady(w, d, pos, k) /\ Behind(w, d, pos, k) /\ w.tx = Place(pos, k)
  /\ w.left > 0 => w.left <= w.fill /\ k + w.fill <= RingSize

(* While the LANCE runs it stands at the first of these frames.            *)
TxGood(w, l, d) == ~l.stop => \E k \in 0 .. RingSize : TxHolds(w, d, l.txpos, k)

(* What the receive ring depends on besides LANCE and memory. *)
View == [rx |-> fw.rx, taken |-> wire.taken, part |-> wire.part]

(* All frames have gone whole and none before it was filled. *)
AllWhole == wire.whole = TRUE /\ wire.last <= Done(TxView)

(* EthTold, the half of the ND-100 side. *)
NdTold == ndSide.scip /\ ndSide.enabled => ndSide.bit

(* The inductive invariant. *)
EthInv ==
  /\ EthTypes /\ Queued /\ RxGood(View, lance, rxd, Coming) /\ TxGood(TxView, lance, txd)
  /\ AllWhole /\ NdTold
-----------------------------------------------------------------------------
(* How far p is from pos around the ring. *)
Offset(pos, p) == IF p >= pos THEN p - pos ELSE p - pos + RingSize

(* What the assumption on the constants says. *)
LEMMA RingIs ==
  /\ RingSize \in Nat /\ RingSize > 0 /\ FrameBuffers \in Nat /\ FrameBuffers > 0
  /\ FrameBuffers < RingSize
  /\ \A p : p \in Places <=> p \in Int /\ 0 <= p /\ p < RingSize
<1>1. RingSize \in Nat \ {0} /\ FrameBuffers \in Nat \ {0} /\ FrameBuffers < RingSize
  BY EthernetAssumption
<1> QED
  BY <1>1 DEF Places

(* A number within one round of a ring, taken modulo it. *)
LEMMA RingAround ==
  ASSUME NEW n \in Nat \ {0}, NEW x \in Int
  PROVE  /\ 0 <= x /\ x < n => x % n = x
         /\ n <= x /\ x < n + n => x % n = x - n
         /\ x < 0 /\ -n <= x => x % n = x + n
<1>1. 0 <= x /\ x < n => x % n = x
  OBVIOUS
<1>2. n <= x /\ x < n + n => x % n = x - n
  OBVIOUS
<1>3. x < 0 /\ -n <= x => x % n = x + n
  OBVIOUS
<1> QED
  BY <1>1, <1>2, <1>3

(* After() is Place() within a round. *)
LEMMA PlaceIs ==
  ASSUME NEW p \in Places, NEW i \in 0 .. RingSize
  PROVE  After(p, i) = Place(p, i) /\ Place(p, i) \in Places
<1>1. RingSize \in Nat \ {0} /\ p + i \in Int /\ 0 <= p + i /\ p + i < RingSize + RingSize
  BY RingIs
<1>2. PICK x \in Int : x = p + i /\ 0 <= x /\ x < RingSize + RingSize
  BY <1>1
<1>3. x % RingSize = IF x < RingSize THEN x ELSE x - RingSize
  BY <1>1, <1>2, RingAround
<1> QED
  BY <1>1, <1>2, <1>3, RingIs DEF After, Place

(* Offset() is the modulus of Receive() and undoes Place(). *)
LEMMA OffsetIs ==
  ASSUME NEW pos \in Places, NEW p \in Places
  PROVE  /\ (p - pos) % RingSize = Offset(pos, p)
         /\ Offset(pos, p) \in 0 .. RingSize - 1
         /\ Place(pos, Offset(pos, p)) = p
<1>1. /\ RingSize \in Nat \ {0} /\ p - pos \in Int /\ -RingSize <= p - pos /\ p - pos < RingSize
      /\ p \in Int /\ pos \in Int /\ 0 <= p /\ 0 <= pos /\ p < RingSize /\ pos < RingSize
  BY RingIs
<1>2. (p - pos) % RingSize = Offset(pos, p)
  <2> DEFINE x == p - pos
  <2> HIDE DEF x
  <2>1. (0 <= x => x % RingSize = x) /\ (x < 0 => x % RingSize = x + RingSize)
    BY <1>1, RingAround DEF x
  <2> QED
    BY <1>1, <2>1 DEF x, Offset
<1> QED
  BY <1>1, <1>2 DEF Offset, Place

(* Place() is one to one within a round. *)
LEMMA OffsetOf ==
  ASSUME NEW pos \in Places, NEW i \in 0 .. RingSize - 1
  PROVE  /\ Place(pos, i) \in Places /\ Offset(pos, Place(pos, i)) = i
         /\ \A j \in 0 .. RingSize - 1 : Place(pos, i) = Place(pos, j) => i = j
<1>1. pos \in Int /\ 0 <= pos /\ pos < RingSize /\ RingSize \in Nat
  BY RingIs
<1> QED
  BY <1>1, RingIs DEF Offset, Place

(* Going on k places and then i more. *)
LEMMA PlacesAdd ==
  ASSUME NEW pos \in Places, NEW k \in 0 .. RingSize, NEW i \in 0 .. RingSize, k + i <= RingSize
  PROVE  Place(Place(pos, k), i) = Place(pos, k + i)
<1>1. pos \in Int /\ 0 <= pos /\ pos < RingSize /\ RingSize \in Nat
  BY RingIs
<1> QED
  BY <1>1 DEF Place

(* Owned() counts the places up to the first that is not the LANCE's. *)
LEMMA OwnedIs ==
  ASSUME NEW d, NEW pos \in Places, NEW n \in 0 .. RingSize, NEW k \in 0 .. n,
         \A i \in 0 .. k - 1 : d[Place(pos, i)].own = TRUE,
         k = n \/ d[Place(pos, k)].own = FALSE
  PROVE  Owned(d, pos, n) = k
<1> DEFINE Fit(x) == /\ \A i \in 0 .. x - 1 : d[After(pos, i)].own
                     /\ x = n \/ ~d[After(pos, x)].own
<1>1. n \in Nat /\ k \in Nat /\ n <= RingSize /\ RingSize \in Nat
  BY RingIs
<1>2. \A i \in 0 .. n : After(pos, i) = Place(pos, i)
  BY <1>1, PlaceIs
<1>3. Fit(k)
  BY <1>1, <1>2
<1>4. ASSUME NEW x \in 0 .. n, Fit(x) PROVE x = k
  <2>1. CASE x < k
    <3>1. x \in 0 .. k - 1 /\ x # n
      BY <1>1, <2>1
    <3> QED
      BY <1>2, <1>4, <3>1
  <2>2. CASE k < x
    <3>1. k \in 0 .. x - 1 /\ k # n /\ k \in 0 .. n
      BY <1>1, <2>2
    <3> QED
      BY <1>2, <1>4, <3>1
  <2> QED
    BY <1>1, <2>1, <2>2
<1>5. Owned(d, pos, n) = CHOOSE x \in 0 .. n : Fit(x)
  BY DEF Owned
<1> HIDE DEF Fit
<1> QED
  BY <1>3, <1>4, <1>5

(* The offset from a place further on. *)
LEMMA OffsetAdds ==
  ASSUME NEW pos \in Places, NEW k \in 0 .. RingSize, NEW j \in 0 .. RingSize - 1
  PROVE  Offset(Place(pos, k), Place(pos, j)) = IF j >= k THEN j - k ELSE j - k + RingSize
<1>1. pos \in Int /\ 0 <= pos /\ pos < RingSize /\ RingSize \in Nat
  BY RingIs
<1> QED
  BY <1>1 DEF Offset, Place

(* How many buffers a frame of n gets behind k full ones; the descriptor   *)
(* of its part i; the ring with the frame in it.                           *)
Taking(k, n) == IF n <= RingSize - k THEN n ELSE RingSize - k
Slot(f, m, i) == [own |-> FALSE, stp |-> i = 0, enp |-> i = f.size - 1,
                  err |-> i = m - 1 /\ m < f.size, frame |-> f.frame, part |-> i]
Written(d, pos, f, m) == [p \in Places |-> IF Offset(pos, p) < m
     THEN Slot(f, m, Offset(pos, p)) ELSE d[p]]

(* Owned() finds these buffers. *)
LEMMA Counted ==
  ASSUME NEW d, NEW pos \in Places, NEW k \in 0 .. RingSize, NEW n \in 1 .. FrameBuffers,
         Split(d, pos, k)
  PROVE  /\ Taking(k, n) \in 0 .. n /\ Taking(k, n) <= RingSize - k
         /\ Owned(d, Place(pos, k), n) = Taking(k, n)
<1> DEFINE m == Taking(k, n)
           q == Place(pos, k)
<1>1. RingSize \in Nat /\ n \in Nat /\ n < RingSize /\ n > 0 /\ n \in 0 .. RingSize
  BY RingIs
<1>2. m \in 0 .. n /\ m <= RingSize - k
  BY <1>1 DEF Taking
<1>3. q \in Places
  BY PlaceIs
<1>4. ASSUME NEW i \in 0 .. m - 1 PROVE d[Place(q, i)].own = TRUE
  <2>1. i \in 0 .. RingSize /\ k + i <= RingSize /\ k + i \in k .. RingSize - 1
    BY <1>1, <1>2
  <2>2. Place(q, i) = Place(pos, k + i)
    BY <2>1, PlacesAdd
  <2> QED
    BY <2>1, <2>2 DEF Split
<1>5. CASE m = n
  BY <1>1, <1>2, <1>3, <1>4, <1>5, OwnedIs
<1>6. CASE m # n
  <2>1. m = RingSize - k /\ k > 0 /\ m \in 0 .. RingSize
    BY <1>1, <1>6 DEF Taking
  <2>2. Place(q, m) = Place(pos, RingSize)
    <3>1. k + m = RingSize
      BY <1>1, <2>1
    <3> QED
      BY <1>1, <2>1, <3>1, PlacesAdd
  <2>3. Place(pos, RingSize) = Place(pos, 0) /\ 0 \in 0 .. k - 1
    BY <1>1, <2>1, RingIs DEF Place
  <2>4. d[Place(q, m)].own = FALSE
    BY <2>2, <2>3 DEF Split
  <2> HIDE DEF m, q
  <2> QED
    BY <1>1, <1>2, <1>3, <1>4, <2>4, OwnedIs DEF m, q
<1> QED
  BY <1>2, <1>5, <1>6

(* What lance_receive_packet() leaves of LANCE and ring when it uses m     *)
(* buffers.                                                                *)
Got(l, d, f, m) ==
  IF m = 0
  THEN [lance |-> Checked([l EXCEPT !.flags = @ \cup {"MISS", "RINT"}]), rxd |-> d]
  ELSE [lance |-> Checked([l EXCEPT !.flags = @ \cup {"RINT"}, !.rxpos = After(@, m)]),
        rxd |-> Written(d, l.rxpos, f, m)]

(* Receive() in those terms. *)
LEMMA ReceiveIs ==
  ASSUME NEW l, NEW d, NEW f, l.rxpos \in Places, l.rxon = TRUE, NEW m \in Int,
         m = Owned(d, l.rxpos, f.size)
  PROVE  Receive([lance |-> l, rxd |-> d], f)
           = Got(l, d, f, m)
<1>1. \A p \in Places : (p - l.rxpos) % RingSize = Offset(l.rxpos, p)
  BY OffsetIs
<1>2. Written(d, l.rxpos, f, m)
        = [p \in Places |-> LET i == (p - l.rxpos) % RingSize IN IF i < m THEN Slot(f, m, i) ELSE d[p]]
  BY <1>1 DEF Written
<1>3. CASE m = 0
  <2> DEFINE x == Checked([l EXCEPT !.flags = @ \cup {"MISS", "RINT"}])
  <2>1. Receive([lance |-> l, rxd |-> d], f) = [[lance |-> l, rxd |-> d] EXCEPT !.lance = x]
    BY <1>3 DEF Receive
  <2> HIDE DEF x
  <2>2. [[lance |-> l, rxd |-> d] EXCEPT !.lance = x] = [lance |-> x, rxd |-> d]
    OBVIOUS
  <2> QED
    BY <1>3, <2>1, <2>2 DEF x, Got
<1>4. CASE m # 0
  BY <1>2, <1>4 DEF Receive, Slot, Got
<1> QED
  BY <1>3, <1>4

(* The ring with the frame in it, place by place from the firmware's. *)
LEMMA WrittenIs ==
  ASSUME NEW d, NEW pos \in Places, NEW k \in 0 .. RingSize, NEW f, NEW m \in 0 .. RingSize - k
  PROVE  \A j \in 0 .. RingSize - 1 :
           Written(d, Place(pos, k), f, m)[Place(pos, j)]
             = IF k <= j /\ j < k + m THEN Slot(f, m, j - k) ELSE d[Place(pos, j)]
<1>1. RingSize \in Nat
  BY RingIs
<1> SUFFICES ASSUME NEW j \in 0 .. RingSize - 1
             PROVE  Written(d, Place(pos, k), f, m)[Place(pos, j)]
                      = IF k <= j /\ j < k + m THEN Slot(f, m, j - k) ELSE d[Place(pos, j)]
  OBVIOUS
<1>2. Place(pos, j) \in Places
  BY <1>1, PlaceIs
<1>3. Offset(Place(pos, k), Place(pos, j)) = IF j >= k THEN j - k ELSE j - k + RingSize
  BY OffsetAdds
<1>4. Written(d, Place(pos, k), f, m)[Place(pos, j)]
        = IF Offset(Place(pos, k), Place(pos, j)) < m
          THEN Slot(f, m, Offset(Place(pos, k), Place(pos, j))) ELSE d[Place(pos, j)]
  BY <1>2 DEF Written
<1>5. CASE j >= k
  BY <1>1, <1>3, <1>4, <1>5
<1>6. CASE j < k
  <2>1. ~(j - k + RingSize < m) /\ ~(k <= j) /\ ~(j >= k)
    BY <1>1, <1>6
  <2> QED
    BY <1>3, <1>4, <2>1
<1> QED
  BY <1>1, <1>5, <1>6

(* A frame that gets a buffer is added to those the firmware will find,    *)
(* whole or with the error mark.                                           *)
LEMMA FrameAdded ==
  ASSUME NEW v, v.rx \in Places, v.taken \in Nat, NEW d \in [Places -> Descriptor],
         NEW k \in 0 .. RingSize,
         NEW W \in SUBSET Nat, NEW f \in NewFrame, Filled(v, d, k, W \cup {f.frame}),
         v.taken < f.frame, \A w \in W : f.frame < w,
         NEW m \in Int, m = Taking(k, f.size), m # 0
  PROVE  /\ k + m \in 0 .. RingSize
         /\ Written(d, Place(v.rx, k), f, m) \in [Places -> Descriptor]
         /\ Filled(v, Written(d, Place(v.rx, k), f, m), k + m, W)
<1> DEFINE d2 == Written(d, Place(v.rx, k), f, m)
           There(i) == Place(v.rx, i)
<1>1. /\ RingSize \in Nat /\ f.size \in Nat /\ f.size > 0 /\ f.frame \in Nat
      /\ m \in 0 .. RingSize - k /\ m > 0 /\ m <= f.size /\ (m = f.size \/ m < f.size)
  BY RingIs DEF NewFrame, Taking
<1>2. k + m \in 0 .. RingSize
  BY <1>1
<1>3. \A j \in 0 .. RingSize - 1 :
        d2[There(j)] = IF k <= j /\ j < k + m THEN Slot(f, m, j - k) ELSE d[There(j)]
  BY <1>1, WrittenIs
<1>4. d2 \in [Places -> Descriptor]
  <2>1. ASSUME NEW p \in Places
        PROVE  d2[p] = IF Offset(Place(v.rx, k), p) < m
             THEN Slot(f, m, Offset(Place(v.rx, k), p)) ELSE d[p]
    BY DEF Written
  <2>2. ASSUME NEW p \in Places, NEW o \in 0 .. RingSize - 1 PROVE Slot(f, m, o) \in Descriptor
    BY <1>1, <2>2 DEF Slot, Descriptor
  <2>3. ASSUME NEW p \in Places PROVE Offset(Place(v.rx, k), p) \in 0 .. RingSize - 1
    BY PlaceIs, OffsetIs
  <2>4. ASSUME NEW p \in Places PROVE d2[p] \in Descriptor
    BY <2>1, <2>2, <2>3
  <2> QED
    BY <2>4 DEF Written
<1> HIDE DEF d2, There
<1>6. \A j \in 0 .. k - 1 : j \in 0 .. RingSize - 1 /\ d2[There(j)] = d[There(j)]
  BY <1>1, <1>3
<1>7. \A j \in 0 .. m - 1 : k + j \in 0 .. RingSize - 1 /\ d2[There(k + j)] = Slot(f, m, j)
  <2> SUFFICES ASSUME NEW j \in 0 .. m - 1
               PROVE  k + j \in 0 .. RingSize - 1 /\ d2[There(k + j)] = Slot(f, m, j)
    OBVIOUS
  <2>1. k + j \in 0 .. RingSize - 1 /\ k <= k + j /\ k + j < k + m /\ (k + j) - k = j
    BY <1>1
  <2> QED
    BY <1>3, <2>1
<1>5. /\ \A j \in 0 .. (k + m) - 1 : d2[There(j)].own = FALSE
      /\ \A j \in k + m .. RingSize - 1 : d2[There(j)].own = TRUE
  <2>1. ASSUME NEW j \in 0 .. (k + m) - 1 PROVE d2[There(j)].own = FALSE
    <3>1. CASE j < k
      <4>1. j \in 0 .. k - 1
        BY <1>1, <3>1
      <4> QED
        BY <1>6, <4>1 DEF Filled, Split, There
    <3>2. CASE j >= k
      <4>1. PICK i \in 0 .. m - 1 : j = k + i
        <5>1. j - k \in 0 .. m - 1 /\ j = k + (j - k)
          BY <1>1, <3>2
        <5> QED
          BY <5>1
      <4>2. d2[There(j)] = Slot(f, m, i)
        BY <1>7, <4>1
      <4> QED
        BY <4>2 DEF Slot
    <3>3. j < k \/ j >= k
      BY <1>1
    <3> QED
      BY <3>1, <3>2, <3>3
  <2>2. ASSUME NEW j \in k + m .. RingSize - 1 PROVE d2[There(j)].own = TRUE
    <3>1. j \in k .. RingSize - 1 /\ j \in 0 .. RingSize - 1 /\ ~(j < k + m)
      BY <1>1
    <3>2. d2[There(j)] = d[There(j)]
      BY <1>3, <3>1
    <3> QED
      BY <3>1, <3>2 DEF Filled, Split, There
  <2> QED
    BY <2>1, <2>2
<1>8. /\ \A i \in 0 .. k : FrameAt(v, d2, i) = FrameAt(v, d, i) /\ PartAt(v, d2, i) = PartAt(v, d, i)
      /\ \A j \in 1 .. m : FrameAt(v, d2, k + j) = f.frame
           /\ PartAt(v, d2, k + j) = PartAfter(Slot(f, m, j - 1))
  <2>1. ASSUME NEW i \in 0 .. k
        PROVE FrameAt(v, d2, i) = FrameAt(v, d, i) /\ PartAt(v, d2, i) = PartAt(v, d, i)
    <3>1. CASE i = 0
      BY <3>1 DEF FrameAt, PartAt
    <3>2. CASE i > 0
      <4>1. i - 1 \in 0 .. k - 1 /\ i # 0
        BY <1>1, <3>2
      <4> QED
        BY <1>6, <4>1 DEF FrameAt, PartAt, There
    <3> QED
      BY <3>1, <3>2
  <2>2. ASSUME NEW j \in 1 .. m
        PROVE  FrameAt(v, d2, k + j) = f.frame /\ PartAt(v, d2, k + j) = PartAfter(Slot(f, m, j - 1))
    <3>1. j - 1 \in 0 .. m - 1 /\ k + j # 0 /\ (k + j) - 1 = k + (j - 1)
      BY <1>1
    <3>2. d2[There((k + j) - 1)] = Slot(f, m, j - 1)
      BY <1>7, <3>1
    <3>3. Slot(f, m, j - 1).frame = f.frame
      BY DEF Slot
    <3> QED
      BY <3>1, <3>2, <3>3 DEF FrameAt, PartAt, There
  <2> QED
    BY <2>1, <2>2
<1>9. PartAt(v, d2, k + m) = -1
  <2>1. m \in 1 .. m
    BY <1>1
  <2>2. Slot(f, m, m - 1).enp \/ Slot(f, m, m - 1).err
    BY <1>1 DEF Slot
  <2> QED
    BY <1>8, <2>1, <2>2 DEF PartAfter
<1>10. ASSUME NEW i \in 0 .. (k + m) - 1 PROVE Fits(FrameAt(v, d2, i), PartAt(v, d2, i), d2[There(i)])
  <2>1. CASE i < k
    <3>1. i \in 0 .. k - 1 /\ i \in 0 .. k
      BY <1>1, <2>1
    <3> QED
      BY <1>6, <1>8, <3>1 DEF Filled, There
  <2>2. CASE i = k
    <3>1. 0 \in 0 .. m - 1 /\ k + 0 = i /\ k \in 0 .. k
      BY <1>1, <2>2
    <3>2. d2[There(i)] = Slot(f, m, 0)
      BY <1>7, <3>1
    <3>3. PartAt(v, d2, i) = -1
      BY <1>8, <2>2, <3>1 DEF Filled
    <3>4. FrameAt(v, d, k) < f.frame
      <4>1. CASE k = 0
        BY <4>1 DEF FrameAt
      <4>2. CASE k > 0
        <5>1. k - 1 \in 0 .. k - 1 /\ k # 0
          BY <1>1, <4>2
        <5> QED
          BY <5>1 DEF Filled, FrameAt
      <4> QED
        BY <4>1, <4>2
    <3>5. FrameAt(v, d2, i) = FrameAt(v, d, k)
      BY <1>8, <2>2, <3>1
    <3>6. Slot(f, m, 0).stp = TRUE /\ Slot(f, m, 0).part = 0 /\ Slot(f, m, 0).frame = f.frame
      BY DEF Slot
    <3> QED
      BY <3>2, <3>3, <3>4, <3>5, <3>6 DEF Fits
  <2>3. CASE i > k
    <3>1. PICK j \in 1 .. m - 1 : i = k + j
      <4>1. i - k \in 1 .. m - 1 /\ i = k + (i - k)
        BY <1>1, <2>3
      <4> QED
        BY <4>1
    <3>2. j \in 0 .. m - 1 /\ j \in 1 .. m /\ j # 0 /\ j - 1 # f.size - 1 /\ j - 1 # m - 1
             /\ (j - 1) + 1 = j /\ j # -1
      BY <1>1
    <3>3. d2[There(i)] = Slot(f, m, j)
      BY <1>7, <3>1, <3>2
    <3>4. FrameAt(v, d2, i) = f.frame /\ PartAt(v, d2, i) = PartAfter(Slot(f, m, j - 1))
      BY <1>8, <3>1, <3>2
    <3>5. PartAfter(Slot(f, m, j - 1)) = j
      BY <3>2 DEF PartAfter, Slot
    <3>6. Slot(f, m, j).stp = FALSE /\ Slot(f, m, j).part = j /\ Slot(f, m, j).frame = f.frame
      BY <3>2 DEF Slot
    <3> QED
      BY <3>2, <3>3, <3>4, <3>5, <3>6 DEF Fits
  <2> QED
    BY <1>1, <2>1, <2>2, <2>3
<1>11. ASSUME NEW i \in 0 .. (k + m) - 1, NEW w \in W PROVE d2[There(i)].frame < w
  <2>1. CASE i < k
    <3>1. i \in 0 .. k - 1
      BY <1>1, <2>1
    <3> QED
      BY <1>6, <3>1 DEF Filled, There
  <2>2. CASE i >= k
    <3>1. PICK j \in 0 .. m - 1 : i = k + j
      <4>1. i - k \in 0 .. m - 1 /\ i = k + (i - k)
        BY <1>1, <2>2
      <4> QED
        BY <4>1
    <3>2. d2[There(i)] = Slot(f, m, j) /\ Slot(f, m, j).frame = f.frame
      BY <1>7, <3>1 DEF Slot
    <3> QED
      BY <3>2
  <2> QED
    BY <1>1, <2>1, <2>2
<1> QED
  BY <1>2, <1>4, <1>5, <1>9, <1>10, <1>11 DEF Filled, Split, There, d2

(* lance_check_interrupts() makes the line agree and changes nothing else. *)
LEMMA CheckedIs ==
  ASSUME NEW l \in LanceState, l.rxon <=> ~l.stop, l.txon <=> ~l.stop
  PROVE  /\ LanceOK(Checked(l))
         /\ Checked(l).stop = l.stop /\ Checked(l).pending = l.pending
         /\ Checked(l).rxpos = l.rxpos /\ Checked(l).txpos = l.txpos
  BY DEF Checked, LanceOK, LanceState

(* Filled() for fewer frames to come. *)
LEMMA FilledFewer ==
  ASSUME NEW v, NEW d, NEW k, NEW W, NEW V \in SUBSET W, Filled(v, d, k, W)
  PROVE  Filled(v, d, k, V)
  BY DEF Filled

(* LANCE and ring as a record, and in agreement with the firmware's view. *)
Held(v, s, W) ==
  /\ s = [lance |-> s.lance, rxd |-> s.rxd] /\ LanceOK(s.lance) /\ s.rxd \in [Places -> Descriptor]
  /\ RxGood(v, s.lance, s.rxd, W)

(* The next frame to receive is later than those taken and before those of *)
(* W.                                                                      *)
Receives(v, l, d, W, f) ==
  /\ v.rx \in Places /\ v.taken \in Nat /\ d \in [Places -> Descriptor] /\ W \in SUBSET Nat
  /\ f \in NewFrame /\ LanceOK(l) /\ RxGood(v, l, d, W \cup {f.frame})
  /\ v.taken < f.frame /\ \A w \in W : f.frame < w

(* How to show Held(). *)
LEMMA HeldIs ==
  ASSUME NEW v, NEW l, NEW d, NEW W, LanceOK(l), d \in [Places -> Descriptor], RxGood(v, l, d, W),
         NEW r, r = [lance |-> l, rxd |-> d]
  PROVE  Held(v, r, W) /\ r.lance = l
<1>1. r.lance = l /\ r.rxd = d
  OBVIOUS
<1> QED
  BY <1>1 DEF Held

(* lance_receive_packet() keeps the ring in agreement, whether it stores   *)
(* the frame, marks it or misses it.                                       *)
LEMMA ReceiveKeepsBoth ==
  ASSUME NEW v, NEW l, NEW d, NEW W, NEW f, Receives(v, l, d, W, f),
         NEW r, r = Receive([lance |-> l, rxd |-> d], f)
  PROVE  /\ Held(v, r, W) /\ r.lance.stop = l.stop /\ r.lance.pending = l.pending
         /\ r.lance.txpos = l.txpos
<1> USE DEF Receives
<1>0. l \in LanceState /\ (l.rxon <=> ~l.stop) /\ (l.txon <=> ~l.stop) /\ l.rxpos \in Places
  BY DEF LanceOK, LanceState
<1>1. CASE l.stop
  <2>1. ~l.rxon
    BY <1>0, <1>1
  <2>2. Receive([lance |-> l, rxd |-> d], f) = [lance |-> l, rxd |-> d]
    BY <2>1 DEF Receive
  <2>3. RxGood(v, l, d, W) /\ LanceOK(l) /\ d \in [Places -> Descriptor]
    BY <1>1 DEF RxGood
  <2>4. Held(v, r, W) /\ r.lance = l
    BY <2>2, <2>3, HeldIs
  <2> QED
    BY <2>4
<1>2. CASE ~l.stop
  <2>1. PICK k \in 0 .. RingSize : Filled(v, d, k, W \cup {f.frame}) /\ l.rxpos = Place(v.rx, k)
    BY <1>2 DEF RxGood
  <2>2. l.rxon = TRUE
    BY <1>0, <1>2 DEF LanceState
  <2>3. PICK m \in Int : m = Taking(k, f.size)
    BY RingIs DEF Taking, NewFrame
  <2>4. Split(d, v.rx, k)
    BY <2>1 DEF Filled
  <2>5. f.size \in 1 .. FrameBuffers
    BY DEF NewFrame
  <2>6. Owned(d, l.rxpos, f.size) = m
    <3>1. PICK n \in 1 .. FrameBuffers : n = f.size
      BY <2>5
    <3>2. Owned(d, Place(v.rx, k), n) = Taking(k, n)
      BY <2>4, Counted
    <3> QED
      BY <2>1, <2>3, <3>1, <3>2
  <2>7. Receive([lance |-> l, rxd |-> d], f)
           = Got(l, d, f, m)
    BY <1>0, <2>2, <2>6, ReceiveIs
  <2>8. CASE m = 0
    <3> DEFINE l1 == [l EXCEPT !.flags = @ \cup {"MISS", "RINT"}]
    <3>1. /\ l1 \in LanceState /\ (l1.rxon <=> ~l1.stop) /\ (l1.txon <=> ~l1.stop)
          /\ l1.stop = l.stop /\ l1.pending = l.pending /\ l1.txpos = l.txpos /\ l1.rxpos = l.rxpos
      BY <1>0 DEF LanceState
    <3>2. Receive([lance |-> l, rxd |-> d], f) = [lance |-> Checked(l1), rxd |-> d]
      BY <2>7, <2>8 DEF Got
    <3> HIDE DEF l1
    <3>3. /\ LanceOK(Checked(l1)) /\ Checked(l1).stop = l1.stop /\ Checked(l1).pending = l1.pending
          /\ Checked(l1).rxpos = l1.rxpos /\ Checked(l1).txpos = l1.txpos
      BY <3>1, CheckedIs
    <3>4. Filled(v, d, k, W)
      BY <2>1, FilledFewer
    <3>5. RxGood(v, Checked(l1), d, W)
      BY <2>1, <3>1, <3>3, <3>4 DEF RxGood
    <3>6. Held(v, r, W) /\ r.lance = Checked(l1)
      BY <3>2, <3>3, <3>5, HeldIs
    <3> QED
      BY <3>1, <3>3, <3>6
  <2>9. CASE m # 0
    <3>1. /\ k + m \in 0 .. RingSize
          /\ Written(d, Place(v.rx, k), f, m) \in [Places -> Descriptor]
          /\ Filled(v, Written(d, Place(v.rx, k), f, m), k + m, W)
      BY <2>1, <2>3, <2>9, FrameAdded
    <3>2. k + m <= RingSize /\ m \in 0 .. RingSize
      BY <2>3, <2>9, <3>1, RingIs DEF Taking, NewFrame
    <3>3. After(l.rxpos, m) = Place(l.rxpos, m) /\ Place(l.rxpos, m) \in Places
      BY <1>0, <3>2, PlaceIs
    <3>4. Place(l.rxpos, m) = Place(v.rx, k + m)
      BY <2>1, <3>2, PlacesAdd
    <3> DEFINE l1 == [l EXCEPT !.flags = @ \cup {"RINT"}, !.rxpos = After(@, m)]
               d2 == Written(d, l.rxpos, f, m)
    <3>5. /\ l1 \in LanceState /\ (l1.rxon <=> ~l1.stop) /\ (l1.txon <=> ~l1.stop)
          /\ l1.stop = l.stop /\ l1.pending = l.pending /\ l1.txpos = l.txpos
          /\ l1.rxpos = Place(v.rx, k + m)
      BY <1>0, <3>3, <3>4 DEF LanceState
    <3>6. Receive([lance |-> l, rxd |-> d], f) = [lance |-> Checked(l1), rxd |-> d2]
      BY <2>7, <2>9 DEF Got
    <3>7. d2 \in [Places -> Descriptor] /\ Filled(v, d2, k + m, W)
      BY <2>1, <3>1
    <3> HIDE DEF l1, d2
    <3>8. /\ LanceOK(Checked(l1)) /\ Checked(l1).stop = l1.stop /\ Checked(l1).pending = l1.pending
          /\ Checked(l1).rxpos = l1.rxpos /\ Checked(l1).txpos = l1.txpos
      BY <3>5, CheckedIs
    <3>9. RxGood(v, Checked(l1), d2, W)
      BY <3>1, <3>5, <3>7, <3>8 DEF RxGood
    <3>10. Held(v, r, W) /\ r.lance = Checked(l1)
      BY <3>6, <3>7, <3>8, <3>9, HeldIs
    <3> QED
      BY <3>5, <3>8, <3>10
  <2> QED
    BY <2>8, <2>9
<1> QED
  BY <1>1, <1>2

(* Frame f is the next one: the firmware has taken none after it. *)
Comes(v, W, f) ==
  /\ v.rx \in Places /\ v.taken \in Nat /\ W \in SUBSET Nat /\ f \in NewFrame
  /\ v.taken < f.frame /\ \A w \in W : f.frame < w

(* ReceiveKeepsBoth for a record. *)
LEMMA ReceiveKeeps ==
  ASSUME NEW v, NEW W, NEW f, Comes(v, W, f), NEW s, Held(v, s, W \cup {f.frame}),
         NEW r, r = Receive(s, f)
  PROVE  /\ Held(v, r, W)
         /\ r.lance.stop = s.lance.stop /\ r.lance.pending = s.lance.pending
         /\ r.lance.txpos = s.lance.txpos
<1>1. PICK l, d : l = s.lance /\ d = s.rxd /\ s = [lance |-> l, rxd |-> d]
  BY DEF Held
<1>2. Receives(v, l, d, W, f)
  BY <1>1 DEF Held, Receives, Comes
<1>3. r = Receive([lance |-> l, rxd |-> d], f)
  BY <1>1
<1>4. /\ Held(v, r, W) /\ r.lance.stop = l.stop /\ r.lance.pending = l.pending
      /\ r.lance.txpos = l.txpos
  BY <1>2, <1>3, ReceiveKeepsBoth
<1> QED
  BY <1>1, <1>4

(* A set of naturals has a least element. *)
LEMMA LeastNatural ==
  ASSUME NEW T \in SUBSET Nat, T # {}
  PROVE  \E x \in T : \A y \in T : x <= y
<1> DEFINE R == OpToRel(<, Nat)
<1>1. R = {ss \in Nat \X Nat : ss[1] < ss[2]}
  BY DEF OpToRel
<1>2. IsWellFoundedOn(R, Nat)
  BY NatLessThanWellFounded
<1> HIDE DEF R
<1>3. PICK x \in T : \A y \in T : ~ (<<y, x>> \in R)
  BY <1>2, WFMin
<1>4. \A y \in T : y < x => <<y, x>> \in R
  BY <1>1
<1>5. \A y \in T : x \in Nat /\ y \in Nat /\ ~ (y < x)
  BY <1>3, <1>4
<1> QED
  BY <1>5

(* A set that has 0 and the successor of each of its elements below N has  *)
(* all up to N.                                                            *)
LEMMA InductionTo ==
  ASSUME NEW P, NEW N \in Nat, 0 \in P, \A n \in 0 .. N - 1 : n \in P => n + 1 \in P
  PROVE  0 .. N \subseteq P
<1> DEFINE T == (0 .. N) \ P
<1> SUFFICES ASSUME T # {} PROVE FALSE
  OBVIOUS
<1>0. T \in SUBSET Nat
  OBVIOUS
<1> HIDE DEF T
<1>1. PICK x \in T : \A y \in T : x <= y
  BY <1>0, LeastNatural
<1>2. x \in 0 .. N /\ x # 0 /\ x - 1 \in 0 .. N - 1 /\ (x - 1) + 1 = x /\ ~(x <= x - 1)
  BY <1>1 DEF T
<1>3. x - 1 \in P
  BY <1>1, <1>2 DEF T
<1> QED
  BY <1>1, <1>2, <1>3 DEF T

(* The recursive function of Clock: it exists and obeys its equation. *)
LEMMA ReceivedIs ==
  ASSUME rxQueue \in Seq(NewFrame)
  PROVE  /\ Received[0] = [lance |-> lance, rxd |-> rxd]
         /\ \A n \in 1 .. Len(rxQueue) : Received[n] = Receive(Received[n - 1], rxQueue[n])
<1> DEFINE N == Len(rxQueue)
           s0 == [lance |-> lance, rxd |-> rxd]
           Runs(n, g) == g = [i \in 0 .. n |-> IF i = 0 THEN s0 ELSE Receive(g[i - 1], rxQueue[i])]
           P == {n \in 0 .. N : \E g : Runs(n, g)}
<1>0. N \in Nat
  OBVIOUS
<1> HIDE DEF N
<1>1. 0 \in P
  <2>0. 0 \in 0 .. N
    BY <1>0
  <2>1. Runs(0, [i \in 0 .. 0 |-> s0])
    <3>1. \A i \in 0 .. 0 : i = 0
      OBVIOUS
    <3> HIDE DEF s0
    <3> QED
      BY <3>1
  <2> HIDE DEF Runs
  <2> QED
    BY <2>0, <2>1
<1>2. ASSUME NEW n \in 0 .. N - 1, n \in P PROVE n + 1 \in P
  <2>1. PICK g : Runs(n, g)
    BY <1>2
  <2> DEFINE h == [i \in 0 .. n + 1 |-> IF i <= n THEN g[i] ELSE Receive(g[n], rxQueue[n + 1])]
  <2>2. ASSUME NEW i \in 0 .. n + 1
        PROVE  h[i] = IF i = 0 THEN s0 ELSE Receive(h[i - 1], rxQueue[i])
    <3>1. CASE i <= n
      <4>1. i \in 0 .. n /\ h[i] = g[i]
        BY <1>0, <3>1
      <4>2. i # 0 => i - 1 \in 0 .. n + 1 /\ i - 1 <= n
        BY <1>0, <3>1
      <4>3. i # 0 => h[i - 1] = g[i - 1]
        BY <4>2
      <4> QED
        BY <2>1, <4>1, <4>3
    <3>2. CASE ~(i <= n)
      <4>1. i = n + 1 /\ i # 0 /\ i - 1 = n /\ n \in 0 .. n + 1 /\ n <= n
        BY <1>0, <3>2
      <4> QED
        BY <3>2, <4>1
    <3> QED
      BY <3>1, <3>2
  <2>3. h = [i \in 0 .. n + 1 |-> h[i]]
    OBVIOUS
  <2> HIDE DEF h
  <2>4. Runs(n + 1, h)
    BY <2>2, <2>3
  <2>5. n + 1 \in 0 .. N
    BY <1>0
  <2> HIDE DEF Runs
  <2> QED
    BY <2>4, <2>5
<1>3. N \in P
  <2> HIDE DEF P, Runs, s0
  <2>1. \A n \in 0 .. N - 1 : n \in P => n + 1 \in P
    BY <1>2
  <2>2. 0 .. N \subseteq P
    BY <1>0, <1>1, <2>1, InductionTo
  <2> QED
    BY <1>0, <2>2
<1>4. \E g : Runs(N, g)
  BY <1>3
<1>5. Received = CHOOSE g : Runs(N, g)
  BY DEF Received, N
<1>6. Runs(N, Received)
  <2> HIDE DEF Runs
  <2> QED
    BY <1>4, <1>5
<1>7. 0 \in 0 .. N /\ \A n \in 1 .. N : n \in 0 .. N /\ n # 0
  BY <1>0
<1> QED
  BY <1>6, <1>7 DEF N

(* Frames that still wait when n of the queue have been received. *)
WaitingFrom(n) == {rxQueue[i].frame : i \in n + 1 .. Len(rxQueue)}
                     \cup Frames(hostRing) \cup {NextFrame}

(* Frames are numbers. *)
LEMMA FramesAre ==
  ASSUME NEW q \in Seq(NewFrame)
  PROVE  Frames(q) \in SUBSET Nat /\ \A i \in 1 .. Len(q) : q[i] \in NewFrame /\ q[i].frame \in Nat
<1>1. \A i \in 1 .. Len(q) : q[i] \in NewFrame
  OBVIOUS
<1>2. \A f \in NewFrame : f.frame \in Nat
  BY DEF NewFrame
<1> QED
  BY <1>1, <1>2 DEF Frames

(* lance_clock() empties the whole queue in agreement, by induction over   *)
(* its frames.                                                             *)
LEMMA ReceivedKeeps ==
  ASSUME EthTypes, Queued, RxGood(View, lance, rxd, Coming)
  PROVE  LET r == Received[Len(rxQueue)] IN
           /\ Held(View, r, Frames(hostRing) \cup {NextFrame}) /\ r.lance.stop = lance.stop
           /\ r.lance.pending = lance.pending /\ r.lance.txpos = lance.txpos
<1>0. PICK v : v = View
  OBVIOUS
<1> DEFINE Stay(n) == /\ Held(v, Received[n], WaitingFrom(n)) /\ Received[n].lance.stop = lance.stop
                      /\ Received[n].lance.pending = lance.pending
                      /\ Received[n].lance.txpos = lance.txpos
           N == Len(rxQueue)
           P == {n \in 0 .. N : Stay(n)}
<1>1. /\ v.rx \in Places /\ v.taken \in Nat /\ rxQueue \in Seq(NewFrame)
      /\ hostRing \in Seq(NewFrame) /\ N \in Nat
      /\ LanceOK(lance) /\ rxd \in [Places -> Descriptor]
  BY <1>0 DEF EthTypes, View
<1>2. /\ Received[0] = [lance |-> lance, rxd |-> rxd]
      /\ \A n \in 1 .. N : Received[n] = Receive(Received[n - 1], rxQueue[n])
  BY <1>1, ReceivedIs
<1> HIDE DEF N
<1>3. 0 \in P
  <2>1. WaitingFrom(0) = Coming
    BY DEF WaitingFrom, Waiting, Frames, Coming
  <2>2. Stay(0)
    BY <1>0, <1>1, <1>2, <2>1 DEF Held
  <2>3. 0 \in 0 .. N
    BY <1>1
  <2> HIDE DEF Stay
  <2> QED
    BY <2>2, <2>3
<1>4. ASSUME NEW n \in 0 .. N - 1, n \in P PROVE n + 1 \in P
  <2>1. Stay(n)
    BY <1>4
  <2> DEFINE f == rxQueue[n + 1]
             W == WaitingFrom(n + 1)
  <2>2. n + 1 \in 1 .. N /\ n + 1 \in 0 .. N /\ (n + 1) - 1 = n
    BY <1>1
  <2>3. f \in NewFrame /\ f.frame \in Frames(rxQueue)
    BY <1>1, <2>2, FramesAre DEF Frames, N
  <2>4. W \in SUBSET Nat
    <3>1. \A i \in (n + 1) + 1 .. Len(rxQueue) : i \in 1 .. Len(rxQueue)
      BY <1>1 DEF N
    <3>2. \A i \in (n + 1) + 1 .. Len(rxQueue) : rxQueue[i].frame \in Nat
      BY <1>1, <3>1, FramesAre
    <3> QED
      BY <1>1, <3>2, FramesAre, SMTT(40) DEF WaitingFrom, NextFrame, EthTypes
  <2>5. WaitingFrom(n) = W \cup {f.frame}
    <3>1. n + 1 .. Len(rxQueue) = ((n + 1) + 1 .. Len(rxQueue)) \cup {n + 1}
      BY <1>1, <2>2 DEF N
    <3> QED
      BY <3>1 DEF WaitingFrom
  <2>6. v.taken < f.frame
    BY <1>0, <2>3 DEF Queued, Waiting, View
  <2>7. \A w \in W : f.frame < w
    <3>1. ASSUME NEW i \in (n + 1) + 1 .. Len(rxQueue) PROVE f.frame < rxQueue[i].frame
      <4>1. i \in 1 .. Len(rxQueue) /\ n + 1 \in 1 .. Len(rxQueue) /\ n + 1 < i
        BY <1>1, <2>2 DEF N
      <4> QED
        BY <4>1 DEF Queued, Rises
    <3>2. \A w \in Frames(hostRing) : f.frame < w
      BY <2>3 DEF Queued
    <3>3. f.frame < NextFrame
      <4>1. f.frame <= wire.came
        BY <2>3 DEF Queued, Waiting
      <4>2. f.frame \in Nat /\ wire.came \in Nat
        BY <2>3 DEF NewFrame, EthTypes
      <4> QED
        BY <4>1, <4>2 DEF NextFrame
    <3> QED
      BY <3>1, <3>2, <3>3 DEF WaitingFrom
  <2>8. /\ Received[n + 1] = Receive(Received[n], f) /\ Held(v, Received[n], W \cup {f.frame})
        /\ Received[n].lance.stop = lance.stop /\ Received[n].lance.pending = lance.pending
        /\ Received[n].lance.txpos = lance.txpos
    BY <1>2, <2>1, <2>2, <2>5
  <2> HIDE DEF f, W
  <2>9. /\ Held(v, Received[n + 1], W)
        /\ Received[n + 1].lance.stop = Received[n].lance.stop
        /\ Received[n + 1].lance.pending = Received[n].lance.pending
        /\ Received[n + 1].lance.txpos = Received[n].lance.txpos
    <3>1. Comes(v, W, f)
      BY <1>1, <2>3, <2>4, <2>6, <2>7 DEF Comes
    <3> QED
      BY <2>8, <3>1, ReceiveKeeps
  <2>10. Stay(n + 1)
    BY <2>8, <2>9 DEF W
  <2> HIDE DEF Stay
  <2> QED
    BY <2>2, <2>10
<1>5. N \in P
  <2> HIDE DEF P, Stay
  <2>1. \A n \in 0 .. N - 1 : n \in P => n + 1 \in P
    BY <1>4
  <2>2. 0 .. N \subseteq P
    BY <1>1, <1>3, <2>1, InductionTo
  <2> QED
    BY <1>1, <2>2
<1>6. Stay(N)
  BY <1>5
<1>7. WaitingFrom(N) = Frames(hostRing) \cup {NextFrame}
  BY <1>1 DEF WaitingFrom, N
<1> QED
  BY <1>0, <1>6, <1>7 DEF N
-----------------------------------------------------------------------------
(* The offset that Place(q, n) and i more have from q, when that is more   *)
(* than a round.                                                           *)
LEMMA PlacesAround ==
  ASSUME NEW q \in Places, NEW n \in 0 .. RingSize, NEW i \in 0 .. RingSize, n + i >= RingSize
  PROVE  Place(Place(q, n), i) = Place(q, n + i - RingSize)
<1>1. q \in Int /\ 0 <= q /\ q < RingSize /\ RingSize \in Nat
  BY RingIs
<1> QED
  BY <1>1 DEF Place

(* How many places from q on are the LANCE's: Owned() finds their number.  *)
LEMMA OwnedUpTo ==
  ASSUME NEW d \in [Places -> Descriptor], NEW q \in Places, NEW k \in 0 .. RingSize,
         \A i \in 0 .. k - 1 : d[Place(q, i)].own = TRUE
  PROVE  /\ Owned(d, q, RingSize) \in k .. RingSize
         /\ \A i \in 0 .. Owned(d, q, RingSize) - 1 : d[Place(q, i)].own = TRUE
<1> DEFINE T == {x \in 0 .. RingSize : x = RingSize \/ d[Place(q, x)].own = FALSE}
<1>1. RingSize \in Nat /\ \A i \in 0 .. RingSize : Place(q, i) \in Places
  BY RingIs, PlaceIs
<1>2. T \in SUBSET Nat /\ RingSize \in T
  BY <1>1
<1>3. \A x \in T : x \in 0 .. RingSize /\ (x = RingSize \/ d[Place(q, x)].own = FALSE)
  OBVIOUS
<1>4. \A x \in 0 .. RingSize - 1 : x \notin T => d[Place(q, x)].own = TRUE
  BY <1>1 DEF Descriptor
<1> HIDE DEF T
<1>5. PICK x \in T : \A y \in T : x <= y
  BY <1>2, LeastNatural
<1>6. x \in 0 .. RingSize /\ \A i \in 0 .. x - 1 : d[Place(q, i)].own = TRUE
  <2>1. x \in 0 .. RingSize
    BY <1>3, <1>5
  <2>2. ASSUME NEW i \in 0 .. x - 1 PROVE d[Place(q, i)].own = TRUE
    <3>1. i \in 0 .. RingSize - 1 /\ i \notin T
      BY <1>1, <1>5, <2>1
    <3> QED
      BY <1>4, <3>1
  <2> QED
    BY <2>1, <2>2
<1>7. x >= k
  <2> SUFFICES ASSUME x < k PROVE FALSE
    BY <1>6
  <2>1. x \in 0 .. k - 1 /\ x # RingSize
    BY <1>1, <1>6
  <2> QED
    BY <1>3, <1>5, <2>1
<1>8. Owned(d, q, RingSize) = x
  <2>1. RingSize \in 0 .. RingSize /\ (x = RingSize \/ d[Place(q, x)].own = FALSE)
    BY <1>1, <1>3, <1>5
  <2> QED
    BY <1>6, <2>1, OwnedIs
<1> QED
  BY <1>1, <1>6, <1>7, <1>8

(* The transmitter finds the last buffer of the first frame.               *)
LEMMA GivenIs ==
  ASSUME NEW l, l.txpos \in Places, txd \in [Places -> Descriptor], NEW k \in 1 .. RingSize,
         \A i \in 0 .. k - 1 : txd[Place(l.txpos, i)].own = TRUE,
         txd[Place(l.txpos, k - 1)].enp = TRUE
  PROVE  \E n \in 1 .. k : Given(l) = n /\ txd[Place(l.txpos, n - 1)].enp = TRUE
<1> DEFINE q == l.txpos
           own == Owned(txd, q, RingSize)
           ends == {i \in 0 .. own - 1 : txd[After(q, i)].enp}
<1>1. RingSize \in Nat /\ k \in 0 .. RingSize /\ k - 1 \in 0 .. k - 1
  BY RingIs
<1>2. own \in k .. RingSize
  BY <1>1, OwnedUpTo
<1>3. \A i \in 0 .. own - 1 : After(q, i) = Place(q, i) /\ Place(q, i) \in Places
  <2>1. \A i \in 0 .. own - 1 : i \in 0 .. RingSize
    BY <1>1, <1>2
  <2> QED
    BY <2>1, PlaceIs
<1>4. Given(l) = IF ends = {} THEN own ELSE 1 + CHOOSE i \in ends : \A j \in ends : i <= j
  BY DEF Given
<1> HIDE DEF q, own
<1>5. k - 1 \in ends /\ ends \in SUBSET Nat
  <2>1. k - 1 \in 0 .. own - 1
    BY <1>1, <1>2
  <2> QED
    BY <1>3, <2>1 DEF q
<1>6. \A i \in ends : i \in 0 .. own - 1 /\ txd[Place(q, i)].enp = TRUE
  BY <1>3 DEF Descriptor
<1> HIDE DEF ends
<1>7. PICK m \in ends : \A j \in ends : m <= j
  BY <1>5, LeastNatural
<1>8. (CHOOSE i \in ends : \A j \in ends : i <= j) = m
  <2>1. \A i \in ends : (\A j \in ends : i <= j) => i = m
    BY <1>5, <1>7
  <2> QED
    BY <1>7, <2>1
<1>9. m \in 0 .. k - 1 /\ Given(l) = m + 1
  <2>1. m <= k - 1 /\ m \in Nat
    BY <1>5, <1>7
  <2>2. ends # {}
    BY <1>5
  <2>3. Given(l) = 1 + m
    BY <1>4, <1>8, <2>2
  <2> QED
    BY <1>1, <2>1, <2>3
<1>10. PICK n : n = m + 1
  OBVIOUS
<1>11. n \in 1 .. k /\ n - 1 = m
  BY <1>9, <1>10
<1>12. txd[Place(l.txpos, n - 1)].enp = TRUE
  BY <1>6, <1>7, <1>11 DEF q
<1> QED
  BY <1>9, <1>10, <1>11, <1>12

(* The types of a view of the transmit ring. *)
ViewOK(w) ==
  /\ w.tx \in Places /\ w.fill \in 0 .. FrameBuffers /\ w.left \in 0 .. FrameBuffers
  /\ w.unasked \in Nat /\ w.last \in Nat /\ w.made \in Nat

(* A view after a poll: the firmware's frame in hand is as it was.         *)
AfterPoll(w, u, last) ==
  /\ ViewOK(u) /\ u.tx = w.tx /\ u.fill = w.fill /\ u.left = w.left /\ u.made = w.made
  /\ u.last = last /\ u.unasked >= w.unasked - 1

(* The first frame is sent: its n buffers are the firmware's again.        *)
FirstSent(w, d, pos, k, n, d2) ==
  /\ ViewOK(w) /\ d \in [Places -> Descriptor] /\ pos \in Places
  /\ k \in 0 .. RingSize /\ n \in 1 .. k
  /\ TxHolds(w, d, pos, k) /\ d[Place(pos, n - 1)].enp = TRUE
  /\ \A i \in 0 .. n - 1 : d2[Place(pos, i)].own = FALSE
  /\ \A i \in n .. RingSize - 1 : d2[Place(pos, i)] = d[Place(pos, i)]

(* Those behind it remain, one less to be asked for.                       *)
LEMMA FirstGone ==
  ASSUME NEW w, NEW d, NEW pos, NEW k, NEW n, NEW d2, FirstSent(w, d, pos, k, n, d2),
         NEW u, AfterPoll(w, u, d[pos].frame)
  PROVE  TxHolds(u, d2, Place(pos, n), k - n) /\ k - n \in 0 .. RingSize
<1>1. /\ RingSize \in Nat /\ k \in 0 .. RingSize /\ n \in 1 .. k /\ pos \in Places
      /\ n \in 0 .. RingSize /\ k - n \in 0 .. RingSize /\ n - 1 \in 0 .. k - 1 /\ 0 \in 0 .. k - 1
  BY RingIs DEF FirstSent
<1>2. Place(pos, 0) = pos
  BY <1>1, RingIs DEF Place
<1>3. ASSUME NEW i \in 0 .. RingSize - 1, i + n < RingSize
      PROVE  /\ Place(Place(pos, n), i) = Place(pos, i + n)
             /\ d2[Place(Place(pos, n), i)] = d[Place(pos, i + n)]
  <2>1. i \in 0 .. RingSize /\ n + i <= RingSize /\ n + i = i + n /\ i + n \in n .. RingSize - 1
    BY <1>1, <1>3
  <2>2. Place(Place(pos, n), i) = Place(pos, n + i)
    BY <1>1, <2>1, PlacesAdd
  <2> QED
    BY <2>1, <2>2 DEF FirstSent
<1>4. ASSUME NEW i \in 0 .. RingSize - 1, i + n >= RingSize
      PROVE  d2[Place(Place(pos, n), i)].own = FALSE
  <2>1. i \in 0 .. RingSize /\ n + i >= RingSize /\ n + i - RingSize \in 0 .. n - 1
    BY <1>1, <1>4
  <2>2. Place(Place(pos, n), i) = Place(pos, n + i - RingSize)
    BY <1>1, <2>1, PlacesAround
  <2> QED
    BY <2>1, <2>2 DEF FirstSent
<1>5. Done(u) = Done(w) /\ u.left = w.left /\ u.fill = w.fill /\ u.made = w.made /\ u.tx = w.tx
  BY DEF AfterPoll, Done
<1>6. Done(w) \in Int /\ w.unasked \in Nat /\ u.unasked \in Nat /\ u.unasked >= w.unasked - 1
  BY DEF FirstSent, AfterPoll, ViewOK, Done
<1> DEFINE f == d[pos].frame
           e(i) == d[Place(pos, i)]
<1>7. FramesReady(w, d, pos, k) /\ Behind(w, d, pos, k) /\ w.tx = Place(pos, k)
      /\ (w.left > 0 => w.left <= w.fill /\ k + w.fill <= RingSize)
  BY DEF FirstSent, TxHolds
<1>8. \A i \in 0 .. RingSize : Place(pos, i) \in Places /\ e(i) \in Descriptor
  <2>1. d \in [Places -> Descriptor]
    BY DEF FirstSent
  <2> QED
    BY <1>1, <2>1, PlaceIs
<1>9. f \in Nat /\ Done(w) - w.unasked < f
  <2>1. e(0) \in Descriptor /\ e(0) = d[pos]
    BY <1>1, <1>2, <1>8
  <2>2. Done(w) - w.unasked < e(0).frame
    BY <1>1, <1>7 DEF FramesReady
  <2> QED
    BY <2>1, <2>2 DEF Descriptor
<1>10. ASSUME NEW j \in n .. k - 1 PROVE f < e(j).frame /\ e(j).frame \in Nat
  <2>1. j \in 0 .. k - 1 /\ n - 1 < j /\ j \in 0 .. RingSize /\ n - 1 \in 0 .. RingSize /\ 0 \in 0 .. RingSize
    BY <1>1
  <2>2. e(n - 1).frame < e(j).frame
    <3>1. e(n - 1).enp = TRUE
      BY DEF FirstSent
    <3> QED
      BY <1>1, <1>7, <2>1, <3>1 DEF FramesReady
  <2>3. f <= e(n - 1).frame
    <3>1. CASE n - 1 = 0
      BY <1>1, <1>2, <1>8, <1>9, <3>1
    <3>2. CASE n - 1 # 0
      <4>1. 0 < n - 1
        BY <1>1, <3>2
      <4>2. e(0).frame <= e(n - 1).frame
        BY <1>1, <1>7, <4>1 DEF FramesReady
      <4> QED
        BY <1>2, <4>2
    <3> QED
      BY <3>1, <3>2
  <2>4. e(j).frame \in Nat /\ e(n - 1).frame \in Nat
    BY <1>8, <2>1 DEF Descriptor
  <2> QED
    BY <1>9, <2>2, <2>3, <2>4
<1>11. \A i \in 0 .. k - n - 1 : /\ i \in 0 .. RingSize - 1 /\ i + n < RingSize
                                 /\ i + n \in n .. k - 1 /\ i + n \in 0 .. k - 1
  BY <1>1
<1>12. \A i \in 0 .. k - n - 1 : d2[Place(Place(pos, n), i)] = e(i + n)
  BY <1>3, <1>11
<1>13. FramesReady(u, d2, Place(pos, n), k - n)
  <2>1. ASSUME NEW i \in 0 .. k - n - 1
        PROVE  /\ e(i + n).own = TRUE /\ u.last < e(i + n).frame
               /\ Done(u) - u.unasked < e(i + n).frame /\ e(i + n).frame <= Done(u)
    <3>1. i + n \in n .. k - 1 /\ i + n \in 0 .. k - 1
      BY <1>11
    <3>2. e(i + n).own = TRUE /\ e(i + n).frame <= Done(w)
      BY <1>7, <3>1 DEF FramesReady
    <3>3. f < e(i + n).frame /\ e(i + n).frame \in Nat
      BY <1>10, <3>1
    <3>4. Done(w) - u.unasked < e(i + n).frame
      BY <1>6, <1>9, <3>3
    <3>5. u.last = f
      BY DEF AfterPoll
    <3> QED
      BY <1>5, <3>2, <3>3, <3>4, <3>5
  <2>2. ASSUME NEW i \in 0 .. k - n - 1, i = 0 PROVE e(i + n).stp = TRUE
    <3>1. n \in 0 .. k - 1 /\ n = (n - 1) + 1 /\ i + n = n
      BY <1>1, <2>2
    <3>2. e(n - 1).enp = TRUE
      BY DEF FirstSent
    <3>3. e(n).stp = TRUE
      BY <1>1, <1>7, <3>1, <3>2 DEF FramesReady
    <3> QED
      BY <3>1, <3>3
  <2>3. ASSUME NEW i \in 0 .. k - n - 1, i = k - n - 1 PROVE e(i + n).enp = TRUE
    <3>1. i + n = k - 1 /\ i + n \in 0 .. k - 1
      BY <1>1, <2>3
    <3> QED
      BY <1>7, <3>1 DEF FramesReady
  <2>4. ASSUME NEW i \in 0 .. k - n - 1, NEW j \in 0 .. k - n - 1
        PROVE  /\ i < j => e(i + n).frame <= e(j + n).frame
               /\ i < j /\ e(i + n).enp = TRUE => e(i + n).frame < e(j + n).frame
               /\ j = i + 1 /\ e(i + n).enp = TRUE => e(j + n).stp = TRUE
    <3>1. i + n \in 0 .. k - 1 /\ j + n \in 0 .. k - 1
      BY <1>11
    <3>2. (i < j => i + n < j + n) /\ (j = i + 1 => j + n = (i + n) + 1)
      BY <1>1
    <3>3. PICK x, y : x = i + n /\ y = j + n
      OBVIOUS
    <3>4. /\ x < y => e(x).frame <= e(y).frame
          /\ x < y /\ e(x).enp = TRUE => e(x).frame < e(y).frame
          /\ y = x + 1 /\ e(x).enp = TRUE => e(y).stp = TRUE
      BY <1>7, <3>1, <3>3 DEF FramesReady
    <3> QED
      BY <3>2, <3>3, <3>4
  <2> HIDE DEF e
  <2> QED
    BY <1>12, <2>1, <2>2, <2>3, <2>4 DEF FramesReady
<1>14. Behind(u, d2, Place(pos, n), k - n)
  <2> SUFFICES ASSUME NEW i \in k - n .. RingSize - 1
               PROVE  /\ InHand(u, i - (k - n))
                           => Prepared(d2[Place(Place(pos, n), i)], i - (k - n), u.fill, u.made)
                      /\ ~InHand(u, i - (k - n)) => d2[Place(Place(pos, n), i)].own = FALSE
    BY DEF Behind
  <2>1. i \in 0 .. RingSize - 1
    BY <1>1
  <2>2. CASE i + n < RingSize
    <3>1. i + n \in k .. RingSize - 1 /\ (i + n) - k = i - (k - n)
      BY <1>1, <2>2
    <3>2. PICK x, j : x = i + n /\ j = i - (k - n)
      OBVIOUS
    <3>3. /\ InHand(w, j) => Prepared(d[Place(pos, x)], j, w.fill, w.made)
          /\ ~InHand(w, j) => d[Place(pos, x)].own = FALSE
      BY <1>7, <3>1, <3>2 DEF Behind
    <3>4. d2[Place(Place(pos, n), i)] = d[Place(pos, x)]
      BY <1>3, <2>1, <2>2, <3>2
    <3>5. InHand(u, j) = InHand(w, j)
      BY <1>5 DEF InHand
    <3> QED
      BY <1>5, <3>2, <3>3, <3>4, <3>5
  <2>3. CASE i + n >= RingSize
    <3>1. d2[Place(Place(pos, n), i)].own = FALSE
      BY <1>4, <2>1, <2>3
    <3>2. ~InHand(u, i - (k - n))
      <4>1. w.left > 0 => k + w.fill <= RingSize
        BY <1>7
      <4>2. w.fill \in Nat
        BY RingIs DEF FirstSent, ViewOK
      <4>3. i - (k - n) = i + n - k
        BY <1>1
      <4> QED
        BY <1>1, <1>5, <2>3, <4>1, <4>2, <4>3 DEF InHand
    <3> QED
      BY <3>1, <3>2
  <2>4. i + n < RingSize \/ i + n >= RingSize
    BY <1>1, <2>1
  <2> QED
    BY <2>2, <2>3, <2>4
<1>15. u.tx = Place(Place(pos, n), k - n)
  <2>1. n + (k - n) <= RingSize /\ n + (k - n) = k
    BY <1>1
  <2>2. Place(Place(pos, n), k - n) = Place(pos, n + (k - n))
    BY <1>1, <2>1, PlacesAdd
  <2> QED
    BY <1>5, <1>7, <2>1, <2>2
<1>16. u.left > 0 => u.left <= u.fill /\ (k - n) + u.fill <= RingSize
  <2>1. w.fill \in Nat
    BY RingIs DEF FirstSent, ViewOK
  <2> QED
    BY <1>1, <1>5, <1>7, <2>1
<1> QED
  BY <1>1, <1>13, <1>14, <1>15, <1>16 DEF TxHolds

(* Nothing was sent because nothing is there: that remains so.             *)
LEMMA NothingThere ==
  ASSUME NEW w, NEW d, NEW pos, TxHolds(w, d, pos, 0), NEW u, NEW last, AfterPoll(w, u, last)
  PROVE  TxHolds(u, d, pos, 0)
<1>1. u.left = w.left /\ u.fill = w.fill /\ u.made = w.made /\ u.tx = w.tx
  BY DEF AfterPoll
<1>2. FramesReady(u, d, pos, 0)
  <2>1. 0 .. 0 - 1 = {}
    OBVIOUS
  <2> QED
    BY <2>1 DEF FramesReady
<1>3. Behind(u, d, pos, 0)
  BY <1>1 DEF TxHolds, Behind, InHand
<1> QED
  BY <1>1, <1>2, <1>3 DEF TxHolds

(* lance_transmit_poll() sends the first frame that is there, whole, or    *)
(* leaves the ring alone: what then holds of it whether or not the poll    *)
(* was asked for, and what it leaves of the history.                       *)
TxFollows == \A u : AfterPoll(TxView, u, wire'.last) => TxGood(u, lance', txd')
WireAfter ==
  \E sent \in Nat, last \in Nat :
    wire' = [wire EXCEPT !.sent = sent, !.last = last] /\ last <= Done(TxView)

(* The type of the history. *)
WireState ==
  [came : Nat, made : Nat, sent : Nat, last : Nat, whole : BOOLEAN, taken : Nat,
   part : Nat \cup {-1}]

(* The view of the transmit ring has its type, and what it depends on.     *)
LEMMA ViewIs ==
  ASSUME EthTypes
  PROVE  /\ ViewOK(TxView) /\ TxView.tx = fw.tx /\ TxView.fill = fw.fill /\ TxView.left = fw.left
         /\ TxView.unasked = fw.unasked /\ TxView.last = wire.last /\ TxView.made = wire.made
  BY DEF EthTypes, TxView, ViewOK

(* TxGood() depends on a view by its fields. *)
LEMMA ViewSame ==
  ASSUME NEW w, NEW l, NEW d, TxGood(w, l, d), NEW u, u.tx = w.tx, u.fill = w.fill,
         u.left = w.left, u.unasked = w.unasked, u.last = w.last, u.made = w.made
  PROVE  TxGood(u, l, d)
<1>1. Done(u) = Done(w) /\ \A j : InHand(u, j) = InHand(w, j)
  BY DEF Done, InHand
<1>2. ASSUME NEW pos, NEW k, TxHolds(w, d, pos, k) PROVE TxHolds(u, d, pos, k)
  <2>1. FramesReady(u, d, pos, k)
    BY <1>1, <1>2 DEF TxHolds, FramesReady
  <2>2. Behind(u, d, pos, k)
    BY <1>1, <1>2 DEF TxHolds, Behind
  <2> QED
    BY <1>2, <2>1, <2>2 DEF TxHolds
<1> QED
  BY <1>2 DEF TxGood

(* A poll that finds nothing. *)
LEMMA NothingPolled ==
  ASSUME EthTypes, AllWhole, NEW l, LanceOK(l), TxGood(TxView, l, txd),
         l.stop = TRUE \/ TxHolds(TxView, txd, l.txpos, 0),
         lance' = l, txd' = txd, wire' = wire
  PROVE  TxFollows /\ WireAfter
<1>1. TxFollows
  <2> SUFFICES ASSUME NEW u, AfterPoll(TxView, u, wire'.last) PROVE TxGood(u, l, txd)
    BY DEF TxFollows
  <2>1. CASE l.stop = TRUE
    BY <2>1 DEF TxGood
  <2>2. CASE TxHolds(TxView, txd, l.txpos, 0)
    <3>1. TxHolds(u, txd, l.txpos, 0)
      BY <2>2, NothingThere
    <3>2. 0 \in 0 .. RingSize
      BY RingIs
    <3> QED
      BY <3>1, <3>2 DEF TxGood
  <2> QED
    BY <2>1, <2>2
<1>2. wire \in WireState
  BY DEF EthTypes, WireState
<1>3. wire = [wire EXCEPT !.sent = wire.sent, !.last = wire.last] /\ wire.sent \in Nat
      /\ wire.last \in Nat
  BY <1>2 DEF WireState
<1>4. WireAfter
  <2>1. wire.last <= Done(TxView)
    BY DEF AllWhole
  <2> QED
    BY <1>3, <2>1, Zenon DEF WireAfter
<1> QED
  BY <1>1, <1>4

(* What a poll does that finds a frame of n buffers.                       *)
SendsFirst(l, n, d2) ==
  /\ lance' = [l EXCEPT !.txpos = Place(l.txpos, n), !.flags = @ \cup {"TINT"},
                        !.txon = TRUE, !.irq = l.inea]
  /\ d2 \in [Places -> Descriptor]
  /\ \A i \in 0 .. n - 1 : d2[Place(l.txpos, i)].own = FALSE
  /\ \A i \in n .. RingSize - 1 : d2[Place(l.txpos, i)] = txd[Place(l.txpos, i)]
  /\ wire' = [wire EXCEPT !.sent = @ + 1, !.last = txd[l.txpos].frame]
  /\ txd[Place(l.txpos, n - 1)].enp = TRUE

(* The first frame of the ring is what it finds. *)
LEMMA FirstPolled ==
  ASSUME EthTypes, AllWhole, NEW l, LanceOK(l), l.stop = FALSE, NEW k \in 1 .. RingSize,
         TxHolds(TxView, txd, l.txpos, k), Polls(l)
  PROVE  /\ \E n \in 1 .. k : SendsFirst(l, n, txd')
         /\ txd[l.txpos].frame \in Nat /\ txd[l.txpos].frame <= Done(TxView)
<1> DEFINE q == l.txpos
<1>1. /\ l \in LanceState /\ q \in Places /\ l.txon = TRUE
  BY DEF LanceOK, LanceState
<1>2. txd \in [Places -> Descriptor] /\ wire \in WireState /\ RingSize \in Nat /\ RingSize > 0
  BY RingIs DEF EthTypes, WireState
<1>3. Place(q, 0) = q /\ 0 \in 0 .. k - 1 /\ k - 1 \in 0 .. k - 1
  BY <1>1, RingIs DEF Place
<1>4. FramesReady(TxView, txd, q, k)
  BY DEF TxHolds
<1>5. /\ txd[q].own = TRUE /\ txd[q].stp = TRUE /\ TxView.last < txd[q].frame
      /\ txd[q].frame <= Done(TxView)
  <2>1. /\ txd[Place(q, 0)].own = TRUE /\ TxView.last < txd[Place(q, 0)].frame
        /\ txd[Place(q, 0)].frame <= Done(TxView)
    BY <1>3, <1>4 DEF FramesReady
  <2>2. txd[Place(q, 0)].stp = TRUE
    BY <1>3, <1>4 DEF FramesReady
  <2> QED
    BY <1>3, <2>1, <2>2
<1>6. txd[q].frame \in Nat
  BY <1>1, <1>2 DEF Descriptor
<1>7. PICK n \in 1 .. k : Given(l) = n /\ txd[Place(q, n - 1)].enp = TRUE
  <2>1. \A i \in 0 .. k - 1 : txd[Place(q, i)].own = TRUE
    BY <1>4 DEF FramesReady
  <2>2. txd[Place(q, k - 1)].enp = TRUE
    BY <1>3, <1>4 DEF FramesReady
  <2> QED
    BY <1>1, <1>2, <2>1, <2>2, GivenIs
<1>8. After(q, n) = Place(q, n) /\ Place(q, n) \in Places /\ After(q, n - 1) = Place(q, n - 1)
      /\ n \in 0 .. RingSize
  <2>1. n \in 0 .. RingSize /\ n - 1 \in 0 .. RingSize
    BY <1>2
  <2> QED
    BY <1>1, <2>1, PlaceIs
<1>9. /\ lance' = [l EXCEPT !.txpos = After(@, Given(l)), !.flags = @ \cup {"TINT"},
                            !.txon = txd[After(q, Given(l) - 1)].enp, !.irq = l.inea]
      /\ txd' = [p \in Places |-> LET i == (p - q) % RingSize
                                  IN [txd[p] EXCEPT !.own = @ /\ i >= Given(l)]]
      /\ wire' = [wire EXCEPT !.sent = @ + 1, !.last = txd[q].frame,
                           !.whole = @ /\ txd[After(q, Given(l) - 1)].enp
                                       /\ txd[q].frame > wire.last]
  BY <1>1, <1>5 DEF Polls
<1>10. lance' = [l EXCEPT !.txpos = Place(q, n), !.flags = @ \cup {"TINT"},
                          !.txon = TRUE, !.irq = l.inea]
  BY <1>7, <1>8, <1>9
<1>11. txd' = [p \in Places |-> LET i == (p - q) % RingSize IN [txd[p] EXCEPT !.own = @ /\ i >= n]]
  BY <1>7, <1>9
<1>12. wire' = [wire EXCEPT !.sent = @ + 1, !.last = txd[q].frame]
  <2>1. wire' = [wire EXCEPT !.sent = @ + 1, !.last = txd[q].frame,
                          !.whole = @ /\ TRUE /\ txd[q].frame > wire.last]
    BY <1>7, <1>8, <1>9
  <2>2. wire.whole = TRUE /\ txd[q].frame > wire.last /\ wire.last \in Nat
    BY <1>2, <1>5, <1>6 DEF AllWhole, TxView, WireState
  <2>3. (wire.whole /\ TRUE /\ txd[q].frame > wire.last) = TRUE
    BY <2>2
  <2>4. wire' = [wire EXCEPT !.sent = @ + 1, !.last = txd[q].frame, !.whole = TRUE]
    BY <2>1, <2>3
  <2> QED
    BY <1>2, <2>2, <2>4 DEF WireState
<1>13. ASSUME NEW p \in Places, NEW i \in 0 .. RingSize - 1, (p - q) % RingSize = i
       PROVE  txd'[p] \in Descriptor /\ (i < n => txd'[p].own = FALSE) /\ (i >= n => txd'[p] = txd[p])
  <2>1. txd'[p] = [txd[p] EXCEPT !.own = @ /\ i >= n] /\ txd[p] \in Descriptor
    BY <1>2, <1>11, <1>13
  <2> HIDE DEF Places
  <2>2. PICK e : e = txd[p]
    OBVIOUS
  <2>3. CASE i >= n
    <3>1. (e.own /\ i >= n) = e.own
      BY <2>1, <2>2, <2>3 DEF Descriptor
    <3>2. txd'[p] = [e EXCEPT !.own = e.own] /\ e \in Descriptor
      BY <2>1, <2>2, <3>1
    <3>3. txd'[p] = e
      BY <3>2 DEF Descriptor
    <3> QED
      BY <2>1, <2>2, <2>3, <3>3
  <2>4. CASE ~(i >= n)
    <3>1. txd'[p] = [txd[p] EXCEPT !.own = FALSE]
      BY <2>1, <2>4
    <3> QED
      BY <2>1, <2>4, <3>1 DEF Descriptor
  <2> QED
    BY <2>3, <2>4
<1>14. txd' \in [Places -> Descriptor]
  <2>1. \A p \in Places : txd'[p] \in Descriptor
    <3> SUFFICES ASSUME NEW p \in Places PROVE txd'[p] \in Descriptor
      OBVIOUS
    <3>1. (p - q) % RingSize \in 0 .. RingSize - 1
      BY <1>1, OffsetIs
    <3> QED
      BY <1>13, <3>1
  <2> QED
    BY <1>11, <2>1
<1>15. ASSUME NEW i \in 0 .. RingSize - 1
       PROVE  /\ i < n => txd'[Place(q, i)].own = FALSE
              /\ i >= n => txd'[Place(q, i)] = txd[Place(q, i)]
  <2>1. Place(q, i) \in Places /\ Offset(q, Place(q, i)) = i
    BY <1>1, OffsetOf
  <2>2. (Place(q, i) - q) % RingSize = i
    BY <1>1, <2>1, OffsetIs
  <2>3. PICK p \in Places : p = Place(q, i)
    BY <2>1
  <2>4. /\ i < n => txd'[p].own = FALSE
        /\ i >= n => txd'[p] = txd[p]
    BY <1>13, <2>2, <2>3
  <2> QED
    BY <2>3, <2>4
<1>16. SendsFirst(l, n, txd')
  <2>1. \A i \in 0 .. n - 1 : i \in 0 .. RingSize - 1 /\ i < n
    BY <1>2, <1>8
  <2>2. \A i \in n .. RingSize - 1 : i \in 0 .. RingSize - 1 /\ i >= n
    BY <1>2, <1>8
  <2> QED
    BY <1>7, <1>10, <1>12, <1>14, <1>15, <2>1, <2>2 DEF SendsFirst
<1> QED
  BY <1>5, <1>6, <1>16

(* lance_transmit_poll() keeps the ring in agreement. *)
LEMMA PollsKeeps ==
  ASSUME EthTypes, AllWhole, NEW l, LanceOK(l), TxGood(TxView, l, txd), Polls(l)
  PROVE  /\ LanceOK(lance') /\ txd' \in [Places -> Descriptor]
         /\ lance'.stop = l.stop /\ lance'.rxpos = l.rxpos /\ TxFollows /\ WireAfter
<1>1. l \in LanceState /\ l.stop \in BOOLEAN /\ l.txpos \in Places /\ (l.txon <=> ~l.stop)
      /\ txd \in [Places -> Descriptor]
  BY DEF LanceOK, LanceState, EthTypes
<1>2. ASSUME ~l.txon \/ ~txd[l.txpos].own PROVE lance' = l /\ txd' = txd /\ wire' = wire
  BY <1>2 DEF Polls
<1>3. CASE l.stop = TRUE
  <2>1. lance' = l /\ txd' = txd /\ wire' = wire
    BY <1>1, <1>2, <1>3
  <2> QED
    BY <1>1, <1>3, <2>1, NothingPolled
<1>4. CASE l.stop = FALSE
  <2>1. PICK k \in 0 .. RingSize : TxHolds(TxView, txd, l.txpos, k)
    BY <1>4 DEF TxGood
  <2>2. CASE k = 0
    <3>1. 0 \in 0 .. RingSize - 1 /\ Place(l.txpos, 0) = l.txpos /\ 0 - 0 = 0
      BY <1>1, RingIs DEF Place
    <3>2. ~InHand(TxView, 0)
      <4>1. TxView.left \in Int
        BY ViewIs, RingIs DEF ViewOK
      <4> QED
        BY <4>1 DEF InHand
    <3>3. txd[l.txpos].own = FALSE
      BY <2>1, <2>2, <3>1, <3>2 DEF TxHolds, Behind
    <3>4. lance' = l /\ txd' = txd /\ wire' = wire
      BY <1>2, <3>3
    <3>5. TxHolds(TxView, txd, l.txpos, 0)
      BY <2>1, <2>2
    <3> QED
      BY <1>1, <3>4, <3>5, NothingPolled
  <2>3. CASE k # 0
    <3>1. k \in 1 .. RingSize /\ ViewOK(TxView)
      BY <2>3, ViewIs
    <3>2. /\ \E n \in 1 .. k : SendsFirst(l, n, txd')
          /\ txd[l.txpos].frame \in Nat /\ txd[l.txpos].frame <= Done(TxView)
      BY <1>4, <2>1, <3>1, FirstPolled
    <3>3. PICK n \in 1 .. k : SendsFirst(l, n, txd')
      BY <3>2
    <3>4. Place(l.txpos, n) \in Places
      <4>1. n \in 0 .. RingSize
        BY RingIs
      <4> QED
        BY <1>1, <4>1, PlaceIs
    <3>5. LanceOK(lance') /\ lance'.stop = l.stop /\ lance'.rxpos = l.rxpos
          /\ lance'.txpos = Place(l.txpos, n)
      <4>1. lance' = [l EXCEPT !.txpos = Place(l.txpos, n), !.flags = @ \cup {"TINT"},
                               !.txon = TRUE, !.irq = l.inea]
        BY <3>3 DEF SendsFirst
      <4>2. l.inea \in BOOLEAN /\ "TINT" \in l.flags \cup {"TINT"} /\ l.flags \cup {"TINT"} # {}
        BY <1>1 DEF LanceState
      <4>3. (l.rxon <=> ~l.stop) /\ l.txon = TRUE
        BY <1>1, <1>4 DEF LanceOK, LanceState
      <4> QED
        BY <1>1, <1>4, <3>4, <4>1, <4>2, <4>3 DEF LanceOK, LanceState
    <3>6. wire \in WireState
      BY DEF EthTypes, WireState
    <3>7. wire' = [wire EXCEPT !.sent = wire.sent + 1, !.last = txd[l.txpos].frame]
      BY <3>3 DEF SendsFirst
    <3>8. WireAfter
      <4>1. wire.sent + 1 \in Nat
        BY <3>6 DEF WireState
      <4> QED
        BY <3>2, <3>7, <4>1, Zenon DEF WireAfter
    <3>9. TxFollows
      <4> SUFFICES ASSUME NEW u, AfterPoll(TxView, u, wire'.last) PROVE TxGood(u, lance', txd')
        BY DEF TxFollows
      <4>1. wire'.last = txd[l.txpos].frame
        BY <3>6, <3>7 DEF WireState
      <4>2. FirstSent(TxView, txd, l.txpos, k, n, txd')
        BY <1>1, <2>1, <3>1, <3>3 DEF SendsFirst, FirstSent
      <4>3. TxHolds(u, txd', Place(l.txpos, n), k - n) /\ k - n \in 0 .. RingSize
        BY <4>1, <4>2, FirstGone
      <4> QED
        BY <3>5, <4>3 DEF TxGood
    <3> QED
      BY <3>3, <3>5, <3>8, <3>9 DEF SendsFirst
  <2> QED
    BY <2>2, <2>3
<1> QED
  BY <1>1, <1>3, <1>4
-----------------------------------------------------------------------------
(* RxGood() for fewer frames to come and a LANCE at the same place. *)
LEMMA RxSame ==
  ASSUME NEW v, NEW l, NEW d, NEW W, NEW V \in SUBSET W, RxGood(v, l, d, W),
         NEW k, k.stop = l.stop, k.rxpos = l.rxpos
  PROVE  RxGood(v, k, d, V)
<1>1. CASE l.stop
  BY <1>1 DEF RxGood
<1>2. CASE ~l.stop
  <2>1. PICK n \in 0 .. RingSize : Filled(v, d, n, W) /\ l.rxpos = Place(v.rx, n)
    BY <1>2 DEF RxGood
  <2>2. Filled(v, d, n, V)
    BY <2>1, FilledFewer
  <2> QED
    BY <2>1, <2>2 DEF RxGood
<1> QED
  BY <1>1, <1>2

(* A queue cut in two. *)
Halves(q, n, a, b) ==
  /\ q \in Seq(NewFrame) /\ n \in 0 .. Len(q) /\ Rises(q)
  /\ a = SubSeq(q, 1, n) /\ b = SubSeq(q, n + 1, Len(q))

(* Both halves rise, the first before the second. *)
LEMMA QueueSplit ==
  ASSUME NEW q, NEW n, NEW a, NEW b, Halves(q, n, a, b)
  PROVE  /\ a \in Seq(NewFrame) /\ b \in Seq(NewFrame) /\ Rises(a) /\ Rises(b)
         /\ \A x \in Frames(a), y \in Frames(b) : x < y
         /\ Frames(a) \subseteq Frames(q) /\ Frames(b) \subseteq Frames(q)
<1>0. /\ q \in Seq(NewFrame) /\ n \in 0 .. Len(q) /\ Rises(q)
      /\ a = SubSeq(q, 1, n) /\ b = SubSeq(q, n + 1, Len(q)) /\ Len(q) \in Nat
  BY DEF Halves
<1>1. /\ a \in Seq(NewFrame) /\ Len(a) = n /\ \A i \in 1 .. n : a[i] = q[i]
      /\ b \in Seq(NewFrame) /\ Len(b) = Len(q) - n /\ \A i \in 1 .. Len(q) - n : b[i] = q[n + i]
  BY <1>0
<1>2. \A i \in 1 .. n : i \in 1 .. Len(q)
  BY <1>0
<1>3. \A i \in 1 .. Len(q) - n : n + i \in 1 .. Len(q)
  BY <1>0
<1>4. Rises(a)
  BY <1>0, <1>1, <1>2 DEF Rises
<1>5. Rises(b)
  <2> SUFFICES ASSUME NEW i \in 1 .. Len(b), NEW j \in 1 .. Len(b), i < j
               PROVE  b[i].frame < b[j].frame
    BY DEF Rises
  <2>1. b[i] = q[n + i] /\ b[j] = q[n + j] /\ n + i < n + j
           /\ n + i \in 1 .. Len(q) /\ n + j \in 1 .. Len(q)
    <3>1. i \in 1 .. Len(q) - n /\ j \in 1 .. Len(q) - n
      BY <1>1
    <3>2. b[i] = q[n + i] /\ b[j] = q[n + j]
      BY <1>1, <3>1, Zenon
    <3>3. n + i \in 1 .. Len(q) /\ n + j \in 1 .. Len(q)
      BY <1>3, <3>1, Zenon
    <3>4. n \in Nat /\ i \in Nat /\ j \in Nat
      BY <1>0, <1>1
    <3>5. n + i < n + j
      BY <3>4
    <3> QED
      BY <3>2, <3>3, <3>5, Zenon
  <2> QED
    BY <1>0, <2>1 DEF Rises
<1>6. ASSUME NEW i \in 1 .. Len(a), NEW j \in 1 .. Len(b) PROVE a[i].frame < b[j].frame
  <2>1. a[i] = q[i] /\ b[j] = q[n + j] /\ i \in 1 .. Len(q) /\ n + j \in 1 .. Len(q) /\ i < n + j
    BY <1>0, <1>1, <1>2, <1>3
  <2> QED
    BY <1>0, <2>1 DEF Rises
<1>7. Frames(a) \subseteq Frames(q) /\ Frames(b) \subseteq Frames(q)
  <2>1. \A i \in 1 .. Len(a) : i \in 1 .. Len(q) /\ a[i].frame = q[i].frame
    BY <1>0, <1>1, <1>2
  <2>2. \A j \in 1 .. Len(b) : n + j \in 1 .. Len(q) /\ b[j].frame = q[n + j].frame
    BY <1>0, <1>1, <1>3
  <2> QED
    BY <2>1, <2>2, Zenon DEF Frames
<1>8. \A x \in Frames(a), y \in Frames(b) : x < y
  BY <1>6 DEF Frames
<1> QED
  BY <1>1, <1>4, <1>5, <1>7, <1>8

(* The transmit ring after a step in which the firmware asks for no poll.  *)
TxStays ==
  \A u : AfterPoll(TxView, u, wire'.last) /\ u.unasked = TxView.unasked => TxGood(u, lance', txd')

(* lance_clock() keeps both rings in agreement. *)
LEMMA ClockKeeps ==
  ASSUME EthInv, Clock
  PROVE  /\ LanceOK(lance') /\ rxd' \in [Places -> Descriptor] /\ txd' \in [Places -> Descriptor]
         /\ lance'.stop = lance.stop /\ RxGood(View, lance', rxd', Frames(hostRing) \cup {NextFrame})
         /\ TxStays /\ WireAfter
<1> DEFINE N == Len(rxQueue)
<1>1. PICK r : r = Received[N]
  OBVIOUS
<1>2. /\ Held(View, r, Frames(hostRing) \cup {NextFrame}) /\ r.lance.stop = lance.stop
      /\ r.lance.pending = lance.pending /\ r.lance.txpos = lance.txpos
  BY <1>1, ReceivedKeeps DEF EthInv
<1>3. PICK l : l = r.lance
  OBVIOUS
<1>4. /\ LanceOK(l) /\ r.rxd \in [Places -> Descriptor]
           /\ RxGood(View, l, r.rxd, Frames(hostRing) \cup {NextFrame})
      /\ l.stop = lance.stop /\ l.txpos = lance.txpos /\ l \in LanceState
  BY <1>2, <1>3 DEF Held, LanceOK
<1>5. rxd' = r.rxd
  BY <1>1 DEF Clock
<1>6. TxGood(TxView, l, txd)
  BY <1>4 DEF EthInv, TxGood
<1>7. CASE l.pending /\ l.txon
  <2> DEFINE k == [l EXCEPT !.pending = FALSE]
  <2>1. Polls(k)
    BY <1>1, <1>3, <1>7 DEF Clock
  <2>2. LanceOK(k) /\ k.stop = l.stop /\ k.txpos = l.txpos /\ k.rxpos = l.rxpos
    BY <1>4 DEF LanceOK, LanceState
  <2> HIDE DEF k
  <2>3. TxGood(TxView, k, txd)
    BY <1>6, <2>2 DEF TxGood
  <2>4. /\ LanceOK(lance') /\ txd' \in [Places -> Descriptor]
        /\ lance'.stop = k.stop /\ lance'.rxpos = k.rxpos /\ TxFollows /\ WireAfter
    BY <2>1, <2>2, <2>3, PollsKeeps DEF EthInv
  <2>5. RxGood(View, lance', rxd', Frames(hostRing) \cup {NextFrame})
    <3>1. PICK z : z = lance'
      OBVIOUS
    <3>2. z.stop = l.stop /\ z.rxpos = l.rxpos
      BY <2>2, <2>4, <3>1
    <3>3. RxGood(View, z, r.rxd, Frames(hostRing) \cup {NextFrame})
      BY <1>4, <3>2, RxSame
    <3> QED
      BY <1>5, <3>1, <3>3
  <2>6. TxStays
    BY <2>4 DEF TxFollows, TxStays
  <2> QED
    BY <1>4, <1>5, <2>2, <2>4, <2>5, <2>6
<1>8. CASE ~(l.pending /\ l.txon)
  <2>1. lance' = l /\ txd' = txd /\ wire' = wire
    BY <1>1, <1>3, <1>8 DEF Clock
  <2>2. TxStays
    <3> SUFFICES ASSUME NEW u, AfterPoll(TxView, u, wire'.last), u.unasked = TxView.unasked
                 PROVE  TxGood(u, l, txd)
      BY <2>1 DEF TxStays
    <3>1. u.last = TxView.last
      BY <2>1 DEF TxView, AfterPoll
    <3> QED
      BY <1>6, <3>1, ViewSame DEF AfterPoll
  <2>3. wire \in WireState
    BY DEF EthInv, EthTypes, WireState
  <2>4. wire = [wire EXCEPT !.sent = wire.sent, !.last = wire.last] /\ wire.sent \in Nat
           /\ wire.last \in Nat
    BY <2>3 DEF WireState
  <2>5. WireAfter
    BY <2>1, <2>4 DEF WireAfter, EthInv, AllWhole
  <2> QED
    BY <1>4, <1>5, <2>1, <2>2, <2>5 DEF EthInv, EthTypes
<1> QED
  BY <1>7, <1>8

(* What a poll leaves of the history. *)
LEMMA WireIs ==
  ASSUME wire \in WireState, WireAfter
  PROVE  /\ wire' \in WireState /\ wire'.came = wire.came /\ wire'.made = wire.made
         /\ wire'.whole = wire.whole /\ wire'.taken = wire.taken /\ wire'.part = wire.part
         /\ wire'.last <= Done(TxView)
<1>1. PICK sent \in Nat, last \in Nat :
        wire' = [wire EXCEPT !.sent = sent, !.last = last] /\ last <= Done(TxView)
  BY DEF WireAfter
<1> QED
  BY <1>1 DEF WireState

(* The ring and the history after a step that leaves the frame in hand     *)
(* alone.                                                                  *)
LEMMA TxKept ==
  ASSUME EthTypes, EthTypes', AllWhole, wire'.made = wire.made, wire'.whole = wire.whole,
         wire'.last <= Done(TxView), fw'.tx = fw.tx, fw'.fill = fw.fill, fw'.left = fw.left,
         \/ fw'.unasked = fw.unasked /\ TxStays
         \/ fw'.unasked \in Nat /\ fw'.unasked >= fw.unasked - 1 /\ TxFollows
  PROVE  TxGood(TxView, lance, txd)' /\ AllWhole'
<1>1. PICK u : u = TxView'
  OBVIOUS
<1>2. /\ u.tx = fw.tx /\ u.fill = fw.fill /\ u.left = fw.left /\ u.made = wire.made
      /\ u.last = wire'.last /\ u.unasked = fw'.unasked
  BY <1>1 DEF TxView
<1>3. ViewOK(u)
  <2>1. /\ fw' \in [rx : Places, tx : Places, fill : 0 .. FrameBuffers,
                     left : 0 .. FrameBuffers, unasked : Nat]
        /\ wire'.last \in Nat /\ wire'.made \in Nat
    BY DEF EthTypes
  <2> QED
    BY <1>2, <2>1 DEF ViewOK
<1>4. fw.unasked \in Nat
  BY DEF EthTypes
<1>5. AfterPoll(TxView, u, wire'.last)
  <2>1. u.unasked >= fw.unasked - 1
    BY <1>2, <1>4
  <2> QED
    BY <1>2, <1>3, <2>1, ViewIs DEF AfterPoll
<1>6. TxGood(u, lance', txd')
  BY <1>2, <1>5, ViewIs DEF TxStays, TxFollows
<1>7. Done(u) = Done(TxView)
  BY <1>2, ViewIs DEF Done
<1>8. AllWhole'
  BY <1>1, <1>7 DEF AllWhole, Done
<1> QED
  BY <1>1, <1>6, <1>8 DEF TxGood, TxHolds, FramesReady, Behind, Prepared, InHand, Done

(* They are as they were after a step that leaves transmitter and frames   *)
(* alone.                                                                  *)
LEMMA TxUntouched ==
  ASSUME TxGood(TxView, lance, txd), AllWhole, txd' = txd, lance'.stop = lance.stop,
         lance'.txpos = lance.txpos, fw'.tx = fw.tx, fw'.fill = fw.fill, fw'.left = fw.left,
         fw'.unasked = fw.unasked, wire'.last = wire.last, wire'.made = wire.made,
         wire'.whole = wire.whole
  PROVE  TxGood(TxView, lance, txd)' /\ AllWhole'
<1>1. TxView' = TxView
  BY DEF TxView
<1> QED
  BY <1>1 DEF TxGood, AllWhole, Done

(* eth_tick(): the clock, then frames move from the host's ring to the     *)
(* queue.                                                                  *)
LEMMA TickKeeps ==
  ASSUME EthInv, EthTick PROVE EthInv'
<1> DEFINE n == IF Len(hostRing) < LanceQueue THEN Len(hostRing) ELSE LanceQueue
<1>1. Clock /\ rxQueue' = SubSeq(hostRing, 1, n) /\ hostRing' = SubSeq(hostRing, n + 1, Len(hostRing))
      /\ UNCHANGED <<fw, ndSide, load>>
  BY DEF EthTick
<1>2. /\ LanceOK(lance') /\ rxd' \in [Places -> Descriptor] /\ txd' \in [Places -> Descriptor]
      /\ lance'.stop = lance.stop /\ RxGood(View, lance', rxd', Frames(hostRing) \cup {NextFrame})
      /\ TxStays /\ WireAfter
  BY <1>1, ClockKeeps
<1>3. wire \in WireState
  BY DEF EthInv, EthTypes, WireState
<1>4. /\ wire' \in WireState /\ wire'.came = wire.came /\ wire'.made = wire.made
      /\ wire'.whole = wire.whole /\ wire'.taken = wire.taken /\ wire'.part = wire.part
      /\ wire'.last <= Done(TxView)
  BY <1>2, <1>3, WireIs
<1>5. n \in 0 .. Len(hostRing) /\ hostRing \in Seq(NewFrame) /\ Rises(hostRing)
  <2>1. LanceQueue \in Nat
    BY EthernetAssumption
  <2>2. hostRing \in Seq(NewFrame) /\ Rises(hostRing)
    BY DEF EthInv, EthTypes, Queued
  <2>3. Len(hostRing) \in Nat
    BY <2>2
  <2> QED
    BY <2>1, <2>2, <2>3
<1> HIDE DEF n
<1>6. PICK a, b, q, m : a = rxQueue' /\ b = hostRing' /\ q = hostRing /\ m = n
  OBVIOUS
<1>7. /\ a \in Seq(NewFrame) /\ b \in Seq(NewFrame) /\ Rises(a) /\ Rises(b)
      /\ \A x \in Frames(a), y \in Frames(b) : x < y
      /\ Frames(a) \subseteq Frames(hostRing) /\ Frames(b) \subseteq Frames(hostRing)
  <2>1. Halves(q, m, a, b)
    BY <1>1, <1>5, <1>6 DEF Halves
  <2>2. /\ a \in Seq(NewFrame) /\ b \in Seq(NewFrame) /\ Rises(a) /\ Rises(b)
        /\ \A x \in Frames(a), y \in Frames(b) : x < y
        /\ Frames(a) \subseteq Frames(q) /\ Frames(b) \subseteq Frames(q)
    BY <2>1, QueueSplit
  <2> QED
    BY <1>6, <2>2
<1>8. EthTypes'
  BY <1>1, <1>2, <1>4, <1>6, <1>7 DEF EthInv, EthTypes, WireState
<1>9. Waiting' = Frames(a) \cup Frames(b)
  BY <1>6 DEF Waiting
<1>10. Queued'
  <2>1. Rises(rxQueue)' /\ Rises(hostRing)'
    BY <1>6, <1>7 DEF Rises
  <2>2. (\A v \in Frames(rxQueue), w \in Frames(hostRing) : v < w)'
    BY <1>6, <1>7 DEF Frames
  <2>3. \A w \in Frames(hostRing) : wire.taken < w /\ w <= wire.came
    BY DEF EthInv, Queued, Waiting
  <2>4. (\A w \in Waiting : wire.taken < w /\ w <= wire.came)'
    BY <1>4, <1>7, <1>9, <2>3
  <2> QED
    BY <1>4, <2>1, <2>2, <2>4 DEF EthInv, Queued
<1>11. RxGood(View, lance, rxd, Coming)'
  <2>1. PICK v, l, d, W : v = View /\ l = lance' /\ d = rxd' /\ W = Coming'
    OBVIOUS
  <2>2. View' = v
    BY <1>1, <1>4, <2>1 DEF View
  <2>3. W \in SUBSET (Frames(hostRing) \cup {NextFrame})
    BY <1>4, <1>7, <1>9, <2>1 DEF Coming, NextFrame
  <2>4. RxGood(v, l, d, W)
    BY <1>2, <2>1, <2>3, RxSame
  <2> QED
    BY <2>1, <2>2, <2>4 DEF RxGood
<1>12. TxGood(TxView, lance, txd)' /\ AllWhole'
  <2>1. EthTypes /\ AllWhole
    BY DEF EthInv
  <2> QED
    BY <1>1, <1>2, <1>4, <1>8, <2>1, TxKept
<1>13. NdTold'
  BY <1>1 DEF EthInv, NdTold
<1> QED
  BY <1>8, <1>10, <1>11, <1>12, <1>13 DEF EthInv

(* The first place of a ring. *)
LEMMA Nought == 0 \in Places /\ Place(0, 0) = 0 /\ \A p \in Places : Place(p, 0) = p
<1>1. \A p \in Places : Place(p, 0) = p
  BY RingIs DEF Place
<1> QED
  BY <1>1, RingIs

(* Steps that leave queues and history alone keep their order. *)
LEMMA QueuedKept ==
  ASSUME Queued, rxQueue' = rxQueue, hostRing' = hostRing, wire'.came = wire.came,
         wire'.taken = wire.taken
  PROVE  Queued' /\ Coming' = Coming
<1>1. Frames(rxQueue)' = Frames(rxQueue) /\ Frames(hostRing)' = Frames(hostRing)
  BY DEF Frames
<1>2. Waiting' = Waiting /\ Coming' = Coming
  BY <1>1 DEF Waiting, Coming, NextFrame
<1>3. Rises(rxQueue)' /\ Rises(hostRing)'
  BY DEF Queued, Rises
<1> QED
  BY <1>1, <1>2, <1>3 DEF Queued

(* Steps that leave the receive ring alone keep it good. *)
LEMMA RxKept ==
  ASSUME RxGood(View, lance, rxd, Coming), rxd' = rxd, fw'.rx = fw.rx, wire'.taken = wire.taken,
         wire'.part = wire.part, Coming' = Coming, lance'.stop = lance.stop, lance'.rxpos = lance.rxpos
  PROVE  RxGood(View, lance, rxd, Coming)'
<1>1. View' = View
  BY DEF View
<1> QED
  BY <1>1 DEF RxGood

(* A LANCE that is reset keeps the invariant: nothing is asked of its      *)
(* rings.                                                                  *)
LEMMA Stops ==
  ASSUME EthInv, lance' = Stopped, rxd' = rxd, txd' = txd, rxQueue' = rxQueue, hostRing' = hostRing,
         fw' = fw, load' = load, wire' = wire
  PROVE  /\ Queued' /\ RxGood(View, lance, rxd, Coming)' /\ TxGood(TxView, lance, txd)' /\ AllWhole'
         /\ LanceOK(lance') /\ (ndSide' = ndSide => EthInv')
<1>1. LanceOK(lance') /\ lance'.stop = TRUE
  BY Nought DEF Stopped, LanceOK, LanceState
<1>2. Queued'
  BY QueuedKept DEF EthInv
<1>3. RxGood(View, lance, rxd, Coming)' /\ TxGood(TxView, lance, txd)'
  BY <1>1 DEF RxGood, TxGood
<1>4. AllWhole'
  BY DEF EthInv, AllWhole, TxView, Done
<1>5. ndSide' = ndSide => EthInv'
  BY <1>1, <1>2, <1>3, <1>4 DEF EthInv, EthTypes, NdTold
<1> QED
  BY <1>1, <1>2, <1>3, <1>4, <1>5

(* STOP. *)
LEMMA LanceStopKeeps == EthInv /\ LanceStop => EthInv'
  BY Stops DEF LanceStop

(* The card's registers on the ND-100 side. *)
LEMMA NdSideKeeps ==
  ASSUME EthInv, NdInterrupt \/ EthIdent \/ EthReset
       \/ \E reset \in BOOLEAN, enable \in {FALSE, load.nd} : EthControl(enable, reset)
  PROVE  EthInv'
<1>1. /\ rxd' = rxd /\ txd' = txd /\ rxQueue' = rxQueue /\ hostRing' = hostRing
      /\ fw' = fw /\ load' = load /\ wire' = wire /\ (lance' = lance \/ lance' = Stopped)
  BY DEF NdInterrupt, EthIdent, EthReset, EthControl
<1>2. ndSide \in [enabled : BOOLEAN, scip : BOOLEAN, bit : BOOLEAN, reset : BOOLEAN]
         /\ load.nd \in BOOLEAN
  BY DEF EthInv, EthTypes
<1>3. /\ ndSide' \in [enabled : BOOLEAN, scip : BOOLEAN, bit : BOOLEAN, reset : BOOLEAN]
      /\ NdTold'
  <2>1. CASE NdInterrupt
    BY <1>2, <2>1 DEF NdInterrupt, NdTold, EthInv
  <2>2. CASE EthIdent \/ EthReset
    BY <1>2, <2>2 DEF EthIdent, EthReset, NdTold, EthInv
  <2>3. CASE \E reset \in BOOLEAN, enable \in {FALSE, load.nd} : EthControl(enable, reset)
    <3>1. PICK reset \in BOOLEAN, enable \in BOOLEAN : EthControl(enable, reset)
      BY <1>2, <2>3
    <3>2. ndSide' = [enabled |-> enable, reset |-> reset,
                     bit |-> IF ndSide.scip THEN enable ELSE ndSide.bit,
                     scip |-> ndSide.scip /\ (ndSide.reset \/ ~reset)]
      BY <3>1 DEF EthControl
    <3>3. ndSide' \in [enabled : BOOLEAN, scip : BOOLEAN, bit : BOOLEAN, reset : BOOLEAN]
      BY <1>2, <3>2
    <3>4. ndSide'.scip /\ ndSide'.enabled => ndSide'.bit
      BY <3>2
    <3> QED
      BY <3>3, <3>4 DEF NdTold
  <2> QED
    BY <2>1, <2>2, <2>3
<1>4. CASE lance' = Stopped
  <2>1. /\ Queued' /\ RxGood(View, lance, rxd, Coming)' /\ TxGood(TxView, lance, txd)' /\ AllWhole'
        /\ LanceOK(lance')
    BY <1>1, <1>4, Stops
  <2> QED
    BY <1>1, <1>3, <2>1 DEF EthInv, EthTypes
<1>5. CASE lance' = lance
  <2>1. Queued' /\ Coming' = Coming
    BY <1>1, QueuedKept DEF EthInv
  <2>2. RxGood(View, lance, rxd, Coming)'
    BY <1>1, <1>5, <2>1, RxKept DEF EthInv
  <2>3. TxGood(TxView, lance, txd)' /\ AllWhole'
    BY <1>1, <1>5, TxUntouched DEF EthInv
  <2>4. EthTypes'
    BY <1>1, <1>3, <1>5 DEF EthInv, EthTypes
  <2> QED
    BY <1>3, <2>1, <2>2, <2>3, <2>4 DEF EthInv
<1> QED
  BY <1>1, <1>4, <1>5

(* STRT: both rings begin anew. *)
LEMMA LanceStartKeeps ==
  ASSUME EthInv, LanceStart PROVE EthInv'
<1>1. PICK inea \in BOOLEAN :
       lance' = Checked([Stopped EXCEPT !.stop = FALSE, !.init = TRUE, !.rxon = TRUE, !.txon = TRUE,
                                        !.pending = TRUE, !.flags = {"IDON"}, !.inea = inea])
  BY DEF LanceStart
<1> DEFINE l == [Stopped EXCEPT !.stop = FALSE, !.init = TRUE, !.rxon = TRUE, !.txon = TRUE,
                                !.pending = TRUE, !.flags = {"IDON"}, !.inea = inea]
<1>2. /\ rxd' = [p \in Places |-> [Empty EXCEPT !.own = TRUE]] /\ txd' = [p \in Places |-> Empty]
      /\ fw' = [rx |-> 0, tx |-> 0, fill |-> 0, left |-> 0, unasked |-> 0]
      /\ wire' = [wire EXCEPT !.part = -1] /\ UNCHANGED <<rxQueue, hostRing, ndSide, load>>
  BY DEF LanceStart
<1>3. /\ l \in LanceState /\ (l.rxon <=> ~l.stop) /\ (l.txon <=> ~l.stop)
      /\ l.stop = FALSE /\ l.rxpos = 0 /\ l.txpos = 0
  BY Nought DEF Stopped, LanceState
<1>4. lance' = Checked(l)
  BY <1>1
<1> HIDE DEF l
<1>5. LanceOK(lance') /\ lance'.stop = FALSE /\ lance'.rxpos = 0 /\ lance'.txpos = 0
  BY <1>3, <1>4, CheckedIs
<1>6. wire \in WireState
  BY DEF EthInv, EthTypes, WireState
<1>7. /\ wire' \in WireState /\ wire'.came = wire.came /\ wire'.made = wire.made
      /\ wire'.last = wire.last /\ wire'.whole = wire.whole /\ wire'.taken = wire.taken
           /\ wire'.part = -1
  BY <1>2, <1>6 DEF WireState
<1>8. /\ fw' \in [rx : Places, tx : Places, fill : 0 .. FrameBuffers, left
           : 0 .. FrameBuffers, unasked : Nat]
      /\ fw'.rx = 0 /\ fw'.tx = 0 /\ fw'.left = 0
  BY <1>2, Nought, RingIs
<1>9. [Empty EXCEPT !.own = TRUE] \in Descriptor /\ Empty \in Descriptor
         /\ [Empty EXCEPT !.own = TRUE].own = TRUE
      /\ Empty.own = FALSE
  BY DEF Empty, Descriptor
<1>10. rxd' \in [Places -> Descriptor] /\ txd' \in [Places -> Descriptor]
  BY <1>2, <1>9
<1>11. EthTypes'
  BY <1>2, <1>5, <1>7, <1>8, <1>10 DEF EthInv, EthTypes, WireState
<1>12. Queued' /\ Coming' = Coming
  BY <1>2, <1>7, QueuedKept DEF EthInv
<1>13. RxGood(View, lance, rxd, Coming)'
  <2>1. PICK v, l1, d, W : v = View' /\ l1 = lance' /\ d = rxd' /\ W = Coming'
    OBVIOUS
  <2>2. v.rx = 0 /\ v.part = -1
    BY <1>7, <1>8, <2>1 DEF View
  <2>3. Filled(v, d, 0, W)
    <3>1. \A i \in 0 .. RingSize - 1 : d[Place(v.rx, i)].own = TRUE
      <4>1. \A i \in 0 .. RingSize - 1 : Place(0, i) \in Places
        BY Nought, PlaceIs, RingIs
      <4> QED
        BY <1>2, <1>9, <2>1, <2>2, <4>1
    <3>2. Split(d, v.rx, 0)
      BY <3>1 DEF Split
    <3>3. PartAt(v, d, 0) = -1
      BY <2>2 DEF PartAt
    <3> QED
      BY <3>2, <3>3 DEF Filled
  <2>4. l1.rxpos = Place(v.rx, 0) /\ 0 \in 0 .. RingSize
    BY <1>5, <2>1, <2>2, Nought, RingIs
  <2>5. RxGood(v, l1, d, W)
    BY <2>3, <2>4 DEF RxGood
  <2> QED
    BY <2>1, <2>5 DEF RxGood
<1>14. TxGood(TxView, lance, txd)'
  <2>1. PICK u, l1, d : u = TxView' /\ l1 = lance' /\ d = txd'
    OBVIOUS
  <2>2. u.tx = 0 /\ u.left = 0
    BY <1>8, <2>1 DEF TxView
  <2>3. 0 .. 0 - 1 = {} /\ 0 \in 0 .. RingSize
    BY RingIs
  <2>4. \A i \in 0 .. RingSize - 1 : d[Place(0, i)].own = FALSE
    <3>1. \A i \in 0 .. RingSize - 1 : Place(0, i) \in Places
      BY Nought, PlaceIs, RingIs
    <3> QED
      BY <1>2, <1>9, <2>1, <3>1
  <2>5. FramesReady(u, d, 0, 0)
    BY <2>3 DEF FramesReady
  <2>6. Behind(u, d, 0, 0)
    BY <2>2, <2>4 DEF Behind, InHand
  <2>7. TxHolds(u, d, 0, 0)
    BY <2>2, <2>5, <2>6, Nought DEF TxHolds
  <2>8. TxGood(u, l1, d)
    BY <1>5, <2>1, <2>3, <2>7 DEF TxGood
  <2> QED
    BY <2>1, <2>8 DEF TxGood
<1>15. AllWhole' /\ NdTold'
  <2>1. wire.whole = TRUE /\ wire.last <= wire.made
    <3>1. wire.last \in Nat /\ wire.made \in Nat
      BY <1>6 DEF WireState
    <3> QED
      BY <3>1 DEF EthInv, AllWhole, Done, TxView
  <2>2. Done(TxView)' = wire.made
    BY <1>7, <1>8 DEF Done, TxView
  <2> QED
    BY <1>2, <1>7, <2>1, <2>2 DEF EthInv, AllWhole, NdTold
<1> QED
  BY <1>11, <1>12, <1>13, <1>14, <1>15 DEF EthInv

(* RxGood() for other frames to come, none before the old ones. *)
LEMMA RxLater ==
  ASSUME NEW v, v.rx \in Places, NEW l, NEW d \in [Places -> Descriptor], NEW W \in SUBSET Nat,
         NEW V \in SUBSET Nat, \A y \in V : \E x \in W : x <= y, RxGood(v, l, d, W)
  PROVE  RxGood(v, l, d, V)
<1>1. CASE l.stop
  BY <1>1 DEF RxGood
<1>2. CASE ~l.stop
  <2>1. PICK n \in 0 .. RingSize : Filled(v, d, n, W) /\ l.rxpos = Place(v.rx, n)
    BY <1>2 DEF RxGood
  <2>2. ASSUME NEW i \in 0 .. n - 1, NEW y \in V PROVE d[Place(v.rx, i)].frame < y
    <3>1. PICK x \in W : x <= y
      OBVIOUS
    <3>2. d[Place(v.rx, i)].frame < x
      BY <2>1 DEF Filled
    <3>3. d[Place(v.rx, i)].frame \in Nat
      <4>1. i \in 0 .. RingSize
        BY RingIs
      <4>2. Place(v.rx, i) \in Places
        BY <4>1, PlaceIs
      <4> QED
        BY <4>2 DEF Descriptor
    <3> QED
      BY <3>1, <3>2, <3>3
  <2>3. Filled(v, d, n, V)
    BY <2>1, <2>2 DEF Filled
  <2> QED
    BY <2>1, <2>3 DEF RxGood
<1> QED
  BY <1>1, <1>2

(* A frame put at the end of a queue. *)
QueueGrown(q, f, b) == q \in Seq(NewFrame) /\ f \in NewFrame /\ b = Append(q, f)

(* It rises when the frame is later than all in it. *)
LEMMA QueueGrows ==
  ASSUME NEW q, NEW f, NEW b, QueueGrown(q, f, b)
  PROVE  /\ b \in Seq(NewFrame) /\ Frames(b) \subseteq Frames(q) \cup {f.frame}
         /\ Rises(q) /\ (\A x \in Frames(q) : x < f.frame) => Rises(b)
<1>1. /\ q \in Seq(NewFrame) /\ f \in NewFrame /\ b = Append(q, f) /\ Len(q) \in Nat
  BY DEF QueueGrown
<1>2. b \in Seq(NewFrame) /\ Len(b) = Len(q) + 1 /\ b[Len(q) + 1] = f
         /\ \A i \in 1 .. Len(q) : b[i] = q[i]
  BY <1>1
<1>3. \A i \in 1 .. Len(q) + 1 : i \in 1 .. Len(q) \/ i = Len(q) + 1
  BY <1>1
<1>4. Frames(b) \subseteq Frames(q) \cup {f.frame}
  BY <1>2, <1>3 DEF Frames
<1>5. ASSUME Rises(q), \A x \in Frames(q) : x < f.frame PROVE Rises(b)
  <2> SUFFICES ASSUME NEW i \in 1 .. Len(b), NEW j \in 1 .. Len(b), i < j
               PROVE  b[i].frame < b[j].frame
    BY DEF Rises
  <2>1. i \in 1 .. Len(q) /\ b[i] = q[i]
    BY <1>1, <1>2
  <2>2. CASE j \in 1 .. Len(q)
    BY <1>2, <1>5, <2>1, <2>2 DEF Rises
  <2>3. CASE j = Len(q) + 1
    <3>1. q[i].frame \in Frames(q)
      BY <2>1 DEF Frames
    <3> QED
      BY <1>2, <1>5, <2>1, <2>3, <3>1
  <2> QED
    BY <1>2, <1>3, <2>2, <2>3
<1> QED
  BY <1>2, <1>4, <1>5

(* ring_put(), whether or not it drops the frame. *)
LEMMA FrameArrivesKeeps ==
  ASSUME EthInv, FrameArrives PROVE EthInv'
<1>1. PICK size \in 1 .. FrameBuffers :
        hostRing' = IF Len(hostRing) >= HostRing THEN hostRing
                    ELSE Append(hostRing, [frame |-> wire.came + 1, size |-> size])
  BY DEF FrameArrives
<1>2. /\ wire' = [wire EXCEPT !.came = @ + 1]
      /\ UNCHANGED <<lance, rxd, txd, rxQueue, fw, ndSide, load>>
  BY DEF FrameArrives
<1>3. wire \in WireState
  BY DEF EthInv, EthTypes, WireState
<1>4. /\ wire' \in WireState /\ wire'.came = wire.came + 1 /\ wire'.made = wire.made
      /\ wire'.last = wire.last /\ wire'.whole = wire.whole /\ wire'.taken = wire.taken
      /\ wire'.part = wire.part /\ wire.came \in Nat /\ wire.taken \in Nat
  BY <1>2, <1>3 DEF WireState
<1>5. PICK q, b, f : q = hostRing /\ b = hostRing' /\ f = [frame |-> wire.came + 1, size |-> size]
  OBVIOUS
<1>6. /\ q \in Seq(NewFrame) /\ rxQueue \in Seq(NewFrame) /\ Rises(q)
      /\ \A w \in Waiting : wire.taken < w /\ w <= wire.came
      /\ \A x \in Frames(rxQueue), y \in Frames(q) : x < y
      /\ wire.taken <= wire.came /\ Rises(rxQueue)
  BY <1>5 DEF EthInv, EthTypes, Queued
<1>7. Waiting = Frames(rxQueue) \cup Frames(q) /\ Frames(rxQueue) \in SUBSET Nat
         /\ Frames(q) \in SUBSET Nat
  BY <1>5, <1>6, FramesAre DEF Waiting
<1>8. f \in NewFrame /\ f.frame = wire.came + 1
  BY <1>4, <1>5 DEF NewFrame
<1>9. \A x \in Frames(rxQueue) \cup Frames(q) : x < f.frame /\ x \in Nat
  BY <1>4, <1>6, <1>7, <1>8
<1>10. /\ b \in Seq(NewFrame) /\ Rises(b) /\ Frames(b) \subseteq Frames(q) \cup {f.frame}
  <2>1. CASE b = q
    BY <1>6, <2>1
  <2>2. CASE b = Append(q, f)
    <3>1. QueueGrown(q, f, b)
      BY <1>6, <1>8, <2>2 DEF QueueGrown
    <3>2. /\ b \in Seq(NewFrame) /\ Frames(b) \subseteq Frames(q) \cup {f.frame}
          /\ Rises(q) /\ (\A x \in Frames(q) : x < f.frame) => Rises(b)
      BY <3>1, QueueGrows
    <3> QED
      BY <1>6, <1>9, <3>2
  <2> QED
    BY <1>1, <1>5, <2>1, <2>2
<1>11. EthTypes'
  BY <1>2, <1>4, <1>5, <1>10 DEF EthInv, EthTypes, WireState
<1>12. Waiting' = Frames(rxQueue) \cup Frames(b)
  BY <1>2, <1>5 DEF Waiting, Frames
<1>13. Queued'
  <2>1. Rises(rxQueue)' /\ Rises(hostRing)'
    BY <1>2, <1>5, <1>6, <1>10 DEF Rises
  <2>2. (\A x \in Frames(rxQueue), y \in Frames(hostRing) : x < y)'
    <3>1. \A x \in Frames(rxQueue), y \in Frames(b) : x < y
      BY <1>6, <1>9, <1>10
    <3> QED
      BY <1>2, <1>5, <3>1 DEF Frames
  <2>3. \A w \in Waiting' : wire'.taken < w /\ w <= wire'.came
    <3>1. \A w \in Frames(rxQueue) \cup Frames(q) \cup {f.frame} :
            wire.taken < w /\ w <= wire.came + 1
      BY <1>4, <1>6, <1>7, <1>8
    <3> QED
      BY <1>4, <1>10, <1>12, <3>1
  <2>4. wire'.taken <= wire'.came
    BY <1>4, <1>6
  <2> QED
    BY <2>1, <2>2, <2>3, <2>4 DEF Queued
<1>14. RxGood(View, lance, rxd, Coming)'
  <2>1. PICK v, l, d, W, V : v = View /\ l = lance /\ d = rxd /\ W = Coming /\ V = Coming'
    OBVIOUS
  <2>2. View' = v /\ v.rx \in Places
    BY <1>2, <1>4, <2>1 DEF View, EthInv, EthTypes
  <2>3. W = Frames(rxQueue) \cup Frames(q) \cup {f.frame} /\ W \in SUBSET Nat
    BY <1>4, <1>7, <1>8, <2>1 DEF Coming, NextFrame
  <2>4. V = Frames(rxQueue) \cup Frames(b) \cup {f.frame + 1}
    BY <1>4, <1>8, <1>12, <2>1 DEF Coming, NextFrame
  <2>5. V \subseteq W \cup {f.frame + 1} /\ f.frame \in W /\ f.frame \in Nat
    BY <1>4, <1>8, <1>10, <2>3, <2>4
  <2>6. V \in SUBSET Nat /\ \A y \in V : \E x \in W : x <= y
    BY <2>3, <2>5
  <2>7. RxGood(v, l, d, W) /\ d \in [Places -> Descriptor]
    BY <2>1 DEF EthInv, EthTypes
  <2>8. RxGood(v, l, d, V)
    BY <2>2, <2>3, <2>6, <2>7, RxLater
  <2> QED
    BY <1>2, <2>1, <2>2, <2>8 DEF RxGood
<1>15. TxGood(TxView, lance, txd)' /\ AllWhole'
  BY <1>2, <1>4, TxUntouched DEF EthInv
<1>16. NdTold'
  BY <1>2 DEF EthInv, NdTold
<1> QED
  BY <1>11, <1>13, <1>14, <1>15, <1>16 DEF EthInv

(* The type of the firmware's state. *)
FwState ==
  [rx : Places, tx : Places, fill : 0 .. FrameBuffers, left : 0 .. FrameBuffers, unasked : Nat]

(* lance_write_csr0(), with or without a transmit demand. *)
LEMMA WriteCsr0Keeps ==
  ASSUME EthInv, NEW acked, NEW inea \in BOOLEAN, NEW demand \in BOOLEAN,
         WriteCsr0(acked, inea, demand)
  PROVE  EthInv'
<1> DEFINE l == [lance EXCEPT !.flags = @ \ acked, !.inea = inea, !.pending = @ \/ demand]
<1>1. /\ ~lance.stop
      /\ IF demand THEN Polls(Checked(l)) ELSE lance' = Checked(l) /\ UNCHANGED <<txd, wire>>
      /\ fw' = [fw EXCEPT !.unasked = IF demand /\ @ > 0 THEN @ - 1 ELSE @]
      /\ UNCHANGED <<rxd, rxQueue, hostRing, ndSide, load>>
  BY DEF WriteCsr0
<1>2. /\ lance \in LanceState /\ (lance.rxon <=> ~lance.stop) /\ (lance.txon <=> ~lance.stop)
      /\ fw \in FwState /\ wire \in WireState /\ LanceOK(lance)
  BY DEF EthInv, EthTypes, LanceOK, FwState, WireState
<1>3. /\ l \in LanceState /\ (l.rxon <=> ~l.stop) /\ (l.txon <=> ~l.stop)
      /\ l.stop = lance.stop /\ l.rxpos = lance.rxpos /\ l.txpos = lance.txpos
  BY <1>2 DEF LanceState
<1>4. PICK k : k = Checked(l)
  OBVIOUS
<1> HIDE DEF l
<1>5. LanceOK(k) /\ k.stop = lance.stop /\ k.rxpos = lance.rxpos /\ k.txpos = lance.txpos
  BY <1>3, <1>4, CheckedIs
<1>6. /\ fw' \in FwState /\ fw'.rx = fw.rx /\ fw'.tx = fw.tx /\ fw'.fill = fw.fill
      /\ fw'.left = fw.left /\ fw'.unasked \in Nat /\ fw'.unasked >= fw.unasked - 1
      /\ (~demand => fw'.unasked = fw.unasked)
  <2>1. PICK n : n = IF demand /\ fw.unasked > 0 THEN fw.unasked - 1 ELSE fw.unasked
    OBVIOUS
  <2>2. fw.unasked \in Nat
    BY <1>2 DEF FwState
  <2>3. n \in Nat /\ n >= fw.unasked - 1 /\ (~demand => n = fw.unasked)
    BY <2>1, <2>2
  <2>4. fw' = [fw EXCEPT !.unasked = n]
    BY <1>1, <2>1
  <2> QED
    BY <1>2, <2>3, <2>4 DEF FwState
<1>7. TxGood(TxView, k, txd)
  BY <1>5 DEF EthInv, TxGood
<1>8. /\ LanceOK(lance') /\ txd' \in [Places -> Descriptor]
      /\ lance'.stop = lance.stop /\ lance'.rxpos = lance.rxpos
      /\ WireAfter /\ (TxFollows \/ (~demand /\ TxStays))
  <2>1. CASE demand
    <3>1. Polls(k)
      BY <1>1, <1>4, <2>1
    <3> QED
      BY <1>5, <1>7, <3>1, PollsKeeps DEF EthInv
  <2>2. CASE ~demand
    <3>1. lance' = k /\ txd' = txd /\ wire' = wire
      BY <1>1, <1>4, <2>2
    <3>2. wire = [wire EXCEPT !.sent = wire.sent, !.last = wire.last] /\ wire.sent \in Nat
          /\ wire.last \in Nat
      BY <1>2 DEF WireState
    <3>3. WireAfter
      BY <3>1, <3>2 DEF WireAfter, EthInv, AllWhole
    <3>4. TxStays
      <4> SUFFICES ASSUME NEW u, AfterPoll(TxView, u, wire'.last), u.unasked = TxView.unasked
                   PROVE  TxGood(u, k, txd)
        BY <3>1 DEF TxStays
      <4>1. u.last = TxView.last
        BY <3>1 DEF TxView, AfterPoll
      <4> QED
        BY <1>7, <4>1, ViewSame DEF AfterPoll
    <3> QED
      BY <1>5, <2>2, <3>1, <3>3, <3>4 DEF EthInv, EthTypes
  <2> QED
    BY <2>1, <2>2
<1>9. /\ wire' \in WireState /\ wire'.came = wire.came /\ wire'.made = wire.made
      /\ wire'.whole = wire.whole /\ wire'.taken = wire.taken /\ wire'.part = wire.part
      /\ wire'.last <= Done(TxView)
  BY <1>2, <1>8, WireIs
<1>10. EthTypes'
  BY <1>1, <1>6, <1>8, <1>9 DEF EthInv, EthTypes, WireState, FwState
<1>11. Queued' /\ Coming' = Coming
  BY <1>1, <1>9, QueuedKept DEF EthInv
<1>12. RxGood(View, lance, rxd, Coming)'
  BY <1>1, <1>6, <1>8, <1>9, <1>11, RxKept DEF EthInv
<1>13. TxGood(TxView, lance, txd)' /\ AllWhole'
  <2>1. EthTypes /\ AllWhole
    BY DEF EthInv
  <2>2. \/ fw'.unasked = fw.unasked /\ TxStays
        \/ fw'.unasked \in Nat /\ fw'.unasked >= fw.unasked - 1 /\ TxFollows
    BY <1>6, <1>8
  <2> QED
    BY <1>6, <1>9, <1>10, <2>1, <2>2, TxKept
<1>14. NdTold'
  BY <1>1 DEF EthInv, NdTold
<1> QED
  BY <1>10, <1>11, <1>12, <1>13, <1>14 DEF EthInv

(* A frame begun behind those that wait: the view before and after.        *)
FrameBegun(w, d, pos, k, n, u) ==
  /\ ViewOK(w) /\ pos \in Places /\ k \in 0 .. RingSize /\ n \in 1 .. FrameBuffers
  /\ TxHolds(w, d, pos, k) /\ w.left = 0
  /\ \A i \in 0 .. n - 1 : ~d[Place(w.tx, i)].own
  /\ u.tx = w.tx /\ u.fill = n /\ u.left = n /\ u.unasked = w.unasked /\ u.last = w.last
  /\ u.made = w.made + 1

(* There is room for it. *)
LEMMA BeginsBehind ==
  ASSUME NEW w, NEW d, NEW pos, NEW k, NEW n, NEW u, FrameBegun(w, d, pos, k, n, u)
  PROVE  TxHolds(u, d, pos, k)
<1>1. /\ RingSize \in Nat /\ RingSize > 0 /\ n \in Nat /\ n > 0 /\ n < RingSize /\ k \in 0 .. RingSize
      /\ pos \in Places /\ k \in Nat
  BY RingIs DEF FrameBegun
<1>2. FramesReady(w, d, pos, k) /\ Behind(w, d, pos, k) /\ w.tx = Place(pos, k) /\ w.left = 0
  BY DEF FrameBegun, TxHolds
<1>3. Done(u) = Done(w) /\ u.unasked = w.unasked /\ u.last = w.last
  <2>1. w.made \in Nat /\ u.left > 0 /\ u.made = w.made + 1
    BY <1>1 DEF FrameBegun, ViewOK
  <2> QED
    BY <1>2, <2>1 DEF Done, FrameBegun
<1>4. FramesReady(u, d, pos, k)
  BY <1>2, <1>3 DEF FramesReady
<1>5. k + n <= RingSize
  <2> SUFFICES ASSUME k + n > RingSize PROVE FALSE
    BY <1>1
  <2>1. RingSize - k \in 0 .. n - 1 /\ RingSize - k \in 0 .. RingSize /\ k + (RingSize - k) = RingSize
        /\ k + (RingSize - k) <= RingSize /\ 0 \in 0 .. k - 1
    BY <1>1
  <2>2. Place(w.tx, RingSize - k) = Place(pos, RingSize)
    BY <1>1, <1>2, <2>1, PlacesAdd
  <2>3. Place(pos, RingSize) = Place(pos, 0)
    BY <1>1, RingIs DEF Place
  <2>4. d[Place(pos, 0)].own = TRUE
    BY <1>2, <2>1 DEF FramesReady
  <2>5. ~d[Place(w.tx, RingSize - k)].own
    BY <2>1 DEF FrameBegun
  <2> QED
    BY <2>2, <2>3, <2>4, <2>5
<1>6. Behind(u, d, pos, k)
  <2>1. \A j : ~InHand(w, j)
    BY <1>2 DEF InHand
  <2>2. \A j \in Int : ~InHand(u, j)
    BY <1>1 DEF InHand, FrameBegun
  <2>3. \A i \in k .. RingSize - 1 : i - k \in Int
    BY <1>1
  <2> QED
    BY <1>2, <2>1, <2>2, <2>3 DEF Behind
<1>7. u.tx = Place(pos, k) /\ u.left <= u.fill /\ k + u.fill <= RingSize
  BY <1>1, <1>2, <1>5 DEF FrameBegun
<1> QED
  BY <1>4, <1>6, <1>7 DEF TxHolds

(* The firmware begins a frame where the ring has room. *)
LEMMA BeginsFrameKeeps ==
  ASSUME EthInv, BeginsFrame PROVE EthInv'
<1>1. PICK n \in 1 .. FrameBuffers : /\ \A i \in 0 .. n - 1 : ~txd[After(fw.tx, i)].own
                                     /\ fw' = [fw EXCEPT !.fill = n, !.left = n]
  BY DEF BeginsFrame
<1>2. /\ ~lance.stop /\ fw.left = 0 /\ wire' = [wire EXCEPT !.made = @ + 1]
      /\ UNCHANGED <<lance, rxd, txd, rxQueue, hostRing, ndSide, load>>
  BY DEF BeginsFrame
<1>3. fw \in FwState /\ wire \in WireState /\ EthTypes
  BY DEF EthInv, EthTypes, FwState, WireState
<1>4. /\ wire' \in WireState /\ wire'.came = wire.came /\ wire'.made = wire.made + 1
      /\ wire'.last = wire.last /\ wire'.whole = wire.whole /\ wire'.taken = wire.taken
      /\ wire'.part = wire.part /\ wire.made \in Nat /\ wire.last \in Nat
  BY <1>2, <1>3 DEF WireState
<1>5. /\ fw' \in FwState /\ fw'.rx = fw.rx /\ fw'.tx = fw.tx /\ fw'.fill = n /\ fw'.left = n
      /\ fw'.unasked = fw.unasked
  <2>1. n \in 0 .. FrameBuffers
    BY RingIs
  <2> QED
    BY <1>1, <1>3, <2>1 DEF FwState
<1>6. lance.txpos \in Places /\ fw.tx \in Places
  BY <1>3 DEF EthTypes, LanceOK, LanceState, FwState
<1>7. PICK k \in 0 .. RingSize : TxHolds(TxView, txd, lance.txpos, k)
  BY <1>2 DEF EthInv, TxGood
<1>8. PICK u : u = TxView'
  OBVIOUS
<1>9. TxHolds(u, txd, lance.txpos, k)
  <2>1. \A i \in 0 .. n - 1 : ~txd[Place(fw.tx, i)].own
    <3>1. \A i \in 0 .. n - 1 : i \in 0 .. RingSize
      BY RingIs
    <3> QED
      BY <1>1, <1>6, <3>1, PlaceIs
  <2>2. /\ u.tx = fw.tx /\ u.fill = n /\ u.left = n /\ u.unasked = fw.unasked
        /\ u.last = wire.last /\ u.made = wire.made + 1
    BY <1>4, <1>5, <1>8 DEF TxView
  <2>3. FrameBegun(TxView, txd, lance.txpos, k, n, u)
    BY <1>2, <1>3, <1>6, <1>7, <2>1, <2>2, ViewIs DEF FrameBegun
  <2> QED
    BY <2>3, BeginsBehind
<1>10. TxGood(TxView, lance, txd)'
  <2>1. PICK l, d : l = lance' /\ d = txd'
    OBVIOUS
  <2>2. TxGood(u, l, d)
    BY <1>2, <1>9, <2>1 DEF TxGood
  <2> QED
    BY <1>8, <2>1, <2>2 DEF TxGood
<1>11. EthTypes'
  BY <1>2, <1>3, <1>4, <1>5 DEF EthTypes, WireState, FwState
<1>12. Queued' /\ Coming' = Coming
  BY <1>2, <1>4, QueuedKept DEF EthInv
<1>13. RxGood(View, lance, rxd, Coming)'
  BY <1>2, <1>4, <1>5, <1>12, RxKept DEF EthInv
<1>14. NdTold'
  BY <1>2 DEF EthInv, NdTold
<1>15. AllWhole'
  <2>1. wire.whole = TRUE /\ wire.last <= wire.made
    BY <1>2, ViewIs, <1>3 DEF EthInv, AllWhole, Done
  <2>2. Done(TxView)' = wire.made
    BY <1>4, <1>5, <1>8, RingIs DEF TxView, Done
  <2> QED
    BY <1>4, <2>1, <2>2 DEF AllWhole
<1> QED
  BY <1>10, <1>11, <1>12, <1>13, <1>14, <1>15 DEF EthInv

(* A buffer filled: the view and the ring before and after.                *)
BufferFilled(w, d, pos, k, e, d2, u) ==
  /\ ViewOK(w) /\ d \in [Places -> Descriptor] /\ pos \in Places /\ k \in 0 .. RingSize
  /\ TxHolds(w, d, pos, k) /\ w.left > 0 /\ w.last <= Done(w)
  /\ Prepared(e, w.left - 1, w.fill, w.made)
  /\ d2[Place(pos, k + w.left - 1)] = e
  /\ \A j \in 0 .. RingSize - 1 : j # k + w.left - 1 => d2[Place(pos, j)] = d[Place(pos, j)]
  /\ u.fill = w.fill /\ u.left = w.left - 1 /\ u.last = w.last /\ u.made = w.made

(* The numbers of it. *)
LEMMA FilledAre ==
  ASSUME NEW w, NEW d, NEW pos, NEW k, NEW e, NEW d2, NEW u, BufferFilled(w, d, pos, k, e, d2, u)
  PROVE  /\ RingSize \in Nat /\ k \in Nat /\ w.left \in Nat /\ w.left > 0 /\ w.fill \in Nat
         /\ w.left <= w.fill /\ k + w.fill <= RingSize /\ pos \in Places
         /\ w.made \in Nat /\ w.last \in Nat /\ w.unasked \in Nat /\ Done(w) = w.made - 1
         /\ w.last < w.made /\ FramesReady(w, d, pos, k) /\ Behind(w, d, pos, k) /\ w.tx = Place(pos, k)
<1>1. /\ w.left \in 0 .. FrameBuffers /\ w.fill \in 0 .. FrameBuffers /\ w.made \in Nat
      /\ w.last \in Nat /\ w.unasked \in Nat /\ k \in 0 .. RingSize /\ w.left > 0 /\ pos \in Places
      /\ w.last <= Done(w)
  BY DEF BufferFilled, ViewOK
<1>2. TxHolds(w, d, pos, k)
  BY DEF BufferFilled
<1>3. Done(w) = w.made - 1
  BY <1>1 DEF Done
<1>4. RingSize \in Nat /\ FrameBuffers \in Nat
  BY RingIs
<1> QED
  BY <1>1, <1>2, <1>3, <1>4 DEF TxHolds

(* All buffers of the frame in hand from part i on are prepared after it.  *)
LEMMA PartsFilled ==
  ASSUME NEW w, NEW d, NEW pos, NEW k, NEW e, NEW d2, NEW u, BufferFilled(w, d, pos, k, e, d2, u),
         NEW i \in k .. RingSize - 1
  PROVE  /\ w.left - 1 <= i - k /\ i - k < w.fill => Prepared(d2[Place(pos, i)], i - k, w.fill, w.made)
         /\ ~(w.left - 1 <= i - k /\ i - k < w.fill) => d2[Place(pos, i)].own = FALSE
<1>1. /\ RingSize \in Nat /\ k \in Nat /\ w.left \in Nat /\ w.left > 0 /\ w.fill \in Nat
      /\ w.left <= w.fill /\ k + w.fill <= RingSize /\ Behind(w, d, pos, k)
  BY FilledAre
<1>2. /\ Prepared(e, w.left - 1, w.fill, w.made) /\ d2[Place(pos, k + w.left - 1)] = e
      /\ \A j \in 0 .. RingSize - 1 : j # k + w.left - 1 => d2[Place(pos, j)] = d[Place(pos, j)]
  BY DEF BufferFilled
<1>3. PICK j \in Nat : j = i - k
  BY <1>1
<1>4. CASE i = k + w.left - 1
  <2>1. j = w.left - 1 /\ j < w.fill
    BY <1>1, <1>3, <1>4
  <2>2. Prepared(d2[Place(pos, i)], j, w.fill, w.made)
    BY <1>2, <1>4, <2>1
  <2>3. w.left - 1 <= j
    BY <1>1, <2>1
  <2> QED
    BY <1>3, <2>1, <2>2, <2>3
<1>5. CASE i # k + w.left - 1
  <2>1. d2[Place(pos, i)] = d[Place(pos, i)]
    <3>1. i \in 0 .. RingSize - 1
      BY <1>1
    <3> QED
      BY <1>2, <1>5, <3>1
  <2>2. /\ InHand(w, j) => Prepared(d[Place(pos, i)], j, w.fill, w.made)
        /\ ~InHand(w, j) => d[Place(pos, i)].own = FALSE
    BY <1>1, <1>3 DEF Behind
  <2>3. InHand(w, j) <=> w.left - 1 <= j /\ j < w.fill
    <3>1. j # w.left - 1
      BY <1>1, <1>3, <1>5
    <3> QED
      BY <1>1, <3>1 DEF InHand
  <2> QED
    BY <1>3, <2>1, <2>2, <2>3
<1> QED
  BY <1>4, <1>5

(* The frames that wait are as they were. *)
LEMMA WaitingStays ==
  ASSUME NEW w, NEW d, NEW pos, NEW k, NEW e, NEW d2, NEW u, BufferFilled(w, d, pos, k, e, d2, u),
         NEW i \in 0 .. k - 1
  PROVE  d2[Place(pos, i)] = d[Place(pos, i)] /\ d[Place(pos, i)] \in Descriptor
<1>1. RingSize \in Nat /\ k \in Nat /\ k <= RingSize /\ w.left \in Nat /\ w.left > 0 /\ pos \in Places
  BY FilledAre DEF BufferFilled
<1>2. i \in 0 .. RingSize - 1 /\ i # k + w.left - 1 /\ i \in 0 .. RingSize
  BY <1>1
<1>3. d2[Place(pos, i)] = d[Place(pos, i)] /\ d \in [Places -> Descriptor]
  BY <1>2 DEF BufferFilled
<1> QED
  BY <1>1, <1>2, <1>3, PlaceIs

(* A buffer that is not the first. *)
LEMMA FillsNext ==
  ASSUME NEW w, NEW d, NEW pos, NEW k, NEW e, NEW d2, NEW u, BufferFilled(w, d, pos, k, e, d2, u),
         w.left > 1, u.tx = w.tx, u.unasked = w.unasked
  PROVE  TxHolds(u, d2, pos, k)
<1>1. /\ RingSize \in Nat /\ k \in Nat /\ w.left \in Nat /\ w.left > 0 /\ w.fill \in Nat
      /\ w.left <= w.fill /\ k + w.fill <= RingSize /\ FramesReady(w, d, pos, k) /\ w.tx = Place(pos, k)
      /\ Done(w) = w.made - 1
  BY FilledAre
<1>2. u.fill = w.fill /\ u.left = w.left - 1 /\ u.last = w.last /\ u.made = w.made
  BY DEF BufferFilled
<1>3. Done(u) = Done(w)
  BY <1>1, <1>2 DEF Done
<1>4. FramesReady(u, d2, pos, k)
  <2>1. \A i \in 0 .. k - 1 : d2[Place(pos, i)] = d[Place(pos, i)]
    BY WaitingStays
  <2> QED
    BY <1>1, <1>2, <1>3, <2>1 DEF FramesReady
<1>5. Behind(u, d2, pos, k)
  <2> SUFFICES ASSUME NEW i \in k .. RingSize - 1
               PROVE  /\ InHand(u, i - k) => Prepared(d2[Place(pos, i)], i - k, u.fill, u.made)
                      /\ ~InHand(u, i - k) => d2[Place(pos, i)].own = FALSE
    BY DEF Behind
  <2>1. InHand(u, i - k) <=> w.left - 1 <= i - k /\ i - k < w.fill
    BY <1>1, <1>2 DEF InHand
  <2>2. /\ w.left - 1 <= i - k /\ i - k < w.fill => Prepared(d2[Place(pos, i)], i - k, w.fill, w.made)
        /\ ~(w.left - 1 <= i - k /\ i - k < w.fill) => d2[Place(pos, i)].own = FALSE
    BY PartsFilled
  <2>3. PICK j : j = i - k
    OBVIOUS
  <2> QED
    BY <1>2, <2>1, <2>2, <2>3
<1>6. u.left <= u.fill /\ k + u.fill <= RingSize
  BY <1>1, <1>2
<1> QED
  BY <1>1, <1>4, <1>5, <1>6 DEF TxHolds

(* The first buffer, which makes the frame visible. *)
LEMMA FillsFirst ==
  ASSUME NEW w, NEW d, NEW pos, NEW k, NEW e, NEW d2, NEW u, BufferFilled(w, d, pos, k, e, d2, u),
         w.left = 1, u.tx = Place(pos, k + w.fill), u.unasked = w.unasked + 1
  PROVE  TxHolds(u, d2, pos, k + w.fill) /\ k + w.fill \in 0 .. RingSize
<1>1. /\ RingSize \in Nat /\ k \in Nat /\ w.fill \in Nat /\ w.fill > 0 /\ k + w.fill <= RingSize
      /\ w.made \in Nat /\ w.last \in Nat /\ w.unasked \in Nat /\ Done(w) = w.made - 1
      /\ w.last < w.made /\ FramesReady(w, d, pos, k) /\ k + w.fill \in 0 .. RingSize
  BY FilledAre
<1>2. u.fill = w.fill /\ u.left = 0 /\ u.last = w.last /\ u.made = w.made
  BY DEF BufferFilled
<1>3. Done(u) = w.made
  BY <1>2 DEF Done
<1> DEFINE E(i) == d2[Place(pos, i)]
<1>4. ASSUME NEW i \in 0 .. k - 1
      PROVE  /\ E(i) = d[Place(pos, i)] /\ E(i).own = TRUE /\ w.last < E(i).frame
             /\ w.made - 1 - w.unasked < E(i).frame /\ E(i).frame <= w.made - 1 /\ E(i).frame \in Nat
  <2>1. E(i) = d[Place(pos, i)] /\ E(i) \in Descriptor
    BY WaitingStays
  <2>2. /\ d[Place(pos, i)].own = TRUE /\ w.last < d[Place(pos, i)].frame
        /\ Done(w) - w.unasked < d[Place(pos, i)].frame /\ d[Place(pos, i)].frame <= Done(w)
    BY <1>1 DEF FramesReady
  <2> QED
    BY <1>1, <2>1, <2>2 DEF Descriptor
<1>5. ASSUME NEW i \in k .. k + w.fill - 1
      PROVE  /\ E(i).own = TRUE /\ E(i).frame = w.made /\ (i = k => E(i).stp = TRUE)
             /\ (i = k + w.fill - 1 => E(i).enp = TRUE) /\ (i # k + w.fill - 1 => E(i).enp = FALSE)
  <2>1. i \in k .. RingSize - 1 /\ w.left - 1 <= i - k /\ i - k < w.fill
    BY <1>1
  <2>2. Prepared(E(i), i - k, w.fill, w.made)
    BY <2>1, PartsFilled
  <2>3. (i = k => i - k = 0) /\ (i - k = w.fill - 1 <=> i = k + w.fill - 1)
    BY <1>1
  <2> QED
    BY <2>2, <2>3 DEF Prepared
<1>6. \A i \in 0 .. k + w.fill - 1 : i \in 0 .. k - 1 \/ i \in k .. k + w.fill - 1
  BY <1>1
<1>7. /\ \A i \in 0 .. k - 1 : i = 0 => d[Place(pos, i)].stp = TRUE
      /\ \A i \in 0 .. k - 1 : i = k - 1 => d[Place(pos, i)].enp = TRUE
      /\ \A i, j \in 0 .. k - 1 : i < j => d[Place(pos, i)].frame <= d[Place(pos, j)].frame
      /\ \A i, j \in 0 .. k - 1 : i < j /\ d[Place(pos, i)].enp = TRUE
                                    => d[Place(pos, i)].frame < d[Place(pos, j)].frame
      /\ \A i, j \in 0 .. k - 1 : j = i + 1 /\ d[Place(pos, i)].enp = TRUE
                                    => d[Place(pos, j)].stp = TRUE
  BY <1>1 DEF FramesReady
<1>8. \A i \in 0 .. k - 1 : d[Place(pos, i)] = E(i)
  BY <1>4
<1>9. /\ \A i \in 0 .. k - 1 : i = 0 => E(i).stp = TRUE
      /\ \A i, j \in 0 .. k - 1 : i < j => E(i).frame <= E(j).frame
      /\ \A i, j \in 0 .. k - 1 : i < j /\ E(i).enp = TRUE => E(i).frame < E(j).frame
      /\ \A i, j \in 0 .. k - 1 : j = i + 1 /\ E(i).enp = TRUE => E(j).stp = TRUE
  BY <1>7, <1>8
<1> HIDE DEF E
<1>10. ASSUME NEW i \in 0 .. k + w.fill - 1
       PROVE  /\ E(i).own = TRUE /\ u.last < E(i).frame /\ Done(u) - u.unasked < E(i).frame
              /\ E(i).frame <= Done(u)
              /\ i = 0 => E(i).stp = TRUE
              /\ i = k + w.fill - 1 => E(i).enp = TRUE
  <2>1. CASE i \in 0 .. k - 1
    <3>1. /\ E(i).own = TRUE /\ w.last < E(i).frame
          /\ w.made - 1 - w.unasked < E(i).frame /\ E(i).frame <= w.made - 1 /\ E(i).frame \in Nat
      BY <1>4, <2>1
    <3>2. E(i).frame <= w.made /\ w.made - (w.unasked + 1) < E(i).frame
      BY <1>1, <3>1
    <3>3. i # k + w.fill - 1
      BY <1>1, <2>1
    <3> QED
      BY <1>2, <1>3, <1>9, <2>1, <3>1, <3>2, <3>3
  <2>2. CASE i \in k .. k + w.fill - 1
    <3>1. E(i).frame = w.made /\ w.made - (w.unasked + 1) < w.made /\ w.made <= w.made
      <4>1. w.made - (w.unasked + 1) < w.made /\ w.made <= w.made
        BY <1>1
      <4>2. E(i).frame = w.made
        BY <1>5, <2>2
      <4> QED
        BY <4>1, <4>2
    <3>2. i = 0 => i = k
      BY <1>1, <2>2
    <3> QED
      BY <1>1, <1>2, <1>3, <1>5, <2>2, <3>1, <3>2
  <2> QED
    BY <1>6, <2>1, <2>2
<1>11. ASSUME NEW i \in 0 .. k + w.fill - 1, NEW j \in 0 .. k + w.fill - 1
       PROVE  /\ i < j => E(i).frame <= E(j).frame
              /\ i < j /\ E(i).enp = TRUE => E(i).frame < E(j).frame
              /\ j = i + 1 /\ E(i).enp = TRUE => E(j).stp = TRUE
  <2>1. CASE i \in 0 .. k - 1 /\ j \in 0 .. k - 1
    BY <1>9, <2>1
  <2>2. CASE i \in 0 .. k - 1 /\ j \in k .. k + w.fill - 1
    <3>1. E(i).frame < E(j).frame /\ E(i).frame <= E(j).frame
      <4>1. E(i).frame <= w.made - 1 /\ E(i).frame \in Nat /\ E(j).frame = w.made
        BY <1>4, <1>5, <2>2
      <4> QED
        BY <1>1, <4>1
    <3>2. j = i + 1 => j = k
      BY <1>1, <2>2
    <3> QED
      BY <1>5, <2>2, <3>1, <3>2
  <2>3. CASE i \in k .. k + w.fill - 1 /\ j \in k .. k + w.fill - 1
    <3>1. E(i).frame = w.made /\ E(j).frame = w.made /\ w.made <= w.made
      <4>1. w.made <= w.made
        BY <1>1
      <4>2. E(i).frame = w.made /\ E(j).frame = w.made
        BY <1>5, <2>3
      <4> QED
        BY <4>1, <4>2
    <3>2. i < j \/ j = i + 1 => i # k + w.fill - 1
      BY <1>1, <2>3
    <3> QED
      BY <1>5, <2>3, <3>1, <3>2
  <2>4. CASE i \in k .. k + w.fill - 1 /\ j \in 0 .. k - 1
    <3>1. ~(i < j) /\ j # i + 1
      BY <1>1, <2>4
    <3> QED
      BY <3>1
  <2> QED
    BY <1>6, <2>1, <2>2, <2>3, <2>4
<1>12. PICK m : m = k + w.fill
  OBVIOUS
<1>13. FramesReady(u, d2, pos, m)
  <2>1. ASSUME NEW i \in 0 .. m - 1
        PROVE  /\ E(i).own = TRUE /\ u.last < E(i).frame /\ Done(u) - u.unasked < E(i).frame
               /\ E(i).frame <= Done(u)
               /\ i = 0 => E(i).stp = TRUE
               /\ i = m - 1 => E(i).enp = TRUE
    <3>1. i \in 0 .. k + w.fill - 1 /\ (i = m - 1 => i = k + w.fill - 1)
      BY <1>1, <1>12
    <3> QED
      BY <1>10, <3>1, Zenon
  <2>2. ASSUME NEW i \in 0 .. m - 1, NEW j \in 0 .. m - 1
        PROVE  /\ i < j => E(i).frame <= E(j).frame
               /\ i < j /\ E(i).enp = TRUE => E(i).frame < E(j).frame
               /\ j = i + 1 /\ E(i).enp = TRUE => E(j).stp = TRUE
    <3>1. i \in 0 .. k + w.fill - 1 /\ j \in 0 .. k + w.fill - 1
      BY <1>1, <1>12
    <3> QED
      BY <1>11, <3>1, Zenon
  <2> QED
    BY <2>1, <2>2, Zenon DEF FramesReady, E
<1>14. Behind(u, d2, pos, m)
  <2> SUFFICES ASSUME NEW i \in m .. RingSize - 1 PROVE ~InHand(u, i - m) /\ d2[Place(pos, i)].own = FALSE
    BY DEF Behind
  <2>1. i \in k .. RingSize - 1 /\ ~(i - k < w.fill)
    BY <1>1, <1>12
  <2>2. d2[Place(pos, i)].own = FALSE
    BY <2>1, PartsFilled
  <2>3. ~InHand(u, i - m)
    BY <1>2 DEF InHand
  <2> QED
    BY <2>2, <2>3
<1>15. u.tx = Place(pos, m) /\ ~(u.left > 0)
  BY <1>2, <1>12
<1> QED
  BY <1>1, <1>12, <1>13, <1>14, <1>15 DEF TxHolds

(* It fills a buffer, the last one first. *)
LEMMA FillsDescriptorKeeps ==
  ASSUME EthRare = {}, EthInv, FillsDescriptor PROVE EthInv'
<1>1. PICK i : i = fw.left - 1
  OBVIOUS
<1> DEFINE e == [own |-> TRUE, stp |-> i = 0, enp |-> i = fw.fill - 1, err |-> FALSE,
                 frame |-> wire.made, part |-> i]
<1>2. /\ ~lance.stop /\ fw.left > 0 /\ txd' = [txd EXCEPT ![After(fw.tx, i)] = e]
      /\ fw' = IF fw.left > 1 THEN [fw EXCEPT !.left = @ - 1]
               ELSE [fw EXCEPT !.left = 0, !.tx = After(@, fw.fill), !.unasked = @ + 1]
      /\ UNCHANGED <<lance, rxd, rxQueue, hostRing, ndSide, wire, load>>
  BY <1>1 DEF FillsDescriptor
<1>3. fw \in FwState /\ wire \in WireState /\ txd \in [Places -> Descriptor] /\ lance.txpos \in Places
      /\ EthTypes
  BY DEF EthInv, EthTypes, FwState, WireState, LanceOK, LanceState
<1>4. PICK k \in 0 .. RingSize : TxHolds(TxView, txd, lance.txpos, k)
  BY <1>2 DEF EthInv, TxGood
<1>5. PICK left, fill, made, q : left = fw.left /\ fill = fw.fill /\ made = wire.made /\ q = lance.txpos
  OBVIOUS
<1>6. /\ left \in Nat /\ left > 0 /\ fill \in Nat /\ left <= fill /\ fill <= FrameBuffers
      /\ k + fill <= RingSize /\ fw.tx = Place(q, k) /\ made \in Nat /\ q \in Places
      /\ fw.unasked \in Nat /\ k \in Nat /\ RingSize \in Nat /\ FrameBuffers < RingSize
  <2>1. TxView.left > 0 => TxView.left <= TxView.fill /\ k + TxView.fill <= RingSize
    BY <1>4 DEF TxHolds
  <2>2. TxView.tx = Place(q, k)
    BY <1>4, <1>5 DEF TxHolds
  <2> QED
    BY <1>2, <1>3, <1>5, <2>1, <2>2, ViewIs, RingIs DEF FwState, WireState
<1>7. i = left - 1 /\ i \in 0 .. RingSize /\ fill \in 0 .. RingSize /\ k + i <= RingSize
      /\ i < fill /\ k + i \in 0 .. RingSize - 1 /\ k + i = k + left - 1
      /\ i \in 0 .. FrameBuffers
  <2>1. FrameBuffers \in Nat
    BY RingIs
  <2> QED
    BY <1>1, <1>5, <1>6, <2>1
<1>8. /\ After(fw.tx, i) = Place(q, k + i) /\ Place(q, k + i) \in Places
      /\ After(fw.tx, fill) = Place(q, k + fill) /\ Place(q, k + fill) \in Places
      /\ k + fill \in 0 .. RingSize
  <2>1. fw.tx \in Places
    BY <1>3 DEF FwState
  <2>2. After(fw.tx, i) = Place(fw.tx, i) /\ After(fw.tx, fill) = Place(fw.tx, fill)
        /\ Place(fw.tx, fill) \in Places /\ Place(fw.tx, i) \in Places
    BY <1>7, <2>1, PlaceIs
  <2>3. Place(Place(q, k), i) = Place(q, k + i) /\ Place(Place(q, k), fill) = Place(q, k + fill)
    BY <1>6, <1>7, PlacesAdd
  <2> QED
    BY <1>6, <2>2, <2>3
<1>9. e \in Descriptor /\ Prepared(e, i, fill, made)
  <2>1. e.own = TRUE /\ e.frame = made /\ (i = 0 => e.stp = TRUE) /\ (i = fill - 1 => e.enp = TRUE)
        /\ (i # fill - 1 => e.enp = FALSE)
    BY <1>5
  <2>2. i \in Nat
    BY <1>7
  <2> QED
    BY <1>5, <1>6, <2>1, <2>2 DEF Prepared, Descriptor
<1> HIDE DEF e
<1>10. txd' \in [Places -> Descriptor] /\ txd'[Place(q, k + i)] = e
      /\ \A j \in 0 .. RingSize - 1 : j # k + i => txd'[Place(q, j)] = txd[Place(q, j)]
  <2>1. txd' = [txd EXCEPT ![Place(q, k + i)] = e]
    BY <1>2, <1>8
  <2>2. \A j \in 0 .. RingSize - 1 : Place(q, j) \in Places /\ (j # k + i => Place(q, j) # Place(q, k + i))
    BY <1>6, <1>7, OffsetOf
  <2> QED
    BY <1>3, <1>8, <1>9, <2>1, <2>2
<1>11. /\ fw' \in FwState /\ fw'.rx = fw.rx /\ fw'.fill = fill /\ fw'.left = i
       /\ left > 1 => fw'.tx = fw.tx /\ fw'.unasked = fw.unasked
       /\ left = 1 => fw'.tx = Place(q, k + fill) /\ fw'.unasked = fw.unasked + 1
  <2>1. CASE left > 1
    <3>1. fw' = [fw EXCEPT !.left = i]
      BY <1>1, <1>2, <1>5, <2>1
    <3> QED
      BY <1>3, <1>5, <1>7, <2>1, <3>1 DEF FwState
  <2>2. CASE left = 1
    <3>1. fw' = [fw EXCEPT !.left = 0, !.tx = Place(q, k + fill), !.unasked = fw.unasked + 1]
      BY <1>2, <1>5, <1>8, <2>2
    <3>2. 0 \in 0 .. FrameBuffers /\ fw.unasked + 1 \in Nat /\ i = 0
      <4>1. FrameBuffers \in Nat
        BY RingIs
      <4> QED
        BY <1>6, <1>7, <2>2, <4>1
    <3>3. PICK x \in Places, y \in Nat : x = Place(q, k + fill) /\ y = fw.unasked + 1
      BY <1>8, <3>2
    <3>4. fw' = [fw EXCEPT !.left = 0, !.tx = x, !.unasked = y]
      BY <3>1, <3>3
    <3>5. /\ fw' \in FwState /\ fw'.rx = fw.rx /\ fw'.fill = fw.fill /\ fw'.left = 0
          /\ fw'.tx = x /\ fw'.unasked = y
      BY <1>3, <3>2, <3>4 DEF FwState
    <3> QED
      BY <1>5, <2>2, <3>2, <3>3, <3>5
  <2> QED
    BY <1>6, <2>1, <2>2
<1>12. PICK u, w : u = TxView' /\ w = TxView
  OBVIOUS
<1>13. /\ w.left = left /\ w.fill = fill /\ w.made = made /\ w.tx = fw.tx /\ w.unasked = fw.unasked
       /\ w.last = wire.last /\ u.tx = fw'.tx /\ u.fill = fill /\ u.left = i
       /\ u.unasked = fw'.unasked /\ u.last = wire.last /\ u.made = made /\ ViewOK(w)
  BY <1>2, <1>3, <1>5, <1>11, <1>12, ViewIs DEF TxView
<1>14. BufferFilled(w, txd, q, k, e, txd', u)
  <2>1. TxHolds(w, txd, q, k) /\ w.last <= Done(w)
    BY <1>4, <1>5, <1>12, <1>13 DEF EthInv, AllWhole
  <2>2. Prepared(e, w.left - 1, w.fill, w.made) /\ k + w.left - 1 = k + i
    BY <1>7, <1>9, <1>13
  <2> QED
    BY <1>3, <1>6, <1>7, <1>10, <1>13, <2>1, <2>2 DEF BufferFilled
<1>15. \E m \in 0 .. RingSize : TxHolds(u, txd', q, m)
  <2>1. CASE left > 1
    BY <1>11, <1>13, <1>14, <2>1, FillsNext
  <2>2. CASE left = 1
    <3>1. TxHolds(u, txd', q, k + w.fill) /\ k + w.fill \in 0 .. RingSize
      BY <1>11, <1>13, <1>14, <2>2, FillsFirst
    <3> QED
      BY <3>1
  <2> QED
    BY <1>6, <2>1, <2>2
<1>16. TxGood(TxView, lance, txd)'
  <2>1. PICK l, d : l = lance' /\ d = txd'
    OBVIOUS
  <2>2. TxGood(u, l, d)
    BY <1>2, <1>5, <1>15, <2>1 DEF TxGood
  <2> QED
    BY <1>12, <2>1, <2>2 DEF TxGood
<1>17. EthTypes'
  BY <1>2, <1>3, <1>10, <1>11 DEF EthTypes, FwState
<1>18. Queued' /\ Coming' = Coming
  BY <1>2, QueuedKept DEF EthInv
<1>19. RxGood(View, lance, rxd, Coming)'
  BY <1>2, <1>11, <1>18, RxKept DEF EthInv
<1>20. NdTold'
  BY <1>2 DEF EthInv, NdTold
<1>21. AllWhole'
  <2>1. w.last <= made - 1 /\ wire.last \in Nat /\ wire.whole = TRUE
    BY <1>3, <1>6, <1>12, <1>13 DEF EthInv, AllWhole, Done, WireState
  <2>2. wire'.whole = TRUE /\ wire'.last = wire.last
    BY <1>2, <2>1
  <2>3. Done(u) = made \/ Done(u) = made - 1
    BY <1>13 DEF Done
  <2>4. wire'.last <= Done(u)
    BY <1>6, <1>13, <2>1, <2>2, <2>3
  <2> QED
    BY <1>12, <2>2, <2>4 DEF AllWhole, Done
<1> QED
  BY <1>16, <1>17, <1>18, <1>19, <1>20, <1>21 DEF EthInv

(* The firmware takes descriptor e from its place: the rings and views     *)
(* before and after.                                                       *)
TakesOldest(v, d, k, W, e, d2, u) ==
  /\ v.rx \in Places /\ v.taken \in Nat /\ d \in [Places -> Descriptor] /\ k \in 0 .. RingSize
  /\ Filled(v, d, k, W) /\ d[v.rx].own = FALSE
  /\ e.own = TRUE /\ d2 = [d EXCEPT ![v.rx] = e]
  /\ u.rx = Place(v.rx, 1) /\ u.taken = d[v.rx].frame /\ u.part = PartAfter(d[v.rx])

(* It finds the next part of the frame, or the first of a later one. *)
LEMMA TakesFirst ==
  ASSUME NEW v, NEW d, NEW k, NEW W, NEW e, NEW d2, NEW u, TakesOldest(v, d, k, W, e, d2, u)
  PROVE  /\ k \in 1 .. RingSize /\ Filled(u, d2, k - 1, W) /\ Place(v.rx, k) = Place(u.rx, k - 1)
         /\ Fits(v.taken, v.part, d[v.rx]) /\ \A w \in W : d[v.rx].frame < w
<1> USE DEF TakesOldest
<1>1. RingSize \in Nat /\ RingSize > 0 /\ Place(v.rx, 0) = v.rx
  BY Nought, RingIs
<1>2. Split(d, v.rx, k)
  BY DEF Filled
<1>3. k \in 1 .. RingSize
  <2>1. k = 0 => 0 \in k .. RingSize - 1
    BY <1>1
  <2>2. k # 0
    BY <1>1, <1>2, <2>1 DEF Split
  <2> QED
    BY <2>2
<1>4. \A i \in 0 .. RingSize - 1 : Place(u.rx, i) = Place(v.rx, i + 1)
  <2>1. \A i \in 0 .. RingSize - 1 : i \in 0 .. RingSize /\ 1 + i <= RingSize
           /\ 1 + i = i + 1 /\ 1 \in 0 .. RingSize
    BY <1>1
  <2> QED
    BY <2>1, PlacesAdd
<1>5. Place(v.rx, RingSize) = v.rx
  BY <1>1, RingIs DEF Place
<1>6. \A i \in 1 .. RingSize - 1 : Place(v.rx, i) \in Places /\ Place(v.rx, i) # v.rx
  <2>1. \A i \in 1 .. RingSize - 1 : i \in 0 .. RingSize - 1 /\ i # 0 /\ 0 \in 0 .. RingSize - 1
    BY <1>1
  <2> QED
    BY <1>1, <2>1, OffsetOf
<1>7. /\ \A i \in 1 .. RingSize - 1 : d2[Place(v.rx, i)] = d[Place(v.rx, i)]
      /\ d2[v.rx] = e
  BY <1>6
<1>8. Split(d2, u.rx, k - 1)
  <2>1. ASSUME NEW i \in 0 .. (k - 1) - 1 PROVE d2[Place(u.rx, i)].own = FALSE
    <3>1. i \in 0 .. RingSize - 1 /\ i + 1 \in 1 .. RingSize - 1 /\ i + 1 \in 0 .. k - 1
      BY <1>1, <1>3
    <3> QED
      BY <1>2, <1>4, <1>7, <3>1 DEF Split
  <2>2. ASSUME NEW i \in k - 1 .. RingSize - 1 PROVE d2[Place(u.rx, i)].own = TRUE
    <3>1. CASE i = RingSize - 1
      <4>1. i \in 0 .. RingSize - 1 /\ i + 1 = RingSize
        BY <1>1, <3>1
      <4> QED
        BY <1>4, <1>5, <1>7, <4>1
    <3>2. CASE i # RingSize - 1
      <4>1. i \in 0 .. RingSize - 1 /\ i + 1 \in 1 .. RingSize - 1 /\ i + 1 \in k .. RingSize - 1
        BY <1>1, <1>3, <3>2
      <4> QED
        BY <1>2, <1>4, <1>7, <4>1 DEF Split
    <3> QED
      BY <3>1, <3>2
  <2> QED
    BY <2>1, <2>2 DEF Split
<1>9. \A i \in 0 .. k - 1 : FrameAt(u, d2, i) = FrameAt(v, d, i + 1)
         /\ PartAt(u, d2, i) = PartAt(v, d, i + 1)
  <2> SUFFICES ASSUME NEW i \in 0 .. k - 1
               PROVE  FrameAt(u, d2, i) = FrameAt(v, d, i + 1) /\ PartAt(u, d2, i) = PartAt(v, d, i + 1)
    OBVIOUS
  <2>1. i + 1 # 0 /\ (i + 1) - 1 = i
    OBVIOUS
  <2>2. FrameAt(v, d, i + 1) = d[Place(v.rx, i)].frame
           /\ PartAt(v, d, i + 1) = PartAfter(d[Place(v.rx, i)])
    BY <2>1 DEF FrameAt, PartAt
  <2>3. CASE i = 0
    BY <1>1, <2>2, <2>3 DEF FrameAt, PartAt
  <2>4. CASE i # 0
    <3>1. i - 1 \in 0 .. RingSize - 1 /\ (i - 1) + 1 = i /\ i \in 1 .. RingSize - 1
      BY <1>1, <1>3, <2>4
    <3>2. d2[Place(u.rx, i - 1)] = d[Place(v.rx, i)]
      BY <1>4, <1>7, <3>1
    <3> QED
      BY <2>2, <2>4, <3>2 DEF FrameAt, PartAt
  <2> QED
    BY <2>3, <2>4
<1>10. PartAt(u, d2, k - 1) = -1
  <2>1. k - 1 \in 0 .. k - 1 /\ (k - 1) + 1 = k
    BY <1>3
  <2> QED
    BY <1>9, <2>1 DEF Filled
<1>11. ASSUME NEW i \in 0 .. (k - 1) - 1
       PROVE  /\ Fits(FrameAt(u, d2, i), PartAt(u, d2, i), d2[Place(u.rx, i)])
              /\ \A w \in W : d2[Place(u.rx, i)].frame < w
  <2>1. i + 1 \in 0 .. k - 1 /\ i \in 0 .. k - 1 /\ i \in 0 .. RingSize - 1
           /\ i + 1 \in 1 .. RingSize - 1
    BY <1>1, <1>3
  <2>2. d2[Place(u.rx, i)] = d[Place(v.rx, i + 1)]
    BY <1>4, <1>7, <2>1
  <2>3. Fits(FrameAt(v, d, i + 1), PartAt(v, d, i + 1), d[Place(v.rx, i + 1)])
    BY <2>1 DEF Filled
  <2>4. \A w \in W : d[Place(v.rx, i + 1)].frame < w
    BY <2>1 DEF Filled
  <2> QED
    BY <1>9, <2>1, <2>2, <2>3, <2>4
<1>12. Place(v.rx, k) = Place(u.rx, k - 1)
  <2>1. k - 1 \in 0 .. RingSize - 1 /\ (k - 1) + 1 = k
    BY <1>1, <1>3
  <2> QED
    BY <1>4, <2>1
<1>13. Fits(v.taken, v.part, d[v.rx]) /\ \A w \in W : d[v.rx].frame < w
  <2>1. 0 \in 0 .. k - 1
    BY <1>3
  <2>2. FrameAt(v, d, 0) = v.taken /\ PartAt(v, d, 0) = v.part
    BY DEF FrameAt, PartAt
  <2>3. Fits(FrameAt(v, d, 0), PartAt(v, d, 0), d[Place(v.rx, 0)])
           /\ \A w \in W : d[Place(v.rx, 0)].frame < w
    BY <2>1 DEF Filled
  <2> QED
    BY <1>1, <2>2, <2>3
<1>14. Filled(u, d2, k - 1, W)
  BY <1>8, <1>10, <1>11 DEF Filled
<1> QED
  BY <1>3, <1>12, <1>13, <1>14

(* The firmware takes a filled buffer and gives it back. *)
LEMMA TakesBufferKeeps ==
  ASSUME EthInv, TakesBuffer PROVE EthInv'
<1> DEFINE d == rxd[fw.rx]
           e == [Empty EXCEPT !.own = TRUE]
           fits == IF d.stp THEN d.frame > wire.taken /\ wire.part = -1
                   ELSE d.frame = wire.taken /\ d.part = wire.part
<1>1. /\ ~lance.stop /\ ~d.own /\ rxd' = [rxd EXCEPT ![fw.rx] = e]
      /\ fw' = [fw EXCEPT !.rx = After(@, 1)]
      /\ wire' = [wire EXCEPT !.taken = IF fits THEN d.frame ELSE -1,
                              !.part = PartAfter(d)]
      /\ UNCHANGED <<lance, txd, rxQueue, hostRing, ndSide, load>>
  BY DEF TakesBuffer, PartAfter
<1>2. fw \in FwState /\ wire \in WireState /\ rxd \in [Places -> Descriptor] /\ fw.rx \in Places
  BY DEF EthInv, EthTypes, FwState, WireState
<1>3. e \in Descriptor /\ e.own = TRUE
  BY DEF Empty, Descriptor
<1>4. d \in Descriptor /\ d.own = FALSE
  BY <1>1, <1>2 DEF Descriptor
<1> HIDE DEF e
<1>5. PICK v, u, d1, d2, W : /\ v = View /\ d1 = rxd /\ d2 = rxd' /\ W = Coming
                             /\ u = [rx |-> Place(fw.rx, 1), taken |-> d.frame, part |-> PartAfter(d)]
  OBVIOUS
<1>6. PICK k \in 0 .. RingSize : Filled(v, d1, k, W) /\ lance.rxpos = Place(v.rx, k)
  BY <1>1, <1>5 DEF EthInv, RxGood
<1>7. v.rx = fw.rx /\ v.taken = wire.taken /\ v.part = wire.part
  BY <1>5 DEF View
<1>8. wire.taken \in Nat /\ wire.came \in Nat /\ wire.part \in Nat \cup {-1}
  BY <1>2 DEF WireState
<1>9. /\ k \in 1 .. RingSize /\ Filled(u, d2, k - 1, W) /\ Place(v.rx, k) = Place(u.rx, k - 1)
      /\ Fits(v.taken, v.part, d1[v.rx]) /\ \A w \in W : d1[v.rx].frame < w
  <2>1. v.rx \in Places /\ v.taken \in Nat /\ d1 \in [Places -> Descriptor] /\ d1[v.rx].own = FALSE
    BY <1>2, <1>4, <1>5, <1>7, <1>8
  <2>2. e.own = TRUE /\ d2 = [d1 EXCEPT ![v.rx] = e]
    BY <1>1, <1>3, <1>5, <1>7
  <2>3. u.rx = Place(v.rx, 1) /\ u.taken = d1[v.rx].frame /\ u.part = PartAfter(d1[v.rx])
    BY <1>5, <1>7
  <2>4. TakesOldest(v, d1, k, W, e, d2, u)
    BY <1>6, <2>1, <2>2, <2>3 DEF TakesOldest
  <2> QED
    BY <2>4, TakesFirst
<1>10. Fits(wire.taken, wire.part, d) /\ \A w \in Coming : d.frame < w
  BY <1>5, <1>7, <1>9
<1>11. fits
  BY <1>8, <1>10 DEF Fits
<1>12. d.frame \in Nat /\ PartAfter(d) \in Nat \cup {-1}
  BY <1>4 DEF Descriptor, PartAfter
<1> HIDE DEF fits
<1>13. /\ wire' \in WireState /\ wire'.came = wire.came /\ wire'.made = wire.made
       /\ wire'.last = wire.last /\ wire'.whole = wire.whole /\ wire'.taken = d.frame
       /\ wire'.part = PartAfter(d)
  <2> HIDE DEF d
  <2> QED
    BY <1>1, <1>2, <1>11, <1>12 DEF WireState
<1>14. After(fw.rx, 1) = Place(fw.rx, 1) /\ Place(fw.rx, 1) \in Places
  <2>1. 1 \in 0 .. RingSize
    BY RingIs
  <2> QED
    BY <1>2, <2>1, PlaceIs
<1>15. /\ fw' \in FwState /\ fw'.rx = Place(fw.rx, 1) /\ fw'.tx = fw.tx /\ fw'.fill = fw.fill
       /\ fw'.left = fw.left /\ fw'.unasked = fw.unasked
  BY <1>1, <1>2, <1>14 DEF FwState
<1>16. rxd' \in [Places -> Descriptor]
  BY <1>1, <1>2, <1>3
<1>17. EthTypes'
  BY <1>1, <1>13, <1>15, <1>16 DEF EthInv, EthTypes, WireState, FwState
<1>18. /\ Frames(rxQueue)' = Frames(rxQueue) /\ Frames(hostRing)' = Frames(hostRing)
       /\ Waiting' = Waiting /\ Coming' = Coming
  <2>1. Frames(rxQueue)' = Frames(rxQueue) /\ Frames(hostRing)' = Frames(hostRing)
    BY <1>1 DEF Frames
  <2> QED
    BY <1>13, <2>1 DEF Waiting, Coming, NextFrame
<1>19. Queued'
  <2>1. Rises(rxQueue)' /\ Rises(hostRing)'
    BY <1>1 DEF EthInv, Queued, Rises
  <2>2. \A w \in Waiting : d.frame < w /\ w <= wire.came
    BY <1>10 DEF EthInv, Queued, Coming
  <2>3. d.frame <= wire.came
    <3>1. d.frame < wire.came + 1
      BY <1>10 DEF Coming, NextFrame
    <3> QED
      BY <1>8, <1>12, <3>1
  <2>4. \A x \in Frames(rxQueue), y \in Frames(hostRing) : x < y
    BY DEF EthInv, Queued
  <2> QED
    BY <1>13, <1>18, <2>1, <2>2, <2>3, <2>4 DEF Queued
<1>20. RxGood(View, lance, rxd, Coming)'
  <2>1. View' = u
    BY <1>5, <1>13, <1>15 DEF View
  <2>2. k - 1 \in 0 .. RingSize /\ lance'.rxpos = Place(u.rx, k - 1)
    BY <1>1, <1>6, <1>9, RingIs
  <2>3. Filled(View', rxd', k - 1, Coming')
    BY <1>5, <1>9, <1>18, <2>1
  <2> QED
    BY <2>1, <2>2, <2>3 DEF RxGood
<1>21. TxGood(TxView, lance, txd)' /\ AllWhole'
  BY <1>1, <1>13, <1>15, TxUntouched DEF EthInv
<1>22. NdTold'
  BY <1>1 DEF EthInv, NdTold
<1> QED
  BY <1>17, <1>19, <1>20, <1>21, <1>22 DEF EthInv

(* The invariant holds initially. *)
LEMMA EthInvInit == EthInit => EthInv
<1> SUFFICES ASSUME EthInit PROVE EthInv
  OBVIOUS
<1>1. /\ load \in Loads /\ lance = Stopped
      /\ rxd = [p \in Places |-> Empty] /\ txd = [p \in Places |-> Empty]
      /\ rxQueue = <<>> /\ hostRing = <<>>
      /\ fw = [rx |-> 0, tx |-> 0, fill |-> 0, left |-> 0, unasked |-> 0]
      /\ ndSide = [enabled |-> FALSE, scip |-> FALSE, bit |-> FALSE, reset |-> TRUE]
      /\ wire = [came |-> 0, made |-> 0, sent |-> 0, last |-> 0, whole |-> TRUE,
                taken |-> 0, part |-> -1]
  BY DEF EthInit
<1>2. LanceOK(lance) /\ lance.stop = TRUE
  BY <1>1, Nought DEF Stopped, LanceOK, LanceState
<1>3. Empty \in Descriptor
  BY DEF Empty, Descriptor
<1>4. load \in [in : Nat, out : Nat, nd : BOOLEAN]
  <2>1. MaxFrames \in Nat
    BY EthernetAssumption
  <2>2. PICK m \in Nat : m = MaxFrames /\ 0 \in Nat /\ 1 \in Nat
    BY <2>1
  <2>3. \A b, c, x : b \in Nat /\ c \in Nat /\ x \in BOOLEAN
                   => [in |-> b, out |-> c, nd |-> x] \in [in : Nat, out : Nat, nd : BOOLEAN]
    OBVIOUS
  <2>4. \A x \in Loads : x \in [in : Nat, out : Nat, nd : BOOLEAN]
    BY <2>2, <2>3, ZenonT(60) DEF Loads
  <2> QED
    BY <1>1, <2>4
<1>5. EthTypes
  <2>1. rxQueue \in Seq(NewFrame) /\ hostRing \in Seq(NewFrame)
    BY <1>1
  <2>2. fw \in [rx : Places, tx : Places, fill : 0 .. FrameBuffers, left
           : 0 .. FrameBuffers, unasked : Nat]
    BY <1>1, Nought, RingIs
  <2>3. rxd \in [Places -> Descriptor] /\ txd \in [Places -> Descriptor]
    BY <1>1, <1>3
  <2>4. ndSide \in [enabled : BOOLEAN, scip : BOOLEAN, bit : BOOLEAN, reset : BOOLEAN]
    BY <1>1
  <2>5. wire \in [came : Nat, made : Nat, sent : Nat, last : Nat, whole : BOOLEAN, taken
           : Nat, part : Nat \cup {-1}]
    BY <1>1
  <2> QED
    BY <1>2, <1>4, <2>1, <2>2, <2>3, <2>4, <2>5 DEF EthTypes
<1>6. Queued
  <2>1. Frames(rxQueue) = {} /\ Frames(hostRing) = {}
    BY <1>1 DEF Frames
  <2>2. Rises(rxQueue) /\ Rises(hostRing)
    BY <1>1 DEF Rises
  <2>3. wire.taken <= wire.came
    BY <1>1
  <2> QED
    BY <2>1, <2>2, <2>3 DEF Queued, Waiting
<1>7. RxGood(View, lance, rxd, Coming) /\ TxGood(TxView, lance, txd)
  BY <1>2 DEF RxGood, TxGood
<1>8. AllWhole /\ NdTold
  BY <1>1 DEF AllWhole, NdTold, TxView, Done
<1> QED
  BY <1>5, <1>6, <1>7, <1>8 DEF EthInv

(* Every step keeps it. *)
LEMMA EthInvNext ==
  ASSUME EthRare = {} PROVE EthInv /\ [EthNext]_ethVars => EthInv'
<1> SUFFICES ASSUME EthInv, [EthNext]_ethVars PROVE EthInv'
  OBVIOUS
<1>1. CASE EthTick
  BY <1>1, TickKeeps
<1>2. CASE FrameArrives
  BY <1>2, FrameArrivesKeeps
<1>3. CASE LanceStop
  BY <1>3, LanceStopKeeps
<1>4. CASE LanceStart
  BY <1>4, LanceStartKeeps
<1>5. CASE TakesBuffer
  BY <1>5, TakesBufferKeeps
<1>6. CASE BeginsFrame
  BY <1>6, BeginsFrameKeeps
<1>7. CASE FillsDescriptor
  BY <1>7, FillsDescriptorKeeps
<1>8. CASE WritesCsr0
  <2>1. PICK acked \in SUBSET lance.flags, inea \in BOOLEAN, demand \in BOOLEAN :
          WriteCsr0(acked, inea, demand)
    BY <1>8 DEF WritesCsr0
  <2> QED
    BY <2>1, WriteCsr0Keeps
<1>9. CASE NdInterrupt \/ EthIdent \/ EthReset
         \/ \E reset \in BOOLEAN, enable \in {FALSE, load.nd} : EthControl(enable, reset)
  BY <1>9, NdSideKeeps
<1>10. CASE UNCHANGED ethVars
  <2>1. /\ lance' = lance /\ rxd' = rxd /\ txd' = txd /\ rxQueue' = rxQueue /\ hostRing' = hostRing
        /\ fw' = fw /\ ndSide' = ndSide /\ load' = load /\ wire' = wire
    BY <1>10 DEF ethVars
  <2>2. Queued' /\ Coming' = Coming
    BY <2>1, QueuedKept DEF EthInv
  <2>3. RxGood(View, lance, rxd, Coming)'
    BY <2>1, <2>2, RxKept DEF EthInv
  <2>4. TxGood(TxView, lance, txd)' /\ AllWhole'
    BY <2>1, TxUntouched DEF EthInv
  <2>5. NdTold' /\ EthTypes'
    BY <2>1 DEF EthInv, NdTold, EthTypes
  <2> QED
    BY <2>2, <2>3, <2>4, <2>5 DEF EthInv
<1> QED
  BY <1>1, <1>2, <1>3, <1>4, <1>5, <1>6, <1>7, <1>8, <1>9, <1>10 DEF EthNext

(* It implies what the runs check. *)
LEMMA EthInvMeans == EthInv => EthInOrder /\ EthTold
<1> SUFFICES ASSUME EthInv PROVE EthInOrder /\ EthTold
  OBVIOUS
<1>1. LanceOK(lance) /\ lance.txpos \in Places /\ wire.taken \in Nat
  BY DEF EthInv, EthTypes, LanceOK, LanceState
<1>2. lance.txon /\ fw.unasked = 0 => ~txd[lance.txpos].own
  <2> SUFFICES ASSUME lance.txon, fw.unasked = 0 PROVE ~txd[lance.txpos].own
    OBVIOUS
  <2>1. ~lance.stop /\ EthTypes
    BY <1>1 DEF LanceOK, EthInv
  <2>2. PICK k \in 0 .. RingSize : TxHolds(TxView, txd, lance.txpos, k)
    BY <2>1 DEF EthInv, TxGood
  <2>3. Place(lance.txpos, 0) = lance.txpos /\ txd \in [Places -> Descriptor]
    BY <1>1, <2>1, Nought DEF EthTypes
  <2>4. k = 0
    <3> SUFFICES ASSUME k # 0 PROVE FALSE
      OBVIOUS
    <3>1. 0 \in 0 .. k - 1
      OBVIOUS
    <3>2. /\ Done(TxView) - TxView.unasked < txd[Place(lance.txpos, 0)].frame
          /\ txd[Place(lance.txpos, 0)].frame <= Done(TxView)
      BY <2>2, <3>1 DEF TxHolds, FramesReady
    <3>3. TxView.unasked = 0 /\ TxView.made \in Nat /\ txd[lance.txpos].frame \in Nat
      BY <1>1, <2>1, <2>3, ViewIs DEF ViewOK, Descriptor
    <3>4. Done(TxView) \in Int
      BY <3>3 DEF Done
    <3> QED
      BY <2>3, <3>2, <3>3, <3>4
  <2>5. 0 \in k .. RingSize - 1 /\ ~InHand(TxView, 0 - k)
    <3>1. TxView.left \in Int
      BY <2>1, ViewIs, RingIs DEF ViewOK
    <3> QED
      BY <2>4, <3>1, RingIs DEF InHand
  <2> QED
    BY <2>2, <2>3, <2>5 DEF TxHolds, Behind
<1>3. EthTold
  <2>1. lance.irq \in BOOLEAN /\ lance.inea \in BOOLEAN
    BY <1>1 DEF LanceOK, LanceState
  <2>2. lance.irq = (lance.inea /\ lance.flags # {})
    BY <1>1, <2>1 DEF LanceOK
  <2> QED
    BY <2>2 DEF EthInv, NdTold, EthTold
<1>4. wire.taken # -1 /\ wire.whole
  BY <1>1 DEF EthInv, AllWhole
<1> QED
  BY <1>2, <1>3, <1>4 DEF EthInOrder

(* EthInv is an invariant of the card when EthRare is empty: the firmware  *)
(* fills the buffers of a frame from the last to the first.                *)
THEOREM EthInvAlways ==
  ASSUME EthRare = {} PROVE EthSpec => []EthInv
<1>1. EthInit => EthInv
  BY EthInvInit
<1>2. EthInv /\ [EthNext]_ethVars => EthInv'
  BY EthInvNext
<1> QED
  BY <1>1, <1>2, PTL DEF EthSpec

(* Received frames reach the firmware in order and whole or marked, sent   *)
(* ones go out whole, once and in order, and none stays behind once the    *)
(* firmware has asked for as many polls as it has given frames, whenever   *)
(* it writes CSR0: for every size of rings and queues and every number of  *)
(* frames (part of DataInOrder).                                           *)
THEOREM EthFramesInOrder ==
  ASSUME EthRare = {} PROVE EthSpec => []EthInOrder
<1>1. EthInv => EthInOrder
  BY EthInvMeans
<1> QED
  BY <1>1, EthInvAlways, PTL

(* The LANCE's interrupt line follows its registers and a pending          *)
(* interrupt of the card has reached the ND-100 when it may (part of       *)
(* InterruptsTold).                                                        *)
THEOREM EthIsTold ==
  ASSUME EthRare = {} PROVE EthSpec => []EthTold
<1>1. EthInv => EthTold
  BY EthInvMeans
<1> QED
  BY <1>1, EthInvAlways, PTL
-----------------------------------------------------------------------------
(* The network link: types. *)
LinkTypeOK ==
  /\ net \in [started : BOOLEAN, stop : BOOLEAN, active : BOOLEAN, conn : BOOLEAN]
  /\ reader \in {"none", "waits", "shakes", "up", "greets", "reads", "down", "clears",
                 "closes", "ended"}
  /\ sender \in {"idle", "locks", "header", "data", "failed", "stops", "joins"}
  /\ tcp \in {"none", "open", "cut"} /\ late \in BOOLEAN

(* What the flags mean at each place of the link's thread. *)
ReaderAgrees ==
  /\ net.started <=> reader # "none"
  /\ net.conn <=> reader \in {"greets", "reads", "down", "clears"}
  /\ tcp = "none" <=> reader \in {"none", "waits", "ended"}
  /\ net.active => reader \in {"reads", "down"}
  /\ reader = "ended" => net.stop

(* What a send that has begun may rely on, and that only a late one harms the *)
(* connection in use: late, if it has no socket yet or found none.           *)
SenderAgrees ==
  /\ sender \in {"locks", "header", "data", "failed"} => reader # "none"
  /\ ~Unlocked => net.conn
  /\ sender = "locks" /\ reader = "up" => late
  /\ sender = "locks" /\ reader = "reads" => net.active
  /\ sender = "failed" /\ reader \in {"up", "greets", "reads"} => tcp = "cut" \/ late
  /\ net.started => (net.stop <=> sender \in {"stops", "joins"})
  /\ ~net.started => sender = "idle"
  /\ reader = "reads" /\ tcp = "open" /\ ~net.stop => net.active \/ late

LinkInv == LinkTypeOK /\ ReaderAgrees /\ SenderAgrees
-----------------------------------------------------------------------------
(* The invariant holds at the start: nothing is started. *)
LEMMA LinkInvInit == LinkInit => LinkInv
<1> SUFFICES ASSUME LinkInit PROVE LinkInv
  OBVIOUS
<1>1. LinkTypeOK
  BY DEF LinkInit, LinkTypeOK
<1>2. ReaderAgrees /\ SenderAgrees
  BY DEF LinkInit, ReaderAgrees, SenderAgrees, Unlocked
<1> QED
  BY <1>1, <1>2 DEF LinkInv

(* No step of either thread breaks it. *)
LEMMA LinkInvNext == LinkInv /\ [LinkNext]_linkVars => LinkInv'
<1> SUFFICES ASSUME LinkInv, [LinkNext]_linkVars PROVE LinkInv'
  OBVIOUS
<1> USE DEF LinkInv, LinkTypeOK, ReaderAgrees, SenderAgrees, Unlocked
<1>1. CASE NextPeer
  BY <1>1 DEF NextPeer
<1>2. CASE ThreadEnds
  BY <1>2 DEF ThreadEnds
<1>3. CASE TcpHandshake
  BY <1>3 DEF TcpHandshake
<1>4. CASE PublishConn
  BY <1>4 DEF PublishConn
<1>5. CASE SetActive
  BY <1>5 DEF SetActive
<1>6. CASE ReadEnds
  BY <1>6 DEF ReadEnds
<1>7. CASE ClearActive
  BY <1>7 DEF ClearActive
<1>8. CASE ClearConn
  BY <1>8 DEF ClearConn
<1>9. CASE CloseSocket
  BY <1>9 DEF CloseSocket
<1>10. CASE PeerLeaves
  BY <1>10 DEF PeerLeaves
<1>11. CASE SendBegins
  BY <1>11 DEF SendBegins
<1>12. CASE SendLocks
  <2>1. LinkTypeOK' /\ ReaderAgrees'
    BY <1>12 DEF SendLocks
  <2>2. CASE net.conn = TRUE
    <3>1. sender = "locks" /\ sender' = "header" /\ UNCHANGED <<net, reader, tcp>>
      BY <1>12, <2>2 DEF SendLocks
    <3>2. late' = FALSE
      BY <1>12, <2>2 DEF SendLocks
    <3> QED
      BY <2>1, <2>2, <3>1, <3>2
  <2>3. CASE net.conn = FALSE
    <3>1. sender' = "failed" /\ late' = late /\ UNCHANGED <<net, reader, tcp>> /\ sender = "locks"
      BY <1>12, <2>3 DEF SendLocks
    <3> QED
      BY <2>1, <2>3, <3>1
  <2> QED
    BY <2>2, <2>3
<1>13. CASE SendWrites
  BY <1>13 DEF SendWrites
<1>14. CASE SendFailed
  BY <1>14 DEF SendFailed
<1>15. CASE NetStart
  BY <1>15 DEF NetStart
<1>16. CASE NetStop
  BY <1>16 DEF NetStop
<1>17. CASE NetStopEnds
  BY <1>17 DEF NetStopEnds
<1>18. CASE UNCHANGED linkVars
  BY <1>18 DEF linkVars
<1> QED
  BY <1>1, <1>2, <1>3, <1>4, <1>5, <1>6, <1>7, <1>8, <1>9, <1>10, <1>11, <1>12, <1>13,
     <1>14, <1>15, <1>16, <1>17, <1>18 DEF LinkNext, LinkThread

(* No frame is written to a socket that is closed, a link that is up is      *)
(* active unless a send of an earlier connection has cleared its flag, and a *)
(* stopped link leaves nothing: in eth_net.c, for any number of connections, *)
(* failures and restarts.                                                    *)
THEOREM LinksAreSound == LinkSpec => []LinksSound
<1>1. LinkInv => LinksSound
  BY DEF LinkInv, LinkTypeOK, ReaderAgrees, SenderAgrees, LinksSound, Unlocked
<1> QED
  BY LinkInvInit, LinkInvNext, <1>1, PTL DEF LinkSpec
-----------------------------------------------------------------------------
(* The HDLC card.  The receiver works on a copy of one block's key while its *)
(* driver takes full blocks and gives them back; the invariant says where    *)
(* in the list each of them is, and what lies between them.                  *)

(* A block's content: the frame's number and 0 for a whole frame, 1 and 2  *)
(* for its halves.                                                         *)
Piece == Nat \X (0..2)
RxFrame == [n : Nat, size : 1..2, good : BOOLEAN]
RxStatus == {"active", "empty", "overrun", "end", "request"}
KeyLoaded == {"none", "empty", "full"}
ReceiverType == [ctl : SUBSET {"dma", "ie", "ends"}, st : SUBSET RxStatus, irq : BOOLEAN,
                 buf : Seq(RxFrame), ptr : {0}, off : Blocks, dcb : KeyLoaded]
KeyList == {k \in [Blocks \cup {EndBlock} -> {"empty", "full", "new list"}] :
              k[EndBlock] = "new list" /\ \A b \in Blocks : k[b] \in {"empty", "full"}}
RxMemory == [key : KeyList, held : [Blocks -> Piece]]

(* The place after o, and the place i after p, in a list that begins       *)
(* again at its end.                                                       *)
NextPlace(o) == IF o + 1 = RxBlocks THEN 0 ELSE o + 1
PlaceFrom(p, i) == IF p + i < RxBlocks THEN p + i ELSE p + i - RxBlocks

(* Blocks are numbered from 0, and the end of the list is no block. *)
LEMMA BlockNumbers ==
  /\ RxBlocks \in Nat /\ RxBlocks > 0
  /\ \A i : i \in Blocks <=> i \in Int /\ 0 <= i /\ i < RxBlocks
  /\ EndBlock = RxBlocks /\ EndBlock \notin Blocks
<1>1. RxBlocks \in Nat \ {0}
  BY HdlcAssumption
<1> QED
  BY <1>1 DEF Blocks, EndBlock

(* The end of the list has the "new list" key and no block has it. *)
LEMMA KeyTypes ==
  ASSUME NEW k \in KeyList
  PROVE  /\ k \in [Blocks \cup {EndBlock} -> {"empty", "full", "new list"}]
         /\ k[RxBlocks] = "new list"
         /\ \A b \in Blocks : k[b] \in {"empty", "full"}
BY BlockNumbers DEF KeyList

(* dmacb_load_buffer_description() changes the copy of the key only. *)
LEMMA LoadedIs ==
  ASSUME NEW r, NEW m, NEW x, x = m.key[r.ptr + r.off]
  PROVE  LoadRx([r |-> r, m |-> m]) = [r |-> [r EXCEPT !.dcb = x], m |-> m]
<1>1. [r |-> r, m |-> m].m.key[At([r |-> r, m |-> m])] = x
  BY DEF At
<1>2. LoadRx([r |-> r, m |-> m]) = [[r |-> r, m |-> m] EXCEPT !.r.dcb = x]
  BY <1>1 DEF LoadRx
<1> QED
  BY <1>2

(* dmacb_load_next_rx_buffer() goes to the next place around the list. *)
LEMMA NextLoaded ==
  ASSUME NEW r \in ReceiverType, NEW m \in RxMemory, NEW k \in KeyList, k = m.key
  PROVE  /\ LoadNextRx([r |-> r, m |-> m])
              = [r |-> [r EXCEPT !.off = NextPlace(r.off), !.dcb = k[NextPlace(r.off)]], m |-> m]
         /\ [r EXCEPT !.off = NextPlace(r.off), !.dcb = k[NextPlace(r.off)]] \in ReceiverType
         /\ NextPlace(r.off) \in Blocks
<1> DEFINE s == [r |-> r, m |-> m]
           o == r.off + 1
           next == LoadRx([s EXCEPT !.r.off = @ + 1])
           from == LoadRx([next EXCEPT !.r.off = 0])
           G == LoadNextRx(s)
                  = [r |-> [r EXCEPT !.off = NextPlace(r.off), !.dcb = k[NextPlace(r.off)]], m |-> m]
<1>0. r.ptr = 0 /\ r.off \in Blocks
  BY DEF ReceiverType
<1>n. r.off \in Int /\ r.off < RxBlocks /\ 0 <= r.off /\ RxBlocks \in Nat /\ RxBlocks > 0
  BY <1>0, BlockNumbers
<1>l. LoadNextRx(s) = IF next.r.dcb = "new list" THEN from ELSE next
  BY DEF LoadNextRx
<1>1. next = [r |-> [r EXCEPT !.off = o, !.dcb = k[o]], m |-> m]
  <2> DEFINE r1 == [r EXCEPT !.off = o]
  <2>1. [s EXCEPT !.r.off = @ + 1] = [r |-> r1, m |-> m]
    OBVIOUS
  <2>2. r1.ptr = 0 /\ r1.off = o
    BY <1>0 DEF ReceiverType
  <2>3. k[o] = m.key[r1.ptr + r1.off]
    <3> HIDE DEF r1
    <3> QED
      BY <2>2, <1>n
  <2>4. next = [r |-> [r1 EXCEPT !.dcb = k[o]], m |-> m]
    <3> HIDE DEF r1
    <3> QED
      BY <2>1, <2>3, LoadedIs
  <2> QED
    BY <2>4 DEF ReceiverType
<1> HIDE DEF next
<1>2. next.r.dcb = k[o]
  BY <1>1 DEF ReceiverType
<1>3. ASSUME o = RxBlocks PROVE G
  <2> DEFINE r1 == [r EXCEPT !.off = 0, !.dcb = k[o]]
  <2>q. PICK q : next = [r |-> q, m |-> m] /\ q = [r EXCEPT !.off = o, !.dcb = k[o]]
    BY <1>1
  <2>r. [q EXCEPT !.off = 0] = r1
    BY <2>q DEF ReceiverType
  <2>1. [next EXCEPT !.r.off = 0] = [r |-> r1, m |-> m]
    BY <2>q, <2>r
  <2>2. r1.ptr = 0 /\ r1.off = 0
    BY <1>0 DEF ReceiverType
  <2>3. k[0] = m.key[r1.ptr + r1.off]
    <3> HIDE DEF r1
    <3> QED
      BY <2>2
  <2>4. from = [r |-> [r1 EXCEPT !.dcb = k[0]], m |-> m]
    <3> HIDE DEF r1
    <3> QED
      BY <2>1, <2>3, LoadedIs
  <2>5. from = [r |-> [r EXCEPT !.off = 0, !.dcb = k[0]], m |-> m]
    BY <2>4 DEF ReceiverType
  <2>6. next.r.dcb = "new list"
    BY <1>2, <1>3, KeyTypes
  <2> HIDE DEF from
  <2> QED
    BY <2>5, <2>6, <1>l, <1>3 DEF NextPlace
<1>4. ASSUME o # RxBlocks PROVE G
  <2>1. o \in Blocks
    BY <1>n, <1>4, BlockNumbers
  <2>2. next.r.dcb # "new list"
    BY <1>2, <2>1, KeyTypes
  <2>3. LoadNextRx(s) = next
    BY <2>2, <1>l
  <2> QED
    BY <1>1, <1>4, <2>3 DEF NextPlace
<1>6. NextPlace(r.off) \in Blocks
  BY <1>n, BlockNumbers DEF NextPlace
<1>7. k[NextPlace(r.off)] \in KeyLoaded
  BY <1>6, KeyTypes DEF KeyLoaded
<1>8. [r EXCEPT !.off = NextPlace(r.off), !.dcb = k[NextPlace(r.off)]] \in ReceiverType
  BY <1>6, <1>7 DEF ReceiverType
<1> QED
  BY <1>3, <1>4, <1>6, <1>8

(* dma_receiver_set_rxdma_flag() sets the flags, forgets neither           *)
(* LIST_EMPTY nor a raised interrupt, and raises one when interrupts are   *)
(* on and the list or a frame has ended.                                   *)
LEMMA FlagSet ==
  ASSUME NEW r \in ReceiverType, NEW m \in RxMemory, NEW flags \in SUBSET RxStatus
  PROVE  \E st \in SUBSET RxStatus, irq \in BOOLEAN :
           /\ SetRxFlag([r |-> r, m |-> m], flags) = [r |-> [r EXCEPT !.st = st, !.irq = irq], m |-> m]
           /\ [r EXCEPT !.st = st, !.irq = irq] \in ReceiverType
           /\ flags \subseteq st
           /\ "empty" \in r.st => "empty" \in st
           /\ r.irq => irq
           /\ "ie" \in r.ctl /\ ("empty" \in st \ r.st \/ "empty" \in flags
                \/ ("end" \in flags /\ "ends" \in r.ctl)) => irq
<1> DEFINE s == [r |-> r, m |-> m]
           status == FlagStatus(s, flags)
           irq == r.irq \/ ("ie" \in r.ctl /\ "request" \in status)
<1>1. SetRxFlag(s, flags) = [r |-> [r EXCEPT !.st = status, !.irq = irq], m |-> m]
  <2> HIDE DEF status
  <2>1. SetRxFlag(s, flags) = [s EXCEPT !.r.st = status, !.r.irq = s.r.irq
           \/ ("ie" \in s.r.ctl /\ "request" \in status)]
    BY DEF SetRxFlag, status
  <2>2. s.r = r /\ irq = (s.r.irq \/ ("ie" \in s.r.ctl /\ "request" \in status))
    OBVIOUS
  <2> HIDE DEF irq
  <2>3. SetRxFlag(s, flags) = [s EXCEPT !.r.st = status, !.r.irq = irq]
    BY <2>1, <2>2
  <2> QED
    BY <2>3 DEF ReceiverType
<1>2. /\ status \in SUBSET RxStatus
      /\ flags \subseteq status
      /\ "empty" \in r.st => "empty" \in status
      /\ "empty" \in status \ r.st \/ "empty" \in flags => "request" \in status
      /\ "end" \in flags /\ "ends" \in r.ctl => "request" \in status
  BY DEF FlagStatus, ReceiverType, RxStatus
<1> HIDE DEF s, status
<1>3. irq \in BOOLEAN
  BY DEF ReceiverType
<1>4. /\ r.irq => irq
      /\ "ie" \in r.ctl /\ ("empty" \in status \ r.st \/ "empty" \in flags
           \/ ("end" \in flags /\ "ends" \in r.ctl)) => irq
  BY <1>2
<1> HIDE DEF irq
<1>5. [r EXCEPT !.st = status, !.irq = irq] \in ReceiverType
  BY <1>2, <1>3 DEF ReceiverType
<1> QED
  BY <1>1, <1>2, <1>3, <1>4, <1>5 DEF s

(* Counting RxBlocks places from p visits every block once. *)
LEMMA PlaceFacts ==
  ASSUME NEW p \in Blocks
  PROVE  /\ \A i \in Blocks : PlaceFrom(p, i) \in Blocks
         /\ \A i, j \in Blocks : PlaceFrom(p, i) = PlaceFrom(p, j) => i = j
         /\ \A b \in Blocks : \E i \in Blocks : b = PlaceFrom(p, i)
         /\ PlaceFrom(p, RxBlocks) = p /\ PlaceFrom(p, 0) = p
         /\ \A i \in Blocks : NextPlace(PlaceFrom(p, i)) = PlaceFrom(p, i + 1)
<1>1. p \in Int /\ 0 <= p /\ p < RxBlocks /\ RxBlocks \in Nat
  BY BlockNumbers
<1>2. \A i : i \in Blocks <=> i \in Int /\ 0 <= i /\ i < RxBlocks
  BY BlockNumbers
<1>3. ASSUME NEW b \in Blocks PROVE \E i \in Blocks : b = PlaceFrom(p, i)
  <2>1. CASE b >= p
    <3>1. b - p \in Blocks /\ b = PlaceFrom(p, b - p)
      BY <1>1, <1>2, <2>1 DEF PlaceFrom
    <3> QED
      BY <3>1
  <2>2. CASE b < p
    <3>1. (b - p) + RxBlocks \in Blocks /\ b = PlaceFrom(p, (b - p) + RxBlocks)
      BY <1>1, <1>2, <2>2 DEF PlaceFrom
    <3> QED
      BY <3>1
  <2> QED
    BY <1>1, <1>2, <2>1, <2>2
<1>4. \A i \in Blocks : PlaceFrom(p, i) \in Blocks
  BY <1>1, <1>2 DEF PlaceFrom
<1>5. \A i, j \in Blocks : PlaceFrom(p, i) = PlaceFrom(p, j) => i = j
  BY <1>1, <1>2 DEF PlaceFrom
<1>6. PlaceFrom(p, RxBlocks) = p /\ PlaceFrom(p, 0) = p
  BY <1>1 DEF PlaceFrom
<1>7. \A i \in Blocks : NextPlace(PlaceFrom(p, i)) = PlaceFrom(p, i + 1)
  BY <1>1, <1>2 DEF PlaceFrom, NextPlace
<1> QED
  BY <1>3, <1>4, <1>5, <1>6, <1>7

(* From block p on the list holds the pieces h, and empty blocks after     *)
(* them.                                                                   *)
RxHolds(m, p, h) ==
  /\ h \in Seq(Piece) /\ Len(h) <= RxBlocks
  /\ \A i \in Blocks :
       /\ m.key[PlaceFrom(p, i)] = IF i < Len(h) THEN "full" ELSE "empty"
       /\ i < Len(h) => m.held[PlaceFrom(p, i)] = h[i + 1]

(* The receiver's copy of the key is "empty" only at the first block       *)
(* after h, and "full" only when the list is, which its status says.       *)
RxReady(r, p, h) ==
  /\ r.dcb \in {"empty", "full"}
  /\ r.dcb = "empty" => Len(h) < RxBlocks /\ r.off = PlaceFrom(p, Len(h))
  /\ r.dcb = "full" => Len(h) = RxBlocks /\ "empty" \in r.st

(* The length of a sequence is a number, without the other facts about     *)
(* it.                                                                     *)
LEMMA Lengths == ASSUME NEW h \in Seq(Piece) PROVE Len(h) \in Nat
OBVIOUS

(* dmacb_mark_buffer_received() at the first empty block adds its piece    *)
(* to those held.                                                          *)
LEMMA Marked ==
  ASSUME NEW r \in ReceiverType, NEW m \in RxMemory, NEW p \in Blocks, NEW h, NEW x \in Piece,
         RxHolds(m, p, h), Len(h) < RxBlocks, r.off = PlaceFrom(p, Len(h))
  PROVE  \E m2 \in RxMemory :
           /\ Mark([r |-> r, m |-> m], x) = [r |-> [r EXCEPT !.dcb = "full"], m |-> m2]
           /\ [r EXCEPT !.dcb = "full"] \in ReceiverType
           /\ RxHolds(m2, p, Append(h, x))
<1> DEFINE s == [r |-> r, m |-> m]
           m2 == [key |-> [m.key EXCEPT ![r.off] = "full"], held |-> [m.held EXCEPT ![r.off] = x]]
<1>1. r.ptr = 0 /\ r.off \in Blocks /\ r.off \in Int
  BY BlockNumbers DEF ReceiverType
<1>2. At(s) = r.off
  BY <1>1 DEF At
<1>3. Mark(s, x) = [[[s EXCEPT !.m.key[r.off] = "full"] EXCEPT !.m.held[r.off] = x] EXCEPT !.r.dcb = "full"]
  BY <1>2 DEF Mark
<1>4. Mark(s, x) = [r |-> [r EXCEPT !.dcb = "full"], m |-> m2]
  BY <1>3, ZenonT(60) DEF RxMemory
<1>5. [r EXCEPT !.dcb = "full"] \in ReceiverType
  BY DEF ReceiverType, KeyLoaded
<1>6. m2 \in RxMemory
  BY <1>1, BlockNumbers DEF RxMemory, KeyList
<1>7. RxHolds(m2, p, Append(h, x))
  <2>1. h \in Seq(Piece) /\ Len(h) \in Nat /\ Append(h, x) \in Seq(Piece)
        /\ Len(Append(h, x)) = Len(h) + 1
    BY DEF RxHolds
  <2>2. \A i \in Blocks : i + 1 \in 1..Len(h) => Append(h, x)[i + 1] = h[i + 1]
    BY <2>1
  <2>3. Append(h, x)[Len(h) + 1] = x
    BY <2>1
  <2>4. Len(h) \in Blocks
    BY <2>1, BlockNumbers
  <2>5. ASSUME NEW i \in Blocks
        PROVE  /\ m2.key[PlaceFrom(p, i)] = IF i < Len(h) + 1 THEN "full" ELSE "empty"
               /\ i < Len(h) + 1 => m2.held[PlaceFrom(p, i)] = Append(h, x)[i + 1]
    <3>1. i \in Int /\ 0 <= i
      BY BlockNumbers
    <3>2. PlaceFrom(p, i) \in Blocks /\ (PlaceFrom(p, i) = r.off <=> i = Len(h))
      <4>1. /\ \A a \in Blocks : PlaceFrom(p, a) \in Blocks
            /\ \A a, b \in Blocks : PlaceFrom(p, a) = PlaceFrom(p, b) => a = b
        BY PlaceFacts
      <4> QED
        BY <2>4, <4>1
    <3>3. /\ m2.key[PlaceFrom(p, i)] = IF i = Len(h) THEN "full" ELSE m.key[PlaceFrom(p, i)]
          /\ m2.held[PlaceFrom(p, i)] = IF i = Len(h) THEN x ELSE m.held[PlaceFrom(p, i)]
      BY <3>2 DEF RxMemory, KeyList
    <3>4. /\ m.key[PlaceFrom(p, i)] = IF i < Len(h) THEN "full" ELSE "empty"
          /\ i < Len(h) => m.held[PlaceFrom(p, i)] = h[i + 1]
      BY DEF RxHolds
    <3> HIDE DEF m2
    <3> QED
      BY <2>1, <2>2, <2>3, <3>1, <3>3, <3>4
  <2>6. Len(h) + 1 <= RxBlocks
    BY <2>1, BlockNumbers
  <2> HIDE DEF m2
  <2> QED
    BY <2>1, <2>5, <2>6 DEF RxHolds
<1> QED
  BY <1>4, <1>5, <1>6, <1>7

(* After the last piece the receiver finds an empty block unless the list  *)
(* is full.                                                                *)
LEMMA NextMarked ==
  ASSUME NEW r \in ReceiverType, NEW m \in RxMemory, NEW p \in Blocks, NEW h,
         RxHolds(m, p, h), Len(h) > 0, r.off = PlaceFrom(p, Len(h) - 1)
  PROVE  \E d \in {"empty", "full"} :
           /\ LoadNextRx([r |-> r, m |-> m])
                = [r |-> [r EXCEPT !.off = PlaceFrom(p, Len(h)), !.dcb = d], m |-> m]
           /\ [r EXCEPT !.off = PlaceFrom(p, Len(h)), !.dcb = d] \in ReceiverType
           /\ d = "empty" <=> Len(h) < RxBlocks
<1>1. Len(h) \in Nat /\ Len(h) <= RxBlocks /\ Len(h) - 1 \in Blocks
  BY BlockNumbers DEF RxHolds
<1>2. NextPlace(r.off) = PlaceFrom(p, Len(h))
  BY <1>1, PlaceFacts
<1>3. m.key \in KeyList
  BY DEF RxMemory
<1>4. m.key[PlaceFrom(p, Len(h))] = IF Len(h) < RxBlocks THEN "empty" ELSE "full"
  <2>1. CASE Len(h) < RxBlocks
    BY <1>1, <2>1, BlockNumbers DEF RxHolds
  <2>2. CASE Len(h) = RxBlocks
    <3>1. 0 \in Blocks /\ 0 < Len(h)
      BY BlockNumbers
    <3>2. PlaceFrom(p, Len(h)) = p /\ PlaceFrom(p, 0) = p
      BY <2>2, PlaceFacts
    <3>3. m.key[PlaceFrom(p, 0)] = "full"
      BY <3>1 DEF RxHolds
    <3> QED
      BY <2>2, <3>2, <3>3
  <2> QED
    BY <1>1, <2>1, <2>2, BlockNumbers
<1> QED
  BY <1>2, <1>3, <1>4, NextLoaded

(* q is r but for status, place and a raised interrupt. *)
Like(q, r) == q.ctl = r.ctl /\ q.buf = r.buf /\ (r.irq => q.irq)

(* FlagSet, for a reader who needs not know the status. *)
LEMMA Flagged ==
  ASSUME NEW r \in ReceiverType, NEW m \in RxMemory, NEW flags \in SUBSET RxStatus
  PROVE  \E q \in ReceiverType :
           /\ SetRxFlag([r |-> r, m |-> m], flags) = [r |-> q, m |-> m]
           /\ Like(q, r) /\ q.off = r.off /\ q.dcb = r.dcb /\ flags \subseteq q.st
           /\ {"ie", "ends"} \subseteq r.ctl /\ "end" \in flags => q.irq
<1>1. PICK st \in SUBSET RxStatus, irq \in BOOLEAN :
           /\ SetRxFlag([r |-> r, m |-> m], flags) = [r |-> [r EXCEPT !.st = st, !.irq = irq], m |-> m]
           /\ [r EXCEPT !.st = st, !.irq = irq] \in ReceiverType
           /\ flags \subseteq st
           /\ "empty" \in r.st => "empty" \in st
           /\ r.irq => irq
           /\ "ie" \in r.ctl /\ ("empty" \in st \ r.st \/ "empty" \in flags
                \/ ("end" \in flags /\ "ends" \in r.ctl)) => irq
  BY FlagSet
<1> DEFINE q == [r EXCEPT !.st = st, !.irq = irq]
<1>2. q.ctl = r.ctl /\ q.buf = r.buf /\ q.off = r.off /\ q.dcb = r.dcb /\ q.st = st /\ q.irq = irq
  BY DEF ReceiverType
<1> HIDE DEF q
<1> QED
  BY <1>1, <1>2 DEF q, Like

(* Marked, as a step to a receiver that is like the one before. *)
LEMMA PieceStored ==
  ASSUME NEW r \in ReceiverType, NEW m \in RxMemory, NEW p \in Blocks, NEW h, NEW x \in Piece,
         RxHolds(m, p, h), Len(h) < RxBlocks, r.off = PlaceFrom(p, Len(h))
  PROVE  \E q \in ReceiverType, m2 \in RxMemory :
           /\ Mark([r |-> r, m |-> m], x) = [r |-> q, m |-> m2]
           /\ Like(q, r) /\ q.off = r.off /\ q.dcb = "full" /\ RxHolds(m2, p, Append(h, x))
<1> DEFINE q == [r EXCEPT !.dcb = "full"]
<1>1. q.ctl = r.ctl /\ q.buf = r.buf /\ q.irq = r.irq /\ q.off = r.off /\ q.dcb = "full"
  BY DEF ReceiverType
<1>2. \E m2 \in RxMemory : Mark([r |-> r, m |-> m], x) = [r |-> q, m |-> m2]
                           /\ q \in ReceiverType /\ RxHolds(m2, p, Append(h, x))
  BY Marked
<1> HIDE DEF q
<1> QED
  BY <1>1, <1>2 DEF Like

(* The receiver stands at the last piece, or anywhere in a full list. *)
AtLast(r, p, h) == Len(h) > 0 /\ (r.off = PlaceFrom(p, Len(h) - 1) \/ Len(h) = RxBlocks)

(* NextMarked, wherever the receiver stands in a full list. *)
LEMMA Advanced ==
  ASSUME NEW r \in ReceiverType, NEW m \in RxMemory, NEW p \in Blocks, NEW h,
         RxHolds(m, p, h), AtLast(r, p, h)
  PROVE  \E q \in ReceiverType :
           /\ LoadNextRx([r |-> r, m |-> m]) = [r |-> q, m |-> m]
           /\ Like(q, r)
           /\ \/ q.dcb = "empty" /\ Len(h) < RxBlocks /\ q.off = PlaceFrom(p, Len(h))
              \/ q.dcb = "full" /\ Len(h) = RxBlocks
<1>0. /\ Len(h) \in Nat /\ Len(h) <= RxBlocks
      /\ Len(h) > 0 /\ (r.off = PlaceFrom(p, Len(h) - 1) \/ Len(h) = RxBlocks)
  BY DEF RxHolds, AtLast
<1>1. CASE Len(h) < RxBlocks
  <2>1. r.off = PlaceFrom(p, Len(h) - 1)
    BY <1>0, <1>1, BlockNumbers
  <2>2. PICK d \in {"empty", "full"} :
           /\ LoadNextRx([r |-> r, m |-> m])
                = [r |-> [r EXCEPT !.off = PlaceFrom(p, Len(h)), !.dcb = d], m |-> m]
           /\ [r EXCEPT !.off = PlaceFrom(p, Len(h)), !.dcb = d] \in ReceiverType
           /\ d = "empty" <=> Len(h) < RxBlocks
    BY <1>0, <2>1, NextMarked
  <2> DEFINE q == [r EXCEPT !.off = PlaceFrom(p, Len(h)), !.dcb = d]
  <2>3. q.ctl = r.ctl /\ q.buf = r.buf /\ q.irq = r.irq /\ q.off = PlaceFrom(p, Len(h)) /\ q.dcb = d
    BY DEF ReceiverType
  <2> HIDE DEF q
  <2> QED
    BY <1>1, <2>2, <2>3 DEF q, Like
<1>2. CASE Len(h) = RxBlocks
  <2> DEFINE k == m.key
             q == [r EXCEPT !.off = NextPlace(r.off), !.dcb = k[NextPlace(r.off)]]
  <2>1. k \in KeyList
    BY DEF RxMemory
  <2>2. LoadNextRx([r |-> r, m |-> m]) = [r |-> q, m |-> m] /\ q \in ReceiverType
           /\ NextPlace(r.off) \in Blocks
    BY <2>1, NextLoaded
  <2>3. PICK i \in Blocks : NextPlace(r.off) = PlaceFrom(p, i)
    BY <2>2, PlaceFacts
  <2>4. i < Len(h)
    BY <1>2, BlockNumbers
  <2>5. k[NextPlace(r.off)] = "full"
    BY <2>3, <2>4 DEF RxHolds
  <2>6. q.ctl = r.ctl /\ q.buf = r.buf /\ q.irq = r.irq /\ q.dcb = "full"
    BY <2>5 DEF ReceiverType
  <2> HIDE DEF q
  <2> QED
    BY <1>2, <2>2, <2>6 DEF Like
<1>3. Len(h) < RxBlocks \/ Len(h) = RxBlocks
  BY <1>0, BlockNumbers
<1> QED
  BY <1>1, <1>2, <1>3

(* h2 is h with frame n: in one block, in two, or its first half in the    *)
(* last block.                                                             *)
Takes(h, h2, n) ==
  \/ h2 = Append(h, <<n, 0>>)
  \/ h2 = Append(Append(h, <<n, 1>>), <<n, 2>>)
  \/ h2 = Append(h, <<n, 1>>) /\ Len(h2) = RxBlocks

(* One piece more. *)
LEMMA Longer ==
  ASSUME NEW m, NEW p, NEW h, RxHolds(m, p, h), NEW x \in Piece
  PROVE  Len(Append(h, x)) = Len(h) + 1 /\ Len(h) \in Nat /\ Append(h, x) \in Seq(Piece)
BY DEF RxHolds

(* dma_receiver_process_complete_frame() stores a frame whose check sum    *)
(* is right.                                                               *)
LEMMA FrameTaken ==
  ASSUME NEW r \in ReceiverType, NEW m \in RxMemory, NEW p \in Blocks, NEW h,
         NEW f \in RxFrame, f.good = TRUE,
         RxHolds(m, p, h), Len(h) < RxBlocks, r.off = PlaceFrom(p, Len(h))
  PROVE  \E q \in ReceiverType, m2 \in RxMemory, h2 \in Seq(Piece) :
           /\ ProcessFrame([r |-> r, m |-> m], f) = [r |-> q, m |-> m2]
           /\ Like(q, r) /\ ({"ie", "ends"} \subseteq r.ctl => q.irq)
           /\ RxHolds(m2, p, h2) /\ Takes(h, h2, f.n)
           /\ AtLast(q, p, h2)
<1> DEFINE s == [r |-> r, m |-> m]
           end == {"end", "active"}
           first == SetRxFlag(Mark(s, <<f.n, 1>>), end)
           second == LoadNextRx(first)
<1>1. /\ <<f.n, 0>> \in Piece /\ <<f.n, 1>> \in Piece /\ <<f.n, 2>> \in Piece
      /\ Len(h) \in Nat
      /\ end \in SUBSET RxStatus /\ {"empty"} \in SUBSET RxStatus
           /\ {"empty", "overrun"} \in SUBSET RxStatus
      /\ "end" \in end
  BY DEF Piece, RxFrame, RxHolds, RxStatus
<1> HIDE DEF end
<1> DEFINE G(q, m2, h2) ==
             /\ ProcessFrame(s, f) = [r |-> q, m |-> m2]
             /\ Like(q, r) /\ ({"ie", "ends"} \subseteq r.ctl => q.irq)
             /\ RxHolds(m2, p, h2) /\ Takes(h, h2, f.n)
             /\ AtLast(q, p, h2)
<1>2. ASSUME f.size = 1 PROVE \E q \in ReceiverType, m2 \in RxMemory, h2 \in Seq(Piece) : G(q, m2, h2)
  <2> DEFINE x == <<f.n, 0>>
  <2> x \in Piece
    BY <1>1
  <2> HIDE DEF x
  <2>1. ProcessFrame(s, f) = SetRxFlag(Mark(s, x), end)
    BY <1>2 DEF ProcessFrame, EndOfFrame, end, x
  <2>2. PICK q1 \in ReceiverType, m2 \in RxMemory :
           /\ Mark(s, x) = [r |-> q1, m |-> m2]
           /\ Like(q1, r) /\ q1.off = r.off /\ q1.dcb = "full" /\ RxHolds(m2, p, Append(h, x))
    BY PieceStored
  <2>3. PICK q \in ReceiverType :
           /\ SetRxFlag([r |-> q1, m |-> m2], end) = [r |-> q, m |-> m2]
           /\ Like(q, q1) /\ q.off = q1.off /\ q.dcb = q1.dcb /\ end \subseteq q.st
           /\ {"ie", "ends"} \subseteq q1.ctl /\ "end" \in end => q.irq
    BY <1>1, Flagged, ZenonT(60)
  <2>4. Len(Append(h, x)) = Len(h) + 1
    BY Longer
  <2>5. Like(q, r) /\ ({"ie", "ends"} \subseteq r.ctl => q.irq) /\ q.off = PlaceFrom(p, Len(h))
    BY <1>1, <2>2, <2>3 DEF Like
  <2>6. Takes(h, Append(h, x), f.n)
    BY DEF Takes, x
  <2>7. Len(h) + 1 - 1 = Len(h) /\ Len(h) + 1 > 0
    BY <1>1
  <2>8. /\ ProcessFrame(s, f) = [r |-> q, m |-> m2]
        /\ Len(Append(h, x)) > 0 /\ q.off = PlaceFrom(p, Len(Append(h, x)) - 1)
    BY <2>1, <2>2, <2>3, <2>4, <2>5, <2>7
  <2>9. G(q, m2, Append(h, x))
    BY <2>2, <2>5, <2>6, <2>8 DEF AtLast
  <2> QED
    BY <2>9 DEF RxHolds
<1>3. ASSUME f.size # 1 PROVE \E q \in ReceiverType, m2 \in RxMemory, h2 \in Seq(Piece) : G(q, m2, h2)
  <2> DEFINE x == <<f.n, 1>>
             h1 == Append(h, x)
  <2> x \in Piece
    BY <1>1
  <2>1. ProcessFrame(s, f) = IF second.r.dcb = "empty" THEN SetRxFlag(Mark(second, <<f.n, 2>>), end)
                             ELSE SetRxFlag(SetRxFlag(second, {"empty"}), {"empty", "overrun"})
    BY <1>3 DEF ProcessFrame, EndOfFrame, end
  <2>2. PICK q1 \in ReceiverType, m1 \in RxMemory :
           /\ Mark(s, x) = [r |-> q1, m |-> m1]
           /\ Like(q1, r) /\ q1.off = r.off /\ q1.dcb = "full" /\ RxHolds(m1, p, h1)
    <3> HIDE DEF x
    <3> QED
      BY PieceStored
  <2>3. PICK q2 \in ReceiverType :
           /\ SetRxFlag([r |-> q1, m |-> m1], end) = [r |-> q2, m |-> m1]
           /\ Like(q2, q1) /\ q2.off = q1.off /\ q2.dcb = q1.dcb /\ end \subseteq q2.st
           /\ {"ie", "ends"} \subseteq q1.ctl /\ "end" \in end => q2.irq
    BY <1>1, Flagged, SMTT(60)
  <2>4. Len(h1) = Len(h) + 1 /\ Len(h) + 1 - 1 = Len(h) /\ Len(h) + 1 > 0
    <3> HIDE DEF x
    <3> QED
      BY <1>1, Longer
  <2>5. Like(q2, r) /\ ({"ie", "ends"} \subseteq r.ctl => q2.irq) /\ q2.off = PlaceFrom(p, Len(h1) - 1)
    <3> HIDE DEF h1
    <3> QED
      BY <1>1, <2>2, <2>3, <2>4 DEF Like
  <2>6. first = [r |-> q2, m |-> m1]
    <3> HIDE DEF end
    <3> QED
      BY <2>2, <2>3
  <2>7. PICK q3 \in ReceiverType :
           /\ LoadNextRx([r |-> q2, m |-> m1]) = [r |-> q3, m |-> m1]
           /\ Like(q3, q2)
           /\ \/ q3.dcb = "empty" /\ Len(h1) < RxBlocks /\ q3.off = PlaceFrom(p, Len(h1))
              \/ q3.dcb = "full" /\ Len(h1) = RxBlocks
    <3> HIDE DEF h1
    <3>1. AtLast(q2, p, h1) /\ RxHolds(m1, p, h1)
      BY <2>2, <2>4, <2>5 DEF AtLast
    <3> QED
      BY <3>1, Advanced
  <2>8. second = [r |-> q3, m |-> m1]
    <3> HIDE DEF first
    <3> QED
      BY <2>6, <2>7
  <2> HIDE DEF first, second, h1, x
  <2>9. Like(q3, r) /\ ({"ie", "ends"} \subseteq r.ctl => q3.irq)
    BY <2>5, <2>7 DEF Like
  <2>10. ASSUME q3.dcb = "empty"
         PROVE  \E q \in ReceiverType, m2 \in RxMemory, h2 \in Seq(Piece) : G(q, m2, h2)
    <3> DEFINE y == <<f.n, 2>>
    <3> y \in Piece
      BY <1>1
    <3>1. ProcessFrame(s, f) = SetRxFlag(Mark(second, y), end)
      BY <2>1, <2>8, <2>10
    <3>2. Takes(h, Append(h1, y), f.n)
      BY DEF Takes, h1, x
    <3> HIDE DEF y
    <3>3. Len(h1) < RxBlocks /\ q3.off = PlaceFrom(p, Len(h1))
      BY <2>7, <2>10
    <3>4. PICK q4 \in ReceiverType, m2 \in RxMemory :
           /\ Mark([r |-> q3, m |-> m1], y) = [r |-> q4, m |-> m2]
           /\ Like(q4, q3) /\ q4.off = q3.off /\ q4.dcb = "full" /\ RxHolds(m2, p, Append(h1, y))
      BY <2>2, <3>3, PieceStored
    <3>5. PICK q \in ReceiverType :
           /\ SetRxFlag([r |-> q4, m |-> m2], end) = [r |-> q, m |-> m2]
           /\ Like(q, q4) /\ q.off = q4.off /\ q.dcb = q4.dcb /\ end \subseteq q.st
           /\ {"ie", "ends"} \subseteq q4.ctl /\ "end" \in end => q.irq
      BY <1>1, Flagged, ZenonT(60)
    <3>6. Len(Append(h1, y)) = Len(h1) + 1 /\ Len(h1) \in Nat
      BY <2>2, Longer
    <3>7. Len(h1) + 1 - 1 = Len(h1) /\ Len(h1) + 1 > 0
      BY <3>6
    <3>8. Like(q, r) /\ ({"ie", "ends"} \subseteq r.ctl => q.irq) /\ q.off = PlaceFrom(p, Len(h1))
      BY <2>9, <3>3, <3>4, <3>5 DEF Like
    <3>9. /\ ProcessFrame(s, f) = [r |-> q, m |-> m2]
          /\ Len(Append(h1, y)) > 0 /\ q.off = PlaceFrom(p, Len(Append(h1, y)) - 1)
      BY <2>8, <3>1, <3>4, <3>5, <3>6, <3>7, <3>8
    <3>10. G(q, m2, Append(h1, y))
      BY <3>2, <3>4, <3>8, <3>9 DEF AtLast
    <3> QED
      BY <3>10 DEF RxHolds
  <2>11. ASSUME q3.dcb # "empty"
         PROVE  \E q \in ReceiverType, m2 \in RxMemory, h2 \in Seq(Piece) : G(q, m2, h2)
    <3>1. ProcessFrame(s, f) = SetRxFlag(SetRxFlag(second, {"empty"}), {"empty", "overrun"})
      BY <2>1, <2>8, <2>11
    <3>2. PICK q4 \in ReceiverType :
           /\ SetRxFlag([r |-> q3, m |-> m1], {"empty"}) = [r |-> q4, m |-> m1]
           /\ Like(q4, q3) /\ q4.off = q3.off /\ q4.dcb = q3.dcb /\ {"empty"} \subseteq q4.st
           /\ {"ie", "ends"} \subseteq q3.ctl /\ "end" \in {"empty"} => q4.irq
      BY <1>1, Flagged
    <3>3. PICK q \in ReceiverType :
           /\ SetRxFlag([r |-> q4, m |-> m1], {"empty", "overrun"}) = [r |-> q, m |-> m1]
           /\ Like(q, q4) /\ q.off = q4.off /\ q.dcb = q4.dcb /\ {"empty", "overrun"} \subseteq q.st
           /\ {"ie", "ends"} \subseteq q4.ctl /\ "end" \in {"empty", "overrun"} => q.irq
      BY <1>1, Flagged, ZenonT(60)
    <3>4. Len(h1) = RxBlocks
      BY <2>7, <2>11
    <3>5. Like(q, r) /\ ({"ie", "ends"} \subseteq r.ctl => q.irq)
      BY <2>9, <3>2, <3>3 DEF Like
    <3>6. Takes(h, h1, f.n)
      BY <3>4 DEF Takes, h1, x
    <3>7. G(q, m1, h1)
      BY <2>2, <2>4, <2>8, <3>1, <3>2, <3>3, <3>4, <3>5, <3>6 DEF AtLast
    <3> QED
      BY <3>7 DEF RxHolds
  <2> QED
    BY <2>10, <2>11
<1> QED
  BY <1>2, <1>3

(* dma_receiver_process_buffered_data() takes the oldest frame when there  *)
(* is a block for it and otherwise leaves list and buffer alone; either    *)
(* way list and copy agree after it.                                       *)
LEMMA Processed ==
  ASSUME NEW r \in ReceiverType, NEW m \in RxMemory, NEW p \in Blocks, NEW h,
         RxHolds(m, p, h), RxReady(r, p, h), r.buf # <<>>, Head(r.buf).good = TRUE
  PROVE  \E q \in ReceiverType, m2 \in RxMemory, h2 \in Seq(Piece) :
           /\ ProcessBuffered([r |-> r, m |-> m]) = [r |-> q, m |-> m2]
           /\ RxHolds(m2, p, h2) /\ RxReady(q, p, h2) /\ q.ctl = r.ctl /\ (r.irq => q.irq)
           /\ \/ q.buf = r.buf /\ h2 = h /\ r.dcb = "full"
              \/ /\ r.dcb = "empty"
                 /\ q.buf = Tail(r.buf) /\ Takes(h, h2, Head(r.buf).n)
                 /\ {"ie", "ends"} \subseteq r.ctl => q.irq
<1> DEFINE s == [r |-> r, m |-> m]
           f == Head(r.buf)
           found == IF s.r.dcb = "empty" THEN s ELSE LoadNextRx(s)
           after == LoadNextRx(ProcessFrame([found EXCEPT !.r.buf = Tail(@)], f))
           G(q, m2, h2) ==
             /\ ProcessBuffered(s) = [r |-> q, m |-> m2]
             /\ RxHolds(m2, p, h2) /\ RxReady(q, p, h2) /\ q.ctl = r.ctl /\ (r.irq => q.irq)
             /\ \/ q.buf = r.buf /\ h2 = h /\ r.dcb = "full"
                \/ /\ r.dcb = "empty"
                   /\ q.buf = Tail(r.buf) /\ Takes(h, h2, f.n)
                   /\ {"ie", "ends"} \subseteq r.ctl => q.irq
<1>1. ProcessBuffered(s) = IF found.r.dcb # "empty" THEN SetRxFlag(found, {"empty", "overrun"})
                           ELSE IF after.r.dcb = "empty" THEN after ELSE SetRxFlag(after, {"empty"})
  BY DEF ProcessBuffered
<1>2. r.dcb = "empty" \/ r.dcb = "full"
  BY DEF RxReady
<1>3. {"empty"} \in SUBSET RxStatus /\ {"empty", "overrun"} \in SUBSET RxStatus
  BY DEF RxStatus
<1>4. ASSUME r.dcb = "full"
      PROVE \E q \in ReceiverType, m2 \in RxMemory, h2 \in Seq(Piece) : G(q, m2, h2)
  <2>1. Len(h) = RxBlocks /\ Len(h) > 0
    BY <1>4, BlockNumbers DEF RxReady
  <2>2. PICK q1 \in ReceiverType :
           /\ LoadNextRx([r |-> r, m |-> m]) = [r |-> q1, m |-> m]
           /\ Like(q1, r)
           /\ \/ q1.dcb = "empty" /\ Len(h) < RxBlocks /\ q1.off = PlaceFrom(p, Len(h))
              \/ q1.dcb = "full" /\ Len(h) = RxBlocks
    <3> HIDE DEF found, after, s, f, G
    <3>1. AtLast(r, p, h)
      BY <2>1 DEF AtLast
    <3> QED
      BY <3>1, Advanced
  <2>8. q1.dcb = "full"
    BY <2>1, <2>2, BlockNumbers
  <2>3. found = [r |-> q1, m |-> m]
    BY <1>4, <2>2
  <2>4. ProcessBuffered(s) = SetRxFlag([r |-> q1, m |-> m], {"empty", "overrun"})
    <3> HIDE DEF found
    <3> QED
      BY <1>1, <2>8, <2>3
  <2>5. PICK q \in ReceiverType :
           /\ SetRxFlag([r |-> q1, m |-> m], {"empty", "overrun"}) = [r |-> q, m |-> m]
           /\ Like(q, q1) /\ q.off = q1.off /\ q.dcb = q1.dcb /\ {"empty", "overrun"} \subseteq q.st
           /\ {"ie", "ends"} \subseteq q1.ctl /\ "end" \in {"empty", "overrun"} => q.irq
    BY <1>3, Flagged
  <2>6. RxReady(q, p, h) /\ q.ctl = r.ctl /\ (r.irq => q.irq) /\ q.buf = r.buf
    BY <2>1, <2>2, <2>5, <2>8 DEF RxReady, Like
  <2>7. G(q, m, h)
    BY <1>4, <2>4, <2>5, <2>6
  <2> QED
    BY <2>7 DEF RxHolds
<1>5. ASSUME r.dcb = "empty"
      PROVE \E q \in ReceiverType, m2 \in RxMemory, h2 \in Seq(Piece) : G(q, m2, h2)
  <2> DEFINE b == [r EXCEPT !.buf = Tail(@)]
  <2>1. f \in RxFrame /\ f.good = TRUE /\ Tail(r.buf) \in Seq(RxFrame)
    BY DEF ReceiverType
  <2>2. b \in ReceiverType /\ b.off = r.off /\ b.ctl = r.ctl /\ b.irq = r.irq /\ b.buf = Tail(r.buf)
    BY <2>1 DEF ReceiverType
  <2>3. Len(h) < RxBlocks /\ r.off = PlaceFrom(p, Len(h))
    BY <1>5 DEF RxReady
  <2>4. [found EXCEPT !.r.buf = Tail(@)] = [r |-> b, m |-> m] /\ found.r.dcb = "empty"
    BY <1>5
  <2> HIDE DEF b, found
  <2>5. PICK q1 \in ReceiverType, m2 \in RxMemory, h2 \in Seq(Piece) :
           /\ ProcessFrame([r |-> b, m |-> m], f) = [r |-> q1, m |-> m2]
           /\ Like(q1, b) /\ ({"ie", "ends"} \subseteq b.ctl => q1.irq)
           /\ RxHolds(m2, p, h2) /\ Takes(h, h2, f.n)
           /\ AtLast(q1, p, h2)
    <3> HIDE DEF f, after, s, G
    <3>1. /\ b \in ReceiverType /\ f \in RxFrame /\ f.good = TRUE
          /\ RxHolds(m, p, h) /\ Len(h) < RxBlocks /\ b.off = PlaceFrom(p, Len(h))
      BY <2>1, <2>2, <2>3
    <3> QED
      BY <3>1, FrameTaken
  <2>6. PICK q2 \in ReceiverType :
           /\ LoadNextRx([r |-> q1, m |-> m2]) = [r |-> q2, m |-> m2]
           /\ Like(q2, q1)
           /\ \/ q2.dcb = "empty" /\ Len(h2) < RxBlocks /\ q2.off = PlaceFrom(p, Len(h2))
              \/ q2.dcb = "full" /\ Len(h2) = RxBlocks
    <3> HIDE DEF after, s, f, G
    <3>1. RxHolds(m2, p, h2) /\ AtLast(q1, p, h2)
      BY <2>5
    <3> QED
      BY <3>1, Advanced
  <2>7. after = [r |-> q2, m |-> m2]
    BY <2>4, <2>5, <2>6
  <2> HIDE DEF after, f
  <2>8. q2.ctl = r.ctl /\ (r.irq => q2.irq) /\ q2.buf = Tail(r.buf)
           /\ ({"ie", "ends"} \subseteq r.ctl => q2.irq)
    BY <2>2, <2>5, <2>6 DEF Like
  <2>9. ASSUME q2.dcb = "empty" PROVE G(q2, m2, h2)
    <3>1. ProcessBuffered(s) = [r |-> q2, m |-> m2]
      BY <1>1, <2>4, <2>7, <2>9
    <3>2. RxReady(q2, p, h2)
      BY <2>6, <2>9 DEF RxReady
    <3> QED
      BY <1>5, <2>5, <2>8, <3>1, <3>2
  <2>10. ASSUME q2.dcb = "full" PROVE \E q \in ReceiverType : G(q, m2, h2)
    <3>1. ProcessBuffered(s) = SetRxFlag([r |-> q2, m |-> m2], {"empty"})
      BY <1>1, <2>4, <2>7, <2>10
    <3>2. PICK q \in ReceiverType :
           /\ SetRxFlag([r |-> q2, m |-> m2], {"empty"}) = [r |-> q, m |-> m2]
           /\ Like(q, q2) /\ q.off = q2.off /\ q.dcb = q2.dcb /\ {"empty"} \subseteq q.st
           /\ {"ie", "ends"} \subseteq q2.ctl /\ "end" \in {"empty"} => q.irq
      BY <1>3, Flagged
    <3>3. RxReady(q, p, h2)
      BY <2>6, <2>10, <3>2 DEF RxReady
    <3>4. q.ctl = r.ctl /\ (r.irq => q.irq) /\ q.buf = Tail(r.buf)
             /\ ({"ie", "ends"} \subseteq r.ctl => q.irq)
      BY <2>8, <3>2 DEF Like
    <3>5. G(q, m2, h2)
      BY <1>5, <2>5, <3>1, <3>2, <3>3, <3>4
    <3> QED
      BY <3>5
  <2> QED
    BY <2>6, <2>9, <2>10
<1> QED
  BY <1>2, <1>4, <1>5

(* What may come after a piece: its second half, or a later frame. *)
Follows(a, b) == IF a[2] = 1 THEN b = <<a[1], 2>> ELSE b[1] > a[1] /\ b[2] # 2
InSequence(s) == \A i \in 1..(Len(s) - 1) : Follows(s[i], s[i + 1])
Whole(s) == s # <<>> => s[Len(s)][2] # 1
UpTo(s, n) == \A i \in 1..Len(s) : s[i][1] <= n

(* A sequence in order goes on with a piece that follows its last. *)
LEMMA Appended ==
  ASSUME NEW s \in Seq(Piece), NEW x \in Piece, InSequence(s), s # <<>> => Follows(s[Len(s)], x)
  PROVE  InSequence(Append(s, x))
<1>1. Len(s) \in Nat /\ Len(Append(s, x)) = Len(s) + 1 /\ (Len(s) > 0 => s # <<>>)
  OBVIOUS
<1>2. \A i \in 1..Len(s) : Append(s, x)[i] = s[i]
  OBVIOUS
<1>3. Append(s, x)[Len(s) + 1] = x
  OBVIOUS
<1>4. ASSUME NEW i \in 1..(Len(s) + 1 - 1) PROVE Follows(Append(s, x)[i], Append(s, x)[i + 1])
  <2>1. CASE i = Len(s)
    BY <1>1, <1>2, <1>3, <2>1
  <2>2. CASE i # Len(s)
    <3>1. i \in 1..(Len(s) - 1) /\ i \in 1..Len(s) /\ i + 1 \in 1..Len(s)
      BY <1>1, <2>2
    <3>2. Follows(s[i], s[i + 1])
      BY <3>1 DEF InSequence
    <3> QED
      BY <1>2, <3>1, <3>2
  <2> QED
    BY <2>1, <2>2
<1> QED
  BY <1>1, <1>4 DEF InSequence

(* No frame is later than n. *)
LEMMA Grown ==
  ASSUME NEW s \in Seq(Piece), NEW x \in Piece, NEW n \in Nat, UpTo(s, n), x[1] <= n
  PROVE  UpTo(Append(s, x), n)
<1>1. Len(s) \in Nat /\ Len(Append(s, x)) = Len(s) + 1
  OBVIOUS
<1>2. \A i \in 1..Len(s) : Append(s, x)[i] = s[i]
  OBVIOUS
<1>3. Append(s, x)[Len(s) + 1] = x
  OBVIOUS
<1> QED
  BY <1>1, <1>2, <1>3 DEF UpTo

(* What the driver has taken and what the list holds are one sequence. *)
LEMMA Joins ==
  ASSUME NEW t \in Seq(Piece), NEW h \in Seq(Piece), NEW x \in Piece
  PROVE  t \o Append(h, x) = Append(t \o h, x) /\ t \o h \in Seq(Piece)
<1>1. Append(h, x) = h \o <<x>> /\ Append(t \o h, x) = (t \o h) \o <<x>>
  BY AppendIsConcat
<1>2. <<x>> \in Seq(Piece)
  OBVIOUS
<1>3. (t \o h) \o <<x>> = t \o (h \o <<x>>)
  BY <1>2, ConcatAssociative
<1> QED
  BY <1>1, <1>3

(* A frame later than all before it keeps the sequence in order, and       *)
(* whole unless the list ended within it.                                  *)
LEMMA TakenInSequence ==
  ASSUME NEW t \in Seq(Piece), NEW h \in Seq(Piece), NEW h2 \in Seq(Piece), NEW n \in Nat,
         Takes(h, h2, n), InSequence(t \o h), Whole(t \o h), UpTo(t \o h, n - 1)
  PROVE  /\ InSequence(t \o h2) /\ UpTo(t \o h2, n)
         /\ Len(h2) < RxBlocks => Whole(t \o h2)
<1> DEFINE a == t \o h
           x0 == <<n, 0>>
           x1 == <<n, 1>>
           x2 == <<n, 2>>
           a1 == Append(a, x1)
<1>1. a \in Seq(Piece) /\ x0 \in Piece /\ x1 \in Piece /\ x2 \in Piece
  BY DEF Piece
<1>2. x0[1] = n /\ x0[2] = 0 /\ x1[1] = n /\ x1[2] = 1 /\ x2[1] = n /\ x2[2] = 2 /\ x2 = <<x1[1], 2>>
  OBVIOUS
<1> HIDE DEF a, x0, x1, x2
<1>3. \A i \in 1..Len(a) : a[i][1] \in Nat /\ a[i][1] < n
  BY <1>1, SMTT(60) DEF UpTo, a, Piece
<1>4. UpTo(a, n)
  BY <1>3 DEF UpTo
<1>5. ASSUME a # <<>> PROVE a[Len(a)][2] # 1 /\ a[Len(a)][1] < n /\ a[Len(a)][1] \in Nat
  <2>1. Len(a) \in 1..Len(a)
    BY <1>1, <1>5
  <2> QED
    BY <1>3, <1>5, <2>1 DEF Whole, a
<1>6. a # <<>> => Follows(a[Len(a)], x0) /\ Follows(a[Len(a)], x1)
  BY <1>2, <1>5 DEF Follows
<1>0. InSequence(a) /\ Len(a) \in Nat
  BY <1>1 DEF a
<1>e. \A s \in Seq(Piece), x \in Piece :
        Append(s, x) \in Seq(Piece) /\ Len(Append(s, x)) = Len(s) + 1 /\ Append(s, x)[Len(s) + 1] = x
  OBVIOUS
<1>7. a1 \in Seq(Piece) /\ a1 # <<>> /\ a1[Len(a1)] = x1
  <2>1. a1 \in Seq(Piece) /\ Len(a1) = Len(a) + 1 /\ a1[Len(a) + 1] = x1
    BY <1>1, <1>e
  <2> HIDE DEF a1
  <2> QED
    BY <1>0, <2>1
<1>8. InSequence(a1) /\ UpTo(a1, n)
  <2>1. InSequence(a1)
    BY <1>0, <1>1, <1>6, Appended
  <2>2. UpTo(a1, n)
    BY <1>1, <1>2, <1>4, Grown
  <2> QED
    BY <2>1, <2>2
<1>9. CASE h2 = Append(h, x0)
  <2>1. t \o h2 = Append(a, x0)
    BY <1>1, <1>9, Joins DEF a
  <2>2. InSequence(Append(a, x0))
    BY <1>0, <1>1, <1>6, Appended
  <2>4. UpTo(Append(a, x0), n)
    BY <1>1, <1>2, <1>4, Grown
  <2>3. Whole(Append(a, x0))
    <3>1. Len(Append(a, x0)) = Len(a) + 1 /\ Append(a, x0)[Len(a) + 1] = x0
      BY <1>1, <1>e
    <3> QED
      BY <1>2, <3>1 DEF Whole
  <2> QED
    BY <2>1, <2>2, <2>3, <2>4
<1>10. CASE h2 = Append(h, x1) /\ Len(h2) = RxBlocks
  <2>1. t \o h2 = a1
    BY <1>1, <1>10, Joins DEF a
  <2> QED
    BY <1>8, <1>10, <2>1, BlockNumbers
<1>11. CASE h2 = Append(Append(h, x1), x2)
  <2>1. t \o h2 = Append(a1, x2)
    <3> DEFINE h1 == Append(h, x1)
    <3>1. h1 \in Seq(Piece) /\ t \o h1 = a1
      BY <1>1, Joins DEF a
    <3> HIDE DEF h1, a1
    <3>2. t \o Append(h1, x2) = Append(t \o h1, x2)
      BY <1>1, <3>1, Joins, SMTT(60)
    <3> QED
      BY <1>11, <3>1, <3>2 DEF h1
  <2>2. Follows(x1, x2)
    BY <1>2 DEF Follows
  <2> HIDE DEF a1
  <2>3. InSequence(Append(a1, x2)) /\ UpTo(Append(a1, x2), n)
    BY <1>1, <1>2, <1>7, <1>8, <2>2, Appended, Grown
  <2>4. Whole(Append(a1, x2))
    <3>1. Len(Append(a1, x2)) = Len(a1) + 1 /\ Append(a1, x2)[Len(a1) + 1] = x2
      BY <1>1, <1>7, <1>e
    <3> QED
      BY <1>2, <3>1 DEF Whole
  <2> QED
    BY <2>1, <2>3, <2>4
<1> QED
  BY <1>9, <1>10, <1>11 DEF Takes, x0, x1, x2

(* When every full block is given back the list is empty from any place. *)
LEMMA GivenBackAll ==
  ASSUME NEW r \in ReceiverType, NEW m \in RxMemory, NEW blocks \in SUBSET Blocks,
         \A b \in Blocks \ blocks : m.key[b] = "empty"
  PROVE  \E m2 \in RxMemory :
           /\ GivenBack([r |-> r, m |-> m], blocks) = [r |-> r, m |-> m2]
           /\ \A p \in Blocks : RxHolds(m2, p, <<>>)
<1> DEFINE k == [b \in DOMAIN m.key |-> IF b \in blocks THEN "empty" ELSE m.key[b]]
           m2 == [m EXCEPT !.key = k]
<1>1. GivenBack([r |-> r, m |-> m], blocks) = [r |-> r, m |-> m2]
  BY DEF GivenBack
<1>2. DOMAIN m.key = Blocks \cup {EndBlock} /\ m.key[EndBlock] = "new list"
  BY DEF RxMemory, KeyList
<1>3. (\A b \in Blocks : k[b] = "empty") /\ k[EndBlock] = "new list"
         /\ DOMAIN k = Blocks \cup {EndBlock}
  BY <1>2, BlockNumbers
<1>4. k \in KeyList
  <2>1. \A b \in Blocks \cup {EndBlock} : k[b] \in {"empty", "full", "new list"}
    <3> HIDE DEF k
    <3> QED
      BY <1>3
  <2>2. k = [b \in Blocks \cup {EndBlock} |-> k[b]]
    BY <1>2
  <2> HIDE DEF k
  <2>3. k \in [Blocks \cup {EndBlock} -> {"empty", "full", "new list"}]
    BY <2>1, <2>2
  <2> QED
    BY <1>3, <2>3 DEF KeyList
<1> HIDE DEF k
<1>5. m2 \in RxMemory /\ m2.key = k
  BY <1>4 DEF RxMemory
<1> HIDE DEF m2
<1>6. ASSUME NEW p \in Blocks PROVE RxHolds(m2, p, <<>>)
  <2>1. <<>> \in Seq(Piece) /\ Len(<<>>) = 0 /\ 0 <= RxBlocks
    BY BlockNumbers
  <2>2. \A i \in Blocks : PlaceFrom(p, i) \in Blocks /\ ~(i < 0)
    BY PlaceFacts, BlockNumbers
  <2> QED
    BY <1>3, <1>5, <2>1, <2>2 DEF RxHolds
<1> QED
  BY <1>1, <1>5, <1>6

(* dma_engine_command_receiver_start() on an empty list loads its first    *)
(* block.                                                                  *)
LEMMA RxStarted ==
  ASSUME NEW r \in ReceiverType, NEW m \in RxMemory, RxHolds(m, 0, <<>>)
  PROVE  \E q \in ReceiverType :
           /\ ReceiverStart([r |-> r, m |-> m], 0) = [r |-> q, m |-> m]
           /\ q.ctl = r.ctl \cup {"dma"} /\ q.buf = r.buf /\ q.irq = r.irq
           /\ q.dcb = "empty" /\ q.off = 0 /\ "empty" \notin q.st
<1> DEFINE st == (r.st \ {"empty", "overrun"}) \cup {"active"}
           ctl == r.ctl \cup {"dma"}
           a == [r EXCEPT !.ptr = 0, !.off = 0, !.ctl = ctl, !.st = st]
           q == [a EXCEPT !.dcb = "empty"]
           s == [r |-> r, m |-> m]
           s1 == [s EXCEPT !.r.ptr = 0, !.r.off = 0, !.r.ctl = @ \cup {"dma"},
                           !.r.st = (@ \ {"empty", "overrun"}) \cup {"active"}]
           loaded == LoadRx(s1)
           next == LoadNextRx(loaded)
<1>0. 0 \in Blocks /\ PlaceFrom(0, 0) = 0
  BY BlockNumbers, PlaceFacts
<1>1. m.key[0] = "empty"
  BY <1>0 DEF RxHolds
<1>2. st \in SUBSET RxStatus /\ ctl \in SUBSET {"dma", "ie", "ends"} /\ "empty" \notin st
  BY DEF ReceiverType, RxStatus
<1>3. s1 = [r |-> a, m |-> m]
  <2>1. s.r.ctl = r.ctl /\ s.r.st = r.st
    OBVIOUS
  <2>2. s1 = [s EXCEPT !.r.ptr = 0, !.r.off = 0, !.r.ctl = ctl, !.r.st = st]
    BY <2>1
  <2> HIDE DEF st, ctl
  <2>3. s1 = [s EXCEPT !.r = a]
    BY <2>2
  <2> HIDE DEF a
  <2> QED
    BY <2>3
<1>4. a.ptr = 0 /\ a.off = 0 /\ a.ctl = ctl /\ a.st = st /\ a.buf = r.buf /\ a.irq = r.irq
         /\ a \in ReceiverType
  <2> HIDE DEF st, ctl
  <2> QED
    BY <1>0, <1>2 DEF ReceiverType
<1>5. loaded = [r |-> q, m |-> m]
  <2> HIDE DEF a, s1
  <2> QED
    BY <1>1, <1>3, <1>4, LoadedIs
<1>6. q \in ReceiverType /\ q.ctl = ctl /\ q.st = st /\ q.buf = r.buf /\ q.irq = r.irq
         /\ q.dcb = "empty" /\ q.off = 0
  <2> HIDE DEF a
  <2> QED
    BY <1>4 DEF ReceiverType, KeyLoaded
<1>7. ReceiverStart(s, 0) = IF loaded.r.dcb = "empty" THEN loaded
                            ELSE IF next.r.dcb = "empty" THEN next ELSE SetRxFlag(next, {"empty"})
  BY DEF ReceiverStart
<1> HIDE DEF loaded, q, st, s, next
<1>8. ReceiverStart(s, 0) = [r |-> q, m |-> m]
  BY <1>5, <1>6, <1>7
<1> QED
  BY <1>2, <1>6, <1>8 DEF s

(* A number below two rounds, taken modulo one round. *)
LEMMA Around == ASSUME NEW n \in Nat \ {0}, NEW x \in Nat, n <= x, x < n + n PROVE x % n = x - n
OBVIOUS

(* The driver finds exactly the pieces held from its place on. *)
LEMMA RunIs ==
  ASSUME NEW h, hdrv.pos \in Blocks, RxHolds(hmem, hdrv.pos, h)
  PROVE  /\ Run = Len(h) /\ Taken = h
         /\ \A i \in Blocks : Ring(i) = PlaceFrom(hdrv.pos, i)
         /\ Ring(Len(h)) \in Blocks
<1> DEFINE p == hdrv.pos
           P(k) == /\ \A i \in 0..(k - 1) : hmem.key[Ring(i)] = "full"
                   /\ k = RxBlocks \/ hmem.key[Ring(k)] # "full"
<1>1. p \in Int /\ 0 <= p /\ p < RxBlocks /\ RxBlocks \in Nat /\ RxBlocks > 0
  BY BlockNumbers
<1>2. \A i \in 0..RxBlocks : Ring(i) = PlaceFrom(p, i) /\ Ring(i) \in Blocks
  <2>1. ASSUME NEW i \in 0..RxBlocks
        PROVE (p + i) % RxBlocks = PlaceFrom(p, i) /\ PlaceFrom(p, i) \in Blocks
    <3>1. CASE p + i < RxBlocks
      BY <1>1, <3>1, BlockNumbers DEF PlaceFrom
    <3>2. CASE ~(p + i < RxBlocks)
      <4>1. p + i - RxBlocks \in 0..(RxBlocks - 1)
        BY <1>1, <3>2
      <4>2. (p + i) % RxBlocks = p + i - RxBlocks
        <5> DEFINE x == p + i
        <5>1. RxBlocks \in Nat \ {0} /\ x \in Nat /\ RxBlocks <= x /\ x < RxBlocks + RxBlocks
          BY <1>1, <3>2
        <5> HIDE DEF x
        <5>2. x % RxBlocks = x - RxBlocks
          BY <5>1, Around
        <5> QED
          BY <1>1, <5>1, <5>2 DEF x
      <4> QED
        BY <1>1, <3>2, <4>1, <4>2, BlockNumbers DEF PlaceFrom
    <3> QED
      BY <3>1, <3>2
  <2> QED
    BY <2>1 DEF Ring
<1>3. Len(h) \in 0..RxBlocks /\ h \in Seq(Piece) /\ Len(h) \in Nat
  BY BlockNumbers DEF RxHolds
<1>b. \A i : i \in Blocks <=> i \in Int /\ 0 <= i /\ i < RxBlocks
  BY BlockNumbers
<1>4. \A i \in Blocks : hmem.key[Ring(i)] = (IF i < Len(h) THEN "full" ELSE "empty")
  BY <1>1, <1>2, <1>b, SMTT(60) DEF RxHolds
<1>5. P(Len(h))
  BY <1>1, <1>3, <1>4, <1>b
<1>6. \A k \in 0..RxBlocks : P(k) => k = Len(h)
  <2>1. ASSUME NEW k \in 0..RxBlocks, P(k), k < Len(h) PROVE FALSE
    BY <1>1, <1>3, <1>4, <1>b, <2>1
  <2>2. ASSUME NEW k \in 0..RxBlocks, P(k), k > Len(h) PROVE FALSE
    BY <1>1, <1>3, <1>4, <1>b, <2>2
  <2> QED
    BY <1>3, <2>1, <2>2
<1>7. Run = Len(h)
  <2>1. Run = CHOOSE k \in 0..RxBlocks : P(k)
    BY DEF Run
  <2> HIDE DEF P
  <2> QED
    BY <1>3, <1>5, <1>6, <2>1
<1>8. Taken = h
  <2>1. \A i \in 1..Len(h) : hmem.held[Ring(i - 1)] = h[i]
    <3>1. ASSUME NEW i \in 1..Len(h) PROVE hmem.held[Ring(i - 1)] = h[i]
      <4>1. i - 1 \in Blocks /\ i - 1 \in 0..RxBlocks /\ i - 1 < Len(h) /\ (i - 1) + 1 = i
        BY <1>1, <1>3, <1>b
      <4>2. hmem.held[PlaceFrom(p, i - 1)] = h[(i - 1) + 1]
        BY <4>1 DEF RxHolds
      <4> QED
        BY <1>2, <4>1, <4>2
    <3> QED
      BY <3>1
  <2>2. Taken = [i \in 1..Len(h) |-> h[i]]
    BY <1>7, <2>1 DEF Taken
  <2> QED
    BY <1>3, <2>2
<1>9. \A i \in Blocks : Ring(i) = PlaceFrom(p, i)
  BY <1>1, <1>2, <1>b
<1> QED
  BY <1>2, <1>3, <1>7, <1>8, <1>9

(* The frames of s have come, and come before those still buffered. *)
BeforeBuffer(s, buf, come) ==
  UpTo(s, come) /\ \A i \in 1..Len(s), j \in 1..Len(buf) : s[i][1] < buf[j].n

(* Buffered frames have come, are in order and have right check sums. *)
Buffered(buf, come) ==
  \A j \in 1..Len(buf) :
    buf[j].n <= come /\ buf[j].good = TRUE /\ \A i \in 1..(j - 1) : buf[i].n < buf[j].n

(* A frame that comes is later than all before it, whether or not it is    *)
(* dropped.                                                                *)
LEMMA Arrives ==
  ASSUME NEW buf \in Seq(RxFrame), NEW come \in Nat, Buffered(buf, come), NEW x \in RxFrame,
         x.n = come + 1, x.good = TRUE
  PROVE  /\ Buffered(buf, come + 1) /\ Buffered(Append(buf, x), come + 1)
         /\ \A s \in Seq(Piece) : BeforeBuffer(s, buf, come) =>
              BeforeBuffer(s, buf, come + 1) /\ BeforeBuffer(s, Append(buf, x), come + 1)
<1> DEFINE b == Append(buf, x)
<1>1. Len(buf) \in Nat /\ Len(b) = Len(buf) + 1 /\ b[Len(buf) + 1] = x
      /\ \A i \in 1..Len(buf) : b[i] = buf[i]
  OBVIOUS
<1>a. \A i \in 1..Len(buf) : buf[i] \in RxFrame
  OBVIOUS
<1>2. \A i \in 1..Len(buf) : buf[i].n \in Nat
  BY <1>a DEF RxFrame
<1> HIDE DEF b
<1>3. Buffered(buf, come + 1)
  BY <1>2 DEF Buffered
<1>4. ASSUME NEW j \in 1..Len(b)
      PROVE  b[j].n <= come + 1 /\ b[j].good = TRUE /\ \A i \in 1..(j - 1) : b[i].n < b[j].n
  <2>1. CASE j = Len(buf) + 1
    <3>1. \A i \in 1..(j - 1) : b[i].n < come + 1
      BY <1>1, <1>2, <2>1 DEF Buffered
    <3> QED
      BY <1>1, <2>1, <3>1
  <2>2. CASE j # Len(buf) + 1
    <3>1. j \in 1..Len(buf) /\ \A i \in 1..(j - 1) : i \in 1..Len(buf)
      BY <1>1, <2>2
    <3> QED
      BY <1>1, <1>2, <3>1 DEF Buffered
  <2> QED
    BY <2>1, <2>2
<1>5. ASSUME NEW s \in Seq(Piece), BeforeBuffer(s, buf, come)
      PROVE  BeforeBuffer(s, buf, come + 1) /\ BeforeBuffer(s, b, come + 1)
  <2>1. \A i \in 1..Len(s) : s[i][1] \in Nat /\ s[i][1] < come + 1
    BY <1>5 DEF BeforeBuffer, UpTo, Piece
  <2>2. UpTo(s, come + 1)
    BY <2>1 DEF UpTo
  <2>3. ASSUME NEW i \in 1..Len(s), NEW j \in 1..Len(b) PROVE s[i][1] < b[j].n
    <3>1. CASE j = Len(buf) + 1
      BY <1>1, <2>1, <3>1
    <3>2. CASE j # Len(buf) + 1
      BY <1>1, <1>5, <3>2 DEF BeforeBuffer
    <3> QED
      BY <3>1, <3>2
  <2> QED
    BY <1>5, <2>2, <2>3 DEF BeforeBuffer
<1> QED
  BY <1>3, <1>4, <1>5 DEF Buffered, b

(* The oldest buffered frame is later than those stored and before the     *)
(* others.                                                                 *)
LEMMA Leaves ==
  ASSUME NEW buf \in Seq(RxFrame), NEW come \in Nat, Buffered(buf, come), buf # <<>>
  PROVE  /\ Head(buf) \in RxFrame /\ Head(buf).good = TRUE /\ Head(buf).n \in Nat
         /\ Buffered(Tail(buf), come)
         /\ \A s \in Seq(Piece) : BeforeBuffer(s, buf, come) =>
              UpTo(s, Head(buf).n - 1) /\ BeforeBuffer(s, Tail(buf), come)
         /\ \A s \in Seq(Piece) : UpTo(s, Head(buf).n) => BeforeBuffer(s, Tail(buf), come)
<1> DEFINE t == Tail(buf)
<1>1. /\ Len(buf) \in Nat /\ Len(buf) > 0 /\ Len(t) = Len(buf) - 1 /\ Head(buf) = buf[1]
      /\ \A i \in 1..Len(t) : t[i] = buf[i + 1]
  OBVIOUS
<1>a. \A i \in 1..Len(buf) : buf[i] \in RxFrame
  OBVIOUS
<1>2. \A i \in 1..Len(buf) : buf[i] \in RxFrame /\ buf[i].n \in Nat
  BY <1>a DEF RxFrame
<1> HIDE DEF t
<1>3. \A j \in 1..Len(t) : j + 1 \in 1..Len(buf)
  BY <1>1
<1>4. \A j \in 1..Len(t) : t[j].n <= come /\ t[j].good = TRUE /\ buf[1].n < t[j].n /\ t[j].n \in Nat
  BY <1>1, <1>2, <1>3 DEF Buffered
<1>5. ASSUME NEW j \in 1..Len(t), NEW i \in 1..(j - 1) PROVE t[i].n < t[j].n
  <2>1. i \in 1..Len(t) /\ i + 1 \in 1..((j + 1) - 1)
    BY <1>1
  <2> QED
    BY <1>1, <1>3, <2>1 DEF Buffered
<1>6. Buffered(t, come)
  BY <1>4, <1>5 DEF Buffered
<1>7. 1 \in 1..Len(buf) /\ buf[1].n \in Nat /\ buf[1].n <= come /\ buf[1].good = TRUE
  BY <1>1, <1>2 DEF Buffered
<1>8. ASSUME NEW s \in Seq(Piece), BeforeBuffer(s, buf, come)
      PROVE  UpTo(s, buf[1].n - 1) /\ BeforeBuffer(s, t, come)
  <2>1. \A i \in 1..Len(s) : s[i][1] \in Nat /\ s[i][1] < buf[1].n
    BY <1>7, <1>8 DEF BeforeBuffer, Piece
  <2>2. UpTo(s, buf[1].n - 1)
    BY <1>7, <2>1 DEF UpTo
  <2>3. \A i \in 1..Len(s), j \in 1..Len(t) : s[i][1] < t[j].n
    BY <1>1, <1>3, <1>8 DEF BeforeBuffer
  <2> QED
    BY <1>8, <2>2, <2>3 DEF BeforeBuffer
<1>9. ASSUME NEW s \in Seq(Piece), UpTo(s, buf[1].n) PROVE BeforeBuffer(s, t, come)
  <2>1. \A i \in 1..Len(s) : s[i][1] \in Nat /\ s[i][1] <= buf[1].n
    BY <1>9 DEF UpTo, Piece
  <2>2. UpTo(s, come)
    BY <1>7, <2>1 DEF UpTo
  <2>3. \A i \in 1..Len(s), j \in 1..Len(t) : s[i][1] < t[j].n
    BY <1>4, <1>7, <2>1
  <2> QED
    BY <2>2, <2>3 DEF BeforeBuffer
<1> QED
  BY <1>1, <1>2, <1>6, <1>7, <1>8, <1>9 DEF t

(* The driver is idle before it has started and after it has cleared the   *)
(* card.                                                                   *)
DriverPlaces == {"fresh", "enables", "looks", "waits", "identified", "cleared"}
RxIdle == hdrv.at \in {"fresh", "cleared"}

(* What has been taken and what the list holds from the driver's place on  *)
(* are in order.                                                           *)
RxWorking(h) ==
  /\ RxHolds(hmem, hdrv.pos, h) /\ RxReady(hrx, hdrv.pos, h)
  /\ InSequence(hdrv.took \o h) /\ BeforeBuffer(hdrv.took \o h, hrx.buf, hline.come)
  /\ hrx.dcb = "empty" => Whole(hdrv.took \o h)

(* Types of the receiver's side. *)
RxTypes ==
  /\ hrx \in ReceiverType /\ hmem \in RxMemory
  /\ hdrv \in [at : DriverPlaces, pos : Blocks, took : Seq(Piece)]
  /\ hline.come \in Nat

(* HdlcTold, the receiver's half. *)
RxTold == hdrv.at = "waits" /\ (hmem.key[hdrv.pos] = "full" \/ "empty" \in hrx.st) => hrx.irq

(* The receiver's invariant: while the driver is not idle, receiver and    *)
(* driver agree on the next block and on what the list holds.              *)
RxInv ==
  /\ RxTypes
  /\ Buffered(hrx.buf, hline.come)
  /\ InSequence(hdrv.took) /\ Whole(hdrv.took) /\ BeforeBuffer(hdrv.took, hrx.buf, hline.come)
  /\ RxIdle => hrx.ctl = {} /\ hrx.st = {}
  /\ hdrv.at = "fresh" => hrx.buf = <<>>
  /\ ~RxIdle => \E h \in Seq(Piece) : RxWorking(h)
  /\ hdrv.at \in {"looks", "waits"} => {"ie", "ends"} \subseteq hrx.ctl
  /\ RxTold

(* dma_rx_tick() keeps the invariant. *)
LEMMA RxTickKeeps == ASSUME RxInv, RxTick PROVE RxInv'
<1>1. /\ hrx.buf # <<>> /\ "dma" \in hrx.ctl /\ hrx.dcb # "none"
      /\ hrx' = ProcessBuffered(Now).r /\ hmem' = ProcessBuffered(Now).m
      /\ hdrv' = hdrv /\ hline' = hline
  BY DEF RxTick, Become
<1>2. /\ hrx \in ReceiverType /\ hmem \in RxMemory /\ hdrv.pos \in Blocks /\ hline.come \in Nat
      /\ hdrv.took \in Seq(Piece) /\ hrx.buf \in Seq(RxFrame) /\ Now = [r |-> hrx, m |-> hmem]
  BY DEF RxInv, RxTypes, ReceiverType, Now
<1>3. ~RxIdle
  BY <1>1 DEF RxInv
<1>4. PICK h \in Seq(Piece) : RxWorking(h)
  BY <1>3 DEF RxInv
<1>5. /\ Head(hrx.buf) \in RxFrame /\ Head(hrx.buf).good = TRUE /\ Head(hrx.buf).n \in Nat
      /\ Buffered(Tail(hrx.buf), hline.come)
      /\ \A s \in Seq(Piece) : BeforeBuffer(s, hrx.buf, hline.come) =>
           UpTo(s, Head(hrx.buf).n - 1) /\ BeforeBuffer(s, Tail(hrx.buf), hline.come)
      /\ \A s \in Seq(Piece) : UpTo(s, Head(hrx.buf).n) => BeforeBuffer(s, Tail(hrx.buf), hline.come)
  BY <1>1, <1>2, Leaves DEF RxInv
<1>6. PICK q \in ReceiverType, m2 \in RxMemory, h2 \in Seq(Piece) :
           /\ ProcessBuffered([r |-> hrx, m |-> hmem]) = [r |-> q, m |-> m2]
           /\ RxHolds(m2, hdrv.pos, h2) /\ RxReady(q, hdrv.pos, h2) /\ q.ctl = hrx.ctl
                /\ (hrx.irq => q.irq)
           /\ \/ q.buf = hrx.buf /\ h2 = h /\ hrx.dcb = "full"
              \/ /\ hrx.dcb = "empty"
                 /\ q.buf = Tail(hrx.buf) /\ Takes(h, h2, Head(hrx.buf).n)
                 /\ {"ie", "ends"} \subseteq hrx.ctl => q.irq
  BY <1>1, <1>2, <1>4, <1>5, Processed DEF RxWorking
<1>7. hrx' = q /\ hmem' = m2
  BY <1>1, <1>2, <1>6
<1>8. RxTypes'
  BY <1>1, <1>6, <1>7 DEF RxInv, RxTypes
<1>9. /\ Buffered(q.buf, hline.come) /\ BeforeBuffer(hdrv.took, q.buf, hline.come)
      /\ RxWorking(h2)'
      /\ hdrv.at = "waits" => q.irq
  <2>1. CASE q.buf = hrx.buf /\ h2 = h /\ hrx.dcb = "full"
    <3>1. Len(h) = RxBlocks /\ "empty" \in hrx.st
      BY <1>4, <2>1 DEF RxWorking, RxReady
    <3>2. q.dcb # "empty"
      BY <1>6, <2>1, <3>1, BlockNumbers DEF RxReady
    <3> QED
      BY <1>1, <1>4, <1>6, <1>7, <2>1, <3>1, <3>2 DEF RxWorking, RxInv, RxTold
  <2>2. CASE /\ hrx.dcb = "empty"
             /\ q.buf = Tail(hrx.buf) /\ Takes(h, h2, Head(hrx.buf).n)
             /\ {"ie", "ends"} \subseteq hrx.ctl => q.irq
    <3> DEFINE n == Head(hrx.buf).n
    <3>1. InSequence(hdrv.took \o h) /\ Whole(hdrv.took \o h) /\ UpTo(hdrv.took \o h, n - 1)
      <4>1. hdrv.took \o h \in Seq(Piece)
        BY <1>2, ConcatProperties
      <4> QED
        BY <1>4, <1>5, <2>2, <4>1 DEF RxWorking
    <3>2. n \in Nat /\ Takes(h, h2, n)
      BY <1>5, <2>2
    <3> HIDE DEF n
    <3>3. /\ InSequence(hdrv.took \o h2) /\ UpTo(hdrv.took \o h2, n)
          /\ Len(h2) < RxBlocks => Whole(hdrv.took \o h2)
      BY <1>2, <3>1, <3>2, TakenInSequence
    <3>4. BeforeBuffer(hdrv.took \o h2, q.buf, hline.come)
      <4>1. hdrv.took \o h2 \in Seq(Piece)
        BY <1>2, ConcatProperties
      <4> QED
        BY <1>5, <2>2, <3>3, <4>1 DEF n
    <3>5. q.dcb = "empty" => Whole(hdrv.took \o h2)
      BY <1>6, <3>3 DEF RxReady
    <3>6. RxWorking(h2)'
      BY <1>1, <1>6, <1>7, <3>3, <3>4, <3>5 DEF RxWorking
    <3>7. Buffered(q.buf, hline.come) /\ BeforeBuffer(hdrv.took, q.buf, hline.come)
      BY <1>2, <1>5, <2>2 DEF RxInv
    <3> QED
      BY <2>2, <3>6, <3>7 DEF RxInv
  <2> QED
    BY <1>6, <2>1, <2>2
<1>10. ~RxIdle'
  BY <1>1, <1>3 DEF RxIdle
<1>11. RxTold'
  BY <1>1, <1>7, <1>9 DEF RxTold
<1> QED
  BY <1>1, <1>3, <1>6, <1>7, <1>8, <1>9, <1>10, <1>11 DEF RxInv, RxIdle

(* The types of RxInv, one by one. *)
LEMMA RxState ==
  ASSUME RxInv
  PROVE  /\ hrx \in ReceiverType /\ hmem \in RxMemory /\ hdrv.pos \in Blocks /\ hline.come \in Nat
         /\ hdrv.took \in Seq(Piece) /\ hrx.buf \in Seq(RxFrame) /\ Now = [r |-> hrx, m |-> hmem]
         /\ hdrv \in [at : DriverPlaces, pos : Blocks, took : Seq(Piece)]
BY DEF RxInv, RxTypes, ReceiverType, Now

(* hdlc_on_modem_received_data() keeps it, whether it buffers or drops     *)
(* the frame.                                                              *)
LEMMA FrameComesKeeps ==
  ASSUME RxInv, HdlcRare = {}, NEW size \in 1..2, NEW good \in BOOLEAN, FrameComes(size, good),
         hline \in [come : Nat, gone : Seq(Nat \X Nat)]
  PROVE  RxInv'
<1> DEFINE x == [n |-> hline.come + 1, size |-> size, good |-> good]
<1>1. good = TRUE /\ hmem' = hmem /\ hdrv' = hdrv /\ hline'.come = hline.come + 1
  BY DEF FrameComes
<1>2. x \in RxFrame /\ x.n = hline.come + 1 /\ x.good = TRUE
  BY <1>1 DEF RxFrame
<1> HIDE DEF x
<1>3. PICK b \in {hrx.buf, Append(hrx.buf, x)} :
        /\ hrx' = [hrx EXCEPT !.buf = b] /\ ("active" \notin hrx.st => b = hrx.buf)
  <2>1. CASE "active" \notin hrx.st
    <3>1. hrx' = hrx
      BY <2>1 DEF FrameComes
    <3>2. hrx = [hrx EXCEPT !.buf = hrx.buf]
      BY DEF RxInv, RxTypes, ReceiverType
    <3> QED
      BY <3>1, <3>2
  <2>2. CASE "active" \in hrx.st
    <3>1. hrx' = [hrx EXCEPT !.buf = Append(hrx.buf, x)]
      BY <2>2 DEF FrameComes, x
    <3> QED
      BY <2>2, <3>1
  <2> QED
    BY <2>1, <2>2
<1>4. /\ Buffered(hrx.buf, hline.come + 1) /\ Buffered(Append(hrx.buf, x), hline.come + 1)
      /\ \A s \in Seq(Piece) : BeforeBuffer(s, hrx.buf, hline.come) =>
           BeforeBuffer(s, hrx.buf, hline.come + 1)
                /\ BeforeBuffer(s, Append(hrx.buf, x), hline.come + 1)
  BY <1>2, Arrives, RxState DEF RxInv
<1>5. Buffered(b, hline.come + 1) /\ \A s \in Seq(Piece) :
        BeforeBuffer(s, hrx.buf, hline.come) => BeforeBuffer(s, b, hline.come + 1)
  BY <1>4
<1>6. b \in Seq(RxFrame)
  <2>1. hrx.buf \in Seq(RxFrame)
    BY RxState
  <2>2. Append(hrx.buf, x) \in Seq(RxFrame)
    BY <1>2, <2>1
  <2> QED
    BY <2>1, <2>2
<1>7. /\ hrx' \in ReceiverType /\ hrx'.buf = b /\ hrx'.ctl = hrx.ctl /\ hrx'.st = hrx.st
           /\ hrx'.irq = hrx.irq
      /\ hrx'.off = hrx.off /\ hrx'.dcb = hrx.dcb
  BY <1>3, <1>6, RxState DEF ReceiverType
<1>8. RxTypes'
  BY <1>1, <1>7, RxState DEF RxTypes
<1>9. ASSUME NEW h \in Seq(Piece), RxWorking(h) PROVE RxWorking(h)'
  <2>1. hdrv.took \o h \in Seq(Piece)
    BY RxState, ConcatProperties
  <2>2. BeforeBuffer(hdrv.took \o h, b, hline.come + 1)
    BY <1>5, <1>9, <2>1 DEF RxWorking
  <2>3. RxReady(hrx', hdrv.pos, h)
    BY <1>7, <1>9 DEF RxWorking, RxReady
  <2> QED
    BY <1>1, <1>7, <1>9, <2>2, <2>3 DEF RxWorking
<1>10. RxIdle => b = hrx.buf
  BY <1>3 DEF RxInv
<1>11. /\ Buffered(hrx.buf, hline.come)' /\ BeforeBuffer(hdrv.took, hrx.buf, hline.come)'
  BY <1>1, <1>5, <1>7, RxState DEF RxInv
<1>12. RxIdle' <=> RxIdle
  BY <1>1 DEF RxIdle
<1>13. RxTold'
  BY <1>1, <1>7 DEF RxInv, RxTold
<1>14. ~RxIdle' => \E h \in Seq(Piece) : RxWorking(h)'
  BY <1>9, <1>12 DEF RxInv
<1>15. (hdrv.at = "fresh" => hrx.buf = <<>>)'
  BY <1>1, <1>7, <1>10 DEF RxInv, RxIdle
<1> QED
  BY <1>1, <1>7, <1>8, <1>11, <1>12, <1>13, <1>14, <1>15 DEF RxInv

(* A write to the receiver transfer control keeps it. *)
LEMMA DriverEnablesKeeps == ASSUME RxInv, HdlcRare = {}, DriverEnables PROVE RxInv'
<1>1. /\ hdrv.at \in {"enables", "identified"} /\ hrx' = [hrx EXCEPT !.ctl = {"dma", "ie", "ends"}]
      /\ hdrv' = [hdrv EXCEPT !.at = "looks"] /\ hmem' = hmem /\ hline' = hline
  BY DEF DriverEnables
<1>2. /\ hrx' \in ReceiverType /\ hrx'.buf = hrx.buf /\ hrx'.ctl = {"dma", "ie", "ends"}
           /\ hrx'.st = hrx.st
      /\ hrx'.off = hrx.off /\ hrx'.dcb = hrx.dcb
  BY <1>1, RxState DEF ReceiverType
<1>3. hdrv' \in [at : DriverPlaces, pos : Blocks, took : Seq(Piece)]
      /\ hdrv'.at = "looks" /\ hdrv'.pos = hdrv.pos /\ hdrv'.took = hdrv.took
  BY <1>1, RxState DEF DriverPlaces
<1>4. RxTypes'
  BY <1>1, <1>2, <1>3, RxState DEF RxTypes
<1>5. ASSUME NEW h \in Seq(Piece), RxWorking(h) PROVE RxWorking(h)'
  <2>1. RxReady(hrx', hdrv.pos, h)
    BY <1>2, <1>5 DEF RxWorking, RxReady
  <2> QED
    BY <1>1, <1>2, <1>3, <1>5, <2>1 DEF RxWorking
<1>6. ~RxIdle /\ ~RxIdle'
  BY <1>1, <1>3 DEF RxIdle
<1>7. \E h \in Seq(Piece) : RxWorking(h)'
  BY <1>5, <1>6 DEF RxInv
<1> QED
  BY <1>1, <1>2, <1>3, <1>4, <1>6, <1>7 DEF RxInv, RxTold

(* The IDENT of the receiver's interrupt keeps it. *)
LEMMA RxIdentKeeps == ASSUME RxInv, HdlcRare = {}, RxIdent PROVE RxInv'
<1>1. /\ hdrv.at = "waits" /\ hrx' = [hrx EXCEPT !.irq = FALSE, !.ctl = @ \ {"ie"}]
      /\ hdrv' = [hdrv EXCEPT !.at = "identified"] /\ hmem' = hmem /\ hline' = hline
  BY DEF RxIdent
<1>2. /\ hrx' \in ReceiverType /\ hrx'.buf = hrx.buf /\ hrx'.st = hrx.st
      /\ hrx'.off = hrx.off /\ hrx'.dcb = hrx.dcb
  BY <1>1, RxState DEF ReceiverType
<1>3. hdrv' \in [at : DriverPlaces, pos : Blocks, took : Seq(Piece)]
      /\ hdrv'.at = "identified" /\ hdrv'.pos = hdrv.pos /\ hdrv'.took = hdrv.took
  BY <1>1, RxState DEF DriverPlaces
<1>4. RxTypes'
  BY <1>1, <1>2, <1>3, RxState DEF RxTypes
<1>5. ASSUME NEW h \in Seq(Piece), RxWorking(h) PROVE RxWorking(h)'
  <2>1. RxReady(hrx', hdrv.pos, h)
    BY <1>2, <1>5 DEF RxWorking, RxReady
  <2> QED
    BY <1>1, <1>2, <1>3, <1>5, <2>1 DEF RxWorking
<1>6. ~RxIdle /\ ~RxIdle'
  BY <1>1, <1>3 DEF RxIdle
<1>7. \E h \in Seq(Piece) : RxWorking(h)'
  BY <1>5, <1>6 DEF RxInv
<1> QED
  BY <1>1, <1>2, <1>3, <1>4, <1>6, <1>7 DEF RxInv, RxTold

(* hdlc_reset() keeps it: the driver is idle until it starts anew. *)
LEMMA DeviceClearKeeps == ASSUME RxInv, DeviceClear PROVE RxInv'
<1>1. /\ hrx' = [hrx EXCEPT !.ctl = {}, !.st = {}]
      /\ hdrv' = [hdrv EXCEPT !.at = "cleared"] /\ hmem' = hmem /\ hline' = hline
  BY DEF DeviceClear
<1>2. hrx' \in ReceiverType /\ hrx'.buf = hrx.buf /\ hrx'.st = {} /\ hrx'.ctl = {}
  BY <1>1, RxState DEF ReceiverType
<1>3. hdrv' \in [at : DriverPlaces, pos : Blocks, took : Seq(Piece)]
      /\ hdrv'.at = "cleared" /\ hdrv'.pos = hdrv.pos /\ hdrv'.took = hdrv.took
  BY <1>1, RxState DEF DriverPlaces
<1>4. RxTypes'
  BY <1>1, <1>2, <1>3, RxState DEF RxTypes
<1> QED
  BY <1>1, <1>2, <1>3, <1>4 DEF RxInv, RxTold, RxIdle

(* dma_engine_command_device_clear() keeps it. *)
LEMMA DmaClearKeeps == ASSUME RxInv, DmaClear PROVE RxInv'
<1>1. /\ hdrv.at = "cleared" /\ hdrv' = [hdrv EXCEPT !.at = "fresh", !.took = WithoutRest(@)]
      /\ hrx' = [hrx EXCEPT !.buf = <<>>, !.ptr = 0, !.off = 0, !.dcb = "none"]
      /\ hmem' = hmem /\ hline' = hline
  BY DEF DmaClear
<1>2. /\ hrx' \in ReceiverType /\ hrx'.buf = <<>> /\ hrx'.st = hrx.st /\ hrx'.ctl = hrx.ctl
  <2>1. 0 \in Blocks /\ <<>> \in Seq(RxFrame)
    BY BlockNumbers
  <2> QED
    BY <1>1, <2>1, RxState DEF ReceiverType, KeyLoaded
<1>3. WithoutRest(hdrv.took) = hdrv.took
  BY DEF WithoutRest, RxInv, Whole
<1>4. hdrv' \in [at : DriverPlaces, pos : Blocks, took : Seq(Piece)]
      /\ hdrv'.at = "fresh" /\ hdrv'.took = hdrv.took
  BY <1>1, <1>3, RxState DEF DriverPlaces
<1>5. RxTypes'
  BY <1>1, <1>2, <1>4, RxState DEF RxTypes
<1>6. Buffered(<<>>, hline.come) /\ BeforeBuffer(hdrv.took, <<>>, hline.come)
  BY DEF Buffered, BeforeBuffer, RxInv
<1> QED
  BY <1>1, <1>2, <1>4, <1>5, <1>6 DEF RxInv, RxTold, RxIdle

(* An empty list and a receiver at its first block are in agreement. *)
LEMMA NothingTaken ==
  ASSUME NEW m \in RxMemory, NEW p \in Blocks, RxHolds(m, p, <<>>),
         NEW r \in ReceiverType, r.dcb = "empty",
         r.off = p, NEW t \in Seq(Piece), InSequence(t), Whole(t), BeforeBuffer(t, r.buf, hline.come)
  PROVE  /\ RxReady(r, p, <<>>) /\ InSequence(t \o <<>>) /\ BeforeBuffer(t \o <<>>, r.buf, hline.come)
         /\ Whole(t \o <<>>)
<1>1. t \o <<>> = t /\ Len(<<>>) = 0
  BY ConcatEmptySeq
<1>2. PlaceFrom(p, 0) = p /\ 0 < RxBlocks
  BY PlaceFacts, BlockNumbers
<1> QED
  BY <1>1, <1>2 DEF RxReady

(* The driver's start keeps the invariant. *)
LEMMA DriverStartsKeeps == ASSUME RxInv, DriverStarts PROVE RxInv'
<1>1. /\ hdrv.at = "fresh" /\ hdrv' = [hdrv EXCEPT !.at = "enables", !.pos = 0] /\ hline' = hline
      /\ hrx' = ReceiverStart(GivenBack(Now, Blocks), 0).r
      /\ hmem' = ReceiverStart(GivenBack(Now, Blocks), 0).m
  BY DEF DriverStarts, Become
<1>0. 0 \in Blocks
  BY BlockNumbers
<1>2. PICK m \in RxMemory : GivenBack(Now, Blocks) = [r |-> hrx, m |-> m]
         /\ \A p \in Blocks : RxHolds(m, p, <<>>)
  <2>1. \A b \in Blocks \ Blocks : hmem.key[b] = "empty"
    OBVIOUS
  <2>2. Blocks \in SUBSET Blocks
    OBVIOUS
  <2> QED
    BY <2>1, <2>2, RxState, GivenBackAll, ZenonT(60)
<1>3. PICK q \in ReceiverType :
           /\ ReceiverStart([r |-> hrx, m |-> m], 0) = [r |-> q, m |-> m]
           /\ q.ctl = hrx.ctl \cup {"dma"} /\ q.buf = hrx.buf /\ q.irq = hrx.irq
           /\ q.dcb = "empty" /\ q.off = 0 /\ "empty" \notin q.st
  BY <1>0, <1>2, RxState, RxStarted
<1>4. hrx' = q /\ hmem' = m
  BY <1>1, <1>2, <1>3
<1>5. hdrv' \in [at : DriverPlaces, pos : Blocks, took : Seq(Piece)]
      /\ hdrv'.at = "enables" /\ hdrv'.pos = 0 /\ hdrv'.took = hdrv.took
  BY <1>0, <1>1, RxState DEF DriverPlaces
<1>6. RxTypes'
  BY <1>1, <1>2, <1>4, <1>5, RxState DEF RxTypes
<1>7. RxWorking(<<>>)'
  <2>1. RxHolds(m, 0, <<>>)
    BY <1>0, <1>2
  <2>2. InSequence(hdrv.took) /\ Whole(hdrv.took) /\ BeforeBuffer(hdrv.took, q.buf, hline.come)
    BY <1>3 DEF RxInv
  <2>3. /\ RxReady(q, 0, <<>>) /\ InSequence(hdrv.took \o <<>>)
        /\ BeforeBuffer(hdrv.took \o <<>>, q.buf, hline.come) /\ Whole(hdrv.took \o <<>>)
    BY <1>0, <1>2, <1>3, <2>1, <2>2, RxState, NothingTaken
  <2> QED
    BY <1>1, <1>4, <1>5, <2>1, <2>3 DEF RxWorking
<1>8. <<>> \in Seq(Piece)
  OBVIOUS
<1> QED
  BY <1>1, <1>3, <1>4, <1>5, <1>6, <1>7, <1>8 DEF RxInv, RxTold, RxIdle

(* A driver that drops a first half at the end keeps whole frames in       *)
(* order.                                                                  *)
LEMMA LastDropped ==
  ASSUME NEW t \in Seq(Piece), InSequence(t), BeforeBuffer(t, hrx.buf, hline.come)
  PROVE  /\ WithoutRest(t) \in Seq(Piece) /\ InSequence(WithoutRest(t)) /\ Whole(WithoutRest(t))
         /\ BeforeBuffer(WithoutRest(t), hrx.buf, hline.come)
<1>1. CASE t # <<>> /\ t[Len(t)][2] = 1
  <2> DEFINE n == Len(t)
             w == SubSeq(t, 1, n - 1)
  <2>1. WithoutRest(t) = w
    BY <1>1 DEF WithoutRest
  <2>2. n \in Nat /\ n > 0
    BY <1>1
  <2>3. w \in Seq(Piece) /\ Len(w) = n - 1 /\ \A i \in 1..(n - 1) : w[i] = t[i]
    <3>1. 1 \in 1..(n + 1) /\ n - 1 \in 0..n /\ 1 <= n /\ (n - 1) + 1 = n
      BY <2>2
    <3>2. \A i \in 1..(n - 1) : t[i] \in Piece /\ 1 + i - 1 = i
      BY <2>2
    <3>3. w = [i \in 1..(n - 1) |-> t[i]]
      BY <2>2, <3>2
    <3> HIDE DEF w
    <3> QED
      BY <2>2, <3>2, <3>3
  <2> HIDE DEF w
  <2>4. InSequence(w)
    BY <2>2, <2>3, SMTT(40) DEF InSequence
  <2>5. BeforeBuffer(w, hrx.buf, hline.come)
    <3>1. \A i \in 1..Len(w) : i \in 1..Len(t) /\ w[i] = t[i]
      BY <2>2, <2>3
    <3> QED
      BY <3>1 DEF BeforeBuffer, UpTo
  <2>6. ASSUME w # <<>>, w[Len(w)][2] = 1 PROVE FALSE
    <3>1. n - 1 \in 1..(n - 1) /\ (n - 1) + 1 = n
      BY <2>2, <2>3, <2>6
    <3>2. Follows(t[n - 1], t[n])
      BY <3>1 DEF InSequence
    <3>3. t[n - 1][2] = 1
      BY <2>3, <2>6, <3>1
    <3>4. t[n] = <<t[n - 1][1], 2>>
      BY <3>2, <3>3 DEF Follows
    <3> QED
      BY <1>1, <3>4
  <2>7. Whole(w)
    BY <2>6 DEF Whole
  <2> QED
    BY <2>1, <2>3, <2>4, <2>5, <2>7
<1>2. CASE ~(t # <<>> /\ t[Len(t)][2] = 1)
  <2>1. WithoutRest(t) = t
    BY <1>2 DEF WithoutRest
  <2>2. Whole(t)
    BY <1>2 DEF Whole
  <2> QED
    BY <2>1, <2>2
<1> QED
  BY <1>1, <1>2

(* The driver reads the status, takes what has come, gives the blocks      *)
(* back and, after LIST_EMPTY, begins the list anew.                       *)
LEMMA DriverLooksKeeps == ASSUME RxInv, HdlcRare = {}, DriverLooks PROVE RxInv'
<1> DEFINE blocks == {Ring(i) : i \in 0..(Run - 1)}
           p == hdrv.pos
<1>0. 0 \in Blocks /\ <<>> \in Seq(Piece) /\ p \in Blocks
  BY BlockNumbers, RxState
<1>1. hdrv.at = "looks" /\ hline' = hline
  BY DEF DriverLooks
<1>2. ~RxIdle /\ {"ie", "ends"} \subseteq hrx.ctl
  BY <1>1 DEF RxInv, RxIdle
<1>3. PICK h \in Seq(Piece) : RxWorking(h)
  BY <1>2 DEF RxInv
<1>4. /\ Run = Len(h) /\ Taken = h /\ Ring(Run) \in Blocks /\ Len(h) \in Nat /\ Len(h) <= RxBlocks
      /\ \A i \in Blocks : Ring(i) = PlaceFrom(p, i)
  BY <1>0, <1>3, RunIs DEF RxWorking, RxHolds
<1>5. blocks \in SUBSET Blocks /\ \A b \in Blocks \ blocks : hmem.key[b] = "empty"
  <2>1. \A i \in 0..(Run - 1) : i \in Blocks
    BY <1>4, BlockNumbers
  <2>2. blocks \in SUBSET Blocks
    <3>1. \A i \in Blocks : PlaceFrom(p, i) \in Blocks
      BY <1>0, PlaceFacts
    <3>2. \A i \in 0..(Run - 1) : Ring(i) \in Blocks
      BY <1>4, <2>1, <3>1
    <3> QED
      BY <3>2
  <2>3. ASSUME NEW b \in Blocks \ blocks PROVE hmem.key[b] = "empty"
    <3>1. PICK i \in Blocks : b = PlaceFrom(p, i)
      BY <1>0, PlaceFacts, ZenonT(60)
    <3>2. ~(i < Len(h))
      <4>1. ASSUME i < Len(h) PROVE FALSE
        <5>1. i \in 0..(Run - 1)
          BY <1>4, <4>1, BlockNumbers
        <5>2. b = Ring(i)
          BY <1>4, <3>1
        <5> QED
          BY <2>3, <5>1, <5>2
      <4> QED
        BY <4>1
    <3> QED
      BY <1>3, <3>1, <3>2 DEF RxWorking, RxHolds
  <2> QED
    BY <2>2, <2>3
<1> HIDE DEF blocks
<1>6. PICK m \in RxMemory : GivenBack(Now, blocks) = [r |-> hrx, m |-> m]
         /\ \A b \in Blocks : RxHolds(m, b, <<>>)
  BY <1>5, RxState, GivenBackAll
<1> DEFINE cleared == [hrx EXCEPT !.st = @ \ {"request", "end", "empty"}]
           all == hdrv.took \o h
<1>7. /\ cleared \in ReceiverType /\ cleared.buf = hrx.buf /\ cleared.ctl = hrx.ctl
           /\ cleared.irq = hrx.irq
      /\ cleared.off = hrx.off /\ cleared.dcb = hrx.dcb /\ "empty" \notin cleared.st
  BY RxState DEF ReceiverType
<1>8. StatusRead(GivenBack(Now, blocks)) = [r |-> cleared, m |-> m]
  <2>1. StatusRead(GivenBack(Now, blocks))
          = [[r |-> hrx, m |-> m] EXCEPT !.r.st = hrx.st \ {"request", "end", "empty"}]
    BY <1>6 DEF StatusRead
  <2> QED
    BY <2>1
<1> HIDE DEF cleared
<1>9. all \in Seq(Piece) /\ InSequence(all) /\ BeforeBuffer(all, hrx.buf, hline.come)
  <2>1. all \in Seq(Piece)
    BY RxState, ConcatProperties
  <2> QED
    BY <1>3, <2>1 DEF RxWorking
<1>10. ASSUME NEW place \in Blocks, NEW t \in Seq(Piece), NEW q \in ReceiverType,
              hdrv' = [hdrv EXCEPT !.pos = place, !.took = t, !.at = "waits"],
              hrx' = q, hmem' = m, q.buf = hrx.buf, {"ie", "ends"} \subseteq q.ctl, "empty" \notin q.st,
              q.dcb = "empty", q.off = place,
              InSequence(t), Whole(t), BeforeBuffer(t, hrx.buf, hline.come)
       PROVE  RxInv'
  <2>1. hdrv' \in [at : DriverPlaces, pos : Blocks, took : Seq(Piece)]
        /\ hdrv'.at = "waits" /\ hdrv'.pos = place /\ hdrv'.took = t
    BY <1>10, RxState DEF DriverPlaces
  <2>2. RxTypes'
    BY <1>1, <1>6, <1>10, <2>1, RxState DEF RxTypes
  <2>3. RxHolds(m, place, <<>>) /\ m.key[place] = "empty"
    <3>1. RxHolds(m, place, <<>>)
      BY <1>6, <1>10
    <3>2. PlaceFrom(place, 0) = place /\ ~(0 < Len(<<>>))
      BY <1>10, PlaceFacts
    <3> QED
      BY <1>0, <3>1, <3>2 DEF RxHolds
  <2>4. /\ RxReady(q, place, <<>>) /\ InSequence(t \o <<>>)
        /\ BeforeBuffer(t \o <<>>, q.buf, hline.come) /\ Whole(t \o <<>>)
    BY <1>6, <1>10, <2>3, NothingTaken
  <2>5. RxWorking(<<>>)'
    BY <1>1, <1>10, <2>1, <2>3, <2>4 DEF RxWorking
  <2> QED
    BY <1>0, <1>1, <1>10, <2>1, <2>2, <2>3, <2>5 DEF RxInv, RxTold, RxIdle
<1>11. CASE /\ "empty" \notin hrx.st
            /\ hdrv' = [hdrv EXCEPT !.pos = Ring(Run), !.took = @ \o Taken, !.at = "waits"]
            /\ Become(StatusRead(GivenBack(Now, blocks)))
  <2>1. hrx' = cleared /\ hmem' = m
    BY <1>8, <1>11 DEF Become
  <2>2. hrx.dcb = "empty" /\ Len(h) < RxBlocks /\ hrx.off = PlaceFrom(p, Len(h)) /\ Whole(all)
    BY <1>3, <1>11 DEF RxWorking, RxReady
  <2>3. hrx.off = Ring(Run)
    BY <1>4, <2>2, BlockNumbers
  <2>4. hdrv' = [hdrv EXCEPT !.pos = Ring(Run), !.took = all, !.at = "waits"]
    BY <1>4, <1>11
  <2> HIDE DEF all
  <2> QED
    BY <1>2, <1>4, <1>7, <1>9, <1>10, <2>1, <2>2, <2>3, <2>4
<1>12. CASE /\ hdrv' = [hdrv EXCEPT !.pos = 0, !.took = WithoutRest(hdrv.took \o Taken), !.at = "waits"]
            /\ Become(ReceiverStart(StatusRead(GivenBack(Now, blocks)), 0))
  <2>1. PICK q \in ReceiverType :
           /\ ReceiverStart([r |-> cleared, m |-> m], 0) = [r |-> q, m |-> m]
           /\ q.ctl = cleared.ctl \cup {"dma"} /\ q.buf = cleared.buf /\ q.irq = cleared.irq
           /\ q.dcb = "empty" /\ q.off = 0 /\ "empty" \notin q.st
    BY <1>0, <1>6, <1>7, RxStarted
  <2>2. hrx' = q /\ hmem' = m
    BY <1>8, <1>12, <2>1 DEF Become
  <2>3. /\ WithoutRest(all) \in Seq(Piece) /\ InSequence(WithoutRest(all)) /\ Whole(WithoutRest(all))
        /\ BeforeBuffer(WithoutRest(all), hrx.buf, hline.come)
    <3> HIDE DEF all
    <3> QED
      BY <1>9, LastDropped
  <2>4. hdrv' = [hdrv EXCEPT !.pos = 0, !.took = WithoutRest(all), !.at = "waits"]
    BY <1>4, <1>12
  <2> HIDE DEF all
  <2> QED
    BY <1>0, <1>2, <1>7, <1>10, <2>1, <2>2, <2>3, <2>4
<1> QED
  <2>1. \/ /\ "empty" \notin hrx.st
           /\ hdrv' = [hdrv EXCEPT !.pos = Ring(Run), !.took = @ \o Taken, !.at = "waits"]
           /\ Become(StatusRead(GivenBack(Now, blocks)))
        \/ /\ hdrv' = [hdrv EXCEPT !.pos = 0, !.took = WithoutRest(hdrv.took \o Taken), !.at = "waits"]
           /\ Become(ReceiverStart(StatusRead(GivenBack(Now, blocks)), 0))
    BY DEF DriverLooks, blocks
  <2> QED
    BY <1>11, <1>12, <2>1

(* Types of the transmitter's side, and of what has come and gone. *)
TxBlock == [key : {"send", "sent"}, last : BOOLEAN]
TransmitterType ==
  [ctl : SUBSET {"tx", "dma", "ie"}, st : SUBSET {"request"}, irq : BOOLEAN, sender
       : {"stopped", "ready"},
   counts : BOOLEAN, list : Seq(TxBlock), at
        : {"idle", "started", "waits", "identified", "cleared"}, lists : Nat]
LineType == [come : Nat, gone : Seq(Nat \X Nat)]

(* A frame of a later list, or further on in the same one. *)
Later(a, b) == b[1] > a[1] \/ (b[1] = a[1] /\ b[2] > a[2])

(* The transmitter's invariant: frames have gone in order, none of a list  *)
(* that is not sent yet; a driver that waits has been told or a tick is    *)
(* still to send its list.                                                 *)
TxInv ==
  /\ htx \in TransmitterType /\ hline \in LineType
  /\ \A i \in 1..(Len(hline.gone) - 1) : Later(hline.gone[i], hline.gone[i + 1])
  /\ \A i \in 1..Len(hline.gone) : hline.gone[i][1] <= htx.lists
  /\ htx.sender = "ready" /\ htx.list # <<>>
       => \A i \in 1..Len(hline.gone) : hline.gone[i][1] < htx.lists
  /\ htx.at = "started" =>
       htx.list # <<>> /\ ((htx.sender = "ready" /\ htx.counts = TRUE) \/ "request" \in htx.st)
  /\ htx.at = "waits" =>
       /\ "ie" \in htx.ctl
       /\ htx.irq = TRUE \/ (htx.list # <<>> /\ htx.sender = "ready" /\ htx.counts = TRUE
            /\ "tx" \in htx.ctl)

(* A list's frames, at the places f, added to those that have gone. *)
WithFrames(gone, lists, f) == gone \o [i \in DOMAIN f |-> <<lists, f[i]>>]
Rising(f) == \A i, j \in DOMAIN f : i < j => f[i] < f[j]
GoneInOrder(g) == \A i \in 1..(Len(g) - 1) : Later(g[i], g[i + 1])
GoneBelow(g, n) == \A i \in 1..Len(g) : g[i][1] < n
GoneUpTo(g, n) == \A i \in 1..Len(g) : g[i][1] <= n

(* Frames of a newer list at increasing places keep all in order. *)
LEMMA FramesGone ==
  ASSUME NEW gone \in Seq(Nat \X Nat), NEW n \in Nat, NEW lists \in Nat, NEW f \in [1..n -> Nat],
         Rising(f), GoneInOrder(gone), GoneBelow(gone, lists)
  PROVE  /\ WithFrames(gone, lists, f) \in Seq(Nat \X Nat)
         /\ GoneInOrder(WithFrames(gone, lists, f)) /\ GoneUpTo(WithFrames(gone, lists, f), lists)
<1> DEFINE e == [i \in DOMAIN f |-> <<lists, f[i]>>]
           g == gone \o e
           l == Len(gone)
<1>1. e \in Seq(Nat \X Nat) /\ Len(e) = n /\ \A i \in 1..n : e[i] = <<lists, f[i]>>
  OBVIOUS
<1>2. \A i \in 1..n : e[i][1] = lists /\ e[i][2] = f[i] /\ f[i] \in Nat
  BY <1>1
<1> HIDE DEF e
<1>3. g \in Seq(Nat \X Nat) /\ Len(g) = l + n
         /\ \A i \in 1..(l + n) : g[i] = IF i <= l THEN gone[i] ELSE e[i - l]
  BY <1>1, ConcatProperties
<1>4. l \in Nat /\ \A i \in 1..l : gone[i][1] \in Nat
  OBVIOUS
<1> HIDE DEF g, l
<1>g. ASSUME NEW k \in 1..n PROVE g[l + k] = e[k]
  <2> DEFINE j == l + k
  <2>1. j \in 1..(l + n) /\ ~(j <= l) /\ j - l = k
    BY <1>4
  <2> HIDE DEF j
  <2>2. g[j] = e[j - l]
    BY <1>3, <2>1
  <2> QED
    BY <2>1, <2>2 DEF j
<1>5. ASSUME NEW i \in 1..(l + n - 1) PROVE Later(g[i], g[i + 1])
  <2>1. CASE i < l
    <3>1. i \in 1..(l + n) /\ i + 1 \in 1..(l + n) /\ i <= l /\ i + 1 <= l /\ i \in 1..(l - 1)
      BY <1>4, <2>1
    <3>2. g[i] = gone[i] /\ g[i + 1] = gone[i + 1]
      BY <1>3, <3>1
    <3>3. Later(gone[i], gone[i + 1])
      BY <3>1 DEF l, GoneInOrder
    <3> QED
      BY <3>2, <3>3
  <2>2. CASE i = l
    <3>1. l \in 1..(l + n) /\ l <= l /\ 1 \in 1..n /\ l \in 1..l
      BY <1>4, <2>2
    <3>2. g[l] = gone[l] /\ g[l + 1] = e[1]
      BY <1>3, <1>g, <3>1
    <3>3. gone[l][1] < lists
      BY <3>1 DEF l, GoneBelow
    <3> QED
      BY <1>2, <1>4, <2>2, <3>1, <3>2, <3>3 DEF Later
  <2>3. CASE i > l
    <3>1. PICK k \in 1..n : i = l + k /\ k + 1 \in 1..n /\ i + 1 = l + (k + 1) /\ k < k + 1
      <4>1. i - l \in 1..n /\ i = l + (i - l) /\ (i - l) + 1 \in 1..n /\ i + 1 = l + ((i - l) + 1)
        BY <1>4, <2>3
      <4> QED
        BY <4>1
    <3>2. g[i] = e[k] /\ g[i + 1] = e[k + 1]
      BY <1>g, <3>1
    <3>3. f[k] < f[k + 1]
      BY <3>1 DEF Rising
    <3> QED
      BY <1>2, <3>1, <3>2, <3>3 DEF Later
  <2> QED
    BY <1>4, <2>1, <2>2, <2>3
<1>6. ASSUME NEW i \in 1..(l + n) PROVE g[i][1] <= lists
  <2>1. CASE i <= l
    <3>1. i \in 1..l /\ g[i] = gone[i]
      BY <1>3, <1>4, <2>1
    <3>2. gone[i][1] \in Nat /\ gone[i][1] < lists
      BY <1>4, <3>1 DEF l, GoneBelow
    <3> QED
      BY <3>1, <3>2
  <2>2. CASE i > l
    <3>1. i - l \in 1..n /\ i = l + (i - l)
      BY <1>4, <2>2
    <3>2. PICK k \in 1..n : i = l + k
      BY <3>1
    <3>3. g[i] = e[k]
      BY <1>g, <3>2
    <3> QED
      BY <1>2, <3>2, <3>3
  <2> QED
    BY <1>4, <2>1, <2>2
<1>7. Len(g) = l + n
  BY <1>3
<1>8. GoneInOrder(g)
  <2>0. l + n - 1 = (l + n) - 1
    BY <1>4
  <2>1. Len(g) - 1 = l + n - 1
    BY <1>4, <1>7, <2>0
  <2>2. \A i \in 1..(l + n - 1) : Later(g[i], g[i + 1])
    BY <1>5
  <2> QED
    BY <2>1, <2>2 DEF GoneInOrder
<1>9. GoneUpTo(g, lists)
  BY <1>6, <1>7 DEF GoneUpTo
<1>10. WithFrames(gone, lists, f) = g
  BY DEF WithFrames, g, e
<1> QED
  BY <1>3, <1>8, <1>9, <1>10

(* Every step of the transmitter and its driver keeps the invariant. *)
LEMMA TransmitterKeeps == ASSUME TxInv, TransmitterNext PROVE TxInv'
<1> USE DEF TxInv
<1>0. htx \in TransmitterType /\ hline \in LineType
  OBVIOUS
<1>1. ASSUME NEW list \in TxLists, TransmitterStart(list) PROVE TxInv'
  <2>1. list \in Seq(TxBlock) /\ list # <<>>
    <3>1. PICK a, b, c \in TxBlock : list \in {<<a>>, <<b, a>>, <<c, a>>, <<a, a>>}
      <4> DEFINE a == [key |-> "send", last |-> TRUE]
                 b == [key |-> "sent", last |-> TRUE]
                 c == [key |-> "send", last |-> FALSE]
      <4>1. a \in TxBlock /\ b \in TxBlock /\ c \in TxBlock
        BY DEF TxBlock
      <4>2. list \in {<<a>>, <<b, a>>, <<c, a>>, <<a, a>>}
        BY DEF TxLists
      <4> HIDE DEF a, b, c
      <4> QED
        BY <4>1, <4>2
    <3>2. \A x \in TxBlock : <<x>> \in Seq(TxBlock) /\ <<x>> # <<>>
      OBVIOUS
    <3>3. \A x, y \in TxBlock : <<x, y>> \in Seq(TxBlock) /\ <<x, y>> # <<>>
      OBVIOUS
    <3> QED
      BY <3>1, <3>2, <3>3
  <2>2. /\ htx' = [htx EXCEPT !.list = list, !.sender = "ready", !.counts = TRUE, !.at = "started",
                              !.lists = @ + 1]
        /\ hline' = hline
    BY <1>1 DEF TransmitterStart
  <2>3. htx.lists \in Nat /\ \A i \in 1..Len(hline.gone) : hline.gone[i][1] \in Nat
    BY <1>0 DEF LineType, TransmitterType
  <2>4. /\ htx' \in TransmitterType /\ htx'.at = "started" /\ htx'.lists = htx.lists + 1
        /\ htx'.list = list /\ htx'.sender = "ready" /\ htx'.counts = TRUE
    <3>1. PICK k \in Nat : k = htx.lists + 1
      BY <2>3
    <3>2. htx' = [htx EXCEPT !.list = list, !.sender = "ready", !.counts = TRUE, !.at = "started",
                             !.lists = k]
      BY <2>2, <3>1
    <3> HIDE DEF TxInv
    <3> QED
      BY <1>0, <2>1, <3>1, <3>2 DEF TransmitterType
  <2>5. \A i \in 1..Len(hline.gone) : hline.gone[i][1] < htx.lists + 1
    BY <2>3
  <2>6. \A i \in 1..Len(hline.gone) : hline.gone[i][1] <= htx.lists + 1
    BY <2>3
  <2> QED
    BY <2>1, <2>2, <2>4, <2>5, <2>6
<1>2. CASE TransmitterEnable
  BY <1>2 DEF TransmitterEnable, TransmitterType
<1>3. CASE TxTick
  <2>1. CASE htx.list = <<>>
    BY <1>3, <2>1, ZenonT(60) DEF TxTick, TransmitterType
  <2>2. CASE htx.list # <<>>
    <3> DEFINE ends == FrameEnds
               n == Cardinality(ends)
    <3>1. PICK f \in [1..n -> ends] :
            /\ \A i, j \in DOMAIN f : i < j => f[i] < f[j]
            /\ hline' = [hline EXCEPT !.gone = @ \o [i \in DOMAIN f |-> <<htx.lists, f[i]>>]]
      BY <1>3, <2>2 DEF TxTick
    <3>2. ends \subseteq 1..Len(htx.list) /\ Len(htx.list) \in Nat
      BY <1>0 DEF FrameEnds, TransmitterType
    <3>3. n \in Nat
      <4>1. IsFiniteSet(1..Len(htx.list))
        <5> DEFINE l == Len(htx.list)
        <5>1. 1 \in Int /\ l \in Int
          BY <3>2
        <5> HIDE DEF l
        <5>2. IsFiniteSet(1..l)
          BY <5>1, FS_Interval
        <5> QED
          BY <5>2 DEF l
      <4>2. IsFiniteSet(ends)
        BY <3>2, <4>1, FS_Subset
      <4> QED
        BY <4>2, FS_CardinalityType
    <3> HIDE DEF ends, n
    <3>4. f \in [1..n -> Nat]
      <4>1. ends \subseteq Nat
        BY <3>2
      <4> QED
        BY <4>1
    <3>5. htx.sender = "ready" /\ htx.lists \in Nat /\ hline.gone \in Seq(Nat \X Nat)
      BY <1>0, <1>3 DEF TxTick, TransmitterType, LineType
    <3>6. \A i \in 1..Len(hline.gone) : hline.gone[i][1] < htx.lists
      BY <2>2, <3>5
    <3> DEFINE e == [i \in DOMAIN f |-> <<htx.lists, f[i]>>]
               g == hline.gone \o e
    <3>7. /\ g \in Seq(Nat \X Nat)
          /\ \A i \in 1..(Len(g) - 1) : Later(g[i], g[i + 1])
          /\ \A i \in 1..Len(g) : g[i][1] <= htx.lists
      <4>1. /\ Rising(f) /\ GoneInOrder(hline.gone) /\ GoneBelow(hline.gone, htx.lists)
            /\ g = WithFrames(hline.gone, htx.lists, f)
        BY <3>1, <3>6 DEF Rising, GoneInOrder, GoneBelow, WithFrames
      <4> HIDE DEF g, TxInv
      <4>2. g \in Seq(Nat \X Nat) /\ GoneInOrder(g) /\ GoneUpTo(g, htx.lists)
        BY <3>3, <3>4, <3>5, <4>1, FramesGone
      <4> QED
        BY <4>2 DEF GoneInOrder, GoneUpTo
    <3>8. hline' = [hline EXCEPT !.gone = g]
      BY <3>1
    <3> HIDE DEF g
    <3>9. hline' \in LineType /\ hline'.gone = g
      BY <1>0, <3>7, <3>8 DEF LineType
    <3>10. Sent \in Seq(TxBlock) /\ Sent # <<>>
      <4>1. htx.list \in Seq(TxBlock) /\ Len(htx.list) \in Nat /\ Len(htx.list) > 0
        BY <1>0, <2>2 DEF TransmitterType
      <4>2. \A i \in 1..Len(htx.list) : htx.list[i] \in TxBlock
        BY <4>1
      <4>3. \A i \in 1..Len(htx.list) : [htx.list[i] EXCEPT !.key = "sent"] \in TxBlock
        BY <4>2 DEF TxBlock
      <4>4. Sent = [i \in 1..Len(htx.list) |-> [htx.list[i] EXCEPT !.key = "sent"]]
        BY <4>1 DEF Sent
      <4>5. Sent \in Seq(TxBlock) /\ Len(Sent) = Len(htx.list)
        BY <4>1, <4>3, <4>4
      <4> QED
        BY <4>1, <4>5
    <3>11. htx' = [htx EXCEPT !.list = Sent, !.sender = "stopped", !.counts = FALSE,
                              !.ctl = @ \ {"tx"}, !.st = @ \cup {"request"}, !.irq = @
                                   \/ "ie" \in htx.ctl]
      BY <1>3, <2>2 DEF TxTick
    <3>12. /\ htx' \in TransmitterType /\ htx'.sender = "stopped" /\ "request" \in htx'.st
                /\ htx'.at = htx.at
           /\ htx'.list = Sent /\ htx'.lists = htx.lists /\ ("ie" \in htx.ctl => htx'.irq = TRUE)
           /\ ("ie" \in htx.ctl => "ie" \in htx'.ctl)
      <4> HIDE DEF TxInv
      <4> QED
        BY <1>0, <3>10, <3>11 DEF TransmitterType
    <3> QED
      BY <3>7, <3>9, <3>10, <3>12
  <2> QED
    BY <2>1, <2>2
<1>4. CASE TxIdent
  BY <1>4 DEF TxIdent, TransmitterType
<1>5. CASE TxStatus
  BY <1>5 DEF TxStatus, TransmitterType
<1>6. CASE DeviceClear
  BY <1>6 DEF DeviceClear, TransmitterType
<1>7. CASE DmaClear
  <2>1. htx' = [htx EXCEPT !.list = <<>>, !.at = "idle"] /\ hline' = hline
    BY <1>7 DEF DmaClear
  <2>2. htx' \in TransmitterType /\ htx'.list = <<>> /\ htx'.at = "idle" /\ htx'.lists = htx.lists
    <3>1. <<>> \in Seq(TxBlock)
      OBVIOUS
    <3> HIDE DEF TxInv
    <3> QED
      BY <1>0, <2>1, <3>1 DEF TransmitterType
  <2> QED
    BY <2>1, <2>2
<1> QED
  <2> HIDE DEF TxInv
  <2> QED
    BY <1>1, <1>2, <1>3, <1>4, <1>5, <1>6, <1>7 DEF TransmitterNext

(* Both invariants hold of a card after dmacb_init(). *)
LEMMA HdlcInvInit == HdlcInit => RxInv /\ TxInv
<1> SUFFICES ASSUME HdlcInit PROVE RxInv /\ TxInv
  OBVIOUS
<1>1. 0 \in Blocks /\ EndBlock \notin Blocks
  BY BlockNumbers
<1>2. hrx \in ReceiverType
  <2>1. hrx = [ctl |-> {}, st |-> {}, irq |-> FALSE, buf |-> <<>>, ptr |-> 0, off |-> 0, dcb |-> "none"]
    BY DEF HdlcInit
  <2>2. <<>> \in Seq(RxFrame)
    OBVIOUS
  <2> QED
    BY <1>1, <2>1, <2>2 DEF ReceiverType, KeyLoaded
<1>3. hmem \in RxMemory
  <2>1. <<0, 0>> \in Piece
    BY DEF Piece
  <2>2. [b \in Blocks |-> <<0, 0>>] \in [Blocks -> Piece]
    BY <2>1
  <2>3. [b \in Blocks \cup {EndBlock} |-> IF b = EndBlock THEN "new list" ELSE "empty"] \in KeyList
    BY <1>1 DEF KeyList
  <2> QED
    BY <2>2, <2>3 DEF HdlcInit, RxMemory
<1>a. /\ hdrv = [at |-> "fresh", pos |-> 0, took |-> <<>>] /\ hline = [come |-> 0, gone |-> <<>>]
      /\ hrx.ctl = {} /\ hrx.st = {} /\ hrx.buf = <<>>
      /\ htx = [ctl |-> {}, st |-> {}, irq |-> FALSE, sender |-> "stopped", counts |-> FALSE,
                list |-> <<>>, at |-> "idle", lists |-> 0]
  BY DEF HdlcInit
<1>4. hdrv \in [at : DriverPlaces, pos : Blocks, took : Seq(Piece)] /\ hline \in LineType
  <2>1. <<>> \in Seq(Piece) /\ <<>> \in Seq(Nat \X Nat)
    OBVIOUS
  <2> QED
    BY <1>1, <1>a, <2>1 DEF DriverPlaces, LineType
<1>5. RxInv
  <2>1. RxTypes
    BY <1>2, <1>3, <1>4 DEF RxTypes, LineType
  <2>2. /\ Buffered(<<>>, 0) /\ InSequence(<<>>) /\ Whole(<<>>) /\ BeforeBuffer(<<>>, <<>>, 0)
    BY DEF Buffered, InSequence, Whole, BeforeBuffer, UpTo
  <2> QED
    BY <1>a, <2>1, <2>2 DEF RxInv, RxIdle, RxTold
<1>6. TxInv
  <2>1. htx \in TransmitterType
    BY <1>a DEF TransmitterType
  <2> QED
    BY <1>4, <1>a, <2>1 DEF TxInv
<1> QED
  BY <1>5, <1>6

(* Every step of either direction keeps both. *)
LEMMA HdlcInvNext ==
  ASSUME HdlcRare = {}, RxInv, TxInv, [HdlcNext]_hdlcVars
  PROVE  RxInv' /\ TxInv'
<1>0. hline \in [come : Nat, gone : Seq(Nat \X Nat)]
  BY DEF TxInv, LineType
<1>1. ASSUME hrx' = hrx, hmem' = hmem, hdrv' = hdrv, hline'.come = hline.come PROVE RxInv'
  <2>1. \A h : RxWorking(h) => RxWorking(h)'
    BY <1>1 DEF RxWorking
  <2> QED
    BY <1>1, <2>1 DEF RxInv, RxTypes, RxTold, RxIdle
<1>2. ASSUME htx' = htx, hline' \in LineType, hline'.gone = hline.gone PROVE TxInv'
  BY <1>2 DEF TxInv
<1>3. CASE ReceiverNext
  <2>1. RxInv'
    BY <1>0, <1>3, RxTickKeeps, FrameComesKeeps, DriverStartsKeeps, DriverEnablesKeeps,
       DriverLooksKeeps,
       RxIdentKeeps, DeviceClearKeeps, DmaClearKeeps DEF ReceiverNext
  <2>2. CASE DeviceClear \/ DmaClear
    BY <2>1, <2>2, TransmitterKeeps DEF TransmitterNext
  <2>3. CASE \E size \in 1..2, good \in BOOLEAN : FrameComes(size, good)
    <3>1. htx' = htx /\ hline' = [hline EXCEPT !.come = @ + 1]
      BY <2>3 DEF FrameComes
    <3>2. hline' \in LineType /\ hline'.gone = hline.gone
      BY <1>0, <3>1 DEF LineType
    <3> QED
      BY <1>2, <2>1, <3>1, <3>2
  <2>4. CASE RxTick \/ DriverStarts \/ DriverEnables \/ DriverLooks \/ RxIdent
    BY <1>0, <1>2, <2>1, <2>4 DEF RxTick, DriverStarts, DriverEnables, DriverLooks, RxIdent, LineType
  <2> QED
    BY <1>3, <2>2, <2>3, <2>4 DEF ReceiverNext
<1>4. CASE TransmitterNext
  <2>1. TxInv'
    BY <1>4, TransmitterKeeps
  <2>2. CASE DeviceClear \/ DmaClear
    BY <2>1, <2>2, DeviceClearKeeps, DmaClearKeeps
  <2>3. CASE (\E list \in TxLists : TransmitterStart(list)) \/ TransmitterEnable \/ TxTick
           \/ TxIdent \/ TxStatus
    <3>1. hrx' = hrx /\ hmem' = hmem /\ hdrv' = hdrv /\ hline'.come = hline.come
      BY <1>0, <2>3 DEF TransmitterStart, TransmitterEnable, TxTick, TxIdent, TxStatus
    <3> QED
      BY <1>1, <2>1, <3>1
  <2> QED
    BY <1>4, <2>2, <2>3 DEF TransmitterNext
<1>5. CASE UNCHANGED hdlcVars
  BY <1>0, <1>1, <1>2, <1>5 DEF hdlcVars, LineType
<1> QED
  BY <1>3, <1>4, <1>5 DEF HdlcNext

(* Both hold always. *)
LEMMA HdlcInvAlways == ASSUME HdlcRare = {} PROVE HdlcSpec => [](RxInv /\ TxInv)
<1>1. RxInv /\ TxInv /\ [HdlcNext]_hdlcVars => (RxInv /\ TxInv)'
  BY HdlcInvNext
<1> QED
  BY <1>1, HdlcInvInit, PTL DEF HdlcSpec

(* Frames reach the driver in order, whole and once, however often the     *)
(* receive list runs out and is begun anew, and leave in order and once,   *)
(* for every length of the list, every bound and every transmit list       *)
(* (part of DataInOrder).                                                  *)
THEOREM FramesInOrder == ASSUME HdlcRare = {} PROVE HdlcSpec => []HdlcInOrder
<1>1. RxInv /\ TxInv => HdlcInOrder
  BY DEF RxInv, TxInv, HdlcInOrder, InSequence, Follows, Later
<1> QED
  BY <1>1, HdlcInvAlways, PTL

(* A driver that waits has been told of a full block and of LIST_EMPTY,    *)
(* and one that waits for its list to be sent has been told or a tick is   *)
(* still to send it (part of InterruptsTold).                              *)
THEOREM FramesAreTold == ASSUME HdlcRare = {} PROVE HdlcSpec => []HdlcTold
<1>1. RxInv /\ TxInv => HdlcTold
  BY DEF RxInv, TxInv, RxTold, HdlcTold
<1> QED
  BY <1>1, HdlcInvAlways, PTL
-----------------------------------------------------------------------------
(* The controllers together: a behaviour of MCControllers is one of each of  *)
(* them, of which all but one stand still.                                   *)

(* Initial states and steps of the composition are those of each part. *)
LEMMA PartsBegin ==
  Init => SmdInit /\ HardDiskInit /\ FloppyInit /\ ScsiInit /\ EthInit /\ LinkInit /\ HdlcInit
  BY DEF Init

LEMMA PartsStep ==
  [Next]_vars =>
    /\ [SmdNext]_smdVars /\ [HardDiskNext]_hdVars /\ [FloppyNext]_flVars /\ [ScsiNext]_scsiVars
    /\ [EthNext]_ethVars /\ [LinkNext]_linkVars /\ [HdlcNext]_hdlcVars
<1> SUFFICES ASSUME [Next]_vars
             PROVE  /\ [SmdNext]_smdVars /\ [HardDiskNext]_hdVars /\ [FloppyNext]_flVars
                    /\ [ScsiNext]_scsiVars /\ [EthNext]_ethVars /\ [LinkNext]_linkVars
                    /\ [HdlcNext]_hdlcVars
  OBVIOUS
<1>1. CASE SmdSteps \/ HardDiskSteps \/ FloppySteps \/ ScsiSteps
  BY <1>1 DEF SmdSteps, HardDiskSteps, FloppySteps, ScsiSteps, netVars
<1>2. CASE EthernetSteps \/ LinkSteps
  BY <1>2 DEF EthernetSteps, LinkSteps, OthersRest
<1>3. CASE ReceiverSteps \/ TransmitterSteps
  BY <1>3 DEF ReceiverSteps, TransmitterSteps, HdlcRest, OthersRest, HdlcNext
<1>4. CASE UNCHANGED vars
  BY <1>4 DEF vars, netVars
<1> QED
  BY <1>1, <1>2, <1>3, <1>4 DEF Next

LEMMA PartsBehave ==
  Spec => DisksSpec /\ ScsiSpec /\ EthSpec /\ LinkSpec /\ HdlcSpec
  BY PartsBegin, PartsStep, PTL
     DEF Spec, DisksSpec, SmdSpec, HardDiskSpec, FloppySpec, ScsiSpec, EthSpec, LinkSpec, HdlcSpec

(* An operation that is over has told the CPU so, if it may interrupt: of    *)
(* all controllers, for every size and bound, when the Ethernet firmware     *)
(* fills the first buffer of a frame last and the HDLC driver keeps to the   *)
(* order that HdlcRare names.                                                *)
THEOREM InterruptsAreTold ==
  ASSUME EthRare = {}, HdlcRare = {}
  PROVE  Spec => []InterruptsTold
<1>1. DisksTold /\ ScsiTold /\ EthTold /\ HdlcTold => InterruptsTold
  BY DEF InterruptsTold
<1>2. Spec => []DisksTold
  BY PartsBehave, EndsAreTold, PTL
<1>3. Spec => []ScsiTold
  BY PartsBehave, ScsiIsTold, PTL
<1>4. Spec => []EthTold
  BY PartsBehave, EthIsTold, PTL
<1>5. Spec => []HdlcTold
  BY PartsBehave, FramesAreTold, PTL
<1> QED
  BY <1>1, <1>2, <1>3, <1>4, <1>5, PTL

(* A transfer never stands still, and bytes, frames and buffers arrive once  *)
(* each and in order: of all controllers, for every size and bound, when the *)
(* program of the SCSI adapter, the firmware of the Ethernet card and the    *)
(* driver of the HDLC card keep to the order that ScsiRare, EthRare and      *)
(* HdlcRare name.                                                            *)
THEOREM AllInOrder ==
  ASSUME ScsiRare = {}, EthRare = {}, HdlcRare = {}
  PROVE  Spec => []DataInOrder
<1>1. ScsiEnds /\ ScsiInOrder /\ EthInOrder /\ HdlcInOrder => DataInOrder
  BY DEF DataInOrder
<1>2. Spec => [](ScsiEnds /\ ScsiInOrder)
  BY PartsBehave, ScsiBytesInOrder, PTL
<1>3. Spec => []EthInOrder
  BY PartsBehave, EthFramesInOrder, PTL
<1>4. Spec => []HdlcInOrder
  BY PartsBehave, FramesInOrder, PTL
<1> QED
  BY <1>1, <1>2, <1>3, <1>4, PTL
=============================================================================
