-------------------------- MODULE DeviceTickProofs --------------------------
(***************************************************************************)
(* Proofs about devmgr_tick() for any device table, any delays and queues, *)
(* and with or without a store buffer.                                     *)
(***************************************************************************)
EXTENDS DeviceTick, TLAPS

USE DevicesAssumption, StoreBufferAssumption DEF DevicesAssumption, StoreBufferAssumption

-----------------------------------------------------------------------------
(* What one turn of a device may do to the three arrays. *)
LEMMA TicksType ==
  ASSUME DevTypeOK, NEW d \in Devs, NEW asked \in BOOLEAN, Ticks(d, asked)
  PROVE  /\ DevTypeOK'
         /\ \A e \in Devs \ {d} : delay'[e] > 0 => delay[e] > 0 \/ asked
PROOF
<1>1. /\ delay' \in [Devs -> 0..MaxDelay]
      /\ \A e \in Devs \ {d} : delay'[e] > 0 => delay[e] > 0 \/ asked
  <2>1. delay[d] \in 0..MaxDelay  BY DEF DevTypeOK
  <2>2. CASE ~asked /\ delay' = [delay EXCEPT ![d] = IF @ = 0 THEN 0 ELSE @ - 1]
    <3>1. (IF delay[d] = 0 THEN 0 ELSE delay[d] - 1) \in 0..MaxDelay  BY <2>1
    <3> QED  BY <2>2, <3>1 DEF DevTypeOK
  <2>3. CASE asked /\ \E t \in 2..MaxDelay : delay' = [delay EXCEPT ![d] = t - 1]
    <3>1. \A t \in 2..MaxDelay : t - 1 \in 0..MaxDelay  OBVIOUS
    <3> QED  BY <2>3, <3>1 DEF DevTypeOK
  <2>4. CASE /\ asked
             /\ \E e \in Devs \ {d}, t \in 1..MaxDelay :
                  delay' = [delay EXCEPT ![d] = 0, ![e] = t]
    <3>1. 0 \in 0..MaxDelay /\ 1..MaxDelay \subseteq 0..MaxDelay  OBVIOUS
    <3> QED  BY <2>4, <3>1 DEF DevTypeOK
  <2> QED  BY <2>2, <2>3, <2>4 DEF Ticks, DelayTicks
<1>2. queue' \in [Devs -> 0..MaxInput]
  <2>1. CASE queue' = queue  BY <2>1 DEF DevTypeOK
  <2>2. CASE queue' = [queue EXCEPT ![d] = IF @ = 0 THEN 0 ELSE @ - 1]
    <3>1. queue[d] \in 0..MaxInput  BY DEF DevTypeOK
    <3>2. (IF queue[d] = 0 THEN 0 ELSE queue[d] - 1) \in 0..MaxInput  BY <3>1
    <3> QED  BY <2>2, <3>2 DEF DevTypeOK
  <2> QED  BY <2>1, <2>2 DEF Ticks
<1>3. irq' \in [Devs -> BOOLEAN]  BY DEF DevTypeOK, Ticks
<1> QED  BY <1>1, <1>2, <1>3 DEF DevTypeOK

(* A store by the CPU thread keeps the types, and the thread sees it at once. *)
LEMMA StoreType ==
  ASSUME TypeOK, NEW v \in BOOLEAN, Store(v)
  PROVE  /\ wanted' \in BOOLEAN /\ pending' \in {{}, {TRUE}, {FALSE}}
         /\ ~StoreBuffer => pending' = {}
         /\ v => Wanted'
PROOF
<1>1. CASE StoreBuffer
  <2>1. pending' = {v} /\ wanted' = wanted  BY <1>1 DEF Store
  <2>2. v \in {TRUE, FALSE}  OBVIOUS
  <2> QED  BY <1>1, <2>1, <2>2 DEF TypeOK, Wanted
<1>2. CASE ~StoreBuffer
  BY <1>2 DEF Store, TypeOK, Wanted
<1> QED  BY <1>1, <1>2

-----------------------------------------------------------------------------
(* The machine starts with no delay running and no bit set. *)
THEOREM InitIInv == Init => IInv
PROOF
<1>1. ASSUME Init PROVE TypeOK
  <2>1. DevTypeOK  BY <1>1 DEF Init, DevInit, DevTypeOK
  <2>2. 1 \in 1..(N + 1) /\ 0 \in 0..N  OBVIOUS
  <2> QED  BY <1>1, <2>1, <2>2 DEF Init, TypeOK
<1>2. ASSUME Init PROVE \A d \in Devs : ~(delay[d] > 0)
  BY <1>2 DEF Init, DevInit
<1> QED  BY <1>1, <1>2 DEF Init, IInv, IrqCoherent

(* What a program does between passes: it asks devmgr for a tick and raises *)
(* or clears request lines, and every device it asks for is to be scanned.  *)
LEMMA InstructionIInv ==
  ASSUME IInv, Instruction
  PROVE  IInv'
PROOF
<1>1. CASE \E d \in Devs, t \in 1..MaxDelay : IoxDelay(d, t)
  <2>1. PICK d \in Devs, t \in 1..MaxDelay : IoxDelay(d, t)  BY <1>1
  <2>2. Wanted' /\ TypeOK'
    <3>1. DevTypeOK'  BY <2>1 DEF IoxDelay, QueueDelay, IInv, TypeOK, DevTypeOK, Devs
    <3> QED  BY <2>1, <3>1, StoreType DEF IoxDelay, IInv, TypeOK, listVars
  <2> QED  BY <2>1, <2>2 DEF IoxDelay, QueueDelay, IInv, IrqCoherent, AnyIrq, ToScan, listVars
<1>2. CASE \E d \in Devs : IoxWork(d)
  <2>1. PICK d \in Devs : IoxWork(d)  BY <1>2
  <2>2. Wanted' /\ TypeOK'
    <3>1. DevTypeOK'  BY <2>1, SMTT(60) DEF IoxWork, Arrives, IInv, TypeOK, DevTypeOK, Devs
    <3> QED  BY <2>1, <3>1, StoreType DEF IoxWork, IInv, TypeOK, listVars
  <2> QED  BY <2>1, <2>2 DEF IoxWork, Arrives, IInv, IrqCoherent, AnyIrq, ToScan, listVars
<1>3. CASE \E d \in Devs, b \in BOOLEAN : IoxIrq(d, b)
  <2>1. PICK d \in Devs, b \in BOOLEAN : IoxIrq(d, b)  BY <1>3
  <2>2. TypeOK'  BY <2>1 DEF IoxIrq, SetIrq, IInv, TypeOK, DevTypeOK, listVars
  <2>3. Wanted' <=> Wanted  BY <2>1 DEF IoxIrq, Wanted
  <2> QED  BY <2>1, <2>2, <2>3 DEF IoxIrq, SetIrq, IInv, IrqCoherent, ToScan, listVars
<1> QED  BY <1>1, <1>2, <1>3 DEF Instruction

(* Each step of a pass, up to rebuilding the list it went through. *)
LEMMA PassIInv ==
  ASSUME IInv, Pass
  PROVE  IInv'
PROOF
<1> USE DEF IInv
<1>1. CASE BeginPass
  <2>1. CASE listed
    BY <1>1, <2>1 DEF BeginPass, TypeOK, DevTypeOK, IrqCoherent, AnyIrq, Wanted, ToScan,
                      devVars, listVars
  <2>2. CASE ~listed
    <3>1. Wanted' /\ TypeOK'
      BY <1>1, <2>2, StoreType DEF BeginPass, TypeOK, DevTypeOK, Members, devVars, Devs
    <3> QED  BY <1>1, <2>2, <3>1 DEF BeginPass, IrqCoherent, Members, ToScan, devVars
  <2> QED  BY <2>1, <2>2 DEF TypeOK
<1>2. CASE TakeRequests
  <2>1. CASE Wanted
    <3>1. TypeOK'  BY <1>2, <2>1, StoreType DEF TakeRequests, TypeOK, DevTypeOK, devVars, listVars
    <3>2. i' = 1 /\ pc' = "scan"  BY <1>2, <2>1 DEF TakeRequests
    <3>3. \A d \in Devs : ToScan(d)'  BY <3>2 DEF ToScan, Devs
    <3> QED  BY <1>2, <2>1, <3>1, <3>2, <3>3
             DEF TakeRequests, IrqCoherent, AnyIrq, devVars, listVars
  <2>2. CASE ~Wanted
    BY <1>2, <2>2 DEF TakeRequests, TypeOK, DevTypeOK, IrqCoherent, AnyIrq, Wanted, ToScan,
                      devVars, listVars
  <2> QED  BY <2>1, <2>2
<1>3. CASE ScanDevice
  <2>1. TypeOK'
    <3>1. i + 1 \in 1..(N + 1)  BY <1>3 DEF ScanDevice, Devs
    <3>2. inTickList' \in SUBSET (Devs \ Always) /\ added' \in BOOLEAN
      BY <1>3 DEF ScanDevice, TypeOK
    <3> QED  BY <1>3, <3>1, <3>2 DEF ScanDevice, TypeOK, DevTypeOK, devVars
  <2>2. IrqCoherent' /\ pc' = "scan" /\ listed' /\ (Always \subseteq list)'
    BY <1>3 DEF ScanDevice, TypeOK, IrqCoherent, AnyIrq, devVars
  <2>3. \A d \in inTickList' : d \in list' \/ added'
    BY <1>3 DEF ScanDevice, devVars
  <2>4. \A d \in Devs \ Always : delay'[d] > 0 => d \in inTickList' \/ ToScan(d)'
    BY <1>3 DEF ScanDevice, HasWork, ToScan, devVars, Devs
  <2> QED  BY <2>1, <2>2, <2>3, <2>4
<1>4. CASE EndScan
  <2>1. TypeOK'
    <3>1. 1 \in 1..(N + 1)  OBVIOUS
    <3>2. list' \in SUBSET Devs /\ removed' \in BOOLEAN
      BY <1>4 DEF EndScan, TypeOK, Members
    <3> QED  BY <1>4, <3>1, <3>2 DEF EndScan, TypeOK, DevTypeOK, devVars
  <2>2. \A d \in Devs \ Always : delay'[d] > 0 => d \in inTickList'
    BY <1>4 DEF EndScan, ToScan, devVars, Devs
  <2> QED  BY <1>4, <2>1, <2>2 DEF EndScan, IrqCoherent, AnyIrq, Members, ToScan, devVars
<1>5. CASE EndPass
  <2>1. TypeOK'
    <3>1. 0 \in 0..N  OBVIOUS
    <3>2. list' \in SUBSET Devs  BY <1>5 DEF EndPass, TypeOK, Members
    <3>3. cache' \in BOOLEAN  BY <1>5 DEF EndPass, TypeOK, AnyIrq
    <3> QED  BY <1>5, <3>1, <3>2, <3>3 DEF EndPass, TypeOK, DevTypeOK, devVars
  <2>2. \A d \in Devs \ Always : delay'[d] > 0 => d \in inTickList'
    BY <1>5 DEF EndPass, ToScan, devVars
  <2>3. \A d \in inTickList' : d \in list'
    <3>1. \A d \in inTickList : d \in list  BY <1>5 DEF EndPass
    <3> QED  BY <1>5, <3>1 DEF EndPass, Members, TypeOK
  <2> QED  BY <1>5, <2>1, <2>2, <2>3 DEF EndPass, IrqCoherent, AnyIrq, Members, devVars
<1>6. CASE \E d \in Devs, asked \in BOOLEAN : TickDevice(d, asked)
  <2>1. PICK d \in Devs, asked \in BOOLEAN : TickDevice(d, asked)  BY <1>6
  <2>2. /\ DevTypeOK'
        /\ \A e \in Devs \ {d} : delay'[e] > 0 => delay[e] > 0 \/ asked
    BY <2>1, TicksType DEF TickDevice, TypeOK
  <2>3. /\ wanted' \in BOOLEAN /\ pending' \in {{}, {TRUE}, {FALSE}}
        /\ ~StoreBuffer => pending' = {}
        /\ asked => Wanted'
    <3>1. CASE asked  BY <2>1, <3>1, StoreType DEF TickDevice, RequestTick
    <3>2. CASE ~asked  BY <2>1, <3>2 DEF TickDevice, RequestTick, TypeOK
    <3> QED  BY <3>1, <3>2
  <2>4. TypeOK'
    <3>1. dirty' \in BOOLEAN  BY <2>1 DEF TickDevice, TypeOK
    <3>2. inTickList' \in SUBSET (Devs \ Always) /\ removed' \in BOOLEAN
      BY <2>1 DEF TickDevice, TypeOK
    <3>3. order' \in 0..N  BY <2>1 DEF TickDevice, Devs
    <3> QED  BY <2>1, <2>2, <2>3, <3>1, <3>2, <3>3 DEF TickDevice, TypeOK
  <2>5. IrqCoherent'
    BY <2>1 DEF TickDevice, IrqCoherent, AnyIrq, TypeOK
  <2>6. \A e \in Devs \ Always : delay'[e] > 0 => e \in inTickList' \/ Wanted'
    <3>1. \A e \in Devs \ Always : delay[e] > 0 => e \in inTickList
      BY <2>1 DEF TickDevice, ToScan
    <3>2. d \in Always \/ delay'[d] > 0 => d \in Always \/ d \in inTickList'
      <4>1. CASE d \in inTickList
        BY <2>1, <4>1 DEF TickDevice, HasWork
      <4>2. CASE d \notin inTickList /\ d \notin Always
        <5>1. delay[d] = 0  BY <3>1, <4>2, <2>1 DEF TypeOK, DevTypeOK
        <5>2. delay'[d] = 0
          BY <2>1, <5>1 DEF TickDevice, Ticks, DelayTicks, TypeOK, DevTypeOK
        <5> QED  BY <5>2, <4>2
      <4> QED  BY <4>1, <4>2
    <3>3. \A e \in Devs \ {d} : e \in inTickList => e \in inTickList'
      BY <2>1 DEF TickDevice
    <3> QED  BY <2>2, <2>3, <3>1, <3>2, <3>3
  <2>7. \A e \in inTickList' : e \in list' \/ added'
    BY <2>1 DEF TickDevice
  <2> QED  BY <2>1, <2>4, <2>5, <2>6, <2>7 DEF TickDevice
<1> QED  BY <1>1, <1>2, <1>3, <1>4, <1>5, <1>6 DEF Pass

(* Every step of the CPU thread, the other threads and the store buffer. *)
LEMMA NextIInv ==
  ASSUME IInv, [Next]_vars
  PROVE  IInv'
PROOF
<1>1. CASE Instruction  BY <1>1, InstructionIInv
<1>2. CASE Pass  BY <1>2, PassIInv
<1>3. CASE StoreVisible
  <2>1. Wanted' <=> Wanted  BY <1>3 DEF StoreVisible, Wanted, IInv, TypeOK
  <2>2. TypeOK'
    BY <1>3 DEF StoreVisible, IInv, TypeOK, DevTypeOK, devVars, listVars
  <2> QED
    BY <1>3, <2>1, <2>2 DEF StoreVisible, IInv, IrqCoherent, AnyIrq, ToScan, devVars, listVars
<1>4. CASE \E d \in Devs : HostInput(d)
  <2>1. PICK d \in Devs : HostInput(d)  BY <1>4
  <2>2. Wanted' <=> Wanted  BY <2>1 DEF HostInput, Wanted
  <2>3. TypeOK'
    <3>1. queue[d] + 1 \in 0..MaxInput
      BY <2>1 DEF HostInput, Arrives, IInv, TypeOK, DevTypeOK
    <3>2. DevTypeOK'  BY <2>1, <3>1 DEF HostInput, Arrives, IInv, TypeOK, DevTypeOK
    <3>3. typed' \in SUBSET Queued  BY <2>1 DEF HostInput, Arrives, IInv, TypeOK
    <3> QED  BY <2>1, <3>2, <3>3 DEF HostInput, IInv, TypeOK, listVars
  <2> QED  BY <2>1, <2>2, <2>3 DEF HostInput, Arrives, IInv, IrqCoherent, AnyIrq, ToScan, listVars
<1>5. CASE \E d \in Devs : HostRequest(d)
  <2>1. PICK d \in Devs : HostRequest(d)  BY <1>5
  <2>2. Wanted => Wanted'  BY <2>1 DEF HostRequest, Wanted
  <2>3. TypeOK'  BY <2>1 DEF HostRequest, IInv, TypeOK, DevTypeOK, devVars, listVars
  <2> QED
    BY <2>1, <2>2, <2>3 DEF HostRequest, IInv, IrqCoherent, AnyIrq, ToScan, devVars, listVars
<1>6. CASE UNCHANGED vars
  BY <1>6, ZenonT(60) DEF vars, IInv, TypeOK, DevTypeOK, IrqCoherent, AnyIrq, Wanted, ToScan, listVars
<1> QED  BY <1>1, <1>2, <1>3, <1>4, <1>5, <1>6 DEF Next

(* The inductive invariant holds of every state of devmgr_tick(). *)
THEOREM Invariance == Spec => []IInv
PROOF
<1>1. Init => IInv  BY InitIInv
<1>2. IInv /\ [Next]_vars => IInv'  BY NextIInv
<1> QED  BY <1>1, <1>2, PTL DEF Spec

(* Every variable of devmgr_tick() keeps its type. *)
THEOREM TypeCorrect == Spec => []TypeOK
PROOF
<1>1. IInv => TypeOK  BY DEF IInv
<1> QED  BY <1>1, Invariance, PTL

(* s_irq_bits is the OR of the devices whenever g_dev_irq_dirty is clear. *)
THEOREM CachedInterruptsRight == Spec => []IrqCoherent
PROOF
<1>1. IInv => IrqCoherent  BY DEF IInv
<1> QED  BY <1>1, Invariance, PTL
-----------------------------------------------------------------------------
(* One step of the list's pass is one step of the walk, or none. *)
LEMMA StepImplements ==
  ASSUME IInv, [Next]_vars
  PROVE  [Walk!WalkNext]_Walk!walkVars
PROOF
<1> USE DEF Walk!walkVars, Walk!Devs, Devs
<1>1. CASE Instruction
  <2>1. CASE \E d \in Devs, t \in 1..MaxDelay : IoxDelay(d, t)
    BY <2>1 DEF IoxDelay, QueueDelay, Walk!QueueDelay, Walk!Operate, Walk!WalkNext
  <2>2. CASE \E d \in Devs : IoxWork(d)
    BY <2>2 DEF IoxWork, Arrives, Walk!Arrives, Walk!Input, Walk!WalkNext
  <2>3. CASE \E d \in Devs, b \in BOOLEAN : IoxIrq(d, b)
    BY <2>3 DEF IoxIrq, SetIrq, Walk!SetIrq, Walk!Operate, Walk!WalkNext
  <2> QED  BY <1>1, <2>1, <2>2, <2>3 DEF Instruction
<1>2. CASE BeginPass
  BY <1>2 DEF BeginPass, devVars, Walk!StartWalk, Walk!WalkNext
<1>3. CASE TakeRequests \/ ScanDevice \/ EndScan
  BY <1>3 DEF TakeRequests, ScanDevice, EndScan, devVars
<1>4. ASSUME NEW d \in Devs, pc = "loop", d \notin list
      PROVE  d \notin Walk!Due
  BY <1>4 DEF IInv, ToScan, Walk!Due
<1>5. CASE EndPass
  <2>1. Walk!Due \cap (order + 1)..N = {}
    BY <1>4, <1>5 DEF EndPass, Rest, IInv, TypeOK
  <2>2. cache' = AnyIrq  BY <1>5 DEF EndPass, IInv, IrqCoherent, TypeOK
  <2> QED
    BY <1>5, <2>1, <2>2
    DEF EndPass, devVars, AnyIrq, Walk!AnyIrq, Walk!devVars, Walk!EndWalk, Walk!WalkNext
<1>6. CASE \E d \in Devs, asked \in BOOLEAN : TickDevice(d, asked)
  <2>1. PICK d \in Devs, asked \in BOOLEAN : TickDevice(d, asked)  BY <1>6
  <2>2. pc = "loop" /\ d > order /\ \A e \in list : e > order => d <= e
    BY <2>1 DEF TickDevice, Rest
  <2>3. Walk!Due \cap (order + 1)..(d - 1) = {}
    BY <1>4, <2>2 DEF IInv, TypeOK
  <2>4. Walk!Ticks(d, asked)
    BY <2>1 DEF TickDevice, Ticks, DelayTicks, Walk!Ticks, Walk!DelayTicks
  <2>5. pc' # "cpu" /\ order' = d /\ cache' = cache  BY <2>1 DEF TickDevice
  <2>6. Walk!Visit(d)  BY <2>2, <2>3, <2>4, <2>5 DEF Walk!Visit
  <2> QED  BY <2>6 DEF Walk!WalkNext
<1>7. CASE StoreVisible
  BY <1>7 DEF StoreVisible, devVars
<1>8. CASE \E d \in Devs : HostInput(d)
  BY <1>8 DEF HostInput, Arrives, Walk!Arrives, Walk!Input, Walk!WalkNext
<1>9. CASE \E d \in Devs : HostRequest(d)
  BY <1>9 DEF HostRequest, devVars
<1>10. CASE UNCHANGED vars
  BY <1>10 DEF vars
<1> QED
  BY <1>1, <1>2, <1>3, <1>5, <1>6, <1>7, <1>8, <1>9, <1>10 DEF Next, Pass

(* Serving only the devices in the tick list is indistinguishable from      *)
(* walking the whole device table after every instruction.                   *)
THEOREM TableWalkImplemented == Spec => ImplementsWalk
PROOF
<1>1. Init => Walk!WalkInit
  BY DEF Init, DevInit, Devs, Walk!WalkInit, Walk!DevInit, Walk!Devs
<1>2. IInv /\ [Next]_vars => [Walk!WalkNext]_Walk!walkVars  BY StepImplements
<1> QED  BY <1>1, <1>2, Invariance, PTL DEF Spec, ImplementsWalk, Walk!WalkSpec
-----------------------------------------------------------------------------
(* The request flag alone, under sequential consistency. *)
LEMMA RequestStep ==
  ASSUME ~StoreBuffer, IInv, NoRequestLost, [Next]_vars
  PROVE  NoRequestLost'
PROOF
<1> USE DEF NoRequestLost, HasWork, ToScan, Devs
<1>1. pending = {} /\ (Wanted <=> wanted)  BY DEF IInv, TypeOK, Wanted
<1>2. ASSUME pending' = {} PROVE Wanted' <=> wanted'  BY <1>2 DEF Wanted
<1>3. CASE \E d \in Devs, t \in 1..MaxDelay : IoxDelay(d, t)
  BY <1>1, <1>2, <1>3 DEF IoxDelay, Store
<1>4. CASE \E d \in Devs : IoxWork(d)
  BY <1>1, <1>2, <1>4 DEF IoxWork, Store
<1>5. CASE \E d \in Devs, b \in BOOLEAN : IoxIrq(d, b)
  BY <1>1, <1>2, <1>5 DEF IoxIrq, SetIrq, listVars
<1>6. CASE BeginPass
  BY <1>1, <1>2, <1>6 DEF BeginPass, Store, devVars, listVars
<1>7. CASE TakeRequests
  <2>1. CASE Wanted
    <3>1. pc' = "scan" /\ i' = 1  BY <1>7, <2>1 DEF TakeRequests, IInv
    <3> QED  BY <3>1
  <2>2. CASE ~Wanted
    BY <1>1, <1>2, <1>7, <2>2 DEF TakeRequests, devVars, listVars
  <2> QED  BY <2>1, <2>2
<1>8. CASE ScanDevice
  BY <1>1, <1>2, <1>8 DEF ScanDevice, devVars
<1>9. CASE EndScan
  BY <1>1, <1>2, <1>9 DEF EndScan, devVars
<1>10. CASE EndPass
  BY <1>1, <1>2, <1>10 DEF EndPass, devVars
<1>11. CASE \E d \in Devs, asked \in BOOLEAN : TickDevice(d, asked)
  <2>1. PICK d \in Devs, asked \in BOOLEAN : TickDevice(d, asked)  BY <1>11
  <2>2. CASE asked
    BY <1>2, <1>1, <2>1, <2>2 DEF TickDevice, RequestTick, Store
  <2>3. CASE ~asked
    <3>1. Wanted' <=> Wanted  BY <2>1, <2>3 DEF TickDevice, RequestTick, Wanted
    <3>2. \A e \in Devs \ {d} : delay'[e] > 0 => delay[e] > 0
      BY <2>1, <2>3, TicksType DEF TickDevice, IInv, TypeOK
    <3>3. \A e \in Devs \ {d} : queue'[e] = queue[e]
      BY <2>1 DEF TickDevice, Ticks, IInv, TypeOK, DevTypeOK
    <3>4. \A e \in Devs \ {d} : HasWork(e)' => HasWork(e)  BY <3>2, <3>3
    <3>5. \A e \in Devs \ {d} : e \in inTickList => e \in inTickList'
      BY <2>1 DEF TickDevice
    <3>6. CASE d \in inTickList
      <4>1. HasWork(d)' => d \in inTickList'  BY <2>1, <3>6 DEF TickDevice
      <4> QED  BY <2>1, <3>1, <3>4, <3>5, <4>1 DEF TickDevice
    <3>7. CASE d \notin inTickList
      <4>1. HasWork(d)' => HasWork(d)
        BY <2>1, <2>3 DEF TickDevice, Ticks, DelayTicks, IInv, TypeOK, DevTypeOK
      <4> QED  BY <2>1, <3>1, <3>4, <3>5, <3>7, <4>1 DEF TickDevice
    <3> QED  BY <3>6, <3>7
  <2> QED  BY <2>2, <2>3
<1>12. CASE StoreVisible
  BY <1>1, <1>12 DEF StoreVisible
<1>13. CASE \E d \in Devs : HostInput(d)
  BY <1>1, <1>2, <1>13 DEF HostInput, Arrives, IInv, TypeOK, DevTypeOK, listVars
<1>14. CASE \E d \in Devs : HostRequest(d)
  BY <1>1, <1>2, <1>14 DEF HostRequest
<1>15. CASE UNCHANGED vars
  BY <1>15 DEF vars, Wanted, listVars
<1> QED
  BY <1>3, <1>4, <1>5, <1>6, <1>7, <1>8, <1>9, <1>10, <1>11, <1>12, <1>13, <1>14, <1>15
  DEF Next, Instruction, Pass

(* With sequentially consistent memory no request for a tick is ever lost,   *)
(* whatever thread makes it and at whatever point of the pass.               *)
THEOREM RequestsKept == ~StoreBuffer => (Spec => []NoRequestLost)
PROOF
<1> SUFFICES ASSUME ~StoreBuffer PROVE Spec => []NoRequestLost
  OBVIOUS
<1>1. Init => NoRequestLost  BY DEF Init, DevInit, NoRequestLost, HasWork
<1>2. IInv /\ NoRequestLost /\ [Next]_vars => NoRequestLost'  BY RequestStep
<1> QED  BY <1>1, <1>2, Invariance, PTL DEF Spec
=============================================================================
