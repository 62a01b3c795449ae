----------------------------- MODULE ScsiProofs -----------------------------
(***************************************************************************)
(* The SCSI adapter, chip, bus and target for every length of command and  *)
(* data: an adapter that is ready has told the CPU, whatever the program   *)
(* does; and of a program that keeps to what ScsiRare names (it is empty), *)
(* a transfer never stands still and its bytes arrive once each and in     *)
(* order, all of them before the status.                                   *)
(***************************************************************************)
EXTENDS Scsi, SequenceTheorems, TLAPS

(* The states of the target, its handshake, the chip and its commands. *)
Targets == {"idle", "settle", "selected", "next", "in", "out", "msg", "cmd"}
Subs == {"none", "recv0", "recv1", "send0", "send1"}
InfoStates == {"start", "in req", "in drq", "in ack", "out req", "out drq", "out ack", "out pad"}
Commands == {"reset", "disconnect", "accept", "select", "select with ATN", "info", "pad"}

(* A control entry without data. *)
Entry(a) == [act |-> a, size |-> 0]

(* A cause in the chip's register has reached the adapter, by way of the   *)
(* chip's interrupt line.                                                  *)
Told(s) == (s.mint => s.intNcr) /\ (s.int # {} => s.mint)

(* The fields that decide the calls, and what they hold. *)
Shape(s) ==
  /\ {"int", "mint", "intNcr", "target", "sub", "queue", "plan", "state", "cmd", "active",
      "enabled", "irq"} \subseteq DOMAIN s
  /\ s.target \in Targets /\ s.sub \in Subs /\ s.state \in {"idle"} \cup Selecting \cup InfoStates
  /\ s.cmd \in Commands /\ s.plan \in Plans
  /\ s.mint \in BOOLEAN /\ s.intNcr \in BOOLEAN /\ s.active \in BOOLEAN /\ s.enabled \in BOOLEAN
  /\ s.irq \in BOOLEAN
Sound(s) == Shape(s) /\ Told(s)

(* The control entries that wait, for each state of the target: what a     *)
(* call of the target finds.                                               *)
Message == <<Entry("message"), Entry("free")>>
Free == <<Entry("free")>>
Waits(s) ==
  /\ s.target \in {"idle", "settle", "selected", "msg", "cmd"} => s.queue = <<>>
  /\ s.target \in {"in", "out"} => s.queue = Complete
  /\ s.target = "next" => s.queue \in {Complete, Message, Free}

(* A state that the chip, the target and the adapter may be called in. *)
Good(s) == Sound(s) /\ Waits(s)

(* An adapter that is ready has raised its interrupt, if it may. *)
AdapterTold(s) == ~s.active /\ s.enabled => s.irq

(* A call that is not the adapter's leaves its registers alone; a call of  *)
(* the chip or of the bus also leaves the target where it is.              *)
Untouched(s, t) == t.active = s.active /\ t.enabled = s.enabled /\ t.irq = s.irq
Stays(s, t) == Untouched(s, t) /\ t.target = s.target /\ t.queue = s.queue /\ t.plan = s.plan

(* The inductive invariant. *)
AdapterGood(s) == Good(s) /\ AdapterTold(s)
ScsiInv == AdapterGood(scsi)

(* NCR_UpdateInt() makes the line follow the causes and tells the adapter  *)
(* of a rising one.                                                        *)
LEMMA UpdateIntKeeps ==
  ASSUME NEW s, Shape(s), s.mint => s.intNcr
  PROVE  Sound(UpdateInt(s)) /\ Stays(s, UpdateInt(s)) /\ UpdateInt(s).int = s.int
<1>1. CASE s.mint = (s.int # {})
  BY <1>1 DEF UpdateInt, Shape, Sound, Told, Stays, Untouched
<1>2. CASE s.mint # (s.int # {})
  <2>1. PICK on : on = (s.int # {}) /\ on \in BOOLEAN
    OBVIOUS
  <2>2. UpdateInt(s) = [s EXCEPT !.mint = on, !.intNcr = @ \/ on, !.single = @ /\ ~on, !.dma = @ /\ ~on]
    BY <1>2, <2>1 DEF UpdateInt
  <2>3. Shape(UpdateInt(s)) /\ Stays(s, UpdateInt(s)) /\ UpdateInt(s).int = s.int
    BY <2>1, <2>2 DEF Shape, Stays, Untouched
  <2>4. UpdateInt(s).mint = on /\ UpdateInt(s).intNcr = (s.intNcr \/ on)
    BY <2>1, <2>2 DEF Shape
  <2>5. Told(UpdateInt(s))
    BY <2>1, <2>3, <2>4 DEF Told
  <2> QED
    BY <2>3, <2>5 DEF Sound
<1> QED
  BY <1>1, <1>2

(* A cause is told at once. *)
LEMMA InterruptKeeps ==
  ASSUME NEW s, Sound(s), NEW cause
  PROVE  Sound(Interrupt(s, cause)) /\ Stays(s, Interrupt(s, cause))
<1>1. PICK t : t = [s EXCEPT !.int = @ \cup {cause}]
  OBVIOUS
<1>2. Shape(t) /\ (t.mint => t.intNcr) /\ Stays(s, t)
  BY <1>1 DEF Sound, Shape, Told, Stays, Untouched
<1>3. Sound(UpdateInt(t)) /\ Stays(t, UpdateInt(t))
  BY <1>2, UpdateIntKeeps
<1> QED
  BY <1>1, <1>2, <1>3 DEF Interrupt, Stays, Untouched

(* NCR_CtrlChanged() does no more than wake the chip up or tell it of a    *)
(* free bus.                                                               *)
LEMMA NcrCtrlChangedKeeps ==
  ASSUME NEW s, Sound(s)
  PROVE  Sound(NcrCtrlChanged(s)) /\ Stays(s, NcrCtrlChanged(s))
<1>1. PICK t : t = [s EXCEPT !.timer = 0]
  OBVIOUS
<1>2. Sound(t) /\ Stays(s, t)
  BY <1>1 DEF Sound, Shape, Told, Stays, Untouched
<1>3. PICK u : u = [s EXCEPT !.chip = "disconnected"]
  OBVIOUS
<1>4. Sound(u) /\ Stays(s, u)
  BY <1>3 DEF Sound, Shape, Told, Stays, Untouched
<1>5. Sound(Interrupt(u, "disconnected")) /\ Stays(u, Interrupt(u, "disconnected"))
  BY <1>4, InterruptKeeps
<1>6. NcrCtrlChanged(s) \in {s, t, Interrupt(u, "disconnected")}
  BY <1>1, <1>3 DEF NcrCtrlChanged
<1>7. Stays(s, s)
  BY DEF Stays, Untouched
<1>8. Stays(s, Interrupt(u, "disconnected"))
  BY <1>4, <1>5 DEF Stays, Untouched
<1> QED
  BY <1>2, <1>5, <1>6, <1>7, <1>8

(* The target writes the lines. *)
LEMMA TargetWriteKeeps ==
  ASSUME NEW s, Sound(s), NEW on, NEW off
  PROVE  Sound(TargetWrite(s, on, off)) /\ Stays(s, TargetWrite(s, on, off))
<1>1. PICK w : w = [s EXCEPT !.tLines = (@ \ off) \cup on]
  OBVIOUS
<1>2. Sound(w) /\ Stays(s, w)
  BY <1>1 DEF Sound, Shape, Told, Stays, Untouched
<1>3. Sound(NcrCtrlChanged(w)) /\ Stays(w, NcrCtrlChanged(w))
  BY <1>2, NcrCtrlChangedKeeps
<1>4. TargetWrite(s, on, off) \in {w, NcrCtrlChanged(w)}
  BY <1>1 DEF TargetWrite
<1> QED
  BY <1>2, <1>3, <1>4 DEF Stays, Untouched

(* It sets the phase. *)
LEMMA SetPhaseKeeps ==
  ASSUME NEW s, Sound(s), NEW phase
  PROVE  Sound(SetPhase(s, phase)) /\ Stays(s, SetPhase(s, phase))
  BY TargetWriteKeeps DEF SetPhase

(* scsi_device_device_reset() leaves the target idle with nothing queued. *)
LEMMA TargetResetKeeps ==
  ASSUME NEW s, Sound(s)
  PROVE  Good(TargetReset(s)) /\ Untouched(s, TargetReset(s))
<1>1. PICK t : t = [s EXCEPT !.target = "idle", !.sub = "none", !.queue = <<>>, !.pos = 0,
                            !.size = 0, !.tTimer = FALSE, !.tData = 0]
  OBVIOUS
<1>2. Sound(t) /\ Untouched(s, t) /\ t.target = "idle" /\ t.queue = <<>>
  BY <1>1 DEF Sound, Shape, Told, Untouched, Targets, Subs
<1>3. PICK u : u = TargetWrite(t, {}, {"BSY", "REQ"} \cup PhaseLines)
  OBVIOUS
<1>4. Sound(u) /\ Stays(t, u)
  BY <1>2, <1>3, TargetWriteKeeps
<1>5. TargetReset(s) = [u EXCEPT !.tWait = {"SEL", "BSY", "RST"}]
  BY <1>1, <1>3 DEF TargetReset
<1>6. Sound(TargetReset(s)) /\ Stays(u, TargetReset(s))
  BY <1>4, <1>5 DEF Sound, Shape, Told, Stays, Untouched
<1> QED
  BY <1>2, <1>4, <1>6 DEF Good, Waits, Stays, Untouched

(* The target sees ACK while its REQ is on. *)
LEMMA AcknowledgedKeeps ==
  ASSUME NEW s, Sound(s)
  PROVE  Sound(Acknowledged(s)) /\ Stays(s, Acknowledged(s))
<1>1. PICK t, u, v : /\ t = Stored(s) /\ u = [t EXCEPT !.sub = "recv0"]
                     /\ v = [s EXCEPT !.sub = "send0", !.tData = 0]
  OBVIOUS
<1>2. Sound(t) /\ Stays(s, t)
  BY <1>1 DEF Stored, Sound, Shape, Told, Stays, Untouched
<1>3. Sound(u) /\ Stays(s, u)
  BY <1>1, <1>2 DEF Sound, Shape, Told, Stays, Untouched, Subs
<1>4. Sound(v) /\ Stays(s, v)
  BY <1>1 DEF Sound, Shape, Told, Stays, Untouched, Subs
<1>5. /\ Sound(TargetWrite(u, {}, {"REQ"})) /\ Stays(u, TargetWrite(u, {}, {"REQ"}))
      /\ Sound(TargetWrite(v, {}, {"REQ"})) /\ Stays(v, TargetWrite(v, {}, {"REQ"}))
  BY <1>3, <1>4, TargetWriteKeeps
<1>6. Acknowledged(s) \in {s, TargetWrite(u, {}, {"REQ"}), TargetWrite(v, {}, {"REQ"})}
  BY <1>1 DEF Acknowledged
<1>7. Stays(s, s)
  BY DEF Stays, Untouched
<1>8. Stays(s, TargetWrite(u, {}, {"REQ"})) /\ Stays(s, TargetWrite(v, {}, {"REQ"}))
  BY <1>3, <1>4, <1>5 DEF Stays, Untouched
<1> QED
  BY <1>5, <1>6, <1>7, <1>8

(* It asks for a byte. *)
LEMMA RecvByteKeeps ==
  ASSUME NEW s, Sound(s)
  PROVE  Sound(RecvByte(s)) /\ Stays(s, RecvByte(s))
<1>1. PICK t, u : /\ t = [s EXCEPT !.tWait = @ \cup {"ACK"}, !.sub = "recv1"]
                  /\ u = TargetWrite(t, {"REQ"}, {})
  OBVIOUS
<1>2. Sound(t) /\ Stays(s, t)
  BY <1>1 DEF Sound, Shape, Told, Stays, Untouched, Subs
<1>3. Sound(u) /\ Stays(t, u)
  BY <1>1, <1>2, TargetWriteKeeps
<1>4. Sound(Acknowledged(u)) /\ Stays(u, Acknowledged(u))
  BY <1>3, AcknowledgedKeeps
<1>5. RecvByte(s) = Acknowledged(u)
  BY <1>1 DEF RecvByte
<1> QED
  BY <1>2, <1>3, <1>4, <1>5 DEF Stays, Untouched

(* It offers a byte. *)
LEMMA SendByteKeeps ==
  ASSUME NEW s, Sound(s), NEW value
  PROVE  Sound(SendByte(s, value)) /\ Stays(s, SendByte(s, value))
<1>1. PICK t, u : /\ t = [s EXCEPT !.tWait = @ \cup {"ACK"}, !.sub = "send1", !.tData = value]
                  /\ u = TargetWrite(t, {"REQ"}, {})
  OBVIOUS
<1>2. Sound(t) /\ Stays(s, t)
  BY <1>1 DEF Sound, Shape, Told, Stays, Untouched, Subs
<1>3. Sound(u) /\ Stays(t, u)
  BY <1>1, <1>2, TargetWriteKeeps
<1>4. Sound(Acknowledged(u)) /\ Stays(u, Acknowledged(u))
  BY <1>3, AcknowledgedKeeps
<1>5. SendByte(s, value) = Acknowledged(u)
  BY <1>1 DEF SendByte
<1> QED
  BY <1>2, <1>3, <1>4, <1>5 DEF Stays, Untouched

(* A byte of the data phase, after the last of which the status is next. *)
LEMMA DataByteKeeps ==
  ASSUME NEW s, Sound(s), s.target \in {"in", "out"}, s.queue = Complete
  PROVE  Good(DataByte(s)) /\ Untouched(s, DataByte(s))
<1>1. PICK t, u : /\ t = [s EXCEPT !.target = IF s.pos = s.size - 1 THEN "next" ELSE @]
                  /\ u = [t EXCEPT !.pos = @ + 1]
  OBVIOUS
<1>2. /\ Sound(t) /\ Untouched(s, t) /\ t.target \in {"next", "in", "out"} /\ t.queue = Complete
      /\ Sound(u) /\ Stays(t, u)
  BY <1>1 DEF Sound, Shape, Told, Stays, Untouched, Targets
<1>3. /\ Sound(RecvByte(t)) /\ Stays(t, RecvByte(t))
      /\ Sound(SendByte(u, s.pos + 1)) /\ Stays(u, SendByte(u, s.pos + 1))
  BY <1>2, RecvByteKeeps, SendByteKeeps
<1>4. DataByte(s) \in {RecvByte(t), SendByte(u, s.pos + 1)}
  BY <1>1 DEF DataByte
<1>5. /\ Good(RecvByte(t)) /\ Untouched(s, RecvByte(t))
      /\ Good(SendByte(u, s.pos + 1)) /\ Untouched(s, SendByte(u, s.pos + 1))
  BY <1>2, <1>3 DEF Good, Waits, Stays, Untouched
<1> QED
  BY <1>4, <1>5

(* The control entries, one after the other. *)
LEMMA EntriesFollow ==
  /\ Head(<<Entry("command")>>).act = "command" /\ Tail(<<Entry("command")>>) = <<>>
  /\ Head(Complete).act = "status" /\ Tail(Complete) = Message
  /\ Head(Message).act = "message" /\ Tail(Message) = Free
  /\ Head(Free).act = "free" /\ Tail(Free) = <<>>
  BY DEF Entry, Complete, Message, Free

(* Head and tail of four entries. *)
LEMMA FourFollow ==
  ASSUME NEW e, NEW a, NEW b, NEW c
  PROVE  /\ Head(<<>> \o <<e>> \o <<a, b, c>>) = e
         /\ Tail(<<>> \o <<e>> \o <<a, b, c>>) = <<a, b, c>>
<1>1. <<>> \o <<e>> = <<e>>
  OBVIOUS
<1>2. PICK S : S = {e, a, b, c}
  OBVIOUS
<1>3. PICK r, q : r = <<a, b, c>> /\ q = <<e>> \o r
  OBVIOUS
<1>4. r \in Seq(S) /\ <<e>> \in Seq(S) /\ Len(r) = 3 /\ Len(<<e>>) = 1
  BY <1>2, <1>3
<1>5. q \in Seq(S) /\ Len(q) = 4
  BY <1>3, <1>4
<1>6. q[1] = e /\ (\A i \in 1 .. 3 : q[i + 1] = r[i])
  BY <1>3, <1>4
<1>7. Head(q) = q[1]
  BY <1>5
<1>8. PICK t : t = Tail(q)
  OBVIOUS
<1>9. t \in Seq(S) /\ Len(t) = 3 /\ (\A i \in 1 .. 3 : t[i] = q[i + 1])
  <2>1. q # <<>>
    BY <1>5, SMTT(40)
  <2>2. /\ Tail(q) \in Seq(S) /\ Len(Tail(q)) = Len(q) - 1
        /\ \A i \in 1 .. Len(Tail(q)) : Tail(q)[i] = q[i + 1]
    BY <1>5, <2>1, HeadTailProperties, Zenon
  <2>3. t \in Seq(S) /\ Len(t) = Len(q) - 1 /\ (\A i \in 1 .. Len(t) : t[i] = q[i + 1])
    BY <1>8, <2>2, Zenon
  <2>4. Len(t) = 3
    BY <1>5, <2>3
  <2> QED
    BY <2>3, <2>4
<1>10. t = r
  BY <1>4, <1>6, <1>9, SeqEqual
<1> QED
  BY <1>1, <1>3, <1>6, <1>7, <1>8, <1>10

(* A command's own entry comes before status, message and bus free. *)
LEMMA PlansFollow ==
  ASSUME NEW plan \in Plans, NEW queue, queue = <<>> \o plan \o Complete
  PROVE  queue = Complete \/ (Head(queue).act \in {"in", "out"} /\ Tail(queue) = Complete)
<1>1. CASE plan = <<>>
  BY <1>1 DEF Complete
<1>2. ASSUME NEW a \in {"in", "out"}, NEW k, plan = <<[act |-> a, size |-> k]>>
      PROVE  queue = Complete \/ (Head(queue).act \in {"in", "out"} /\ Tail(queue) = Complete)
  <2>1. PICK e : e = [act |-> a, size |-> k]
    OBVIOUS
  <2>2. Head(queue) = e /\ Tail(queue) = Complete
    BY <1>2, <2>1, FourFollow DEF Complete
  <2> QED
    BY <2>1, <2>2
<1> QED
  BY <1>1, <1>2 DEF Plans

(* A control entry without data: the target goes to the state in which     *)
(* what is left of the queue may wait.                                     *)
LEMMA ControlEntryKeeps ==
  ASSUME NEW s, Sound(s), s.queue \in {<<Entry("command")>>, Complete, Message, Free},
         s.target = "next"
  PROVE  Good(ControlEntry(s)) /\ Untouched(s, ControlEntry(s))
<1>1. PICK q : q = [s EXCEPT !.queue = Tail(@)]
  OBVIOUS
<1>2. Sound(q) /\ Untouched(s, q) /\ q.target = "next" /\ q.queue = Tail(s.queue)
  BY <1>1 DEF Sound, Shape, Told, Untouched
<1>3. CASE s.queue = <<Entry("command")>>
  <2>1. PICK m, c : /\ m = [q EXCEPT !.pos = 0, !.target = "msg"]
                    /\ c = [q EXCEPT !.pos = 0, !.target = "cmd"]
    OBVIOUS
  <2>2. /\ Sound(m) /\ Untouched(s, m) /\ m.target = "msg" /\ m.queue = <<>>
        /\ Sound(c) /\ Untouched(s, c) /\ c.target = "cmd" /\ c.queue = <<>>
    BY <1>2, <1>3, <2>1, EntriesFollow DEF Sound, Shape, Told, Untouched, Targets
  <2>3. PICK mm, cc : mm = SetPhase(m, MessageOut) /\ cc = SetPhase(c, Command)
    OBVIOUS
  <2>4. Sound(mm) /\ Stays(m, mm) /\ Sound(cc) /\ Stays(c, cc)
    BY <2>2, <2>3, SetPhaseKeeps
  <2>5. /\ Sound(RecvByte(mm)) /\ Stays(mm, RecvByte(mm))
        /\ Sound(RecvByte(cc)) /\ Stays(cc, RecvByte(cc))
    BY <2>4, RecvByteKeeps
  <2>6. ControlEntry(s) \in {RecvByte(mm), RecvByte(cc)}
    BY <1>1, <1>3, <2>1, <2>3, EntriesFollow DEF ControlEntry
  <2>7. /\ Good(RecvByte(mm)) /\ Untouched(s, RecvByte(mm))
        /\ Good(RecvByte(cc)) /\ Untouched(s, RecvByte(cc))
    BY <2>2, <2>4, <2>5 DEF Good, Waits, Stays, Untouched
  <2> QED
    BY <2>6, <2>7
<1>4. CASE s.queue \in {Complete, Message}
  <2>1. PICK p, r : p = SetPhase(q, Status) /\ r = SetPhase(q, MessageIn)
    OBVIOUS
  <2>2. Sound(p) /\ Stays(q, p) /\ Sound(r) /\ Stays(q, r)
    BY <1>2, <2>1, SetPhaseKeeps
  <2>3. /\ Sound(SendByte(p, 0)) /\ Stays(p, SendByte(p, 0))
        /\ Sound(SendByte(r, 0)) /\ Stays(r, SendByte(r, 0))
    BY <2>2, SendByteKeeps
  <2>4. ControlEntry(s) \in {SendByte(p, 0), SendByte(r, 0)}
    BY <1>1, <1>4, <2>1, EntriesFollow DEF ControlEntry
  <2>5. q.queue \in {Message, Free}
    BY <1>2, <1>4, EntriesFollow
  <2>6. /\ Good(SendByte(p, 0)) /\ Untouched(s, SendByte(p, 0))
        /\ Good(SendByte(r, 0)) /\ Untouched(s, SendByte(r, 0))
    BY <1>2, <2>2, <2>3, <2>5 DEF Good, Waits, Stays, Untouched
  <2> QED
    BY <2>4, <2>6
<1>5. CASE s.queue = Free
  <2>1. PICK f : f = [q EXCEPT !.tData = 0, !.tWait = {"BSY", "SEL", "RST"}]
    OBVIOUS
  <2>2. Sound(f) /\ Untouched(s, f) /\ f.queue = <<>>
    BY <1>2, <1>5, <2>1, EntriesFollow DEF Sound, Shape, Told, Untouched
  <2>3. PICK w : w = TargetWrite(f, {}, {"BSY", "REQ"} \cup PhaseLines)
    OBVIOUS
  <2>4. Sound(w) /\ Stays(f, w)
    BY <2>2, <2>3, TargetWriteKeeps
  <2>5. ControlEntry(s) = [w EXCEPT !.target = "idle"]
    BY <1>1, <1>5, <2>1, <2>3, EntriesFollow DEF ControlEntry
  <2> QED
    BY <2>2, <2>4, <2>5 DEF Good, Waits, Sound, Shape, Told, Stays, Untouched, Targets
<1> QED
  BY <1>3, <1>4, <1>5

(* What TS_TARGET_NEXT_CONTROL may find in the queue. *)
Awaited(queue) ==
  \/ queue \in {<<Entry("command")>>, Complete, Message, Free}
  \/ Head(queue).act \in {"in", "out"} /\ Tail(queue) = Complete

(* TS_TARGET_NEXT_CONTROL, also with data. *)
LEMMA NextControlKeeps ==
  ASSUME NEW s, Sound(s), Awaited(s.queue), s.target = "next"
  PROVE  Good(NextControl(s)) /\ Untouched(s, NextControl(s))
<1>1. CASE Head(s.queue).act \notin {"in", "out"}
  <2>1. NextControl(s) = ControlEntry(s)
    BY <1>1 DEF NextControl
  <2> QED
    BY <1>1, <2>1, ControlEntryKeeps DEF Awaited
<1>2. CASE Head(s.queue).act \in {"in", "out"}
  <2>1. PICK c : c = Head(s.queue)
    OBVIOUS
  <2>2. Tail(s.queue) = Complete
    BY <1>2, EntriesFollow DEF Awaited
  <2>3. PICK r : r = [s EXCEPT !.queue = Tail(@)]
    OBVIOUS
  <2>4. Sound(r) /\ Untouched(s, r) /\ r.target = "next" /\ r.queue = Complete
    BY <2>2, <2>3 DEF Sound, Shape, Told, Untouched
  <2>5. PICK p : p = SetPhase(r, IF c.act = "in" THEN DataIn ELSE DataOut)
    OBVIOUS
  <2>6. Sound(p) /\ Stays(r, p)
    BY <2>4, <2>5, SetPhaseKeeps
  <2>7. PICK q, d, e : /\ q = [p EXCEPT !.size = c.size, !.pos = 0]
                       /\ d = [q EXCEPT !.target = c.act] /\ e = [q EXCEPT !.target = "next"]
    OBVIOUS
  <2>8. Sound(q) /\ Stays(p, q)
    BY <2>6, <2>7 DEF Sound, Shape, Told, Stays, Untouched
  <2>9. Untouched(s, q) /\ q.queue = Complete
    BY <2>4, <2>6, <2>8 DEF Stays, Untouched
  <2>10. /\ Sound(d) /\ Untouched(s, d) /\ d.target \in {"in", "out"} /\ d.queue = Complete
         /\ Sound(e) /\ Untouched(s, e) /\ e.target = "next" /\ e.queue = Complete
    BY <1>2, <2>1, <2>7, <2>8, <2>9 DEF Sound, Shape, Told, Untouched, Targets
  <2>11. Good(DataByte(d)) /\ Untouched(d, DataByte(d))
    BY <2>10, DataByteKeeps
  <2>12. Good(ControlEntry(e)) /\ Untouched(e, ControlEntry(e))
    BY <2>10, ControlEntryKeeps
  <2>13. NextControl(s) \in {DataByte(d), ControlEntry(e)}
    BY <1>2, <2>1, <2>3, <2>5, <2>7 DEF NextControl
  <2>14. Untouched(s, DataByte(d)) /\ Untouched(s, ControlEntry(e))
    BY <2>10, <2>11, <2>12 DEF Untouched
  <2> QED
    BY <2>11, <2>12, <2>13, <2>14
<1> QED
  BY <1>1, <1>2

(* Message and command bytes; a command that is complete queues its plan. *)
LEMMA CommandByteKeeps ==
  ASSUME NEW s, Good(s), s.target \in {"msg", "cmd"}
  PROVE  Good(CommandByte(s)) /\ Untouched(s, CommandByte(s))
<1>1. Sound(s) /\ s.queue = <<>>
  BY DEF Good, Waits
<1>2. PICK c, i, n : /\ c = [s EXCEPT !.pos = 0, !.target = "cmd"]
                     /\ i = [s EXCEPT !.target = "idle"]
                     /\ n = [s EXCEPT !.tWait = @ \ {"ACK"}, !.target = "next",
                                       !.queue = @ \o s.plan \o Complete]
  OBVIOUS
<1>3. Sound(c) /\ Untouched(s, c) /\ c.target = "cmd" /\ c.queue = <<>>
  BY <1>1, <1>2 DEF Sound, Shape, Told, Untouched, Targets
<1>4. Good(i) /\ Untouched(s, i)
  BY <1>1, <1>2 DEF Good, Waits, Sound, Shape, Told, Untouched, Targets
<1>5. Sound(n) /\ Untouched(s, n) /\ n.target = "next" /\ n.queue = <<>> \o s.plan \o Complete
  BY <1>1, <1>2 DEF Sound, Shape, Told, Untouched, Targets
<1>6. Awaited(n.queue)
  BY <1>1, <1>5, PlansFollow DEF Awaited, Sound, Shape
<1>7. Good(NextControl(n)) /\ Untouched(n, NextControl(n))
  BY <1>5, <1>6, NextControlKeeps
<1>8. PICK p : p = SetPhase(c, Command)
  OBVIOUS
<1>9. Sound(p) /\ Stays(c, p)
  BY <1>3, <1>8, SetPhaseKeeps
<1>10. /\ Sound(RecvByte(s)) /\ Stays(s, RecvByte(s))
       /\ Sound(RecvByte(p)) /\ Stays(p, RecvByte(p))
  BY <1>1, <1>9, RecvByteKeeps
<1>11. /\ Good(RecvByte(s)) /\ Untouched(s, RecvByte(s))
       /\ Good(RecvByte(p)) /\ Untouched(s, RecvByte(p))
  BY <1>1, <1>3, <1>9, <1>10 DEF Good, Waits, Stays, Untouched
<1>12. CommandByte(s) \in {s, i, NextControl(n), RecvByte(s), RecvByte(p)}
  BY <1>2, <1>8 DEF CommandByte
<1>13. Untouched(s, NextControl(n)) /\ Untouched(s, s)
  BY <1>5, <1>7 DEF Untouched
<1> QED
  BY <1>4, <1>7, <1>11, <1>12, <1>13

(* The target is selected, or not. *)
LEMMA SelectionKeeps ==
  ASSUME NEW s, Good(s), s.target \in {"idle", "settle", "selected"}
  PROVE  Good(Selection(s)) /\ Untouched(s, Selection(s))
<1>1. Sound(s) /\ s.queue = <<>>
  BY DEF Good, Waits
<1>2. PICK b, d, i, n : /\ b = [s EXCEPT !.target = "settle", !.tTimer = TRUE]
                        /\ d = [s EXCEPT !.target = "selected"] /\ i = [s EXCEPT !.target = "idle"]
                        /\ n = [s EXCEPT !.target = "next",
                                         !.queue = Append(@, [act |-> "command", size |-> 0])]
  OBVIOUS
<1>3. /\ Good(b) /\ Untouched(s, b) /\ Good(i) /\ Untouched(s, i)
      /\ Good(d) /\ Untouched(s, d) /\ d.target = "selected" /\ d.queue = <<>>
  BY <1>1, <1>2 DEF Good, Waits, Sound, Shape, Told, Untouched, Targets
<1>4. /\ Sound(n) /\ Untouched(s, n) /\ n.target = "next"
      /\ n.queue = Append(<<>>, [act |-> "command", size |-> 0])
  BY <1>1, <1>2 DEF Sound, Shape, Told, Untouched, Targets
<1>5. n.queue = <<Entry("command")>>
  BY <1>4 DEF Entry
<1>6. Good(NextControl(n)) /\ Untouched(n, NextControl(n))
  BY <1>4, <1>5, NextControlKeeps DEF Awaited
<1>7. PICK w : w = TargetWrite(d, {"BSY"}, {})
  OBVIOUS
<1>8. Sound(w) /\ Stays(d, w)
  BY <1>3, <1>7, TargetWriteKeeps DEF Good
<1>9. Good(w) /\ Untouched(s, w)
  BY <1>3, <1>8 DEF Good, Waits, Stays, Untouched
<1>10. Selection(s) \in {s, b, i, w, NextControl(n)}
  BY <1>2, <1>7 DEF Selection
<1>11. Untouched(s, NextControl(n)) /\ Untouched(s, s)
  BY <1>4, <1>6 DEF Untouched
<1> QED
  BY <1>3, <1>6, <1>9, <1>10, <1>11

(* Any state of the target. *)
LEMMA ProceedsKeeps ==
  ASSUME NEW s, Good(s)
  PROVE  Good(Proceeds(s)) /\ Untouched(s, Proceeds(s))
<1>1. Sound(s) /\ s.target \in Targets
  BY DEF Good, Sound, Shape
<1>2. CASE s.target \in {"idle", "settle", "selected"}
  BY <1>2, SelectionKeeps DEF Proceeds
<1>3. CASE s.target = "next"
  <2>1. Proceeds(s) = NextControl(s)
    BY <1>3 DEF Proceeds
  <2> QED
    BY <1>1, <1>3, <2>1, NextControlKeeps DEF Good, Waits, Awaited
<1>4. CASE s.target \in {"in", "out"}
  <2>1. Proceeds(s) = DataByte(s)
    BY <1>4 DEF Proceeds
  <2> QED
    BY <1>1, <1>4, <2>1, DataByteKeeps DEF Good, Waits
<1>5. CASE s.target \in {"msg", "cmd"}
  <2>1. Proceeds(s) = CommandByte(s)
    BY <1>5 DEF Proceeds
  <2> QED
    BY <1>5, <2>1, CommandByteKeeps
<1> QED
  BY <1>1, <1>2, <1>3, <1>4, <1>5 DEF Targets

(* scsi_target_step() leaves a good state good, whichever line woke it. *)
LEMMA TargetStepKeeps ==
  ASSUME NEW s, Good(s)
  PROVE  Good(TargetStep(s)) /\ Untouched(s, TargetStep(s))
<1>1. Sound(s)
  BY DEF Good
<1>2. Good(TargetReset(s)) /\ Untouched(s, TargetReset(s))
  BY <1>1, TargetResetKeeps
<1>3. Sound(Acknowledged(s)) /\ Stays(s, Acknowledged(s))
  BY <1>1, AcknowledgedKeeps
<1>4. Good(Acknowledged(s)) /\ Untouched(s, Acknowledged(s))
  BY <1>3 DEF Good, Waits, Stays
<1>5. PICK t : t = [s EXCEPT !.sub = "none", !.tWait = @ \ {"ACK"}]
  OBVIOUS
<1>6. Good(t) /\ Untouched(s, t)
  BY <1>5 DEF Good, Waits, Sound, Shape, Told, Untouched, Subs
<1>7. PICK u : u = IF s.sub = "none" THEN s ELSE t
  OBVIOUS
<1>8. Good(Proceeds(u)) /\ Untouched(s, Proceeds(u))
  <2>1. Good(u) /\ Untouched(s, u)
    BY <1>7, <1>6 DEF Untouched
  <2>2. Good(Proceeds(u)) /\ Untouched(u, Proceeds(u))
    BY <2>1, ProceedsKeeps
  <2> QED
    BY <2>1, <2>2 DEF Untouched
<1>9. TargetStep(s) \in {TargetReset(s), Acknowledged(s), s, Proceeds(u)}
  BY <1>7, <1>5 DEF TargetStep
<1>10. Untouched(s, s)
  BY DEF Untouched
<1> QED
  BY <1>2, <1>4, <1>8, <1>9, <1>10

(* The same, for calls in which the adapter is not concerned. *)
Passes(s, t) == Good(t) /\ Untouched(s, t)

(* One call after another. *)
LEMMA PassesOn ==
  ASSUME NEW s, NEW t, NEW u, Passes(s, t), Passes(t, u)
  PROVE  Passes(s, u)
  BY DEF Passes, Untouched

(* The chip sets a cause. *)
LEMMA InterruptPasses ==
  ASSUME NEW s, Good(s), NEW cause
  PROVE  Passes(s, Interrupt(s, cause))
<1>1. Sound(Interrupt(s, cause)) /\ Stays(s, Interrupt(s, cause))
  BY InterruptKeeps DEF Good
<1> QED
  BY <1>1 DEF Passes, Good, Waits, Stays

(* The chip writes the lines, and the target is stepped when it waits for  *)
(* one of them.                                                            *)
LEMMA NcrWritePasses ==
  ASSUME NEW s, Good(s), NEW on, NEW off
  PROVE  Passes(s, NcrWrite(s, on, off))
<1>1. PICK w : w = [s EXCEPT !.nLines = (@ \ off) \cup on]
  OBVIOUS
<1>2. Passes(s, w)
  BY <1>1 DEF Passes, Good, Waits, Sound, Shape, Told, Untouched
<1>3. Passes(w, TargetStep(w))
  BY <1>2, TargetStepKeeps DEF Passes
<1>4. NcrWrite(s, on, off) \in {w, TargetStep(w)}
  BY <1>1 DEF NcrWrite
<1> QED
  BY <1>2, <1>3, <1>4, PassesOn

(* The data request. *)
LEMMA SetDreqPasses ==
  ASSUME NEW s, Good(s), NEW on
  PROVE  Passes(s, SetDreq(s, on))
  BY DEF SetDreq, Passes, Good, Waits, Sound, Shape, Told, Untouched

(* The chip's clock. *)
LEMMA WakePasses ==
  ASSUME NEW s, Good(s)
  PROVE  Passes(s, Wake(s))
  BY DEF Wake, Passes, Good, Waits, Sound, Shape, Told, Untouched

(* NCR_CommandChipReset() forgets all causes, but not the line. *)
LEMMA ChipResetPasses ==
  ASSUME NEW s, Good(s)
  PROVE  Passes(s, ChipReset(s))
  BY ZenonT(60) DEF ChipReset, Commands, Passes, Good, Waits, Sound, Shape, Told, Untouched

(* NCR_ExecuteLoadedCommand(). *)
LEMMA ExecutePasses ==
  ASSUME NEW s, Good(s)
  PROVE  Passes(s, Execute(s))
<1>1. s.cmd \in Commands
  BY DEF Good, Sound, Shape
<1>2. Passes(s, Interrupt(s, "invalid"))
  BY InterruptPasses
<1>3. CASE s.cmd = "reset"
  BY <1>3, ChipResetPasses DEF Execute
<1>4. CASE s.cmd = "disconnect"
  <2>1. PICK t : t = [s EXCEPT !.chip = "disconnected"]
    OBVIOUS
  <2>2. Passes(s, t)
    BY <2>1 DEF Passes, Good, Waits, Sound, Shape, Told, Untouched
  <2>3. Execute(s) \in {t, Interrupt(s, "invalid")}
    BY <1>4, <2>1 DEF Execute
  <2> QED
    BY <1>2, <2>2, <2>3
<1>5. CASE s.cmd = "accept"
  <2>1. Passes(s, NcrWrite(s, {}, {"ACK"}))
    BY NcrWritePasses
  <2>2. Execute(s) \in {NcrWrite(s, {}, {"ACK"}), Interrupt(s, "invalid")}
    BY <1>5 DEF Execute
  <2> QED
    BY <1>2, <2>1, <2>2
<1>6. CASE s.cmd \in {"select", "select with ATN"}
  <2>1. PICK t : t = [s EXCEPT !.state = "arbitrate", !.timer = 0]
    OBVIOUS
  <2>2. Passes(s, t)
    BY <2>1 DEF Selecting, Passes, Good, Waits, Sound, Shape, Told, Untouched
  <2>3. Execute(s) \in {t, Interrupt(s, "invalid")}
    BY <1>6, <2>1 DEF Execute
  <2> QED
    BY <1>2, <2>2, <2>3
<1>7. CASE s.cmd \in {"info", "pad"}
  <2>1. PICK t : t = [s EXCEPT !.sbx = s.single, !.state = "start", !.timer = 0]
    OBVIOUS
  <2>2. Passes(s, t)
    BY <2>1 DEF InfoStates, Passes, Good, Waits, Sound, Shape, Told, Untouched
  <2>3. Execute(s) \in {t, Interrupt(s, "invalid")}
    BY <1>7, <2>1 DEF Execute
  <2> QED
    BY <1>2, <2>2, <2>3
<1> QED
  BY <1>1, <1>3, <1>4, <1>5, <1>6, <1>7 DEF Commands

(* No call at all. *)
LEMMA ItselfPasses ==
  ASSUME NEW s, Good(s)
  PROVE  Passes(s, s)
  BY DEF Passes, Untouched

(* The transfer counter. *)
LEMMA OneLessPasses ==
  ASSUME NEW s, Good(s)
  PROVE  Passes(s, OneLess(s))
  BY DEF OneLess, Passes, Good, Waits, Sound, Shape, Told, Untouched

(* Arbitration and selection. *)
LEMMA NcrSelectPasses ==
  ASSUME NEW s, Good(s), s.state \in Selecting
  PROVE  Passes(s, NcrSelect(s))
<1>1. CASE s.state = "arbitrate"
  <2>1. PICK t : t = [s EXCEPT !.state = "started"]
    OBVIOUS
  <2>2. Passes(s, t)
    BY <2>1 DEF Selecting, InfoStates, Passes, Good, Waits, Sound, Shape, Told, Untouched
  <2>3. NcrSelect(s) \in {t, s}
    BY <1>1, <2>1 DEF NcrSelect
  <2> QED
    BY <2>2, <2>3, ItselfPasses
<1>2. CASE s.state = "started"
  <2>1. PICK t : t = [s EXCEPT !.state = "evaluate", !.nData = OwnId]
    OBVIOUS
  <2>2. Passes(s, t)
    BY <2>1 DEF Selecting, InfoStates, Passes, Good, Waits, Sound, Shape, Told, Untouched
  <2>3. Passes(t, NcrWrite(t, {"BSY"}, {}))
    BY <2>2, NcrWritePasses DEF Passes
  <2>4. NcrSelect(s) = NcrWrite(t, {"BSY"}, {})
    BY <1>2, <2>1 DEF NcrSelect
  <2> QED
    BY <2>2, <2>3, <2>4, PassesOn
<1>3. CASE s.state = "evaluate"
  <2>1. PICK t, u : /\ t = [s EXCEPT !.state = "arbitrate", !.nData = 0]
                    /\ u = [s EXCEPT !.state = "selection"]
    OBVIOUS
  <2>2. Passes(s, t) /\ Passes(s, u)
    BY <2>1 DEF Selecting, Passes, Good, Waits, Sound, Shape, Told, Untouched
  <2>3. Passes(t, NcrWrite(t, {}, {"BSY"}))
    BY <2>2, NcrWritePasses DEF Passes
  <2>4. NcrSelect(s) \in {u, NcrWrite(t, {}, {"BSY"})}
    BY <1>3, <2>1 DEF NcrSelect
  <2> QED
    BY <2>2, <2>3, <2>4, PassesOn
<1>4. CASE s.state = "selection"
  <2>1. PICK t : t = [s EXCEPT !.state = "delay", !.nData = IF s.dest THEN WithTarget ELSE OwnId]
    OBVIOUS
  <2>2. Passes(s, t)
    BY <2>1 DEF Selecting, InfoStates, Passes, Good, Waits, Sound, Shape, Told, Untouched
  <2>3. Passes(t, NcrWrite(t, {"SEL"}, {}))
    BY <2>2, NcrWritePasses DEF Passes
  <2>4. NcrSelect(s) = NcrWrite(t, {"SEL"}, {})
    BY <1>4, <2>1 DEF NcrSelect
  <2> QED
    BY <2>2, <2>3, <2>4, PassesOn
<1>5. CASE s.state = "delay"
  <2>1. PICK t, on : /\ t = [s EXCEPT !.state = "wait busy"]
                     /\ on = IF s.cmd = "select with ATN" THEN {"ATN"} ELSE {}
    OBVIOUS
  <2>2. Passes(s, t)
    BY <2>1 DEF Selecting, Passes, Good, Waits, Sound, Shape, Told, Untouched
  <2>3. Passes(t, NcrWrite(t, on, {"BSY"}))
    BY <2>2, NcrWritePasses DEF Passes
  <2>4. NcrSelect(s) = NcrWrite(t, on, {"BSY"})
    BY <1>5, <2>1 DEF NcrSelect
  <2> QED
    BY <2>2, <2>3, <2>4, PassesOn
<1>6. CASE s.state = "wait busy"
  <2>1. PICK t, u : t = [s EXCEPT !.state = "complete"] /\ u = [s EXCEPT !.state = "idle"]
    OBVIOUS
  <2>2. Passes(s, t) /\ Passes(s, u)
    BY <2>1 DEF Selecting, Passes, Good, Waits, Sound, Shape, Told, Untouched
  <2>3. PICK w : w = NcrWrite(u, {}, {"ATN", "SEL"})
    OBVIOUS
  <2>4. Passes(u, w)
    BY <2>2, <2>3, NcrWritePasses DEF Passes
  <2>5. Passes(w, Interrupt(w, "disconnected"))
    BY <2>4, InterruptPasses DEF Passes
  <2>6. NcrSelect(s) \in {t, Interrupt(w, "disconnected")}
    BY <1>6, <2>1, <2>3 DEF NcrSelect
  <2> QED
    BY <2>2, <2>4, <2>5, <2>6, PassesOn
<1>7. CASE s.state = "complete"
  <2>1. PICK t : t = [s EXCEPT !.chip = "initiator", !.state = "wait req", !.nData = 0]
    OBVIOUS
  <2>2. Passes(s, t)
    BY <2>1 DEF Selecting, Passes, Good, Waits, Sound, Shape, Told, Untouched
  <2>3. PICK w : w = NcrWrite(t, {}, {"SEL"})
    OBVIOUS
  <2>4. Passes(t, w)
    BY <2>2, <2>3, NcrWritePasses DEF Passes
  <2>5. PICK u : u = Interrupt(w, "complete")
    OBVIOUS
  <2>6. Passes(w, u)
    BY <2>4, <2>5, InterruptPasses DEF Passes
  <2>7. PICK v : v = [u EXCEPT !.stall = TRUE]
    OBVIOUS
  <2>8. Passes(u, v)
    BY <2>6, <2>7 DEF Passes, Good, Waits, Sound, Shape, Told, Untouched
  <2>9. NcrSelect(s) = v
    BY <1>7, <2>1, <2>3, <2>5, <2>7 DEF NcrSelect
  <2> QED
    BY <2>2, <2>4, <2>6, <2>8, <2>9, PassesOn
<1>8. CASE s.state = "wait req"
  <2>1. PICK t, u : t = [s EXCEPT !.state = "idle"] /\ u = [s EXCEPT !.stall = TRUE]
    OBVIOUS
  <2>2. Passes(s, t) /\ Passes(s, u)
    BY <2>1 DEF Passes, Good, Waits, Sound, Shape, Told, Untouched
  <2>3. Passes(t, Interrupt(t, "service"))
    BY <2>2, InterruptPasses DEF Passes
  <2>4. NcrSelect(s) \in {u, Interrupt(t, "service")}
    BY <1>8, <2>1 DEF NcrSelect
  <2> QED
    BY <2>2, <2>3, <2>4, PassesOn
<1> QED
  BY <1>1, <1>2, <1>3, <1>4, <1>5, <1>6, <1>7, <1>8 DEF Selecting

(* Transfers, in either direction. *)
LEMMA NcrInfoPasses ==
  ASSUME NEW s, Good(s), s.state \in InfoStates
  PROVE  Passes(s, NcrInfo(s))
<1>0. PICK over, stalled : /\ over = Interrupt([s EXCEPT !.state = "idle"], "service")
                           /\ stalled = [s EXCEPT !.stall = TRUE]
  OBVIOUS
<1>9. Passes(s, over) /\ Passes(s, stalled)
  <2>1. PICK t : t = [s EXCEPT !.state = "idle"]
    OBVIOUS
  <2>2. Passes(s, t) /\ Passes(s, stalled)
    BY <1>0, <2>1 DEF Passes, Good, Waits, Sound, Shape, Told, Untouched
  <2>3. Passes(t, Interrupt(t, "service"))
    BY <2>2, InterruptPasses DEF Passes
  <2> QED
    BY <1>0, <2>1, <2>2, <2>3, PassesOn
<1>1. CASE s.state = "start"
  <2>1. PICK t : t = [s EXCEPT !.phase = Phase(s),
                               !.state = IF "IO" \in Ctrl(s) THEN "in req" ELSE "out req"]
    OBVIOUS
  <2>2. Passes(s, t)
    BY <2>1 DEF InfoStates, Passes, Good, Waits, Sound, Shape, Told, Untouched
  <2>3. NcrInfo(s) = t
    BY <1>1, <2>1 DEF NcrInfo
  <2> QED
    BY <2>2, <2>3
<1>2. CASE s.state = "in req"
  <2>1. PICK t, u : /\ t = [s EXCEPT !.state = "in drq", !.got = IF s.phase = DataIn THEN @ + 1 ELSE @]
                    /\ u = [s EXCEPT !.state = "in drq", !.full = TRUE, !.byte = BusData(s),
                                     !.stall = TRUE]
    OBVIOUS
  <2>2. Passes(s, t) /\ Passes(s, u)
    BY <2>1 DEF InfoStates, Passes, Good, Waits, Sound, Shape, Told, Untouched
  <2>3. Passes(u, SetDreq(u, TRUE))
    BY <2>2, SetDreqPasses DEF Passes
  <2>4. NcrInfo(s) \in {over, stalled, t, u, SetDreq(u, TRUE)}
    BY <1>0, <1>2, <2>1 DEF NcrInfo
  <2>5. Passes(s, SetDreq(u, TRUE))
    BY <2>2, <2>3, PassesOn
  <2> QED
    BY <1>9, <2>2, <2>4, <2>5
<1>3. CASE s.state = "in drq"
  <2>1. PICK t : t = [s EXCEPT !.state = "in ack"]
    OBVIOUS
  <2>2. Passes(s, t)
    BY <2>1 DEF Selecting, InfoStates, Passes, Good, Waits, Sound, Shape, Told, Untouched
  <2>3. Passes(t, NcrWrite(t, {"ACK"}, {}))
    BY <2>2, NcrWritePasses DEF Passes
  <2>4. NcrInfo(s) = NcrWrite(t, {"ACK"}, {})
    BY <1>3, <2>1 DEF NcrInfo
  <2> QED
    BY <2>2, <2>3, <2>4, PassesOn
<1>4. CASE s.state = "in ack"
  <2>1. PICK o, t, u : /\ o = OneLess(s) /\ t = [o EXCEPT !.state = "in req"]
                       /\ u = [t EXCEPT !.state = "idle"]
    OBVIOUS
  <2>2. Passes(s, o)
    BY <2>1, OneLessPasses
  <2>3. Passes(o, t) /\ Passes(t, u)
    BY <2>1, <2>2 DEF InfoStates, Passes, Good, Waits, Sound, Shape, Told, Untouched
  <2>4. Passes(u, Interrupt(u, "complete")) /\ Passes(t, NcrWrite(t, {}, {"ACK"}))
    BY <2>3, InterruptPasses, NcrWritePasses DEF Passes
  <2>5. NcrInfo(s) \in {stalled, Interrupt(u, "complete"), NcrWrite(t, {}, {"ACK"})}
    BY <1>0, <1>4, <2>1 DEF NcrInfo
  <2>6. Passes(s, t)
    BY <2>2, <2>3, PassesOn
  <2>7. Passes(s, u)
    BY <2>3, <2>6, PassesOn
  <2> QED
    BY <1>9, <2>4, <2>5, <2>6, <2>7, PassesOn
<1>5. CASE s.state = "out req"
  <2>1. PICK t : t = [s EXCEPT !.state = "out drq", !.stall = ~s.full]
    OBVIOUS
  <2>2. Passes(s, t)
    BY <2>1 DEF InfoStates, Passes, Good, Waits, Sound, Shape, Told, Untouched
  <2>3. Passes(t, SetDreq(t, TRUE))
    BY <2>2, SetDreqPasses DEF Passes
  <2>4. NcrInfo(s) \in {over, stalled, t, SetDreq(t, TRUE)}
    BY <1>0, <1>5, <2>1 DEF NcrInfo
  <2>5. Passes(s, SetDreq(t, TRUE))
    BY <2>2, <2>3, PassesOn
  <2> QED
    BY <1>9, <2>2, <2>4, <2>5
<1>6. CASE s.state = "out drq"
  <2>1. PICK t, off : /\ t = [s EXCEPT !.state = "out ack", !.full = FALSE, !.nData = s.byte]
                      /\ off = IF LastOne(s) /\ Phase(s) = MessageOut THEN {"ATN"} ELSE {}
    OBVIOUS
  <2>2. Passes(s, t)
    BY <2>1 DEF InfoStates, Passes, Good, Waits, Sound, Shape, Told, Untouched
  <2>3. Passes(t, NcrWrite(t, {"ACK"}, off))
    BY <2>2, NcrWritePasses DEF Passes
  <2>4. NcrInfo(s) = NcrWrite(t, {"ACK"}, off)
    BY <1>6, <2>1 DEF NcrInfo
  <2> QED
    BY <2>2, <2>3, <2>4, PassesOn
<1>7. CASE s.state = "out ack"
  <2>1. PICK o, t : /\ o = OneLess(s)
                    /\ t = [o EXCEPT !.nData = 0,
                                     !.state = IF s.cmd = "pad" THEN "out pad" ELSE "out req"]
    OBVIOUS
  <2>2. Passes(s, o)
    BY <2>1, OneLessPasses
  <2>3. Passes(o, t)
    BY <2>1, <2>2 DEF InfoStates, Passes, Good, Waits, Sound, Shape, Told, Untouched
  <2>4. Passes(t, NcrWrite(t, {}, {"ACK"}))
    BY <2>3, NcrWritePasses DEF Passes
  <2>5. NcrInfo(s) \in {stalled, NcrWrite(t, {}, {"ACK"})}
    BY <1>0, <1>7, <2>1 DEF NcrInfo
  <2>6. Passes(s, t)
    BY <2>2, <2>3, PassesOn
  <2> QED
    BY <1>9, <2>4, <2>5, <2>6, PassesOn
<1>8. CASE s.state = "out pad"
  <2>1. PICK t : t = [s EXCEPT !.state = "out drq"]
    OBVIOUS
  <2>2. Passes(s, t)
    BY <2>1 DEF InfoStates, Passes, Good, Waits, Sound, Shape, Told, Untouched
  <2>3. NcrInfo(s) \in {s, over, t}
    BY <1>0, <1>8, <2>1 DEF NcrInfo
  <2> QED
    BY <1>9, <2>2, <2>3, ItselfPasses
<1> QED
  BY <1>1, <1>2, <1>3, <1>4, <1>5, <1>6, <1>7, <1>8 DEF InfoStates

(* NCR_StepState(). *)
LEMMA NcrStepPasses ==
  ASSUME NEW s, Good(s)
  PROVE  Passes(s, NcrStep(s))
<1>1. CASE s.loaded
  <2>1. PICK e : e = Execute(s)
    OBVIOUS
  <2>2. Passes(s, e)
    BY <2>1, ExecutePasses
  <2>3. Passes(e, Unloaded(e))
    BY <2>2 DEF Passes, Good, Waits, Sound, Shape, Told, Untouched, Unloaded
  <2>4. NcrStep(s) = Unloaded(e)
    BY <1>1, <2>1 DEF NcrStep
  <2> QED
    BY <2>2, <2>3, <2>4, PassesOn
<1>2. CASE ~s.loaded /\ s.state = "idle"
  BY <1>2, ItselfPasses DEF NcrStep
<1>3. CASE ~s.loaded /\ s.state \in Selecting
  <2>1. s.state # "idle"
    BY <1>3 DEF Selecting
  <2> QED
    BY <1>3, <2>1, NcrSelectPasses DEF NcrStep
<1>4. CASE ~s.loaded /\ s.state \in InfoStates
  <2>1. s.state # "idle" /\ s.state \notin Selecting
    BY <1>4 DEF Selecting, InfoStates
  <2> QED
    BY <1>4, <2>1, NcrInfoPasses DEF NcrStep
<1> QED
  BY <1>1, <1>2, <1>3, <1>4 DEF Good, Sound, Shape

(* NCR_Clock(). *)
LEMMA NcrClockPasses ==
  ASSUME NEW s, Good(s)
  PROVE  Passes(s, NcrClock(s))
<1>1. PICK d, o : d = [s EXCEPT !.timer = @ - 1] /\ o = [s EXCEPT !.timer = Off]
  OBVIOUS
<1>2. Passes(s, d) /\ Passes(s, o)
  BY <1>1 DEF Passes, Good, Waits, Sound, Shape, Told, Untouched
<1>3. PICK t : t = NcrStep(o)
  OBVIOUS
<1>4. Passes(o, t)
  BY <1>2, <1>3, NcrStepPasses DEF Passes
<1>6. Passes(t, Rearmed(t))
  BY <1>4 DEF Passes, Good, Waits, Sound, Shape, Told, Untouched, Rearmed
<1>7. NcrClock(s) \in {s, d, Rearmed(t)}
  BY <1>1, <1>3 DEF NcrClock
<1>8. Passes(s, t)
  BY <1>2, <1>4, PassesOn
<1> QED
  BY <1>2, <1>6, <1>7, <1>8, ItselfPasses, PassesOn

(* scsi_target_clock(). *)
LEMMA TargetClockPasses ==
  ASSUME NEW s, Good(s)
  PROVE  Passes(s, TargetClock(s))
<1>1. PICK t : t = [s EXCEPT !.tTimer = FALSE]
  OBVIOUS
<1>2. Passes(s, t)
  BY <1>1 DEF Passes, Good, Waits, Sound, Shape, Told, Untouched
<1>3. Passes(t, TargetStep(t))
  BY <1>2, TargetStepKeeps DEF Passes
<1>4. TargetClock(s) \in {s, TargetStep(t)}
  BY <1>1 DEF TargetClock
<1> QED
  BY <1>2, <1>3, <1>4, ItselfPasses, PassesOn

(* Such a call keeps the invariant. *)
LEMMA PassesGood ==
  ASSUME NEW s, AdapterGood(s), NEW t, Passes(s, t)
  PROVE  AdapterGood(t)
  BY DEF AdapterGood, Passes, AdapterTold, Untouched

(* What the program counts. *)
LEMMA TookPasses ==
  ASSUME NEW s, Good(s)
  PROVE  Passes(s, Took(s)) /\ Passes(s, Gave(s))
  BY DEF Took, Gave, Passes, Good, Waits, Sound, Shape, Told, Untouched

(* NCR_WriteCommandRegister(). *)
LEMMA WriteCommandPasses ==
  ASSUME NEW s, Good(s), NEW cmd \in Commands, NEW single, NEW dma
  PROVE  Passes(s, WriteCommand(s, cmd, single, dma))
<1>1. PICK t, u : /\ t = [s EXCEPT !.cmd = cmd, !.single = single, !.dma = dma]
                  /\ u = [t EXCEPT !.full = FALSE, !.loaded = TRUE, !.timer = 2]
  OBVIOUS
<1>2. Passes(s, t)
  BY <1>1 DEF Passes, Good, Waits, Sound, Shape, Told, Untouched
<1>3. Passes(t, u)
  BY <1>1, <1>2 DEF Passes, Good, Waits, Sound, Shape, Told, Untouched
<1>4. Passes(t, Execute(t))
  BY <1>2, ExecutePasses DEF Passes
<1>5. WriteCommand(s, cmd, single, dma) \in {u, Execute(t)}
  BY <1>1 DEF WriteCommand
<1> QED
  BY <1>2, <1>3, <1>4, <1>5, PassesOn

(* The data register, written and read. *)
LEMMA DataRegisterPasses ==
  ASSUME NEW s, Good(s), NEW byte
  PROVE  Passes(s, WriteData(s, byte)) /\ Passes(s, ReadData(s))
<1>1. PICK t, u : t = [s EXCEPT !.byte = byte, !.full = TRUE] /\ u = [s EXCEPT !.full = FALSE]
  OBVIOUS
<1>2. Passes(s, t) /\ Passes(s, u)
  BY <1>1 DEF Passes, Good, Waits, Sound, Shape, Told, Untouched
<1>3. Passes(t, Wake(t)) /\ Passes(u, Wake(u))
  BY <1>2, WakePasses DEF Passes
<1>4. WriteData(s, byte) \in {s, Wake(t)} /\ ReadData(s) \in {s, Wake(u)}
  BY <1>1 DEF WriteData, ReadData
<1>5. Passes(s, Wake(t)) /\ Passes(s, Wake(u)) /\ Passes(s, s)
  BY <1>2, <1>3, PassesOn, ItselfPasses
<1> QED
  BY <1>4, <1>5

(* Without a cause the line falls, whatever the adapter remembers. *)
LEMMA UpdateIntClears ==
  ASSUME NEW s, Shape(s), Waits(s), s.int = {}
  PROVE  /\ Good(UpdateInt(s)) /\ Untouched(s, UpdateInt(s))
         /\ UpdateInt(s).int = {} /\ UpdateInt(s).mint = FALSE
<1>1. CASE s.mint = FALSE
  <2>1. UpdateInt(s) = s
    BY <1>1 DEF UpdateInt
  <2> QED
    BY <1>1, <2>1 DEF Good, Sound, Told, Untouched
<1>2. CASE s.mint = TRUE
  <2>1. UpdateInt(s) = [s EXCEPT !.mint = FALSE, !.intNcr = @ \/ FALSE, !.single = @ /\ ~FALSE,
                                 !.dma = @ /\ ~FALSE]
    BY <1>2 DEF UpdateInt
  <2> QED
    BY <2>1 DEF Good, Waits, Sound, Shape, Told, Untouched
<1> QED
  BY <1>1, <1>2 DEF Shape

(* Reading the interrupt register takes the causes and the adapter's copy  *)
(* back together.                                                          *)
LEMMA ReadIntPasses ==
  ASSUME NEW s, Good(s)
  PROVE  Passes(s, ReadInt(s))
<1>1. PICK t, u, w : t = [s EXCEPT !.int = {}] /\ u = UpdateInt(t) /\ w = Wake(u)
  OBVIOUS
<1>2. Shape(t) /\ Waits(t) /\ Untouched(s, t) /\ t.int = {}
  BY <1>1 DEF Good, Waits, Sound, Shape, Untouched
<1>3. Good(u) /\ Untouched(t, u) /\ u.int = {} /\ u.mint = FALSE
  BY <1>1, <1>2, UpdateIntClears
<1>4. Good(w) /\ Untouched(u, w) /\ w.int = {} /\ w.mint = FALSE
  <2>1. Passes(u, w)
    BY <1>1, <1>3, WakePasses
  <2>2. w.int = {} /\ w.mint = FALSE
    BY <1>1, <1>3 DEF Wake, Good, Sound, Shape
  <2> QED
    BY <2>1, <2>2 DEF Passes
<1>5. ReadInt(s) = [w EXCEPT !.intNcr = FALSE]
  BY <1>1 DEF ReadInt
<1>6. Good(ReadInt(s)) /\ Untouched(w, ReadInt(s))
  BY <1>4, <1>5 DEF Good, Waits, Sound, Shape, Told, Untouched
<1> QED
  BY <1>2, <1>3, <1>4, <1>6 DEF Passes, Untouched

(* The chip's DMA. *)
LEMMA DMAPasses ==
  ASSUME NEW s, Good(s)
  PROVE  Passes(s, DMARead(s)) /\ Passes(s, DMAWrite(s))
<1>1. PICK a, b, c, d : /\ a = Took(s) /\ b = [a EXCEPT !.full = FALSE]
                        /\ c = SetDreq(b, FALSE) /\ d = [c EXCEPT !.timer = 0]
  OBVIOUS
<1>2. Passes(s, a)
  BY <1>1, TookPasses
<1>3. Passes(a, b)
  BY <1>1, <1>2 DEF Passes, Good, Waits, Sound, Shape, Told, Untouched
<1>4. Passes(b, c)
  BY <1>1, <1>3, SetDreqPasses DEF Passes
<1>5. Passes(c, d)
  BY <1>1, <1>4 DEF Passes, Good, Waits, Sound, Shape, Told, Untouched
<1>6. DMARead(s) = d
  BY <1>1 DEF DMARead
<1>7. Passes(s, b)
  BY <1>2, <1>3, PassesOn
<1>8. Passes(s, c)
  BY <1>4, <1>7, PassesOn
<1>9. Passes(s, DMARead(s))
  BY <1>5, <1>6, <1>8, PassesOn
<1>10. PICK e, f, g, h : /\ e = Gave(s) /\ f = [e EXCEPT !.full = TRUE, !.byte = s.put + 1]
                         /\ g = SetDreq(f, FALSE) /\ h = [g EXCEPT !.timer = 0]
  OBVIOUS
<1>11. Passes(s, e)
  BY <1>10, TookPasses
<1>12. Passes(e, f)
  BY <1>10, <1>11 DEF Passes, Good, Waits, Sound, Shape, Told, Untouched
<1>13. Passes(f, g)
  BY <1>10, <1>12, SetDreqPasses DEF Passes
<1>14. Passes(g, h)
  BY <1>10, <1>13 DEF Passes, Good, Waits, Sound, Shape, Told, Untouched
<1>15. DMAWrite(s) = h
  BY <1>10 DEF DMAWrite
<1>16. Passes(s, f)
  BY <1>11, <1>12, PassesOn
<1>17. Passes(s, g)
  BY <1>13, <1>16, PassesOn
<1>18. Passes(s, DMAWrite(s))
  BY <1>14, <1>15, <1>17, PassesOn
<1> QED
  BY <1>9, <1>18

(* scsi_step_go_state(): an adapter that the chip has interrupted becomes  *)
(* ready and interrupts.                                                   *)
LEMMA GoStateWhole ==
  ASSUME NEW s, AdapterGood(s)
  PROVE  AdapterGood(GoState(s))
<1>1. PICK e : e = [s EXCEPT !.active = FALSE, !.ready = TRUE, !.irq = @ \/ s.enabled]
  OBVIOUS
<1>2. AdapterGood(e)
  BY <1>1 DEF AdapterGood, AdapterTold, Good, Waits, Sound, Shape, Told
<1>3. PICK t : t \in {s, e} /\ t = IF s.intNcr THEN e ELSE s
  OBVIOUS
<1>4. AdapterGood(t)
  BY <1>2, <1>3
<1>5. AdapterGood(DMARead(t)) /\ AdapterGood(DMAWrite(t))
  <2>1. Passes(t, DMARead(t)) /\ Passes(t, DMAWrite(t))
    BY <1>4, DMAPasses DEF AdapterGood
  <2> QED
    BY <1>4, <2>1, PassesGood
<1>6. GoState(s) \in {s, t, DMARead(t), DMAWrite(t)}
  BY <1>1, <1>3 DEF GoState
<1> QED
  BY <1>4, <1>5, <1>6

(* scsi_tick(). *)
LEMMA TickWhole ==
  ASSUME NEW s, AdapterGood(s)
  PROVE  AdapterGood(Tick(s))
<1>1. PICK t, u : t = NcrClock(s) /\ u = TargetClock(t)
  OBVIOUS
<1>2. Passes(s, t)
  BY <1>1, NcrClockPasses DEF AdapterGood
<1>3. Passes(t, u)
  BY <1>1, <1>2, TargetClockPasses DEF Passes
<1>4. AdapterGood(u)
  BY <1>2, <1>3, PassesOn, PassesGood
<1> QED
  BY <1>1, <1>4, GoStateWhole DEF Tick

(* NCR5386_DeviceReset(). *)
LEMMA DeviceResetPasses ==
  ASSUME NEW s, Shape(s), Waits(s)
  PROVE  Passes(s, DeviceReset(s))
<1>1. PICK t : t = ChipReset(s)
  OBVIOUS
<1>2. Shape(t) /\ Waits(t) /\ Untouched(s, t) /\ t.int = {}
  BY <1>1 DEF ChipReset, Shape, Waits, Untouched, Commands
<1>3. Good(UpdateInt(t)) /\ Untouched(t, UpdateInt(t))
  BY <1>2, UpdateIntClears
<1> QED
  BY <1>1, <1>2, <1>3 DEF DeviceReset, Passes, Untouched

(* NCR5386_InitiateResetSCSIBus(): three writes of the lines. *)
LEMMA ResetBusPasses ==
  ASSUME NEW s, Good(s)
  PROVE  Passes(s, ResetBus(s))
<1>1. PICK all : all = s.nLines \cup {"RST"}
  OBVIOUS
<1>2. PICK t, u, v : /\ t = NcrWrite(s, {}, all) /\ u = NcrWrite(t, {"RST"}, {})
                     /\ v = NcrWrite(u, {}, all)
  OBVIOUS
<1>3. Passes(s, t)
  BY <1>2, NcrWritePasses
<1>4. Passes(t, u)
  BY <1>2, <1>3, NcrWritePasses DEF Passes
<1>5. Passes(u, v)
  BY <1>2, <1>4, NcrWritePasses DEF Passes
<1>6. ResetBus(s) = v
  BY <1>1, <1>2 DEF ResetBus
<1>7. Passes(s, u)
  BY <1>3, <1>4, PassesOn
<1> QED
  BY <1>5, <1>6, <1>7, PassesOn

(* scsi_write_control() with any bits: an adapter that it leaves ready has *)
(* interrupted.                                                            *)
LEMMA WriteControlWhole ==
  ASSUME NEW s, Good(s), NEW bits
  PROVE  AdapterGood(WriteControl(s, bits))
<1>1. PICK en, ac, dm, wr : /\ en = ("enable" \in bits) /\ ac = ("activate" \in bits)
                            /\ dm = ("dma" \in bits) /\ wr = ("write" \in bits)
  OBVIOUS
<1>2. PICK c : c = [s EXCEPT !.enabled = en, !.active = ac, !.dmaOn = dm, !.write = wr,
                             !.ready = TRUE]
  OBVIOUS
<1>3. Good(c)
  <2>1. en \in BOOLEAN /\ ac \in BOOLEAN
    BY <1>1
  <2> QED
    BY <1>2, <2>1 DEF Good, Waits, Sound, Shape, Told
<1>4. PICK d : d = IF "clear" \in bits THEN DeviceReset(c) ELSE c
  OBVIOUS
<1>5. Good(d)
  BY <1>3, <1>4, DeviceResetPasses DEF Passes, Good, Sound
<1>6. PICK r : r = IF "reset bus" \in bits THEN ResetBus(d) ELSE d
  OBVIOUS
<1>7. Good(r)
  BY <1>5, <1>6, ResetBusPasses DEF Passes
<1>8. PICK x, y : x = [r EXCEPT !.ready = FALSE] /\ y = [r EXCEPT !.irq = @ \/ r.enabled]
  OBVIOUS
<1>9. WriteControl(s, bits) = IF r.active THEN x ELSE y
  BY <1>1, <1>2, <1>4, <1>6, <1>8 DEF WriteControl, Activated
<1>10. r.active => AdapterGood(x)
  BY <1>7, <1>8 DEF AdapterGood, AdapterTold, Good, Waits, Sound, Shape, Told
<1>11. AdapterGood(y)
  BY <1>7, <1>8 DEF AdapterGood, AdapterTold, Good, Waits, Sound, Shape, Told
<1> QED
  BY <1>9, <1>10, <1>11

(* scsi_reset() forgets that the chip has interrupted, and the chip is     *)
(* reset with it.                                                          *)
LEMMA MasterClearWhole ==
  ASSUME NEW s, Good(s)
  PROVE  AdapterGood(MasterClear(s))
<1>1. PICK t : t = [s EXCEPT !.enabled = FALSE, !.active = FALSE, !.ready = FALSE,
                             !.dmaOn = FALSE, !.write = FALSE, !.dataReq = FALSE, !.intNcr = FALSE]
  OBVIOUS
<1>2. Shape(t) /\ Waits(t) /\ t.enabled = FALSE
  BY <1>1 DEF Good, Waits, Sound, Shape
<1>3. Passes(t, DeviceReset(t))
  BY <1>2, DeviceResetPasses
<1> QED
  BY <1>1, <1>2, <1>3 DEF MasterClear, AdapterGood, AdapterTold, Passes, Untouched

(* The invariant holds initially. *)
LEMMA ScsiInvInit == ScsiInit => ScsiInv
<1>1. <<>> \in Plans
  BY DEF Plans
<1>2. SUFFICES ASSUME ScsiInit PROVE Good(scsi) /\ AdapterTold(scsi)
  BY DEF ScsiInv, AdapterGood
<1>3. Shape(scsi)
  BY <1>1, <1>2 DEF ScsiInit, Shape, Targets, Subs, Commands
<1>4. Told(scsi) /\ Waits(scsi) /\ AdapterTold(scsi)
  BY <1>2 DEF ScsiInit, Told, Waits, AdapterTold
<1> QED
  BY <1>3, <1>4 DEF Good, Sound

(* Every step of the adapter and of the program keeps it. *)
LEMMA ScsiInvNext == ScsiInv /\ [ScsiNext]_scsiVars => ScsiInv'
<1>1. SUFFICES ASSUME ScsiInv, [ScsiNext]_scsiVars PROVE AdapterGood(scsi')
  BY DEF ScsiInv
<1>2. PICK s, t : s = scsi /\ t = scsi'
  OBVIOUS
<1>3. AdapterGood(s) /\ Good(s)
  BY <1>1, <1>2 DEF ScsiInv, AdapterGood
<1>4. CASE UNCHANGED scsiVars
  BY <1>1, <1>4 DEF scsiVars, ScsiInv
<1>5. CASE ScsiTick
  BY <1>2, <1>3, <1>5, TickWhole DEF ScsiTick
<1>6. CASE ScsiIdent
  <2>1. t = [s EXCEPT !.irq = FALSE, !.enabled = FALSE]
    BY <1>2, <1>6 DEF ScsiIdent
  <2> QED
    BY <1>2, <1>3, <2>1 DEF AdapterGood, AdapterTold, Good, Waits, Sound, Shape, Told
<1>7. CASE ProgSelect
  <2>1. PICK there \in BOOLEAN, plan \in Plans, cmd \in {"select", "select with ATN"} :
          t = WriteCommand([s EXCEPT !.dest = there, !.plan = plan, !.got = 0, !.put = 0,
                                     !.taken = 0], cmd, FALSE, FALSE)
    BY <1>2, <1>7 DEF ProgSelect
  <2>2. PICK u : u = [s EXCEPT !.dest = there, !.plan = plan, !.got = 0, !.put = 0, !.taken = 0]
    OBVIOUS
  <2>3. Passes(s, u)
    BY <1>3, <2>2 DEF Passes, Good, Waits, Sound, Shape, Told, Untouched
  <2>4. Passes(u, t)
    BY <2>1, <2>2, <2>3, WriteCommandPasses DEF Passes, Commands
  <2> QED
    BY <1>2, <1>3, <2>3, <2>4, PassesOn, PassesGood
<1>8. CASE ProgActivate
  BY <1>2, <1>3, <1>8, WriteControlWhole DEF ProgActivate
<1>9. CASE ProgReads
  <2>1. PICK u : u = Took(s)
    OBVIOUS
  <2>2. Passes(s, u)
    BY <1>3, <2>1, TookPasses
  <2>3. t = ReadData(u)
    BY <1>2, <1>9, <2>1 DEF ProgReads
  <2>4. Passes(u, t)
    BY <2>2, <2>3, DataRegisterPasses DEF Passes
  <2> QED
    BY <1>2, <1>3, <2>2, <2>4, PassesOn, PassesGood
<1>10. CASE ProgWrites
  <2>1. PICK u : u = Gave(s)
    OBVIOUS
  <2>2. Passes(s, u)
    BY <1>3, <2>1, TookPasses
  <2>3. t = WriteData(u, s.put + 1)
    BY <1>2, <1>10, <2>1 DEF ProgWrites
  <2>4. Passes(u, t)
    BY <2>2, <2>3, DataRegisterPasses DEF Passes
  <2> QED
    BY <1>2, <1>3, <2>2, <2>4, PassesOn, PassesGood
<1>11. CASE ProgInterrupt \/ ProgDrains
  <2>1. t = ReadInt(s)
    BY <1>2, <1>11 DEF ProgInterrupt, ProgDrains
  <2> QED
    BY <1>2, <1>3, <2>1, ReadIntPasses, PassesGood
<1>12. CASE ProgTransfers
  <2>1. PICK cmd \in {"info", "pad"}, single \in BOOLEAN, dma \in BOOLEAN,
             count \in 1 .. DataBytes \cup {CommandBytes} :
          t = WriteCommand([s EXCEPT !.count = count, !.put = s.taken], cmd, single, dma)
    BY <1>2, <1>12, ZenonT(40) DEF ProgTransfers
  <2>2. PICK u : u = [s EXCEPT !.count = count, !.put = s.taken]
    OBVIOUS
  <2>3. Passes(s, u)
    BY <1>3, <2>2 DEF Passes, Good, Waits, Sound, Shape, Told, Untouched
  <2>4. Passes(u, t)
    BY <2>1, <2>2, <2>3, WriteCommandPasses DEF Passes, Commands
  <2> QED
    BY <1>2, <1>3, <2>3, <2>4, PassesOn, PassesGood
<1>13. CASE ProgDecides \/ ProgMistakes
  <2>1. t = s \/ (\E cmd \in Commands : t = WriteCommand(s, cmd, FALSE, FALSE))
    BY <1>2, <1>13 DEF ProgDecides, ProgMistakes, Commands
  <2> QED
    BY <1>2, <1>3, <2>1, WriteCommandPasses, PassesGood
<1>14. CASE ProgClears
  <2>1. t \in {WriteControl(s, {"clear"}), WriteControl(s, {"clear", "enable"}),
                MasterClear(s), WriteCommand(s, "reset", FALSE, FALSE)}
    BY <1>2, <1>14 DEF ProgClears
  <2>2. AdapterGood(WriteCommand(s, "reset", FALSE, FALSE))
    BY <1>3, WriteCommandPasses, PassesGood DEF Commands
  <2> QED
    BY <1>2, <1>3, <2>1, <2>2, WriteControlWhole, MasterClearWhole
<1>15. CASE ProgResetsBus
  BY <1>2, <1>3, <1>15, WriteControlWhole DEF ProgResetsBus
<1> QED
  BY <1>1, <1>4, <1>5, <1>6, <1>7, <1>8, <1>9, <1>10, <1>11, <1>12, <1>13, <1>14, <1>15
     DEF ScsiNext, ProgGoesOn

(* A cause in the chip's register has reached the adapter, and an adapter  *)
(* that is ready again has told the CPU: for every length of command and   *)
(* data, whatever the program does and whenever it clears the adapter      *)
(* (part of InterruptsTold).                                               *)
THEOREM ScsiIsTold == ScsiSpec => []ScsiTold
<1>1. ScsiInv => ScsiTold
  BY DEF ScsiInv, AdapterGood, AdapterTold, Good, Sound, Told, ScsiTold
<1> QED
  BY <1>1, ScsiInvInit, ScsiInvNext, PTL DEF ScsiSpec
-----------------------------------------------------------------------------
(* The bytes of the SCSI adapter.  The invariant says, for every place where *)
(* chip and target can be in the handshake of a byte, which of the two holds *)
(* it, what they have on the lines, and how many bytes program and DMA still *)
(* owe the chip or have still to take from it.                               *)

(* The fields of the state, and what chip and target may have on the lines. *)
Fields ==
  {"nLines", "tLines", "nData", "tData", "chip", "state", "cmd", "loaded", "single", "dma",
   "count", "sbx", "full", "byte", "phase", "int", "mint", "dreq", "timer", "stall", "dest",
   "target", "sub", "queue", "pos", "size", "tTimer", "tWait", "plan", "active", "enabled",
   "ready", "dmaOn", "write", "intNcr", "dataReq", "irq", "got", "put", "taken"}
HasFields(s) == DOMAIN s = Fields
ChipLines == {"BSY", "SEL", "ATN", "ACK", "RST"}
TargetLines == {"BSY", "REQ"} \cup PhaseLines
Wires(s) == HasFields(s) /\ s.nLines \subseteq ChipLines /\ s.tLines \subseteq TargetLines

(* The lines a target waits for: without a connection, and with one. *)
Quiet == {"SEL", "BSY", "RST"}
AllWaits == Quiet \cup {"ACK"}

(* The data of the command: how many bytes, and which way they go. *)
Size(s) == IF s.plan = <<>> THEN 0 ELSE s.plan[1].size
Reads(s) == s.plan # <<>> /\ s.plan[1].act = "in"
Writes(s) == s.plan # <<>> /\ s.plan[1].act = "out"

(* The target has REQ up (it asks); it is the side that gives the byte. *)
Asks(s) == s.sub \in {"recv1", "send1"}
Sends(s) == s.sub \in {"send0", "send1"}

(* The target's part of the handshake, by what the byte belongs to: in data  *)
(* phases the position in the data is part of it.                            *)
Stands(s, target, queue, phase, sends) ==
  s.target = target /\ s.queue = queue /\ Phase(s) = phase /\ (Sends(s) <=> sends)
InData(s) ==
  /\ Reads(s) /\ s.size = Size(s) /\ s.pos \in 1 .. s.size
  /\ Stands(s, IF s.pos = s.size THEN "next" ELSE "in", Complete, DataIn, TRUE)
  /\ s.tData = IF Asks(s) THEN s.pos ELSE 0
Asked(s) == IF Asks(s) THEN s.pos ELSE s.pos - 1
OutData(s) ==
  /\ Writes(s) /\ s.size = Size(s) /\ s.pos \in Nat /\ s.size \in Nat
  /\ Asked(s) \in 0 .. s.size - 1
  /\ Stands(s, IF Asked(s) = s.size - 1 THEN "next" ELSE "out", Complete, DataOut, FALSE)
InMessage(s) == Stands(s, "msg", <<>>, MessageOut, FALSE)
InCommand(s) == Stands(s, "cmd", <<>>, Command, FALSE) /\ "ATN" \notin s.nLines
InStatus(s) == Stands(s, "next", Message, Status, TRUE)
InReply(s) == Stands(s, "next", Free, MessageIn, TRUE)
Handshake(s) ==
  /\ s.sub \in {"recv0", "recv1", "send0", "send1"}
  /\ s.tLines \ PhaseLines = IF Asks(s) THEN {"BSY", "REQ"} ELSE {"BSY"}
  /\ s.tWait = AllWaits /\ s.tTimer = FALSE
  /\ s.sub # "send1" => s.tData = 0
  /\ InMessage(s) \/ InCommand(s) \/ InData(s) \/ OutData(s) \/ InStatus(s) \/ InReply(s)

(* A target without a handshake. *)
AtRest(s, target, lines) ==
  /\ s.target = target /\ s.tLines = lines /\ s.sub = "none" /\ s.queue = <<>> /\ s.tData = 0
  /\ s.tWait = Quiet /\ s.tTimer = FALSE

(* The counters are numbers: none is Bad. *)
One(b) == IF b THEN 1 ELSE 0
Typed(s) == Wires(s) /\ s.plan \in Plans /\ s.got \in Nat /\ s.taken \in Nat /\ s.count \in Nat
Drives(p) == p.in \in BOOLEAN /\ p.left \in Nat

(* What the chip has still to move: Remaining() counts a single byte apart. *)
Left(s) == IF s.single THEN One(s.sbx) ELSE s.count

(* The counters keep to the position in the data; n bytes more are on the  *)
(* lines or in the register, and not yet with the program.                 *)
Kept(s, n) ==
  /\ Phase(s) = DataIn => s.got = s.pos - n
  /\ Phase(s) = DataOut => s.taken = s.pos
  /\ Phase(s) = Status => (Reads(s) => s.got = Size(s)) /\ (Writes(s) => s.taken = Size(s))
  /\ Phase(s) \in {MessageOut, Command} => s.got = 0 /\ s.taken = 0

(* The bus: the target asks, or the chip holds ACK for a byte it has. *)
Asking(s, n) ==
  /\ Handshake(s) /\ Asks(s) /\ s.nLines \subseteq {"ATN"}
  /\ (Phase(s) # MessageOut => s.nLines = {}) /\ s.nData = 0 /\ Kept(s, n)
Holding(s) == Handshake(s) /\ ~Asks(s) /\ s.nLines = {"ACK"} /\ Kept(s, 0)

(* The chip: its state and timer; no cause stands and the program waits for *)
(* one; nothing lies in the data register for the program; what the program *)
(* puts there is the byte after those taken.                                *)
Chip(s, state, timers) == s.state = state /\ s.loaded = FALSE /\ s.timer \in timers
Untold(s, p) ==
  /\ s.int = {} /\ s.mint = FALSE /\ s.intNcr = FALSE
  /\ p.at \in {"go", "wait"} /\ (p.at = "wait" => s.active)
Vacant(s, p) == s.dreq = FALSE /\ (p.in => ~s.full)
Ordered(s) == s.put = s.taken + One(s.full) /\ (s.full => s.byte = s.put)

(* A transfer in or out, of which n bytes have gone over the bus and are not *)
(* yet counted: what the program has left to move.                           *)
TransferIn(s, p, n) ==
  /\ p.in /\ "IO" \in s.phase /\ s.cmd \in {"info", "pad"} /\ (s.phase = MessageIn => Left(s) <= 1)
  /\ IF s.dma THEN p.left = 0 ELSE s.cmd = "info" => p.left = Left(s) - n
TransferOut(s, p, n) ==
  /\ ~p.in /\ "IO" \notin s.phase /\ s.cmd \in {"info", "pad"}
  /\ (s.phase = MessageOut => Left(s) <= 1)
  /\ s.dma => p.left = 0
  /\ s.cmd = "info" /\ ~s.dma => p.left + One(s.full) = Left(s) - n
  /\ s.cmd = "info" /\ s.phase = DataOut /\ Phase(s) = DataOut => Ordered(s)
SamePhase(s) == s.phase = Phase(s) /\ Left(s) > 0

(* Each state of the chip while it is connected: idle, waiting for REQ after *)
(* a transfer, with a command loaded, and the states of a transfer.          *)
Resting(s, p) ==
  /\ Chip(s, "idle", {Off}) /\ Vacant(s, p)
  /\ Asking(s, 1) \/ (Phase(s) = MessageIn /\ Holding(s) /\ s.nData = 0)
WaitsReq(s, p) ==
  Chip(s, "wait req", {Off, 0}) /\ (s.timer = Off => s.mint) /\ Vacant(s, p) /\ Asking(s, 1)
Starts(s, p) ==
  /\ Asking(s, 1) /\ Vacant(s, p) /\ Untold(s, p) /\ s.cmd \in {"info", "pad"}
  /\ (p.in <=> "IO" \in Phase(s)) /\ (Phase(s) \in {MessageIn, MessageOut} => s.count <= 1)
  /\ s.single => s.count = 1
  /\ IF s.dma THEN p.left = 0 /\ ~s.full
     ELSE IF s.cmd = "info" THEN p.left + One(s.full) = s.count
     ELSE ~p.in => p.left + One(s.full) = 1
  /\ s.cmd = "info" /\ Phase(s) = DataOut => Ordered(s)
CommandLoaded(s, p) ==
  /\ s.state = "idle" /\ s.loaded = TRUE /\ s.timer \in 0 .. 2
  /\ \/ Starts(s, p)
     \/ /\ s.cmd \in {"select", "select with ATN"} /\ Asking(s, 1) /\ Vacant(s, p)
        /\ Untold(s, p)
Begins(s, p) == Chip(s, "start", {0}) /\ Starts(s, p) /\ s.sbx = s.single
InReq(s, p) ==
  Chip(s, "in req", {0}) /\ Vacant(s, p) /\ Untold(s, p) /\ Asking(s, 1) /\ TransferIn(s, p, 0)
InFull(s, p) ==
  /\ Chip(s, "in drq", {Off}) /\ Untold(s, p) /\ Asking(s, 1) /\ TransferIn(s, p, 0)
  /\ SamePhase(s) /\ s.full /\ s.cmd = "info"
  /\ (s.phase = DataIn => s.byte = s.pos)
  /\ IF s.dma THEN s.dreq ELSE s.dreq = FALSE /\ p.left > 0
InEmpty(s, p) ==
  /\ Chip(s, "in drq", {0}) /\ Vacant(s, p) /\ Untold(s, p) /\ Asking(s, 0)
  /\ TransferIn(s, p, 1) /\ SamePhase(s)
InAck(s, p) ==
  /\ Chip(s, "in ack", {0}) /\ Vacant(s, p) /\ Untold(s, p) /\ Holding(s) /\ s.nData = 0
  /\ TransferIn(s, p, 1) /\ SamePhase(s)
OutReq(s, p) ==
  /\ Chip(s, "out req", {0}) /\ Vacant(s, p) /\ Untold(s, p) /\ Asking(s, 1)
  /\ TransferOut(s, p, 0) /\ (s.dma => ~s.full)
  /\ s.cmd = "pad" /\ ~s.dma => p.left + One(s.full) = 1
OutWaits(s, p) ==
  /\ Chip(s, "out drq", {Off}) /\ Untold(s, p) /\ Asking(s, 1) /\ TransferOut(s, p, 0)
  /\ SamePhase(s) /\ ~s.full
  /\ IF s.dma THEN s.dreq ELSE s.dreq = FALSE /\ p.left > 0
OutFull(s, p) ==
  /\ Chip(s, "out drq", {0}) /\ Vacant(s, p) /\ Untold(s, p) /\ Asking(s, 1)
  /\ TransferOut(s, p, 0) /\ SamePhase(s)
  /\ s.cmd = "info" => s.full
OutAck(s, p) ==
  /\ Chip(s, "out ack", {0}) /\ Vacant(s, p) /\ Untold(s, p) /\ Holding(s)
  /\ TransferOut(s, p, 1) /\ SamePhase(s)
  /\ (s.dma => ~s.full)
OutPad(s, p) ==
  /\ Chip(s, "out pad", {0}) /\ Vacant(s, p) /\ Untold(s, p) /\ Asking(s, 1)
  /\ TransferOut(s, p, 0) /\ s.cmd = "pad"

(* And while it is not: idle, with a selection loaded, in arbitration, and   *)
(* waiting for the target, which answers its own number and no other.        *)
Own(s) == IF s.dest THEN WithTarget ELSE OwnId
Selects(s, p, state, lines) ==
  /\ Chip(s, state, {0}) /\ s.nLines = lines /\ Vacant(s, p) /\ Untold(s, p)
  /\ s.got = 0 /\ s.taken = 0 /\ s.cmd \in {"select", "select with ATN"}
Idles(s, p) ==
  Chip(s, "idle", {Off}) /\ s.nLines = {} /\ AtRest(s, "idle", {}) /\ Vacant(s, p)
Chosen(s, p) ==
  /\ s.state = "idle" /\ s.loaded = TRUE /\ s.timer \in 0 .. 2 /\ s.nLines = {}
  /\ AtRest(s, "idle", {}) /\ Vacant(s, p) /\ Untold(s, p)
  /\ s.got = 0 /\ s.taken = 0 /\ s.cmd \in {"select", "select with ATN"}
Arbitrates(s, p) ==
  /\ AtRest(s, "idle", {})
  /\ \/ \E state \in {"arbitrate", "started"} : Selects(s, p, state, {})
     \/ /\ \E state \in {"evaluate", "selection"} : Selects(s, p, state, {"BSY"})
        /\ s.nData = OwnId
     \/ Selects(s, p, "delay", {"BSY", "SEL"}) /\ s.nData = Own(s)
Awaits(s, p) ==
  /\ \E lines \in {{"SEL"}, {"ATN", "SEL"}} :
       \E state \in {"wait busy", "complete"} : Selects(s, p, state, lines)
  /\ s.nData = Own(s)
  /\ IF s.dest THEN AtRest(s, "selected", {"BSY"})
     ELSE s.state = "wait busy" /\ AtRest(s, "idle", {})

Connected(s, p) ==
  /\ s.chip = "initiator"
  /\ \/ Resting(s, p) \/ WaitsReq(s, p) \/ CommandLoaded(s, p) \/ Begins(s, p)
     \/ InReq(s, p) \/ InFull(s, p) \/ InEmpty(s, p) \/ InAck(s, p)
     \/ OutReq(s, p) \/ OutWaits(s, p) \/ OutFull(s, p) \/ OutAck(s, p) \/ OutPad(s, p)
Unconnected(s, p) ==
  /\ s.chip = "disconnected"
  /\ Idles(s, p) \/ Chosen(s, p) \/ Arbitrates(s, p) \/ Awaits(s, p)

(* What a cause in the chip's register says about the bus, and what the      *)
(* program still knows of it after it has read the register.                 *)
Ready(s) == s.chip = "initiator" /\ s.state = "idle" /\ s.loaded = FALSE /\ Asks(s)
Idle(s) == s.chip = "disconnected" /\ s.state = "idle" /\ s.loaded = FALSE
Knows(s, p) ==
  /\ s.mint = (s.int # {})
  /\ s.int \in {{}, {"service"}, {"complete"}, {"invalid"}, {"disconnected"}}
  /\ p.at # "wait" => ~s.active
  /\ s.active => s.write = p.in
  /\ s.int \in {{"service"}, {"invalid"}} => Ready(s)
  /\ s.int = {"disconnected"} => Idle(s)
  /\ p.at = "decide" =>
       /\ s.int \in {{}, {"service"}}
       /\ p.seen = {"service"} => Ready(s) /\ s.int = {} /\ s.intNcr = FALSE
       /\ "disconnected" \in p.seen => Idle(s) /\ s.int = {} /\ s.intNcr = FALSE
       /\ "invalid" \in p.seen => Ready(s)
  /\ p.at = "idle" => Idle(s) /\ s.int = {} /\ s.intNcr = FALSE
  /\ p.at \in {"go", "wait", "decide", "idle"}

(* A program that has not given up, and one that has: then the chip is idle  *)
(* and nothing is due, until it has reset the bus and read the causes.       *)
Normal(s, p) ==
  /\ s.dataReq = s.dreq /\ s.stall = FALSE /\ Knows(s, p)
  /\ Connected(s, p) \/ Unconnected(s, p)
Broken(s, p) ==
  /\ s.state = "idle" /\ s.loaded = FALSE /\ s.timer = Off
  /\ s.dreq = FALSE /\ s.dataReq = FALSE /\ s.stall = FALSE
  /\ p.in => ~s.full
  /\ s.active => s.write = p.in
  /\ s.chip \in {"initiator", "disconnected"}
  /\ \/ /\ p.at = "drain" /\ s.chip = "disconnected" /\ ~s.active /\ s.nLines = {}
        /\ AtRest(s, "idle", {})
     \/ /\ p.at = "recover"
        /\ \/ Handshake(s) /\ Asks(s) /\ s.nLines \subseteq {"ATN"}
           \/ s.chip = "disconnected" /\ Handshake(s) /\ ~Asks(s) /\ s.nLines = {"ACK"}
           \/ /\ s.chip = "disconnected" /\ AtRest(s, "idle", {})
              /\ s.nLines \subseteq {"BSY", "SEL", "ATN"}
           \/ /\ s.chip = "disconnected" /\ AtRest(s, "selected", {"BSY"})
              /\ s.nLines \subseteq {"SEL", "ATN"}

(* The inductive invariant. *)
Shaped(p) == DOMAIN p = {"at", "seen", "left", "in"}
Lock(s, p) == Typed(s) /\ Drives(p) /\ Shaped(p) /\ (Normal(s, p) \/ Broken(s, p))
LockInv == Lock(scsi, prog)

(* A call changes no fields but F. Such calls follow one another. *)
Others(s, t, F) == DOMAIN t = DOMAIN s /\ \A f \in DOMAIN s \ F : t[f] = s[f]

(* Two calls one after the other change the fields of both. *)
LEMMA OthersOn ==
  ASSUME NEW s, NEW t, NEW u, NEW F, NEW G, Others(s, t, F), Others(t, u, G)
  PROVE  Others(s, u, F \cup G)
  BY DEF Others

(* The target lines without BSY and phases *)

(* The chip's timer is as it was, or it has been set off: NcrCtrlChanged()   *)
(* does so for a chip that is not idle.                                      *)
Woken(s, t) == t.timer = s.timer \/ (t.timer = 0 /\ s.state # "idle")

(* Two calls that may set off the timer. *)
LEMMA WokenOn ==
  ASSUME NEW s, NEW t, NEW u, Woken(s, t), Woken(t, u), t.state = s.state
  PROVE  Woken(s, u)
  BY DEF Woken

(* The chip's handler of a control line changes nothing but its timer while  *)
(* BSY is up: a bus that is not free disconnects nobody.                     *)
LEMMA ChipWakes ==
  ASSUME NEW s, HasFields(s), "BSY" \in Ctrl(s), NEW t, t = NcrCtrlChanged(s)
  PROVE  Others(s, t, {"timer"}) /\ Woken(s, t)
  BY DEF HasFields, Fields, Others, Woken, NcrCtrlChanged

(* The target's write of its lines with BSY left up: the lines are what it   *)
(* wrote and the chip is at most woken.                                      *)
LEMMA LinesWritten ==
  ASSUME NEW s, Wires(s), NEW on, NEW off, "BSY" \in (s.tLines \ off) \cup on,
         on \subseteq TargetLines, NEW t, t = TargetWrite(s, on, off)
  PROVE  /\ t.tLines = (s.tLines \ off) \cup on /\ Others(s, t, {"tLines", "timer"})
         /\ Woken(s, t) /\ Wires(t)
<1>1. PICK w : w = [s EXCEPT !.tLines = (@ \ off) \cup on]
  OBVIOUS
<1>2. HasFields(w) /\ Others(s, w, {"tLines"}) /\ w.tLines = (s.tLines \ off) \cup on
  BY <1>1 DEF Wires, HasFields, Fields, Others
<1>3. "BSY" \in Ctrl(w) /\ w.timer = s.timer /\ w.state = s.state
  BY <1>2 DEF Ctrl, Others, Wires, HasFields, Fields
<1>4. PICK u : u = NcrCtrlChanged(w)
  OBVIOUS
<1>5. Others(w, u, {"timer"}) /\ Woken(w, u)
  BY <1>2, <1>3, <1>4, ChipWakes
<1>6. Others(s, u, {"tLines", "timer"}) /\ u.tLines = w.tLines /\ Woken(s, u)
  BY <1>2, <1>3, <1>5 DEF Others, Woken, HasFields, Fields
<1>7. t \in {w, u}
  BY <1>1, <1>4 DEF TargetWrite
<1>8. /\ Others(s, t, {"tLines", "timer"}) /\ Woken(s, t) /\ t.tLines = (s.tLines \ off) \cup on
  BY <1>2, <1>3, <1>6, <1>7 DEF Others, Woken
<1>9. Wires(t)
  <2>1. HasFields(t) /\ t.nLines = s.nLines
    BY <1>8 DEF Others, Wires, HasFields, Fields
  <2> QED
    BY <1>8, <2>1 DEF Wires
<1> QED
  BY <1>8, <1>9

(* The same for the phase lines alone. *)
LEMMA PhaseSet ==
  ASSUME NEW s, Wires(s), "BSY" \in s.tLines, NEW phase, phase \subseteq PhaseLines,
         NEW t, t = SetPhase(s, phase)
  PROVE  /\ t.tLines = (s.tLines \ PhaseLines) \cup phase /\ Others(s, t, {"tLines", "timer"})
         /\ Woken(s, t) /\ Wires(t)
<1>1. "BSY" \in (s.tLines \ PhaseLines) \cup phase
  BY DEF PhaseLines
<1>2. phase \subseteq TargetLines
  BY DEF TargetLines
<1> QED
  BY <1>1, <1>2, LinesWritten DEF SetPhase

(* A target between two bytes of a connection: BSY and a phase are up, and   *)
(* the chip has no byte.                                                     *)
Prompt(s) ==
  /\ Wires(s) /\ s.sub = "none" /\ s.tLines \ PhaseLines = {"BSY"}
  /\ s.tWait \cup {"ACK"} = AllWaits
  /\ s.nLines \subseteq {"ATN"} /\ s.tTimer = FALSE /\ s.tData = 0

(* The fields that a call of the target changes; the chip is at most woken. *)
TargetParts == {"target", "sub", "queue", "pos", "size", "tTimer", "tWait", "tLines", "tData",
  "timer"}
Called(s, t) == Others(s, t, TargetParts) /\ Woken(s, t)

(* A call after which the target asks for the next byte. *)
Requests(s, t) == Called(s, t) /\ Handshake(t) /\ Asks(t) /\ Wires(t)

(* Two calls of the target. *)
LEMMA CalledOn ==
  ASSUME NEW s, NEW t, NEW u, Called(s, t), Called(t, u), HasFields(s)
  PROVE  Called(s, u)
<1>1. t.state = s.state
  BY DEF Called, Others, TargetParts, HasFields, Fields
<1> QED
  BY <1>1, OthersOn, WokenOn DEF Called

(* scsi_target's receive of a byte raises REQ and waits for ACK. *)
LEMMA AsksToReceive ==
  ASSUME NEW s, Prompt(s), NEW t, t = RecvByte(s)
  PROVE  /\ t.sub = "recv1" /\ t.tWait = AllWaits /\ t.tLines = s.tLines \cup {"REQ"}
         /\ Others(s, t, {"sub", "tWait", "tLines", "timer"}) /\ Woken(s, t) /\ Wires(t)
<1>1. PICK u : u = [s EXCEPT !.tWait = @ \cup {"ACK"}, !.sub = "recv1"]
  OBVIOUS
<1>2. /\ Others(s, u, {"tWait", "sub"}) /\ u.tWait = AllWaits /\ u.sub = "recv1" /\ Wires(u)
      /\ Woken(s, u) /\ u.tLines = s.tLines /\ "BSY" \in u.tLines /\ u.state = s.state
  BY <1>1 DEF Prompt, Wires, HasFields, Fields, Others, Woken
<1>3. PICK w : w = TargetWrite(u, {"REQ"}, {})
  OBVIOUS
<1>4. /\ w.tLines = (u.tLines \ {}) \cup {"REQ"} /\ Others(u, w, {"tLines", "timer"})
      /\ Woken(u, w) /\ Wires(w)
  BY <1>2, <1>3, LinesWritten DEF TargetLines
<1>5. "ACK" \notin Ctrl(w)
  BY <1>2, <1>4 DEF Ctrl, Others, Wires, HasFields, Fields, Prompt, TargetLines, PhaseLines
<1>6. t = w
  BY <1>1, <1>3, <1>5 DEF RecvByte, Acknowledged
<1>7. w.sub = "recv1" /\ w.tWait = AllWaits
  BY <1>2, <1>4 DEF Others, Wires, HasFields, Fields
<1>8. Others(s, w, {"tWait", "sub"} \cup {"tLines", "timer"})
  BY <1>2, <1>4, OthersOn
<1>9. Woken(s, w)
  BY <1>2, <1>4, WokenOn
<1> QED
  BY <1>2, <1>4, <1>6, <1>7, <1>8, <1>9

(* Its sending of a byte puts the byte on the data lines and raises REQ. *)
LEMMA AsksToSend ==
  ASSUME NEW s, Prompt(s), NEW v, NEW t, t = SendByte(s, v)
  PROVE  /\ t.sub = "send1" /\ t.tWait = AllWaits /\ t.tLines = s.tLines \cup {"REQ"} /\ t.tData = v
         /\ Others(s, t, {"sub", "tWait", "tLines", "tData", "timer"}) /\ Woken(s, t) /\ Wires(t)
<1>1. PICK u : u = [s EXCEPT !.tWait = @ \cup {"ACK"}, !.sub = "send1", !.tData = v]
  OBVIOUS
<1>2. /\ Others(s, u, {"tWait", "sub", "tData"}) /\ u.tWait = AllWaits /\ u.sub = "send1"
      /\ Wires(u)
      /\ u.tData = v /\ Woken(s, u) /\ u.tLines = s.tLines /\ "BSY" \in u.tLines
      /\ u.state = s.state
  BY <1>1 DEF Prompt, Wires, HasFields, Fields, Others, Woken
<1>3. PICK w : w = TargetWrite(u, {"REQ"}, {})
  OBVIOUS
<1>4. /\ w.tLines = (u.tLines \ {}) \cup {"REQ"} /\ Others(u, w, {"tLines", "timer"})
      /\ Woken(u, w) /\ Wires(w)
  BY <1>2, <1>3, LinesWritten DEF TargetLines
<1>5. "ACK" \notin Ctrl(w)
  BY <1>2, <1>4 DEF Ctrl, Others, Wires, HasFields, Fields, Prompt, TargetLines, PhaseLines
<1>6. t = w
  BY <1>1, <1>3, <1>5 DEF SendByte, Acknowledged
<1>7. w.sub = "send1" /\ w.tWait = AllWaits /\ w.tData = v
  BY <1>2, <1>4 DEF Others, Wires, HasFields, Fields
<1>8. Others(s, w, {"tWait", "sub", "tData"} \cup {"tLines", "timer"})
  BY <1>2, <1>4, OthersOn
<1>9. Woken(s, w)
  BY <1>2, <1>4, WokenOn
<1> QED
  BY <1>2, <1>4, <1>6, <1>7, <1>8, <1>9

(* The chip never drives the phase lines: the phase is the target's. *)
LEMMA PhaseIs ==
  ASSUME NEW s, Wires(s)
  PROVE  Phase(s) = s.tLines \cap PhaseLines
  BY DEF Phase, Ctrl, Wires, ChipLines, PhaseLines

(* REQ is no part of the phase. *)
LEMMA PhaseStays ==
  ASSUME NEW s, NEW t, Wires(s), Wires(t), t.tLines = s.tLines \cup {"REQ"}
  PROVE  Phase(t) = Phase(s)
<1>1. Phase(s) = s.tLines \cap PhaseLines /\ Phase(t) = t.tLines \cap PhaseLines
  BY PhaseIs
<1>2. "REQ" \notin PhaseLines
  BY DEF PhaseLines
<1> QED
  BY <1>1, <1>2

(* A target with data left sends the next byte; after the last one it goes   *)
(* on with the next control entry.                                           *)
LEMMA DataInAsks ==
  ASSUME NEW s, Prompt(s), s.target = "in", s.queue = Complete, Reads(s), Phase(s) = DataIn,
         s.size = Size(s), s.size \in Nat, s.pos \in Nat, s.pos < s.size, NEW t, t = DataByte(s)
  PROVE  Requests(s, t) /\ InData(t) /\ t.pos = s.pos + 1
<1>1. PICK u : u = [s EXCEPT !.target = IF s.pos = s.size - 1 THEN "next" ELSE @]
  OBVIOUS
<1>2. PICK v : v = [u EXCEPT !.pos = @ + 1]
  OBVIOUS
<1>3. HasFields(s)
  BY DEF Prompt, Wires
<1>4. /\ Others(s, u, {"target"}) /\ u.target = (IF s.pos = s.size - 1 THEN "next" ELSE "in")
      /\ Others(u, v, {"pos"}) /\ v.pos = s.pos + 1
  BY <1>1, <1>2, <1>3 DEF Others, HasFields, Fields
<1>5. /\ Others(s, v, {"target", "pos"}) /\ v.target = (IF s.pos = s.size - 1 THEN "next" ELSE "in")
      /\ v.pos = s.pos + 1
  BY <1>3, <1>4 DEF Others, HasFields, Fields
<1>6. Prompt(v) /\ v.tLines = s.tLines /\ v.queue = s.queue /\ v.size = s.size /\ v.plan = s.plan
      /\ v.timer = s.timer /\ v.state = s.state
  BY <1>3, <1>5 DEF Others, HasFields, Fields, Prompt, Wires
<1>7. t = SendByte(v, s.pos + 1)
  BY <1>1, <1>2 DEF DataByte
<1>8. /\ t.sub = "send1" /\ t.tWait = AllWaits /\ t.tLines = v.tLines \cup {"REQ"}
      /\ t.tData = s.pos + 1 /\ Others(v, t, {"sub", "tWait", "tLines", "tData", "timer"})
      /\ Woken(v, t) /\ Wires(t)
  BY <1>6, <1>7, AsksToSend
<1>9. /\ t.target = v.target /\ t.queue = v.queue /\ t.size = v.size /\ t.plan = v.plan
      /\ t.pos = v.pos /\ t.tTimer = v.tTimer /\ t.state = v.state
  BY <1>3, <1>5, <1>8 DEF Others, HasFields, Fields
<1>10. Called(s, t)
  <2>1. Others(s, t, TargetParts)
    BY <1>5, <1>8 DEF Others, TargetParts
  <2>2. Woken(s, t)
    BY <1>6, <1>8 DEF Woken
  <2> QED
    BY <2>1, <2>2 DEF Called
<1>11. Phase(t) = DataIn
  BY <1>6, <1>8, PhaseStays DEF Prompt
<1>12. InData(t)
  BY <1>5, <1>6, <1>8, <1>9, <1>11 DEF InData, Stands, Asks, Sends, Reads, Size
<1>13. Handshake(t)
  BY <1>6, <1>8, <1>9, <1>12 DEF Handshake, Asks, Prompt, PhaseLines
<1> QED
  BY <1>5, <1>8, <1>9, <1>10, <1>12, <1>13 DEF Requests, Asks

(* A target that expects data asks for the next byte. *)
LEMMA DataOutAsks ==
  ASSUME NEW s, Prompt(s), s.target = "out", s.queue = Complete, Writes(s), Phase(s) = DataOut,
         s.size = Size(s), s.size \in Nat, s.pos \in Nat, s.pos < s.size, NEW t, t = DataByte(s)
  PROVE  Requests(s, t) /\ OutData(t) /\ t.pos = s.pos
<1>1. PICK u : u = [s EXCEPT !.target = IF s.pos = s.size - 1 THEN "next" ELSE @]
  OBVIOUS
<1>2. HasFields(s)
  BY DEF Prompt, Wires
<1>3. Others(s, u, {"target"}) /\ u.target = (IF s.pos = s.size - 1 THEN "next" ELSE "out")
  BY <1>1, <1>2 DEF Others, HasFields, Fields
<1>4. /\ Prompt(u) /\ u.tLines = s.tLines /\ u.queue = s.queue /\ u.size = s.size /\ u.plan = s.plan
      /\ u.timer = s.timer /\ u.state = s.state /\ u.pos = s.pos
  BY <1>2, <1>3 DEF Others, HasFields, Fields, Prompt, Wires
<1>5. t = RecvByte(u)
  BY <1>1 DEF DataByte
<1>6. /\ t.sub = "recv1" /\ t.tWait = AllWaits /\ t.tLines = u.tLines \cup {"REQ"}
      /\ Others(u, t, {"sub", "tWait", "tLines", "timer"}) /\ Woken(u, t) /\ Wires(t)
  BY <1>4, <1>5, AsksToReceive
<1>7. /\ t.target = u.target /\ t.queue = u.queue /\ t.size = u.size /\ t.plan = u.plan
      /\ t.pos = u.pos /\ t.tTimer = u.tTimer /\ t.tData = u.tData
  BY <1>2, <1>3, <1>6 DEF Others, HasFields, Fields
<1>8. Called(s, t)
  <2>1. Others(s, t, TargetParts)
    BY <1>3, <1>6 DEF Others, TargetParts
  <2>2. Woken(s, t)
    BY <1>4, <1>6 DEF Woken
  <2> QED
    BY <2>1, <2>2 DEF Called
<1>9. Phase(t) = DataOut
  BY <1>4, <1>6, PhaseStays DEF Prompt
<1>10. OutData(t)
  BY <1>3, <1>4, <1>6, <1>7, <1>9 DEF OutData, Stands, Asks, Sends, Writes, Size, Asked
<1>11. Handshake(t)
  BY <1>4, <1>6, <1>7, <1>10 DEF Handshake, Asks, Prompt, PhaseLines
<1> QED
  BY <1>4, <1>6, <1>7, <1>8, <1>10, <1>11 DEF Requests, Asks

(* A change of the phase between two bytes. *)
LEMMA InPhase ==
  ASSUME NEW s, Prompt(s), NEW phase, phase \subseteq PhaseLines, NEW t, t = SetPhase(s, phase)
  PROVE  Prompt(t) /\ Phase(t) = phase /\ Others(s, t, {"tLines", "timer"}) /\ Woken(s, t)
<1>1. "BSY" \in s.tLines /\ Wires(s)
  BY DEF Prompt
<1>2. /\ t.tLines = (s.tLines \ PhaseLines) \cup phase /\ Others(s, t, {"tLines", "timer"})
      /\ Woken(s, t) /\ Wires(t)
  BY <1>1, PhaseSet
<1>3. t.tLines \ PhaseLines = {"BSY"} /\ t.tLines \cap PhaseLines = phase
  BY <1>2 DEF Prompt, PhaseLines
<1>4. /\ t.sub = s.sub /\ t.tWait = s.tWait /\ t.nLines = s.nLines /\ t.tTimer = s.tTimer
      /\ t.tData = s.tData
  BY <1>1, <1>2 DEF Others, Wires, HasFields, Fields
<1> QED
  BY <1>2, <1>3, <1>4, PhaseIs DEF Prompt

(* The phases are sets of phase lines. *)
LEMMA PhaseNames ==
  /\ DataOut \subseteq PhaseLines /\ DataIn \subseteq PhaseLines /\ Command \subseteq PhaseLines
  /\ Status \subseteq PhaseLines /\ MessageOut \subseteq PhaseLines
  /\ MessageIn \subseteq PhaseLines
  BY DEF DataOut, DataIn, Command, Status, MessageOut, MessageIn, PhaseLines

(* Change of phase, and a byte asked for in it. *)
LEMMA ReceivedIn ==
  ASSUME NEW s, Prompt(s), NEW phase, phase \subseteq PhaseLines,
         NEW t, t = RecvByte(SetPhase(s, phase))
  PROVE  /\ t.sub = "recv1" /\ t.tWait = AllWaits /\ t.tLines \ PhaseLines = {"BSY", "REQ"}
         /\ Wires(t)
         /\ Phase(t) = phase /\ Others(s, t, {"sub", "tWait", "tLines", "timer"}) /\ Woken(s, t)
<1>1. PICK p : p = SetPhase(s, phase)
  OBVIOUS
<1>2. Prompt(p) /\ Phase(p) = phase /\ Others(s, p, {"tLines", "timer"}) /\ Woken(s, p)
  BY <1>1, InPhase
<1>3. /\ t.sub = "recv1" /\ t.tWait = AllWaits /\ t.tLines = p.tLines \cup {"REQ"}
      /\ Others(p, t, {"sub", "tWait", "tLines", "timer"}) /\ Woken(p, t) /\ Wires(t)
  BY <1>1, <1>2, AsksToReceive
<1>4. Phase(t) = phase
  BY <1>2, <1>3, PhaseStays DEF Prompt
<1>5. t.tLines \ PhaseLines = {"BSY", "REQ"}
  BY <1>2, <1>3 DEF Prompt, PhaseLines
<1>6. p.state = s.state
  BY <1>2 DEF Prompt, Wires, HasFields, Fields, Others
<1>7. Others(s, t, {"sub", "tWait", "tLines", "timer"})
  BY <1>2, <1>3 DEF Others
<1>8. Woken(s, t)
  BY <1>2, <1>3, <1>6, WokenOn
<1> QED
  BY <1>3, <1>4, <1>5, <1>7, <1>8

(* Change of phase, and a byte sent in it. *)
LEMMA SentIn ==
  ASSUME NEW s, Prompt(s), NEW phase, phase \subseteq PhaseLines, NEW v,
         NEW t, t = SendByte(SetPhase(s, phase), v)
  PROVE  /\ t.sub = "send1" /\ t.tWait = AllWaits /\ t.tLines \ PhaseLines = {"BSY", "REQ"}
         /\ Wires(t)
         /\ Phase(t) = phase /\ Others(s, t, {"sub", "tWait", "tLines", "tData", "timer"})
         /\ Woken(s, t)
<1>1. PICK p : p = SetPhase(s, phase)
  OBVIOUS
<1>2. Prompt(p) /\ Phase(p) = phase /\ Others(s, p, {"tLines", "timer"}) /\ Woken(s, p)
  BY <1>1, InPhase
<1>3. /\ t.sub = "send1" /\ t.tWait = AllWaits /\ t.tLines = p.tLines \cup {"REQ"}
      /\ Others(p, t, {"sub", "tWait", "tLines", "tData", "timer"}) /\ Woken(p, t) /\ Wires(t)
  BY <1>1, <1>2, AsksToSend
<1>4. Phase(t) = phase
  BY <1>2, <1>3, PhaseStays DEF Prompt
<1>5. t.tLines \ PhaseLines = {"BSY", "REQ"}
  BY <1>2, <1>3 DEF Prompt, PhaseLines
<1>6. p.state = s.state
  BY <1>2 DEF Prompt, Wires, HasFields, Fields, Others
<1>7. Others(s, t, {"sub", "tWait", "tLines", "tData", "timer"})
  BY <1>2, <1>3 DEF Others
<1>8. Woken(s, t)
  BY <1>2, <1>3, <1>6, WokenOn
<1> QED
  BY <1>3, <1>4, <1>5, <1>7, <1>8

(* The command entry asks for a message if ATN is up, and for the first byte *)
(* of the command otherwise.                                                 *)
LEMMA CommandAsks ==
  ASSUME NEW s, Prompt(s), s.queue = <<Entry("command")>>, NEW t, t = ControlEntry(s)
  PROVE  Requests(s, t) /\ (InMessage(t) \/ InCommand(t))
<1>1. PICK q : q = [s EXCEPT !.queue = Tail(@)]
  OBVIOUS
<1>2. PICK m, c : /\ m = [q EXCEPT !.pos = 0, !.target = "msg"]
                  /\ c = [q EXCEPT !.pos = 0, !.target = "cmd"]
  OBVIOUS
<1>3. HasFields(s)
  BY DEF Prompt, Wires
<1>4. q.queue = <<>> /\ Others(s, q, {"queue"})
  BY <1>1, <1>3, EntriesFollow DEF Others, HasFields, Fields
<1>5. /\ Others(s, m, {"queue", "pos", "target"}) /\ m.queue = <<>> /\ m.target = "msg"
      /\ Others(s, c, {"queue", "pos", "target"}) /\ c.queue = <<>> /\ c.target = "cmd"
  BY <1>2, <1>3, <1>4 DEF Others, HasFields, Fields
<1>6. /\ Prompt(m) /\ m.timer = s.timer /\ m.state = s.state /\ m.nLines = s.nLines
      /\ Prompt(c) /\ c.timer = s.timer /\ c.state = s.state /\ c.nLines = s.nLines
  BY <1>3, <1>5 DEF Prompt, Wires, Others, HasFields, Fields
<1>7. t = IF "ATN" \in Ctrl(s) THEN RecvByte(SetPhase(m, MessageOut))
     ELSE RecvByte(SetPhase(c, Command))
  BY <1>1, <1>2, EntriesFollow DEF ControlEntry
<1>8. CASE "ATN" \in Ctrl(s)
  <2>1. /\ t.sub = "recv1" /\ t.tWait = AllWaits /\ t.tLines \ PhaseLines = {"BSY", "REQ"}
        /\ Wires(t)
        /\ Phase(t) = MessageOut /\ Others(m, t, {"sub", "tWait", "tLines", "timer"}) /\ Woken(m, t)
    BY <1>6, <1>7, <1>8, ReceivedIn, PhaseNames
  <2>2. t.target = "msg" /\ t.queue = <<>> /\ t.tTimer = FALSE /\ t.tData = 0
    BY <1>3, <1>5, <1>6, <2>1 DEF Others, HasFields, Fields, Prompt
  <2>3. InMessage(t)
    BY <2>1, <2>2 DEF InMessage, Stands, Sends
  <2>4. Others(s, t, TargetParts)
    BY <1>5, <2>1 DEF Others, TargetParts
  <2>5. Woken(s, t)
    BY <1>6, <2>1 DEF Woken
  <2> QED
    BY <2>1, <2>2, <2>3, <2>4, <2>5 DEF Requests, Called, Handshake, Asks
<1>9. CASE "ATN" \notin Ctrl(s)
  <2>1. /\ t.sub = "recv1" /\ t.tWait = AllWaits /\ t.tLines \ PhaseLines = {"BSY", "REQ"}
        /\ Wires(t)
        /\ Phase(t) = Command /\ Others(c, t, {"sub", "tWait", "tLines", "timer"}) /\ Woken(c, t)
    BY <1>6, <1>7, <1>9, ReceivedIn, PhaseNames
  <2>2. /\ t.target = "cmd" /\ t.queue = <<>> /\ t.tTimer = FALSE /\ t.tData = 0
        /\ t.nLines = s.nLines
    BY <1>3, <1>5, <1>6, <2>1 DEF Others, HasFields, Fields, Prompt
  <2>3. InCommand(t)
    BY <1>9, <2>1, <2>2 DEF InCommand, Stands, Sends, Ctrl
  <2>4. Others(s, t, TargetParts)
    BY <1>5, <2>1 DEF Others, TargetParts
  <2>5. Woken(s, t)
    BY <1>6, <2>1 DEF Woken
  <2> QED
    BY <2>1, <2>2, <2>3, <2>4, <2>5 DEF Requests, Called, Handshake, Asks
<1> QED
  BY <1>8, <1>9

(* The status and message entries send their byte. *)
LEMMA StatusAsks ==
  ASSUME NEW s, Prompt(s), s.target = "next", s.queue \in {Complete, Message},
         NEW t, t = ControlEntry(s)
  PROVE  /\ Requests(s, t)
         /\ s.queue = Complete => InStatus(t)
         /\ s.queue = Message => InReply(t)
<1>1. PICK q : q = [s EXCEPT !.queue = Tail(@)]
  OBVIOUS
<1>2. HasFields(s)
  BY DEF Prompt, Wires
<1>3. q.queue = Tail(s.queue) /\ Others(s, q, {"queue"})
  BY <1>1, <1>2 DEF Others, HasFields, Fields
<1>4. Prompt(q) /\ q.timer = s.timer /\ q.state = s.state /\ q.target = s.target
  BY <1>2, <1>3 DEF Prompt, Wires, Others, HasFields, Fields
<1>5. PICK phase : phase = IF s.queue = Complete THEN Status ELSE MessageIn
  OBVIOUS
<1>6. t = SendByte(SetPhase(q, phase), 0)
  <2>1. CASE s.queue = Complete
    BY <1>1, <1>5, <2>1, EntriesFollow DEF ControlEntry
  <2>2. CASE s.queue = Message
    <3>1. s.queue # Complete
      BY <2>2 DEF Message, Complete
    <3> QED
      BY <1>1, <1>5, <2>2, <3>1, EntriesFollow DEF ControlEntry
  <2> QED
    BY <2>1, <2>2
<1>7. phase \subseteq PhaseLines
  BY <1>5, PhaseNames
<1>8. /\ t.sub = "send1" /\ t.tWait = AllWaits /\ t.tLines \ PhaseLines = {"BSY", "REQ"} /\ Wires(t)
      /\ Phase(t) = phase /\ Others(q, t, {"sub", "tWait", "tLines", "tData", "timer"})
      /\ Woken(q, t)
  BY <1>4, <1>6, <1>7, SentIn
<1>9. t.target = "next" /\ t.queue = Tail(s.queue) /\ t.tTimer = FALSE
  BY <1>2, <1>3, <1>4, <1>8 DEF Others, HasFields, Fields, Prompt
<1>10. /\ s.queue = Complete => InStatus(t)
       /\ s.queue = Message => InReply(t)
  <2>1. Complete # Message
    BY DEF Complete, Message
  <2> QED
    BY <1>5, <1>8, <1>9, <2>1, EntriesFollow DEF InStatus, InReply, Stands, Sends
<1>11. Others(s, t, TargetParts)
  BY <1>3, <1>8 DEF Others, TargetParts
<1>12. Woken(s, t)
  BY <1>4, <1>8 DEF Woken
<1> QED
  BY <1>8, <1>9, <1>10, <1>11, <1>12 DEF Requests, Called, Handshake, Asks

(* The fields that the chip's interrupts change; a disconnection tells the   *)
(* program so.                                                               *)
IntParts == {"chip", "int", "mint", "intNcr", "single", "dma"}
Disconnects(s, t) ==
  /\ t.chip = "disconnected" /\ t.int = s.int \cup {"disconnected"} /\ t.mint = TRUE
  /\ s.mint = FALSE => t.intNcr = TRUE

(* A cause comes into the register; a line that rises with it reaches the    *)
(* adapter and makes the chip forget the flags of the command.               *)
Notified(s, t, cause) ==
  /\ Others(s, t, {"int", "mint", "intNcr", "single", "dma"})
  /\ t.int = s.int \cup {cause} /\ t.mint = TRUE
  /\ s.mint = FALSE => t.intNcr = TRUE /\ t.single = FALSE /\ t.dma = FALSE
  /\ s.mint = TRUE => t.intNcr = s.intNcr

(* Interrupt() adds a cause and lets the line follow. *)
LEMMA Interrupted ==
  ASSUME NEW s, HasFields(s), NEW cause, NEW t, t = Interrupt(s, cause)
  PROVE  Notified(s, t, cause)
<1>1. PICK u : u = [s EXCEPT !.int = @ \cup {cause}]
  OBVIOUS
<1>2. u.int = s.int \cup {cause} /\ u.int # {} /\ Others(s, u, {"int"}) /\ u.mint = s.mint
  BY <1>1 DEF Others, HasFields, Fields
<1>3. t = UpdateInt(u)
  BY <1>1 DEF Interrupt
<1>4. PICK v : v = [u EXCEPT !.mint = TRUE, !.intNcr = @ \/ TRUE, !.single = @ /\ ~TRUE,
     !.dma = @ /\ ~TRUE]
  OBVIOUS
<1>5. t = IF u.mint = TRUE THEN u ELSE v
  BY <1>2, <1>3, <1>4 DEF UpdateInt
<1>6. /\ Others(u, v, {"mint", "intNcr", "single", "dma"}) /\ v.mint = TRUE /\ v.intNcr = TRUE
      /\ v.single = FALSE /\ v.dma = FALSE
  BY <1>2, <1>4 DEF Others, HasFields, Fields
<1> QED
  BY <1>2, <1>5, <1>6 DEF Others, HasFields, Fields, Notified

(* A target that drops all its lines frees the bus, and a chip that was *)
(* connected tells the program.                                         *)
LEMMA LinesDropped ==
  ASSUME NEW s, Wires(s), "BSY" \notin s.nLines,
         NEW t, t = TargetWrite(s, {}, {"BSY", "REQ"} \cup PhaseLines)
  PROVE  /\ t.tLines = {} /\ Others(s, t, {"tLines"} \cup IntParts)
         /\ s.chip = "initiator" /\ "BSY" \in s.tLines => Disconnects(s, t)
         /\ t.chip \in {s.chip, "disconnected"}
<1>1. PICK w : w = [s EXCEPT !.tLines = (@ \ ({"BSY", "REQ"} \cup PhaseLines)) \cup {}]
  OBVIOUS
<1>2. HasFields(w) /\ Others(s, w, {"tLines"}) /\ w.tLines = {}
  BY <1>1 DEF Wires, HasFields, Fields, Others, TargetLines
<1>3. "BSY" \notin Ctrl(w) /\ w.chip = s.chip /\ w.int = s.int /\ w.mint = s.mint
  BY <1>2 DEF Ctrl, Others, Wires, HasFields, Fields
<1>4. PICK x : x = [w EXCEPT !.chip = "disconnected"]
  OBVIOUS
<1>5. PICK u : u = Interrupt(x, "disconnected")
  OBVIOUS
<1>6. HasFields(x) /\ Others(w, x, {"chip"}) /\ x.chip = "disconnected" /\ x.int = w.int
     /\ x.mint = w.mint
  BY <1>2, <1>4 DEF HasFields, Fields, Others
<1>7. Notified(x, u, "disconnected")
  BY <1>5, <1>6, Interrupted
<1>8. /\ Others(x, u, {"int", "mint", "intNcr", "single", "dma"})
      /\ u.int = x.int \cup {"disconnected"} /\ u.mint = TRUE
      /\ x.mint = FALSE => u.intNcr = TRUE
  BY <1>7 DEF Notified
<1>9. t = IF Ctrl(w) = Ctrl(s) THEN w ELSE IF w.chip = "initiator" THEN u ELSE w
  BY <1>1, <1>3, <1>4, <1>5 DEF TargetWrite, NcrCtrlChanged
<1>10. u.tLines = {} /\ u.chip = "disconnected"
  BY <1>2, <1>6, <1>8 DEF Others, HasFields, Fields
<1>11. Others(s, u, {"tLines"} \cup IntParts)
  BY <1>2, <1>6, <1>8 DEF Others, IntParts
<1>12. Others(s, w, {"tLines"} \cup IntParts)
  BY <1>2 DEF Others
<1>13. "BSY" \in s.tLines => Ctrl(w) # Ctrl(s)
  BY <1>3 DEF Ctrl
<1>14. Disconnects(s, u)
  BY <1>3, <1>6, <1>8, <1>10 DEF Disconnects
<1> QED
  BY <1>2, <1>3, <1>9, <1>10, <1>11, <1>12, <1>13, <1>14

(* The end of a connection: target at rest, bus free, chip disconnected. *)
Freed(s, t) ==
  /\ AtRest(t, "idle", {}) /\ Others(s, t, TargetParts \cup IntParts) /\ t.timer = s.timer
  /\ s.chip = "initiator" => Disconnects(s, t)
  /\ t.chip \in {s.chip, "disconnected"}

(* The last control entry ends the connection. *)
LEMMA Ends ==
  ASSUME NEW s, Prompt(s), s.queue = Free, NEW t, t = ControlEntry(s)
  PROVE  Freed(s, t)
<1>1. PICK q : q = [s EXCEPT !.queue = Tail(@)]
  OBVIOUS
<1>2. PICK f : f = [q EXCEPT !.tData = 0, !.tWait = {"BSY", "SEL", "RST"}]
  OBVIOUS
<1>3. HasFields(s)
  BY DEF Prompt, Wires
<1>4. Others(s, f, {"queue", "tData", "tWait"}) /\ f.queue = <<>> /\ f.tData = 0 /\ f.tWait = Quiet
  BY <1>1, <1>2, <1>3, EntriesFollow DEF Others, HasFields, Fields, Quiet
<1>5. /\ Wires(f) /\ "BSY" \notin f.nLines /\ "BSY" \in f.tLines /\ f.chip = s.chip
      /\ f.timer = s.timer
      /\ f.int = s.int /\ f.mint = s.mint
  BY <1>3, <1>4 DEF Prompt, Wires, Others, HasFields, Fields
<1>6. PICK w : w = TargetWrite(f, {}, {"BSY", "REQ"} \cup PhaseLines)
  OBVIOUS
<1>7. /\ w.tLines = {} /\ Others(f, w, {"tLines"} \cup IntParts)
      /\ f.chip = "initiator" => Disconnects(f, w)
      /\ w.chip \in {f.chip, "disconnected"}
  BY <1>5, <1>6, LinesDropped
<1>8. t = [w EXCEPT !.target = "idle"]
  BY <1>1, <1>2, <1>6, EntriesFollow DEF ControlEntry
<1>9. Others(w, t, {"target"}) /\ t.target = "idle"
  BY <1>3, <1>4, <1>7, <1>8 DEF Others, HasFields, Fields
<1>10. Others(f, t, {"tLines", "target"} \cup IntParts)
  BY <1>7, <1>9 DEF Others
<1>11. AtRest(t, "idle", {})
  <2>1. t.tLines = w.tLines
    BY <1>3, <1>4, <1>7, <1>9 DEF Others, HasFields, Fields
  <2>2. t.queue = f.queue /\ t.tData = f.tData /\ t.tWait = f.tWait
    BY <1>3, <1>4, <1>10 DEF Others, HasFields, Fields, IntParts
  <2>3. t.sub = s.sub /\ t.tTimer = s.tTimer
    BY <1>3, <1>4, <1>10 DEF Others, HasFields, Fields, IntParts
  <2> QED
    BY <1>4, <1>7, <1>9, <2>1, <2>2, <2>3 DEF AtRest, Prompt
<1>12. Others(s, t, TargetParts \cup IntParts)
  BY <1>4, <1>10 DEF Others, TargetParts
<1>13. t.timer = s.timer
  BY <1>3, <1>5, <1>4, <1>10 DEF Others, HasFields, Fields, IntParts
<1>14. (s.chip = "initiator" => Disconnects(s, t)) /\ t.chip \in {s.chip, "disconnected"}
  <2>1. /\ t.chip = w.chip /\ t.int = w.int /\ t.mint = w.mint /\ t.intNcr = w.intNcr
    BY <1>3, <1>4, <1>7, <1>9 DEF Others, HasFields, Fields
  <2> QED
    BY <1>5, <1>7, <2>1 DEF Disconnects
<1> QED
  BY <1>11, <1>12, <1>13, <1>14 DEF Freed

(* After the command, the target goes on with the data of the command, from  *)
(* their first byte, or with the status.                                     *)
LEMMA PlanAsks ==
  ASSUME NEW s, Prompt(s), s.target = "next", s.plan \in Plans,
         s.queue = <<>> \o s.plan \o Complete, NEW t, t = NextControl(s)
  PROVE  /\ Requests(s, t)
         /\ \/ InStatus(t) /\ Size(t) = 0
            \/ InData(t) /\ t.pos = 1
            \/ OutData(t) /\ t.pos = 0
<1>1. HasFields(s)
  BY DEF Prompt, Wires
<1>2. CASE s.plan = <<>>
  <2>1. s.queue = Complete
    BY <1>2 DEF Complete
  <2>2. t = ControlEntry(s)
    BY <2>1, EntriesFollow DEF NextControl
  <2>3. Requests(s, t) /\ InStatus(t)
    BY <2>1, <2>2, StatusAsks
  <2>4. t.plan = s.plan
    BY <1>1, <2>3 DEF Requests, Called, Others, TargetParts, HasFields, Fields
  <2> QED
    BY <1>2, <2>3, <2>4 DEF Size
<1>3. ASSUME NEW a \in {"in", "out"}, NEW k \in 0 .. DataBytes, s.plan = <<[act |-> a, size |-> k]>>
      PROVE  /\ Requests(s, t)
             /\ \/ InStatus(t) /\ Size(t) = 0
                \/ InData(t) /\ t.pos = 1
                \/ OutData(t) /\ t.pos = 0
  <2>1. PICK e : e = [act |-> a, size |-> k]
    OBVIOUS
  <2>2. e.act = a /\ e.size = k
    BY <2>1
  <2>3. Head(s.queue) = e /\ Tail(s.queue) = Complete
    BY <1>3, <2>1, FourFollow DEF Complete
  <2>4. PICK r : r = [s EXCEPT !.queue = Tail(@)]
    OBVIOUS
  <2>5. Others(s, r, {"queue"}) /\ r.queue = Complete
    BY <1>1, <2>3, <2>4 DEF Others, HasFields, Fields
  <2>6. Prompt(r) /\ r.timer = s.timer /\ r.state = s.state /\ r.target = "next" /\ r.plan = s.plan
    BY <1>1, <2>5 DEF Prompt, Wires, Others, HasFields, Fields
  <2>7. PICK phase : phase = IF a = "in" THEN DataIn ELSE DataOut
    OBVIOUS
  <2>8. PICK p : p = SetPhase(r, phase)
    OBVIOUS
  <2>9. Prompt(p) /\ Phase(p) = phase /\ Others(r, p, {"tLines", "timer"}) /\ Woken(r, p)
    BY <2>6, <2>7, <2>8, InPhase, PhaseNames
  <2>10. PICK q, d, x : /\ q = [p EXCEPT !.size = e.size, !.pos = 0]
                        /\ d = [q EXCEPT !.target = a] /\ x = [q EXCEPT !.target = "next"]
    OBVIOUS
  <2>11. Others(s, p, {"queue", "tLines", "timer"}) /\ p.queue = Complete
    BY <1>1, <2>5, <2>9 DEF Others, HasFields, Fields
  <2>12. /\ Others(p, d, {"size", "pos", "target"}) /\ d.size = k /\ d.pos = 0 /\ d.target = a
         /\ Others(p, x, {"size", "pos", "target"}) /\ x.target = "next"
    BY <1>1, <2>2, <2>10, <2>11 DEF Others, HasFields, Fields
  <2>13. /\ Others(s, d, {"queue", "tLines", "timer", "size", "pos", "target"})
         /\ Others(s, x, {"queue", "tLines", "timer", "size", "pos", "target"})
    BY <2>11, <2>12 DEF Others
  <2>14. /\ d.sub = p.sub /\ d.tLines = p.tLines /\ d.tWait = p.tWait /\ d.nLines = p.nLines
         /\ d.tTimer = p.tTimer /\ d.tData = p.tData /\ d.queue = Complete /\ d.timer = p.timer
         /\ x.sub = p.sub /\ x.tLines = p.tLines /\ x.tWait = p.tWait /\ x.nLines = p.nLines
         /\ x.tTimer = p.tTimer /\ x.tData = p.tData /\ x.queue = Complete /\ x.timer = p.timer
    BY <1>1, <2>11, <2>12 DEF Others, HasFields, Fields
  <2>15. HasFields(d) /\ HasFields(x) /\ d.state = s.state /\ x.state = s.state
       /\ d.plan = s.plan /\ x.plan = s.plan
    BY <1>1, <2>13 DEF Others, HasFields, Fields
  <2>16. Prompt(d) /\ Prompt(x) /\ Phase(d) = phase
    BY <2>9, <2>14, <2>15 DEF Prompt, Wires, Phase, Ctrl
  <2>17. Woken(s, d) /\ Woken(s, x)
    BY <2>6, <2>9, <2>14 DEF Woken
  <2>18. Called(s, d) /\ Called(s, x)
    BY <2>13, <2>17 DEF Called, Others, TargetParts
  <2>19. t = IF k > 0 THEN DataByte(d) ELSE ControlEntry(x)
    BY <2>2, <2>3, <2>4, <2>7, <2>8, <2>10 DEF NextControl
  <2>20. Size(s) = k /\ (Reads(s) <=> a = "in") /\ (Writes(s) <=> a = "out")
    <3>1. s.plan = <<e>> /\ s.plan[1] = e /\ s.plan # <<>>
      BY <1>3, <2>1
    <3> QED
      BY <2>2, <3>1 DEF Size, Reads, Writes
  <2>21. Size(d) = k /\ (Reads(d) <=> a = "in") /\ (Writes(d) <=> a = "out") /\ Size(x) = k
    BY <2>15, <2>20 DEF Size, Reads, Writes
  <2>22. k \in Nat
    OBVIOUS
  <2>23. CASE k > 0 /\ a = "in"
    <3>1. Requests(d, t) /\ InData(t) /\ t.pos = 1
      <4>1. d.size = Size(d) /\ d.size \in Nat /\ d.pos \in Nat /\ d.pos < d.size /\ d.target = "in"
            /\ Reads(d) /\ Phase(d) = DataIn /\ t = DataByte(d)
        BY <2>7, <2>12, <2>16, <2>19, <2>21, <2>22, <2>23
      <4> QED
        BY <2>12, <2>14, <2>16, <4>1, DataInAsks
    <3> QED
      BY <1>1, <2>18, <3>1, CalledOn DEF Requests
  <2>24. CASE k > 0 /\ a = "out"
    <3>1. Requests(d, t) /\ OutData(t) /\ t.pos = 0
      <4>1. d.size = Size(d) /\ d.size \in Nat /\ d.pos \in Nat /\ d.pos < d.size
           /\ d.target = "out"
            /\ Writes(d) /\ Phase(d) = DataOut /\ t = DataByte(d)
        BY <2>7, <2>12, <2>16, <2>19, <2>21, <2>22, <2>24
      <4> QED
        BY <2>12, <2>14, <2>16, <4>1, DataOutAsks
    <3> QED
      BY <1>1, <2>18, <3>1, CalledOn DEF Requests
  <2>25. CASE k = 0
    <3>1. t = ControlEntry(x)
      BY <2>19, <2>25
    <3>2. Requests(x, t) /\ InStatus(t)
      BY <2>12, <2>14, <2>16, <3>1, StatusAsks
    <3>3. t.plan = x.plan
      BY <2>15, <3>2 DEF Requests, Called, Others, TargetParts, HasFields, Fields
    <3>4. Size(t) = 0
      BY <2>21, <2>25, <3>3 DEF Size
    <3> QED
      BY <1>1, <2>18, <3>2, <3>4, CalledOn DEF Requests
  <2> QED
    BY <2>22, <2>23, <2>24, <2>25
<1> QED
  BY <1>2, <1>3 DEF Plans

(* No two phases are the same. *)
LEMMA PhasesDiffer ==
  /\ DataIn \notin {DataOut, Command, Status, MessageOut, MessageIn}
  /\ DataOut \notin {DataIn, Command, Status, MessageOut, MessageIn}
  /\ Command \notin {DataIn, DataOut, Status, MessageOut, MessageIn}
  /\ Status \notin {DataIn, DataOut, Command, MessageOut, MessageIn}
  /\ MessageOut \notin {DataIn, DataOut, Command, Status, MessageIn}
  /\ MessageIn \notin {DataIn, DataOut, Command, Status, MessageOut}
<1>1. DataIn = {"IO"} /\ DataOut = {}
  BY DEF DataIn, DataOut
<1>2. Command = {"CD"} /\ Status = {"CD", "IO"}
  BY DEF Command, Status
<1>3. MessageOut = {"MSG", "CD"} /\ MessageIn = {"MSG", "CD", "IO"}
  BY DEF MessageOut, MessageIn
<1> QED
  BY <1>1, <1>2, <1>3

(* A target that holds a byte, its ACK gone. *)
AckReleased(s) ==
  Wires(s) /\ Handshake(s) /\ ~Asks(s) /\ s.nLines = {} /\ s.plan \in Plans

(* It goes on from there: between two bytes again. *)
Resumed(s, u) ==
  /\ Prompt(u) /\ Called(s, u) /\ u.nLines = {} /\ Phase(u) = Phase(s)
  /\ u.target = s.target /\ u.queue = s.queue /\ u.pos = s.pos /\ u.size = s.size /\ u.plan = s.plan
  /\ u.got = s.got /\ u.taken = s.taken

(* TargetStep() in that state goes on with its own state. *)
LEMMA Resumes ==
  ASSUME NEW s, AckReleased(s), NEW u, u = [s EXCEPT !.sub = "none", !.tWait = @ \ {"ACK"}]
  PROVE  Resumed(s, u) /\ TargetStep(s) = Proceeds(u)
<1>1. HasFields(s)
  BY DEF AckReleased, Wires
<1>2. Others(s, u, {"sub", "tWait"}) /\ u.sub = "none" /\ u.tWait = s.tWait \ {"ACK"}
  BY <1>1 DEF Others, HasFields, Fields
<1>3. /\ u.nLines = {} /\ u.tLines = s.tLines /\ u.target = s.target /\ u.queue = s.queue
      /\ u.pos = s.pos /\ u.size = s.size /\ u.plan = s.plan /\ u.got = s.got /\ u.taken = s.taken
      /\ u.tTimer = s.tTimer /\ u.tData = s.tData /\ u.timer = s.timer /\ u.state = s.state
      /\ HasFields(u)
  BY <1>1, <1>2 DEF Others, HasFields, Fields, AckReleased
<1>4. s.sub \in {"recv0", "send0"} /\ s.tData = 0
  BY DEF AckReleased, Handshake, Asks
<1>5. Prompt(u)
  BY <1>2, <1>3, <1>4 DEF AckReleased, Handshake, Prompt, Wires, AllWaits, Quiet
<1>6. Called(s, u)
  BY <1>2, <1>3 DEF Called, Others, TargetParts, Woken
<1>7. Phase(u) = Phase(s)
  BY <1>3 DEF AckReleased, Phase, Ctrl
<1>8. "RST" \notin Ctrl(s) /\ "ACK" \notin Ctrl(s)
  BY DEF AckReleased, Ctrl, Wires, TargetLines, PhaseLines
<1>9. TargetStep(s) = Proceeds(u)
  BY <1>4, <1>8 DEF TargetStep
<1> QED
  BY <1>3, <1>5, <1>6, <1>7, <1>9 DEF Resumed

(* The target asks for the next byte, and the counters keep to it. *)
Answered(s, t) == Requests(s, t) /\ (Kept(s, 0) => Kept(t, 1))

(* After a message or a byte of the command. *)
LEMMA AfterCommand ==
  ASSUME NEW s, NEW u, AckReleased(s), Resumed(s, u), InMessage(s) \/ InCommand(s), NEW t,
         t = Proceeds(u)
  PROVE  Answered(s, t)
<1>1. /\ HasFields(s) /\ HasFields(u) /\ Prompt(u) /\ Called(s, u) /\ u.nLines = {}
      /\ u.queue = <<>>
      /\ u.plan \in Plans /\ u.plan = s.plan /\ u.target \in {"msg", "cmd"}
      /\ Phase(u) \in {MessageOut, Command}
  BY DEF AckReleased, Wires, Resumed, Prompt, InMessage, InCommand, Stands
<1>2. u.target = "cmd" => Phase(u) = Command
  BY <1>1 DEF Resumed, InMessage, InCommand, Stands
<1>3. "SEL" \notin Ctrl(u) /\ "ATN" \notin Ctrl(u)
  BY <1>1 DEF Prompt, Wires, Ctrl, TargetLines, PhaseLines
<1>4. t = CommandByte(u)
  BY <1>1 DEF Proceeds
<1>5. Kept(s, 0) => s.got = 0 /\ s.taken = 0
  BY <1>1 DEF Resumed, Kept
<1>6. SUFFICES ASSUME Requests(u, t),
                      \/ Phase(t) \in {MessageOut, Command}
                      \/ Phase(t) = Status /\ Size(t) = 0
                      \/ InData(t) /\ t.pos = 1
                      \/ OutData(t) /\ t.pos = 0
               PROVE  Answered(s, t)
  <2>1. CASE u.target = "msg"
    <3>1. PICK c : c = [u EXCEPT !.pos = 0, !.target = "cmd"]
      OBVIOUS
    <3>2. /\ Others(u, c, {"pos", "target"}) /\ c.queue = <<>> /\ c.target = "cmd"
          /\ c.timer = u.timer
          /\ c.state = u.state /\ c.nLines = {}
      BY <1>1, <3>1 DEF Others, HasFields, Fields
    <3>3. Prompt(c)
      BY <1>1, <3>2 DEF Prompt, Wires, Others, HasFields, Fields
    <3>4. t = RecvByte(SetPhase(c, Command))
      BY <1>3, <1>4, <2>1, <3>1 DEF CommandByte
    <3>5. /\ t.sub = "recv1" /\ t.tWait = AllWaits /\ t.tLines \ PhaseLines = {"BSY", "REQ"}
          /\ Wires(t)
          /\ Phase(t) = Command /\ Others(c, t, {"sub", "tWait", "tLines", "timer"}) /\ Woken(c, t)
      BY <3>3, <3>4, ReceivedIn, PhaseNames
    <3>6. t.target = "cmd" /\ t.queue = <<>> /\ t.tTimer = FALSE /\ t.tData = 0 /\ t.nLines = {}
      BY <1>1, <3>2, <3>3, <3>5 DEF Others, HasFields, Fields, Prompt
    <3>7. InCommand(t)
      BY <3>5, <3>6 DEF InCommand, Stands, Sends
    <3>8. Others(u, t, TargetParts)
      BY <3>2, <3>5 DEF Others, TargetParts
    <3>9. Woken(u, t)
      BY <3>2, <3>5 DEF Woken
    <3>10. Requests(u, t) /\ Phase(t) = Command
      BY <3>5, <3>6, <3>7, <3>8, <3>9 DEF Requests, Called, Handshake, Asks
    <3> QED
      BY <3>10, <1>6
  <2>2. CASE u.target = "cmd" /\ u.pos # CommandBytes
    <3>1. t = RecvByte(u)
      BY <1>3, <1>4, <2>2 DEF CommandByte
    <3>2. /\ t.sub = "recv1" /\ t.tWait = AllWaits /\ t.tLines = u.tLines \cup {"REQ"}
          /\ Others(u, t, {"sub", "tWait", "tLines", "timer"}) /\ Woken(u, t) /\ Wires(t)
      BY <1>1, <3>1, AsksToReceive
    <3>3. Phase(t) = Command
      BY <1>1, <1>2, <2>2, <3>2, PhaseStays DEF Prompt
    <3>4. t.target = "cmd" /\ t.queue = <<>> /\ t.tTimer = FALSE /\ t.tData = 0 /\ t.nLines = {}
      BY <1>1, <2>2, <3>2 DEF Others, HasFields, Fields, Prompt
    <3>5. InCommand(t)
      BY <3>2, <3>3, <3>4 DEF InCommand, Stands, Sends
    <3>6. t.tLines \ PhaseLines = {"BSY", "REQ"}
      BY <1>1, <3>2 DEF Prompt, PhaseLines
    <3>7. Others(u, t, TargetParts)
      BY <3>2 DEF Others, TargetParts
    <3>8. Requests(u, t)
      BY <3>2, <3>4, <3>5, <3>6, <3>7 DEF Requests, Called, Handshake, Asks
    <3> QED
      BY <3>3, <3>8, <1>6
  <2>3. CASE u.target = "cmd" /\ u.pos = CommandBytes
    <3>1. PICK n : n = [u EXCEPT !.tWait = @ \ {"ACK"}, !.target = "next",
         !.queue = @ \o u.plan \o Complete]
      OBVIOUS
    <3>2. /\ Others(u, n, {"tWait", "target", "queue"}) /\ n.tWait = u.tWait \ {"ACK"}
          /\ n.target = "next"
          /\ n.queue = <<>> \o u.plan \o Complete /\ n.timer = u.timer /\ n.state = u.state
          /\ n.plan = u.plan
      BY <1>1, <3>1 DEF Others, HasFields, Fields
    <3>3. Prompt(n)
      <4>1. n.nLines = u.nLines /\ n.tLines = u.tLines /\ n.sub = u.sub /\ n.tTimer = u.tTimer
           /\ n.tData = u.tData /\ HasFields(n)
        BY <1>1, <3>2 DEF Others, HasFields, Fields
      <4> QED
        BY <1>1, <3>2, <4>1 DEF Prompt, Wires
    <3>4. t = NextControl(n)
      BY <1>3, <1>4, <2>3, <3>1 DEF CommandByte
    <3>5. /\ Requests(n, t)
          /\ \/ InStatus(t) /\ Size(t) = 0
             \/ InData(t) /\ t.pos = 1
             \/ OutData(t) /\ t.pos = 0
      <4>1. n.plan \in Plans /\ n.target = "next"
        BY <1>1, <3>2
      <4>2. n.queue = <<>> \o n.plan \o Complete
        BY <3>2
      <4> HIDE DEF Complete
      <4> QED
        BY <3>3, <3>4, <4>1, <4>2, PlanAsks
    <3>6. Called(u, n)
      BY <3>2 DEF Called, Others, TargetParts, Woken
    <3>7. Requests(u, t)
      BY <1>1, <3>5, <3>6, CalledOn DEF Requests
    <3> QED
      BY <3>5, <3>7, <1>6 DEF InStatus, Stands
  <2> QED
    BY <1>1, <2>1, <2>2, <2>3
<1>7. Requests(s, t)
  BY <1>1, <1>6, CalledOn DEF Requests
<1>8. t.got = s.got /\ t.taken = s.taken
  BY <1>1, <1>7 DEF Requests, Called, Others, TargetParts, HasFields, Fields
<1>9. Kept(s, 0) => Kept(t, 1)
  <2>1. CASE Phase(t) \in {MessageOut, Command}
    BY <1>5, <1>8, <2>1, PhasesDiffer DEF Kept
  <2>2. CASE Phase(t) = Status /\ Size(t) = 0
    BY <1>5, <1>8, <2>2, PhasesDiffer DEF Kept
  <2>3. CASE InData(t) /\ t.pos = 1
    BY <1>5, <1>8, <2>3, PhasesDiffer DEF Kept, InData, Stands
  <2>4. CASE OutData(t) /\ t.pos = 0
    BY <1>5, <1>8, <2>4, PhasesDiffer DEF Kept, OutData, Stands
  <2> QED
    BY <1>6, <2>1, <2>2, <2>3, <2>4
<1> QED
  BY <1>7, <1>9 DEF Answered

(* The size of a command's data is a number. *)
LEMMA SizesAreNat ==
  ASSUME NEW s, s.plan \in Plans
  PROVE  Size(s) \in Nat
<1>1. CASE s.plan = <<>>
  BY <1>1 DEF Size
<1>2. ASSUME NEW a, NEW k \in 0 .. DataBytes, s.plan = <<[act |-> a, size |-> k]>>
      PROVE  Size(s) \in Nat
  <2>1. s.plan # <<>> /\ s.plan[1].size = k
    BY <1>2
  <2>2. k \in Nat
    OBVIOUS
  <2> QED
    BY <2>1, <2>2 DEF Size
<1> QED
  BY <1>1, <1>2 DEF Plans

(* After a byte of data, in or out: the next byte, or the status after the   *)
(* last.                                                                     *)
LEMMA AfterData ==
  ASSUME NEW s, NEW u, AckReleased(s), Resumed(s, u), InData(s) \/ OutData(s), NEW t,
         t = Proceeds(u)
  PROVE  Answered(s, t)
<1>1. /\ HasFields(s) /\ HasFields(u) /\ Prompt(u) /\ Called(s, u) /\ u.nLines = {}
      /\ u.queue = Complete
      /\ u.plan = s.plan /\ u.size = Size(u) /\ u.pos = s.pos /\ u.size = s.size
      /\ Size(u) = Size(s)
  BY DEF AckReleased, Wires, Resumed, Prompt, InData, OutData, Stands, Size
<1>2. SUFFICES ASSUME Requests(u, t),
                      \/ InData(s) /\ InData(t) /\ t.pos = s.pos + 1
                      \/ OutData(s) /\ OutData(t) /\ t.pos = s.pos
                      \/ InStatus(t) /\ s.pos = Size(s)
               PROVE  Answered(s, t)
  <2>1. CASE InData(s) /\ s.pos = s.size
    <3>1. u.target = "next" /\ t = NextControl(u)
      BY <2>1 DEF InData, Stands, Resumed, Proceeds
    <3>2. t = ControlEntry(u)
      BY <1>1, <3>1, EntriesFollow DEF NextControl
    <3>3. Requests(u, t) /\ InStatus(t)
      BY <1>1, <3>1, <3>2, StatusAsks
    <3> QED
      BY <1>2, <2>1, <3>3 DEF InData
  <2>2. CASE OutData(s) /\ s.pos = s.size
    <3>1. Asked(s) = s.pos - 1
      BY DEF AckReleased, Asked
    <3>2. u.target = "next" /\ t = NextControl(u)
      BY <2>2, <3>1 DEF OutData, Stands, Resumed, Proceeds
    <3>3. t = ControlEntry(u)
      BY <1>1, <3>2, EntriesFollow DEF NextControl
    <3>4. Requests(u, t) /\ InStatus(t)
      BY <1>1, <3>2, <3>3, StatusAsks
    <3> QED
      BY <1>2, <2>2, <3>4 DEF OutData
  <2>3. CASE InData(s) /\ s.pos # s.size
    <3>1. u.target = "in" /\ t = DataByte(u)
      BY <2>3 DEF InData, Stands, Resumed, Proceeds
    <3>2. u.size \in Nat /\ u.pos \in Nat /\ u.pos < u.size
      BY <1>1, <2>3, SizesAreNat DEF InData, AckReleased
    <3>3. Reads(u) /\ Phase(u) = DataIn
      BY <1>1, <2>3 DEF InData, Stands, Resumed, Reads
    <3>4. Requests(u, t) /\ InData(t) /\ t.pos = u.pos + 1
      BY <1>1, <3>1, <3>2, <3>3, DataInAsks
    <3> QED
      BY <1>1, <1>2, <2>3, <3>4
  <2>4. CASE OutData(s) /\ s.pos # s.size
    <3>1. Asked(s) = s.pos - 1
      BY DEF AckReleased, Asked
    <3>2. u.target = "out" /\ t = DataByte(u)
      BY <2>4, <3>1 DEF OutData, Stands, Resumed, Proceeds
    <3>3. u.size \in Nat /\ u.pos \in Nat /\ u.pos < u.size
      BY <1>1, <2>4, <3>1 DEF OutData
    <3>4. Writes(u) /\ Phase(u) = DataOut
      BY <1>1, <2>4 DEF OutData, Stands, Resumed, Writes
    <3>5. Requests(u, t) /\ OutData(t) /\ t.pos = u.pos
      BY <1>1, <3>2, <3>3, <3>4, DataOutAsks
    <3> QED
      BY <1>1, <1>2, <2>4, <3>5
  <2> QED
    BY <2>1, <2>2, <2>3, <2>4
<1>3. Requests(s, t)
  BY <1>1, <1>2, CalledOn DEF Requests
<1>4. t.got = s.got /\ t.taken = s.taken /\ t.plan = s.plan
  BY <1>1, <1>3 DEF Requests, Called, Others, TargetParts, HasFields, Fields
<1>5. Kept(s, 0) => Kept(t, 1)
  <2>1. CASE InData(s) /\ InData(t) /\ t.pos = s.pos + 1
    <3>1. Phase(s) = DataIn /\ Phase(t) = DataIn /\ s.pos \in Int
      BY <2>1 DEF InData, Stands
    <3> QED
      BY <1>4, <2>1, <3>1, PhasesDiffer DEF Kept
  <2>2. CASE OutData(s) /\ OutData(t) /\ t.pos = s.pos
    <3>1. Phase(s) = DataOut /\ Phase(t) = DataOut
      BY <2>2 DEF OutData, Stands
    <3> QED
      BY <1>4, <2>2, <3>1, PhasesDiffer DEF Kept
  <2>3. CASE InStatus(t) /\ s.pos = Size(s)
    <3>1. Phase(t) = Status /\ Size(t) = Size(s)
      BY <1>4, <2>3 DEF InStatus, Stands, Size
    <3>2. CASE InData(s)
      <4>1. Phase(s) = DataIn /\ ~Writes(t) /\ s.pos \in Int
        BY <1>4, <3>2 DEF InData, Stands, Reads, Writes
      <4> QED
        BY <1>4, <2>3, <3>1, <4>1, PhasesDiffer DEF Kept
    <3>3. CASE OutData(s)
      <4>1. Phase(s) = DataOut /\ ~Reads(t)
        BY <1>4, <3>3 DEF OutData, Stands, Reads, Writes
      <4> QED
        BY <1>4, <2>3, <3>1, <4>1, PhasesDiffer DEF Kept
    <3> QED
      BY <3>2, <3>3
  <2> QED
    BY <1>2, <2>1, <2>2, <2>3
<1> QED
  BY <1>3, <1>5 DEF Answered

(* Whatever it held, a target whose byte has been taken asks for the next    *)
(* one or, after the message that ends the command, frees the bus.           *)
LEMMA Answers ==
  ASSUME NEW s, AckReleased(s), NEW t, t = TargetStep(s)
  PROVE  Answered(s, t) \/ (InReply(s) /\ Freed(s, t))
<1>1. PICK u : u = [s EXCEPT !.sub = "none", !.tWait = @ \ {"ACK"}]
  OBVIOUS
<1>2. Resumed(s, u) /\ t = Proceeds(u)
  BY <1>1, Resumes
<1>3. HasFields(s) /\ HasFields(u) /\ Prompt(u) /\ Called(s, u)
  BY <1>2 DEF AckReleased, Wires, Resumed, Prompt
<1>4. CASE InMessage(s) \/ InCommand(s)
  BY <1>2, <1>4, AfterCommand
<1>5. CASE InData(s) \/ OutData(s)
  BY <1>2, <1>5, AfterData
<1>6. CASE InStatus(s)
  <2>1. u.target = "next" /\ u.queue = Message /\ Phase(s) = Status
    BY <1>2, <1>6 DEF InStatus, Stands, Resumed
  <2>2. t = ControlEntry(u)
    BY <1>2, <2>1, EntriesFollow DEF Proceeds, NextControl
  <2>3. Requests(u, t) /\ InReply(t)
    BY <1>3, <2>1, <2>2, StatusAsks
  <2>4. Requests(s, t)
    BY <1>3, <2>3, CalledOn DEF Requests
  <2>5. Kept(t, 1)
    BY <2>3, PhasesDiffer DEF InReply, Stands, Kept
  <2> QED
    BY <2>4, <2>5 DEF Answered
<1>7. CASE InReply(s)
  <2>1. u.target = "next" /\ u.queue = Free
    BY <1>2, <1>7 DEF InReply, Stands, Resumed
  <2>2. t = ControlEntry(u)
    BY <1>2, <2>1, EntriesFollow DEF Proceeds, NextControl
  <2>3. Freed(u, t)
    BY <1>3, <2>1, <2>2, Ends
  <2>4. Freed(s, t)
    <3>1. /\ u.chip = s.chip /\ u.int = s.int /\ u.mint = s.mint /\ u.state = s.state
      BY <1>3 DEF Called, Others, TargetParts, HasFields, Fields
    <3>2. u.timer = s.timer
      BY <1>1, <1>3 DEF HasFields, Fields
    <3> QED
      BY <1>3, <2>3, <3>1, <3>2 DEF Freed, Called, Others, Disconnects
  <2> QED
    BY <1>7, <2>4
<1> QED
  BY <1>4, <1>5, <1>6, <1>7 DEF AckReleased, Handshake

(* The byte on the data lines of a data out phase is the one after those the *)
(* target has taken.                                                         *)
Right(s) == Phase(s) = DataOut => s.cmd = "pad" \/ BusData(s) = s.taken + 1

(* The target has taken or given its byte under ACK and holds REQ down. *)
Accepted(s, t) ==
  /\ Others(s, t, {"sub", "tLines", "tData", "pos", "taken", "timer"}) /\ Woken(s, t) /\ Wires(t)
  /\ Handshake(t) /\ ~Asks(t) /\ Phase(t) = Phase(s) /\ (Kept(s, 0) => Kept(t, 0))
  /\ t.taken = IF Phase(s) = DataOut THEN s.taken + 1 ELSE s.taken

(* TargetStep() under ACK: it takes the byte from the data lines, or removes *)
(* its own, and the counters agree.                                          *)
LEMMA Accepts ==
  ASSUME NEW s, Wires(s), Handshake(s), Asks(s), "ACK" \in s.nLines, "RST" \notin s.nLines,
         Right(s),
         NEW t, t = TargetStep(s)
  PROVE  Accepted(s, t)
<1>1. HasFields(s) /\ "BSY" \in s.tLines
  BY DEF Wires, Handshake
<1>2. "RST" \notin Ctrl(s) /\ "ACK" \in Ctrl(s)
  BY DEF Ctrl, Wires, TargetLines, PhaseLines
<1>3. t = Acknowledged(s)
  BY <1>2 DEF TargetStep, Asks
<1>4. SUFFICES ASSUME NEW u, t = TargetWrite(u, {}, {"REQ"}),
                      Others(s, u, {"sub", "tData", "pos", "taken"}), u.sub \in {"recv0", "send0"},
                      Sends(u) <=> Sends(s), u.tData = 0,
                      u.sub = "recv0" => u.pos = s.pos + 1,
                      u.sub = "send0" => u.pos = s.pos,
                      u.taken = IF Phase(s) = DataOut THEN s.taken + 1 ELSE s.taken
               PROVE  Accepted(s, t)
  <2>1. CASE s.sub = "recv1"
    <3>1. PICK v : v = Stored(s)
      OBVIOUS
    <3>2. PICK u : u = [v EXCEPT !.sub = "recv0"]
      OBVIOUS
    <3>3. /\ Others(s, v, {"pos", "taken"}) /\ v.pos = s.pos + 1
          /\ v.taken = IF Phase(s) # DataOut THEN s.taken
                       ELSE IF s.cmd = "pad" \/ BusData(s) = s.taken + 1 THEN s.taken + 1 ELSE Bad
      BY <1>1, <3>1 DEF Stored, Others, HasFields, Fields
    <3>4. v.taken = IF Phase(s) = DataOut THEN s.taken + 1 ELSE s.taken
      BY <3>3 DEF Right
    <3>5. Others(v, u, {"sub"}) /\ u.sub = "recv0" /\ u.pos = v.pos /\ u.taken = v.taken
         /\ u.tData = v.tData
      BY <1>1, <3>2, <3>3 DEF Others, HasFields, Fields
    <3>6. Others(s, u, {"sub", "tData", "pos", "taken"})
      BY <3>3, <3>5 DEF Others
    <3>7. u.tData = 0
      BY <1>1, <2>1, <3>3, <3>5 DEF Handshake, Others, HasFields, Fields
    <3>8. Sends(u) <=> Sends(s)
      BY <2>1, <3>5 DEF Sends
    <3>9. t = TargetWrite(u, {}, {"REQ"})
      BY <1>2, <1>3, <2>1, <3>1, <3>2 DEF Acknowledged
    <3> QED
      BY <1>4, <3>3, <3>4, <3>5, <3>6, <3>7, <3>8, <3>9
  <2>2. CASE s.sub = "send1"
    <3>1. PICK u : u = [s EXCEPT !.sub = "send0", !.tData = 0]
      OBVIOUS
    <3>2. Others(s, u, {"sub", "tData"}) /\ u.sub = "send0" /\ u.tData = 0 /\ u.pos = s.pos
         /\ u.taken = s.taken
      BY <1>1, <3>1 DEF Others, HasFields, Fields
    <3>3. Sends(s) /\ Sends(u)
      BY <2>2, <3>2 DEF Sends
    <3>4. Phase(s) # DataOut
      BY <3>3, PhasesDiffer DEF Handshake, InMessage, InCommand, InData, OutData, InStatus,
         InReply, Stands
    <3>5. t = TargetWrite(u, {}, {"REQ"})
      BY <1>2, <1>3, <2>2, <3>1 DEF Acknowledged
    <3>6. Others(s, u, {"sub", "tData", "pos", "taken"})
      BY <3>2 DEF Others
    <3> QED
      BY <1>4, <3>2, <3>3, <3>4, <3>5, <3>6
  <2> QED
    BY <2>1, <2>2 DEF Asks
<1>5. /\ u.nLines = s.nLines /\ u.tLines = s.tLines /\ u.timer = s.timer /\ u.state = s.state
      /\ HasFields(u)
      /\ Wires(u) /\ "BSY" \in u.tLines
  BY <1>1, <1>4 DEF Others, Wires, HasFields, Fields
<1>6. /\ t.tLines = (u.tLines \ {"REQ"}) \cup {} /\ Others(u, t, {"tLines", "timer"})
      /\ Woken(u, t) /\ Wires(t)
  BY <1>4, <1>5, LinesWritten DEF TargetLines
<1>7. /\ t.sub = u.sub /\ t.tData = 0 /\ t.pos = u.pos /\ t.taken = u.taken /\ t.nLines = s.nLines
      /\ t.target = s.target /\ t.queue = s.queue /\ t.size = s.size /\ t.plan = s.plan
      /\ t.tWait = s.tWait
      /\ t.tTimer = s.tTimer /\ t.got = s.got
  BY <1>1, <1>4, <1>5, <1>6 DEF Others, HasFields, Fields
<1>8. Phase(t) = Phase(s)
  BY <1>5, <1>6, PhaseIs DEF PhaseLines
<1>9. ~Asks(t) /\ (Sends(t) <=> Sends(s)) /\ (Sends(t) <=> t.sub = "send0")
  BY <1>4, <1>7 DEF Asks, Sends
<1>10. t.tLines \ PhaseLines = {"BSY"}
  BY <1>5, <1>6 DEF Handshake, PhaseLines
<1>11. Size(t) = Size(s) /\ (Reads(t) <=> Reads(s)) /\ (Writes(t) <=> Writes(s))
  BY <1>7 DEF Size, Reads, Writes
<1>12. InMessage(t) \/ InCommand(t) \/ InData(t) \/ OutData(t) \/ InStatus(t) \/ InReply(t)
  <2>1. CASE InMessage(s)
    BY <1>7, <1>8, <1>9, <2>1 DEF InMessage, Stands
  <2>2. CASE InCommand(s)
    BY <1>7, <1>8, <1>9, <2>2 DEF InCommand, Stands
  <2>3. CASE InData(s)
    <3>1. t.sub = "send0" /\ t.pos = s.pos
      BY <1>4, <1>7, <1>9, <2>3 DEF InData, Stands
    <3> QED
      BY <1>7, <1>8, <1>9, <1>11, <2>3, <3>1 DEF InData, Stands
  <2>4. CASE OutData(s)
    <3>1. t.sub = "recv0" /\ t.pos = s.pos + 1
      BY <1>4, <1>7, <1>9, <2>4 DEF OutData, Stands
    <3>2. Asked(s) = s.pos /\ Asked(t) = s.pos
      BY <1>9, <2>4, <3>1 DEF Asked, OutData
    <3> QED
      BY <1>7, <1>8, <1>9, <1>11, <2>4, <3>1, <3>2 DEF OutData, Stands
  <2>5. CASE InStatus(s)
    BY <1>7, <1>8, <1>9, <2>5 DEF InStatus, Stands
  <2>6. CASE InReply(s)
    BY <1>7, <1>8, <1>9, <2>6 DEF InReply, Stands
  <2> QED
    BY <2>1, <2>2, <2>3, <2>4, <2>5, <2>6 DEF Handshake
<1>13. Handshake(t)
  BY <1>4, <1>7, <1>9, <1>10, <1>12 DEF Handshake
<1>14. Kept(s, 0) => Kept(t, 0)
  <2>1. CASE Phase(s) = DataIn
    <3>1. t.pos = s.pos /\ s.pos \in Int
      BY <1>4, <1>7, <1>9, <2>1, PhasesDiffer
         DEF Handshake, InMessage, InCommand, InData, OutData, InStatus, InReply, Stands
    <3> QED
      BY <1>7, <1>8, <2>1, <3>1, PhasesDiffer DEF Kept
  <2>2. CASE Phase(s) = DataOut
    <3>1. t.pos = s.pos + 1
      BY <1>4, <1>7, <1>9, <2>2, PhasesDiffer
         DEF Handshake, InMessage, InCommand, InData, OutData, InStatus, InReply, Stands
    <3> QED
      BY <1>4, <1>7, <1>8, <2>2, <3>1, PhasesDiffer DEF Kept
  <2>3. CASE Phase(s) \notin {DataIn, DataOut}
    BY <1>4, <1>7, <1>8, <1>11, <2>3 DEF Kept
  <2> QED
    BY <2>1, <2>2, <2>3
<1>15. Others(s, t, {"sub", "tLines", "tData", "pos", "taken", "timer"})
  BY <1>4, <1>6 DEF Others
<1>16. Woken(s, t)
  BY <1>5, <1>6 DEF Woken
<1> QED
  BY <1>4, <1>6, <1>7, <1>8, <1>9, <1>13, <1>14, <1>15, <1>16 DEF Accepted

(* A target nobody selects, or that is selected and waits for the end of the *)
(* selection, does nothing.                                                  *)
LEMMA RestsOn ==
  ASSUME NEW s, Wires(s), "RST" \notin s.nLines,
         \/ AtRest(s, "idle", {}) /\ ~("SEL" \in s.nLines /\ "BSY" \notin s.nLines
            /\ s.nData = WithTarget)
         \/ AtRest(s, "selected", {"BSY"}) /\ "SEL" \in s.nLines
  PROVE  TargetStep(s) = s
<1>1. s.sub = "none" /\ s.tData = 0 /\ s.tLines \in {{}, {"BSY"}}
  BY DEF AtRest
<1>2. "RST" \notin Ctrl(s)
  BY <1>1 DEF Ctrl
<1>3. s.target \in {"idle", "selected"}
  BY DEF AtRest
<1>4. TargetStep(s) = Selection(s)
  BY <1>1, <1>2, <1>3 DEF TargetStep, Proceeds
<1>5. CASE s.target = "idle"
  <2>1. s.tLines = {} /\ ~("SEL" \in s.nLines /\ "BSY" \notin s.nLines /\ s.nData = WithTarget)
    BY <1>5 DEF AtRest
  <2>2. BusData(s) = s.nData
    BY <1>1 DEF BusData
  <2>3. Ctrl(s) = s.nLines
    BY <2>1 DEF Ctrl
  <2> QED
    BY <1>4, <1>5, <2>1, <2>2, <2>3 DEF Selection
<1>6. CASE s.target = "selected"
  <2>1. "SEL" \in s.nLines
    BY <1>6 DEF AtRest
  <2> QED
    BY <1>4, <1>6, <2>1 DEF Selection, Ctrl
<1> QED
  BY <1>3, <1>5, <1>6

(* A target that sees its number with SEL up and BSY down starts to settle. *)
LEMMA IsSelected ==
  ASSUME NEW s, Wires(s), AtRest(s, "idle", {}), s.nLines \in {{"SEL"}, {"ATN", "SEL"}},
         s.nData = WithTarget
  PROVE  TargetStep(s) = [s EXCEPT !.target = "settle", !.tTimer = TRUE]
<1>1. s.sub = "none" /\ s.tData = 0 /\ s.tLines = {} /\ s.target = "idle"
  BY DEF AtRest
<1>2. Ctrl(s) = s.nLines
  BY <1>1 DEF Ctrl
<1>3. TargetStep(s) = Selection(s)
  BY <1>1, <1>2 DEF TargetStep, Proceeds
<1>4. BusData(s) = WithTarget
  BY <1>1 DEF BusData
<1> QED
  BY <1>1, <1>2, <1>3, <1>4 DEF Selection

(* After the settling time it answers with BSY. *)
LEMMA SettlesOn ==
  ASSUME NEW s, Wires(s), s.target = "settle", s.sub = "none", s.queue = <<>>, s.tData = 0,
         s.tWait = Quiet,
         s.tTimer = FALSE, s.tLines = {}, s.nLines \in {{"SEL"}, {"ATN", "SEL"}}, NEW t,
           t = TargetStep(s)
  PROVE  Others(s, t, {"target", "tLines"}) /\ AtRest(t, "selected", {"BSY"}) /\ Wires(t)
<1>1. HasFields(s)
  BY DEF Wires
<1>2. "SEL" \in Ctrl(s) /\ "BSY" \notin Ctrl(s) /\ "RST" \notin Ctrl(s)
  BY DEF Ctrl
<1>3. PICK u : u = [s EXCEPT !.target = "selected"]
  OBVIOUS
<1>4. t = TargetWrite(u, {"BSY"}, {})
  BY <1>2, <1>3 DEF TargetStep, Proceeds, Selection
<1>5. Others(s, u, {"target"}) /\ u.target = "selected" /\ u.nLines = s.nLines /\ u.tLines = {}
     /\ HasFields(u)
  BY <1>1, <1>3 DEF Others, HasFields, Fields
<1>6. PICK w : w = [u EXCEPT !.tLines = (@ \ {}) \cup {"BSY"}]
  OBVIOUS
<1>7. Others(u, w, {"tLines"}) /\ w.tLines = {"BSY"} /\ w.nLines = s.nLines
  BY <1>5, <1>6 DEF Others, HasFields, Fields
<1>8. "SEL" \in Ctrl(w) /\ "BSY" \in Ctrl(w)
  BY <1>7 DEF Ctrl
<1>9. t = w
  BY <1>4, <1>6, <1>8 DEF TargetWrite, NcrCtrlChanged
<1>10. Others(s, w, {"target", "tLines"})
  BY <1>5, <1>7 DEF Others
<1>11. HasFields(w) /\ w.target = "selected" /\ w.sub = s.sub /\ w.queue = s.queue
     /\ w.tData = s.tData
       /\ w.tWait = s.tWait /\ w.tTimer = s.tTimer
  BY <1>1, <1>5, <1>7, <1>10 DEF Others, HasFields, Fields
<1> QED
  BY <1>7, <1>9, <1>10, <1>11 DEF AtRest, Wires, TargetLines

(* A queue of one control entry. *)
LEMMA OneEntry == ASSUME NEW e PROVE Append(<<>>, e) = <<e>>
<1>1. PICK a, b : a = Append(<<>>, e) /\ b = <<e>>
  OBVIOUS
<1>2. PICK S : S = {e}
  OBVIOUS
<1>3. e \in S /\ <<>> \in Seq(S)
  BY <1>2
<1>4. a \in Seq(S) /\ Len(a) = 1 /\ a[1] = e
  BY <1>1, <1>3, AppendProperties
<1>5. b \in Seq(S) /\ Len(b) = 1 /\ b[1] = e
  BY <1>1, <1>3
<1>6. a = b
  BY <1>4, <1>5, SeqEqual
<1> QED BY <1>1, <1>6

(* A selected target asks for a message or a command once SEL is gone. *)
LEMMA AsksForCommand ==
  ASSUME NEW s, Wires(s), AtRest(s, "selected", {"BSY"}), s.nLines \subseteq {"ATN"}, NEW t,
         t = TargetStep(s)
  PROVE  Requests(s, t) /\ (InMessage(t) \/ InCommand(t))
<1>1. HasFields(s) /\ s.sub = "none" /\ s.tLines = {"BSY"} /\ s.queue = <<>>
     /\ s.target = "selected"
  BY DEF Wires, AtRest
<1>2. "SEL" \notin Ctrl(s) /\ "RST" \notin Ctrl(s)
  BY <1>1 DEF Ctrl
<1>3. PICK n : n = [s EXCEPT !.target = "next", !.queue = Append(@,
     [act |-> "command", size |-> 0])]
  OBVIOUS
<1>4. t = NextControl(n)
  BY <1>1, <1>2, <1>3 DEF TargetStep, Proceeds, Selection
<1>5. Others(s, n, {"target", "queue"}) /\ n.queue = <<Entry("command")>>
  <2>1. Others(s, n, {"target", "queue"}) /\ n.queue = Append(s.queue,
       [act |-> "command", size |-> 0])
    BY <1>1, <1>3 DEF Others, HasFields, Fields
  <2>2. n.queue = Append(<<>>, Entry("command"))
    BY <1>1, <2>1 DEF Entry
  <2> QED
    BY <2>1, <2>2, OneEntry
<1>6. /\ n.nLines = s.nLines /\ n.tLines = s.tLines /\ n.sub = s.sub /\ n.tTimer = s.tTimer
      /\ n.tData = s.tData
      /\ n.tWait = s.tWait /\ HasFields(n) /\ n.timer = s.timer
  BY <1>1, <1>5 DEF Others, HasFields, Fields
<1>7. Prompt(n)
  BY <1>1, <1>6 DEF Prompt, Wires, AtRest, AllWaits, Quiet, PhaseLines
<1>8. t = ControlEntry(n)
  BY <1>4, <1>5, EntriesFollow DEF NextControl
<1>9. Requests(n, t) /\ (InMessage(t) \/ InCommand(t))
  BY <1>5, <1>7, <1>8, CommandAsks
<1>10. Called(s, n)
  BY <1>5, <1>6 DEF Called, Others, TargetParts, Woken
<1> QED
  BY <1>1, <1>9, <1>10, CalledOn DEF Requests

(* What a bus reset changes. *)
ResetParts == (TargetParts \ {"timer"}) \cup IntParts

(* RST puts the target to rest and disconnects the chip. *)
LEMMA Resets ==
  ASSUME NEW s, Wires(s), s.nLines = {"RST"}, NEW t, t = TargetStep(s)
  PROVE  /\ AtRest(t, "idle", {}) /\ Wires(t) /\ Others(s, t, ResetParts)
         /\ s.chip = "initiator" /\ "BSY" \in s.tLines => Disconnects(s, t)
         /\ t.chip \in {s.chip, "disconnected"} /\ t.nLines = {"RST"}
<1>1. HasFields(s)
  BY DEF Wires
<1>2. t = TargetReset(s)
  BY DEF TargetStep, Ctrl
<1>3. PICK u : u = [s EXCEPT !.target = "idle", !.sub = "none", !.queue = <<>>, !.pos = 0,
                             !.size = 0, !.tTimer = FALSE, !.tData = 0]
  OBVIOUS
<1>4. /\ Others(s, u, {"target", "sub", "queue", "pos", "size", "tTimer", "tData"})
      /\ u.target = "idle"
      /\ u.sub = "none" /\ u.queue = <<>> /\ u.tTimer = FALSE /\ u.tData = 0
  BY <1>1, <1>3 DEF Others, HasFields, Fields
<1>5. /\ Wires(u) /\ u.nLines = {"RST"} /\ u.tLines = s.tLines /\ u.chip = s.chip
      /\ u.int = s.int /\ u.mint = s.mint
  BY <1>1, <1>4 DEF Others, Wires, HasFields, Fields
<1>6. PICK w : w = TargetWrite(u, {}, {"BSY", "REQ"} \cup PhaseLines)
  OBVIOUS
<1>7. /\ w.tLines = {} /\ Others(u, w, {"tLines"} \cup IntParts)
      /\ u.chip = "initiator" /\ "BSY" \in u.tLines => Disconnects(u, w)
      /\ w.chip \in {u.chip, "disconnected"}
  BY <1>5, <1>6, LinesDropped
<1>8. t = [w EXCEPT !.tWait = {"SEL", "BSY", "RST"}]
  BY <1>2, <1>3, <1>6 DEF TargetReset
<1>9. Others(w, t, {"tWait"}) /\ t.tWait = Quiet
  BY <1>1, <1>4, <1>7, <1>8 DEF Others, HasFields, Fields, Quiet
<1>10. Others(s, t, ResetParts)
  BY <1>4, <1>7, <1>9 DEF Others, ResetParts, TargetParts
<1>11. /\ t.tLines = w.tLines /\ t.target = w.target /\ t.sub = w.sub /\ t.queue = w.queue
       /\ t.tTimer = w.tTimer
       /\ t.tData = w.tData /\ t.chip = w.chip /\ t.int = w.int /\ t.mint = w.mint
       /\ t.intNcr = w.intNcr
  BY <1>1, <1>4, <1>7, <1>9 DEF Others, HasFields, Fields
<1>12. /\ w.target = u.target /\ w.sub = u.sub /\ w.queue = u.queue /\ w.tTimer = u.tTimer
       /\ w.tData = u.tData
  BY <1>1, <1>4, <1>7 DEF Others, HasFields, Fields, IntParts
<1>13. AtRest(t, "idle", {})
  BY <1>4, <1>7, <1>9, <1>11, <1>12 DEF AtRest
<1>14. HasFields(t) /\ t.nLines = s.nLines
  BY <1>1, <1>10 DEF Others, HasFields, Fields, ResetParts, TargetParts, IntParts
<1>15. s.chip = "initiator" /\ "BSY" \in s.tLines => Disconnects(s, t)
  BY <1>5, <1>7, <1>11 DEF Disconnects
<1>16. Wires(t)
  BY <1>13, <1>14 DEF Wires, AtRest
<1>17. t.chip \in {s.chip, "disconnected"}
  BY <1>5, <1>7, <1>11
<1> QED
  BY <1>10, <1>13, <1>14, <1>15, <1>16, <1>17

(* NcrWrite(): the lines change, and a target that waits for one of them is  *)
(* called.                                                                   *)
LEMMA WriteReaches ==
  ASSUME NEW s, Wires(s), NEW on, NEW off, on \subseteq ChipLines, NEW t, t = NcrWrite(s, on, off),
         NEW w, w = [s EXCEPT !.nLines = (@ \ off) \cup on]
  PROVE  /\ Wires(w) /\ Others(s, w, {"nLines"}) /\ w.nLines = (s.nLines \ off) \cup on
         /\ t = w \/ t = TargetStep(w)
         /\ (\E l \in s.tWait : l \notin s.tLines
            /\ (l \in s.nLines) # (l \in w.nLines)) => t = TargetStep(w)
<1>1. HasFields(w) /\ Others(s, w, {"nLines"}) /\ w.nLines = (s.nLines \ off) \cup on
     /\ w.tLines = s.tLines
  BY DEF Wires, HasFields, Fields, Others
<1>2. t = w \/ t = TargetStep(w)
  BY DEF NcrWrite
<1>3. ASSUME NEW l \in s.tWait, l \notin s.tLines, (l \in s.nLines) # (l \in w.nLines)
      PROVE  t = TargetStep(w)
  <2>1. l \in (Ctrl(s) \ Ctrl(w)) \cup (Ctrl(w) \ Ctrl(s))
    BY <1>1, <1>3 DEF Ctrl
  <2> QED
    BY <1>3, <2>1 DEF NcrWrite
<1> QED
  BY <1>1, <1>2, <1>3 DEF Wires

(* The fields that a raised ACK changes. *)
WireParts == {"nLines", "sub", "tLines", "tData", "pos", "taken", "timer"}

(* The chip holds ACK and the target has handled the byte. *)
AckTaken(s, t) ==
  /\ Others(s, t, WireParts) /\ Woken(s, t) /\ Wires(t) /\ t.nLines = {"ACK"}
  /\ Handshake(t) /\ ~Asks(t) /\ Phase(t) = Phase(s) /\ (Kept(s, 0) => Kept(t, 0))
  /\ t.taken = IF Phase(s) = DataOut THEN s.taken + 1 ELSE s.taken

(* A raised ACK, of a chip that has the right byte on the data lines. *)
LEMMA AckRaised ==
  ASSUME NEW s, Wires(s), Handshake(s), Asks(s), Right(s), NEW off, s.nLines \ off = {},
         NEW t, t = NcrWrite(s, {"ACK"}, off), s.nLines \subseteq {"ATN"}
  PROVE  AckTaken(s, t)
<1>1. PICK w : w = [s EXCEPT !.nLines = (@ \ off) \cup {"ACK"}]
  OBVIOUS
<1>2. /\ Wires(w) /\ Others(s, w, {"nLines"}) /\ w.nLines = (s.nLines \ off) \cup {"ACK"}
      /\ (\E l \in s.tWait : l \notin s.tLines
         /\ (l \in s.nLines) # (l \in w.nLines)) => t = TargetStep(w)
  BY <1>1, WriteReaches DEF ChipLines
<1>3. w.nLines = {"ACK"}
  BY <1>2
<1>4. "ACK" \in s.tWait /\ "ACK" \notin s.tLines /\ "ACK" \notin s.nLines
  BY DEF Handshake, AllWaits, Wires, TargetLines, PhaseLines
<1>5. t = TargetStep(w)
  BY <1>2, <1>3, <1>4
<1>6. /\ w.tLines = s.tLines /\ w.sub = s.sub /\ w.target = s.target /\ w.queue = s.queue
      /\ w.pos = s.pos
      /\ w.size = s.size /\ w.plan = s.plan /\ w.tWait = s.tWait /\ w.tTimer = s.tTimer
      /\ w.tData = s.tData
      /\ w.got = s.got /\ w.taken = s.taken /\ w.nData = s.nData /\ w.cmd = s.cmd
      /\ w.timer = s.timer
      /\ w.state = s.state
  BY <1>2 DEF Others, Wires, HasFields, Fields
<1>7. Phase(w) = Phase(s)
  BY <1>2, <1>6, PhaseIs
<1>8. Asks(w) /\ (Sends(w) <=> Sends(s)) /\ Asked(w) = Asked(s) /\ Size(w) = Size(s)
      /\ (Reads(w) <=> Reads(s)) /\ (Writes(w) <=> Writes(s))
  BY <1>6 DEF Asks, Sends, Asked, Size, Reads, Writes
<1>9. InMessage(w) \/ InCommand(w) \/ InData(w) \/ OutData(w) \/ InStatus(w) \/ InReply(w)
  <2>1. CASE InMessage(s)
    BY <1>6, <1>7, <1>8, <2>1 DEF InMessage, Stands
  <2>2. CASE InCommand(s)
    BY <1>3, <1>6, <1>7, <1>8, <2>2 DEF InCommand, Stands
  <2>3. CASE InData(s)
    BY <1>6, <1>7, <1>8, <2>3 DEF InData, Stands
  <2>4. CASE OutData(s)
    BY <1>6, <1>7, <1>8, <2>4 DEF OutData, Stands
  <2>5. CASE InStatus(s)
    BY <1>6, <1>7, <1>8, <2>5 DEF InStatus, Stands
  <2>6. CASE InReply(s)
    BY <1>6, <1>7, <1>8, <2>6 DEF InReply, Stands
  <2> QED
    BY <2>1, <2>2, <2>3, <2>4, <2>5, <2>6 DEF Handshake
<1>10. Handshake(w)
  BY <1>6, <1>8, <1>9 DEF Handshake
<1>11. BusData(w) = BusData(s)
  BY <1>6 DEF BusData
<1>12. Right(w)
  BY <1>6, <1>7, <1>11 DEF Right
<1>13. Accepted(w, t)
  BY <1>2, <1>3, <1>5, <1>8, <1>10, <1>12, Accepts
<1>14. Kept(s, 0) => Kept(w, 0)
  BY <1>6, <1>7, <1>8 DEF Kept
<1>15. Others(s, t, WireParts)
  BY <1>2, <1>13 DEF Others, Accepted, WireParts
<1>16. t.nLines = {"ACK"}
  BY <1>2, <1>3, <1>13 DEF Accepted, Others, Wires, HasFields, Fields
<1>17. Woken(s, t)
  BY <1>6, <1>13 DEF Accepted, Woken
<1> QED
  BY <1>6, <1>7, <1>13, <1>14, <1>15, <1>16, <1>17 DEF Accepted, AckTaken

(* The fields that a dropped ACK changes. *)
CallParts == {"nLines"} \cup TargetParts

(* The target asks for the next byte. *)
AskedNext(s, t) ==
  /\ Others(s, t, CallParts) /\ Woken(s, t) /\ Wires(t) /\ t.nLines = {} /\ Handshake(t) /\ Asks(t)
  /\ Kept(s, 0) => Kept(t, 1)

(* The target has freed the bus. *)
SetFree(s, t) ==
  /\ Others(s, t, CallParts \cup IntParts) /\ t.timer = s.timer /\ Wires(t) /\ t.nLines = {}
  /\ AtRest(t, "idle", {})
  /\ s.chip = "initiator" => Disconnects(s, t)
  /\ t.chip \in {s.chip, "disconnected"}

(* A dropped ACK lets the target go on: it asks for the next byte, or frees  *)
(* the bus after the message.                                                *)
LEMMA AckDropped ==
  ASSUME NEW s, Wires(s), Handshake(s), ~Asks(s), s.nLines = {"ACK"}, s.plan \in Plans,
         NEW off, "ACK" \in off, NEW t, t = NcrWrite(s, {}, off)
  PROVE  AskedNext(s, t) \/ (Phase(s) = MessageIn /\ SetFree(s, t))
<1>1. PICK w : w = [s EXCEPT !.nLines = (@ \ off) \cup {}]
  OBVIOUS
<1>2. /\ Wires(w) /\ Others(s, w, {"nLines"}) /\ w.nLines = (s.nLines \ off) \cup {}
      /\ (\E l \in s.tWait : l \notin s.tLines
         /\ (l \in s.nLines) # (l \in w.nLines)) => t = TargetStep(w)
  BY <1>1, WriteReaches
<1>3. w.nLines = {}
  BY <1>2
<1>4. "ACK" \in s.tWait /\ "ACK" \notin s.tLines
  BY DEF Handshake, AllWaits, Wires, TargetLines, PhaseLines
<1>5. t = TargetStep(w)
  BY <1>2, <1>3, <1>4
<1>6. /\ w.tLines = s.tLines /\ w.sub = s.sub /\ w.target = s.target /\ w.queue = s.queue
      /\ w.pos = s.pos
      /\ w.size = s.size /\ w.plan = s.plan /\ w.tWait = s.tWait /\ w.tTimer = s.tTimer
      /\ w.tData = s.tData
      /\ w.got = s.got /\ w.taken = s.taken /\ w.timer = s.timer
      /\ w.state = s.state /\ w.chip = s.chip /\ w.int = s.int /\ w.mint = s.mint
  BY <1>2 DEF Others, Wires, HasFields, Fields
<1>7. Phase(w) = Phase(s)
  BY <1>2, <1>6, PhaseIs
<1>8. ~Asks(w) /\ (Sends(w) <=> Sends(s)) /\ Asked(w) = Asked(s) /\ Size(w) = Size(s)
      /\ (Reads(w) <=> Reads(s)) /\ (Writes(w) <=> Writes(s))
  BY <1>6 DEF Asks, Sends, Asked, Size, Reads, Writes
<1>9. InMessage(w) \/ InCommand(w) \/ InData(w) \/ OutData(w) \/ InStatus(w) \/ InReply(w)
  <2>1. CASE InMessage(s)
    BY <1>6, <1>7, <1>8, <2>1 DEF InMessage, Stands
  <2>2. CASE InCommand(s)
    BY <1>3, <1>6, <1>7, <1>8, <2>2 DEF InCommand, Stands
  <2>3. CASE InData(s)
    BY <1>6, <1>7, <1>8, <2>3 DEF InData, Stands
  <2>4. CASE OutData(s)
    BY <1>6, <1>7, <1>8, <2>4 DEF OutData, Stands
  <2>5. CASE InStatus(s)
    BY <1>6, <1>7, <1>8, <2>5 DEF InStatus, Stands
  <2>6. CASE InReply(s)
    BY <1>6, <1>7, <1>8, <2>6 DEF InReply, Stands
  <2> QED
    BY <2>1, <2>2, <2>3, <2>4, <2>5, <2>6 DEF Handshake
<1>10. Handshake(w)
  BY <1>6, <1>8, <1>9 DEF Handshake
<1>11. AckReleased(w)
  BY <1>2, <1>3, <1>6, <1>8, <1>10 DEF AckReleased
<1>12. Kept(s, 0) => Kept(w, 0)
  BY <1>6, <1>7, <1>8 DEF Kept
<1>13. CASE Answered(w, t)
  <2>1. Requests(w, t) /\ (Kept(w, 0) => Kept(t, 1))
    BY <1>13 DEF Answered
  <2>2. Others(s, t, CallParts)
    BY <1>2, <2>1 DEF Requests, Called, Others, CallParts
  <2>3. Woken(s, t)
    BY <1>6, <2>1 DEF Requests, Called, Woken
  <2>4. t.nLines = {}
    BY <1>2, <1>3, <2>1 DEF Requests, Called, Others, TargetParts, Wires, HasFields, Fields
  <2> QED
    BY <1>12, <2>1, <2>2, <2>3, <2>4 DEF AskedNext, Requests
<1>14. CASE InReply(w) /\ Freed(w, t)
  <2>1. Phase(s) = MessageIn
    BY <1>7, <1>14 DEF InReply, Stands
  <2>2. Others(s, t, CallParts \cup IntParts)
    BY <1>2, <1>14 DEF Freed, Others, CallParts
  <2>3. t.nLines = {} /\ HasFields(t)
    BY <1>2, <1>3, <1>14 DEF Freed, Others, TargetParts, IntParts, Wires, HasFields, Fields
  <2>4. AtRest(t, "idle", {}) /\ t.timer = s.timer /\ (s.chip = "initiator" => Disconnects(s, t))
        /\ t.chip \in {s.chip, "disconnected"}
    BY <1>6, <1>14 DEF Freed, Disconnects
  <2>5. Wires(t)
    BY <2>3, <2>4 DEF Wires, AtRest
  <2> QED
    BY <2>1, <2>2, <2>3, <2>4, <2>5 DEF SetFree
<1> QED
  BY <1>5, <1>11, <1>13, <1>14, Answers

(* The fields of the handshake. A state with the same fields is in the same  *)
(* handshake.                                                                *)
HandParts == {"nLines", "tLines", "nData", "tData", "target", "sub", "queue", "pos", "size",
  "tTimer",
             "tWait", "plan"}
HandSame(s, t) == HasFields(s) /\ HasFields(t) /\ \A f \in HandParts : t[f] = s[f]

(* What the handshake's fields determine. *)
LEMMA HandKept ==
  ASSUME NEW s, NEW t, HandSame(s, t)
  PROVE  /\ Wires(s) => Wires(t)
         /\ Phase(t) = Phase(s) /\ Ctrl(t) = Ctrl(s) /\ (Asks(t) <=> Asks(s))
         /\ BusData(t) = BusData(s)
         /\ Handshake(s) => Handshake(t)
         /\ \A target, lines : AtRest(s, target, lines) => AtRest(t, target, lines)
         /\ Size(t) = Size(s) /\ (Reads(t) <=> Reads(s)) /\ (Writes(t) <=> Writes(s))
         /\ t.nData = s.nData /\ t.nLines = s.nLines /\ t.pos = s.pos /\ t.plan = s.plan
<1>1. /\ t.tLines = s.tLines /\ t.sub = s.sub /\ t.target = s.target /\ t.queue = s.queue
      /\ t.pos = s.pos
      /\ t.size = s.size /\ t.plan = s.plan /\ t.tWait = s.tWait /\ t.tTimer = s.tTimer
      /\ t.tData = s.tData
      /\ t.nData = s.nData /\ t.nLines = s.nLines
  BY DEF HandSame, HandParts
<1>2. Ctrl(t) = Ctrl(s) /\ BusData(t) = BusData(s)
  BY <1>1 DEF Ctrl, BusData
<1>3. Phase(t) = Phase(s)
  BY <1>2 DEF Phase
<1>4. (Asks(t) <=> Asks(s)) /\ (Sends(t) <=> Sends(s))
  BY <1>1 DEF Asks, Sends
<1>5. Asked(t) = Asked(s)
  BY <1>1, <1>4 DEF Asked
<1>6. Size(t) = Size(s) /\ (Reads(t) <=> Reads(s)) /\ (Writes(t) <=> Writes(s))
  BY <1>1 DEF Size, Reads, Writes
<1>7. /\ InMessage(s) => InMessage(t)
      /\ InCommand(s) => InCommand(t)
      /\ InStatus(s) => InStatus(t)
      /\ InReply(s) => InReply(t)
  BY <1>1, <1>3, <1>4 DEF InMessage, InCommand, InStatus, InReply, Stands
<1>8. InData(s) => InData(t)
  BY <1>1, <1>3, <1>4, <1>6 DEF InData, Stands
<1>9. OutData(s) => OutData(t)
  BY <1>1, <1>3, <1>4, <1>5, <1>6 DEF OutData, Stands
<1>10. Handshake(s) => Handshake(t)
  BY <1>1, <1>4, <1>7, <1>8, <1>9 DEF Handshake
<1>11. \A target, lines : AtRest(s, target, lines) => AtRest(t, target, lines)
  BY <1>1 DEF AtRest
<1>12. Wires(s) => Wires(t)
  BY <1>1 DEF Wires, HandSame
<1> QED
  BY <1>1, <1>2, <1>3, <1>4, <1>6, <1>10, <1>11, <1>12

(* The same with the counters of the program and the target. *)
BusParts == HandParts \cup {"got", "taken"}
BusSame(s, t) == HasFields(s) /\ HasFields(t) /\ \A f \in BusParts : t[f] = s[f]

(* What bus and counters determine. *)
LEMMA BusKept ==
  ASSUME NEW s, NEW t, BusSame(s, t)
  PROVE  /\ HandSame(s, t)
         /\ Wires(s) => Wires(t)
         /\ Phase(t) = Phase(s) /\ Ctrl(t) = Ctrl(s) /\ (Asks(t) <=> Asks(s))
         /\ BusData(t) = BusData(s)
         /\ Handshake(s) => Handshake(t)
         /\ \A n : Asking(s, n) => Asking(t, n)
         /\ Holding(s) => Holding(t)
         /\ \A target, lines : AtRest(s, target, lines) => AtRest(t, target, lines)
         /\ t.nData = s.nData /\ t.nLines = s.nLines /\ t.got = s.got /\ t.taken = s.taken
         /\ t.pos = s.pos
         /\ t.plan = s.plan
<1>1. HandSame(s, t) /\ t.got = s.got /\ t.taken = s.taken
  BY DEF HandSame, BusSame, BusParts
<1>2. /\ Wires(s) => Wires(t)
      /\ Phase(t) = Phase(s) /\ Ctrl(t) = Ctrl(s) /\ (Asks(t) <=> Asks(s))
      /\ BusData(t) = BusData(s)
      /\ Handshake(s) => Handshake(t)
      /\ \A target, lines : AtRest(s, target, lines) => AtRest(t, target, lines)
      /\ Size(t) = Size(s) /\ (Reads(t) <=> Reads(s)) /\ (Writes(t) <=> Writes(s))
      /\ t.nData = s.nData /\ t.nLines = s.nLines /\ t.pos = s.pos /\ t.plan = s.plan
  BY <1>1, HandKept
<1>3. \A n : Kept(s, n) => Kept(t, n)
  BY <1>1, <1>2 DEF Kept
<1>4. \A n : Asking(s, n) => Asking(t, n)
  BY <1>2, <1>3 DEF Asking
<1>5. Holding(s) => Holding(t)
  BY <1>2, <1>3 DEF Holding
<1> QED
  BY <1>1, <1>2, <1>4, <1>5

(* The chip's clock finds and leaves: counters are numbers, data request and *)
(* adapter agree, and the program knows what it should.                      *)
Steady(s, p) == Typed(s) /\ Drives(p) /\ s.dataReq = s.dreq /\ s.stall = FALSE /\ Knows(s, p)

(* The invariant of a program that has not given up. *)
InStep(s, p) == Typed(s) /\ Normal(s, p)

(* Rearmed(): after a step that did not stall, a chip that is not idle runs  *)
(* again at once.                                                            *)
LEMMA Rearms ==
  ASSUME NEW t, HasFields(t), NEW u, u = Rearmed(t)
  PROVE  /\ Others(t, u, {"timer", "stall"}) /\ u.stall = FALSE
         /\ u.timer = IF t.stall \/ t.state = "idle" THEN t.timer ELSE 0
  BY DEF Rearmed, Others, HasFields, Fields

(* The timer alone is stopped. *)
LEMMA TimerStops ==
  ASSUME NEW s, HasFields(s), NEW r, r = [s EXCEPT !.timer = Off]
  PROVE  Others(s, r, {"timer"}) /\ r.timer = Off /\ HasFields(r) /\ BusSame(s, r)
  BY DEF Others, HasFields, Fields, BusSame, BusParts, HandParts

(* Same bus, same types. *)
LEMMA TypedOn ==
  ASSUME NEW s, Typed(s), NEW t, BusSame(s, t), t.count \in Nat
  PROVE  Typed(t)
<1>1. t.plan = s.plan /\ t.got = s.got /\ t.taken = s.taken
  BY DEF BusSame, BusParts, HandParts
<1>2. Wires(t)
  BY BusKept DEF Typed
<1> QED
  BY <1>1, <1>2 DEF Typed

(* What may stand in the register after a step of the chip. *)
Heard(u, p) ==
  /\ u.mint = (u.int # {})
  /\ \/ u.int \in {{}, {"complete"}}
     \/ u.int \in {{"service"}, {"invalid"}} /\ Ready(u)
     \/ u.int = {"disconnected"} /\ Idle(u)

(* A program that waits knows what it should, whatever cause has come. *)
LEMMA KnowsOn ==
  ASSUME NEW s, NEW p, Knows(s, p), p.at \in {"go", "wait"}, NEW u, u.active = s.active,
         u.write = s.write,
         Heard(u, p)
  PROVE  Knows(u, p)
<1>1. p.at \notin {"decide", "idle"}
  OBVIOUS
<1>2. u.int \in {{}, {"service"}, {"complete"}, {"invalid"}, {"disconnected"}}
  BY DEF Heard
<1>3. u.int \in {{"service"}, {"invalid"}} => Ready(u)
  BY DEF Heard
<1>4. u.int = {"disconnected"} => Idle(u)
  BY DEF Heard
<1> QED
  BY <1>1, <1>2, <1>3, <1>4 DEF Knows, Heard

(* No new cause, nothing new to know. *)
LEMMA UntoldOn ==
  ASSUME NEW s, NEW p, Knows(s, p), Untold(s, p), NEW u, u.active = s.active, u.write = s.write,
         u.int = s.int, u.mint = s.mint, u.intNcr = s.intNcr
  PROVE  Knows(u, p) /\ Untold(u, p)
<1>1. Heard(u, p) /\ p.at \in {"go", "wait"}
  BY DEF Untold, Heard
<1>2. Knows(u, p)
  BY <1>1, KnowsOn
<1> QED
  BY <1>2 DEF Untold

(* The fields of the chip that a transfer changes. *)
InfoParts == {"timer", "stall", "state", "phase", "full", "byte", "dreq", "dataReq", "count", "sbx"}

(* A step of a transfer that leaves the bus alone. *)
LEMMA InfoOn ==
  ASSUME NEW s, NEW p, Steady(s, p), Untold(s, p), NEW u, Others(s, u, InfoParts), u.count \in Nat,
         u.dataReq = u.dreq, u.stall = FALSE
  PROVE  /\ BusSame(s, u) /\ Typed(u) /\ Knows(u, p) /\ Untold(u, p) /\ u.chip = s.chip
         /\ u.loaded = s.loaded
         /\ u.cmd = s.cmd /\ u.single = s.single /\ u.dma = s.dma /\ u.put = s.put
         /\ u.dest = s.dest
<1>1. HasFields(s)
  BY DEF Steady, Typed, Wires
<1>2. BusSame(s, u)
  BY <1>1 DEF BusSame, BusParts, HandParts, Others, InfoParts, HasFields, Fields
<1>3. /\ u.chip = s.chip /\ u.loaded = s.loaded /\ u.cmd = s.cmd /\ u.single = s.single
      /\ u.dma = s.dma
      /\ u.put = s.put /\ u.active = s.active /\ u.write = s.write /\ u.int = s.int
      /\ u.mint = s.mint
      /\ u.intNcr = s.intNcr /\ u.dest = s.dest
  BY <1>1 DEF Others, InfoParts, HasFields, Fields
<1>4. Knows(u, p) /\ Untold(u, p)
  BY <1>3, UntoldOn DEF Steady
<1>5. Typed(u)
  BY <1>2, TypedOn DEF Steady
<1> QED
  BY <1>2, <1>3, <1>4, <1>5

(* And one that counts a byte that only goes by (a pad). *)
LEMMA InfoCounts ==
  ASSUME NEW s, NEW p, Steady(s, p), Untold(s, p), NEW u, Others(s, u, InfoParts \cup {"got"}),
         u.count \in Nat,
         u.dataReq = u.dreq, u.stall = FALSE, u.got \in Nat
  PROVE  /\ HandSame(s, u) /\ Typed(u) /\ Knows(u, p) /\ Untold(u, p) /\ u.chip = s.chip
         /\ u.loaded = s.loaded
         /\ u.cmd = s.cmd /\ u.single = s.single /\ u.dma = s.dma /\ u.put = s.put
         /\ u.taken = s.taken
<1>1. HasFields(s)
  BY DEF Steady, Typed, Wires
<1>2. HandSame(s, u)
  BY <1>1 DEF HandSame, HandParts, Others, InfoParts, HasFields, Fields
<1>3. /\ u.chip = s.chip /\ u.loaded = s.loaded /\ u.cmd = s.cmd /\ u.single = s.single
      /\ u.dma = s.dma
      /\ u.put = s.put /\ u.active = s.active /\ u.write = s.write /\ u.int = s.int
      /\ u.mint = s.mint
      /\ u.intNcr = s.intNcr /\ u.taken = s.taken
  BY <1>1 DEF Others, InfoParts, HasFields, Fields
<1>4. Knows(u, p) /\ Untold(u, p)
  BY <1>3, UntoldOn DEF Steady
<1>5. Wires(u) /\ u.plan = s.plan
  BY <1>2, HandKept DEF Steady, Typed
<1>6. Typed(u)
  BY <1>3, <1>5 DEF Steady, Typed
<1> QED
  BY <1>2, <1>3, <1>4, <1>6

(* In a state of a transfer the chip's step is NcrInfo(). *)
LEMMA InfoState ==
  ASSUME NEW s, s.loaded = FALSE, NEW r, Others(s, r, {"timer"}), HasFields(s),
         s.state \in {"start", "in req", "in drq", "in ack", "out req", "out drq", "out ack",
           "out pad"}
  PROVE  NcrStep(r) = NcrInfo(r) /\ r.state = s.state
<1>1. r.loaded = FALSE /\ r.state = s.state
  BY DEF Others, HasFields, Fields
<1> QED
  BY <1>1 DEF NcrStep, Selecting

(* A step of the chip's clock whose time has come. *)
Clocked(s, u) == u = Rearmed(NcrStep([s EXCEPT !.timer = Off]))

(* The start of a transfer: it latches the phase and waits for REQ in that   *)
(* direction.                                                                *)
LEMMA BeginsOn ==
  ASSUME NEW s, NEW p, Steady(s, p), s.chip = "initiator", Begins(s, p), NEW u, Clocked(s, u)
  PROVE  InStep(u, p)
<1>1. PICK r : r = [s EXCEPT !.timer = Off]
  OBVIOUS
<1>2. PICK t : t = NcrStep(r)
  OBVIOUS
<1>3. HasFields(s) /\ s.state = "start" /\ s.loaded = FALSE /\ Starts(s, p) /\ s.sbx = s.single
  BY DEF Begins, Chip, Steady, Typed, Wires
<1>4. Others(s, r, {"timer"}) /\ BusSame(s, r) /\ HasFields(r)
  BY <1>1, <1>3, TimerStops
<1>5. Phase(r) = Phase(s) /\ Ctrl(r) = Ctrl(s) /\ r.stall = FALSE
  BY <1>3, <1>4, BusKept DEF Others, HasFields, Fields, Steady
<1>6. t = [r EXCEPT !.phase = Phase(s), !.state = IF "IO" \in Ctrl(s) THEN "in req" ELSE "out req"]
  <2>1. t = NcrInfo(r) /\ r.state = "start"
    BY <1>2, <1>3, <1>4, InfoState
  <2> QED
    BY <1>5, <2>1 DEF NcrInfo
<1>7. /\ Others(r, t, {"phase", "state"}) /\ t.phase = Phase(s) /\ t.stall = FALSE
      /\ t.state = IF "IO" \in Ctrl(s) THEN "in req" ELSE "out req"
  BY <1>4, <1>5, <1>6 DEF Others, HasFields, Fields
<1>8. HasFields(t) /\ t.state # "idle"
  BY <1>4, <1>7 DEF HasFields, Others
<1>9. u = Rearmed(t)
  BY <1>1, <1>2 DEF Clocked
<1>10. Others(t, u, {"timer", "stall"}) /\ u.stall = FALSE /\ u.timer = 0
  BY <1>7, <1>8, <1>9, Rearms
<1>11. Others(s, u, InfoParts)
  BY <1>4, <1>7, <1>10 DEF Others, InfoParts
<1>12. /\ u.phase = Phase(s) /\ u.state = t.state /\ u.full = s.full /\ u.byte = s.byte
       /\ u.dreq = s.dreq
       /\ u.dataReq = s.dataReq /\ u.count = s.count /\ u.sbx = s.sbx
  BY <1>3, <1>4, <1>7, <1>8, <1>10, ZenonT(60) DEF Others, HasFields, Fields
<1>13. /\ BusSame(s, u) /\ Typed(u) /\ Knows(u, p) /\ Untold(u, p) /\ u.chip = s.chip
       /\ u.loaded = s.loaded
       /\ u.cmd = s.cmd /\ u.single = s.single /\ u.dma = s.dma /\ u.put = s.put
  <2>1. Untold(s, p) /\ u.count \in Nat /\ u.dataReq = u.dreq
    BY <1>3, <1>12 DEF Starts, Steady, Typed
  <2> QED
    BY <1>10, <1>11, <2>1, InfoOn, ZenonT(60)
<1>14. Asking(u, 1) /\ Phase(u) = Phase(s) /\ u.taken = s.taken
  BY <1>3, <1>13, BusKept DEF Starts
<1>15. "IO" \in Ctrl(s) <=> "IO" \in Phase(s)
  BY DEF Phase, PhaseLines
<1>16. Left(u) = s.count /\ s.count \in Nat
  BY <1>3, <1>12, <1>13 DEF Left, One, Starts, Steady, Typed
<1>17. Chip(u, t.state, {0}) /\ Vacant(u, p)
  BY <1>3, <1>10, <1>12, <1>13 DEF Chip, Starts, Vacant
<1>18. CASE "IO" \in Phase(s)
  <2>1. u.full = FALSE \/ ~u.full
    BY <1>3, <1>12, <1>18 DEF Starts, Vacant
  <2>2. ~s.full /\ One(s.full) = 0 /\ p.in
    BY <1>3, <1>18 DEF Starts, Vacant, One
  <2>3. TransferIn(u, p, 0)
    BY <1>3, <1>12, <1>13, <1>16, <1>18, <2>2 DEF TransferIn, Starts, Drives, Steady
  <2>4. InReq(u, p)
    BY <1>7, <1>13, <1>14, <1>15, <1>17, <1>18, <2>3 DEF InReq
  <2> QED
    BY <1>10, <1>12, <1>13, <2>4 DEF InStep, Normal, Connected, Steady
<1>19. CASE "IO" \notin Phase(s)
  <2>1. ~p.in
    BY <1>3, <1>19 DEF Starts
  <2>2. u.cmd = "info" /\ u.phase = DataOut /\ Phase(u) = DataOut => Ordered(u)
    BY <1>3, <1>12, <1>13, <1>14 DEF Starts, Ordered
  <2>3. TransferOut(u, p, 0)
    BY <1>3, <1>12, <1>13, <1>16, <1>19, <2>1, <2>2 DEF TransferOut, Starts, Drives, Steady
  <2>4. OutReq(u, p)
    BY <1>3, <1>7, <1>12, <1>13, <1>14, <1>15, <1>17, <1>19, <2>1, <2>3 DEF OutReq, Starts
  <2> QED
    BY <1>10, <1>12, <1>13, <2>4 DEF InStep, Normal, Connected, Steady
<1> QED
  BY <1>18, <1>19

(* What a program in the middle of its decisions knows, with a chip that was *)
(* busy until now.                                                           *)
LEMMA BusyKnowsOn ==
  ASSUME NEW s, NEW p, Knows(s, p), s.state # "idle", NEW u, u.active = s.active, u.write = s.write,
         Heard(u, p), p.at = "decide" => u.int \in {{}, {"service"}}
  PROVE  Knows(u, p)
<1>1. ~Ready(s) /\ ~Idle(s)
  BY DEF Ready, Idle
<1>2. p.at # "idle" /\ p.at \in {"go", "wait", "decide", "idle"}
  BY <1>1 DEF Knows
<1>3. p.at = "decide" => p.seen # {"service"} /\ "disconnected" \notin p.seen
     /\ "invalid" \notin p.seen
  BY <1>1 DEF Knows
<1>4. u.int \in {{}, {"service"}, {"complete"}, {"invalid"}, {"disconnected"}}
  BY DEF Heard
<1>5. u.int \in {{"service"}, {"invalid"}} => Ready(u)
  BY DEF Heard
<1>6. u.int = {"disconnected"} => Idle(u)
  BY DEF Heard
<1> QED
  BY <1>2, <1>3, <1>4, <1>5, <1>6 DEF Knows, Heard

(* No cause stands yet. *)
Unheard(s, p) == s.int = {} /\ (p.at \in {"go", "wait"} \/ s.state # "idle")

(* A chip that ends its command with a cause, and is idle. *)
LEMMA TellsOf ==
  ASSUME NEW s, NEW p, Steady(s, p), Unheard(s, p), s.chip = "initiator", NEW x,
         Others(s, x, InfoParts),
         x.state = "idle", x.loaded = FALSE, x.timer = Off, x.count \in Nat, Vacant(x, p),
           x.dataReq = FALSE,
         NEW cause,
         \/ cause = "service" /\ Asking(s, 1)
         \/ cause = "complete" /\ Phase(s) = MessageIn /\ Holding(s) /\ s.nData = 0
            /\ p.at \in {"go", "wait"},
         NEW u, u = Rearmed(Interrupt(x, cause))
  PROVE  InStep(u, p)
<1>1. HasFields(s) /\ HasFields(x)
  BY DEF Steady, Typed, Wires, Others, HasFields
<1>2. PICK t : t = Interrupt(x, cause)
  OBVIOUS
<1>3. Notified(x, t, cause)
  BY <1>1, <1>2, Interrupted
<1>4. /\ Others(x, t, {"int", "mint", "intNcr", "single", "dma"}) /\ t.int = x.int \cup {cause}
      /\ t.mint = TRUE
  BY <1>3 DEF Notified
<1>5. HasFields(t) /\ t.state = "idle" /\ t.timer = Off
  BY <1>1, <1>4 DEF Others, HasFields, Fields
<1>6. Others(t, u, {"timer", "stall"}) /\ u.stall = FALSE /\ u.timer = Off
  BY <1>2, <1>5, Rearms
<1>7. Others(s, u, InfoParts \cup {"int", "mint", "intNcr", "single", "dma"})
  BY <1>4, <1>6 DEF Others, InfoParts
<1>8. BusSame(s, u) /\ u.chip = s.chip /\ u.active = s.active /\ u.write = s.write
  BY <1>1, <1>7 DEF BusSame, BusParts, HandParts, Others, InfoParts, HasFields, Fields
<1>9. /\ u.state = "idle" /\ u.loaded = FALSE /\ u.count = x.count /\ u.full = x.full
      /\ u.dreq = x.dreq
      /\ u.dataReq = x.dataReq /\ u.int = x.int \cup {cause} /\ u.mint = TRUE
  BY <1>1, <1>4, <1>5, <1>6 DEF Others, HasFields, Fields
<1>10. x.int = {}
  BY <1>1 DEF Others, InfoParts, HasFields, Fields, Unheard
<1>11. u.int = {cause} /\ u.int # {}
  BY <1>9, <1>10
<1>12. Typed(u)
  BY <1>8, <1>9, TypedOn DEF Steady
<1>13. Asks(s) /\ Asking(s, 1) => Asks(u) /\ Asking(u, 1)
  BY <1>8, BusKept
<1>14. Heard(u, p)
  <2>1. cause = "service" => Ready(u)
    BY <1>8, <1>9, <1>13 DEF Ready, Asking
  <2> QED
    BY <1>9, <1>11, <2>1 DEF Heard
<1>15. Knows(u, p)
  <2>1. CASE p.at \in {"go", "wait"}
    BY <1>8, <1>14, <2>1, KnowsOn DEF Steady
  <2>2. CASE s.state # "idle"
    <3>1. p.at = "decide" => cause = "service"
      OBVIOUS
    <3>2. p.at = "decide" => u.int \in {{}, {"service"}}
      BY <1>11, <3>1
    <3> QED
      BY <1>8, <1>14, <2>2, <3>2, BusyKnowsOn DEF Steady
  <2> QED
    BY <2>1, <2>2 DEF Unheard
<1>16. Chip(u, "idle", {Off}) /\ Vacant(u, p)
  BY <1>6, <1>9 DEF Chip, Vacant
<1>17. Asking(u, 1) \/ (Phase(u) = MessageIn /\ Holding(u) /\ u.nData = 0)
  BY <1>8, <1>13, BusKept DEF Asking
<1>18. Resting(u, p)
  BY <1>16, <1>17 DEF Resting
<1> QED
  BY <1>6, <1>8, <1>9, <1>12, <1>15, <1>18 DEF InStep, Normal, Connected, Vacant

(* The same while the program waits. *)
LEMMA Tells ==
  ASSUME NEW s, NEW p, Steady(s, p), Untold(s, p), s.chip = "initiator", NEW x,
         Others(s, x, InfoParts),
         x.state = "idle", x.loaded = FALSE, x.timer = Off, x.count \in Nat, Vacant(x, p),
           x.dataReq = FALSE,
         NEW cause,
         \/ cause = "service" /\ Asking(s, 1)
         \/ cause = "complete" /\ Phase(s) = MessageIn /\ Holding(s) /\ s.nData = 0,
         NEW u, u = Rearmed(Interrupt(x, cause))
  PROVE  InStep(u, p)
<1>1. Unheard(s, p)
  BY DEF Untold, Unheard
<1> QED
  <2>1. p.at \in {"go", "wait"}
    BY DEF Untold
  <2> QED
    BY <1>1, <2>1, TellsOf

(* REQ is up when the target asks, and IO tells the direction. *)
LEMMA OnTheLines ==
  ASSUME NEW s, Wires(s), Handshake(s), s.nLines \subseteq {"ATN", "ACK"}
  PROVE  /\ "REQ" \in Ctrl(s) <=> Asks(s)
         /\ "IO" \in Ctrl(s) <=> "IO" \in Phase(s)
  BY DEF Handshake, Ctrl, Phase, PhaseLines, Wires

(* In a data phase the target is at a position of the data. *)
LEMMA DataStages ==
  ASSUME NEW s, Handshake(s)
  PROVE  /\ Phase(s) = DataIn => InData(s) /\ s.pos \in Nat /\ s.pos > 0
         /\ Phase(s) = DataOut => OutData(s) /\ s.pos \in Nat
<1>1. Phase(s) = DataIn => InData(s)
  BY PhasesDiffer DEF Handshake, InMessage, InCommand, OutData, InStatus, InReply, Stands
<1>2. Phase(s) = DataOut => OutData(s)
  BY PhasesDiffer DEF Handshake, InMessage, InCommand, InData, InStatus, InReply, Stands
<1>3. InData(s) => s.pos \in Nat /\ s.pos > 0
  BY DEF InData
<1>4. OutData(s) => s.pos \in Nat
  BY DEF OutData
<1> QED
  BY <1>1, <1>2, <1>3, <1>4

(* What is on the data lines in a data in phase is the number of the byte. *)
LEMMA BusIsPosition ==
  ASSUME NEW s, Asking(s, 1), Phase(s) = DataIn
  PROVE  BusData(s) = s.pos
<1>1. s.sub \in {"recv1", "send1"} /\ Handshake(s) /\ s.nData = 0
  BY DEF Asking, Asks
<1>2. InData(s)
  BY <1>1, DataStages
<1> QED
  BY <1>1, <1>2 DEF InData, Asks, BusData

(* Remaining() and LastOne() read what is left. *)
LEMMA CountsDown ==
  ASSUME NEW s, s.count \in Nat
  PROVE  /\ Left(s) \in Nat
         /\ (IF s.single THEN s.sbx ELSE s.count # 0) <=> Left(s) > 0
         /\ (IF s.single THEN s.sbx ELSE s.count = 1) <=> Left(s) = 1
  BY DEF Left, One

(* In, REQ awaited: the chip reads the byte into its register and stalls     *)
(* until it is taken; a pad byte it only counts; if the phase has changed or *)
(* nothing is left it tells the program.                                     *)
LEMMA InReqOn ==
  ASSUME NEW s, NEW p, Steady(s, p), s.chip = "initiator", InReq(s, p), NEW u, Clocked(s, u)
  PROVE  InStep(u, p)
<1>1. PICK r : r = [s EXCEPT !.timer = Off]
  OBVIOUS
<1>2. PICK t : t = NcrStep(r)
  OBVIOUS
<1>3. /\ Wires(s) /\ HasFields(s) /\ s.state = "in req" /\ s.loaded = FALSE /\ Vacant(s, p)
      /\ Untold(s, p)
      /\ Asking(s, 1) /\ TransferIn(s, p, 0) /\ s.count \in Nat
  BY DEF InReq, Chip, Steady, Typed, Wires
<1>4. Others(s, r, {"timer"}) /\ BusSame(s, r) /\ HasFields(r) /\ r.timer = Off
  BY <1>1, <1>3, TimerStops
<1>5. /\ Phase(r) = Phase(s) /\ Ctrl(r) = Ctrl(s) /\ BusData(r) = BusData(s) /\ Asking(r, 1)
  BY <1>3, <1>4, BusKept
<1>6. /\ r.stall = FALSE /\ r.single = s.single /\ r.sbx = s.sbx /\ r.count = s.count
      /\ r.phase = s.phase
      /\ r.cmd = s.cmd /\ r.dma = s.dma /\ r.dreq = FALSE /\ r.dataReq = FALSE
      /\ r.loaded = FALSE /\ r.full = s.full
      /\ r.got = s.got
  BY <1>3, <1>4, ZenonT(60) DEF Others, HasFields, Fields, Steady, Vacant
<1>7. t = NcrInfo(r) /\ r.state = "in req"
  BY <1>2, <1>3, <1>4, InfoState
<1>8. u = Rearmed(t)
  BY <1>1, <1>2 DEF Clocked
<1>9. "REQ" \in Ctrl(r)
  BY <1>3, <1>5, OnTheLines DEF Asking
<1>10. Remaining(r) <=> Left(s) > 0
  BY <1>3, <1>6, CountsDown DEF Remaining
<1>11. CASE ~(Remaining(r) /\ Phase(r) = r.phase)
  <2>1. PICK x : x = [r EXCEPT !.state = "idle"]
    OBVIOUS
  <2>2. t = Interrupt(x, "service")
    BY <1>7, <1>9, <1>11, <2>1 DEF NcrInfo
  <2>3. Others(r, x, {"state"}) /\ x.state = "idle"
    BY <1>4, <2>1 DEF Others, HasFields, Fields
  <2>4. Others(s, x, InfoParts)
    BY <1>4, <2>3 DEF Others, InfoParts
  <2>5. /\ x.loaded = FALSE /\ x.timer = Off /\ x.count = s.count /\ x.dataReq = FALSE
        /\ x.dreq = FALSE
        /\ x.full = s.full
    BY <1>4, <1>6, <2>3 DEF Others, HasFields, Fields
  <2>6. Vacant(x, p)
    BY <1>3, <2>5 DEF Vacant
  <2> QED
    BY <1>3, <1>8, <2>2, <2>3, <2>4, <2>5, <2>6, Tells
<1>12. CASE Remaining(r) /\ Phase(r) = r.phase /\ r.cmd = "pad"
  <2>1. t = [r EXCEPT !.state = "in drq", !.got = IF r.phase = DataIn THEN @ + 1 ELSE @]
    BY <1>7, <1>9, <1>12 DEF NcrInfo
  <2>2. /\ Others(r, t, {"state", "got"}) /\ t.state = "in drq" /\ t.stall = FALSE
    BY <1>4, <1>6, <2>1 DEF Others, HasFields, Fields
  <2>3. t.got = IF s.phase = DataIn THEN s.got + 1 ELSE s.got
    BY <1>4, <1>6, <2>1 DEF HasFields, Fields
  <2>4. HasFields(t)
    BY <1>4, <2>2 DEF Others, HasFields
  <2>5. Others(t, u, {"timer", "stall"}) /\ u.stall = FALSE /\ u.timer = 0
    BY <1>8, <2>2, <2>4, Rearms
  <2>6. Others(s, u, InfoParts \cup {"got"})
    BY <1>4, <2>2, <2>5 DEF Others, InfoParts
  <2>7. /\ u.got = t.got /\ u.count = s.count /\ u.dreq = FALSE /\ u.dataReq = FALSE
        /\ u.state = "in drq"
        /\ u.full = s.full /\ u.phase = s.phase /\ u.sbx = s.sbx
    <3>1. /\ u.got = t.got /\ u.count = t.count /\ u.dreq = t.dreq /\ u.dataReq = t.dataReq
          /\ u.state = t.state /\ u.full = t.full /\ u.phase = t.phase /\ u.sbx = t.sbx
      BY <2>4, <2>5 DEF Others, HasFields, Fields
    <3>2. /\ t.count = r.count /\ t.dreq = r.dreq /\ t.dataReq = r.dataReq
          /\ t.full = r.full /\ t.phase = r.phase /\ t.sbx = r.sbx
      BY <1>4, <2>2 DEF Others, HasFields, Fields
    <3> QED
      BY <1>6, <2>2, <3>1, <3>2
  <2>8. u.got \in Nat
    <3>1. s.got \in Nat
      BY DEF Steady, Typed
    <3>2. t.got \in Nat
      BY <2>3, <3>1
    <3>3. u.got = t.got
      BY <2>7
    <3> QED
      BY <3>2, <3>3
  <2>9. /\ HandSame(s, u) /\ Typed(u) /\ Knows(u, p) /\ Untold(u, p) /\ u.chip = s.chip
        /\ u.loaded = s.loaded
        /\ u.cmd = s.cmd /\ u.single = s.single /\ u.dma = s.dma /\ u.taken = s.taken
    BY <1>3, <2>5, <2>6, <2>7, <2>8, InfoCounts, ZenonT(60)
  <2>10. s.phase = Phase(s) /\ Left(u) = Left(s) /\ Left(u) > 0
    BY <1>5, <1>6, <1>10, <1>12, <2>7, <2>9 DEF Left
  <2>11. Phase(u) = Phase(s)
    BY <2>9, HandKept
  <2>12. Asking(u, 0)
    <3>1. /\ Handshake(u) /\ Asks(u) /\ u.nLines = s.nLines /\ u.nData = s.nData /\ u.pos = s.pos
          /\ Size(u) = Size(s) /\ (Reads(u) <=> Reads(s)) /\ (Writes(u) <=> Writes(s))
      BY <1>3, <2>9, HandKept DEF Asking
    <3>2. Kept(u, 0)
      <4>1. Phase(s) = DataIn => s.pos \in Int
        <5>1. Handshake(s)
          BY <1>3 DEF Asking
        <5> QED
          BY <5>1, DataStages
      <4>2. s.got \in Nat
        BY DEF Steady, Typed
      <4> QED
        <5>1. Kept(s, 1) /\ u.taken = s.taken /\ s.phase = Phase(s) /\ u.got = t.got
          BY <1>3, <2>7, <2>9, <2>10 DEF Asking
        <5>2. u.got = IF Phase(s) = DataIn THEN s.got + 1 ELSE s.got
          BY <2>3, <5>1
        <5> QED
          BY <2>11, <3>1, <4>1, <4>2, <5>1, <5>2, PhasesDiffer DEF Kept
    <3> QED
      BY <1>3, <2>11, <3>1, <3>2 DEF Asking
  <2>13. TransferIn(u, p, 1)
    BY <1>3, <1>6, <1>12, <2>7, <2>9, <2>10 DEF TransferIn
  <2>14. Chip(u, "in drq", {0}) /\ Vacant(u, p) /\ SamePhase(u)
    BY <1>3, <2>5, <2>7, <2>9, <2>10, <2>11 DEF Chip, Vacant, SamePhase
  <2>15. InEmpty(u, p)
    BY <2>9, <2>12, <2>13, <2>14 DEF InEmpty
  <2> QED
    BY <2>5, <2>7, <2>9, <2>15 DEF InStep, Normal, Connected
<1>13. CASE Remaining(r) /\ Phase(r) = r.phase /\ r.cmd # "pad"
  <2>1. PICK b : b = [r EXCEPT !.state = "in drq", !.full = TRUE, !.byte = BusData(r),
       !.stall = TRUE]
    OBVIOUS
  <2>2. /\ Others(r, b, {"state", "full", "byte", "stall"}) /\ b.state = "in drq" /\ b.stall = TRUE
        /\ b.byte = BusData(s) /\ b.full = TRUE /\ b.dreq = FALSE /\ b.dataReq = FALSE
        /\ b.dma = s.dma
    BY <1>4, <1>5, <1>6, <2>1 DEF Others, HasFields, Fields
  <2>3. t = IF s.dma THEN SetDreq(b, TRUE) ELSE b
    BY <1>6, <1>7, <1>9, <1>13, <2>1, <2>2 DEF NcrInfo
  <2>4. /\ Others(b, t, {"dreq", "dataReq"}) /\ t.dreq = t.dataReq
        /\ IF s.dma THEN t.dreq = TRUE ELSE t.dreq = FALSE
    BY <1>4, <2>2, <2>3 DEF SetDreq, Others, HasFields, Fields
  <2>5. HasFields(t) /\ t.state = "in drq" /\ t.stall = TRUE /\ t.timer = Off
    BY <1>4, <2>2, <2>4 DEF Others, HasFields, Fields
  <2>6. Others(t, u, {"timer", "stall"}) /\ u.stall = FALSE /\ u.timer = Off
    BY <1>8, <2>5, Rearms
  <2>7. Others(s, u, InfoParts)
    BY <1>4, <2>2, <2>4, <2>6, ZenonT(60) DEF Others, InfoParts
  <2>8. /\ u.count = s.count /\ u.dreq = t.dreq /\ u.dataReq = t.dreq /\ u.state = "in drq"
        /\ u.full = TRUE
        /\ u.phase = s.phase /\ u.sbx = s.sbx /\ u.byte = BusData(s)
    <3>1. /\ u.byte = t.byte /\ u.count = t.count /\ u.dreq = t.dreq /\ u.dataReq = t.dataReq
          /\ u.state = t.state /\ u.full = t.full /\ u.phase = t.phase /\ u.sbx = t.sbx
      BY <2>5, <2>6 DEF Others, HasFields, Fields
    <3>2. /\ t.byte = b.byte /\ t.count = b.count
          /\ t.full = b.full /\ t.phase = b.phase /\ t.sbx = b.sbx /\ b.count = r.count
          /\ b.phase = r.phase
          /\ b.sbx = r.sbx
      BY <1>4, <2>2, <2>4 DEF Others, HasFields, Fields
    <3> QED
      BY <1>6, <2>2, <2>4, <2>5, <3>1, <3>2
  <2>9. /\ BusSame(s, u) /\ Typed(u) /\ Knows(u, p) /\ Untold(u, p) /\ u.chip = s.chip
        /\ u.loaded = s.loaded
        /\ u.cmd = s.cmd /\ u.single = s.single /\ u.dma = s.dma
    <3>1. u.count \in Nat
      BY <1>3, <2>8
    <3>2. u.dataReq = u.dreq
      BY <2>8
    <3> QED
      BY <1>3, <2>6, <2>7, <3>1, <3>2, InfoOn, ZenonT(60)
  <2>10. s.phase = Phase(s) /\ Left(u) = Left(s) /\ Left(u) > 0
    BY <1>5, <1>6, <1>10, <1>13, <2>8, <2>9 DEF Left
  <2>11. Phase(u) = Phase(s) /\ Asking(u, 1) /\ u.pos = s.pos
    BY <1>3, <2>9, BusKept
  <2>12. s.cmd = "info"
    BY <1>3, <1>6, <1>13 DEF TransferIn
  <2>13. u.phase = DataIn => u.byte = u.pos
    BY <1>3, <2>8, <2>10, <2>11, BusIsPosition
  <2>14. TransferIn(u, p, 0)
    BY <1>3, <2>8, <2>9, <2>10 DEF TransferIn
  <2>15. Chip(u, "in drq", {Off}) /\ SamePhase(u)
    BY <1>3, <2>6, <2>8, <2>9, <2>10, <2>11 DEF Chip, SamePhase
  <2>16. ~s.dma => p.left > 0
    <3>1. ~s.dma => p.left = Left(s) - 0
      BY <1>3, <2>12 DEF TransferIn
    <3>2. Left(s) \in Nat /\ Left(s) > 0
      BY <1>3, <2>10, CountsDown
    <3> QED
      BY <3>1, <3>2
  <2>17. InFull(u, p)
    BY <2>4, <2>8, <2>9, <2>11, <2>12, <2>13, <2>14, <2>15, <2>16 DEF InFull
  <2> QED
    BY <2>6, <2>8, <2>9, <2>17 DEF InStep, Normal, Connected
<1> QED
  BY <1>11, <1>12, <1>13

(* The fields a step of a transfer changes with the bus. *)
LineParts == InfoParts \cup CallParts \cup {"nData", "taken"}

(* A step of a transfer that writes lines: the rest is as it was. *)
LEMMA LinesOn ==
  ASSUME NEW s, NEW p, Steady(s, p), Untold(s, p), NEW u, Others(s, u, LineParts), Wires(u),
         u.count \in Nat, u.taken \in Nat, u.dataReq = u.dreq, u.stall = FALSE
  PROVE  /\ Typed(u) /\ Knows(u, p) /\ Untold(u, p) /\ u.chip = s.chip /\ u.loaded = s.loaded
         /\ u.cmd = s.cmd /\ u.single = s.single /\ u.dma = s.dma /\ u.put = s.put /\ u.got = s.got
         /\ u.dest = s.dest
<1>1. HasFields(s)
  BY DEF Steady, Typed, Wires
<1>2. /\ u.chip = s.chip /\ u.loaded = s.loaded /\ u.cmd = s.cmd /\ u.single = s.single
      /\ u.dma = s.dma
      /\ u.put = s.put /\ u.active = s.active /\ u.write = s.write /\ u.int = s.int
      /\ u.mint = s.mint
      /\ u.intNcr = s.intNcr /\ u.got = s.got /\ u.plan = s.plan /\ u.dest = s.dest
  BY <1>1 DEF Others, LineParts, InfoParts, CallParts, TargetParts, HasFields, Fields
<1>3. Knows(u, p) /\ Untold(u, p)
  BY <1>2, UntoldOn DEF Steady
<1>4. Typed(u)
  BY <1>2 DEF Steady, Typed
<1> QED
  BY <1>2, <1>3, <1>4

(* What is left depends on three fields. *)
LEMMA LeftSame ==
  ASSUME NEW s, NEW u, u.single = s.single, u.sbx = s.sbx, u.count = s.count
  PROVE  Left(u) = Left(s)
  BY DEF Left

(* IO is up in the three phases in. *)
LEMMA IOPhases ==
  ASSUME NEW phase
  PROVE  /\ phase \in {DataIn, Status, MessageIn} => "IO" \in phase
         /\ phase \in {DataOut, Command, MessageOut} => "IO" \notin phase
<1>1. "IO" \in DataIn /\ "IO" \notin DataOut
  BY DEF DataIn, DataOut
<1>2. "IO" \notin Command /\ "IO" \in Status
  BY DEF Command, Status
<1>3. "IO" \notin MessageOut /\ "IO" \in MessageIn
  BY DEF MessageOut, MessageIn
<1> QED
  BY <1>1, <1>2, <1>3

(* In, the register emptied: the chip raises ACK and the target removes its  *)
(* byte.                                                                     *)
LEMMA InEmptyOn ==
  ASSUME NEW s, NEW p, Steady(s, p), s.chip = "initiator", InEmpty(s, p), NEW u, Clocked(s, u)
  PROVE  InStep(u, p)
<1>1. PICK r : r = [s EXCEPT !.timer = Off]
  OBVIOUS
<1>2. PICK x : x = [r EXCEPT !.state = "in ack"]
  OBVIOUS
<1>3. /\ Wires(s) /\ HasFields(s) /\ s.state = "in drq" /\ s.loaded = FALSE /\ Vacant(s, p)
      /\ Untold(s, p)
      /\ Asking(s, 0) /\ TransferIn(s, p, 1) /\ SamePhase(s) /\ s.count \in Nat /\ s.taken \in Nat
  BY DEF InEmpty, Chip, Steady, Typed, Wires
<1>4. Others(s, r, {"timer"}) /\ HasFields(r)
  BY <1>1, <1>3, TimerStops
<1>5. PICK t : t = NcrStep(r)
  OBVIOUS
<1>6. t = NcrWrite(x, {"ACK"}, {})
  <2>1. t = NcrInfo(r) /\ r.state = "in drq"
    BY <1>3, <1>4, <1>5, InfoState
  <2> QED
    BY <1>2, <2>1 DEF NcrInfo
<1>7. u = Rearmed(t)
  BY <1>1, <1>5 DEF Clocked
<1>8. Others(s, x, {"timer", "state"}) /\ x.state = "in ack" /\ HasFields(x)
  BY <1>2, <1>3, <1>4 DEF Others, HasFields, Fields
<1>9. BusSame(s, x)
  BY <1>3, <1>8, ZenonT(60) DEF BusSame, BusParts, HandParts, Others, HasFields, Fields
<1>10. Wires(x) /\ Asking(x, 0) /\ Phase(x) = Phase(s) /\ x.nData = s.nData
  BY <1>3, <1>9, BusKept
<1>11. "IO" \in Phase(s)
  BY <1>3 DEF TransferIn, SamePhase
<1>12. Phase(s) \notin {DataOut, MessageOut}
  BY <1>11, IOPhases
<1>13. /\ Handshake(x) /\ Asks(x) /\ x.nLines = {} /\ x.nData = 0 /\ Kept(x, 0)
  BY <1>10, <1>12 DEF Asking
<1>14. AckTaken(x, t)
  BY <1>6, <1>10, <1>12, <1>13, AckRaised DEF Right
<1>15. /\ Others(x, t, WireParts) /\ Wires(t) /\ t.nLines = {"ACK"} /\ Handshake(t) /\ ~Asks(t)
       /\ Phase(t) = Phase(s) /\ Kept(t, 0) /\ t.taken = s.taken
  BY <1>9, <1>10, <1>12, <1>13, <1>14, BusKept DEF AckTaken
<1>16. HasFields(t) /\ t.state = "in ack" /\ t.stall = FALSE
  BY <1>8, <1>15 DEF Others, WireParts, HasFields, Fields, Steady
<1>17. Others(t, u, {"timer", "stall"}) /\ u.stall = FALSE /\ u.timer = 0
  BY <1>7, <1>16, Rearms
<1>18. BusSame(t, u)
  BY <1>16, <1>17, ZenonT(60) DEF BusSame, BusParts, HandParts, Others, HasFields, Fields
<1>19. Wires(u) /\ Holding(u) /\ Phase(u) = Phase(s) /\ u.taken = s.taken /\ u.nData = t.nData
  <2>1. Holding(t)
    BY <1>15 DEF Holding
  <2> QED
    BY <1>15, <1>18, <2>1, BusKept
<1>20. Others(s, u, LineParts)
  BY <1>8, <1>15, <1>17 DEF Others, LineParts, WireParts, InfoParts, CallParts, TargetParts
<1>21. /\ t.nData = x.nData
  BY <1>8, <1>15 DEF Others, WireParts, HasFields, Fields
<1>22. /\ u.count = s.count /\ u.dreq = s.dreq /\ u.dataReq = s.dataReq /\ u.full = s.full
       /\ u.phase = s.phase /\ u.sbx = s.sbx /\ u.state = t.state
  <2>1. /\ u.count = t.count /\ u.dreq = t.dreq /\ u.dataReq = t.dataReq /\ u.full = t.full
        /\ u.phase = t.phase /\ u.sbx = t.sbx /\ u.state = t.state
    BY <1>16, <1>17 DEF Others, HasFields, Fields
  <2>2. /\ t.count = x.count /\ t.dreq = x.dreq /\ t.dataReq = x.dataReq /\ t.full = x.full
        /\ t.phase = x.phase /\ t.sbx = x.sbx
    BY <1>8, <1>15 DEF Others, WireParts, HasFields, Fields
  <2>3. /\ x.count = s.count /\ x.dreq = s.dreq /\ x.dataReq = s.dataReq /\ x.full = s.full
        /\ x.phase = s.phase /\ x.sbx = s.sbx
    BY <1>3, <1>8 DEF Others, HasFields, Fields
  <2> QED
    BY <2>1, <2>2, <2>3
<1>23. u.dataReq = u.dreq
  BY <1>22 DEF Steady
<1>24. u.count \in Nat /\ u.taken \in Nat
  BY <1>3, <1>19, <1>22
<1>25. /\ Typed(u) /\ Knows(u, p) /\ Untold(u, p) /\ u.chip = s.chip /\ u.loaded = s.loaded
       /\ u.cmd = s.cmd /\ u.single = s.single /\ u.dma = s.dma
  BY <1>3, <1>17, <1>19, <1>20, <1>23, <1>24, LinesOn, ZenonT(60)
<1>26. Left(u) = Left(s)
  BY <1>22, <1>25, LeftSame
<1>27. TransferIn(u, p, 1) /\ SamePhase(u)
  BY <1>3, <1>19, <1>22, <1>25, <1>26 DEF TransferIn, SamePhase
<1>28. Chip(u, "in ack", {0}) /\ Vacant(u, p)
  BY <1>3, <1>16, <1>17, <1>22, <1>25 DEF Chip, Vacant
<1>29. u.nData = 0
  BY <1>13, <1>19, <1>21
<1>30. InAck(u, p)
  BY <1>19, <1>25, <1>27, <1>28, <1>29 DEF InAck
<1> QED
  BY <1>17, <1>23, <1>25, <1>30 DEF InStep, Normal, Connected

(* One byte less is left. *)
LEMMA OneByteLess ==
  ASSUME NEW s, HasFields(s), s.count \in Nat, Left(s) > 0, NEW t, t = OneLess(s)
  PROVE  /\ Others(s, t, {"sbx", "count"}) /\ t.count \in Nat /\ Left(t) = Left(s) - 1
<1>1. CASE s.single
  <2>1. t = [s EXCEPT !.sbx = FALSE]
    BY <1>1 DEF OneLess
  <2>2. Others(s, t, {"sbx"}) /\ t.sbx = FALSE /\ t.single = s.single /\ t.count = s.count
    BY <2>1 DEF Others, HasFields, Fields
  <2>3. Left(t) = 0 /\ Left(s) = 1
    BY <1>1, <2>2 DEF Left, One
  <2> QED
    BY <2>2, <2>3 DEF Others
<1>2. CASE ~s.single
  <2>1. t = [s EXCEPT !.count = @ - 1]
    BY <1>2 DEF OneLess
  <2>2. Others(s, t, {"count"}) /\ t.single = s.single
    BY <2>1 DEF Others, HasFields, Fields
  <2>3. t.count = s.count - 1
    BY <2>1 DEF HasFields, Fields
  <2>4. Left(t) = t.count /\ Left(s) = s.count
    BY <1>2, <2>2 DEF Left
  <2> QED
    BY <2>2, <2>3, <2>4 DEF Others
<1> QED
  BY <1>1, <1>2

(* The next byte asked for, after a dropped ACK. *)
LEMMA NextAsked ==
  ASSUME NEW x, NEW t, AskedNext(x, t), Kept(x, 0), x.nData = 0, HasFields(x), NEW u,
         Others(t, u, {"timer", "stall"})
  PROVE  Asking(u, 1) /\ Wires(u) /\ Others(x, u, CallParts \cup {"timer", "stall"})
<1>1. /\ Others(x, t, CallParts) /\ Wires(t) /\ Handshake(t) /\ Asks(t) /\ t.nLines = {}
      /\ Kept(t, 1)
  BY DEF AskedNext
<1>2. t.nData = 0 /\ HasFields(t)
  BY <1>1 DEF Others, CallParts, TargetParts, HasFields, Fields
<1>3. BusSame(t, u)
  BY <1>2 DEF BusSame, BusParts, HandParts, Others, HasFields, Fields
<1>4. Asking(t, 1)
  BY <1>1, <1>2 DEF Asking
<1>5. Asking(u, 1) /\ Wires(u)
  BY <1>1, <1>3, <1>4, BusKept
<1>6. Others(x, u, CallParts \cup {"timer", "stall"})
  BY <1>1 DEF Others
<1> QED
  BY <1>5, <1>6

(* In, REQ gone: the byte is counted and ACK dropped; after the last byte of *)
(* a message ACK stays and the program is told.                              *)
LEMMA InAckOn ==
  ASSUME NEW s, NEW p, Steady(s, p), s.chip = "initiator", InAck(s, p), NEW u, Clocked(s, u)
  PROVE  InStep(u, p)
<1>1. PICK r : r = [s EXCEPT !.timer = Off]
  OBVIOUS
<1>2. PICK y : y = OneLess(r)
  OBVIOUS
<1>3. PICK x : x = [y EXCEPT !.state = "in req"]
  OBVIOUS
<1>4. /\ Wires(s) /\ HasFields(s) /\ s.state = "in ack" /\ s.loaded = FALSE /\ Vacant(s, p)
      /\ Untold(s, p)
      /\ Holding(s) /\ s.nData = 0 /\ TransferIn(s, p, 1) /\ SamePhase(s) /\ s.count \in Nat
      /\ s.taken \in Nat
      /\ s.plan \in Plans
  BY DEF InAck, Chip, Steady, Typed, Wires
<1>5. Others(s, r, {"timer"}) /\ HasFields(r) /\ BusSame(s, r) /\ r.timer = Off
  BY <1>1, <1>4, TimerStops
<1>6. PICK t : t = NcrStep(r)
  OBVIOUS
<1>7. t = NcrInfo(r) /\ r.state = "in ack"
  BY <1>4, <1>5, <1>6, InfoState
<1>8. u = Rearmed(t)
  BY <1>1, <1>6 DEF Clocked
<1>9. Phase(r) = Phase(s) /\ Ctrl(r) = Ctrl(s)
  BY <1>5, BusKept
<1>10. "REQ" \notin Ctrl(r)
  <2>1. Handshake(s) /\ ~Asks(s) /\ s.nLines \subseteq {"ATN", "ACK"}
    BY <1>4 DEF Holding
  <2> QED
    BY <1>4, <1>9, <2>1, OnTheLines
<1>11. Left(r) = Left(s) /\ r.count = s.count
  <2>1. r.single = s.single /\ r.sbx = s.sbx /\ r.count = s.count
    BY <1>4, <1>5 DEF Others, HasFields, Fields
  <2> QED
    BY <2>1, LeftSame
<1>12. Left(s) > 0 /\ s.phase = Phase(s) /\ "IO" \in Phase(s)
  BY <1>4 DEF SamePhase, TransferIn
<1>13. Others(r, y, {"sbx", "count"}) /\ y.count \in Nat /\ Left(y) = Left(s) - 1
  BY <1>2, <1>4, <1>5, <1>11, <1>12, OneByteLess
<1>14. Others(y, x, {"state"}) /\ x.state = "in req"
  BY <1>3, <1>4, <1>5, <1>13 DEF Others, HasFields, Fields
<1>15. Others(s, x, {"timer", "sbx", "count", "state"})
  BY <1>5, <1>13, <1>14 DEF Others
<1>16. HasFields(x) /\ BusSame(s, x)
  BY <1>4, <1>15, ZenonT(60) DEF BusSame, BusParts, HandParts, Others, HasFields, Fields
<1>17. x.count = y.count /\ x.sbx = y.sbx /\ x.single = y.single
  BY <1>4, <1>5, <1>13, <1>14 DEF Others, HasFields, Fields
<1>18. x.count \in Nat /\ Left(x) = Left(s) - 1
  <2>1. Left(x) = Left(y)
    BY <1>17, LeftSame
  <2> QED
    BY <1>13, <1>17, <2>1
<1>19. Remaining(x) <=> Left(x) > 0
  BY <1>18, CountsDown DEF Remaining
<1>20. t = IF ~Remaining(x) /\ Phase(r) = MessageIn THEN Interrupt([x EXCEPT !.state = "idle"],
     "complete")
           ELSE NcrWrite(x, {}, {"ACK"})
  <2>1. t = IF "REQ" \in Ctrl(r) THEN [r EXCEPT !.stall = TRUE]
            ELSE IF ~Remaining(x) /\ Phase(r) = MessageIn
              THEN Interrupt([x EXCEPT !.state = "idle"], "complete")
            ELSE NcrWrite(x, {}, {"ACK"})
    BY <1>2, <1>3, <1>7 DEF NcrInfo
  <2> QED
    BY <1>10, <2>1
<1>21. CASE ~Remaining(x) /\ Phase(r) = MessageIn
  <2>1. PICK z : z = [x EXCEPT !.state = "idle"]
    OBVIOUS
  <2>2. Others(x, z, {"state"}) /\ z.state = "idle"
    BY <1>16, <2>1 DEF Others, HasFields, Fields
  <2>3. Others(s, z, InfoParts)
    BY <1>15, <2>2 DEF Others, InfoParts
  <2>4. /\ z.loaded = FALSE /\ z.dataReq = FALSE /\ z.dreq = FALSE /\ z.full = s.full
    BY <1>4, <1>15, <2>2, ZenonT(60) DEF Others, HasFields, Fields, Steady, Vacant
  <2>5. z.timer = Off /\ z.count \in Nat
    <3>1. z.timer = x.timer /\ z.count = x.count
      BY <1>16, <2>2 DEF Others, HasFields, Fields
    <3>2. x.timer = r.timer
      BY <1>4, <1>5, <1>13, <1>14 DEF Others, HasFields, Fields
    <3> QED
      BY <1>5, <1>18, <3>1, <3>2
  <2>6. Vacant(z, p)
    BY <1>4, <2>4 DEF Vacant
  <2>7. t = Interrupt(z, "complete") /\ Phase(s) = MessageIn
    BY <1>9, <1>20, <1>21, <2>1
  <2> QED
    BY <1>4, <1>8, <2>2, <2>3, <2>4, <2>5, <2>6, <2>7, Tells
<1>22. CASE ~(~Remaining(x) /\ Phase(r) = MessageIn)
  <2>1. t = NcrWrite(x, {}, {"ACK"})
    BY <1>20, <1>22
  <2>2. Phase(s) # MessageIn
    <3>1. Phase(s) = MessageIn => Left(s) <= 1
      BY <1>4, <1>12 DEF TransferIn
    <3>2. Left(s) \in Nat
      BY <1>4, CountsDown
    <3>3. Phase(s) = MessageIn => ~Remaining(x)
      BY <1>18, <1>19, <3>1, <3>2
    <3> QED
      BY <1>9, <1>22, <3>3
  <2>3. /\ Holding(x) /\ Phase(x) = Phase(s) /\ x.nData = 0 /\ Wires(x) /\ x.plan = s.plan
    BY <1>4, <1>16, BusKept
  <2>4. Handshake(x) /\ ~Asks(x) /\ x.nLines = {"ACK"} /\ Kept(x, 0)
    BY <2>3 DEF Holding
  <2>5. AskedNext(x, t)
    BY <1>4, <2>1, <2>2, <2>3, <2>4, AckDropped
  <2>6. HasFields(t) /\ t.state = "in req" /\ t.stall = FALSE
    BY <1>14, <1>15, <1>16, <2>5 DEF AskedNext, Others, CallParts, TargetParts, HasFields, Fields,
       Steady
  <2>7. Others(t, u, {"timer", "stall"}) /\ u.stall = FALSE /\ u.timer = 0
    BY <1>8, <2>6, Rearms
  <2>8. Asking(u, 1) /\ Wires(u) /\ Others(x, u, CallParts \cup {"timer", "stall"})
    BY <1>16, <2>3, <2>4, <2>5, <2>7, NextAsked
  <2>9. Others(s, u, LineParts)
    BY <1>15, <2>8 DEF Others, LineParts, InfoParts
  <2>10. /\ u.dreq = s.dreq /\ u.dataReq = s.dataReq /\ u.full = s.full
         /\ u.phase = s.phase /\ u.state = "in req"
    <3>1. /\ u.dreq = x.dreq /\ u.dataReq = x.dataReq /\ u.full = x.full
          /\ u.phase = x.phase /\ u.state = x.state
      BY <1>16, <2>8 DEF Others, CallParts, TargetParts, HasFields, Fields
    <3>2. /\ x.dreq = s.dreq /\ x.dataReq = s.dataReq /\ x.full = s.full /\ x.phase = s.phase
      BY <1>4, <1>15 DEF Others, HasFields, Fields
    <3> QED
      BY <1>14, <3>1, <3>2
  <2>11. u.count = x.count /\ u.sbx = x.sbx /\ u.single = x.single /\ u.taken = x.taken
    BY <1>16, <2>8 DEF Others, CallParts, TargetParts, HasFields, Fields
  <2>12. x.taken = s.taken
    BY <1>16, BusKept
  <2>13. u.count \in Nat /\ u.taken \in Nat
    BY <1>4, <1>18, <2>11, <2>12
  <2>14. u.dataReq = u.dreq
    BY <2>10 DEF Steady
  <2>15. /\ Typed(u) /\ Knows(u, p) /\ Untold(u, p) /\ u.chip = s.chip /\ u.loaded = s.loaded
         /\ u.cmd = s.cmd /\ u.dma = s.dma
    BY <1>4, <2>7, <2>8, <2>9, <2>13, <2>14, LinesOn, ZenonT(60)
  <2>16. Left(u) = Left(s) - 1 /\ Left(s) \in Nat
    <3>1. Left(u) = Left(x)
      BY <2>11, LeftSame
    <3> QED
      BY <1>4, <1>18, <3>1, CountsDown
  <2>17. TransferIn(u, p, 0)
    <3>1. u.phase = MessageIn => Left(u) <= 1
      <4>1. u.phase = MessageIn => Left(s) <= 1
        BY <1>4, <2>10 DEF TransferIn
      <4> QED
        BY <2>16, <4>1
    <3>2. p.in /\ "IO" \in u.phase /\ u.cmd \in {"info", "pad"} /\ (u.dma => p.left = 0)
      BY <1>4, <2>10, <2>15 DEF TransferIn
    <3>3. ~u.dma /\ u.cmd = "info" => p.left = Left(u) - 0
      <4>1. ~u.dma /\ u.cmd = "info" => p.left = Left(s) - 1
        BY <1>4, <2>15 DEF TransferIn
      <4> QED
        BY <2>16, <4>1
    <3> QED
      BY <3>1, <3>2, <3>3 DEF TransferIn
  <2>18. Chip(u, "in req", {0}) /\ Vacant(u, p)
    BY <1>4, <2>7, <2>10, <2>15 DEF Chip, Vacant
  <2>19. InReq(u, p)
    BY <2>8, <2>15, <2>17, <2>18 DEF InReq
  <2> QED
    BY <2>7, <2>14, <2>15, <2>19 DEF InStep, Normal, Connected
<1> QED
  BY <1>21, <1>22

(* Out, REQ awaited: the chip asks for a byte, unless its register is full;  *)
(* if the phase has changed or nothing is left it tells the program.         *)
LEMMA OutReqOn ==
  ASSUME NEW s, NEW p, Steady(s, p), s.chip = "initiator", OutReq(s, p), NEW u, Clocked(s, u)
  PROVE  InStep(u, p)
<1>1. PICK r : r = [s EXCEPT !.timer = Off]
  OBVIOUS
<1>2. PICK t : t = NcrStep(r)
  OBVIOUS
<1>3. /\ Wires(s) /\ HasFields(s) /\ s.state = "out req" /\ s.loaded = FALSE /\ Vacant(s, p)
      /\ Untold(s, p)
      /\ Asking(s, 1) /\ TransferOut(s, p, 0) /\ s.count \in Nat /\ (s.dma => ~s.full)
  BY DEF OutReq, Chip, Steady, Typed, Wires
<1>4. Others(s, r, {"timer"}) /\ BusSame(s, r) /\ HasFields(r) /\ r.timer = Off
  BY <1>1, <1>3, TimerStops
<1>5. Phase(r) = Phase(s) /\ Ctrl(r) = Ctrl(s)
  BY <1>4, BusKept
<1>6. /\ r.stall = FALSE /\ r.phase = s.phase /\ r.cmd = s.cmd /\ r.dma = s.dma /\ r.dreq = FALSE
      /\ r.dataReq = FALSE /\ r.loaded = FALSE /\ r.full = s.full
  BY <1>3, <1>4, ZenonT(60) DEF Others, HasFields, Fields, Steady, Vacant
<1>7. r.single = s.single /\ r.sbx = s.sbx /\ r.count = s.count
  BY <1>3, <1>4 DEF Others, HasFields, Fields
<1>8. t = NcrInfo(r) /\ r.state = "out req"
  BY <1>2, <1>3, <1>4, InfoState
<1>9. u = Rearmed(t)
  BY <1>1, <1>2 DEF Clocked
<1>10. "REQ" \in Ctrl(r)
  BY <1>3, <1>5, OnTheLines DEF Asking
<1>11. Remaining(r) <=> Left(s) > 0
  BY <1>3, <1>7, CountsDown DEF Remaining
<1>12. CASE ~(Remaining(r) /\ Phase(r) = r.phase)
  <2>1. PICK x : x = [r EXCEPT !.state = "idle"]
    OBVIOUS
  <2>2. t = Interrupt(x, "service")
    BY <1>8, <1>10, <1>12, <2>1 DEF NcrInfo
  <2>3. Others(r, x, {"state"}) /\ x.state = "idle"
    BY <1>4, <2>1 DEF Others, HasFields, Fields
  <2>4. Others(s, x, InfoParts)
    BY <1>4, <2>3 DEF Others, InfoParts
  <2>5. /\ x.loaded = FALSE /\ x.dataReq = FALSE /\ x.dreq = FALSE /\ x.full = s.full
    BY <1>4, <1>6, <2>3 DEF Others, HasFields, Fields
  <2>6. Vacant(x, p)
    BY <1>3, <2>5 DEF Vacant
  <2>7. x.timer = Off /\ x.count \in Nat
    BY <1>3, <1>4, <1>7, <2>3 DEF Others, HasFields, Fields
  <2> QED
    BY <1>3, <1>9, <2>2, <2>3, <2>4, <2>5, <2>6, <2>7, Tells
<1>13. CASE Remaining(r) /\ Phase(r) = r.phase
  <2>1. PICK b : b = [r EXCEPT !.state = "out drq", !.stall = ~r.full]
    OBVIOUS
  <2>2. /\ Others(r, b, {"state", "stall"}) /\ b.state = "out drq" /\ b.stall = ~s.full
        /\ b.dreq = FALSE /\ b.dataReq = FALSE
    BY <1>4, <1>6, <2>1 DEF Others, HasFields, Fields
  <2>3. t = IF s.dma THEN SetDreq(b, TRUE) ELSE b
    BY <1>6, <1>8, <1>10, <1>13, <2>1 DEF NcrInfo
  <2>4. /\ Others(b, t, {"dreq", "dataReq"}) /\ t.dreq = t.dataReq
        /\ IF s.dma THEN t.dreq = TRUE ELSE t.dreq = FALSE
    BY <1>4, <2>2, <2>3 DEF SetDreq, Others, HasFields, Fields
  <2>5. HasFields(t) /\ t.state = "out drq" /\ t.stall = ~s.full
    BY <1>4, <2>2, <2>4 DEF Others, HasFields, Fields
  <2>6. t.timer = Off
    BY <1>4, <2>2, <2>4 DEF Others, HasFields, Fields
  <2>7. Others(t, u, {"timer", "stall"}) /\ u.stall = FALSE
    BY <1>9, <2>5, Rearms
  <2>8. u.timer = IF s.full THEN 0 ELSE Off
    BY <1>9, <2>5, <2>6, Rearms
  <2>9. Others(s, u, InfoParts)
    BY <1>4, <2>2, <2>4, <2>7 DEF Others, InfoParts
  <2>10. /\ u.dreq = t.dreq /\ u.dataReq = t.dreq /\ u.state = "out drq" /\ u.full = s.full
        /\ u.phase = s.phase
    <3>1. /\ u.dreq = t.dreq /\ u.dataReq = t.dataReq /\ u.state = t.state /\ u.full = t.full
          /\ u.phase = t.phase
      BY <2>5, <2>7 DEF Others, HasFields, Fields
    <3>2. /\ t.full = b.full /\ t.phase = b.phase /\ b.full = r.full /\ b.phase = r.phase
      BY <1>4, <2>2, <2>4 DEF Others, HasFields, Fields
    <3> QED
      BY <1>6, <2>2, <2>4, <2>5, <3>1, <3>2
  <2>11. u.count = s.count /\ u.sbx = s.sbx /\ u.byte = s.byte
    <3>1. u.count = t.count /\ u.sbx = t.sbx /\ u.byte = t.byte
      BY <2>5, <2>7 DEF Others, HasFields, Fields
    <3>2. t.count = r.count /\ t.sbx = r.sbx /\ t.byte = r.byte
      BY <1>4, <2>2, <2>4 DEF Others, HasFields, Fields
    <3>3. r.byte = s.byte
      BY <1>3, <1>4 DEF Others, HasFields, Fields
    <3> QED
      BY <1>7, <3>1, <3>2, <3>3
  <2>12. u.count \in Nat
    BY <1>3, <2>11
  <2>13. u.dataReq = u.dreq
    BY <2>10
  <2>14. /\ BusSame(s, u) /\ Typed(u) /\ Knows(u, p) /\ Untold(u, p) /\ u.chip = s.chip
         /\ u.loaded = s.loaded
         /\ u.cmd = s.cmd /\ u.single = s.single /\ u.dma = s.dma /\ u.put = s.put
    BY <1>3, <2>7, <2>9, <2>12, <2>13, InfoOn, ZenonT(60)
  <2>15. Phase(u) = Phase(s) /\ Asking(u, 1) /\ u.taken = s.taken
    BY <1>3, <2>14, BusKept
  <2>16. s.phase = Phase(s) /\ Left(u) = Left(s) /\ Left(s) > 0
    BY <1>5, <1>6, <1>11, <1>13, <2>11, <2>14 DEF Left
  <2>17. Ordered(s) => Ordered(u)
    BY <2>10, <2>11, <2>14, <2>15 DEF Ordered
  <2>18. TransferOut(u, p, 0)
    BY <1>3, <2>10, <2>14, <2>15, <2>16, <2>17 DEF TransferOut
  <2>19. SamePhase(u)
    BY <2>10, <2>15, <2>16 DEF SamePhase
  <2>20. CASE s.full
    <3>1. ~s.dma /\ ~p.in
      BY <1>3, <2>20 DEF TransferOut
    <3>2. u.dreq = FALSE
      BY <2>4, <2>10, <3>1
    <3>3. Chip(u, "out drq", {0}) /\ Vacant(u, p)
      BY <1>3, <2>8, <2>10, <2>14, <2>20, <3>1, <3>2 DEF Chip, Vacant
    <3>4. OutFull(u, p)
      BY <2>10, <2>14, <2>15, <2>18, <2>19, <2>20, <3>3 DEF OutFull
    <3> QED
      BY <2>7, <2>13, <2>14, <3>4 DEF InStep, Normal, Connected
  <2>21. CASE ~s.full
    <3>1. Chip(u, "out drq", {Off})
      BY <1>3, <2>8, <2>10, <2>14, <2>21 DEF Chip
    <3>2. ~s.dma => p.left > 0
      <4>1. One(s.full) = 0
        BY <2>21 DEF One
      <4>2. s.cmd = "pad" /\ ~s.dma => p.left + One(s.full) = 1
        BY DEF OutReq
      <4>3. s.cmd = "info" /\ ~s.dma => p.left + One(s.full) = Left(s) - 0
        BY <1>3 DEF TransferOut
      <4>4. s.cmd \in {"info", "pad"} /\ p.left \in Nat /\ Left(s) \in Nat
        BY <1>3, CountsDown DEF TransferOut, Steady, Drives
      <4> QED
        BY <2>16, <4>1, <4>2, <4>3, <4>4
    <3>3. IF u.dma THEN u.dreq ELSE u.dreq = FALSE /\ p.left > 0
      BY <2>4, <2>10, <2>14, <3>2
    <3>4. OutWaits(u, p)
      BY <2>10, <2>14, <2>15, <2>18, <2>19, <2>21, <3>1, <3>3 DEF OutWaits
    <3> QED
      BY <2>7, <2>13, <2>14, <3>4 DEF InStep, Normal, Connected
  <2> QED
    BY <2>20, <2>21
<1> QED
  BY <1>12, <1>13

(* Out, a padded transfer goes on with the same byte when REQ is up. *)
LEMMA OutPadOn ==
  ASSUME NEW s, NEW p, Steady(s, p), s.chip = "initiator", OutPad(s, p), NEW u, Clocked(s, u)
  PROVE  InStep(u, p)
<1>1. PICK r : r = [s EXCEPT !.timer = Off]
  OBVIOUS
<1>2. PICK t : t = NcrStep(r)
  OBVIOUS
<1>3. /\ Wires(s) /\ HasFields(s) /\ s.state = "out pad" /\ s.loaded = FALSE /\ Vacant(s, p)
      /\ Untold(s, p)
      /\ Asking(s, 1) /\ TransferOut(s, p, 0) /\ s.count \in Nat /\ s.cmd = "pad"
  BY DEF OutPad, Chip, Steady, Typed, Wires
<1>4. Others(s, r, {"timer"}) /\ BusSame(s, r) /\ HasFields(r) /\ r.timer = Off
  BY <1>1, <1>3, TimerStops
<1>5. Phase(r) = Phase(s) /\ Ctrl(r) = Ctrl(s)
  BY <1>4, BusKept
<1>6. /\ r.stall = FALSE /\ r.phase = s.phase /\ r.dreq = FALSE
      /\ r.dataReq = FALSE /\ r.loaded = FALSE /\ r.full = s.full
  BY <1>3, <1>4, ZenonT(60) DEF Others, HasFields, Fields, Steady, Vacant
<1>7. r.single = s.single /\ r.sbx = s.sbx /\ r.count = s.count
  BY <1>3, <1>4 DEF Others, HasFields, Fields
<1>8. t = NcrInfo(r) /\ r.state = "out pad"
  BY <1>2, <1>3, <1>4, InfoState
<1>9. u = Rearmed(t)
  BY <1>1, <1>2 DEF Clocked
<1>10. "REQ" \in Ctrl(r)
  BY <1>3, <1>5, OnTheLines DEF Asking
<1>11. Remaining(r) <=> Left(s) > 0
  BY <1>3, <1>7, CountsDown DEF Remaining
<1>12. CASE ~(Remaining(r) /\ Phase(r) = r.phase)
  <2>1. PICK x : x = [r EXCEPT !.state = "idle"]
    OBVIOUS
  <2>2. t = Interrupt(x, "service")
    BY <1>8, <1>10, <1>12, <2>1 DEF NcrInfo
  <2>3. Others(r, x, {"state"}) /\ x.state = "idle"
    BY <1>4, <2>1 DEF Others, HasFields, Fields
  <2>4. Others(s, x, InfoParts)
    BY <1>4, <2>3 DEF Others, InfoParts
  <2>5. /\ x.loaded = FALSE /\ x.dataReq = FALSE /\ x.dreq = FALSE /\ x.full = s.full
    BY <1>4, <1>6, <2>3 DEF Others, HasFields, Fields
  <2>6. Vacant(x, p)
    BY <1>3, <2>5 DEF Vacant
  <2>7. x.timer = Off /\ x.count \in Nat
    BY <1>3, <1>4, <1>7, <2>3 DEF Others, HasFields, Fields
  <2> QED
    BY <1>3, <1>9, <2>2, <2>3, <2>4, <2>5, <2>6, <2>7, Tells
<1>13. CASE Remaining(r) /\ Phase(r) = r.phase
  <2>1. t = [r EXCEPT !.state = "out drq"]
    BY <1>8, <1>10, <1>13 DEF NcrInfo
  <2>2. Others(r, t, {"state"}) /\ t.state = "out drq" /\ t.stall = FALSE /\ HasFields(t)
    BY <1>4, <1>6, <2>1 DEF Others, HasFields, Fields
  <2>3. Others(t, u, {"timer", "stall"}) /\ u.stall = FALSE
    BY <1>9, <2>2, Rearms
  <2>4. u.timer = 0
    BY <1>9, <2>2, Rearms
  <2>5. Others(s, u, InfoParts)
    BY <1>4, <2>2, <2>3 DEF Others, InfoParts
  <2>6. /\ u.dreq = FALSE /\ u.dataReq = FALSE /\ u.state = "out drq" /\ u.full = s.full
        /\ u.phase = s.phase
    BY <1>4, <1>6, <2>2, <2>3, ZenonT(60) DEF Others, HasFields, Fields
  <2>7. u.count = s.count /\ u.sbx = s.sbx
    BY <1>4, <1>7, <2>2, <2>3 DEF Others, HasFields, Fields
  <2>8. u.count \in Nat
    BY <1>3, <2>7
  <2>9. u.dataReq = u.dreq
    BY <2>6
  <2>10. /\ BusSame(s, u) /\ Typed(u) /\ Knows(u, p) /\ Untold(u, p) /\ u.chip = s.chip
         /\ u.loaded = s.loaded
         /\ u.cmd = s.cmd /\ u.single = s.single /\ u.dma = s.dma
    BY <1>3, <2>3, <2>5, <2>8, <2>9, InfoOn
  <2>11. Phase(u) = Phase(s) /\ Asking(u, 1)
    BY <1>3, <2>10, BusKept
  <2>12. s.phase = Phase(s) /\ Left(u) = Left(s) /\ Left(s) > 0
    BY <1>5, <1>6, <1>11, <1>13, <2>7, <2>10 DEF Left
  <2>13. TransferOut(u, p, 0)
    BY <1>3, <2>6, <2>10, <2>12 DEF TransferOut
  <2>14. SamePhase(u)
    BY <2>6, <2>11, <2>12 DEF SamePhase
  <2>15. Chip(u, "out drq", {0}) /\ Vacant(u, p)
    BY <1>3, <2>4, <2>6, <2>10 DEF Chip, Vacant
  <2>16. OutFull(u, p)
    BY <1>3, <2>10, <2>11, <2>13, <2>14, <2>15 DEF OutFull
  <2> QED
    BY <2>3, <2>9, <2>10, <2>16 DEF InStep, Normal, Connected
<1> QED
  BY <1>12, <1>13

(* The byte the chip puts on the data lines is the one the target counts     *)
(* next.                                                                     *)
LEMMA RightByte ==
  ASSUME NEW s, NEW x, Handshake(s), Ordered(s), s.full, s.taken \in Nat, s.cmd = "info",
         Phase(s) = DataOut,
         Asks(s), x.nData = s.byte, x.tData = s.tData, x.taken = s.taken
  PROVE  BusData(x) = x.taken + 1
<1>1. s.byte = s.taken + 1
  BY DEF Ordered, One
<1>2. s.byte # 0
  BY <1>1
<1>3. s.tData = 0
  <2>1. OutData(s)
    BY DataStages
  <2>2. s.sub = "recv1"
    BY <2>1 DEF OutData, Stands, Sends, Asks
  <2> QED
    BY <2>2 DEF Handshake
<1> QED
  BY <1>1, <1>2, <1>3 DEF BusData

(* The chip's own data lines are no part of the handshake. *)
LEMMA SameHandshake ==
  ASSUME NEW y, NEW x, HasFields(x), Wires(y),
         x.nLines = y.nLines, x.tLines = y.tLines, x.sub = y.sub, x.target = y.target,
         x.queue = y.queue, x.pos = y.pos, x.size = y.size, x.plan = y.plan, x.tWait = y.tWait,
         x.tTimer = y.tTimer, x.tData = y.tData, x.got = y.got, x.taken = y.taken
  PROVE  /\ Wires(x) /\ Phase(x) = Phase(y) /\ (Asks(x) <=> Asks(y))
         /\ Handshake(y) => Handshake(x)
         /\ \A n : Kept(y, n) => Kept(x, n)
<1>1. Wires(x) /\ Phase(x) = Phase(y) /\ (Asks(x) <=> Asks(y)) /\ (Sends(x) <=> Sends(y))
  BY DEF Wires, Phase, Ctrl, Asks, Sends
<1>2. Asked(x) = Asked(y) /\ Size(x) = Size(y) /\ (Reads(x) <=> Reads(y))
     /\ (Writes(x) <=> Writes(y))
  BY <1>1 DEF Asked, Size, Reads, Writes
<1>3. /\ InMessage(y) => InMessage(x)
      /\ InCommand(y) => InCommand(x)
      /\ InStatus(y) => InStatus(x)
      /\ InReply(y) => InReply(x)
  BY <1>1 DEF InMessage, InCommand, InStatus, InReply, Stands
<1>4. InData(y) => InData(x)
  BY <1>1, <1>2 DEF InData, Stands
<1>5. OutData(y) => OutData(x)
  BY <1>1, <1>2 DEF OutData, Stands
<1>6. Handshake(y) => Handshake(x)
  BY <1>1, <1>3, <1>4, <1>5 DEF Handshake
<1>7. \A n : Kept(y, n) => Kept(x, n)
  BY <1>1, <1>2 DEF Kept
<1> QED
  BY <1>1, <1>6, <1>7

(* Out, the register filled: the byte goes on the data lines, ACK up, and    *)
(* the target takes it.                                                      *)
LEMMA OutFullOn ==
  ASSUME NEW s, NEW p, Steady(s, p), s.chip = "initiator", OutFull(s, p), NEW u, Clocked(s, u)
  PROVE  InStep(u, p)
<1>1. PICK r : r = [s EXCEPT !.timer = Off]
  OBVIOUS
<1>2. PICK x : x = [r EXCEPT !.state = "out ack", !.full = FALSE, !.nData = r.byte]
  OBVIOUS
<1>3. /\ Wires(s) /\ HasFields(s) /\ s.state = "out drq" /\ s.loaded = FALSE /\ Vacant(s, p)
      /\ Untold(s, p)
      /\ Asking(s, 1) /\ TransferOut(s, p, 0) /\ SamePhase(s) /\ s.count \in Nat /\ s.taken \in Nat
      /\ (s.cmd = "info" => s.full)
  BY DEF OutFull, Chip, Steady, Typed, Wires
<1>4. Others(s, r, {"timer"}) /\ HasFields(r) /\ BusSame(s, r)
  BY <1>1, <1>3, TimerStops
<1>5. PICK t : t = NcrStep(r)
  OBVIOUS
<1>6. PICK off : off = IF LastOne(r) /\ Phase(r) = MessageOut THEN {"ATN"} ELSE {}
  OBVIOUS
<1>7. t = NcrWrite(x, {"ACK"}, off)
  <2>1. t = NcrInfo(r) /\ r.state = "out drq"
    BY <1>3, <1>4, <1>5, InfoState
  <2> QED
    BY <1>2, <1>6, <2>1 DEF NcrInfo
<1>8. u = Rearmed(t)
  BY <1>1, <1>5 DEF Clocked
<1>9. Others(s, x, {"timer", "state", "full", "nData"}) /\ x.state = "out ack" /\ HasFields(x)
     /\ x.full = FALSE
  BY <1>2, <1>3, <1>4 DEF Others, HasFields, Fields
<1>10. x.nData = s.byte
  BY <1>2, <1>3, <1>4 DEF Others, HasFields, Fields
<1>11. PICK y : y = [x EXCEPT !.nData = s.nData]
  OBVIOUS
<1>12. BusSame(s, y) /\ Others(y, x, {"nData"})
  BY <1>3, <1>9, <1>11, ZenonT(60) DEF BusSame, BusParts, HandParts, Others, HasFields, Fields
<1>13. Wires(y) /\ Asking(y, 1) /\ Phase(y) = Phase(s)
  BY <1>3, <1>12, BusKept
<1>14. /\ x.nLines = y.nLines /\ x.tLines = y.tLines /\ x.sub = y.sub /\ x.target = y.target
       /\ x.queue = y.queue /\ x.pos = y.pos /\ x.size = y.size /\ x.plan = y.plan
       /\ x.tWait = y.tWait
       /\ x.tTimer = y.tTimer /\ x.tData = y.tData /\ x.got = y.got /\ x.taken = y.taken
  BY <1>3, <1>9, <1>12, ZenonT(60) DEF BusSame, Others, HasFields, Fields
<1>15. /\ Wires(x) /\ Phase(x) = Phase(s) /\ Asks(x) /\ Handshake(x) /\ Kept(x, 1)
       /\ x.nLines = s.nLines /\ x.tData = s.tData /\ x.taken = s.taken
  <2>1. /\ Wires(x) /\ Phase(x) = Phase(y) /\ (Asks(x) <=> Asks(y)) /\ (Kept(y, 1) => Kept(x, 1))
        /\ (Handshake(y) => Handshake(x))
    BY <1>9, <1>13, <1>14, SameHandshake
  <2>8. y.nLines = s.nLines /\ y.tData = s.tData /\ y.taken = s.taken
    BY <1>12 DEF BusSame, BusParts, HandParts
  <2> QED
    BY <1>13, <1>14, <2>1, <2>8 DEF Asking
<1>16. "IO" \notin Phase(s) /\ s.phase = Phase(s) /\ Left(s) > 0 /\ ~p.in
  BY <1>3 DEF TransferOut, SamePhase
<1>17. Kept(x, 0)
  BY <1>15, <1>16, IOPhases DEF Kept
<1>18. s.nLines \ off = {} /\ s.nLines \subseteq {"ATN"}
  <2>1. s.nLines \subseteq {"ATN"} /\ (Phase(s) # MessageOut => s.nLines = {})
    BY <1>3 DEF Asking
  <2>2. Phase(r) = Phase(s)
    BY <1>4, BusKept
  <2>3. ASSUME Phase(s) = MessageOut
        PROVE  LastOne(r)
    <3>1. Left(s) <= 1
      BY <1>3, <1>16, <2>3 DEF TransferOut
    <3>2. Left(s) \in Nat
      BY <1>3, CountsDown
    <3>3. Left(s) = 1
      BY <1>16, <3>1, <3>2
    <3>4. r.single = s.single /\ r.sbx = s.sbx /\ r.count = s.count
      BY <1>3, <1>4 DEF Others, HasFields, Fields
    <3> QED
      BY <1>3, <3>3, <3>4, CountsDown DEF LastOne
  <2> QED
    BY <1>6, <2>1, <2>2, <2>3
<1>19. Right(x)
  <2>1. SUFFICES ASSUME Phase(x) = DataOut, x.cmd # "pad"
                 PROVE  BusData(x) = x.taken + 1
    BY DEF Right
  <2>2. x.cmd = s.cmd
    BY <1>3, <1>9 DEF Others, HasFields, Fields
  <2>3. s.cmd = "info" /\ Phase(s) = DataOut
    BY <1>3, <1>15, <2>1, <2>2 DEF TransferOut
  <2>4. s.full /\ Ordered(s) /\ Handshake(s) /\ Asks(s)
    BY <1>3, <1>16, <2>3 DEF TransferOut, Asking
  <2> QED
    BY <1>3, <1>10, <1>15, <2>3, <2>4, RightByte
<1>20. AckTaken(x, t)
  BY <1>7, <1>15, <1>18, <1>19, AckRaised
<1>21. /\ Others(x, t, WireParts) /\ Wires(t) /\ t.nLines = {"ACK"} /\ Handshake(t) /\ ~Asks(t)
       /\ Phase(t) = Phase(s) /\ Kept(t, 0)
  BY <1>15, <1>17, <1>20 DEF AckTaken
<1>22. t.taken = IF Phase(s) = DataOut THEN s.taken + 1 ELSE s.taken
  BY <1>15, <1>20 DEF AckTaken
<1>23. HasFields(t) /\ t.state = "out ack" /\ t.stall = FALSE
  BY <1>9, <1>21 DEF Others, WireParts, HasFields, Fields, Steady
<1>24. Others(t, u, {"timer", "stall"}) /\ u.stall = FALSE
  BY <1>8, <1>23, Rearms
<1>25. u.timer = 0
  BY <1>8, <1>23, Rearms
<1>26. BusSame(t, u)
  BY <1>23, <1>24, ZenonT(60) DEF BusSame, BusParts, HandParts, Others, HasFields, Fields
<1>27. Wires(u) /\ Holding(u) /\ Phase(u) = Phase(s) /\ u.taken = t.taken
  <2>1. Holding(t)
    BY <1>21 DEF Holding
  <2> QED
    BY <1>21, <1>26, <2>1, BusKept
<1>28. Others(s, u, LineParts)
  BY <1>9, <1>21, <1>24 DEF Others, LineParts, WireParts, InfoParts, CallParts, TargetParts
<1>29. /\ u.dreq = s.dreq /\ u.dataReq = s.dataReq /\ u.full = FALSE
       /\ u.phase = s.phase /\ u.state = "out ack"
  <2>1. /\ u.dreq = t.dreq /\ u.dataReq = t.dataReq /\ u.full = t.full
        /\ u.phase = t.phase /\ u.state = t.state
    BY <1>23, <1>24 DEF Others, HasFields, Fields
  <2>2. /\ t.dreq = x.dreq /\ t.dataReq = x.dataReq /\ t.full = x.full /\ t.phase = x.phase
    BY <1>9, <1>21 DEF Others, WireParts, HasFields, Fields
  <2>3. /\ x.dreq = s.dreq /\ x.dataReq = s.dataReq /\ x.phase = s.phase
    BY <1>3, <1>9 DEF Others, HasFields, Fields
  <2> QED
    BY <1>9, <1>23, <2>1, <2>2, <2>3
<1>30. u.count = s.count /\ u.sbx = s.sbx
  <2>1. u.count = t.count /\ u.sbx = t.sbx
    BY <1>23, <1>24 DEF Others, HasFields, Fields
  <2>2. t.count = x.count /\ t.sbx = x.sbx
    BY <1>9, <1>21 DEF Others, WireParts, HasFields, Fields
  <2>3. x.count = s.count /\ x.sbx = s.sbx
    BY <1>3, <1>9 DEF Others, HasFields, Fields
  <2> QED
    BY <2>1, <2>2, <2>3
<1>31. u.dataReq = u.dreq
  BY <1>29 DEF Steady
<1>32. u.count \in Nat /\ u.taken \in Nat
  <2>1. s.taken \in Nat /\ s.count \in Nat /\ u.count = s.count /\ u.taken = t.taken
    BY <1>3, <1>27, <1>30
  <2>2. t.taken \in Nat
    BY <1>22, <2>1
  <2> QED
    BY <2>1, <2>2
<1>33. /\ Typed(u) /\ Knows(u, p) /\ Untold(u, p) /\ u.chip = s.chip /\ u.loaded = s.loaded
       /\ u.cmd = s.cmd /\ u.single = s.single /\ u.dma = s.dma /\ u.put = s.put
  <2>1. Untold(s, p) /\ Wires(u) /\ u.stall = FALSE
    BY <1>3, <1>24, <1>27
  <2> QED
    BY <1>28, <1>31, <1>32, <2>1, LinesOn, ZenonT(60)
<1>34. Left(u) = Left(s)
  BY <1>30, <1>33, LeftSame
<1>35. SamePhase(u)
  BY <1>16, <1>27, <1>29, <1>34 DEF SamePhase
<1>36. TransferOut(u, p, 1)
  <2>1. /\ ~p.in /\ "IO" \notin u.phase /\ u.cmd \in {"info", "pad"}
        /\ (u.phase = MessageOut => Left(u) <= 1)
        /\ u.dma => p.left = 0
    BY <1>3, <1>29, <1>33, <1>34 DEF TransferOut
  <2>2. ASSUME u.cmd = "info", ~u.dma
        PROVE  p.left + One(u.full) = Left(u) - 1
    <3>1. p.left + One(s.full) = Left(s) - 0
      BY <1>3, <1>33, <2>2 DEF TransferOut
    <3>2. One(s.full) = 1 /\ One(u.full) = 0
      BY <1>3, <1>29, <1>33, <2>2 DEF One
    <3>3. p.left \in Nat /\ Left(s) \in Nat
      BY <1>3, CountsDown DEF Steady, Drives
    <3> QED
      BY <1>34, <3>1, <3>2, <3>3
  <2>3. ASSUME u.cmd = "info", u.phase = DataOut, Phase(u) = DataOut
        PROVE  Ordered(u)
    <3>1. s.full /\ Ordered(s)
      BY <1>3, <1>16, <1>27, <1>33, <2>3, <1>29 DEF TransferOut
    <3>2. s.put = s.taken + 1
      BY <3>1 DEF Ordered, One
    <3>3. u.taken = s.taken + 1
      BY <1>16, <1>22, <1>27, <2>3
    <3>4. One(u.full) = 0 /\ ~u.full
      BY <1>29 DEF One
    <3>5. u.put = u.taken + One(u.full)
      <4>1. u.put = s.put /\ s.taken \in Nat /\ One(u.full) = 0
        BY <1>3, <1>33, <3>4
      <4> QED
        BY <3>2, <3>3, <4>1
    <3> QED
      BY <3>4, <3>5 DEF Ordered
  <2> QED
    BY <2>1, <2>2, <2>3 DEF TransferOut
<1>37. Chip(u, "out ack", {0}) /\ Vacant(u, p)
  BY <1>3, <1>25, <1>29, <1>33 DEF Chip, Vacant
<1>38. OutAck(u, p)
  BY <1>27, <1>29, <1>33, <1>35, <1>36, <1>37 DEF OutAck
<1> QED
  BY <1>24, <1>31, <1>33, <1>38 DEF InStep, Normal, Connected

(* Out, REQ gone: it drops ACK, clears the data lines and counts the byte. *)
LEMMA OutAckOn ==
  ASSUME NEW s, NEW p, Steady(s, p), s.chip = "initiator", OutAck(s, p), NEW u, Clocked(s, u)
  PROVE  InStep(u, p)
<1>1. PICK r : r = [s EXCEPT !.timer = Off]
  OBVIOUS
<1>2. PICK y : y = OneLess(r)
  OBVIOUS
<1>3. PICK x : x = [y EXCEPT !.nData = 0, !.state = IF r.cmd = "pad" THEN "out pad" ELSE "out req"]
  OBVIOUS
<1>4. /\ Wires(s) /\ HasFields(s) /\ s.state = "out ack" /\ s.loaded = FALSE /\ Vacant(s, p)
      /\ Untold(s, p)
      /\ Holding(s) /\ TransferOut(s, p, 1) /\ SamePhase(s) /\ s.count \in Nat /\ s.taken \in Nat
      /\ s.plan \in Plans /\ (s.dma => ~s.full)
  BY DEF OutAck, Chip, Steady, Typed, Wires
<1>5. Others(s, r, {"timer"}) /\ HasFields(r) /\ BusSame(s, r) /\ r.timer = Off
  BY <1>1, <1>4, TimerStops
<1>6. PICK t : t = NcrStep(r)
  OBVIOUS
<1>7. t = NcrInfo(r) /\ r.state = "out ack"
  BY <1>4, <1>5, <1>6, InfoState
<1>8. u = Rearmed(t)
  BY <1>1, <1>6 DEF Clocked
<1>9. Ctrl(r) = Ctrl(s)
  BY <1>5, BusKept
<1>10. "REQ" \notin Ctrl(r)
  <2>1. Handshake(s) /\ ~Asks(s) /\ s.nLines \subseteq {"ATN", "ACK"}
    BY <1>4 DEF Holding
  <2> QED
    BY <1>4, <1>9, <2>1, OnTheLines
<1>11. Left(r) = Left(s) /\ r.count = s.count
  <2>1. r.single = s.single /\ r.sbx = s.sbx /\ r.count = s.count
    BY <1>4, <1>5 DEF Others, HasFields, Fields
  <2> QED
    BY <2>1, LeftSame
<1>12. Left(s) > 0 /\ s.phase = Phase(s) /\ "IO" \notin Phase(s)
  BY <1>4 DEF SamePhase, TransferOut
<1>13. Others(r, y, {"sbx", "count"}) /\ y.count \in Nat /\ Left(y) = Left(s) - 1
  BY <1>2, <1>4, <1>5, <1>11, <1>12, OneByteLess
<1>14. r.cmd = s.cmd
  BY <1>4, <1>5 DEF Others, HasFields, Fields
<1>15. /\ Others(y, x, {"state", "nData"}) /\ x.nData = 0
       /\ x.state = IF s.cmd = "pad" THEN "out pad" ELSE "out req"
  BY <1>3, <1>4, <1>5, <1>13, <1>14 DEF Others, HasFields, Fields
<1>16. Others(s, x, {"timer", "sbx", "count", "state", "nData"})
  BY <1>5, <1>13, <1>15 DEF Others
<1>17. HasFields(x)
  BY <1>4, <1>16 DEF Others, HasFields
<1>18. x.count = y.count /\ x.sbx = y.sbx /\ x.single = y.single
  BY <1>4, <1>5, <1>13, <1>15 DEF Others, HasFields, Fields
<1>19. x.count \in Nat /\ Left(x) = Left(s) - 1
  <2>1. Left(x) = Left(y)
    BY <1>18, LeftSame
  <2> QED
    BY <1>13, <1>18, <2>1
<1>20. t = NcrWrite(x, {}, {"ACK"})
  <2>1. t = IF "REQ" \in Ctrl(r) THEN [r EXCEPT !.stall = TRUE] ELSE NcrWrite(x, {}, {"ACK"})
    BY <1>2, <1>3, <1>7 DEF NcrInfo
  <2> QED
    BY <1>10, <2>1
(* The data lines of the chip do not matter to the target. *)
<1>21. PICK z : z = [x EXCEPT !.nData = s.nData]
  OBVIOUS
<1>22. BusSame(s, z) /\ Others(z, x, {"nData"})
  BY <1>4, <1>16, <1>17, <1>21, ZenonT(60) DEF BusSame, BusParts, HandParts, Others, HasFields, Fields
<1>23. Wires(z) /\ Holding(z) /\ Phase(z) = Phase(s)
  BY <1>4, <1>22, BusKept
<1>24. /\ x.nLines = z.nLines /\ x.tLines = z.tLines /\ x.sub = z.sub /\ x.target = z.target
       /\ x.queue = z.queue /\ x.pos = z.pos /\ x.size = z.size /\ x.plan = z.plan
       /\ x.tWait = z.tWait
       /\ x.tTimer = z.tTimer /\ x.tData = z.tData /\ x.got = z.got /\ x.taken = z.taken
  BY <1>17, <1>22 DEF BusSame, Others, HasFields, Fields
<1>25. Wires(x) /\ Handshake(x) /\ ~Asks(x) /\ x.nLines = {"ACK"} /\ Kept(x, 0)
     /\ Phase(x) = Phase(s)
  <2>1. /\ Wires(x) /\ Phase(x) = Phase(z) /\ (Asks(x) <=> Asks(z)) /\ (Kept(z, 0) => Kept(x, 0))
        /\ (Handshake(z) => Handshake(x))
    BY <1>17, <1>23, <1>24, SameHandshake
  <2> QED
    BY <1>23, <1>24, <2>1 DEF Holding
<1>26. AskedNext(x, t)
  <2>1. Phase(s) # MessageIn
    BY <1>12, IOPhases
  <2>2. x.plan = s.plan
    BY <1>4, <1>16 DEF Others, HasFields, Fields
  <2> QED
    BY <1>4, <1>20, <1>25, <2>1, <2>2, AckDropped
<1>27. HasFields(t) /\ t.state = x.state /\ t.stall = FALSE
  BY <1>4, <1>16, <1>17, <1>26 DEF AskedNext, Others, CallParts, TargetParts, HasFields, Fields,
     Steady
<1>28. t.state # "idle"
  BY <1>15, <1>27
<1>29. Others(t, u, {"timer", "stall"}) /\ u.stall = FALSE
  BY <1>8, <1>27, Rearms
<1>30. u.timer = 0
  BY <1>8, <1>27, <1>28, Rearms
<1>31. Asking(u, 1) /\ Wires(u) /\ Others(x, u, CallParts \cup {"timer", "stall"})
  BY <1>15, <1>17, <1>25, <1>26, <1>29, NextAsked
<1>32. Others(s, u, LineParts)
  BY <1>16, <1>31 DEF Others, LineParts, InfoParts
<1>33. /\ u.dreq = s.dreq /\ u.dataReq = s.dataReq /\ u.full = s.full
       /\ u.phase = s.phase /\ u.state = x.state
  <2>1. /\ u.dreq = x.dreq /\ u.dataReq = x.dataReq /\ u.full = x.full
        /\ u.phase = x.phase /\ u.state = x.state
    BY <1>17, <1>31 DEF Others, CallParts, TargetParts, HasFields, Fields
  <2>2. /\ x.dreq = s.dreq /\ x.dataReq = s.dataReq /\ x.full = s.full /\ x.phase = s.phase
    BY <1>4, <1>16 DEF Others, HasFields, Fields
  <2> QED
    BY <2>1, <2>2
<1>34. u.count = x.count /\ u.sbx = x.sbx /\ u.single = x.single /\ u.taken = x.taken
     /\ u.byte = x.byte
  BY <1>17, <1>31 DEF Others, CallParts, TargetParts, HasFields, Fields
<1>35. x.taken = s.taken /\ x.byte = s.byte
  BY <1>4, <1>16 DEF Others, HasFields, Fields
<1>36. u.count \in Nat /\ u.taken \in Nat
  BY <1>4, <1>19, <1>34, <1>35
<1>37. u.dataReq = u.dreq
  BY <1>33 DEF Steady
<1>38. /\ Typed(u) /\ Knows(u, p) /\ Untold(u, p) /\ u.chip = s.chip /\ u.loaded = s.loaded
       /\ u.cmd = s.cmd /\ u.dma = s.dma /\ u.put = s.put
  <2>1. Untold(s, p) /\ Wires(u) /\ u.stall = FALSE
    BY <1>4, <1>29, <1>31
  <2> QED
    BY <1>32, <1>36, <1>37, <2>1, LinesOn, ZenonT(60)
<1>39. Left(u) = Left(s) - 1 /\ Left(s) \in Nat
  <2>1. Left(u) = Left(x)
    BY <1>34, LeftSame
  <2> QED
    BY <1>4, <1>19, <2>1, CountsDown
<1>40. TransferOut(u, p, 0)
  <2>1. /\ ~p.in /\ "IO" \notin u.phase /\ u.cmd \in {"info", "pad"} /\ (u.dma => p.left = 0)
    BY <1>4, <1>33, <1>38 DEF TransferOut
  <2>2. u.phase = MessageOut => Left(u) <= 1
    <3>1. u.phase = MessageOut => Left(s) <= 1
      BY <1>4, <1>33 DEF TransferOut
    <3> QED
      BY <1>39, <3>1
  <2>3. ASSUME u.cmd = "info", ~u.dma
        PROVE  p.left + One(u.full) = Left(u) - 0
    <3>1. p.left + One(s.full) = Left(s) - 1 /\ One(u.full) = One(s.full)
      BY <1>4, <1>33, <1>38, <2>3 DEF TransferOut
    <3> QED
      BY <1>39, <3>1
  <2>4. ASSUME u.cmd = "info", u.phase = DataOut, Phase(u) = DataOut
        PROVE  Ordered(u)
    <3>1. Ordered(s)
      BY <1>4, <1>12, <1>33, <1>38, <2>4 DEF TransferOut
    <3>2. u.put = s.put /\ u.taken = s.taken /\ u.byte = s.byte /\ u.full = s.full
      BY <1>33, <1>34, <1>35, <1>38
    <3> QED
      BY <3>1, <3>2 DEF Ordered
  <2> QED
    BY <2>1, <2>2, <2>3, <2>4 DEF TransferOut
<1>41. Vacant(u, p)
  BY <1>4, <1>33 DEF Vacant
<1>42. CASE s.cmd = "pad"
  <2>1. Chip(u, "out pad", {0})
    BY <1>4, <1>15, <1>30, <1>33, <1>38, <1>42 DEF Chip
  <2>2. OutPad(u, p)
    BY <1>31, <1>38, <1>40, <1>41, <1>42, <2>1 DEF OutPad
  <2> QED
    BY <1>29, <1>37, <1>38, <2>2 DEF InStep, Normal, Connected
<1>43. CASE s.cmd # "pad"
  <2>1. Chip(u, "out req", {0})
    BY <1>4, <1>15, <1>30, <1>33, <1>38, <1>43 DEF Chip
  <2>2. u.dma => ~u.full
    BY <1>4, <1>33, <1>38
  <2>3. OutReq(u, p)
    BY <1>31, <1>38, <1>40, <1>41, <1>43, <2>1, <2>2 DEF OutReq
  <2> QED
    BY <1>29, <1>37, <1>38, <2>3 DEF InStep, Normal, Connected
<1> QED
  BY <1>42, <1>43

(* What the program knows stays true when the chip stays where it is. *)
LEMMA KnowsSame ==
  ASSUME NEW s, NEW p, Knows(s, p), NEW u, u.int = s.int, u.mint = s.mint, u.intNcr = s.intNcr,
         u.active = s.active, u.write = s.write, Ready(s) => Ready(u), Idle(s) => Idle(u)
  PROVE  Knows(u, p)
  BY DEF Knows

(* A new initiator waits for REQ and tells the program of it, once an *)
(* earlier cause has been read.                                       *)
LEMMA WaitsReqOn ==
  ASSUME NEW s, NEW p, Steady(s, p), s.chip = "initiator", WaitsReq(s, p), NEW u, Clocked(s, u)
  PROVE  InStep(u, p)
<1>1. PICK r : r = [s EXCEPT !.timer = Off]
  OBVIOUS
<1>2. PICK t : t = NcrStep(r)
  OBVIOUS
<1>3. /\ Wires(s) /\ HasFields(s) /\ s.state = "wait req" /\ s.loaded = FALSE /\ Vacant(s, p)
      /\ Asking(s, 1) /\ s.count \in Nat
  BY DEF WaitsReq, Chip, Steady, Typed, Wires
<1>4. Others(s, r, {"timer"}) /\ BusSame(s, r) /\ HasFields(r) /\ r.timer = Off
  BY <1>1, <1>3, TimerStops
<1>5. Ctrl(r) = Ctrl(s)
  BY <1>4, BusKept
<1>6. /\ r.stall = FALSE /\ r.dreq = FALSE /\ r.dataReq = FALSE /\ r.loaded = FALSE
      /\ r.full = s.full
      /\ r.mint = s.mint /\ r.state = "wait req"
  BY <1>3, <1>4, ZenonT(60) DEF Others, HasFields, Fields, Steady, Vacant
<1>7. "REQ" \in Ctrl(r)
  BY <1>3, <1>5, OnTheLines DEF Asking
<1>8. t = IF ~s.mint THEN Interrupt([r EXCEPT !.state = "idle"], "service")
     ELSE [r EXCEPT !.stall = TRUE]
  <2>1. t = NcrSelect(r)
    BY <1>2, <1>6 DEF NcrStep, Selecting
  <2> QED
    BY <1>6, <1>7, <2>1 DEF NcrSelect
<1>9. u = Rearmed(t)
  BY <1>1, <1>2 DEF Clocked
<1>10. CASE ~s.mint
  <2>1. PICK x : x = [r EXCEPT !.state = "idle"]
    OBVIOUS
  <2>2. t = Interrupt(x, "service")
    BY <1>8, <1>10, <2>1
  <2>3. Others(r, x, {"state"}) /\ x.state = "idle"
    BY <1>4, <2>1 DEF Others, HasFields, Fields
  <2>4. Others(s, x, InfoParts)
    BY <1>4, <2>3 DEF Others, InfoParts
  <2>5. /\ x.loaded = FALSE /\ x.dataReq = FALSE /\ x.dreq = FALSE /\ x.full = s.full
    BY <1>4, <1>6, <2>3, ZenonT(60) DEF Others, HasFields, Fields
  <2>6. Vacant(x, p)
    BY <1>3, <2>5 DEF Vacant
  <2>7. x.timer = Off /\ x.count \in Nat
    BY <1>3, <1>4, <2>3 DEF Others, HasFields, Fields
  <2>8. Unheard(s, p)
    <3>1. s.int = {}
      BY <1>10 DEF Steady, Knows
    <3> QED
      BY <1>3, <3>1 DEF Unheard
  <2> QED
    BY <1>3, <1>9, <2>2, <2>3, <2>4, <2>5, <2>6, <2>7, <2>8, TellsOf
<1>11. CASE s.mint
  <2>1. t = [r EXCEPT !.stall = TRUE]
    BY <1>8, <1>11
  <2>2. Others(r, t, {"stall"}) /\ t.stall = TRUE /\ HasFields(t)
    BY <1>4, <2>1 DEF Others, HasFields, Fields
  <2>3. Others(t, u, {"timer", "stall"}) /\ u.stall = FALSE
    BY <1>9, <2>2, Rearms
  <2>4. u.timer = Off
    <3>1. u.timer = t.timer
      BY <1>9, <2>2, Rearms
    <3>2. t.timer = r.timer
      BY <1>4, <2>2 DEF Others, HasFields, Fields
    <3> QED
      BY <1>4, <3>1, <3>2
  <2>5. Others(s, u, {"timer", "stall"})
    BY <1>4, <2>2, <2>3 DEF Others
  <2>6. BusSame(s, u)
    BY <1>3, <2>5, ZenonT(60) DEF BusSame, BusParts, HandParts, Others, HasFields, Fields
  <2>7. /\ u.chip = s.chip /\ u.loaded = s.loaded /\ u.state = s.state /\ u.int = s.int
        /\ u.mint = s.mint
        /\ u.intNcr = s.intNcr /\ u.active = s.active /\ u.write = s.write /\ u.dreq = s.dreq
        /\ u.dataReq = s.dataReq /\ u.full = s.full
    BY <1>3, <2>5 DEF Others, HasFields, Fields
  <2>8. u.count = s.count
    BY <1>3, <2>5 DEF Others, HasFields, Fields
  <2>9. Typed(u)
    BY <1>3, <2>6, <2>8, TypedOn DEF Steady
  <2>10. ~Ready(s) /\ ~Idle(s)
    BY <1>3 DEF Ready, Idle
  <2>11. Knows(u, p)
    BY <2>7, <2>10, KnowsSame DEF Steady
  <2>12. Asking(u, 1)
    BY <1>3, <2>6, BusKept
  <2>13. Chip(u, "wait req", {Off, 0}) /\ Vacant(u, p)
    BY <1>3, <2>4, <2>7 DEF Chip, Vacant
  <2>14. WaitsReq(u, p)
    BY <1>11, <2>7, <2>12, <2>13 DEF WaitsReq
  <2> QED
    BY <2>3, <2>7, <2>9, <2>11, <2>14 DEF InStep, Normal, Connected, Steady
<1> QED
  BY <1>10, <1>11

(* The fields that the start of a command changes. *)
StepParts == InfoParts \cup {"loaded", "chip"}

(* The start of a command leaves bus and program alone. *)
LEMMA StepsOn ==
  ASSUME NEW s, NEW p, Steady(s, p), Untold(s, p), NEW u, Others(s, u, StepParts), u.count \in Nat,
         u.dataReq = u.dreq, u.stall = FALSE
  PROVE  /\ BusSame(s, u) /\ Typed(u) /\ Knows(u, p) /\ Untold(u, p)
         /\ u.cmd = s.cmd /\ u.single = s.single /\ u.dma = s.dma /\ u.put = s.put
<1>1. HasFields(s)
  BY DEF Steady, Typed, Wires
<1>2. BusSame(s, u)
  BY <1>1 DEF BusSame, BusParts, HandParts, Others, StepParts, InfoParts, HasFields, Fields
<1>3. /\ u.cmd = s.cmd /\ u.single = s.single /\ u.dma = s.dma
      /\ u.put = s.put /\ u.active = s.active /\ u.write = s.write /\ u.int = s.int
      /\ u.mint = s.mint
      /\ u.intNcr = s.intNcr
  BY <1>1 DEF Others, StepParts, InfoParts, HasFields, Fields
<1>4. Knows(u, p) /\ Untold(u, p)
  BY <1>3, UntoldOn DEF Steady
<1>5. Typed(u)
  BY <1>2, TypedOn DEF Steady
<1> QED
  BY <1>2, <1>3, <1>4, <1>5

(* What a transfer needs to begin depends on these fields. *)
LEMMA StartsOn ==
  ASSUME NEW s, NEW p, Starts(s, p), NEW u, BusSame(s, u), Untold(u, p), u.cmd = s.cmd,
         u.single = s.single,
         u.dma = s.dma, u.put = s.put, u.count = s.count, u.full = s.full, u.byte = s.byte,
           u.dreq = s.dreq
  PROVE  Starts(u, p)
<1>1. Asking(u, 1) /\ Phase(u) = Phase(s) /\ u.taken = s.taken
  BY BusKept DEF Starts
<1>2. Vacant(u, p)
  BY DEF Starts, Vacant
<1>3. Ordered(s) => Ordered(u)
  BY <1>1 DEF Ordered
<1> QED
  BY <1>1, <1>2, <1>3 DEF Starts

(* A loaded command waits for two ticks. *)
LEMMA CountsTick ==
  ASSUME NEW s, s.timer \in 0 .. 2, s.timer > 0, HasFields(s), NEW u, u = NcrClock(s)
  PROVE  Others(s, u, {"timer"}) /\ u.timer \in 0 .. 2
<1>1. s.timer # Off
  BY DEF Off
<1>2. u = [s EXCEPT !.timer = @ - 1]
  BY <1>1 DEF NcrClock
<1>3. u.timer = s.timer - 1
  BY <1>2 DEF HasFields, Fields
<1>4. Others(s, u, {"timer"})
  BY <1>2 DEF Others, HasFields, Fields
<1> QED
  BY <1>3, <1>4

(* A tick of that wait. *)
LEMMA LoadsWait ==
  ASSUME NEW s, NEW p, Steady(s, p), s.chip = "initiator", CommandLoaded(s, p), s.timer > 0,
         NEW u, u = NcrClock(s)
  PROVE  InStep(u, p)
<1>1. HasFields(s) /\ s.timer \in 0 .. 2 /\ s.count \in Nat /\ s.state = "idle" /\ s.loaded = TRUE
  BY DEF CommandLoaded, Steady, Typed, Wires
<1>2. Untold(s, p)
  BY DEF CommandLoaded, Starts
<1>3. Others(s, u, {"timer"}) /\ u.timer \in 0 .. 2
  BY <1>1, CountsTick
<1>4. /\ u.state = s.state /\ u.full = s.full /\ u.byte = s.byte /\ u.dreq = s.dreq
      /\ u.dataReq = s.dataReq /\ u.stall = s.stall
  BY <1>1, <1>3 DEF Others, HasFields, Fields
<1>5. u.count = s.count
  BY <1>1, <1>3 DEF Others, HasFields, Fields
<1>6. Others(s, u, InfoParts)
  BY <1>3 DEF Others, InfoParts
<1>7. u.count \in Nat
  BY <1>1, <1>5
<1>8. u.dataReq = u.dreq /\ u.stall = FALSE
  BY <1>4 DEF Steady
<1>9. /\ BusSame(s, u) /\ Typed(u) /\ Knows(u, p) /\ Untold(u, p) /\ u.chip = s.chip
      /\ u.loaded = s.loaded
      /\ u.cmd = s.cmd /\ u.single = s.single /\ u.dma = s.dma /\ u.put = s.put
  BY <1>2, <1>6, <1>7, <1>8, InfoOn
<1>10. Starts(s, p) => Starts(u, p)
  BY <1>4, <1>5, <1>9, StartsOn
<1>11. /\ Asking(s, 1) => Asking(u, 1)
       /\ Vacant(s, p) => Vacant(u, p)
  BY <1>4, <1>9, BusKept DEF Vacant
<1>12. CommandLoaded(u, p)
  BY <1>1, <1>3, <1>4, <1>9, <1>10, <1>11 DEF CommandLoaded
<1> QED
  BY <1>8, <1>9, <1>12 DEF InStep, Normal, Connected

(* Its end: the transfer begins; a selection in the middle of a connection   *)
(* is refused with a cause.                                                  *)
LEMMA LoadsOn ==
  ASSUME NEW s, NEW p, Steady(s, p), s.chip = "initiator", CommandLoaded(s, p), NEW u, Clocked(s, u)
  PROVE  InStep(u, p)
<1>1. PICK r : r = [s EXCEPT !.timer = Off]
  OBVIOUS
<1>2. PICK e : e = Execute(r)
  OBVIOUS
<1>3. HasFields(s) /\ s.count \in Nat /\ s.state = "idle" /\ s.loaded = TRUE
  BY DEF CommandLoaded, Steady, Typed, Wires
<1>4. Untold(s, p) /\ Asking(s, 1) /\ Vacant(s, p)
  BY DEF CommandLoaded, Starts
<1>5. Others(s, r, {"timer"}) /\ BusSame(s, r) /\ HasFields(r) /\ r.timer = Off
  BY <1>1, <1>3, TimerStops
<1>6. /\ r.loaded = TRUE /\ r.chip = "initiator" /\ r.cmd = s.cmd /\ r.single = s.single
      /\ r.stall = FALSE
      /\ r.int = {} /\ r.intNcr = FALSE /\ r.mint = FALSE /\ r.state = "idle"
  BY <1>3, <1>4, <1>5 DEF Others, HasFields, Fields, Steady, Untold
<1>7. PICK t : t = Unloaded(e)
  OBVIOUS
<1>8. u = Rearmed(t)
  BY <1>1, <1>2, <1>6, <1>7 DEF Clocked, NcrStep
<1>9. CASE s.cmd \in {"info", "pad"}
  <2>1. Starts(s, p)
    BY <1>9 DEF CommandLoaded
  <2>2. e = [r EXCEPT !.sbx = r.single, !.state = "start", !.timer = 0]
    BY <1>2, <1>6, <1>9 DEF Execute
  <2>3. Others(r, e, {"sbx", "state", "timer"}) /\ e.sbx = s.single /\ e.state = "start"
    BY <1>5, <1>6, <2>2 DEF Others, HasFields, Fields
  <2>4. e.int = {} /\ e.intNcr = FALSE /\ HasFields(e)
    BY <1>5, <1>6, <2>3 DEF Others, HasFields, Fields
  <2>5. Others(e, t, {"loaded"}) /\ t.loaded = FALSE /\ HasFields(t)
    <3>1. t = [e EXCEPT !.loaded = FALSE, !.intNcr = @ \/ e.int # {}]
      BY <1>7 DEF Unloaded
    <3>2. (e.intNcr \/ e.int # {}) = FALSE
      BY <2>4
    <3> QED
      BY <2>4, <3>1, <3>2 DEF Others, HasFields, Fields
  <2>6. t.stall = FALSE /\ t.state = "start"
    BY <1>5, <1>6, <2>3, <2>4, <2>5 DEF Others, HasFields, Fields
  <2>7. Others(t, u, {"timer", "stall"}) /\ u.stall = FALSE
    BY <1>8, <2>5, Rearms
  <2>8. u.timer = 0
    BY <1>8, <2>5, <2>6, Rearms
  <2>9. Others(s, u, StepParts)
    BY <1>5, <2>3, <2>5, <2>7 DEF Others, StepParts, InfoParts
  <2>10. Others(s, u, {"timer", "stall", "state", "sbx", "loaded"})
    BY <1>5, <2>3, <2>5, <2>7 DEF Others
  <2>11. /\ u.full = s.full /\ u.byte = s.byte /\ u.dreq = s.dreq /\ u.dataReq = s.dataReq
         /\ u.chip = s.chip
    BY <1>3, <2>10 DEF Others, HasFields, Fields
  <2>12. u.count = s.count
    BY <1>3, <2>10 DEF Others, HasFields, Fields
  <2>13. u.state = "start" /\ u.loaded = FALSE /\ u.sbx = s.single
    <3>1. u.state = t.state /\ u.loaded = t.loaded /\ u.sbx = t.sbx
      BY <2>5, <2>7 DEF Others, HasFields, Fields
    <3>2. t.sbx = e.sbx
      BY <2>4, <2>5 DEF Others, HasFields, Fields
    <3> QED
      BY <2>3, <2>5, <2>6, <3>1, <3>2
  <2>14. u.count \in Nat
    BY <1>3, <2>12
  <2>15. u.dataReq = u.dreq
    BY <2>11 DEF Steady
  <2>16. /\ BusSame(s, u) /\ Typed(u) /\ Knows(u, p) /\ Untold(u, p)
         /\ u.cmd = s.cmd /\ u.single = s.single /\ u.dma = s.dma /\ u.put = s.put
    BY <1>4, <2>7, <2>9, <2>14, <2>15, StepsOn
  <2>17. Starts(u, p)
    BY <2>1, <2>11, <2>12, <2>16, StartsOn
  <2>18. Begins(u, p)
    BY <2>8, <2>13, <2>16, <2>17 DEF Begins, Chip
  <2> QED
    BY <2>7, <2>11, <2>15, <2>16, <2>18 DEF InStep, Normal, Connected
<1>10. CASE s.cmd \in {"select", "select with ATN"}
  <2>1. e = Interrupt(r, "invalid")
    BY <1>2, <1>6, <1>10 DEF Execute
  <2>2. Notified(r, e, "invalid")
    BY <1>5, <2>1, Interrupted
  <2>3. /\ Others(r, e, {"int", "mint", "intNcr", "single", "dma"}) /\ e.int = {"invalid"}
        /\ e.mint = TRUE /\ e.intNcr = TRUE
    BY <1>6, <2>2 DEF Notified
  <2>4. HasFields(e)
    BY <1>5, <2>3 DEF Others, HasFields
  <2>5. t = [e EXCEPT !.loaded = FALSE, !.intNcr = @ \/ e.int # {}]
    BY <1>7 DEF Unloaded
  <2>6. Others(e, t, {"loaded", "intNcr"}) /\ t.loaded = FALSE /\ HasFields(t)
    BY <2>4, <2>5 DEF Others, HasFields, Fields
  <2>7. Others(t, u, {"timer", "stall"}) /\ u.stall = FALSE
    BY <1>8, <2>6, Rearms
  <2>8. t.state = "idle"
    BY <1>5, <1>6, <2>3, <2>4, <2>6 DEF Others, HasFields, Fields
  <2>9. u.timer = Off
    <3>1. u.timer = t.timer
      BY <1>8, <2>6, <2>8, Rearms
    <3>2. t.timer = r.timer
      BY <1>5, <2>3, <2>4, <2>6 DEF Others, HasFields, Fields
    <3> QED
      BY <1>5, <3>1, <3>2
  <2>10. Others(s, u, {"timer", "stall", "loaded", "int", "mint", "intNcr", "single", "dma"})
    BY <1>5, <2>3, <2>6, <2>7 DEF Others
  <2>11. BusSame(s, u)
    BY <1>3, <2>10 DEF BusSame, BusParts, HandParts, Others, HasFields, Fields
  <2>12. /\ u.full = s.full /\ u.dreq = s.dreq /\ u.dataReq = s.dataReq /\ u.chip = s.chip
         /\ u.state = s.state /\ u.active = s.active /\ u.write = s.write
    BY <1>3, <2>10 DEF Others, HasFields, Fields
  <2>13. u.count = s.count
    BY <1>3, <2>10 DEF Others, HasFields, Fields
  <2>14. u.loaded = FALSE /\ u.int = {"invalid"} /\ u.mint = TRUE
    <3>1. u.loaded = t.loaded /\ u.int = t.int /\ u.mint = t.mint
      BY <2>6, <2>7 DEF Others, HasFields, Fields
    <3>2. t.int = e.int /\ t.mint = e.mint
      BY <2>4, <2>6 DEF Others, HasFields, Fields
    <3> QED
      BY <2>3, <2>6, <3>1, <3>2
  <2>15. Typed(u)
    BY <1>3, <2>11, <2>13, TypedOn DEF Steady
  <2>16. Asking(u, 1) /\ Asks(u)
    BY <1>4, <2>11, BusKept DEF Asking
  <2>17. Ready(u)
    BY <1>3, <2>12, <2>14, <2>16 DEF Ready
  <2>18. Heard(u, p)
    BY <2>14, <2>17 DEF Heard
  <2>19. Knows(u, p)
    BY <1>4, <2>12, <2>18, KnowsOn DEF Steady, Untold
  <2>20. Chip(u, "idle", {Off}) /\ Vacant(u, p)
    BY <1>3, <1>4, <2>9, <2>12, <2>14 DEF Chip, Vacant
  <2>21. Resting(u, p)
    BY <2>16, <2>20 DEF Resting
  <2> QED
    BY <2>7, <2>12, <2>15, <2>19, <2>21 DEF InStep, Normal, Connected, Steady
<1> QED
  BY <1>9, <1>10 DEF CommandLoaded, Starts

(* The fields of a target at rest. *)
RestParts == {"target", "tLines", "sub", "queue", "tData", "tWait", "tTimer"}

(* Changes elsewhere leave it at rest. *)
LEMMA RestKept ==
  ASSUME NEW s, NEW t, NEW F, Others(s, t, F), HasFields(s), F \cap RestParts = {}
  PROVE  \A target, lines : AtRest(s, target, lines) => AtRest(t, target, lines)
<1>1. \A f \in RestParts : t[f] = s[f]
  BY DEF Others, HasFields, Fields, RestParts
<1>2. /\ t.target = s.target /\ t.tLines = s.tLines /\ t.sub = s.sub /\ t.queue = s.queue
      /\ t.tData = s.tData /\ t.tWait = s.tWait /\ t.tTimer = s.tTimer
  BY <1>1 DEF RestParts
<1> QED
  BY <1>2 DEF AtRest

(* A write to a bus nobody is selected on reaches no target. *)
LEMMA FreeWrite ==
  ASSUME NEW s, Wires(s), AtRest(s, "idle", {}), NEW on, on \subseteq ChipLines, NEW off,
         NEW lines, lines = (s.nLines \ off) \cup on, "RST" \notin lines,
         ~("SEL" \in lines /\ "BSY" \notin lines /\ s.nData = WithTarget),
         NEW t, t = NcrWrite(s, on, off)
  PROVE  Wires(t) /\ Others(s, t, {"nLines"}) /\ t.nLines = lines
<1>1. PICK w : w = [s EXCEPT !.nLines = (@ \ off) \cup on]
  OBVIOUS
<1>2. /\ Wires(w) /\ Others(s, w, {"nLines"}) /\ w.nLines = lines /\ (t = w \/ t = TargetStep(w))
  BY <1>1, WriteReaches
<1>3. HasFields(s)
  BY DEF Wires
<1>4. AtRest(w, "idle", {})
  <2>1. {"nLines"} \cap RestParts = {}
    BY DEF RestParts
  <2> QED
    BY <1>2, <1>3, <2>1, RestKept
<1>5. w.nData = s.nData
  BY <1>2, <1>3 DEF Others, HasFields, Fields
<1>6. TargetStep(w) = w
  BY <1>2, <1>4, <1>5, RestsOn
<1> QED
  BY <1>2, <1>6

(* The fields that a step of the selection changes. *)
SelectParts == {"timer", "state", "nLines", "nData"}

(* The chip is further on with its selection. *)
Selected(s, x, u, p) ==
  /\ Typed(u) /\ Knows(u, p) /\ u.chip = "disconnected" /\ u.dest = s.dest /\ u.dataReq = u.dreq
  /\ u.stall = FALSE /\ Selects(u, p, x.state, x.nLines) /\ u.nData = x.nData
  /\ \A target, wires : AtRest(s, target, wires) => AtRest(u, target, wires)

(* A step of the selection. *)
LEMMA SelectOn ==
  ASSUME NEW s, NEW p, Steady(s, p), NEW state, NEW lines, Selects(s, p, state, lines),
         s.chip = "disconnected",
         NEW x, Others(s, x, SelectParts), Wires(x), x.state # "idle", NEW u, u = Rearmed(x)
  PROVE  Selected(s, x, u, p)
<1>1. HasFields(s) /\ HasFields(x) /\ Untold(s, p) /\ Vacant(s, p) /\ s.loaded = FALSE
  BY DEF Steady, Typed, Wires, Selects, Chip
<1>2. x.stall = FALSE
  BY <1>1 DEF Others, SelectParts, HasFields, Fields, Steady
<1>3. Others(x, u, {"timer", "stall"}) /\ u.stall = FALSE /\ u.timer = 0
  BY <1>1, <1>2, Rearms
<1>4. Others(s, u, {"timer", "state", "nLines", "nData", "stall"})
  BY <1>3 DEF Others, SelectParts
<1>5. Others(s, u, LineParts)
  BY <1>4 DEF Others, LineParts, InfoParts, CallParts
<1>6. u.nLines = x.nLines /\ u.tLines = x.tLines /\ u.state = x.state /\ u.nData = x.nData
     /\ HasFields(u)
  BY <1>1, <1>3 DEF Others, HasFields, Fields
<1>7. Wires(u)
  BY <1>6 DEF Wires
<1>8. u.dataReq = s.dataReq /\ u.dreq = s.dreq /\ u.full = s.full
  BY <1>1, <1>4 DEF Others, HasFields, Fields
<1>9. u.count = s.count /\ u.taken = s.taken
  BY <1>1, <1>4 DEF Others, HasFields, Fields
<1>10. u.count \in Nat /\ u.taken \in Nat
  BY <1>9 DEF Steady, Typed
<1>11. u.dataReq = u.dreq
  BY <1>8 DEF Steady
<1>12. /\ Typed(u) /\ Knows(u, p) /\ Untold(u, p) /\ u.chip = s.chip /\ u.loaded = s.loaded
       /\ u.cmd = s.cmd /\ u.got = s.got /\ u.dest = s.dest
  BY <1>1, <1>3, <1>5, <1>7, <1>10, <1>11, LinesOn, ZenonT(60)
<1>13. Vacant(u, p)
  BY <1>1, <1>8 DEF Vacant
<1>14. u.got = 0 /\ u.taken = 0
  BY <1>9, <1>12 DEF Selects
<1>15. Selects(u, p, x.state, x.nLines)
  BY <1>1, <1>3, <1>6, <1>12, <1>13, <1>14 DEF Selects, Chip
<1>16. \A target, wires : AtRest(s, target, wires) => AtRest(u, target, wires)
  <2>1. {"timer", "state", "nLines", "nData", "stall"} \cap RestParts = {}
    BY DEF RestParts
  <2> QED
    BY <1>1, <1>4, <2>1, RestKept
<1> QED
  BY <1>3, <1>6, <1>11, <1>12, <1>15, <1>16 DEF Selected

(* The lines of a chip that waits for the target; the target has seen its    *)
(* number and waits for the bus to settle.                                   *)
SelectLines == {{"SEL"}, {"ATN", "SEL"}}
Settling(s, p) ==
  /\ s.chip = "disconnected" /\ s.dest /\ s.nData = WithTarget
  /\ \E lines \in SelectLines : Selects(s, p, "wait busy", lines)
  /\ s.target = "settle" /\ s.tLines = {} /\ s.sub = "none" /\ s.queue = <<>> /\ s.tData = 0
  /\ s.tWait = Quiet /\ s.tTimer = TRUE

(* That state, between the clocks of chip and target in the same tick. *)
SettleStarted(s, p) == Typed(s) /\ s.dataReq = s.dreq /\ s.stall = FALSE /\ Knows(s, p)
  /\ Settling(s, p)

(* In a state of the selection the chip's step is NcrSelect(). *)
LEMMA SelectState ==
  ASSUME NEW s, s.loaded = FALSE, NEW r, Others(s, r, {"timer"}), HasFields(s),
         s.state \in Selecting
  PROVE  NcrStep(r) = NcrSelect(r) /\ r.state = s.state
<1>1. r.loaded = FALSE /\ r.state = s.state
  BY DEF Others, HasFields, Fields
<1> QED
  BY <1>1 DEF NcrStep, Selecting

(* The stages of a selection, with what is on the lines. *)
Stage(s, x) ==
  \/ x.state = "started" /\ x.nLines = {}
  \/ x.state \in {"evaluate", "selection"} /\ x.nLines = {"BSY"} /\ x.nData = OwnId
  \/ x.state = "delay" /\ x.nLines = {"BSY", "SEL"} /\ x.nData = Own(s)
  \/ x.state = "wait busy" /\ x.nLines \in SelectLines /\ x.nData = Own(s) /\ ~s.dest

(* Arbitration, stage by stage: it ends with SEL up and the number on the    *)
(* data lines, and the target that has this number starts to settle.         *)
LEMMA ArbitratesOn ==
  ASSUME NEW s, NEW p, Steady(s, p), s.chip = "disconnected", Arbitrates(s, p), NEW u, Clocked(s, u)
  PROVE  InStep(u, p) \/ SettleStarted(u, p)
<1>1. PICK r : r = [s EXCEPT !.timer = Off]
  OBVIOUS
<1>2. PICK t : t = NcrStep(r)
  OBVIOUS
<1>3. /\ Wires(s) /\ HasFields(s) /\ AtRest(s, "idle", {})
      /\ s.state \in {"arbitrate", "started", "evaluate", "selection", "delay"} /\ s.loaded = FALSE
      /\ s.nLines \in {{}, {"BSY"}, {"BSY", "SEL"}} /\ Selects(s, p, s.state, s.nLines)
      /\ s.state \in {"arbitrate", "started"} => s.nLines = {}
      /\ s.state \in {"evaluate", "selection"} => s.nLines = {"BSY"} /\ s.nData = OwnId
      /\ s.state = "delay" => s.nLines = {"BSY", "SEL"} /\ s.nData = Own(s)
  BY DEF Arbitrates, Selects, Chip, Steady, Typed, Wires
<1>4. PICK state, was : Selects(s, p, state, was)
  BY <1>3
<1>5. Others(s, r, {"timer"}) /\ HasFields(r) /\ BusSame(s, r)
  BY <1>1, <1>3, TimerStops
<1>6. u = Rearmed(t)
  BY <1>1, <1>2 DEF Clocked
<1>7. t = NcrSelect(r) /\ r.state = s.state
  BY <1>2, <1>3, <1>5, SelectState DEF Selecting
<1>8. /\ Wires(r) /\ AtRest(r, "idle", {}) /\ r.nLines = s.nLines /\ r.nData = s.nData
      /\ Ctrl(r) = Ctrl(s)
  BY <1>3, <1>5, BusKept
<1>9. Ctrl(s) = s.nLines
  BY <1>3 DEF Ctrl, AtRest
<1>10. r.dest = s.dest /\ r.cmd = s.cmd
  BY <1>3, <1>5 DEF Others, HasFields, Fields
<1>11. SUFFICES ASSUME NEW x, Others(s, x, SelectParts), Wires(x), t = x,
                       Stage(s, x)
                PROVE  InStep(u, p)
  <2>1. CASE s.state = "arbitrate"
    <3>1. t = [r EXCEPT !.state = "started"]
      BY <1>3, <1>7, <1>8, <1>9, <2>1 DEF NcrSelect
    <3>2. Others(r, t, {"state"}) /\ t.state = "started" /\ t.nLines = r.nLines
         /\ t.tLines = r.tLines /\ HasFields(t)
      BY <1>5, <3>1 DEF Others, HasFields, Fields
    <3>3. Others(s, t, SelectParts)
      BY <1>5, <3>2 DEF Others, SelectParts
    <3>4. Wires(t)
      BY <1>8, <3>2 DEF Wires
    <3> QED
      BY <1>3, <1>8, <1>11, <2>1, <3>2, <3>3, <3>4 DEF Stage
  <2>2. CASE s.state = "started"
    <3>1. PICK y : y = [r EXCEPT !.state = "evaluate", !.nData = OwnId]
      OBVIOUS
    <3>2. t = NcrWrite(y, {"BSY"}, {})
      BY <1>7, <2>2, <3>1 DEF NcrSelect
    <3>3. /\ Others(r, y, {"state", "nData"}) /\ y.state = "evaluate" /\ y.nData = OwnId
          /\ y.nLines = r.nLines
          /\ y.tLines = r.tLines /\ HasFields(y)
      BY <1>5, <3>1 DEF Others, HasFields, Fields
    <3>4. Wires(y)
      BY <1>8, <3>3 DEF Wires
    <3>5. AtRest(y, "idle", {})
      <4>1. {"state", "nData"} \cap RestParts = {}
        BY DEF RestParts
      <4> QED
        BY <1>5, <1>8, <3>3, <4>1, RestKept
    <3>6. PICK on, off, lines : /\ on = {"BSY"} /\ off = {} /\ lines = {"BSY"}
      OBVIOUS
    <3>7. /\ on \subseteq ChipLines /\ lines = (y.nLines \ off) \cup on /\ "RST" \notin lines
           /\ ~("SEL" \in lines /\ "BSY" \notin lines /\ y.nData = WithTarget)
      BY <1>3, <1>8, <2>2, <3>3, <3>6 DEF ChipLines
    <3>8. t = NcrWrite(y, on, off)
      BY <3>2, <3>6
    <3>9. Wires(t) /\ Others(y, t, {"nLines"}) /\ t.nLines = lines
      BY <3>4, <3>5, <3>7, <3>8, FreeWrite
    <3>10. Wires(t) /\ Others(y, t, {"nLines"}) /\ t.nLines = {"BSY"}
      BY <3>6, <3>9
    <3>11. t.state = "evaluate" /\ t.nData = OwnId
      BY <3>3, <3>10 DEF Others, HasFields, Fields
    <3>12. Others(s, t, SelectParts)
      BY <1>5, <3>3, <3>10 DEF Others, SelectParts
    <3> QED
      BY <1>11, <3>10, <3>11, <3>12 DEF Stage
  <2>3. CASE s.state = "evaluate"
    <3>0. "SEL" \notin Ctrl(r)
      BY <1>3, <1>8, <1>9, <2>3
    <3>1. t = [r EXCEPT !.state = "selection"]
      BY <1>7, <2>3, <3>0 DEF NcrSelect
    <3>2. /\ Others(r, t, {"state"}) /\ t.state = "selection" /\ t.nLines = r.nLines
          /\ t.tLines = r.tLines
          /\ HasFields(t) /\ t.nData = r.nData
      BY <1>5, <3>1 DEF Others, HasFields, Fields
    <3>3. Others(s, t, SelectParts)
      BY <1>5, <3>2 DEF Others, SelectParts
    <3>4. Wires(t)
      BY <1>8, <3>2 DEF Wires
    <3> QED
      BY <1>3, <1>8, <1>11, <2>3, <3>2, <3>3, <3>4 DEF Stage
  <2>4. CASE s.state = "selection"
    <3>1. PICK y : y = [r EXCEPT !.state = "delay", !.nData = IF r.dest THEN WithTarget ELSE OwnId]
      OBVIOUS
    <3>2. t = NcrWrite(y, {"SEL"}, {})
      BY <1>7, <2>4, <3>1 DEF NcrSelect
    <3>3. /\ Others(r, y, {"state", "nData"}) /\ y.state = "delay" /\ y.nLines = r.nLines
          /\ y.tLines = r.tLines /\ HasFields(y)
      BY <1>5, <3>1 DEF Others, HasFields, Fields
    <3>4. y.nData = Own(s)
      BY <1>5, <1>10, <3>1 DEF HasFields, Fields, Own
    <3>5. Wires(y)
      BY <1>8, <3>3 DEF Wires
    <3>6. AtRest(y, "idle", {})
      <4>1. {"state", "nData"} \cap RestParts = {}
        BY DEF RestParts
      <4> QED
        BY <1>5, <1>8, <3>3, <4>1, RestKept
    <3>7. PICK on, off, lines : /\ on = {"SEL"} /\ off = {} /\ lines = {"BSY", "SEL"}
      OBVIOUS
    <3>8. /\ on \subseteq ChipLines /\ lines = (y.nLines \ off) \cup on /\ "RST" \notin lines
           /\ ~("SEL" \in lines /\ "BSY" \notin lines /\ y.nData = WithTarget)
      BY <1>3, <1>8, <2>4, <3>3, <3>7 DEF ChipLines
    <3>9. t = NcrWrite(y, on, off)
      BY <3>2, <3>7
    <3>10. Wires(t) /\ Others(y, t, {"nLines"}) /\ t.nLines = lines
      BY <3>5, <3>6, <3>8, <3>9, FreeWrite
    <3>11. Wires(t) /\ Others(y, t, {"nLines"}) /\ t.nLines = {"BSY", "SEL"}
      BY <3>7, <3>10
    <3>12. t.state = "delay" /\ t.nData = Own(s)
      BY <3>3, <3>4, <3>11 DEF Others, HasFields, Fields
    <3>13. Others(s, t, SelectParts)
      BY <1>5, <3>3, <3>11 DEF Others, SelectParts
    <3> QED
      BY <1>11, <3>11, <3>12, <3>13 DEF Stage
  <2>5. CASE s.state = "delay"
    <3>1. PICK y : y = [r EXCEPT !.state = "wait busy"]
      OBVIOUS
    <3>2. PICK on : on = IF r.cmd = "select with ATN" THEN {"ATN"} ELSE {}
      OBVIOUS
    <3>3. PICK off : off = {"BSY"}
      OBVIOUS
    <3>4. t = NcrWrite(y, on, off)
      BY <1>7, <2>5, <3>1, <3>2, <3>3 DEF NcrSelect
    <3>5. /\ Others(r, y, {"state"}) /\ y.state = "wait busy" /\ y.nLines = r.nLines
          /\ y.tLines = r.tLines /\ HasFields(y) /\ y.nData = r.nData
      BY <1>5, <3>1 DEF Others, HasFields, Fields
    <3>6. Wires(y)
      BY <1>8, <3>5 DEF Wires
    <3>7. AtRest(y, "idle", {})
      <4>1. {"state"} \cap RestParts = {}
        BY DEF RestParts
      <4> QED
        BY <1>5, <1>8, <3>5, <4>1, RestKept
    <3>8. PICK lines : lines = (y.nLines \ off) \cup on
      OBVIOUS
    <3>9. lines \in SelectLines /\ on \subseteq ChipLines
      BY <1>3, <1>8, <2>5, <3>2, <3>3, <3>5, <3>8 DEF SelectLines, ChipLines
    <3>10. y.nData = Own(s)
      BY <1>3, <1>8, <2>5, <3>5
    <3>11. CASE ~s.dest
      <4>1. y.nData # WithTarget
        BY <3>10, <3>11 DEF Own, OwnId, WithTarget
      <4>2. "RST" \notin lines
        BY <3>9 DEF SelectLines
      <4>3. "RST" \notin lines /\ ~("SEL" \in lines /\ "BSY" \notin lines /\ y.nData = WithTarget)
        BY <4>1, <4>2
      <4>4. Wires(t) /\ Others(y, t, {"nLines"}) /\ t.nLines = lines
        BY <3>4, <3>6, <3>7, <3>8, <3>9, <4>3, FreeWrite
      <4>5. t.state = "wait busy" /\ t.nData = Own(s)
        BY <3>5, <3>10, <4>4 DEF Others, HasFields, Fields
      <4>6. Others(s, t, SelectParts)
        BY <1>5, <3>5, <4>4 DEF Others, SelectParts
      <4> QED
        BY <1>11, <3>9, <3>11, <4>4, <4>5, <4>6 DEF Stage
    <3>12. CASE s.dest
      <4>1. PICK w : w = [y EXCEPT !.nLines = (@ \ off) \cup on]
        OBVIOUS
      <4>2. /\ Wires(w) /\ Others(y, w, {"nLines"}) /\ w.nLines = lines
            /\ (\E l \in y.tWait : l \notin y.tLines
               /\ (l \in y.nLines) # (l \in w.nLines)) => t = TargetStep(w)
        BY <3>4, <3>6, <3>8, <3>9, <4>1, WriteReaches
      <4>3. t = TargetStep(w)
        <5>1. "BSY" \in y.tWait /\ "BSY" \notin y.tLines /\ "BSY" \in y.nLines
             /\ "BSY" \notin w.nLines
          BY <1>3, <1>8, <2>5, <3>5, <3>7, <3>9, <4>2 DEF AtRest, Quiet, SelectLines
        <5> QED
          BY <4>2, <5>1
      <4>4. AtRest(w, "idle", {}) /\ w.nData = WithTarget /\ w.state = "wait busy"
        <5>1. {"nLines"} \cap RestParts = {}
          BY DEF RestParts
        <5>2. AtRest(w, "idle", {})
          BY <3>5, <3>7, <4>2, <5>1, RestKept
        <5>3. w.nData = y.nData /\ w.state = y.state
          BY <3>5, <4>2 DEF Others, HasFields, Fields
        <5> QED
          BY <3>5, <3>10, <3>12, <5>2, <5>3 DEF Own
      <4>5. t = [w EXCEPT !.target = "settle", !.tTimer = TRUE]
        BY <3>9, <4>2, <4>3, <4>4, IsSelected DEF SelectLines
      <4>6. PICK v : v = Rearmed(w)
        OBVIOUS
      <4>7. Others(s, w, SelectParts)
        BY <1>5, <3>5, <4>2 DEF Others, SelectParts
      <4>8. w.state # "idle"
        BY <4>4
      <4>9. /\ Typed(v) /\ Knows(v, p) /\ v.chip = "disconnected" /\ v.dest = s.dest
            /\ v.dataReq = v.dreq
            /\ v.stall = FALSE /\ Selects(v, p, w.state, w.nLines) /\ v.nData = w.nData
            /\ AtRest(s, "idle", {}) => AtRest(v, "idle", {})
        <5>1. Selected(s, w, v, p)
          BY <1>4, <4>2, <4>6, <4>7, <4>8, SelectOn
        <5> QED
          BY <5>1 DEF Selected
      <4>10. HasFields(w) /\ HasFields(t) /\ Others(w, t, {"target", "tTimer"})
           /\ t.stall = w.stall /\ t.state = w.state
             /\ t.target = "settle" /\ t.tTimer = TRUE /\ t.timer = w.timer
        BY <4>2, <4>5 DEF Wires, Others, HasFields, Fields
      <4>11. /\ Others(t, u, {"timer", "stall"}) /\ u.stall = FALSE
             /\ u.timer = IF t.stall \/ t.state = "idle" THEN t.timer ELSE 0
        BY <1>6, <4>10, Rearms
      <4>12. /\ Others(w, v, {"timer", "stall"}) /\ v.stall = FALSE
             /\ v.timer = IF w.stall \/ w.state = "idle" THEN w.timer ELSE 0
        BY <4>6, <4>10, Rearms
      <4>13. u.timer = v.timer
        BY <4>10, <4>11, <4>12
      <4>14. u.target = "settle" /\ u.tTimer = TRUE
        BY <4>10, <4>11 DEF Others, HasFields, Fields
      <4>15. Others(v, u, {"target", "tTimer"}) /\ HasFields(v) /\ HasFields(u)
        <5>1. HasFields(v) /\ HasFields(u)
          BY <4>10, <4>11, <4>12 DEF Others, HasFields
        <5>2. \A f \in Fields \ {"timer", "stall", "target", "tTimer"} : u[f] = v[f]
          BY <4>10, <4>11, <4>12 DEF Others, HasFields
        <5>3. u.timer = v.timer /\ u.stall = v.stall
          BY <4>11, <4>12, <4>13
        <5> QED
          BY <5>1, <5>2, <5>3 DEF Others, HasFields, Fields
      <4>16. SettleStarted(u, p)
        <5>1. AtRest(v, "idle", {})
          BY <1>3, <4>9
        <5>2. /\ u.chip = v.chip /\ u.dest = v.dest /\ u.nData = v.nData /\ u.tLines = v.tLines
              /\ u.sub = v.sub
              /\ u.queue = v.queue /\ u.tData = v.tData /\ u.tWait = v.tWait /\ u.state = v.state
              /\ u.loaded = v.loaded /\ u.timer = v.timer /\ u.nLines = v.nLines
          BY <4>15 DEF Others, HasFields, Fields
        <5>3. /\ u.dreq = v.dreq /\ u.full = v.full /\ u.int = v.int /\ u.mint = v.mint
              /\ u.intNcr = v.intNcr
              /\ u.active = v.active /\ u.write = v.write /\ u.got = v.got /\ u.taken = v.taken
              /\ u.cmd = v.cmd
              /\ u.dataReq = v.dataReq /\ u.stall = v.stall
          BY <4>15 DEF Others, HasFields, Fields
        <5>4. u.count = v.count /\ u.plan = v.plan
          BY <4>15 DEF Others, HasFields, Fields
        <5>5. Typed(u)
          <6>1. Wires(u)
            BY <4>9, <4>15, <5>2 DEF Typed, Wires
          <6>2. u.count \in Nat /\ u.got \in Nat /\ u.taken \in Nat
            BY <4>9, <5>3, <5>4 DEF Typed
          <6>3. u.plan \in Plans
            BY <4>9, <5>4 DEF Typed
          <6> QED
            BY <6>1, <6>2, <6>3 DEF Typed
        <5>6. Selects(u, p, "wait busy", lines)
          <6>1. Selects(v, p, "wait busy", lines)
            BY <4>2, <4>4, <4>9
          <6>2. Chip(u, "wait busy", {0})
            BY <5>2, <6>1 DEF Selects, Chip
          <6>3. Vacant(u, p) /\ Untold(u, p)
            BY <5>3, <6>1 DEF Selects, Vacant, Untold
          <6> QED
            BY <5>2, <5>3, <6>1, <6>2, <6>3 DEF Selects
        <5>7. Knows(u, p)
          <6>1. Untold(v, p)
            BY <4>9 DEF Selects
          <6> QED
            BY <4>9, <5>3, <6>1, UntoldOn
        <5>8. Settling(u, p)
          BY <3>9, <3>12, <4>4, <4>9, <4>14, <5>1, <5>2, <5>6 DEF Settling, AtRest
        <5> QED
          BY <4>9, <5>3, <5>5, <5>7, <5>8 DEF SettleStarted
      <4> QED
        BY <4>16
    <3> QED
      BY <3>11, <3>12
  <2> QED
    BY <1>3, <2>1, <2>2, <2>3, <2>4, <2>5
<1>12. x.state # "idle"
  BY <1>11 DEF Stage
<1>13. /\ Typed(u) /\ Knows(u, p) /\ u.chip = "disconnected" /\ u.dest = s.dest
       /\ u.dataReq = u.dreq
       /\ u.stall = FALSE /\ Selects(u, p, x.state, x.nLines) /\ u.nData = x.nData
       /\ AtRest(s, "idle", {}) => AtRest(u, "idle", {})
  <2>1. Selected(s, x, u, p)
    BY <1>4, <1>6, <1>11, <1>12, SelectOn
  <2> QED
    BY <2>1 DEF Selected
<1>14. AtRest(u, "idle", {})
  BY <1>3, <1>13
<1>15. u.state = x.state
  BY <1>13 DEF Selects, Chip
<1>16. Own(u) = Own(s)
  BY <1>13 DEF Own
<1>17. Arbitrates(u, p) \/ Awaits(u, p)
  <2>1. CASE x.state = "started" /\ x.nLines = {}
    BY <1>13, <1>14, <2>1 DEF Arbitrates
  <2>2. CASE x.state \in {"evaluate", "selection"} /\ x.nLines = {"BSY"} /\ x.nData = OwnId
    BY <1>13, <1>14, <2>2 DEF Arbitrates
  <2>3. CASE x.state = "delay" /\ x.nLines = {"BSY", "SEL"} /\ x.nData = Own(s)
    BY <1>13, <1>14, <1>16, <2>3 DEF Arbitrates
  <2>4. CASE x.state = "wait busy" /\ x.nLines \in SelectLines /\ x.nData = Own(s) /\ ~s.dest
    BY <1>13, <1>14, <1>15, <1>16, <2>4 DEF Awaits, SelectLines
  <2> QED
    BY <1>11, <2>1, <2>2, <2>3, <2>4 DEF Stage
<1> QED
  BY <1>13, <1>17 DEF InStep, Normal, Unconnected

(* The chip waits for the target's BSY. *)
Listens(s) == s.state = "wait busy"

(* It goes on when BSY is up; if nobody answers it gives up, frees the lines *)
(* and tells the program.                                                    *)
LEMMA AwaitsOn ==
  ASSUME NEW s, NEW p, Steady(s, p), s.chip = "disconnected", Awaits(s, p), Listens(s),
         NEW u, Clocked(s, u)
  PROVE  InStep(u, p)
<1>1. PICK r : r = [s EXCEPT !.timer = Off]
  OBVIOUS
<1>2. PICK t : t = NcrStep(r)
  OBVIOUS
<1>3. PICK state, lines : /\ Selects(s, p, state, lines) /\ lines \in SelectLines
                          /\ state \in {"wait busy", "complete"}
  BY DEF Awaits, SelectLines
<1>4. /\ Wires(s) /\ HasFields(s) /\ s.loaded = FALSE /\ s.nLines = lines /\ s.nData = Own(s)
      /\ Untold(s, p) /\ Vacant(s, p) /\ state = "wait busy"
  BY <1>3 DEF Awaits, Selects, Chip, Steady, Typed, Wires, Listens
<1>5. HasFields(s)
  BY <1>4
<1>6. Others(s, r, {"timer"}) /\ HasFields(r) /\ BusSame(s, r) /\ r.timer = Off
  BY <1>1, <1>4, TimerStops
<1>7. u = Rearmed(t)
  BY <1>1, <1>2 DEF Clocked
<1>8. t = NcrSelect(r) /\ r.state = "wait busy"
  BY <1>2, <1>4, <1>6, SelectState DEF Selecting, Listens
<1>9. /\ Wires(r) /\ r.nLines = lines /\ r.nData = s.nData /\ Ctrl(r) = Ctrl(s)
      /\ \A target, wires : AtRest(s, target, wires) => AtRest(r, target, wires)
  BY <1>4, <1>6, BusKept
<1>10. CASE s.dest
  <2>1. AtRest(s, "selected", {"BSY"})
    BY <1>10 DEF Awaits
  <2>2. "BSY" \in Ctrl(r)
    BY <1>9, <2>1 DEF Ctrl, AtRest
  <2>3. t = [r EXCEPT !.state = "complete"]
    BY <1>8, <2>2 DEF NcrSelect
  <2>4. /\ Others(r, t, {"state"}) /\ t.state = "complete" /\ t.nLines = r.nLines
        /\ t.tLines = r.tLines
        /\ HasFields(t) /\ t.nData = r.nData
    BY <1>6, <2>3 DEF Others, HasFields, Fields
  <2>5. Others(s, t, SelectParts)
    BY <1>6, <2>4 DEF Others, SelectParts
  <2>6. Wires(t)
    BY <1>9, <2>4 DEF Wires
  <2>7. t.state # "idle"
    BY <2>4
  <2>8. Selected(s, t, u, p)
    BY <1>3, <1>7, <2>5, <2>6, <2>7, SelectOn
  <2>9. AtRest(u, "selected", {"BSY"}) /\ Selects(u, p, "complete", lines) /\ u.nData = Own(u)
       /\ u.dest
    BY <1>4, <1>9, <1>10, <2>1, <2>4, <2>8 DEF Selected, Own
  <2>10. Awaits(u, p)
    BY <1>3, <2>9 DEF Awaits, SelectLines
  <2> QED
    BY <2>8, <2>10 DEF Selected, InStep, Normal, Unconnected
<1>11. CASE ~s.dest
  <2>1. AtRest(r, "idle", {})
    BY <1>9, <1>11 DEF Awaits
  <2>2. "BSY" \notin Ctrl(r)
    <3>1. r.tLines = {} /\ r.nLines = lines
      BY <1>9, <2>1 DEF AtRest
    <3>2. "BSY" \notin lines
      <4>1. lines \in SelectLines
        BY <1>3
      <4> QED
        BY <4>1 DEF SelectLines
    <3> QED
      BY <3>1, <3>2 DEF Ctrl
  <2>3. PICK y : y = [r EXCEPT !.state = "idle"]
    OBVIOUS
  <2>4. PICK on, off, wires : on = {} /\ off = {"ATN", "SEL"} /\ wires = {}
    OBVIOUS
  <2>5. PICK w : w = NcrWrite(y, on, off)
    OBVIOUS
  <2>6. t = Interrupt(w, "disconnected")
    BY <1>8, <2>2, <2>3, <2>4, <2>5 DEF NcrSelect
  <2>7. /\ Others(r, y, {"state"}) /\ y.state = "idle" /\ y.nLines = r.nLines
        /\ y.tLines = r.tLines /\ HasFields(y)
    BY <1>6, <2>3 DEF Others, HasFields, Fields
  <2>8. Wires(y)
    BY <1>9, <2>7 DEF Wires
  <2>9. AtRest(y, "idle", {})
    <3>1. {"state"} \cap RestParts = {}
      BY DEF RestParts
    <3> QED
      BY <1>6, <2>1, <2>7, <3>1, RestKept
  <2>10. on \subseteq ChipLines /\ wires = (y.nLines \ off) \cup on
    BY <1>3, <1>9, <2>4, <2>7 DEF SelectLines
  <2>11. "RST" \notin wires /\ ~("SEL" \in wires /\ "BSY" \notin wires /\ y.nData = WithTarget)
    BY <2>4
  <2>12. Wires(w) /\ Others(y, w, {"nLines"}) /\ w.nLines = wires
    BY <2>5, <2>8, <2>9, <2>10, <2>11, FreeWrite
  <2>13. HasFields(w) /\ w.state = "idle"
    BY <2>7, <2>12 DEF Wires, Others, HasFields, Fields
  <2>14. Notified(w, t, "disconnected")
    BY <2>6, <2>13, Interrupted
  <2>15. Others(w, t, {"int", "mint", "intNcr", "single", "dma"})
       /\ t.int = w.int \cup {"disconnected"} /\ t.mint = TRUE
    BY <2>14 DEF Notified
  <2>16. HasFields(t) /\ t.state = "idle"
    BY <2>13, <2>15 DEF Others, HasFields, Fields
  <2>17. Others(t, u, {"timer", "stall"}) /\ u.stall = FALSE /\ u.timer = t.timer
    BY <1>7, <2>16, Rearms
  <2>18. u.timer = Off
    <3>1. t.timer = w.timer /\ w.timer = y.timer /\ y.timer = r.timer
      BY <1>6, <2>7, <2>12, <2>13, <2>15 DEF Others, HasFields, Fields
    <3> QED
      BY <1>6, <2>17, <3>1
  <2>19. Others(s, u, {"timer", "state", "nLines", "stall", "int", "mint", "intNcr", "single",
       "dma"})
    <3>1. Others(s, y, {"timer", "state"})
      BY <1>6, <2>7 DEF Others
    <3>2. Others(s, w, {"timer", "state", "nLines"})
      BY <2>12, <3>1 DEF Others
    <3> QED
      BY <2>15, <2>17, <3>2 DEF Others
  <2>20. /\ u.chip = s.chip /\ u.loaded = s.loaded /\ u.dreq = s.dreq /\ u.dataReq = s.dataReq
         /\ u.full = s.full
         /\ u.active = s.active /\ u.write = s.write
    BY <1>4, <2>19 DEF Others, HasFields, Fields
  <2>21. u.count = s.count /\ u.got = s.got /\ u.taken = s.taken
    BY <1>4, <2>19 DEF Others, HasFields, Fields
  <2>22. u.plan = s.plan /\ u.tLines = s.tLines
    BY <1>4, <2>19 DEF Others, HasFields, Fields
  <2>23. u.state = "idle" /\ u.nLines = {} /\ u.int = {"disconnected"} /\ u.mint = TRUE
       /\ HasFields(u)
    <3>1. u.state = t.state /\ u.nLines = t.nLines /\ u.int = t.int /\ u.mint = t.mint
         /\ HasFields(u)
      BY <2>16, <2>17 DEF Others, HasFields, Fields
    <3>2. t.nLines = w.nLines
      BY <2>13, <2>15 DEF Others, HasFields, Fields
    <3>3. w.int = y.int /\ y.int = r.int /\ r.int = s.int
      BY <1>4, <1>6, <2>7, <2>12 DEF Others, HasFields, Fields
    <3>4. s.int = {}
      BY <1>4 DEF Untold
    <3> QED
      BY <2>4, <2>12, <2>15, <2>16, <3>1, <3>2, <3>3, <3>4
  <2>24. Typed(u)
    <3>1. Wires(u)
      BY <1>4, <2>22, <2>23 DEF Wires
    <3>2. u.count \in Nat /\ u.got \in Nat /\ u.taken \in Nat
      BY <2>21 DEF Steady, Typed
    <3>3. u.plan \in Plans
      BY <2>22 DEF Steady, Typed
    <3> QED
      BY <3>1, <3>2, <3>3 DEF Typed
  <2>25. Idle(u)
    BY <1>4, <2>20, <2>23 DEF Idle
  <2>26. Heard(u, p)
    BY <2>23, <2>25 DEF Heard
  <2>27. Knows(u, p)
    BY <1>4, <2>20, <2>26, KnowsOn DEF Steady, Untold
  <2>28. AtRest(u, "idle", {})
    <3>1. {"timer", "state", "nLines", "stall", "int", "mint", "intNcr", "single",
         "dma"} \cap RestParts = {}
      BY DEF RestParts
    <3>2. AtRest(s, "idle", {})
      BY <1>11 DEF Awaits
    <3> QED
      BY <1>4, <2>19, <3>1, <3>2, RestKept
  <2>29. Idles(u, p)
    BY <1>4, <2>18, <2>20, <2>23, <2>28 DEF Idles, Chip, Vacant
  <2> QED
    BY <2>17, <2>20, <2>24, <2>25, <2>27, <2>29 DEF InStep, Normal, Unconnected, Idle, Steady
<1> QED
  BY <1>10, <1>11

(* A selection that is complete: SEL goes, the chip is an initiator and *)
(* tells so, and the target asks for the command or a message.          *)
LEMMA CompletesOn ==
  ASSUME NEW s, NEW p, Steady(s, p), s.chip = "disconnected", Awaits(s, p), s.state = "complete",
         NEW u, Clocked(s, u)
  PROVE  InStep(u, p)
<1>1. PICK r : r = [s EXCEPT !.timer = Off]
  OBVIOUS
<1>2. PICK state, lines : /\ Selects(s, p, state, lines) /\ lines \in SelectLines
                          /\ state \in {"wait busy", "complete"}
  BY DEF Awaits, SelectLines
<1>3. /\ Wires(s) /\ HasFields(s) /\ s.loaded = FALSE /\ s.nLines = lines /\ s.got = 0
      /\ s.taken = 0
      /\ Untold(s, p) /\ Vacant(s, p) /\ state = "complete"
  BY <1>2 DEF Awaits, Selects, Chip, Steady, Typed, Wires
<1>4. AtRest(s, "selected", {"BSY"})
  BY DEF Awaits
<1>5. Others(s, r, {"timer"}) /\ HasFields(r) /\ r.timer = Off /\ BusSame(s, r)
  BY <1>1, <1>3, TimerStops
<1>6. PICK y : y = [r EXCEPT !.chip = "initiator", !.state = "wait req", !.nData = 0]
  OBVIOUS
<1>7. PICK on, off : on = {} /\ off = {"SEL"}
  OBVIOUS
<1>8. PICK n : n = NcrWrite(y, on, off)
  OBVIOUS
<1>9. PICK i : i = Interrupt(n, "complete")
  OBVIOUS
<1>10. PICK t : t = [i EXCEPT !.stall = TRUE]
  OBVIOUS
<1>11. u = Rearmed(t)
  <2>1. NcrStep(r) = NcrSelect(r) /\ r.state = "complete"
    BY <1>3, <1>5, SelectState DEF Selecting
  <2>2. NcrSelect(r) = t
    BY <1>6, <1>7, <1>8, <1>9, <1>10, <2>1 DEF NcrSelect
  <2> QED
    BY <1>1, <2>1, <2>2 DEF Clocked
<1>12. /\ Others(s, y, {"timer", "chip", "state", "nData"}) /\ y.chip = "initiator"
       /\ y.state = "wait req"
       /\ y.nData = 0 /\ y.nLines = lines /\ y.tLines = s.tLines /\ HasFields(y)
  BY <1>3, <1>5, <1>6 DEF Others, HasFields, Fields
<1>13. y.timer = Off
  BY <1>5, <1>6 DEF HasFields, Fields
<1>14. Wires(y)
  BY <1>3, <1>12 DEF Wires
<1>15. AtRest(y, "selected", {"BSY"})
  <2>1. {"timer", "chip", "state", "nData"} \cap RestParts = {}
    BY DEF RestParts
  <2> QED
    BY <1>3, <1>4, <1>12, <2>1, RestKept
<1>16. PICK w : w = [y EXCEPT !.nLines = (@ \ off) \cup on]
  OBVIOUS
<1>17. /\ Wires(w) /\ Others(y, w, {"nLines"}) /\ w.nLines = (y.nLines \ off) \cup on
       /\ (\E l \in y.tWait : l \notin y.tLines
          /\ (l \in y.nLines) # (l \in w.nLines)) => n = TargetStep(w)
  <2>1. on \subseteq ChipLines
    BY <1>7
  <2> QED
    BY <1>8, <1>14, <1>16, <2>1, WriteReaches
<1>18. w.nLines \subseteq {"ATN"}
  BY <1>2, <1>7, <1>12, <1>17 DEF SelectLines
<1>19. n = TargetStep(w)
  <2>1. "SEL" \in y.tWait /\ "SEL" \notin y.tLines /\ "SEL" \in y.nLines /\ "SEL" \notin w.nLines
    BY <1>2, <1>12, <1>15, <1>18 DEF AtRest, Quiet, SelectLines
  <2> QED
    BY <1>17, <2>1
<1>20. AtRest(w, "selected", {"BSY"})
  <2>1. {"nLines"} \cap RestParts = {}
    BY DEF RestParts
  <2> QED
    BY <1>12, <1>15, <1>17, <2>1, RestKept
<1>21. Requests(w, n) /\ (InMessage(n) \/ InCommand(n))
  BY <1>17, <1>18, <1>19, <1>20, AsksForCommand
<1>22. /\ Others(w, n, TargetParts) /\ Woken(w, n) /\ Handshake(n) /\ Asks(n) /\ Wires(n)
  BY <1>21 DEF Requests, Called
<1>23. HasFields(w) /\ w.state = "wait req" /\ w.timer = Off /\ w.chip = "initiator" /\ w.nData = 0
  BY <1>12, <1>13, <1>17 DEF Others, HasFields, Fields
<1>24. /\ HasFields(n) /\ n.state = "wait req" /\ n.nLines = w.nLines /\ n.nData = 0
       /\ n.chip = "initiator"
  BY <1>22, <1>23 DEF Others, TargetParts, Wires, HasFields, Fields
<1>25. n.timer \in {Off, 0}
  BY <1>22, <1>23 DEF Woken
<1>26. Notified(n, i, "complete")
  BY <1>9, <1>24, Interrupted
<1>27. Others(n, i, {"int", "mint", "intNcr", "single", "dma"})
     /\ i.int = n.int \cup {"complete"} /\ i.mint = TRUE
  BY <1>26 DEF Notified
<1>28. Others(i, t, {"stall"}) /\ t.stall = TRUE /\ HasFields(t) /\ HasFields(i)
  BY <1>10, <1>24, <1>27 DEF Others, HasFields, Fields
<1>29. Others(t, u, {"timer", "stall"}) /\ u.stall = FALSE /\ u.timer = t.timer
  BY <1>11, <1>28, Rearms
<1>30. u.timer \in {Off, 0}
  <2>1. t.timer = i.timer /\ i.timer = n.timer
    BY <1>24, <1>27, <1>28 DEF Others, HasFields, Fields
  <2> QED
    BY <1>25, <1>29, <2>1
<1>31. Others(n, u, {"timer", "stall", "int", "mint", "intNcr", "single", "dma"}) /\ HasFields(u)
  BY <1>24, <1>27, <1>28, <1>29 DEF Others, HasFields
<1>32. BusSame(n, u) /\ u.chip = "initiator" /\ u.state = "wait req"
  BY <1>24, <1>31, ZenonT(60) DEF BusSame, BusParts, HandParts, Others, HasFields, Fields
<1>33. u.mint = TRUE /\ u.int = {"complete"}
  <2>1. u.mint = i.mint /\ u.int = i.int
    <3>1. t.mint = i.mint /\ t.int = i.int
      BY <1>28 DEF Others, HasFields, Fields
    <3>2. u.mint = t.mint /\ u.int = t.int
      BY <1>28, <1>29 DEF Others, HasFields, Fields
    <3> QED
      BY <3>1, <3>2
  <2>2. n.int = w.int /\ w.int = y.int /\ y.int = s.int
    BY <1>3, <1>12, <1>17, <1>22, <1>23 DEF Others, TargetParts, HasFields, Fields
  <2>3. s.int = {}
    BY <1>3 DEF Untold
  <2> QED
    BY <1>27, <2>1, <2>2, <2>3
<1>34. Others(s, u, {"timer", "chip", "state", "nData", "nLines", "stall", "int", "mint",
     "intNcr", "single", "dma"}
                    \cup TargetParts)
  BY <1>12, <1>17, <1>22, <1>31 DEF Others
<1>35. /\ u.loaded = s.loaded /\ u.dreq = s.dreq /\ u.dataReq = s.dataReq /\ u.full = s.full
       /\ u.active = s.active /\ u.write = s.write
  BY <1>3, <1>34 DEF Others, TargetParts, HasFields, Fields
<1>36. u.count = s.count /\ u.got = s.got /\ u.taken = s.taken
  BY <1>3, <1>34 DEF Others, TargetParts, HasFields, Fields
<1>37. u.plan = s.plan
  BY <1>3, <1>34 DEF Others, TargetParts, HasFields, Fields
<1>38. Wires(u) /\ Phase(u) = Phase(n) /\ Handshake(u) /\ Asks(u) /\ u.nLines = n.nLines
     /\ u.nData = n.nData
  BY <1>22, <1>32, BusKept
<1>39. Typed(u)
  <2>1. u.count \in Nat /\ u.got \in Nat /\ u.taken \in Nat
    BY <1>36 DEF Steady, Typed
  <2>2. u.plan \in Plans
    BY <1>37 DEF Steady, Typed
  <2> QED
    BY <1>38, <2>1, <2>2 DEF Typed
<1>40. Phase(n) \in {MessageOut, Command} /\ (Phase(n) # MessageOut => n.nLines = {})
  <2>1. InMessage(n) => Phase(n) = MessageOut
    BY DEF InMessage, Stands
  <2>2. InCommand(n) => Phase(n) = Command /\ "ATN" \notin n.nLines
    BY DEF InCommand, Stands
  <2> QED
    BY <1>18, <1>21, <1>24, <2>1, <2>2
<1>41. Kept(u, 1)
  BY <1>3, <1>36, <1>38, <1>40, PhasesDiffer DEF Kept
<1>42. Asking(u, 1)
  BY <1>18, <1>24, <1>38, <1>40, <1>41 DEF Asking
<1>43. Heard(u, p)
  BY <1>33 DEF Heard
<1>44. Knows(u, p)
  BY <1>3, <1>35, <1>43, KnowsOn DEF Steady, Untold
<1>45. Chip(u, "wait req", {Off, 0}) /\ Vacant(u, p)
  BY <1>3, <1>30, <1>32, <1>35 DEF Chip, Vacant
<1>46. WaitsReq(u, p)
  BY <1>33, <1>42, <1>45 DEF WaitsReq
<1> QED
  BY <1>29, <1>32, <1>35, <1>39, <1>44, <1>46 DEF InStep, Normal, Connected, Steady

(* A loaded selection waits for its ticks. *)
LEMMA ChosenWait ==
  ASSUME NEW s, NEW p, Steady(s, p), s.chip = "disconnected", Chosen(s, p), s.timer > 0, NEW u,
         u = NcrClock(s)
  PROVE  InStep(u, p)
<1>1. /\ HasFields(s) /\ s.timer \in 0 .. 2 /\ s.count \in Nat /\ s.state = "idle"
      /\ s.loaded = TRUE
      /\ Untold(s, p) /\ Vacant(s, p) /\ s.nLines = {} /\ AtRest(s, "idle", {})
  BY DEF Chosen, Steady, Typed, Wires
<1>2. Others(s, u, {"timer"}) /\ u.timer \in 0 .. 2
  BY <1>1, CountsTick
<1>3. /\ u.state = s.state /\ u.full = s.full /\ u.dreq = s.dreq
      /\ u.dataReq = s.dataReq /\ u.stall = s.stall
  BY <1>1, <1>2 DEF Others, HasFields, Fields
<1>4. u.count = s.count
  BY <1>1, <1>2 DEF Others, HasFields, Fields
<1>5. Others(s, u, InfoParts)
  BY <1>2 DEF Others, InfoParts
<1>6. u.count \in Nat
  BY <1>1, <1>4
<1>7. u.dataReq = u.dreq /\ u.stall = FALSE
  BY <1>3 DEF Steady
<1>8. /\ BusSame(s, u) /\ Typed(u) /\ Knows(u, p) /\ Untold(u, p) /\ u.chip = s.chip
      /\ u.loaded = s.loaded
      /\ u.cmd = s.cmd
  BY <1>1, <1>5, <1>6, <1>7, InfoOn, ZenonT(60)
<1>9. u.nLines = {} /\ AtRest(u, "idle", {}) /\ u.got = s.got /\ u.taken = s.taken
  BY <1>1, <1>8, BusKept
<1>10. Vacant(u, p)
  BY <1>1, <1>3 DEF Vacant
<1>11. Chosen(u, p)
  BY <1>1, <1>2, <1>3, <1>8, <1>9, <1>10 DEF Chosen
<1> QED
  BY <1>7, <1>8, <1>11 DEF InStep, Normal, Unconnected

(* A selection is loaded. *)
Chooses(s) == s.cmd \in {"select", "select with ATN"}

(* It begins with arbitration. *)
LEMMA ChosenOn ==
  ASSUME NEW s, NEW p, Steady(s, p), s.chip = "disconnected", Chosen(s, p), NEW u, Clocked(s, u)
  PROVE  InStep(u, p)
<1>1. PICK r : r = [s EXCEPT !.timer = Off]
  OBVIOUS
<1>2. PICK e : e = Execute(r)
  OBVIOUS
<1>3. /\ HasFields(s) /\ s.count \in Nat /\ s.state = "idle" /\ s.loaded = TRUE
      /\ Untold(s, p) /\ Vacant(s, p) /\ s.nLines = {} /\ AtRest(s, "idle", {}) /\ s.got = 0
      /\ s.taken = 0
      /\ Chooses(s)
  BY DEF Chosen, Steady, Typed, Wires, Chooses
<1>4. Others(s, r, {"timer"}) /\ BusSame(s, r) /\ HasFields(r) /\ r.timer = Off
  BY <1>1, <1>3, TimerStops
<1>5. /\ r.loaded = TRUE /\ r.chip = "disconnected" /\ r.cmd = s.cmd /\ r.stall = FALSE
      /\ r.int = {} /\ r.intNcr = FALSE
  BY <1>3, <1>4 DEF Others, HasFields, Fields, Steady, Untold
<1>6. PICK t : t = Unloaded(e)
  OBVIOUS
<1>7. u = Rearmed(t)
  BY <1>1, <1>2, <1>5, <1>6 DEF Clocked, NcrStep
<1>8. e = [r EXCEPT !.state = "arbitrate", !.timer = 0]
  BY <1>2, <1>3, <1>5 DEF Execute, Chooses
<1>9. Others(r, e, {"state", "timer"}) /\ e.state = "arbitrate" /\ HasFields(e)
  BY <1>4, <1>8 DEF Others, HasFields, Fields
<1>10. e.int = {} /\ e.intNcr = FALSE /\ e.stall = FALSE
  BY <1>4, <1>5, <1>9 DEF Others, HasFields, Fields
<1>11. Others(e, t, {"loaded"}) /\ t.loaded = FALSE /\ HasFields(t)
  <2>1. t = [e EXCEPT !.loaded = FALSE, !.intNcr = @ \/ e.int # {}]
    BY <1>6 DEF Unloaded
  <2>2. (e.intNcr \/ e.int # {}) = FALSE
    BY <1>10
  <2>3. HasFields(e)
    BY <1>9
  <2>4. e.intNcr = FALSE
    BY <1>10
  <2> QED
    BY <2>1, <2>2, <2>3, <2>4 DEF Others, HasFields, Fields
<1>12. t.stall = FALSE /\ t.state = "arbitrate"
  BY <1>9, <1>10, <1>11 DEF Others, HasFields, Fields
<1>13. Others(t, u, {"timer", "stall"}) /\ u.stall = FALSE
  BY <1>7, <1>11, Rearms
<1>14. u.timer = 0
  BY <1>7, <1>11, <1>12, Rearms
<1>15. Others(s, u, {"timer", "stall", "state", "loaded"})
  BY <1>4, <1>9, <1>11, <1>13 DEF Others
<1>16. Others(s, u, StepParts)
  BY <1>15 DEF Others, StepParts, InfoParts
<1>17. u.full = s.full /\ u.dreq = s.dreq /\ u.dataReq = s.dataReq /\ u.chip = s.chip
  BY <1>3, <1>15 DEF Others, HasFields, Fields
<1>18. u.count = s.count
  BY <1>3, <1>15 DEF Others, HasFields, Fields
<1>19. u.state = "arbitrate" /\ u.loaded = FALSE
  <2>1. u.state = t.state /\ u.loaded = t.loaded
    BY <1>11, <1>13 DEF Others, HasFields, Fields
  <2> QED
    BY <1>11, <1>12, <2>1
<1>20. u.count \in Nat
  BY <1>3, <1>18
<1>21. u.dataReq = u.dreq
  BY <1>17 DEF Steady
<1>22. BusSame(s, u) /\ Typed(u) /\ Knows(u, p) /\ Untold(u, p) /\ u.cmd = s.cmd
  BY <1>3, <1>13, <1>16, <1>20, <1>21, StepsOn
<1>23. u.nLines = {} /\ AtRest(u, "idle", {}) /\ u.got = 0 /\ u.taken = 0
  BY <1>3, <1>22, BusKept
<1>24. Chip(u, "arbitrate", {0}) /\ Vacant(u, p)
  BY <1>3, <1>14, <1>17, <1>19 DEF Chip, Vacant
<1>25. Selects(u, p, "arbitrate", {})
  BY <1>3, <1>22, <1>23, <1>24 DEF Selects, Chooses
<1>26. Arbitrates(u, p)
  BY <1>23, <1>25 DEF Arbitrates
<1> QED
  BY <1>13, <1>17, <1>21, <1>22, <1>26 DEF InStep, Normal, Unconnected

(* A timer that has run out makes the chip step. *)
LEMMA Fires ==
  ASSUME NEW s, s.timer = 0, NEW u, u = NcrClock(s)
  PROVE  Clocked(s, u)
<1>1. s.timer # Off /\ ~(s.timer > 0)
  BY DEF Off
<1> QED
  BY <1>1 DEF NcrClock, Clocked

(* A timer that is off does not. *)
LEMMA Sleeps ==
  ASSUME NEW s, s.timer = Off
  PROVE  NcrClock(s) = s
  BY DEF NcrClock

(* A step of the chip's clock, in whatever state. *)
LEMMA ClockOn ==
  ASSUME NEW s, NEW p, Steady(s, p), Connected(s, p) \/ Unconnected(s, p), NEW u, u = NcrClock(s)
  PROVE  InStep(u, p) \/ SettleStarted(u, p)
<1>1. CASE s.timer = Off
  <2>1. u = s
    BY <1>1, Sleeps
  <2> QED
    BY <2>1 DEF InStep, Normal, Steady
<1>2. CASE s.timer # Off /\ s.timer # 0
  <2>1. (Connected(s, p) /\ CommandLoaded(s, p)) \/ (Unconnected(s, p) /\ Chosen(s, p))
    <3>1. \A state : ~Chip(s, state, {0}) /\ ~Chip(s, state, {Off, 0}) /\ ~Chip(s, state, {Off})
      BY <1>2 DEF Chip
    <3>2. \A state, lines : ~Selects(s, p, state, lines)
      BY <3>1 DEF Selects
    <3>3. Connected(s, p) => CommandLoaded(s, p)
      BY <3>1 DEF Connected, Resting, WaitsReq, Begins, InReq, InFull, InEmpty, InAck, OutReq,
         OutWaits, OutFull,
                  OutAck, OutPad
    <3>4. Unconnected(s, p) => Chosen(s, p)
      BY <3>1, <3>2 DEF Unconnected, Idles, Arbitrates, Awaits
    <3> QED
      BY <3>3, <3>4
  <2>2. s.timer \in 0 .. 2
    BY <2>1 DEF CommandLoaded, Chosen
  <2>3. s.timer > 0
    BY <1>2, <2>2
  <2> QED
    BY <2>1, <2>3, LoadsWait, ChosenWait DEF Connected, Unconnected
<1>3. CASE s.timer = 0
  <2>1. Clocked(s, u)
    BY <1>3, Fires
  <2>2. s.timer # Off
    BY <1>3 DEF Off
  <2>3. CASE Connected(s, p)
    <3>1. s.chip = "initiator"
      BY <2>3 DEF Connected
    <3>2. ~Resting(s, p) /\ ~InFull(s, p) /\ ~OutWaits(s, p)
      BY <2>2 DEF Resting, InFull, OutWaits, Chip
    <3>3. \/ WaitsReq(s, p) \/ CommandLoaded(s, p) \/ Begins(s, p) \/ InReq(s, p)
             \/ InEmpty(s, p) \/ InAck(s, p)
          \/ OutReq(s, p) \/ OutFull(s, p) \/ OutAck(s, p) \/ OutPad(s, p)
      BY <2>3, <3>2 DEF Connected
    <3> QED
      BY <2>1, <3>1, <3>3, WaitsReqOn, LoadsOn, BeginsOn, InReqOn, InEmptyOn, InAckOn, OutReqOn,
         OutFullOn,
         OutAckOn, OutPadOn
  <2>4. CASE Unconnected(s, p)
    <3>1. s.chip = "disconnected"
      BY <2>4 DEF Unconnected
    <3>2. ~Idles(s, p)
      BY <2>2 DEF Idles, Chip
    <3>3. CASE Awaits(s, p)
      <4>1. s.state \in {"wait busy", "complete"}
        BY <3>3 DEF Awaits, Selects, Chip
      <4>2. Listens(s) \/ s.state = "complete"
        BY <4>1 DEF Listens
      <4> QED
        BY <2>1, <3>1, <3>3, <4>2, AwaitsOn, CompletesOn
    <3> QED
      BY <2>1, <2>4, <3>1, <3>2, <3>3, ChosenOn, ArbitratesOn DEF Unconnected
  <2> QED
    BY <2>3, <2>4
<1> QED
  BY <1>1, <1>2, <1>3

(* Where chip and target are in step, the target's own timer is off. *)
LEMMA InStepNoTimer ==
  ASSUME NEW s, NEW p, Connected(s, p) \/ Unconnected(s, p)
  PROVE  s.tTimer = FALSE
<1>1. \A n : Asking(s, n) => s.tTimer = FALSE
  BY DEF Asking, Handshake
<1>2. Holding(s) => s.tTimer = FALSE
  BY DEF Holding, Handshake
<1>3. \A target, lines : AtRest(s, target, lines) => s.tTimer = FALSE
  BY DEF AtRest
<1>4. Starts(s, p) => s.tTimer = FALSE
  BY <1>1 DEF Starts
<1>5. Connected(s, p) => s.tTimer = FALSE
  BY <1>1, <1>2, <1>4 DEF Connected, Resting, WaitsReq, CommandLoaded, Begins, InReq, InFull,
     InEmpty, InAck, OutReq, OutWaits,
                          OutFull, OutAck, OutPad
<1>6. Unconnected(s, p) => s.tTimer = FALSE
  BY <1>3 DEF Unconnected, Idles, Chosen, Arbitrates, Awaits
<1> QED
  BY <1>5, <1>6

(* The target's clock in the same tick: it ends the settling. *)
LEMMA TargetOn ==
  ASSUME NEW s, NEW p, InStep(s, p) \/ SettleStarted(s, p), NEW u, u = TargetClock(s)
  PROVE  InStep(u, p)
<1>1. CASE InStep(s, p)
  <2>1. s.tTimer = FALSE
    BY <1>1, InStepNoTimer DEF InStep, Normal
  <2>2. u = s
    BY <2>1 DEF TargetClock
  <2> QED
    BY <1>1, <2>2
<1>2. CASE SettleStarted(s, p)
  <2>1. /\ Typed(s) /\ s.dataReq = s.dreq /\ s.stall = FALSE /\ Knows(s, p) /\ Settling(s, p)
    BY <1>2 DEF SettleStarted
  <2>2. PICK lines : lines \in SelectLines /\ Selects(s, p, "wait busy", lines)
    BY <2>1 DEF Settling
  <2>3. /\ s.target = "settle" /\ s.tLines = {} /\ s.sub = "none" /\ s.queue = <<>> /\ s.tData = 0
        /\ s.tWait = Quiet /\ s.tTimer = TRUE /\ Wires(s) /\ HasFields(s) /\ s.nLines = lines
    BY <2>1, <2>2 DEF Settling, Typed, Wires, Selects
  <2>4. s.chip = "disconnected" /\ s.dest /\ s.nData = WithTarget
    BY <2>1 DEF Settling
  <2>5. PICK r : r = [s EXCEPT !.tTimer = FALSE]
    OBVIOUS
  <2>6. Others(s, r, {"tTimer"}) /\ HasFields(r) /\ r.tTimer = FALSE
    BY <2>3, <2>5 DEF Others, HasFields, Fields
  <2>7. /\ r.target = "settle" /\ r.tLines = {} /\ r.sub = "none" /\ r.queue = <<>> /\ r.tData = 0
        /\ r.tWait = Quiet /\ r.nLines = lines
    BY <2>3, <2>6 DEF Others, HasFields, Fields
  <2>8. Wires(r)
    BY <2>3, <2>6, <2>7 DEF Wires
  <2>9. u = TargetStep(r)
    BY <2>3, <2>5 DEF TargetClock
  <2>10. lines \in {{"SEL"}, {"ATN", "SEL"}}
    BY <2>2 DEF SelectLines
  <2>11. Others(r, u, {"target", "tLines"}) /\ AtRest(u, "selected", {"BSY"}) /\ Wires(u)
    BY <2>6, <2>7, <2>8, <2>9, <2>10, SettlesOn
  <2>12. Others(s, u, {"target", "tLines", "tTimer"}) /\ HasFields(u)
    BY <2>6, <2>11 DEF Others, Wires
  <2>13. Others(s, u, LineParts)
    BY <2>12 DEF Others, LineParts, CallParts, TargetParts
  <2>14. /\ u.dataReq = s.dataReq /\ u.dreq = s.dreq /\ u.full = s.full /\ u.stall = s.stall
         /\ u.nLines = s.nLines /\ u.nData = s.nData /\ u.state = s.state /\ u.timer = s.timer
    BY <2>3, <2>12 DEF Others, HasFields, Fields
  <2>15. u.count = s.count /\ u.taken = s.taken
    BY <2>3, <2>12 DEF Others, HasFields, Fields
  <2>16. u.count \in Nat /\ u.taken \in Nat
    BY <2>1, <2>15 DEF Typed
  <2>17. Untold(s, p) /\ Vacant(s, p) /\ s.loaded = FALSE
    BY <2>2 DEF Selects, Chip
  <2>18. /\ Typed(u) /\ Knows(u, p) /\ Untold(u, p) /\ u.chip = s.chip /\ u.loaded = s.loaded
         /\ u.cmd = s.cmd /\ u.got = s.got /\ u.dest = s.dest
    <3>1. s.int = {} /\ s.mint = FALSE
      BY <2>17 DEF Untold
    <3>2. u.active = s.active /\ u.write = s.write /\ u.int = s.int /\ u.mint = s.mint
         /\ u.intNcr = s.intNcr
      BY <2>3, <2>12 DEF Others, HasFields, Fields
    <3>3. u.chip = s.chip /\ u.loaded = s.loaded /\ u.cmd = s.cmd /\ u.dest = s.dest
      BY <2>3, <2>12 DEF Others, HasFields, Fields
    <3>4. u.got = s.got /\ u.plan = s.plan
      BY <2>3, <2>12 DEF Others, HasFields, Fields
    <3>5. Knows(u, p) /\ Untold(u, p)
      BY <2>1, <2>17, <3>2, UntoldOn
    <3>6. u.got \in Nat /\ u.plan \in Plans
      BY <2>1, <3>4 DEF Typed
    <3>7. Typed(u)
      BY <2>11, <2>16, <3>6 DEF Typed
    <3> QED
      BY <3>3, <3>4, <3>5, <3>7
  <2>19. Vacant(u, p)
    BY <2>14, <2>17 DEF Vacant
  <2>20. u.got = 0 /\ u.taken = 0
    BY <2>2, <2>15, <2>18 DEF Selects
  <2>21. Selects(u, p, "wait busy", lines)
    BY <2>2, <2>14, <2>18, <2>19, <2>20 DEF Selects, Chip
  <2>22. u.nData = Own(u) /\ u.dest
    BY <2>4, <2>14, <2>18 DEF Own
  <2>23. Awaits(u, p)
    BY <2>2, <2>11, <2>21, <2>22 DEF Awaits, SelectLines
  <2> QED
    BY <2>1, <2>4, <2>14, <2>18, <2>23 DEF InStep, Normal, Unconnected
<1> QED
  BY <1>1, <1>2

(* The program is where it was, but for what is left to move. *)
SameProg(p, q) == q.at = p.at /\ q.in = p.in /\ q.seen = p.seen

(* It knows what it knew. *)
LEMMA ProgSame ==
  ASSUME NEW s, NEW p, NEW q, SameProg(p, q)
  PROVE  /\ Knows(s, p) => Knows(s, q)
         /\ Untold(s, p) => Untold(s, q)
         /\ Vacant(s, p) => Vacant(s, q)
  BY DEF SameProg, Knows, Untold, Vacant

(* A byte is taken from the register: it is the one after those the program  *)
(* has.                                                                      *)
ByteTaken(s, u) ==
  /\ Others(s, u, {"got", "full", "dreq", "dataReq", "timer"})
  /\ u.timer = 0 /\ u.full = FALSE /\ u.dreq = FALSE /\ u.dataReq = FALSE
  /\ u.got = IF s.phase # DataIn THEN s.got ELSE IF s.byte = s.got + 1 THEN s.got + 1 ELSE Bad

(* After a byte in is taken the chip goes on. *)
LEMMA TakesByte ==
  ASSUME NEW s, NEW p, Steady(s, p), s.chip = "initiator", InFull(s, p), NEW u, ByteTaken(s, u),
         NEW q,
         SameProg(p, q), q.left = IF s.dma THEN p.left ELSE p.left - 1
  PROVE  InStep(u, q)
<1>1. /\ HasFields(s) /\ s.state = "in drq" /\ s.loaded = FALSE /\ Untold(s, p) /\ Asking(s, 1)
      /\ TransferIn(s, p, 0)
      /\ SamePhase(s) /\ s.cmd = "info" /\ s.count \in Nat /\ s.stall = FALSE
      /\ (s.phase = DataIn => s.byte = s.pos)
  BY DEF InFull, Chip, Steady, Typed, Wires
<1>2. Others(s, u, {"got", "full", "dreq", "dataReq", "timer"})
  BY DEF ByteTaken
<1>3. Others(s, u, InfoParts \cup {"got"})
  BY <1>2 DEF Others, InfoParts
<1>4. u.state = s.state /\ u.phase = s.phase /\ u.stall = s.stall /\ u.sbx = s.sbx
  BY <1>1, <1>2 DEF Others, HasFields, Fields
<1>5. u.count = s.count
  BY <1>1, <1>2 DEF Others, HasFields, Fields
<1>6. s.phase = Phase(s) /\ Left(s) > 0 /\ Kept(s, 1) /\ Handshake(s)
  BY <1>1 DEF SamePhase, Asking
<1>7. s.got \in Nat /\ (Phase(s) = DataIn => s.pos \in Nat /\ s.got = s.pos - 1)
  BY <1>6, DataStages DEF Steady, Typed, Kept
<1>8. u.got = IF Phase(s) = DataIn THEN s.got + 1 ELSE s.got
  <2>1. s.phase = DataIn => s.byte = s.got + 1
    <3>1. s.phase = DataIn => s.byte = s.pos
      BY <1>1
    <3> QED
      BY <1>6, <1>7, <3>1
  <2>2. u.got = IF s.phase # DataIn THEN s.got ELSE IF s.byte = s.got + 1 THEN s.got + 1 ELSE Bad
    BY DEF ByteTaken
  <2> QED
    BY <1>6, <2>1, <2>2
<1>9. u.got \in Nat /\ (Phase(s) = DataIn => u.got = s.pos - 0)
  BY <1>7, <1>8
<1>10. u.count \in Nat /\ u.dataReq = u.dreq /\ u.stall = FALSE
  BY <1>1, <1>4, <1>5 DEF ByteTaken
<1>11. /\ HandSame(s, u) /\ Typed(u) /\ Knows(u, p) /\ Untold(u, p) /\ u.chip = s.chip
       /\ u.loaded = s.loaded
       /\ u.cmd = s.cmd /\ u.single = s.single /\ u.dma = s.dma /\ u.put = s.put
       /\ u.taken = s.taken
  BY <1>1, <1>3, <1>9, <1>10, InfoCounts
<1>12. Left(u) = Left(s) /\ Left(s) \in Nat
  BY <1>1, <1>4, <1>5, <1>11, LeftSame, CountsDown
<1>13. Phase(u) = Phase(s)
  BY <1>11, HandKept
<1>14. Asking(u, 0)
  <2>1. /\ Handshake(u) /\ Asks(u) /\ u.nLines = s.nLines /\ u.nData = s.nData /\ u.pos = s.pos
        /\ Size(u) = Size(s) /\ (Reads(u) <=> Reads(s)) /\ (Writes(u) <=> Writes(s))
    BY <1>1, <1>11, HandKept, ZenonT(60) DEF Asking
  <2>2. Phase(s) # DataIn => u.got = s.got
    BY <1>8
  <2>3. Kept(u, 0)
    BY <1>6, <1>9, <1>11, <1>13, <2>1, <2>2, PhasesDiffer DEF Kept
  <2> QED
    BY <1>1, <1>13, <2>1, <2>3 DEF Asking
<1>15. TransferIn(u, q, 1)
  <2>1. q.in /\ "IO" \in u.phase /\ u.cmd = "info"
    BY <1>1, <1>4, <1>11 DEF TransferIn, SameProg
  <2>2. u.phase = MessageIn => Left(u) <= 1
    BY <1>1, <1>4, <1>12 DEF TransferIn
  <2>3. s.dma => q.left = 0
    BY <1>1 DEF TransferIn
  <2>4. ~s.dma => q.left = Left(u) - 1
    <3>1. ~s.dma => p.left = Left(s) - 0
      BY <1>1 DEF TransferIn
    <3>2. ~s.dma => q.left = p.left - 1
      OBVIOUS
    <3> QED
      BY <1>12, <3>1, <3>2
  <2> QED
    BY <1>11, <2>1, <2>2, <2>3, <2>4 DEF TransferIn
<1>16. Knows(u, q) /\ Untold(u, q)
  BY <1>11, ProgSame
<1>17. Chip(u, "in drq", {0}) /\ Vacant(u, q) /\ SamePhase(u)
  BY <1>1, <1>4, <1>6, <1>11, <1>12, <1>13 DEF Chip, Vacant, SamePhase, ByteTaken
<1>18. InEmpty(u, q)
  BY <1>14, <1>15, <1>16, <1>17 DEF InEmpty
<1> QED
  BY <1>10, <1>11, <1>16, <1>18 DEF InStep, Normal, Connected

(* A byte is put into the register. *)
ByteGiven(s, u) ==
  /\ Others(s, u, {"put", "byte", "full", "dreq", "dataReq", "timer"})
  /\ u.full = TRUE /\ u.put = s.put + 1 /\ u.byte = s.put + 1

(* The bytes put there stay in order. *)
LEMMA OrderedOn ==
  ASSUME NEW s, NEW u, Ordered(s), ~s.full, s.taken \in Nat, u.taken = s.taken, u.full = TRUE,
         u.put = s.put + 1, u.byte = s.put + 1
  PROVE  Ordered(u)
  BY DEF Ordered, One

(* The fields that a byte put there changes. *)
GivenParts == InfoParts \cup {"put"}

(* The rest is as it was. *)
LEMMA GivenOn ==
  ASSUME NEW s, NEW p, Steady(s, p), Untold(s, p), NEW u, Others(s, u, GivenParts), u.count \in Nat,
         u.dataReq = u.dreq, u.stall = FALSE
  PROVE  /\ BusSame(s, u) /\ Typed(u) /\ Knows(u, p) /\ Untold(u, p) /\ u.chip = s.chip
         /\ u.loaded = s.loaded
         /\ u.cmd = s.cmd /\ u.single = s.single /\ u.dma = s.dma /\ u.taken = s.taken
<1>1. HasFields(s)
  BY DEF Steady, Typed, Wires
<1>2. BusSame(s, u)
  BY <1>1 DEF BusSame, BusParts, HandParts, Others, GivenParts, InfoParts, HasFields, Fields
<1>3. /\ u.chip = s.chip /\ u.loaded = s.loaded /\ u.cmd = s.cmd /\ u.single = s.single
      /\ u.dma = s.dma
      /\ u.active = s.active /\ u.write = s.write /\ u.int = s.int /\ u.mint = s.mint
      /\ u.intNcr = s.intNcr
  BY <1>1 DEF Others, GivenParts, InfoParts, HasFields, Fields
<1>4. Knows(u, p) /\ Untold(u, p)
  BY <1>3, UntoldOn DEF Steady
<1>5. Typed(u)
  BY <1>2, TypedOn DEF Steady
<1>6. u.taken = s.taken
  BY <1>2, BusKept
<1> QED
  BY <1>2, <1>3, <1>4, <1>5, <1>6

(* After a byte out is put the chip goes on. *)
LEMMA GivesByte ==
  ASSUME NEW s, NEW p, Steady(s, p), s.chip = "initiator", OutWaits(s, p), NEW u, ByteGiven(s, u),
         u.timer = 0, u.dreq = FALSE, u.dataReq = FALSE, NEW q,
         SameProg(p, q), q.left = IF s.dma THEN p.left ELSE p.left - 1
  PROVE  InStep(u, q)
<1>1. /\ HasFields(s) /\ s.state = "out drq" /\ s.loaded = FALSE /\ Untold(s, p) /\ Asking(s, 1)
      /\ TransferOut(s, p, 0)
      /\ SamePhase(s) /\ s.count \in Nat /\ s.stall = FALSE /\ ~s.full
  BY DEF OutWaits, Chip, Steady, Typed, Wires
<1>2. Others(s, u, {"put", "byte", "full", "dreq", "dataReq", "timer"}) /\ u.full = TRUE
  BY DEF ByteGiven
<1>3. Others(s, u, GivenParts)
  BY <1>2 DEF Others, GivenParts, InfoParts
<1>4. u.state = s.state /\ u.phase = s.phase /\ u.stall = s.stall /\ u.sbx = s.sbx
  BY <1>1, <1>2 DEF Others, HasFields, Fields
<1>5. u.count = s.count
  BY <1>1, <1>2 DEF Others, HasFields, Fields
<1>6. u.count \in Nat /\ u.dataReq = u.dreq /\ u.stall = FALSE
  BY <1>1, <1>4, <1>5
<1>7. /\ BusSame(s, u) /\ Typed(u) /\ Knows(u, p) /\ Untold(u, p) /\ u.chip = s.chip
      /\ u.loaded = s.loaded
      /\ u.cmd = s.cmd /\ u.single = s.single /\ u.dma = s.dma /\ u.taken = s.taken
  BY <1>1, <1>3, <1>6, GivenOn
<1>8. Left(u) = Left(s) /\ Left(s) \in Nat
  BY <1>1, <1>4, <1>5, <1>7, LeftSame, CountsDown
<1>9. Phase(u) = Phase(s) /\ Asking(u, 1)
  BY <1>1, <1>7, BusKept
<1>10. One(s.full) = 0 /\ One(u.full) = 1
  BY <1>1, <1>2 DEF One
<1>11. TransferOut(u, q, 0)
  <2>1. ~q.in /\ "IO" \notin u.phase /\ u.cmd \in {"info", "pad"}
    BY <1>1, <1>4, <1>7 DEF TransferOut, SameProg
  <2>2. u.phase = MessageOut => Left(u) <= 1
    BY <1>1, <1>4, <1>8 DEF TransferOut
  <2>3. u.dma => q.left = 0
    BY <1>1, <1>7 DEF TransferOut
  <2>4. u.cmd = "info" /\ ~u.dma => q.left + One(u.full) = Left(u) - 0
    <3>1. u.cmd = "info" /\ ~u.dma => p.left + One(s.full) = Left(s) - 0
      BY <1>1, <1>7 DEF TransferOut
    <3>2. ~u.dma => q.left = p.left - 1
      BY <1>7
    <3>3. p.left \in Nat
      BY DEF Steady, Drives
    <3> QED
      BY <1>8, <1>10, <3>1, <3>2, <3>3
  <2>5. Ordered(s) => Ordered(u)
    <3>1. s.taken \in Nat
      BY DEF Steady, Typed
    <3> QED
      BY <1>1, <1>2, <1>7, <3>1, OrderedOn DEF ByteGiven
  <2>6. u.cmd = "info" /\ u.phase = DataOut /\ Phase(u) = DataOut => Ordered(u)
    BY <1>1, <1>4, <1>7, <1>9, <2>5 DEF TransferOut
  <2> QED
    BY <2>1, <2>2, <2>3, <2>4, <2>6 DEF TransferOut
<1>12. Knows(u, q) /\ Untold(u, q)
  BY <1>7, ProgSame
<1>13. ~q.in
  BY <1>11 DEF TransferOut
<1>14. Chip(u, "out drq", {0}) /\ Vacant(u, q) /\ SamePhase(u)
  <2>1. SamePhase(u)
    BY <1>1, <1>4, <1>8, <1>9 DEF SamePhase
  <2> QED
    BY <1>1, <1>4, <1>7, <1>13, <2>1 DEF Chip, Vacant
<1>15. OutFull(u, q)
  BY <1>2, <1>9, <1>11, <1>12, <1>14 DEF OutFull
<1> QED
  BY <1>6, <1>7, <1>12, <1>15 DEF InStep, Normal, Connected

(* States in which the chip waits for the program. *)
Calm(s, p) ==
  \/ s.chip = "initiator" /\ (Resting(s, p) \/ WaitsReq(s, p))
  \/ s.chip = "disconnected" /\ Idles(s, p)

(* A cause stands, or the program does not wait: the chip is in one of them. *)
LEMMA CalmIfKnown ==
  ASSUME NEW s, NEW p, Connected(s, p) \/ Unconnected(s, p), ~Untold(s, p)
  PROVE  Calm(s, p)
<1>1. ~Starts(s, p)
  BY DEF Starts
<1>2. \A state, lines : ~Selects(s, p, state, lines)
  BY DEF Selects
<1>3. CASE Connected(s, p)
  BY <1>1, <1>3 DEF Connected, CommandLoaded, Begins, InReq, InFull, InEmpty, InAck, OutReq,
     OutWaits, OutFull, OutAck, OutPad, Calm
<1>4. CASE Unconnected(s, p)
  BY <1>2, <1>4 DEF Unconnected, Chosen, Arbitrates, Awaits, Calm
<1> QED
  BY <1>3, <1>4

(* The fields of the adapter, and those the program may change while the     *)
(* chip waits for it.                                                        *)
AdapterParts == {"active", "ready", "irq", "enabled", "dmaOn", "write"}
CalmParts == AdapterParts \cup {"int", "mint", "intNcr", "timer", "cmd", "single", "dma", "full",
  "put", "byte"}

(* It stays there whatever the program writes to them. *)
LEMMA CalmOn ==
  ASSUME NEW s, NEW p, NEW q, Typed(s), s.dataReq = s.dreq, s.stall = FALSE, Calm(s, p), NEW u,
         Others(s, u, CalmParts), Knows(u, q), Vacant(s, p) => Vacant(u, q),
         (u.timer = s.timer /\ (s.state # "idle" => u.mint = s.mint))
           \/ (u.timer = 0 /\ s.state # "idle")
  PROVE  InStep(u, q)
<1>1. HasFields(s)
  BY DEF Typed, Wires
<1>2. BusSame(s, u)
  BY <1>1 DEF BusSame, BusParts, HandParts, Others, CalmParts, AdapterParts, HasFields, Fields
<1>3. /\ u.chip = s.chip /\ u.state = s.state /\ u.loaded = s.loaded /\ u.dreq = s.dreq
      /\ u.dataReq = s.dataReq /\ u.stall = s.stall
  BY <1>1 DEF Others, CalmParts, AdapterParts, HasFields, Fields
<1>4. u.count = s.count
  BY <1>1 DEF Others, CalmParts, AdapterParts, HasFields, Fields
<1>5. Typed(u)
  BY <1>2, <1>4, TypedOn DEF Typed
<1>6. Vacant(s, p) => Vacant(u, q)
  OBVIOUS
<1>7. u.dataReq = u.dreq /\ u.stall = FALSE
  BY <1>3
<1>8. CASE s.chip = "initiator" /\ Resting(s, p)
  <2>1. s.state = "idle" /\ s.loaded = FALSE /\ s.timer = Off /\ Vacant(s, p)
    BY <1>8 DEF Resting, Chip
  <2>2. Chip(u, "idle", {Off})
    BY <1>3, <2>1 DEF Chip
  <2>3. Asking(s, 1) => Asking(u, 1)
    BY <1>2, BusKept
  <2>4. Phase(s) = MessageIn /\ Holding(s) /\ s.nData = 0 => Phase(u) = MessageIn /\ Holding(u)
       /\ u.nData = 0
    BY <1>2, BusKept
  <2>5. Resting(u, q)
    BY <1>6, <1>8, <2>1, <2>2, <2>3, <2>4 DEF Resting
  <2> QED
    BY <1>3, <1>5, <1>7, <1>8, <2>5 DEF InStep, Normal, Connected
<1>9. CASE s.chip = "initiator" /\ WaitsReq(s, p)
  <2>1. /\ s.state = "wait req" /\ s.loaded = FALSE /\ s.timer \in {Off, 0}
        /\ (s.timer = Off => s.mint)
        /\ Vacant(s, p) /\ Asking(s, 1)
    BY <1>9 DEF WaitsReq, Chip
  <2>2. Asking(u, 1)
    BY <1>2, <2>1, BusKept
  <2>3. u.timer \in {Off, 0} /\ (u.timer = Off => u.mint)
    <3>1. s.timer \in {Off, 0} /\ (s.timer = Off => s.mint)
      BY <2>1
    <3>2. s.state # "idle"
      BY <2>1
    <3>3. u.timer = 0 \/ (u.timer = s.timer /\ u.mint = s.mint)
      BY <3>2
    <3> QED
      BY <3>1, <3>3 DEF Off
  <2>4. WaitsReq(u, q)
    BY <1>3, <1>6, <2>1, <2>2, <2>3 DEF WaitsReq, Chip
  <2> QED
    BY <1>3, <1>5, <1>7, <1>9, <2>4 DEF InStep, Normal, Connected
<1>10. CASE s.chip = "disconnected" /\ Idles(s, p)
  <2>1. s.state = "idle" /\ s.loaded = FALSE /\ s.timer = Off /\ Vacant(s, p) /\ s.nLines = {}
       /\ AtRest(s, "idle", {})
    BY <1>10 DEF Idles, Chip
  <2>2. Chip(u, "idle", {Off})
    BY <1>3, <2>1 DEF Chip
  <2>3. u.nLines = {} /\ AtRest(u, "idle", {})
    BY <1>2, <2>1, BusKept
  <2>4. Idles(u, q)
    BY <1>6, <2>1, <2>2, <2>3 DEF Idles
  <2> QED
    BY <1>3, <1>5, <1>7, <1>10, <2>4 DEF InStep, Normal, Unconnected
<1> QED
  BY <1>8, <1>9, <1>10 DEF Calm

(* Everything but the adapter's own flags and the interrupts is as it was. *)
ChipSame(s, u) ==
  /\ BusSame(s, u)
  /\ u.chip = s.chip /\ u.state = s.state /\ u.loaded = s.loaded /\ u.timer = s.timer
  /\ u.cmd = s.cmd
  /\ u.single = s.single /\ u.dma = s.dma /\ u.count = s.count /\ u.sbx = s.sbx /\ u.full = s.full
  /\ u.byte = s.byte /\ u.phase = s.phase /\ u.dreq = s.dreq /\ u.put = s.put /\ u.dest = s.dest

(* Changes of the adapter's flags are such changes. *)
LEMMA AdapterOnly ==
  ASSUME NEW s, HasFields(s), NEW u, Others(s, u, AdapterParts)
  PROVE  ChipSame(s, u)
<1>1. BusSame(s, u)
  BY DEF BusSame, BusParts, HandParts, Others, AdapterParts, HasFields, Fields
<1>2. /\ u.chip = s.chip /\ u.state = s.state /\ u.loaded = s.loaded /\ u.timer = s.timer
      /\ u.cmd = s.cmd
      /\ u.single = s.single /\ u.dma = s.dma /\ u.full = s.full
  BY DEF Others, AdapterParts, HasFields, Fields
<1>3. /\ u.count = s.count /\ u.sbx = s.sbx /\ u.byte = s.byte /\ u.phase = s.phase
      /\ u.dreq = s.dreq
      /\ u.put = s.put /\ u.dest = s.dest
  BY DEF Others, AdapterParts, HasFields, Fields
<1> QED
  BY <1>1, <1>2, <1>3 DEF ChipSame

(* What depends on the chip and the bus alone stays true. *)
LEMMA ChipSameKeeps ==
  ASSUME NEW s, NEW u, ChipSame(s, u), NEW p, NEW q, q.in = p.in, q.left = p.left, Untold(u, q)
  PROVE  /\ \A state, timers : Chip(s, state, timers) => Chip(u, state, timers)
         /\ Vacant(s, p) => Vacant(u, q)
         /\ \A n : Asking(s, n) => Asking(u, n)
         /\ Holding(s) => Holding(u)
         /\ SamePhase(s) => SamePhase(u)
         /\ \A n : TransferIn(s, p, n) => TransferIn(u, q, n)
         /\ \A n : TransferOut(s, p, n) => TransferOut(u, q, n)
         /\ Starts(s, p) => Starts(u, q)
         /\ \A state, lines : Selects(s, p, state, lines) => Selects(u, q, state, lines)
<1>1. /\ u.chip = s.chip /\ u.state = s.state /\ u.loaded = s.loaded /\ u.timer = s.timer
      /\ u.cmd = s.cmd
      /\ u.single = s.single /\ u.dma = s.dma /\ u.count = s.count /\ u.sbx = s.sbx
      /\ u.full = s.full
      /\ u.byte = s.byte /\ u.phase = s.phase /\ u.dreq = s.dreq /\ u.put = s.put
  BY DEF ChipSame
<1>2. /\ Phase(u) = Phase(s) /\ u.taken = s.taken /\ u.got = s.got /\ u.nLines = s.nLines
      /\ \A n : Asking(s, n) => Asking(u, n)
      /\ Holding(s) => Holding(u)
  BY BusKept DEF ChipSame
<1>3. Left(u) = Left(s)
  BY <1>1, LeftSame
<1>4. \A state, timers : Chip(s, state, timers) => Chip(u, state, timers)
  BY <1>1 DEF Chip
<1>5. Vacant(s, p) => Vacant(u, q)
  BY <1>1 DEF Vacant
<1>6. SamePhase(s) => SamePhase(u)
  BY <1>1, <1>2, <1>3 DEF SamePhase
<1>7. Ordered(s) => Ordered(u)
  BY <1>1, <1>2 DEF Ordered
<1>8. \A n : TransferIn(s, p, n) => TransferIn(u, q, n)
  BY <1>1, <1>3 DEF TransferIn
<1>9. \A n : TransferOut(s, p, n) => TransferOut(u, q, n)
  BY <1>1, <1>2, <1>3, <1>7 DEF TransferOut
<1>10. Starts(s, p) => Starts(u, q)
  BY <1>1, <1>2, <1>5, <1>7 DEF Starts
<1>11. \A state, lines : Selects(s, p, state, lines) => Selects(u, q, state, lines)
  BY <1>1, <1>2, <1>4, <1>5 DEF Selects
<1> QED
  BY <1>2, <1>4, <1>5, <1>6, <1>8, <1>9, <1>10, <1>11

(* So does the state of the invariant, of a chip that is at work. *)
LEMMA ChipSameOn ==
  ASSUME NEW s, NEW u, ChipSame(s, u), NEW p, NEW q, q.in = p.in, q.left = p.left, Untold(u, q),
         Connected(s, p) \/ Unconnected(s, p), ~Calm(s, p)
  PROVE  Connected(u, q) \/ Unconnected(u, q)
<1>1. /\ \A state, timers : Chip(s, state, timers) => Chip(u, state, timers)
      /\ Vacant(s, p) => Vacant(u, q)
      /\ \A n : Asking(s, n) => Asking(u, n)
      /\ Holding(s) => Holding(u)
      /\ SamePhase(s) => SamePhase(u)
      /\ \A n : TransferIn(s, p, n) => TransferIn(u, q, n)
      /\ \A n : TransferOut(s, p, n) => TransferOut(u, q, n)
      /\ Starts(s, p) => Starts(u, q)
      /\ \A state, lines : Selects(s, p, state, lines) => Selects(u, q, state, lines)
  BY ChipSameKeeps
<1>2. /\ u.chip = s.chip /\ u.full = s.full /\ u.dma = s.dma /\ u.cmd = s.cmd /\ u.dreq = s.dreq
      /\ u.phase = s.phase /\ u.byte = s.byte /\ u.state = s.state /\ u.loaded = s.loaded
      /\ u.timer = s.timer
      /\ u.dest = s.dest /\ u.sbx = s.sbx /\ u.single = s.single
  BY DEF ChipSame
<1>3. /\ u.pos = s.pos /\ u.nData = s.nData /\ u.nLines = s.nLines /\ u.got = s.got
      /\ u.taken = s.taken
      /\ \A target, lines : AtRest(s, target, lines) => AtRest(u, target, lines)
  BY BusKept DEF ChipSame
<1>4. Own(u) = Own(s)
  BY <1>2 DEF Own
<1>5. CommandLoaded(s, p) => CommandLoaded(u, q)
  BY <1>1, <1>2 DEF CommandLoaded
<1>6. Begins(s, p) => Begins(u, q)
  BY <1>1, <1>2 DEF Begins
<1>7. InReq(s, p) => InReq(u, q)
  BY <1>1 DEF InReq
<1>8. InFull(s, p) => InFull(u, q)
  BY <1>1, <1>2, <1>3 DEF InFull
<1>9. InEmpty(s, p) => InEmpty(u, q)
  BY <1>1 DEF InEmpty
<1>10. InAck(s, p) => InAck(u, q)
  BY <1>1, <1>3 DEF InAck
<1>11. OutReq(s, p) => OutReq(u, q)
  BY <1>1, <1>2 DEF OutReq
<1>12. OutWaits(s, p) => OutWaits(u, q)
  BY <1>1, <1>2 DEF OutWaits
<1>13. OutFull(s, p) => OutFull(u, q)
  BY <1>1, <1>2 DEF OutFull
<1>14. OutAck(s, p) => OutAck(u, q)
  BY <1>1, <1>2 DEF OutAck
<1>15. OutPad(s, p) => OutPad(u, q)
  BY <1>1, <1>2 DEF OutPad
<1>16. Chosen(s, p) => Chosen(u, q)
  BY <1>1, <1>2, <1>3 DEF Chosen
<1>17. Arbitrates(s, p) => Arbitrates(u, q)
  BY <1>1, <1>3, <1>4 DEF Arbitrates
<1>18. Awaits(s, p) => Awaits(u, q)
  BY <1>1, <1>2, <1>3, <1>4 DEF Awaits
<1>19. CASE Connected(s, p)
  <2>1. s.chip = "initiator" /\ ~Resting(s, p) /\ ~WaitsReq(s, p)
    BY <1>19 DEF Connected, Calm
  <2> QED
    BY <1>2, <1>5, <1>6, <1>7, <1>8, <1>9, <1>10, <1>11, <1>12, <1>13, <1>14, <1>15, <1>19,
       <2>1 DEF Connected
<1>20. CASE Unconnected(s, p)
  <2>1. s.chip = "disconnected" /\ ~Idles(s, p)
    BY <1>20 DEF Unconnected, Calm
  <2> QED
    BY <1>2, <1>16, <1>17, <1>18, <1>20, <2>1 DEF Unconnected
<1> QED
  BY <1>19, <1>20

(* A change of the adapter's flags keeps the invariant, if the program still *)
(* knows what it should.                                                     *)
LEMMA AdapterOn ==
  ASSUME NEW s, NEW p, NEW q, InStep(s, p), NEW u, Others(s, u, AdapterParts), Knows(u, q),
         q.in = p.in,
         Untold(s, p) => q.left = p.left /\ Untold(u, q)
  PROVE  InStep(u, q)
<1>1. /\ Typed(s) /\ s.dataReq = s.dreq /\ s.stall = FALSE /\ HasFields(s)
      /\ Connected(s, p) \/ Unconnected(s, p)
  BY DEF InStep, Normal, Typed, Wires
<1>2. CASE Calm(s, p)
  <2>1. Others(s, u, CalmParts)
    BY DEF Others, CalmParts
  <2>2. u.timer = s.timer /\ u.mint = s.mint /\ u.dreq = s.dreq /\ u.full = s.full
    BY <1>1 DEF Others, AdapterParts, HasFields, Fields
  <2>3. Vacant(s, p) => Vacant(u, q)
    BY <2>2 DEF Vacant
  <2> QED
    BY <1>1, <1>2, <2>1, <2>2, <2>3, CalmOn
<1>3. CASE ~Calm(s, p)
  <2>1. Untold(s, p)
    BY <1>1, <1>3, CalmIfKnown
  <2>2. ChipSame(s, u)
    BY <1>1, AdapterOnly
  <2>3. Connected(u, q) \/ Unconnected(u, q)
    BY <1>1, <1>3, <2>1, <2>2, ChipSameOn
  <2>4. Typed(u)
    BY <1>1, <2>2, TypedOn DEF ChipSame, Typed
  <2>5. u.dataReq = u.dreq /\ u.stall = FALSE
    BY <1>1 DEF Others, AdapterParts, HasFields, Fields
  <2> QED
    BY <2>3, <2>4, <2>5 DEF InStep, Normal
<1> QED
  BY <1>2, <1>3

(* A data request stands only where a byte of a DMA transfer is due. *)
LEMMA DmaRequested ==
  ASSUME NEW s, NEW p, Connected(s, p) \/ Unconnected(s, p), s.dreq
  PROVE  s.chip = "initiator" /\ s.dma /\ (InFull(s, p) \/ OutWaits(s, p))
<1>1. ~Vacant(s, p) /\ ~Starts(s, p)
  BY DEF Vacant, Starts
<1>2. \A state, lines : ~Selects(s, p, state, lines)
  BY <1>1 DEF Selects
<1>3. ~Unconnected(s, p)
  BY <1>1, <1>2 DEF Unconnected, Idles, Chosen, Arbitrates, Awaits
<1>4. s.chip = "initiator" /\ (InFull(s, p) \/ OutWaits(s, p))
  BY <1>1, <1>3 DEF Connected, Resting, WaitsReq, CommandLoaded, Begins, InReq, InEmpty, InAck,
     OutReq, OutFull, OutAck, OutPad
<1>5. s.dma
  BY <1>4 DEF InFull, OutWaits
<1> QED
  BY <1>4, <1>5

(* The DMA takes that byte. *)
LEMMA ReadsByDMA ==
  ASSUME NEW s, HasFields(s), s.dreq, NEW u, u = DMARead(s)
  PROVE  ByteTaken(s, u)
<1>1. PICK k : k = [Took(s) EXCEPT !.full = FALSE]
  OBVIOUS
<1>2. PICK l : l = SetDreq(k, FALSE)
  OBVIOUS
<1>3. /\ Others(s, k, {"got", "full"}) /\ k.full = FALSE /\ HasFields(k)
      /\ k.got = IF s.phase # DataIn THEN s.got ELSE IF s.byte = s.got + 1 THEN s.got + 1 ELSE Bad
  BY <1>1 DEF Took, Others, HasFields, Fields
<1>4. k.dreq # FALSE
  BY <1>3 DEF Others, HasFields, Fields
<1>5. l = [k EXCEPT !.dreq = FALSE, !.dataReq = FALSE]
  BY <1>2, <1>4 DEF SetDreq
<1>6. Others(k, l, {"dreq", "dataReq"}) /\ l.dreq = FALSE /\ l.dataReq = FALSE /\ HasFields(l)
  BY <1>3, <1>5 DEF Others, HasFields, Fields
<1>7. u = [l EXCEPT !.timer = 0]
  BY <1>1, <1>2 DEF DMARead
<1>8. Others(l, u, {"timer"}) /\ u.timer = 0
  BY <1>6, <1>7 DEF Others, HasFields, Fields
<1>9. Others(s, u, {"got", "full", "dreq", "dataReq", "timer"})
  BY <1>3, <1>6, <1>8 DEF Others
<1>10. u.full = k.full /\ u.dreq = l.dreq /\ u.dataReq = l.dataReq
  BY <1>3, <1>6, <1>8 DEF Others, HasFields, Fields
<1>11. u.got = k.got
  BY <1>3, <1>6, <1>8 DEF Others, HasFields, Fields
<1> QED
  BY <1>3, <1>6, <1>8, <1>9, <1>10, <1>11 DEF ByteTaken

(* The DMA puts it. *)
LEMMA WritesByDMA ==
  ASSUME NEW s, HasFields(s), s.dreq, NEW u, u = DMAWrite(s)
  PROVE  ByteGiven(s, u) /\ u.timer = 0 /\ u.dreq = FALSE /\ u.dataReq = FALSE
<1>1. PICK k : k = [Gave(s) EXCEPT !.full = TRUE, !.byte = s.put + 1]
  OBVIOUS
<1>2. PICK l : l = SetDreq(k, FALSE)
  OBVIOUS
<1>3. /\ Others(s, k, {"put", "byte", "full"}) /\ k.full = TRUE /\ HasFields(k)
      /\ k.put = s.put + 1 /\ k.byte = s.put + 1
  BY <1>1 DEF Gave, Others, HasFields, Fields
<1>4. k.dreq # FALSE
  BY <1>3 DEF Others, HasFields, Fields
<1>5. l = [k EXCEPT !.dreq = FALSE, !.dataReq = FALSE]
  BY <1>2, <1>4 DEF SetDreq
<1>6. Others(k, l, {"dreq", "dataReq"}) /\ l.dreq = FALSE /\ l.dataReq = FALSE /\ HasFields(l)
  BY <1>3, <1>5 DEF Others, HasFields, Fields
<1>7. u = [l EXCEPT !.timer = 0]
  BY <1>1, <1>2 DEF DMAWrite
<1>8. Others(l, u, {"timer"}) /\ u.timer = 0
  BY <1>6, <1>7 DEF Others, HasFields, Fields
<1>9. Others(s, u, {"put", "byte", "full", "dreq", "dataReq", "timer"})
  BY <1>3, <1>6, <1>8 DEF Others
<1>10. u.full = k.full /\ u.dreq = l.dreq /\ u.dataReq = l.dataReq
  BY <1>3, <1>6, <1>8 DEF Others, HasFields, Fields
<1>11. u.put = k.put /\ u.byte = k.byte
  BY <1>3, <1>6, <1>8 DEF Others, HasFields, Fields
<1> QED
  BY <1>3, <1>6, <1>8, <1>9, <1>10, <1>11 DEF ByteGiven

(* The adapter becomes ready. *)
Readied(s) == [s EXCEPT !.active = FALSE, !.ready = TRUE, !.irq = @ \/ s.enabled]

(* GoState(): the adapter becomes ready, moves a byte by DMA, or does *)
(* nothing.                                                           *)
LEMMA GoIs ==
  ASSUME NEW s, HasFields(s), NEW u, u = GoState(s)
  PROVE  /\ ~s.active => u = s
         /\ s.active /\ s.intNcr => Others(s, u, AdapterParts) /\ u.active = FALSE
         /\ s.active /\ ~s.intNcr /\ ~s.dataReq => u = s
         /\ s.active /\ ~s.intNcr /\ s.dataReq => u \in {s, IF s.write THEN DMARead(s)
            ELSE DMAWrite(s)}
<1>1. ~s.active => u = s
  BY DEF GoState
<1>2. ASSUME s.active, s.intNcr
      PROVE  Others(s, u, AdapterParts) /\ u.active = FALSE
  <2>1. PICK t : t = Readied(s)
    OBVIOUS
  <2>2. Others(s, t, AdapterParts) /\ t.active = FALSE
    BY <2>1 DEF Readied, Others, AdapterParts, HasFields, Fields
  <2>3. u = IF t.dmaOn /\ t.dataReq /\ t.active THEN IF t.write THEN DMARead(t)
       ELSE DMAWrite(t) ELSE t
    BY <1>2, <2>1 DEF GoState, Readied
  <2>4. u = t
    BY <2>2, <2>3
  <2> QED
    BY <2>2, <2>4
<1>3. ASSUME s.active, ~s.intNcr
      PROVE  u = IF s.dmaOn /\ s.dataReq /\ s.active THEN IF s.write THEN DMARead(s)
             ELSE DMAWrite(s) ELSE s
  BY <1>3 DEF GoState
<1>4. s.active /\ ~s.intNcr /\ ~s.dataReq => u = s
  BY <1>3
<1>5. s.active /\ ~s.intNcr /\ s.dataReq => u \in {s, IF s.write THEN DMARead(s) ELSE DMAWrite(s)}
  BY <1>3
<1> QED
  BY <1>1, <1>2, <1>4, <1>5

(* Each of them keeps the invariant. *)
LEMMA GoOn ==
  ASSUME NEW s, NEW p, InStep(s, p), Drives(p), NEW u, u = GoState(s)
  PROVE  InStep(u, p)
<1>1. /\ Typed(s) /\ s.dataReq = s.dreq /\ s.stall = FALSE /\ Knows(s, p) /\ HasFields(s)
      /\ Connected(s, p) \/ Unconnected(s, p)
  BY DEF InStep, Normal, Typed, Wires
<1>2. CASE u = s
  BY <1>2
<1>3. CASE s.active /\ s.intNcr
  <2>1. Others(s, u, AdapterParts) /\ u.active = FALSE
    BY <1>1, <1>3, GoIs
  <2>2. /\ u.int = s.int /\ u.mint = s.mint /\ u.intNcr = s.intNcr /\ u.chip = s.chip
        /\ u.state = s.state
        /\ u.loaded = s.loaded /\ u.sub = s.sub
    BY <1>1, <2>1 DEF Others, AdapterParts, HasFields, Fields
  <2>3. (Ready(u) <=> Ready(s)) /\ (Idle(u) <=> Idle(s))
    BY <2>2 DEF Ready, Idle, Asks
  <2>4. Knows(u, p)
    BY <1>1, <2>1, <2>2, <2>3 DEF Knows
  <2>5. ~Untold(s, p)
    BY <1>3 DEF Untold
  <2> QED
    BY <2>1, <2>4, <2>5, AdapterOn
<1>4. CASE s.active /\ ~s.intNcr /\ s.dataReq /\ u # s
  <2>1. s.write = p.in
    BY <1>1, <1>4 DEF Knows
  <2>2. s.dreq
    BY <1>1, <1>4
  <2>3. s.chip = "initiator" /\ s.dma /\ (InFull(s, p) \/ OutWaits(s, p))
    BY <1>1, <2>2, DmaRequested
  <2>4. Steady(s, p)
    BY <1>1 DEF Steady
  <2>5. /\ p.in => u = DMARead(s)
        /\ ~p.in => u = DMAWrite(s)
    <3>1. u \in {s, IF s.write THEN DMARead(s) ELSE DMAWrite(s)}
      BY <1>1, <1>4, GoIs
    <3>2. u = IF s.write THEN DMARead(s) ELSE DMAWrite(s)
      BY <1>4, <3>1
    <3>3. s.write <=> p.in
      BY <2>1
    <3> QED
      BY <3>2, <3>3
  <2>6. SameProg(p, p) /\ p.left = IF s.dma THEN p.left ELSE p.left - 1
    BY <2>3 DEF SameProg
  <2>7. CASE InFull(s, p)
    <3>1. p.in
      BY <2>7 DEF InFull, TransferIn
    <3>2. ByteTaken(s, u)
      BY <1>1, <2>2, <2>5, <3>1, ReadsByDMA
    <3> QED
      BY <2>3, <2>4, <2>6, <2>7, <3>2, TakesByte
  <2>8. CASE OutWaits(s, p)
    <3>1. ~p.in
      BY <2>8 DEF OutWaits, TransferOut
    <3>2. ByteGiven(s, u) /\ u.timer = 0 /\ u.dreq = FALSE /\ u.dataReq = FALSE
      BY <1>1, <2>2, <2>5, <3>1, WritesByDMA
    <3> QED
      BY <2>3, <2>4, <2>6, <2>8, <3>2, GivesByte
  <2> QED
    BY <2>3, <2>7, <2>8
<1> QED
  BY <1>1, <1>2, <1>3, <1>4, GoIs

(* A whole tick: chip, target and adapter in turn. *)
LEMMA TickOn ==
  ASSUME NEW s, NEW p, InStep(s, p), Drives(p), NEW u, u = Tick(s)
  PROVE  InStep(u, p)
<1>1. PICK a : a = NcrClock(s)
  OBVIOUS
<1>2. PICK b : b = TargetClock(a)
  OBVIOUS
<1>3. u = GoState(b)
  BY <1>1, <1>2 DEF Tick
<1>4. Steady(s, p) /\ (Connected(s, p) \/ Unconnected(s, p))
  BY DEF InStep, Normal, Steady
<1>5. InStep(a, p) \/ SettleStarted(a, p)
  BY <1>1, <1>4, ClockOn
<1>6. InStep(b, p)
  BY <1>2, <1>5, TargetOn
<1> QED
  BY <1>3, <1>6, GoOn

(* Where the program gave up, a change of the adapter's flags matters *)
(* little.                                                            *)
LEMMA BrokenOn ==
  ASSUME NEW s, NEW p, Broken(s, p), Typed(s), NEW u, Others(s, u, AdapterParts),
         u.active => u.write = p.in, p.at = "drain" => ~u.active
  PROVE  Typed(u) /\ Broken(u, p)
<1>1. HasFields(s)
  BY DEF Typed, Wires
<1>2. ChipSame(s, u)
  BY <1>1, AdapterOnly
<1>3. Typed(u)
  BY <1>2, TypedOn DEF ChipSame, Typed
<1>4. u.dataReq = s.dataReq /\ u.stall = s.stall
  BY <1>1 DEF Others, AdapterParts, HasFields, Fields
<1>5. /\ u.chip = s.chip /\ u.state = s.state /\ u.loaded = s.loaded /\ u.timer = s.timer
      /\ u.dreq = s.dreq
      /\ u.full = s.full
  BY <1>2 DEF ChipSame
<1>6. /\ Handshake(s) => Handshake(u)
      /\ Asks(u) <=> Asks(s)
      /\ u.nLines = s.nLines
      /\ \A target, lines : AtRest(s, target, lines) => AtRest(u, target, lines)
  BY <1>2, BusKept DEF ChipSame
<1>7. Broken(u, p)
  BY <1>4, <1>5, <1>6 DEF Broken
<1> QED
  BY <1>3, <1>7

(* And a tick changes nothing but these. *)
LEMMA BrokenTick ==
  ASSUME NEW s, NEW p, Broken(s, p), Typed(s), NEW u, u = Tick(s)
  PROVE  Typed(u) /\ Broken(u, p)
<1>1. s.timer = Off /\ s.dataReq = FALSE /\ (p.at = "drain" => ~s.active) /\ HasFields(s)
  BY DEF Broken, Typed, Wires
<1>2. s.tTimer = FALSE
  <2>1. Handshake(s) => s.tTimer = FALSE
    BY DEF Handshake
  <2>2. \A target, lines : AtRest(s, target, lines) => s.tTimer = FALSE
    BY DEF AtRest
  <2> QED
    BY <2>1, <2>2 DEF Broken
<1>3. NcrClock(s) = s /\ TargetClock(s) = s
  BY <1>1, <1>2, Sleeps DEF TargetClock
<1>4. u = GoState(s)
  BY <1>3 DEF Tick
<1>5. CASE u = s
  BY <1>5
<1>6. CASE s.active /\ s.intNcr
  <2>1. Others(s, u, AdapterParts) /\ u.active = FALSE
    BY <1>1, <1>4, <1>6, GoIs
  <2> QED
    BY <2>1, BrokenOn
<1> QED
  BY <1>1, <1>4, <1>5, <1>6, GoIs

(* The CPU takes the adapter's interrupt. *)
Identified(s) == [s EXCEPT !.irq = FALSE, !.enabled = FALSE]

(* The interrupt taken keeps the invariant. *)
LEMMA IdentOn ==
  ASSUME NEW s, NEW p, Typed(s), Normal(s, p) \/ Broken(s, p), NEW u, u = Identified(s)
  PROVE  Typed(u) /\ (Normal(u, p) \/ Broken(u, p))
<1>1. HasFields(s)
  BY DEF Typed, Wires
<1>2. Others(s, u, AdapterParts) /\ u.active = s.active /\ u.write = s.write
  BY <1>1 DEF Identified, Others, AdapterParts, HasFields, Fields
<1>3. CASE Normal(s, p)
  <2>1. /\ u.int = s.int /\ u.mint = s.mint /\ u.intNcr = s.intNcr /\ u.chip = s.chip
        /\ u.state = s.state
        /\ u.loaded = s.loaded /\ u.sub = s.sub
    BY <1>1, <1>2 DEF Others, AdapterParts, HasFields, Fields
  <2>2. Knows(u, p)
    BY <1>2, <1>3, <2>1, KnowsSame DEF Normal, Ready, Idle, Asks
  <2>3. Untold(s, p) => Untold(u, p)
    BY <1>2, <2>1 DEF Untold
  <2> QED
    BY <1>2, <1>3, <2>2, <2>3, AdapterOn DEF InStep
<1>4. CASE Broken(s, p)
  <2>1. (s.active => s.write = p.in) /\ (p.at = "drain" => ~s.active)
    BY <1>4 DEF Broken
  <2> QED
    BY <1>2, <1>4, <2>1, BrokenOn
<1> QED
  BY <1>3, <1>4

(* WriteControl() in parts: the flags, the clear, the bus reset and the *)
(* activation.                                                          *)
ResetBit(bits) == "reset bus" \in bits
Controlled(s, bits) ==
  [s EXCEPT !.enabled = "enable" \in bits, !.active = "activate" \in bits,
            !.dmaOn = "dma" \in bits, !.write = "write" \in bits, !.ready = TRUE]

(* These are its parts. *)
LEMMA ControlIs ==
  ASSUME NEW s, NEW bits
  PROVE  WriteControl(s, bits) =
           LET d == IF "clear" \in bits THEN DeviceReset(Controlled(s, bits))
             ELSE Controlled(s, bits) IN
           Activated(IF ResetBit(bits) THEN ResetBus(d) ELSE d)
  BY Zenon DEF WriteControl, Controlled, ResetBit

(* What the flags are after it. *)
LEMMA ControlParts ==
  ASSUME NEW s, HasFields(s), NEW bits, NEW c, c = Controlled(s, bits)
  PROVE  /\ Others(s, c, AdapterParts) /\ HasFields(c)
         /\ c.active = ("activate" \in bits) /\ c.write = ("write" \in bits)
<1>1. Others(s, c, AdapterParts)
  BY DEF Controlled, Others, AdapterParts, HasFields, Fields
<1>2. c.active = ("activate" \in bits) /\ c.write = ("write" \in bits)
  BY DEF Controlled, HasFields, Fields
<1> QED
  BY <1>1, <1>2 DEF Others, HasFields

(* What the activation changes. *)
LEMMA ActivatedParts ==
  ASSUME NEW c, HasFields(c), NEW u, u = Activated(c)
  PROVE  Others(c, u, {"ready", "irq"}) /\ HasFields(u) /\ u.active = c.active /\ u.write = c.write
<1>1. Others(c, u, {"ready", "irq"})
  BY DEF Activated, Others, HasFields, Fields
<1> QED
  BY <1>1 DEF Others, HasFields, Fields

(* The word the program activates a transfer with. *)
Activating(p) == {"enable", "activate", "dma"} \cup (IF p.in THEN {"write"} ELSE {})

(* After it the program waits. *)
LEMMA ActivatesOn ==
  ASSUME NEW s, NEW p, InStep(s, p), Drives(p), p.at = "go", NEW u,
         u = WriteControl(s, Activating(p)),
         NEW q, q = [p EXCEPT !.at = "wait"], DOMAIN p = {"at", "seen", "left", "in"}
  PROVE  InStep(u, q)
<1>1. /\ Typed(s) /\ Knows(s, p) /\ HasFields(s)
  BY DEF InStep, Normal, Typed, Wires
<1>2. q.at = "wait" /\ q.in = p.in /\ q.left = p.left /\ q.seen = p.seen
  OBVIOUS
<1>3. PICK bits : bits = Activating(p)
  OBVIOUS
<1>4. "clear" \notin bits /\ "activate" \in bits /\ ("write" \in bits <=> p.in)
  BY <1>3 DEF Activating
<1>5. ~ResetBit(bits)
  BY <1>3, Zenon DEF Activating, ResetBit
<1>6. PICK c : c = Controlled(s, bits)
  OBVIOUS
<1>7. u = Activated(c)
  BY <1>3, <1>4, <1>5, <1>6, ControlIs
<1>8. Others(s, c, AdapterParts) /\ HasFields(c) /\ c.active = TRUE /\ c.write = p.in
  <2>1. p.in \in BOOLEAN
    BY DEF Drives
  <2>2. c.active = ("activate" \in bits) /\ c.write = ("write" \in bits)
    BY <1>1, <1>6, ControlParts, ZenonT(60)
  <2>3. c.active = TRUE
    BY <1>4, <2>2
  <2>4. c.write = p.in
    BY <1>4, <2>1, <2>2
  <2>5. Others(s, c, AdapterParts) /\ HasFields(c)
    BY <1>1, <1>6, ControlParts
  <2> QED
    BY <2>3, <2>4, <2>5
<1>9. Others(c, u, {"ready", "irq"}) /\ HasFields(u) /\ u.active = c.active /\ u.write = c.write
  BY <1>7, <1>8, ActivatedParts
<1>10. Others(s, u, AdapterParts)
  BY <1>8, <1>9 DEF Others, AdapterParts
<1>11. /\ u.int = s.int /\ u.mint = s.mint /\ u.intNcr = s.intNcr /\ u.chip = s.chip
       /\ u.state = s.state
       /\ u.loaded = s.loaded /\ u.sub = s.sub
  BY <1>1, <1>10 DEF Others, AdapterParts, HasFields, Fields
<1>12. (Ready(u) <=> Ready(s)) /\ (Idle(u) <=> Idle(s))
  BY <1>11 DEF Ready, Idle, Asks
<1>13. Knows(u, q)
  BY <1>1, <1>2, <1>8, <1>9, <1>11, <1>12 DEF Knows
<1>14. Untold(s, p) => Untold(u, q)
  BY <1>2, <1>8, <1>9, <1>11 DEF Untold
<1> QED
  BY <1>2, <1>10, <1>13, <1>14, AdapterOn

(* The fields that the reading of the causes changes. *)
ReadParts == {"int", "mint", "intNcr", "single", "dma", "timer"}

(* ReadInt(): the causes are gone, and a chip that is not idle is woken. *)
LEMMA ReadsInt ==
  ASSUME NEW s, HasFields(s), NEW u, u = ReadInt(s)
  PROVE  /\ Others(s, u, ReadParts) /\ u.int = {} /\ u.mint = FALSE /\ u.intNcr = FALSE
         /\ IF s.state # "idle" THEN u.timer = 0 ELSE u.timer = s.timer
<1>1. PICK a : a = [s EXCEPT !.int = {}]
  OBVIOUS
<1>2. PICK b : b = UpdateInt(a)
  OBVIOUS
<1>3. PICK c : c = Wake(b)
  OBVIOUS
<1>4. Others(s, a, {"int"}) /\ a.int = {} /\ HasFields(a)
  BY <1>1 DEF Others, HasFields, Fields
<1>5. b = IF a.mint = FALSE THEN a
          ELSE [a EXCEPT !.mint = FALSE, !.intNcr = @ \/ FALSE, !.single = @ /\ ~FALSE,
            !.dma = @ /\ ~FALSE]
  <2>1. (a.int # {}) = FALSE
    BY <1>4
  <2> QED
    BY <1>2, <2>1 DEF UpdateInt
<1>6. Others(a, b, {"mint", "intNcr", "single", "dma"}) /\ b.mint = FALSE /\ HasFields(b)
  BY <1>4, <1>5 DEF Others, HasFields, Fields
<1>7. c = IF b.state # "idle" THEN [b EXCEPT !.timer = 0] ELSE b
  BY <1>3 DEF Wake
<1>8. /\ Others(b, c, {"timer"}) /\ HasFields(c)
      /\ IF b.state # "idle" THEN c.timer = 0 ELSE c.timer = b.timer
  BY <1>6, <1>7 DEF Others, HasFields, Fields
<1>9. u = [c EXCEPT !.intNcr = FALSE]
  BY <1>1, <1>2, <1>3 DEF ReadInt
<1>10. Others(c, u, {"intNcr"}) /\ u.intNcr = FALSE
  BY <1>8, <1>9 DEF Others, HasFields, Fields
<1>11. Others(s, u, ReadParts)
  BY <1>4, <1>6, <1>8, <1>10 DEF Others, ReadParts
<1>12. u.int = a.int /\ u.mint = b.mint
  BY <1>4, <1>6, <1>8, <1>10 DEF Others, HasFields, Fields
<1>13. u.timer = c.timer /\ b.timer = s.timer
  BY <1>4, <1>6, <1>8, <1>10 DEF Others, HasFields, Fields
<1>14. b.state = s.state
  BY <1>4, <1>6 DEF Others, HasFields, Fields
<1> QED
  BY <1>4, <1>6, <1>8, <1>10, <1>11, <1>12, <1>13, <1>14

(* The program reads the causes and knows what they say. *)
LEMMA InterruptOn ==
  ASSUME NEW s, NEW p, InStep(s, p), Drives(p), p.at = "wait", ~s.active, NEW u, u = ReadInt(s),
         NEW q, q.at = "decide", q.seen = s.int, q.in = p.in, q.left = p.left
  PROVE  InStep(u, q)
<1>1. /\ Typed(s) /\ s.dataReq = s.dreq /\ s.stall = FALSE /\ Knows(s, p) /\ HasFields(s)
      /\ Connected(s, p) \/ Unconnected(s, p)
  BY DEF InStep, Normal, Typed, Wires
<1>2. /\ Others(s, u, ReadParts) /\ u.int = {} /\ u.mint = FALSE /\ u.intNcr = FALSE
      /\ IF s.state # "idle" THEN u.timer = 0 ELSE u.timer = s.timer
  BY <1>1, ReadsInt
<1>3. Calm(s, p)
  BY <1>1, CalmIfKnown DEF Untold
<1>4. Others(s, u, CalmParts)
  BY <1>2 DEF Others, ReadParts, CalmParts
<1>5. /\ u.chip = s.chip /\ u.state = s.state /\ u.loaded = s.loaded /\ u.sub = s.sub
      /\ u.active = s.active
      /\ u.dreq = s.dreq /\ u.full = s.full
  BY <1>1, <1>2 DEF Others, ReadParts, HasFields, Fields
<1>6. (Ready(u) <=> Ready(s)) /\ (Idle(u) <=> Idle(s))
  BY <1>5 DEF Ready, Idle, Asks
<1>7. s.int \in {{}, {"service"}, {"complete"}, {"invalid"}, {"disconnected"}}
  BY <1>1 DEF Knows
<1>8. /\ q.seen = {"service"} => Ready(u)
      /\ "disconnected" \in q.seen => Idle(u)
      /\ "invalid" \in q.seen => Ready(u)
  <2>1. /\ s.int \in {{"service"}, {"invalid"}} => Ready(s)
        /\ s.int = {"disconnected"} => Idle(s)
    BY <1>1 DEF Knows
  <2>2. ("disconnected" \in s.int => s.int = {"disconnected"})
       /\ ("invalid" \in s.int => s.int = {"invalid"})
    BY <1>7
  <2> QED
    BY <1>6, <2>1, <2>2
<1>9. Knows(u, q)
  BY <1>2, <1>5, <1>8 DEF Knows
<1>10. Vacant(s, p) => Vacant(u, q)
  BY <1>5 DEF Vacant
<1> QED
  BY <1>1, <1>2, <1>3, <1>4, <1>9, <1>10, CalmOn

(* The program takes a byte itself. *)
LEMMA ReadsOn ==
  ASSUME NEW s, NEW p, InStep(s, p), Drives(p), p.at = "wait", p.left > 0, p.in, s.full,
         NEW u, u = ReadData(Took(s)), NEW q, SameProg(p, q), q.left = p.left - 1
  PROVE  InStep(u, q)
<1>1. /\ Typed(s) /\ s.dataReq = s.dreq /\ Knows(s, p) /\ HasFields(s)
      /\ Connected(s, p) \/ Unconnected(s, p)
  BY DEF InStep, Normal, Typed, Wires
<1>2. ~Vacant(s, p)
  BY DEF Vacant
<1>3. ~Starts(s, p) /\ \A state, lines : ~Selects(s, p, state, lines)
  BY <1>2 DEF Starts, Selects
<1>4. ~Unconnected(s, p)
  BY <1>2, <1>3 DEF Unconnected, Idles, Chosen, Arbitrates, Awaits
<1>5. s.chip = "initiator" /\ InFull(s, p)
  BY <1>1, <1>2, <1>3, <1>4
     DEF Connected, Resting, WaitsReq, CommandLoaded, Begins, InReq, InEmpty, InAck, OutReq,
       OutWaits, OutFull, OutAck, OutPad
<1>6. s.dma => p.left = 0
  BY <1>5 DEF InFull, TransferIn
<1>7. ~s.dma
  BY <1>6
<1>8. s.dreq = FALSE
  BY <1>5, <1>7 DEF InFull
<1>9. s.state # "idle"
  BY <1>5 DEF InFull, Chip
<1>10. PICK k : k = Took(s)
  OBVIOUS
<1>11. /\ Others(s, k, {"got"}) /\ HasFields(k)
       /\ k.got = IF s.phase # DataIn THEN s.got ELSE IF s.byte = s.got + 1 THEN s.got + 1 ELSE Bad
  BY <1>1, <1>10 DEF Took, Others, HasFields, Fields
<1>12. k.full = s.full /\ k.state = s.state
  BY <1>1, <1>11 DEF Others, HasFields, Fields
<1>13. PICK l : l = [k EXCEPT !.full = FALSE]
  OBVIOUS
<1>14. Others(k, l, {"full"}) /\ l.full = FALSE /\ HasFields(l) /\ l.state = k.state
  BY <1>11, <1>13 DEF Others, HasFields, Fields
<1>15. u = [l EXCEPT !.timer = 0]
  <2>1. u = Wake(l)
    BY <1>10, <1>12, <1>13 DEF ReadData
  <2>2. l.state # "idle"
    BY <1>9, <1>12, <1>14
  <2> QED
    BY <2>1, <2>2 DEF Wake
<1>16. Others(l, u, {"timer"}) /\ u.timer = 0
  BY <1>14, <1>15 DEF Others, HasFields, Fields
<1>17. Others(s, u, {"got", "full", "timer"})
  BY <1>11, <1>14, <1>16 DEF Others
<1>18. u.dreq = s.dreq /\ u.dataReq = s.dataReq
  BY <1>1, <1>17 DEF Others, HasFields, Fields
<1>19. u.full = l.full
  BY <1>14, <1>16 DEF Others, HasFields, Fields
<1>20. u.got = k.got
  BY <1>11, <1>14, <1>16 DEF Others, HasFields, Fields
<1>21. Others(s, u, {"got", "full", "dreq", "dataReq", "timer"})
  BY <1>17 DEF Others
<1>22. u.full = FALSE /\ u.dreq = FALSE /\ u.dataReq = FALSE
  BY <1>1, <1>8, <1>14, <1>18, <1>19
<1>23. ByteTaken(s, u)
  BY <1>11, <1>16, <1>20, <1>21, <1>22 DEF ByteTaken
<1>24. Steady(s, p) /\ q.left = IF s.dma THEN p.left ELSE p.left - 1
  <2>1. Steady(s, p)
    BY <1>1 DEF Steady, InStep, Normal
  <2> QED
    BY <1>7, <2>1
<1> QED
  BY <1>5, <1>23, <1>24, TakesByte

(* The program puts a byte itself: what it does to the register. *)
LEMMA WritesByte ==
  ASSUME NEW s, HasFields(s), ~s.full, NEW u, u = WriteData(Gave(s), s.put + 1)
  PROVE  /\ Others(s, u, {"put", "byte", "full", "timer"}) /\ ByteGiven(s, u)
         /\ IF s.state # "idle" THEN u.timer = 0 ELSE u.timer = s.timer
<1>1. PICK k : k = Gave(s)
  OBVIOUS
<1>2. Others(s, k, {"put"}) /\ HasFields(k) /\ k.put = s.put + 1
  BY <1>1 DEF Gave, Others, HasFields, Fields
<1>3. k.full = s.full /\ k.state = s.state /\ k.timer = s.timer
  BY <1>2 DEF Others, HasFields, Fields
<1>4. PICK l : l = [k EXCEPT !.byte = s.put + 1, !.full = TRUE]
  OBVIOUS
<1>5. Others(k, l, {"byte", "full"}) /\ l.full = TRUE /\ l.byte = s.put + 1 /\ HasFields(l)
  BY <1>2, <1>4 DEF Others, HasFields, Fields
<1>6. l.state = s.state /\ l.timer = s.timer /\ l.put = k.put
  <2>1. l.state = k.state /\ l.timer = k.timer /\ l.put = k.put
    BY <1>2, <1>5 DEF Others, HasFields, Fields
  <2> QED
    BY <1>3, <2>1
<1>7. u = Wake(l)
  BY <1>1, <1>3, <1>4 DEF WriteData
<1>8. u = IF l.state # "idle" THEN [l EXCEPT !.timer = 0] ELSE l
  BY <1>7 DEF Wake
<1>9. /\ Others(l, u, {"timer"})
      /\ IF l.state # "idle" THEN u.timer = 0 ELSE u.timer = l.timer
  BY <1>5, <1>8 DEF Others, HasFields, Fields
<1>10. Others(s, u, {"put", "byte", "full", "timer"})
  BY <1>2, <1>5, <1>9 DEF Others
<1>11. u.full = l.full /\ u.byte = l.byte /\ u.put = l.put
  BY <1>5, <1>9 DEF Others, HasFields, Fields
<1>12. Others(s, u, {"put", "byte", "full", "dreq", "dataReq", "timer"})
  BY <1>10 DEF Others
<1>13. IF s.state # "idle" THEN u.timer = 0 ELSE u.timer = s.timer
  BY <1>6, <1>9
<1> QED
  BY <1>2, <1>5, <1>6, <1>10, <1>11, <1>12, <1>13 DEF ByteGiven

(* What such a byte leaves as it was. *)
LEMMA PutKeeps ==
  ASSUME NEW s, NEW p, Steady(s, p), p.left > 0, ~p.in, ~s.full, NEW u, ByteGiven(s, u), NEW q,
         SameProg(p, q),
         q.left = p.left - 1, u.count = s.count, u.sbx = s.sbx, u.phase = s.phase,
           u.dreq = s.dreq, u.loaded = s.loaded,
         BusSame(s, u), Untold(u, p), u.cmd = s.cmd, u.single = s.single, u.dma = s.dma
  PROVE  /\ \A n : TransferOut(s, p, n) => TransferOut(u, q, n) /\ ~s.dma
         /\ Starts(s, p) => Starts(u, q) /\ ~s.dma
         /\ Vacant(s, p) => Vacant(u, q)
         /\ SamePhase(s) => SamePhase(u)
         /\ p.left + One(s.full) = 1 => q.left + One(u.full) = 1
<1>1. /\ Phase(u) = Phase(s) /\ u.taken = s.taken
      /\ \A n : Asking(s, n) => Asking(u, n)
  BY BusKept
<1>2. Left(u) = Left(s)
  BY LeftSame
<1>3. q.left + One(u.full) = p.left + One(s.full)
  <2>1. p.left \in Nat
    BY DEF Steady, Drives
  <2>2. PICK a, b, f, g : a = p.left /\ b = q.left /\ f = s.full /\ g = u.full
    OBVIOUS
  <2>3. a \in Nat /\ b = a - 1 /\ a > 0 /\ ~f /\ g
    BY <2>1, <2>2 DEF ByteGiven
  <2>4. b + One(g) = a + One(f)
    <3>1. One(f) = 0 /\ One(g) = 1
      BY <2>3 DEF One
    <3>2. a \in Nat /\ b = a - 1
      BY <2>3
    <3> QED
      BY <3>1, <3>2
  <2> QED
    BY <2>2, <2>4
<1>4. Ordered(s) => Ordered(u)
  <2>1. s.taken \in Nat
    BY DEF Steady, Typed
  <2> QED
    BY <1>1, <2>1, OrderedOn DEF ByteGiven
<1>5. q.in = p.in /\ ~q.in
  BY DEF SameProg
<1>6. Vacant(s, p) => Vacant(u, q)
  BY <1>5 DEF Vacant
<1>7. Untold(u, q)
  BY ProgSame
<1>8. p.left # 0
  OBVIOUS
<1>9. ASSUME NEW n, TransferOut(s, p, n)
      PROVE  TransferOut(u, q, n) /\ ~s.dma
  <2>1. ~s.dma
    BY <1>8, <1>9 DEF TransferOut
  <2>2. s.cmd = "info" => q.left + One(u.full) = Left(u) - n
    <3>1. s.cmd = "info" => p.left + One(s.full) = Left(s) - n
      BY <1>9, <2>1 DEF TransferOut
    <3> QED
      BY <1>2, <1>3, <3>1
  <2> QED
    BY <1>1, <1>2, <1>4, <1>5, <1>9, <2>1, <2>2 DEF TransferOut
<1>10. ASSUME Starts(s, p)
       PROVE  Starts(u, q) /\ ~s.dma
  <2>1. ~s.dma
    BY <1>8, <1>10 DEF Starts
  <2>2. /\ s.cmd = "info" => q.left + One(u.full) = s.count
        /\ s.cmd # "info" => q.left + One(u.full) = 1
    BY <1>3, <1>10, <2>1 DEF Starts
  <2> QED
    BY <1>1, <1>4, <1>5, <1>6, <1>7, <1>10, <2>1, <2>2 DEF Starts
<1>11. SamePhase(s) => SamePhase(u)
  BY <1>1, <1>2 DEF SamePhase
<1> QED
  BY <1>3, <1>6, <1>9, <1>10, <1>11

(* It puts one while the chip is at work. *)
LEMMA PutUntold ==
  ASSUME NEW s, NEW p, Steady(s, p), Untold(s, p), Connected(s, p) \/ Unconnected(s, p),
         ~Calm(s, p),
         p.left > 0, ~p.in, ~s.full,
         NEW u, Others(s, u, {"put", "byte", "full", "timer"}), ByteGiven(s, u),
         IF s.state # "idle" THEN u.timer = 0 ELSE u.timer = s.timer,
         NEW q, SameProg(p, q), q.left = p.left - 1
  PROVE  InStep(u, q)
<1>1. HasFields(s) /\ s.count \in Nat /\ s.dataReq = s.dreq /\ s.stall = FALSE
  BY DEF Steady, Typed, Wires
<1>2. Others(s, u, GivenParts)
  BY DEF Others, GivenParts, InfoParts
<1>3. u.state = s.state /\ u.phase = s.phase /\ u.stall = s.stall /\ u.sbx = s.sbx
     /\ u.dreq = s.dreq /\ u.dataReq = s.dataReq
      /\ u.dest = s.dest
  BY <1>1 DEF Others, HasFields, Fields
<1>4. u.count = s.count
  BY <1>1 DEF Others, HasFields, Fields
<1>5. u.count \in Nat /\ u.dataReq = u.dreq /\ u.stall = FALSE
  BY <1>1, <1>3, <1>4
<1>6. /\ BusSame(s, u) /\ Typed(u) /\ Knows(u, p) /\ Untold(u, p) /\ u.chip = s.chip
      /\ u.loaded = s.loaded
      /\ u.cmd = s.cmd /\ u.single = s.single /\ u.dma = s.dma
  BY <1>2, <1>5, GivenOn
<1>7. Knows(u, q) /\ Untold(u, q)
  BY <1>6, ProgSame
<1>8. /\ \A n : TransferOut(s, p, n) => TransferOut(u, q, n) /\ ~s.dma
      /\ Starts(s, p) => Starts(u, q) /\ ~s.dma
      /\ Vacant(s, p) => Vacant(u, q)
      /\ SamePhase(s) => SamePhase(u)
      /\ p.left + One(s.full) = 1 => q.left + One(u.full) = 1
  BY <1>3, <1>4, <1>6, PutKeeps
<1>9. /\ \A n : Asking(s, n) => Asking(u, n)
      /\ Holding(s) => Holding(u)
      /\ u.nData = s.nData /\ u.nLines = s.nLines /\ u.got = s.got /\ u.taken = s.taken
      /\ \A target, lines : AtRest(s, target, lines) => AtRest(u, target, lines)
  BY <1>6, BusKept
<1>10. u.full
  BY DEF ByteGiven
<1>11. s.state = "idle" => u.timer = s.timer
  OBVIOUS
<1>12. \A state : Chip(s, state, {0}) => Chip(u, state, {0})
  <2>1. \/ s.state # "idle" /\ u.timer = 0
        \/ u.timer = s.timer
    OBVIOUS
  <2> QED
    BY <1>3, <1>6, <2>1 DEF Chip
<1>13. \A state, lines : Selects(s, p, state, lines) => Selects(u, q, state, lines)
  BY <1>6, <1>7, <1>8, <1>9, <1>12 DEF Selects
<1>14. CASE Connected(s, p)
  <2>1. s.chip = "initiator" /\ ~Resting(s, p) /\ ~WaitsReq(s, p)
    BY <1>14 DEF Connected, Calm
  <2>2. ~InReq(s, p) /\ ~InFull(s, p) /\ ~InEmpty(s, p) /\ ~InAck(s, p)
    BY DEF InReq, InFull, InEmpty, InAck, TransferIn
  <2>3. CommandLoaded(s, p) => CommandLoaded(u, q)
    BY <1>3, <1>6, <1>7, <1>8, <1>9, <1>11 DEF CommandLoaded
  <2>4. Begins(s, p) => Begins(u, q)
    BY <1>3, <1>6, <1>8, <1>12 DEF Begins
  <2>5. OutReq(s, p) => OutReq(u, q)
    BY <1>6, <1>7, <1>8, <1>9, <1>12 DEF OutReq
  <2>6. OutWaits(s, p) => InStep(u, q)
    <3>1. ASSUME OutWaits(s, p)
          PROVE  InStep(u, q)
      <4>1. ~s.dma
        BY <1>8, <3>1 DEF OutWaits
      <4>2. s.dreq = FALSE
        BY <3>1, <4>1 DEF OutWaits
      <4>3. s.state # "idle"
        BY <3>1 DEF OutWaits, Chip
      <4>4. u.timer = 0 /\ u.dreq = FALSE /\ u.dataReq = FALSE
        <5>1. u.timer = 0
          BY <4>3
        <5>2. u.dreq = s.dreq /\ u.dataReq = s.dreq
          BY <1>1, <1>3
        <5> QED
          BY <4>2, <5>1, <5>2
      <4>5. q.left = IF s.dma THEN p.left ELSE p.left - 1
        BY <4>1
      <4> QED
        BY <2>1, <3>1, <4>4, <4>5, GivesByte
    <3> QED
      BY <3>1
  <2>7. OutFull(s, p) => OutFull(u, q)
    BY <1>6, <1>7, <1>8, <1>9, <1>10, <1>12 DEF OutFull
  <2>8. OutAck(s, p) => OutAck(u, q)
    BY <1>6, <1>7, <1>8, <1>9, <1>12 DEF OutAck
  <2>9. OutPad(s, p) => OutPad(u, q)
    BY <1>6, <1>7, <1>8, <1>9, <1>12 DEF OutPad
  <2>10. InStep(u, q) \/ Connected(u, q)
    BY <1>6, <1>14, <2>1, <2>2, <2>3, <2>4, <2>5, <2>6, <2>7, <2>8, <2>9 DEF Connected
  <2> QED
    BY <1>5, <1>6, <1>7, <2>10 DEF InStep, Normal
<1>15. CASE Unconnected(s, p)
  <2>1. s.chip = "disconnected" /\ ~Idles(s, p)
    BY <1>15 DEF Unconnected, Calm
  <2>2. Own(u) = Own(s)
    BY <1>3 DEF Own
  <2>3. Chosen(s, p) => Chosen(u, q)
    BY <1>3, <1>6, <1>7, <1>8, <1>9, <1>11 DEF Chosen
  <2>4. Arbitrates(s, p) => Arbitrates(u, q)
    BY <1>9, <1>13, <2>2 DEF Arbitrates
  <2>5. Awaits(s, p) => Awaits(u, q)
    BY <1>3, <1>9, <1>13, <2>2 DEF Awaits
  <2>6. Unconnected(u, q)
    BY <1>6, <1>15, <2>1, <2>3, <2>4, <2>5 DEF Unconnected
  <2> QED
    BY <1>5, <1>6, <1>7, <2>6 DEF InStep, Normal
<1> QED
  BY <1>14, <1>15

(* It puts one at any time. *)
LEMMA WritesOn ==
  ASSUME NEW s, NEW p, InStep(s, p), Drives(p), p.left > 0, ~p.in, ~s.full,
         NEW u, u = WriteData(Gave(s), s.put + 1), NEW q, SameProg(p, q), q.left = p.left - 1
  PROVE  InStep(u, q)
<1>1. /\ Typed(s) /\ s.dataReq = s.dreq /\ s.stall = FALSE /\ Knows(s, p) /\ HasFields(s)
      /\ Connected(s, p) \/ Unconnected(s, p)
  BY DEF InStep, Normal, Typed, Wires
<1>2. /\ Others(s, u, {"put", "byte", "full", "timer"}) /\ ByteGiven(s, u)
      /\ IF s.state # "idle" THEN u.timer = 0 ELSE u.timer = s.timer
  BY <1>1, WritesByte
<1>3. CASE Calm(s, p)
  <2>1. Others(s, u, CalmParts)
    BY <1>2 DEF Others, CalmParts
  <2>2. /\ u.int = s.int /\ u.mint = s.mint /\ u.intNcr = s.intNcr /\ u.active = s.active
        /\ u.write = s.write
        /\ u.chip = s.chip /\ u.state = s.state /\ u.loaded = s.loaded /\ u.sub = s.sub
        /\ u.dreq = s.dreq
    BY <1>1, <1>2 DEF Others, HasFields, Fields
  <2>3. (Ready(u) <=> Ready(s)) /\ (Idle(u) <=> Idle(s))
    BY <2>2 DEF Ready, Idle, Asks
  <2>4. Knows(u, p)
    BY <1>1, <2>2, <2>3, KnowsSame
  <2>5. Knows(u, q) /\ ~q.in
    BY <2>4, ProgSame DEF SameProg
  <2>6. Vacant(s, p) => Vacant(u, q)
    BY <2>2, <2>5 DEF Vacant
  <2>7. (u.timer = s.timer /\ (s.state # "idle" => u.mint = s.mint))
       \/ (u.timer = 0 /\ s.state # "idle")
    BY <1>2
  <2> QED
    BY <1>1, <1>3, <2>1, <2>5, <2>6, <2>7, CalmOn
<1>4. CASE ~Calm(s, p)
  <2>1. Steady(s, p) /\ Untold(s, p)
    BY <1>1, <1>4, CalmIfKnown DEF Steady
  <2> QED
    BY <1>1, <1>2, <1>4, <2>1, PutUntold
<1> QED
  BY <1>3, <1>4

(* The fields of a command that is loaded. *)
LoadParts == {"cmd", "single", "dma", "full", "loaded", "timer"}

(* The commands that wait for the clock; the others are executed at once. *)
Delayed(cmd) == cmd \notin {"reset", "disconnect", "accept"}

(* Such a command in the register. *)
CommandWaiting(s, u, cmd, single, dma) ==
  /\ Others(s, u, LoadParts) /\ u.cmd = cmd /\ u.single = single /\ u.dma = dma
  /\ u.full = FALSE /\ u.loaded = TRUE /\ u.timer = 2

(* WriteCommand() leaves it there, with an empty data register. *)
LEMMA CommandWaits ==
  ASSUME NEW s, HasFields(s), NEW cmd, Delayed(cmd), NEW single, NEW dma,
         NEW u, u = WriteCommand(s, cmd, single, dma)
  PROVE  CommandWaiting(s, u, cmd, single, dma)
<1>1. PICK t : t = [s EXCEPT !.cmd = cmd, !.single = single, !.dma = dma]
  OBVIOUS
<1>2. /\ Others(s, t, {"cmd", "single", "dma"}) /\ t.cmd = cmd /\ t.single = single /\ t.dma = dma
      /\ HasFields(t)
  BY <1>1 DEF Others, HasFields, Fields
<1>3. u = [t EXCEPT !.full = FALSE, !.loaded = TRUE, !.timer = 2]
  BY <1>1 DEF WriteCommand, Delayed
<1>4. Others(t, u, {"full", "loaded", "timer"}) /\ u.full = FALSE /\ u.loaded = TRUE /\ u.timer = 2
  BY <1>2, <1>3, ZenonT(60) DEF Others, HasFields, Fields
<1>5. Others(s, u, LoadParts)
  BY <1>2, <1>4 DEF Others, LoadParts
<1>6. u.cmd = t.cmd /\ u.single = t.single /\ u.dma = t.dma
  BY <1>2, <1>4 DEF Others, HasFields, Fields
<1> QED
  BY <1>2, <1>4, <1>5, <1>6 DEF CommandWaiting

(* While the program decides, and while it has no bus, the chip waits for    *)
(* it.                                                                       *)
LEMMA Decides ==
  ASSUME NEW s, NEW p, InStep(s, p), p.at \in {"decide", "idle"}
  PROVE  Calm(s, p) /\ ~s.active
<1>1. ~Untold(s, p) /\ ~s.active
  BY DEF Untold, InStep, Normal, Knows
<1>2. Connected(s, p) \/ Unconnected(s, p)
  BY DEF InStep, Normal
<1> QED
  BY <1>1, <1>2, CalmIfKnown

(* The chip of a program that knows of a request is idle, and the target     *)
(* asks.                                                                     *)
LEMMA ReadyRests ==
  ASSUME NEW s, NEW p, Calm(s, p), Ready(s)
  PROVE  /\ s.chip = "initiator" /\ s.state = "idle" /\ s.loaded = FALSE /\ s.timer = Off
         /\ s.dreq = FALSE
         /\ Asking(s, 1) /\ Resting(s, p) /\ (p.in => ~s.full)
<1>1. s.chip = "initiator" /\ s.state = "idle" /\ s.loaded = FALSE /\ Asks(s)
  BY DEF Ready
<1>2. s.state # "wait req"
  BY <1>1
<1>3. Resting(s, p)
  BY <1>1, <1>2 DEF Calm, WaitsReq, Chip
<1>4. s.timer = Off /\ s.dreq = FALSE /\ (p.in => ~s.full)
  BY <1>3 DEF Resting, Chip, Vacant
<1>5. Asking(s, 1)
  BY <1>1, <1>3 DEF Resting, Holding
<1> QED
  BY <1>1, <1>3, <1>4, <1>5

(* The chip of a program that knows the bus is free is idle, and the target  *)
(* at rest.                                                                  *)
LEMMA IdleRests ==
  ASSUME NEW s, NEW p, Calm(s, p), Idle(s)
  PROVE  /\ s.chip = "disconnected" /\ s.state = "idle" /\ s.loaded = FALSE /\ s.timer = Off
         /\ s.dreq = FALSE
         /\ s.nLines = {} /\ AtRest(s, "idle", {}) /\ (p.in => ~s.full)
<1>1. s.chip = "disconnected" /\ s.state = "idle" /\ s.loaded = FALSE
  BY DEF Idle
<1>2. Idles(s, p)
  BY <1>1 DEF Calm
<1>3. s.timer = Off /\ s.dreq = FALSE /\ s.nLines = {} /\ AtRest(s, "idle", {}) /\ (p.in => ~s.full)
  BY <1>2 DEF Idles, Chip, Vacant
<1> QED
  BY <1>1, <1>3

(* It selects a target, and sets the counters to zero. *)
Choice(cmd) == cmd \in {"select", "select with ATN"}
Aimed(s, there, plan) == [s EXCEPT !.dest = there, !.plan = plan, !.got = 0, !.put = 0, !.taken = 0]

(* The selection is loaded, with the plan of the command. *)
LEMMA ProgSelectOn ==
  ASSUME NEW s, NEW p, InStep(s, p), p.at = "idle", NEW there, NEW plan \in Plans, NEW cmd,
         Choice(cmd),
         NEW x, x = Aimed(s, there, plan), NEW off, off = FALSE, NEW u,
           u = WriteCommand(x, cmd, off, off),
         NEW q, q.at = "go", q.in = p.in, q.left = 0
  PROVE  InStep(u, q)
<1>1. /\ Typed(s) /\ s.dataReq = s.dreq /\ s.stall = FALSE /\ Knows(s, p) /\ HasFields(s)
      /\ Wires(s) /\ s.count \in Nat
  BY DEF InStep, Normal, Typed, Wires
<1>2. Idle(s) /\ s.int = {} /\ s.intNcr = FALSE /\ s.mint = FALSE
  <2>1. s.mint = (s.int # {}) /\ Idle(s) /\ s.int = {} /\ s.intNcr = FALSE
    BY <1>1 DEF Knows
  <2> QED
    BY <2>1
<1>3. Calm(s, p) /\ ~s.active
  BY Decides
<1>4. /\ s.chip = "disconnected" /\ s.state = "idle" /\ s.dreq = FALSE
      /\ s.nLines = {} /\ AtRest(s, "idle", {})
  BY <1>2, <1>3, IdleRests
<1>5. x = [s EXCEPT !.dest = there, !.plan = plan, !.got = 0, !.put = 0, !.taken = 0]
  BY DEF Aimed
<1>6. Others(s, x, {"dest", "plan", "got", "put", "taken"}) /\ x.plan = plan /\ x.got = 0
     /\ x.taken = 0 /\ HasFields(x)
  BY <1>1, <1>5 DEF Others, HasFields, Fields
<1>7. Delayed(cmd)
  BY DEF Choice, Delayed
<1>8. /\ Others(x, u, LoadParts) /\ u.cmd = cmd /\ u.full = FALSE /\ u.loaded = TRUE /\ u.timer = 2
  <2>1. HasFields(x)
    BY <1>6
  <2>2. CommandWaiting(x, u, cmd, off, off)
    BY <1>7, <2>1, CommandWaits
  <2> QED
    BY <2>2 DEF CommandWaiting
<1>9. Others(s, u, {"dest", "plan", "got", "put", "taken"} \cup LoadParts) /\ HasFields(u)
  BY <1>6, <1>8 DEF Others, HasFields
<1>10. u.plan = x.plan /\ u.got = x.got /\ u.taken = x.taken
  BY <1>6, <1>8 DEF Others, LoadParts, HasFields, Fields
<1>11. /\ u.chip = s.chip /\ u.state = s.state /\ u.int = s.int /\ u.mint = s.mint
       /\ u.intNcr = s.intNcr
       /\ u.active = s.active /\ u.write = s.write /\ u.dreq = s.dreq /\ u.dataReq = s.dataReq
       /\ u.stall = s.stall
  BY <1>1, <1>9 DEF Others, LoadParts, HasFields, Fields
<1>12. /\ u.nLines = s.nLines /\ u.tLines = s.tLines /\ u.target = s.target /\ u.sub = s.sub
       /\ u.queue = s.queue
       /\ u.tData = s.tData /\ u.tWait = s.tWait /\ u.tTimer = s.tTimer
  BY <1>1, <1>9 DEF Others, LoadParts, HasFields, Fields
<1>13. u.count = s.count
  BY <1>1, <1>9 DEF Others, LoadParts, HasFields, Fields
<1>14. AtRest(u, "idle", {}) /\ u.nLines = {}
  BY <1>4, <1>12 DEF AtRest
<1>15. Typed(u)
  <2>1. Wires(u)
    BY <1>1, <1>9, <1>12 DEF Wires
  <2>2. u.got = 0 /\ u.taken = 0 /\ u.plan \in Plans
    BY <1>6, <1>10
  <2>3. u.got \in Nat /\ u.taken \in Nat /\ u.count \in Nat
    <3>1. u.got = 0 /\ u.taken = 0
      BY <2>2
    <3>2. s.count \in Nat
      BY <1>1
    <3>3. u.count \in Nat
      BY <1>13, <3>2
    <3> QED
      BY <3>1, <3>3
  <2> QED
    BY <2>1, <2>2, <2>3 DEF Typed
<1>16. Untold(u, q) /\ Vacant(u, q)
  BY <1>2, <1>4, <1>8, <1>11 DEF Untold, Vacant
<1>17. Knows(u, q)
  BY <1>2, <1>3, <1>11 DEF Knows
<1>18. u.timer \in 0 .. 2
  <2>1. u.timer = 2
    BY <1>8
  <2> QED
    BY <2>1
<1>19. u.state = "idle" /\ u.got = 0 /\ u.taken = 0
  BY <1>4, <1>6, <1>10, <1>11
<1>20. Chosen(u, q)
  BY <1>8, <1>14, <1>16, <1>18, <1>19 DEF Chosen, Choice
<1> QED
  BY <1>1, <1>4, <1>11, <1>15, <1>17, <1>20 DEF InStep, Normal, Unconnected

(* How many bytes it may ask for in a phase, and how many of them it has to  *)
(* move itself.                                                              *)
FitsPhase(phase, cmd, count) ==
  LET data == phase \in {DataIn, DataOut} IN
  /\ cmd \in {"info", "pad"} /\ count \in 1 .. DataBytes \cup {CommandBytes}
  /\ data \/ (cmd = "info" /\ count = IF phase = Command THEN CommandBytes ELSE 1)
  /\ count <= DataBytes \/ ~data
Due(phase, cmd, dma, count) ==
  IF dma THEN 0 ELSE IF cmd = "info" THEN count ELSE IF phase = DataOut THEN 1 ELSE 0

(* It loads a transfer for the phase it found. *)
LEMMA ProgTransfersOn ==
  ASSUME NEW s, NEW p, InStep(s, p), p.at = "decide", p.seen = {"service"},
         NEW cmd, NEW single \in BOOLEAN, NEW dma \in BOOLEAN, NEW count,
           FitsPhase(Phase(s), cmd, count),
         single => count = 1,
         NEW x, x = [s EXCEPT !.count = count, !.put = s.taken], NEW u,
           u = WriteCommand(x, cmd, single, dma),
         NEW q, q.at = "go", q.in = ("IO" \in Phase(s)),
         q.left = Due(Phase(s), cmd, dma, count)
  PROVE  InStep(u, q) /\ Drives(q)
<1>1. /\ Typed(s) /\ s.dataReq = s.dreq /\ s.stall = FALSE /\ Knows(s, p) /\ HasFields(s)
      /\ Wires(s)
  BY DEF InStep, Normal, Typed, Wires
<1>2. Ready(s) /\ s.int = {} /\ s.intNcr = FALSE /\ s.mint = FALSE
  <2>1. s.mint = (s.int # {}) /\ Ready(s) /\ s.int = {} /\ s.intNcr = FALSE
    BY <1>1 DEF Knows
  <2> QED
    BY <2>1
<1>3. Calm(s, p) /\ ~s.active
  BY Decides
<1>4. s.chip = "initiator" /\ s.state = "idle" /\ s.dreq = FALSE /\ Asking(s, 1)
  BY <1>2, <1>3, ReadyRests
<1>5. q.left = IF dma THEN 0 ELSE IF cmd = "info" THEN count ELSE IF Phase(s) = DataOut THEN 1
     ELSE 0
  BY DEF Due
<1>6. Others(s, x, {"count", "put"}) /\ x.count = count /\ x.put = s.taken /\ HasFields(x)
  BY <1>1 DEF Others, HasFields, Fields
<1>7. cmd \in {"info", "pad"} /\ Delayed(cmd)
  BY DEF FitsPhase, Delayed
<1>8. /\ Others(x, u, LoadParts) /\ u.cmd = cmd /\ u.single = single /\ u.dma = dma
      /\ u.full = FALSE /\ u.loaded = TRUE /\ u.timer = 2
  <2>1. HasFields(x) /\ Delayed(cmd)
    BY <1>6, <1>7
  <2>3. CommandWaiting(x, u, cmd, single, dma)
    BY <2>1, CommandWaits
  <2> QED
    BY <2>3 DEF CommandWaiting
<1>9. Others(s, u, {"count", "put"} \cup LoadParts) /\ HasFields(u)
  BY <1>6, <1>8 DEF Others, HasFields
<1>10. u.count = count /\ u.put = s.taken
  <2>1. u.count = x.count /\ u.put = x.put
    BY <1>6, <1>8, ZenonT(60) DEF Others, LoadParts, HasFields, Fields
  <2> QED
    BY <1>6, <2>1
<1>11. /\ u.chip = s.chip /\ u.state = s.state /\ u.int = s.int /\ u.mint = s.mint
       /\ u.intNcr = s.intNcr
       /\ u.active = s.active /\ u.write = s.write /\ u.dreq = s.dreq /\ u.dataReq = s.dataReq
       /\ u.stall = s.stall
  BY <1>1, <1>9 DEF Others, LoadParts, HasFields, Fields
<1>12. BusSame(s, u)
  BY <1>1, <1>9 DEF BusSame, BusParts, HandParts, Others, LoadParts, HasFields, Fields
<1>13. Asking(u, 1) /\ Phase(u) = Phase(s) /\ u.taken = s.taken
  BY <1>4, <1>12, BusKept
<1>14. PICK phase : phase = Phase(s)
  OBVIOUS
<1>15. count \in Nat /\ (cmd = "pad" => phase \in {DataIn, DataOut})
  <2>1. count \in 1 .. DataBytes \cup {CommandBytes}
    BY DEF FitsPhase
  <2>2. DataBytes \in Nat /\ CommandBytes \in Nat
    BY ScsiAssumption
  <2>3. count \in Nat
    BY <2>1, <2>2
  <2> QED
    BY <1>14, <2>3 DEF FitsPhase
<1>16. phase \in {MessageIn, MessageOut} => count <= 1
  <2>1. phase \in {MessageIn, MessageOut} => phase \notin {DataIn, DataOut} /\ phase # Command
    BY PhasesDiffer
  <2>2. phase \in {MessageIn, MessageOut} => count = 1
    BY <1>14, <2>1 DEF FitsPhase
  <2> QED
    BY <2>2
<1>17. Typed(u)
  BY <1>1, <1>10, <1>12, <1>15, TypedOn
<1>18. Untold(u, q) /\ Vacant(u, q)
  BY <1>2, <1>4, <1>8, <1>11 DEF Untold, Vacant
<1>19. Knows(u, q)
  BY <1>2, <1>3, <1>11 DEF Knows
<1>20. Ordered(u)
  <2>1. One(u.full) = 0 /\ s.taken \in Nat
    BY <1>1, <1>8 DEF One, Typed
  <2>2. u.put = u.taken + One(u.full)
    BY <1>10, <1>13, <2>1
  <2> QED
    BY <1>8, <2>2 DEF Ordered
<1>21. One(u.full) = 0
  BY <1>8 DEF One
<1>22. IF dma THEN q.left = 0
       ELSE IF cmd = "info" THEN q.left + One(u.full) = count
       ELSE ~q.in => q.left + One(u.full) = 1
  <2>1. CASE dma
    BY <1>5, <2>1
  <2>2. CASE ~dma /\ cmd = "info"
    <3>1. q.left = count
      BY <1>5, <2>2
    <3> QED
      BY <1>15, <1>21, <2>2, <3>1
  <2>3. CASE ~dma /\ cmd # "info" /\ ~q.in
    <3>1. phase = DataOut
      <4>1. phase # DataIn
        BY <1>14, <2>3, IOPhases
      <4> QED
        BY <1>7, <1>15, <2>3, <4>1
    <3>2. q.left = 1
      BY <1>5, <1>14, <2>3, <3>1
    <3> QED
      BY <1>21, <2>3, <3>2
  <2> QED
    BY <2>1, <2>2, <2>3
<1>23. Drives(q)
  <2>1. q.left \in Nat
    BY <1>5, <1>15
  <2>2. q.in \in BOOLEAN
    OBVIOUS
  <2> QED
    BY <2>1, <2>2 DEF Drives
<1>24. Starts(u, q)
  <2>1. q.in <=> "IO" \in Phase(u)
    BY <1>13
  <2>2. Phase(u) \in {MessageIn, MessageOut} => u.count <= 1
    BY <1>10, <1>13, <1>14, <1>16
  <2>3. u.single => u.count = 1
    BY <1>8, <1>10
  <2>4. IF u.dma THEN q.left = 0 /\ ~u.full
        ELSE IF u.cmd = "info" THEN q.left + One(u.full) = u.count
        ELSE ~q.in => q.left + One(u.full) = 1
    BY <1>8, <1>10, <1>22
  <2> QED
    BY <1>7, <1>8, <1>13, <1>18, <1>20, <2>1, <2>2, <2>3, <2>4 DEF Starts
<1>25. CommandLoaded(u, q)
  <2>1. u.timer \in 0 .. 2
    BY <1>8
  <2> QED
    BY <1>4, <1>8, <1>11, <1>24, <2>1 DEF CommandLoaded
<1> QED
  BY <1>1, <1>4, <1>11, <1>17, <1>19, <1>23, <1>25 DEF InStep, Normal, Connected

(* The accept command drops ACK. *)
LEMMA AcceptIs ==
  ASSUME NEW s, HasFields(s), s.chip = "initiator", NEW off, NEW u,
         u = WriteCommand(s, "accept", off, off)
  PROVE  \E t : /\ Others(s, t, {"cmd", "single", "dma"}) /\ HasFields(t) /\ BusSame(s, t)
                /\ u = NcrWrite(t, {}, {"ACK"})
<1>1. PICK t : t = [s EXCEPT !.cmd = "accept", !.single = off, !.dma = off]
  OBVIOUS
<1>2. Others(s, t, {"cmd", "single", "dma"}) /\ HasFields(t) /\ t.cmd = "accept"
     /\ t.chip = "initiator"
  BY <1>1 DEF Others, HasFields, Fields
<1>3. BusSame(s, t)
  BY <1>2 DEF BusSame, BusParts, HandParts, Others, HasFields, Fields
<1>4. u = Execute(t)
  BY <1>1 DEF WriteCommand
<1>5. u = NcrWrite(t, {}, {"ACK"})
  BY <1>2, <1>4, Zenon DEF Execute
<1> QED
  BY <1>2, <1>3, <1>5

(* A program that goes on has nothing more to know. *)
LEMMA GoesOn ==
  ASSUME NEW s, NEW p, InStep(s, p), p.at = "decide", NEW u,
         Others(s, u, {"nLines", "cmd", "single", "dma"}),
         u.nLines = s.nLines, NEW q, q.at = "go", q.in = p.in
  PROVE  InStep(u, q)
<1>1. Typed(s) /\ s.dataReq = s.dreq /\ s.stall = FALSE /\ Knows(s, p) /\ HasFields(s)
  BY DEF InStep, Normal, Typed, Wires
<1>2. Calm(s, p) /\ ~s.active
  BY Decides
<1>3. Others(s, u, {"cmd", "single", "dma"})
  BY DEF Others
<1>4. Others(s, u, CalmParts)
  BY <1>3 DEF Others, CalmParts
<1>5. /\ u.int = s.int /\ u.mint = s.mint /\ u.intNcr = s.intNcr /\ u.chip = s.chip
      /\ u.state = s.state
      /\ u.loaded = s.loaded /\ u.sub = s.sub /\ u.active = s.active
  BY <1>1, <1>3 DEF Others, HasFields, Fields
<1>6. u.dreq = s.dreq /\ u.full = s.full /\ u.timer = s.timer
  BY <1>1, <1>3 DEF Others, HasFields, Fields
<1>7. Knows(u, q)
  BY <1>1, <1>2, <1>5 DEF Knows, Ready, Idle, Asks
<1>8. Vacant(s, p) => Vacant(u, q)
  BY <1>6 DEF Vacant
<1> QED
  BY <1>1, <1>2, <1>4, <1>5, <1>6, <1>7, <1>8, CalmOn

(* It accepts a message: the target frees the bus, or asks on. *)
LEMMA AcceptsOn ==
  ASSUME NEW s, NEW p, InStep(s, p), p.at = "decide", Phase(s) = MessageIn, NEW off,
         NEW u, u = WriteCommand(s, "accept", off, off), NEW q, q.at = "go", q.in = p.in
  PROVE  InStep(u, q)
<1>1. Typed(s) /\ s.dataReq = s.dreq /\ s.stall = FALSE /\ Knows(s, p) /\ HasFields(s)
     /\ Wires(s) /\ s.plan \in Plans
  BY DEF InStep, Normal, Typed, Wires
<1>2. Calm(s, p) /\ ~s.active
  BY Decides
<1>3. s.chip = "initiator" /\ (Resting(s, p) \/ WaitsReq(s, p))
  <2>1. ASSUME Idles(s, p) PROVE FALSE
    <3>1. s.nLines = {} /\ s.tLines = {}
      BY <2>1 DEF Idles, AtRest
    <3>2. Phase(s) = {}
      BY <3>1 DEF Phase, Ctrl
    <3> QED
      BY <3>2 DEF MessageIn
  <2> QED
    BY <1>2, <2>1 DEF Calm
<1>4. PICK t : /\ Others(s, t, {"cmd", "single", "dma"}) /\ HasFields(t) /\ BusSame(s, t)
               /\ u = NcrWrite(t, {}, {"ACK"})
  BY <1>1, <1>3, AcceptIs
<1>5. /\ Wires(t) /\ Phase(t) = MessageIn /\ t.nLines = s.nLines /\ t.plan = s.plan
      /\ t.nData = s.nData
      /\ (Asks(t) <=> Asks(s)) /\ (Handshake(s) => Handshake(t)) /\ (Holding(s) => Holding(t))
  BY <1>1, <1>4, BusKept
<1>6. CASE Asking(s, 1)
  <2>1. s.nLines = {}
    BY <1>6, PhasesDiffer DEF Asking
  <2>2. PICK w : w = [t EXCEPT !.nLines = (@ \ {"ACK"}) \cup {}]
    OBVIOUS
  <2>3. w.nLines = {} /\ Others(t, w, {"nLines"}) /\ HasFields(w)
    BY <1>4, <1>5, <2>1, <2>2 DEF Others, HasFields, Fields
  <2>4. w.tLines = t.tLines
    BY <1>4, <2>3 DEF Others, HasFields, Fields
  <2>5. Ctrl(w) = Ctrl(t)
    BY <1>5, <2>1, <2>3, <2>4 DEF Ctrl
  <2>6. u = w
    BY <1>4, <2>2, <2>5 DEF NcrWrite
  <2>7. Others(s, u, {"nLines", "cmd", "single", "dma"}) /\ u.nLines = s.nLines
    BY <1>4, <2>1, <2>3, <2>6 DEF Others
  <2> QED
    BY <2>7, GoesOn
<1>7. CASE ~Asking(s, 1)
  <2>1. Resting(s, p) /\ Holding(s) /\ s.nData = 0
    BY <1>3, <1>7 DEF Resting, WaitsReq
  <2>2. s.state = "idle" /\ s.loaded = FALSE /\ s.timer = Off /\ s.dreq = FALSE /\ (p.in => ~s.full)
    BY <2>1 DEF Resting, Chip, Vacant
  <2>3. Holding(t) /\ t.nData = 0
    BY <1>5, <2>1
  <2>4. Handshake(t) /\ ~Asks(t) /\ t.nLines = {"ACK"} /\ t.plan \in Plans /\ Kept(t, 0)
    BY <1>1, <1>5, <2>3 DEF Holding
  <2>5. AskedNext(t, u) \/ SetFree(t, u)
    BY <1>4, <1>5, <2>4, AckDropped
  <2>6. ~Asks(s)
    BY <2>1 DEF Holding
  <2>7. s.int = {} /\ s.mint = FALSE
    <3>1. s.mint = (s.int # {}) /\ s.int \in {{}, {"service"}}
         /\ (s.int \in {{"service"}, {"invalid"}} => Ready(s))
      BY <1>1 DEF Knows
    <3>2. s.int # {"service"}
      BY <2>6, <3>1 DEF Ready
    <3> QED
      BY <3>1, <3>2
  <2>8. /\ t.state = "idle" /\ t.loaded = FALSE /\ t.timer = Off /\ t.dreq = FALSE
        /\ t.dataReq = FALSE
        /\ t.stall = FALSE /\ t.full = s.full /\ t.int = {} /\ t.mint = FALSE /\ t.active = s.active
        /\ t.chip = "initiator"
    <3>1. /\ t.state = s.state /\ t.loaded = s.loaded /\ t.timer = s.timer /\ t.dreq = s.dreq
          /\ t.dataReq = s.dataReq /\ t.stall = s.stall /\ t.full = s.full /\ t.int = s.int
          /\ t.mint = s.mint
          /\ t.active = s.active /\ t.chip = s.chip
      BY <1>1, <1>4 DEF Others, HasFields, Fields
    <3> QED
      BY <1>1, <1>3, <2>2, <2>7, <3>1
  <2>9. t.count \in Nat /\ t.got \in Nat /\ t.taken \in Nat
    <3>1. t.count = s.count /\ t.got = s.got /\ t.taken = s.taken
      BY <1>1, <1>4 DEF Others, HasFields, Fields
    <3> QED
      BY <1>1, <3>1 DEF Typed
  <2>10. Others(t, u, CallParts \cup IntParts) /\ Wires(u)
    BY <2>5 DEF AskedNext, SetFree, Others
  <2>11. /\ u.state = "idle" /\ u.loaded = FALSE /\ u.dreq = FALSE /\ u.dataReq = FALSE
         /\ u.stall = FALSE /\ u.full = s.full /\ u.active = s.active
    BY <1>4, <2>8, <2>10 DEF Others, CallParts, TargetParts, IntParts, HasFields, Fields
  <2>12. u.count = t.count /\ u.got = t.got /\ u.taken = t.taken /\ u.plan = t.plan
    BY <1>4, <2>10 DEF Others, CallParts, TargetParts, IntParts, HasFields, Fields
  <2>13. Typed(u)
    BY <2>4, <2>9, <2>10, <2>12 DEF Typed
  <2>14. Vacant(u, q)
    BY <2>2, <2>11 DEF Vacant
  <2>15. CASE AskedNext(t, u)
    <3>1. Others(t, u, CallParts)
      BY <2>15 DEF AskedNext
    <3>2. u.chip = "initiator" /\ u.int = {} /\ u.mint = FALSE /\ u.nData = 0
      BY <1>4, <2>3, <2>8, <3>1 DEF Others, CallParts, TargetParts, HasFields, Fields
    <3>3. u.timer = Off
      BY <2>8, <2>15 DEF AskedNext, Woken
    <3>4. Asking(u, 1)
      BY <2>4, <2>15, <3>2 DEF AskedNext, Asking
    <3>5. Resting(u, q)
      BY <2>11, <2>14, <3>3, <3>4 DEF Resting, Chip
    <3>6. Knows(u, q)
      BY <1>2, <2>11, <3>2 DEF Knows
    <3> QED
      BY <2>11, <2>13, <3>2, <3>5, <3>6 DEF InStep, Normal, Connected
  <2>16. CASE SetFree(t, u)
    <3>1. u.timer = t.timer /\ u.nLines = {} /\ AtRest(u, "idle", {}) /\ Disconnects(t, u)
      BY <2>8, <2>16 DEF SetFree
    <3>2. u.chip = "disconnected" /\ u.int = {"disconnected"} /\ u.mint = TRUE
      BY <2>8, <3>1 DEF Disconnects
    <3>3. u.timer = Off
      BY <2>8, <3>1
    <3>4. Idles(u, q)
      BY <2>11, <2>14, <3>1, <3>3 DEF Idles, Chip
    <3>5. Idle(u)
      BY <2>11, <3>2 DEF Idle
    <3>6. Knows(u, q)
      BY <1>2, <2>11, <3>2, <3>5 DEF Knows
    <3> QED
      BY <2>11, <2>13, <3>2, <3>4, <3>6 DEF InStep, Normal, Unconnected
  <2> QED
    BY <2>5, <2>15, <2>16
<1> QED
  BY <1>6, <1>7

(* It is told of the end of the connection. *)
LEMMA EndsOn ==
  ASSUME NEW s, NEW p, InStep(s, p), p.at = "decide", "disconnected" \in p.seen,
         NEW q, q.at = "idle", q.in = p.in
  PROVE  InStep(s, q)
<1>1. Typed(s) /\ s.dataReq = s.dreq /\ s.stall = FALSE /\ Knows(s, p) /\ HasFields(s)
  BY DEF InStep, Normal, Typed, Wires
<1>2. Calm(s, p) /\ ~s.active
  BY Decides
<1>3. Idle(s) /\ s.int = {} /\ s.intNcr = FALSE
  BY <1>1 DEF Knows
<1>4. s.mint = (s.int # {})
  BY <1>1 DEF Knows
<1>5. Knows(s, q)
  BY <1>2, <1>3, <1>4 DEF Knows
<1>6. Vacant(s, p) => Vacant(s, q)
  BY DEF Vacant
<1>7. Others(s, s, CalmParts)
  BY DEF Others
<1> QED
  BY <1>1, <1>2, <1>5, <1>6, <1>7, CalmOn

(* It is told of its own mistake, and recovers. *)
LEMMA FailsOn ==
  ASSUME NEW s, NEW p, InStep(s, p), p.at = "decide", "invalid" \in p.seen,
         NEW q, q.at = "recover", q.in = p.in
  PROVE  Broken(s, q)
<1>1. Typed(s) /\ s.dataReq = s.dreq /\ s.stall = FALSE /\ Knows(s, p)
  BY DEF InStep, Normal
<1>2. Calm(s, p) /\ ~s.active
  BY Decides
<1>3. Ready(s)
  BY <1>1 DEF Knows
<1>4. /\ s.chip = "initiator" /\ s.state = "idle" /\ s.loaded = FALSE /\ s.timer = Off
      /\ s.dreq = FALSE
      /\ Asking(s, 1) /\ (p.in => ~s.full)
  BY <1>2, <1>3, ReadyRests
<1>5. Handshake(s) /\ Asks(s) /\ s.nLines \subseteq {"ATN"}
  BY <1>4 DEF Asking
<1> QED
  BY <1>1, <1>2, <1>4, <1>5 DEF Broken

(* It selects in the middle of a connection, by mistake. *)
LEMMA SelectsAgain ==
  ASSUME NEW s, NEW p, InStep(s, p), p.at = "decide", p.seen = {"service"},
         NEW off, off = FALSE, NEW cmd, cmd = "select", NEW u, u = WriteCommand(s, cmd, off, off),
         NEW q, q.at = "go", q.in = p.in
  PROVE  InStep(u, q)
<1>1. Typed(s) /\ s.dataReq = s.dreq /\ s.stall = FALSE /\ Knows(s, p) /\ HasFields(s)
     /\ s.count \in Nat
  BY DEF InStep, Normal, Typed, Wires
<1>2. Calm(s, p) /\ ~s.active
  BY Decides
<1>3. Ready(s) /\ s.int = {} /\ s.intNcr = FALSE /\ s.mint = (s.int # {})
  BY <1>1 DEF Knows
<1>4. s.chip = "initiator" /\ s.state = "idle" /\ s.dreq = FALSE /\ Asking(s, 1)
  BY <1>2, <1>3, ReadyRests
<1>5. Delayed(cmd)
  BY DEF Delayed
<1>6. CommandWaiting(s, u, cmd, off, off)
  BY <1>1, <1>5, CommandWaits
<1>7. Others(s, u, LoadParts) /\ u.cmd = cmd /\ u.full = FALSE /\ u.loaded = TRUE /\ u.timer = 2
  BY <1>6 DEF CommandWaiting
<1>8. BusSame(s, u)
  BY <1>1, <1>7 DEF BusSame, BusParts, HandParts, Others, LoadParts, HasFields, Fields
<1>9. /\ u.chip = s.chip /\ u.state = s.state /\ u.int = s.int /\ u.mint = s.mint
      /\ u.intNcr = s.intNcr
      /\ u.active = s.active /\ u.dreq = s.dreq /\ u.dataReq = s.dataReq /\ u.stall = s.stall
  BY <1>1, <1>7 DEF Others, LoadParts, HasFields, Fields
<1>10. u.count \in Nat
  <2>1. u.count = s.count
    BY <1>1, <1>7 DEF Others, LoadParts, HasFields, Fields
  <2> QED
    BY <1>1, <2>1
<1>11. Typed(u)
  BY <1>1, <1>8, <1>10, TypedOn
<1>12. Asking(u, 1)
  BY <1>4, <1>8, BusKept
<1>13. Untold(u, q) /\ Vacant(u, q)
  BY <1>3, <1>4, <1>7, <1>9 DEF Untold, Vacant
<1>14. Knows(u, q)
  BY <1>2, <1>3, <1>9 DEF Knows
<1>15. u.timer \in 0 .. 2
  <2>1. u.timer = 2
    BY <1>7
  <2> QED
    BY <2>1
<1>16. CommandLoaded(u, q)
  BY <1>4, <1>7, <1>9, <1>12, <1>13, <1>15 DEF CommandLoaded
<1> QED
  BY <1>1, <1>4, <1>9, <1>11, <1>14, <1>16 DEF InStep, Normal, Connected

(* It disconnects the chip and leaves the target where it is. *)
LEMMA DisconnectsOn ==
  ASSUME NEW s, NEW p, InStep(s, p), p.at = "decide", p.seen = {"service"},
         NEW off, NEW u, u = WriteCommand(s, "disconnect", off, off),
         NEW q, q.at = "recover", q.in = p.in
  PROVE  Typed(u) /\ Broken(u, q)
<1>1. Typed(s) /\ s.dataReq = s.dreq /\ s.stall = FALSE /\ Knows(s, p) /\ HasFields(s)
     /\ s.count \in Nat
  BY DEF InStep, Normal, Typed, Wires
<1>2. Calm(s, p) /\ ~s.active
  BY Decides
<1>3. Ready(s)
  BY <1>1 DEF Knows
<1>4. /\ s.chip = "initiator" /\ s.state = "idle" /\ s.loaded = FALSE /\ s.timer = Off
      /\ s.dreq = FALSE
      /\ Asking(s, 1) /\ (p.in => ~s.full)
  BY <1>2, <1>3, ReadyRests
<1>5. PICK t : t = [s EXCEPT !.cmd = "disconnect", !.single = off, !.dma = off]
  OBVIOUS
<1>6. Others(s, t, {"cmd", "single", "dma"}) /\ HasFields(t) /\ t.cmd = "disconnect"
     /\ t.chip = "initiator"
  BY <1>1, <1>4, <1>5 DEF Others, HasFields, Fields
<1>7. u = Execute(t)
  BY <1>5 DEF WriteCommand
<1>8. u = [t EXCEPT !.chip = "disconnected"]
  BY <1>6, <1>7, Zenon DEF Execute
<1>9. Others(t, u, {"chip"}) /\ u.chip = "disconnected" /\ HasFields(u)
  BY <1>6, <1>8 DEF Others, HasFields, Fields
<1>10. Others(s, u, {"cmd", "single", "dma", "chip"})
  BY <1>6, <1>9 DEF Others
<1>11. BusSame(s, u) /\ u.count = s.count
  BY <1>1, <1>10 DEF BusSame, BusParts, HandParts, Others, HasFields, Fields
<1>12. Typed(u)
  BY <1>1, <1>11, TypedOn
<1>13. Handshake(u) /\ Asks(u) /\ u.nLines \subseteq {"ATN"}
  BY <1>4, <1>11, BusKept DEF Asking
<1>14. /\ u.state = s.state /\ u.loaded = s.loaded /\ u.timer = s.timer /\ u.dreq = s.dreq
       /\ u.dataReq = s.dataReq /\ u.stall = s.stall /\ u.full = s.full /\ u.active = s.active
  BY <1>1, <1>10 DEF Others, HasFields, Fields
<1>15. Broken(u, q)
  BY <1>1, <1>2, <1>4, <1>9, <1>13, <1>14 DEF Broken
<1> QED
  BY <1>12, <1>15

(* What is on the bus, whatever chip and program are at. *)
OnTheBus(s) ==
  \/ Handshake(s) /\ Asks(s) /\ s.nLines \subseteq {"ATN"}
  \/ Handshake(s) /\ ~Asks(s) /\ s.nLines = {"ACK"}
  \/ AtRest(s, "idle", {}) /\ s.nLines \subseteq {"BSY", "SEL", "ATN"}
  \/ AtRest(s, "selected", {"BSY"}) /\ s.nLines \subseteq {"SEL", "ATN"}

(* The invariant gives it. *)
LEMMA BusIs ==
  ASSUME NEW s, NEW p, Connected(s, p) \/ Unconnected(s, p)
  PROVE  OnTheBus(s)
<1>1. CASE Connected(s, p)
  <2>1. (\E n : Asking(s, n)) \/ Holding(s)
    BY <1>1, Zenon DEF Connected, Resting, WaitsReq, CommandLoaded, Starts, Begins, InReq, InFull,
       InEmpty, InAck,
                       OutReq, OutWaits, OutFull, OutAck, OutPad
  <2> QED
    BY <2>1 DEF Asking, Holding, OnTheBus
<1>2. CASE Idles(s, p) \/ Chosen(s, p)
  <2>1. AtRest(s, "idle", {}) /\ s.nLines = {}
    BY <1>2, Zenon DEF Idles, Chosen
  <2> QED
    BY <2>1 DEF OnTheBus
<1>3. CASE Arbitrates(s, p)
  <2>1. AtRest(s, "idle", {}) /\ s.nLines \in {{}, {"BSY"}, {"BSY", "SEL"}}
    BY <1>3, Zenon DEF Arbitrates, Selects
  <2> QED
    BY <2>1 DEF OnTheBus
<1>4. CASE Awaits(s, p)
  <2>1. s.nLines \in {{"SEL"}, {"ATN", "SEL"}} /\ (AtRest(s, "idle", {})
       \/ AtRest(s, "selected", {"BSY"}))
    BY <1>4, Zenon DEF Awaits, Selects
  <2> QED
    BY <2>1 DEF OnTheBus
<1> QED
  BY <1>1, <1>2, <1>3, <1>4 DEF Unconnected

(* The data request is a Boolean. *)
LEMMA RequestIs ==
  ASSUME NEW s, NEW p, Connected(s, p) \/ Unconnected(s, p), ~s.dreq
  PROVE  s.dreq = FALSE
<1>1. CASE InFull(s, p)
  BY <1>1, Zenon DEF InFull
<1>2. CASE OutWaits(s, p)
  BY <1>2, Zenon DEF OutWaits
<1>3. CASE Vacant(s, p)
  BY <1>3 DEF Vacant
<1>4. InFull(s, p) \/ OutWaits(s, p) \/ Vacant(s, p)
  BY Zenon DEF Connected, Resting, WaitsReq, CommandLoaded, Starts, Begins, InReq, InEmpty, InAck,
               OutReq, OutFull, OutAck, OutPad, Unconnected, Idles, Chosen, Arbitrates, Awaits,
                 Selects
<1> QED
  BY <1>1, <1>2, <1>3, <1>4

(* The program gives up: the chip is reset, the bus is as it was. *)
ClearParts ==
  AdapterParts \cup {"single", "dma", "cmd", "full", "int", "mint", "intNcr", "count", "chip",
    "state", "loaded",
                     "sbx", "byte", "timer", "dest", "dataReq"}
Cleared(s, u) ==
  /\ Others(s, u, ClearParts) /\ u.full = FALSE /\ u.count = 0 /\ u.chip = "disconnected"
  /\ u.state = "idle"
  /\ u.loaded = FALSE /\ u.timer = Off /\ (u.dataReq = s.dataReq \/ u.dataReq = FALSE)

(* It is broken then, but not more than it can repair, if no data request    *)
(* stood.                                                                    *)
LEMMA ClearedOn ==
  ASSUME NEW s, NEW p, InStep(s, p), ~s.dreq, NEW u, Cleared(s, u), u.active => u.write = p.in,
         NEW q, q.at = "recover", q.in = p.in
  PROVE  Typed(u) /\ Broken(u, q)
<1>1. /\ Typed(s) /\ s.dataReq = s.dreq /\ s.stall = FALSE /\ HasFields(s)
      /\ Connected(s, p) \/ Unconnected(s, p)
  BY DEF InStep, Normal, Typed, Wires
<1>2. s.dreq = FALSE /\ OnTheBus(s)
  BY <1>1, RequestIs, BusIs
<1>3. /\ Others(s, u, ClearParts) /\ u.full = FALSE /\ u.chip = "disconnected" /\ u.state = "idle"
      /\ u.loaded = FALSE /\ (u.dataReq = s.dataReq \/ u.dataReq = FALSE)
  BY DEF Cleared
<1>4. BusSame(s, u)
  BY <1>1, <1>3 DEF BusSame, BusParts, HandParts, Others, ClearParts, AdapterParts, HasFields,
     Fields
<1>5. u.dreq = s.dreq /\ u.stall = s.stall
  BY <1>1, <1>3 DEF Others, ClearParts, AdapterParts, HasFields, Fields
<1>6. u.count \in Nat
  <2>1. u.count = 0
    BY DEF Cleared
  <2> QED
    BY <2>1
<1>7. Typed(u)
  BY <1>1, <1>4, <1>6, TypedOn
<1>8. OnTheBus(u)
  <2>1. /\ Handshake(s) => Handshake(u)
        /\ Asks(u) <=> Asks(s)
        /\ u.nLines = s.nLines
        /\ \A target, lines : AtRest(s, target, lines) => AtRest(u, target, lines)
    BY <1>4, BusKept
  <2> QED
    BY <1>2, <2>1 DEF OnTheBus
<1>9. u.timer = Off
  BY DEF Cleared
<1>10. Broken(u, q)
  BY <1>1, <1>2, <1>3, <1>5, <1>8, <1>9 DEF Broken, OnTheBus
<1> QED
  BY <1>7, <1>10

(* ChipReset() is such a reset. *)
LEMMA ChipResets ==
  ASSUME NEW s, HasFields(s), NEW u, u = ChipReset(s)
  PROVE  Cleared(s, u) /\ HasFields(u) /\ u.active = s.active /\ u.write = s.write /\ u.int = {}
<1>1. /\ Others(s, u, {"single", "dma", "cmd", "full", "int", "count", "chip", "state", "loaded",
         "sbx", "byte",
                       "timer", "dest"})
      /\ HasFields(u)
  BY DEF ChipReset, Others, HasFields, Fields
<1>2. u.full = FALSE /\ u.chip = "disconnected" /\ u.state = "idle" /\ u.loaded = FALSE
     /\ u.int = {}
  BY DEF ChipReset, HasFields, Fields
<1>3. u.count = 0 /\ u.timer = Off
  BY DEF ChipReset, HasFields, Fields
<1>4. u.active = s.active /\ u.write = s.write /\ u.dataReq = s.dataReq
  BY <1>1 DEF Others, HasFields, Fields
<1>5. Others(s, u, ClearParts)
  BY <1>1 DEF Others, ClearParts
<1> QED
  BY <1>1, <1>2, <1>3, <1>4, <1>5 DEF Cleared

(* So is that of the device. *)
LEMMA DeviceResets ==
  ASSUME NEW s, HasFields(s), NEW u, u = DeviceReset(s)
  PROVE  Cleared(s, u) /\ HasFields(u) /\ u.active = s.active /\ u.write = s.write
<1>1. PICK c : c = ChipReset(s)
  OBVIOUS
<1>2. Cleared(s, c) /\ HasFields(c) /\ c.active = s.active /\ c.write = s.write /\ c.int = {}
  BY <1>1, ChipResets
<1>3. u = UpdateInt(c)
  BY <1>1 DEF DeviceReset
<1>4. Others(c, u, {"mint", "intNcr", "single", "dma"}) /\ HasFields(u)
  BY <1>2, <1>3 DEF UpdateInt, Others, HasFields, Fields
<1>5. /\ u.full = c.full /\ u.count = c.count /\ u.chip = c.chip /\ u.state = c.state
      /\ u.loaded = c.loaded
      /\ u.timer = c.timer /\ u.dataReq = c.dataReq /\ u.active = c.active /\ u.write = c.write
  BY <1>2, <1>4 DEF Others, HasFields, Fields
<1>6. Others(s, u, ClearParts)
  BY <1>2, <1>4 DEF Cleared, Others, ClearParts
<1> QED
  BY <1>2, <1>4, <1>5, <1>6 DEF Cleared

(* The clear bit of the control register. *)
LEMMA ControlClears ==
  ASSUME NEW s, NEW p, InStep(s, p), ~s.dreq, NEW bits, "clear" \in bits, ~ResetBit(bits),
         "activate" \notin bits,
         NEW u, u = WriteControl(s, bits), NEW q, q.at = "recover", q.in = p.in
  PROVE  Typed(u) /\ Broken(u, q)
<1>1. HasFields(s)
  BY DEF InStep, Typed, Wires
<1>2. PICK c : c = Controlled(s, bits)
  OBVIOUS
<1>3. PICK d : d = DeviceReset(c)
  OBVIOUS
<1>4. u = Activated(d)
  BY <1>2, <1>3, ControlIs
<1>5. Others(s, c, AdapterParts) /\ HasFields(c) /\ c.active = FALSE
  <2>1. Others(s, c, AdapterParts) /\ HasFields(c) /\ c.active = ("activate" \in bits)
    BY <1>1, <1>2, ControlParts, ZenonT(60)
  <2>2. ("activate" \in bits) = FALSE
    OBVIOUS
  <2> QED
    BY <2>1, <2>2
<1>6. Cleared(c, d) /\ HasFields(d) /\ d.active = c.active
  BY <1>3, <1>5, DeviceResets
<1>7. Others(d, u, {"ready", "irq"}) /\ HasFields(u) /\ u.active = d.active
  BY <1>4, <1>6, ActivatedParts
<1>8. /\ u.full = d.full /\ u.count = d.count /\ u.chip = d.chip /\ u.state = d.state
      /\ u.loaded = d.loaded
      /\ u.timer = d.timer /\ u.dataReq = d.dataReq
  BY <1>6, <1>7 DEF Others, HasFields, Fields
<1>9. c.dataReq = s.dataReq
  BY <1>1, <1>5 DEF Others, AdapterParts, HasFields, Fields
<1>10. Others(s, d, ClearParts)
  BY <1>5, <1>6 DEF Cleared, Others, ClearParts
<1>11. Others(s, u, ClearParts)
  BY <1>7, <1>10 DEF Others, ClearParts, AdapterParts
<1>12. Cleared(s, u)
  BY <1>6, <1>8, <1>9, <1>11 DEF Cleared
<1> QED
  BY <1>5, <1>6, <1>7, <1>12, ClearedOn

(* The clear of the machine. *)
LEMMA MasterClears ==
  ASSUME NEW s, NEW p, InStep(s, p), ~s.dreq, NEW u, u = MasterClear(s), NEW q, q.at = "recover",
         q.in = p.in
  PROVE  Typed(u) /\ Broken(u, q)
<1>1. HasFields(s)
  BY DEF InStep, Typed, Wires
<1>2. PICK c : c = [s EXCEPT !.enabled = FALSE, !.active = FALSE, !.ready = FALSE, !.dmaOn = FALSE,
                             !.write = FALSE, !.dataReq = FALSE, !.intNcr = FALSE]
  OBVIOUS
<1>3. Others(s, c, AdapterParts \cup {"dataReq", "intNcr"}) /\ HasFields(c) /\ c.active = FALSE
     /\ c.dataReq = FALSE
  BY <1>1, <1>2 DEF Others, AdapterParts, HasFields, Fields
<1>4. Cleared(c, u) /\ u.active = c.active
  BY <1>2, <1>3, DeviceResets DEF MasterClear
<1>5. Others(s, u, ClearParts)
  BY <1>3, <1>4 DEF Cleared, Others, ClearParts
<1>6. Cleared(s, u)
  BY <1>3, <1>4, <1>5 DEF Cleared
<1> QED
  BY <1>3, <1>4, <1>6, ClearedOn

(* The reset command of the chip. *)
LEMMA CommandResets ==
  ASSUME NEW s, NEW p, InStep(s, p), ~s.dreq, NEW off, NEW u,
         u = WriteCommand(s, "reset", off, off),
         NEW q, q.at = "recover", q.in = p.in
  PROVE  Typed(u) /\ Broken(u, q)
<1>1. HasFields(s) /\ (s.active => s.write = p.in)
  BY DEF InStep, Normal, Knows, Typed, Wires
<1>2. PICK t : t = [s EXCEPT !.cmd = "reset", !.single = off, !.dma = off]
  OBVIOUS
<1>3. Others(s, t, {"cmd", "single", "dma"}) /\ HasFields(t) /\ t.cmd = "reset"
  BY <1>1, <1>2 DEF Others, HasFields, Fields
<1>4. u = Execute(t)
  BY <1>2 DEF WriteCommand
<1>5. u = ChipReset(t)
  BY <1>3, <1>4, Zenon DEF Execute
<1>6. Cleared(t, u) /\ u.active = t.active /\ u.write = t.write
  BY <1>3, <1>5, ChipResets
<1>7. t.active = s.active /\ t.write = s.write /\ t.dataReq = s.dataReq
  BY <1>1, <1>3 DEF Others, HasFields, Fields
<1>8. Others(s, u, ClearParts)
  BY <1>3, <1>6 DEF Cleared, Others, ClearParts
<1>9. Cleared(s, u)
  BY <1>6, <1>7, <1>8 DEF Cleared
<1> QED
  BY <1>1, <1>6, <1>7, <1>9, ClearedOn

(* The bus reset: first the chip drops its lines. *)
Released(s, t) ==
  /\ Others(s, t, CallParts \cup IntParts) /\ Wires(t) /\ t.nLines = {} /\ "RST" \in t.tWait
  /\ t.timer = s.timer /\ t.chip \in {s.chip, "disconnected"}
  /\ t.chip = "initiator" => "BSY" \in t.tLines

(* What the target does then: it goes on with a byte, is left at rest, or    *)
(* asks for a command; in any case it waits for RST.                         *)
LEMMA Releases ==
  ASSUME NEW s, Wires(s), s.plan \in Plans, s.state = "idle", OnTheBus(s),
         (Handshake(s) /\ Asks(s)) \/ s.chip = "disconnected",
         NEW off, off = s.nLines \cup {"RST"}, NEW t, t = NcrWrite(s, {}, off)
  PROVE  Released(s, t)
<1>1. PICK w : w = [s EXCEPT !.nLines = (@ \ off) \cup {}]
  OBVIOUS
<1>2. /\ Wires(w) /\ Others(s, w, {"nLines"}) /\ w.nLines = (s.nLines \ off) \cup {}
      /\ t = w \/ t = TargetStep(w)
  BY <1>1, WriteReaches
<1>3. w.nLines = {} /\ HasFields(s) /\ HasFields(w)
  BY <1>2 DEF Wires
<1>4. /\ w.tLines = s.tLines /\ w.sub = s.sub /\ w.target = s.target /\ w.queue = s.queue
      /\ w.tData = s.tData
      /\ w.tWait = s.tWait /\ w.tTimer = s.tTimer /\ w.timer = s.timer /\ w.chip = s.chip
      /\ w.state = s.state
  BY <1>2, <1>3 DEF Others, HasFields, Fields
<1>5. CASE Handshake(s) /\ Asks(s)
  <2>1. "BSY" \in s.tLines /\ s.tWait = AllWaits
    BY <1>5 DEF Handshake
  <2>2. "ACK" \notin Ctrl(w) /\ "RST" \notin Ctrl(w)
    BY <1>2, <1>3 DEF Ctrl, Wires, TargetLines, PhaseLines
  <2>3. TargetStep(w) = w
    BY <1>4, <1>5, <2>2 DEF TargetStep, Acknowledged, Asks
  <2>4. t = w
    BY <1>2, <2>3
  <2>5. Others(s, t, CallParts \cup IntParts)
    BY <1>2, <2>4 DEF Others, CallParts
  <2>6. "RST" \in t.tWait
    BY <1>4, <2>1, <2>4 DEF AllWaits, Quiet
  <2> QED
    BY <1>2, <1>3, <1>4, <2>1, <2>4, <2>5, <2>6 DEF Released
<1>6. CASE Handshake(s) /\ ~Asks(s) /\ s.nLines = {"ACK"} /\ s.chip = "disconnected"
  <2>1. AskedNext(s, t) \/ SetFree(s, t)
    BY <1>6, AckDropped
  <2>2. Others(s, t, CallParts \cup IntParts) /\ Wires(t) /\ t.nLines = {}
    BY <2>1 DEF AskedNext, SetFree, Others
  <2>3. t.timer = s.timer
    BY <2>1 DEF AskedNext, SetFree, Woken
  <2>4. "RST" \in t.tWait
    BY <2>1 DEF AskedNext, SetFree, Handshake, AtRest, AllWaits, Quiet
  <2>5. t.chip = "disconnected"
    <3>1. CASE AskedNext(s, t)
      BY <1>3, <1>6, <3>1 DEF AskedNext, Others, CallParts, TargetParts, HasFields, Fields
    <3>2. CASE SetFree(s, t)
      BY <1>6, <3>2 DEF SetFree
    <3> QED
      BY <2>1, <3>1, <3>2
  <2> QED
    BY <2>2, <2>3, <2>4, <2>5 DEF Released
<1>7. CASE AtRest(s, "idle", {}) /\ s.chip = "disconnected"
  <2>1. AtRest(w, "idle", {})
    BY <1>4, <1>7 DEF AtRest
  <2>2. TargetStep(w) = w
    BY <1>2, <1>3, <2>1, RestsOn
  <2>3. t = w
    BY <1>2, <2>2
  <2>4. Others(s, t, CallParts \cup IntParts)
    BY <1>2, <2>3 DEF Others, CallParts
  <2>5. "RST" \in t.tWait
    BY <2>1, <2>3 DEF AtRest, Quiet
  <2>6. t.chip = "disconnected"
    BY <1>4, <1>7, <2>3
  <2> QED
    BY <1>2, <1>3, <1>4, <2>3, <2>4, <2>5, <2>6 DEF Released
<1>8. CASE AtRest(s, "selected", {"BSY"}) /\ s.chip = "disconnected"
  <2>1. AtRest(w, "selected", {"BSY"})
    BY <1>4, <1>8 DEF AtRest
  <2>2. CASE t = w
    <3>1. Others(s, t, CallParts \cup IntParts)
      BY <1>2, <2>2 DEF Others, CallParts
    <3>2. "RST" \in t.tWait
      BY <2>1, <2>2 DEF AtRest, Quiet
    <3>3. t.chip = "disconnected"
      BY <1>4, <1>8, <2>2
    <3> QED
      BY <1>2, <1>3, <1>4, <2>2, <3>1, <3>2, <3>3 DEF Released
  <2>3. CASE t = TargetStep(w)
    <3>1. Called(w, t) /\ Handshake(t) /\ Wires(t)
      BY <1>2, <1>3, <2>1, <2>3, AsksForCommand DEF Requests
    <3>2. Others(w, t, TargetParts) /\ Woken(w, t)
      BY <3>1 DEF Called
    <3>3. t.chip = w.chip /\ t.nLines = w.nLines
      BY <1>3, <3>2 DEF Others, TargetParts, HasFields, Fields
    <3>4. t.timer = w.timer
      BY <1>4, <3>2 DEF Woken
    <3>5. "RST" \in t.tWait
      BY <3>1 DEF Handshake, AllWaits, Quiet
    <3>6. Others(s, t, CallParts \cup IntParts)
      BY <1>2, <3>2 DEF Others, CallParts
    <3>7. t.chip = "disconnected"
      BY <1>4, <1>8, <3>3
    <3> QED
      BY <1>3, <1>4, <3>1, <3>3, <3>4, <3>5, <3>6, <3>7 DEF Released
  <2> QED
    BY <1>2, <2>2, <2>3
<1> QED
  BY <1>5, <1>6, <1>7, <1>8 DEF OnTheBus

(* RST resets the target, and the bus is free. *)
LEMMA BusResets ==
  ASSUME NEW a, Wires(a), a.nLines = {}, "RST" \in a.tWait,
         a.chip \in {"initiator", "disconnected"},
         a.chip = "initiator" => "BSY" \in a.tLines, NEW b, b = NcrWrite(a, {"RST"}, {})
  PROVE  /\ AtRest(b, "idle", {}) /\ Wires(b) /\ b.nLines = {"RST"} /\ b.chip = "disconnected"
         /\ Others(a, b, {"nLines"} \cup ResetParts)
<1>1. PICK w : w = [a EXCEPT !.nLines = (@ \ {}) \cup {"RST"}]
  OBVIOUS
<1>2. /\ Wires(w) /\ Others(a, w, {"nLines"}) /\ w.nLines = (a.nLines \ {}) \cup {"RST"}
      /\ (\E l \in a.tWait : l \notin a.tLines
         /\ (l \in a.nLines) # (l \in w.nLines)) => b = TargetStep(w)
  BY <1>1, WriteReaches DEF ChipLines
<1>3. w.nLines = {"RST"} /\ HasFields(a)
  BY <1>2 DEF Wires
<1>4. "RST" \notin a.tLines
  BY DEF Wires, TargetLines, PhaseLines
<1>5. b = TargetStep(w)
  BY <1>2, <1>3, <1>4
<1>6. w.chip = a.chip /\ w.tLines = a.tLines
  BY <1>2, <1>3 DEF Others, HasFields, Fields
<1>7. /\ AtRest(b, "idle", {}) /\ Wires(b) /\ Others(w, b, ResetParts)
      /\ w.chip = "initiator" /\ "BSY" \in w.tLines => Disconnects(w, b)
      /\ b.chip \in {w.chip, "disconnected"} /\ b.nLines = {"RST"}
  BY <1>2, <1>3, <1>5, Resets
<1>8. b.chip = "disconnected"
  BY <1>6, <1>7 DEF Disconnects
<1>9. Others(a, b, {"nLines"} \cup ResetParts)
  BY <1>2, <1>7 DEF Others
<1> QED
  BY <1>7, <1>8, <1>9

(* The fields that the whole of it changes. *)
BusResetParts == CallParts \cup IntParts

(* ResetBus() leaves a free bus and a disconnected chip. *)
LEMMA ResetsBus ==
  ASSUME NEW s, Wires(s), s.plan \in Plans, s.state = "idle", OnTheBus(s),
         (Handshake(s) /\ Asks(s)) \/ s.chip = "disconnected",
           s.chip \in {"initiator", "disconnected"},
         NEW u, u = ResetBus(s)
  PROVE  /\ Others(s, u, BusResetParts) /\ Wires(u) /\ u.nLines = {} /\ AtRest(u, "idle", {})
         /\ u.chip = "disconnected" /\ u.timer = s.timer
<1>1. PICK all : all = s.nLines \cup {"RST"}
  OBVIOUS
<1>2. PICK a : a = NcrWrite(s, {}, all)
  OBVIOUS
<1>3. PICK b : b = NcrWrite(a, {"RST"}, {})
  OBVIOUS
<1>4. u = NcrWrite(b, {}, all)
  BY <1>1, <1>2, <1>3 DEF ResetBus
<1>5. Released(s, a)
  BY <1>1, <1>2, Releases
<1>6. /\ Others(s, a, CallParts \cup IntParts) /\ Wires(a) /\ a.nLines = {} /\ "RST" \in a.tWait
      /\ a.timer = s.timer /\ a.chip \in {"initiator", "disconnected"}
      /\ (a.chip = "initiator" => "BSY" \in a.tLines)
  BY <1>5 DEF Released
<1>7. /\ AtRest(b, "idle", {}) /\ Wires(b) /\ b.nLines = {"RST"} /\ b.chip = "disconnected"
      /\ Others(a, b, {"nLines"} \cup ResetParts)
  BY <1>3, <1>6, BusResets
<1>8. PICK lines : lines = (b.nLines \ all) \cup {}
  OBVIOUS
<1>9. lines = {}
  BY <1>1, <1>7, <1>8
<1>10. Wires(u) /\ Others(b, u, {"nLines"}) /\ u.nLines = {}
  BY <1>4, <1>7, <1>8, <1>9, FreeWrite
<1>11. HasFields(a) /\ HasFields(b)
  BY <1>6, <1>7 DEF Wires
<1>12. AtRest(u, "idle", {})
  <2>1. {"nLines"} \cap RestParts = {}
    BY DEF RestParts
  <2> QED
    BY <1>7, <1>10, <1>11, <2>1, RestKept
<1>13. u.chip = b.chip /\ u.timer = b.timer
  BY <1>10, <1>11 DEF Others, HasFields, Fields
<1>14. b.timer = a.timer
  BY <1>7, <1>11 DEF Others, ResetParts, TargetParts, IntParts, HasFields, Fields
<1>15. Others(s, b, BusResetParts)
  BY <1>6, <1>7 DEF Others, BusResetParts, ResetParts, CallParts
<1>16. Others(s, u, BusResetParts)
  BY <1>10, <1>15 DEF Others, BusResetParts, CallParts
<1> QED
  BY <1>6, <1>7, <1>10, <1>12, <1>13, <1>14, <1>16

(* The program resets the bus. *)
LEMMA ProgResetsOn ==
  ASSUME NEW s, NEW p, Typed(s), Broken(s, p), p.at = "recover", NEW bits, ResetBit(bits),
         "clear" \notin bits,
         "activate" \notin bits, NEW u, u = WriteControl(s, bits), NEW q, q.at = "drain",
           q.in = p.in
  PROVE  Typed(u) /\ Broken(u, q)
<1>1. HasFields(s) /\ Wires(s) /\ s.plan \in Plans
  BY DEF Typed, Wires
<1>2. /\ s.state = "idle" /\ s.loaded = FALSE /\ s.timer = Off /\ s.dreq = FALSE
      /\ s.dataReq = FALSE
      /\ s.stall = FALSE /\ (p.in => ~s.full) /\ s.chip \in {"initiator", "disconnected"}
      /\ OnTheBus(s) /\ ((Handshake(s) /\ Asks(s)) \/ s.chip = "disconnected")
  BY Zenon DEF Broken, OnTheBus
<1>3. PICK c : c = Controlled(s, bits)
  OBVIOUS
<1>4. PICK d : d = ResetBus(c)
  OBVIOUS
<1>5. u = Activated(d)
  BY <1>3, <1>4, ControlIs
<1>6. Others(s, c, AdapterParts) /\ HasFields(c) /\ c.active = FALSE
  <2>1. Others(s, c, AdapterParts) /\ HasFields(c) /\ c.active = ("activate" \in bits)
    BY <1>1, <1>3, ControlParts
  <2>2. ("activate" \in bits) = FALSE
    OBVIOUS
  <2> QED
    BY <2>1, <2>2
<1>7. BusSame(s, c) /\ c.chip = s.chip /\ c.state = s.state /\ c.timer = s.timer
  BY <1>1, <1>6 DEF BusSame, BusParts, HandParts, Others, AdapterParts, HasFields, Fields
<1>8. /\ Handshake(s) => Handshake(c)
      /\ Asks(c) <=> Asks(s)
      /\ c.nLines = s.nLines /\ c.plan = s.plan /\ Wires(c)
      /\ \A target, lines : AtRest(s, target, lines) => AtRest(c, target, lines)
  BY <1>1, <1>7, BusKept
<1>9. OnTheBus(c)
  BY <1>2, <1>8 DEF OnTheBus
<1>10. /\ Others(c, d, BusResetParts) /\ Wires(d) /\ d.nLines = {} /\ AtRest(d, "idle", {})
       /\ d.chip = "disconnected" /\ d.timer = c.timer
  BY <1>1, <1>2, <1>4, <1>7, <1>8, <1>9, ResetsBus
<1>11. HasFields(d)
  BY <1>10 DEF Wires
<1>12. Others(d, u, {"ready", "irq"}) /\ HasFields(u) /\ u.active = d.active
  BY <1>5, <1>11, ActivatedParts
<1>13. Others(c, u, BusResetParts \cup {"ready", "irq"})
  BY <1>10, <1>12 DEF Others
<1>14. Others(s, u, BusResetParts \cup AdapterParts)
  BY <1>6, <1>13 DEF Others, AdapterParts
<1>15. /\ u.state = s.state /\ u.loaded = s.loaded /\ u.dreq = s.dreq /\ u.dataReq = s.dataReq
       /\ u.stall = s.stall /\ u.full = s.full
  BY <1>1, <1>14 DEF Others, BusResetParts, CallParts, IntParts, TargetParts, AdapterParts,
     HasFields, Fields
<1>16. u.count = s.count /\ u.got = s.got /\ u.taken = s.taken /\ u.plan = s.plan
  BY <1>1, <1>14 DEF Others, BusResetParts, CallParts, IntParts, TargetParts, AdapterParts,
     HasFields, Fields
<1>17. u.active = FALSE
  <2>1. d.active = c.active
    BY <1>6, <1>10 DEF Others, BusResetParts, CallParts, IntParts, TargetParts, HasFields, Fields
  <2> QED
    BY <1>6, <1>12, <2>1
<1>18. u.timer = d.timer /\ u.chip = d.chip /\ u.nLines = d.nLines /\ u.tLines = d.tLines
  BY <1>11, <1>12 DEF Others, HasFields, Fields
<1>19. AtRest(u, "idle", {}) /\ u.nLines = {}
  <2>1. {"ready", "irq"} \cap RestParts = {}
    BY DEF RestParts
  <2> QED
    BY <1>10, <1>11, <1>12, <1>18, <2>1, RestKept
<1>20. Wires(u)
  BY <1>10, <1>12, <1>18 DEF Wires
<1>21. Typed(u)
  <2>1. s.count \in Nat /\ s.got \in Nat /\ s.taken \in Nat
    BY DEF Typed
  <2> QED
    BY <1>1, <1>16, <1>20, <2>1 DEF Typed
<1>22. u.timer = Off
  BY <1>2, <1>7, <1>10, <1>18
<1>23. Broken(u, q)
  BY <1>2, <1>10, <1>15, <1>17, <1>18, <1>19, <1>22 DEF Broken
<1> QED
  BY <1>21, <1>23

(* It reads the causes, and starts again. *)
LEMMA ProgDrainsOn ==
  ASSUME NEW s, NEW p, Typed(s), Broken(s, p), p.at = "drain", NEW u, u = ReadInt(s),
         NEW q, q.at = "idle", q.in = FALSE
  PROVE  InStep(u, q)
<1>1. HasFields(s) /\ s.count \in Nat
  BY DEF Typed, Wires
<1>2. /\ s.state = "idle" /\ s.loaded = FALSE /\ s.timer = Off /\ s.dreq = FALSE
      /\ s.dataReq = FALSE
      /\ s.stall = FALSE /\ s.chip = "disconnected" /\ ~s.active /\ s.nLines = {}
      /\ AtRest(s, "idle", {})
  BY Zenon DEF Broken
<1>3. /\ Others(s, u, ReadParts) /\ u.int = {} /\ u.mint = FALSE /\ u.intNcr = FALSE
      /\ IF s.state # "idle" THEN u.timer = 0 ELSE u.timer = s.timer
  BY <1>1, ReadsInt
<1>4. u.timer = Off
  BY <1>2, <1>3
<1>5. BusSame(s, u)
  BY <1>1, <1>3 DEF BusSame, BusParts, HandParts, Others, ReadParts, HasFields, Fields
<1>6. /\ u.state = s.state /\ u.loaded = s.loaded /\ u.dreq = s.dreq /\ u.dataReq = s.dataReq
      /\ u.stall = s.stall /\ u.chip = s.chip /\ u.active = s.active
  BY <1>1, <1>3 DEF Others, ReadParts, HasFields, Fields
<1>7. u.count = s.count
  BY <1>1, <1>3 DEF Others, ReadParts, HasFields, Fields
<1>8. Typed(u)
  BY <1>1, <1>5, <1>7, TypedOn
<1>9. u.nLines = {} /\ AtRest(u, "idle", {})
  BY <1>2, <1>5, BusKept
<1>10. Vacant(u, q)
  BY <1>2, <1>6 DEF Vacant
<1>11. Idles(u, q)
  BY <1>2, <1>4, <1>6, <1>9, <1>10 DEF Idles, Chip
<1>12. Knows(u, q)
  BY <1>2, <1>3, <1>6 DEF Knows, Idle
<1> QED
  BY <1>2, <1>6, <1>8, <1>11, <1>12 DEF InStep, Normal, Unconnected

(* Where the program is tells whether it gave up. *)
LEMMA WhereInStep ==
  ASSUME NEW s, NEW p, Lock(s, p), p.at \notin {"recover", "drain"}
  PROVE  InStep(s, p) /\ Drives(p) /\ Shaped(p)
<1>1. ~Broken(s, p)
  BY DEF Broken
<1> QED
  BY <1>1 DEF Lock, InStep

(* It has, while it recovers and drains. *)
LEMMA WhereBroken ==
  ASSUME NEW s, NEW p, Lock(s, p), p.at \in {"recover", "drain"}
  PROVE  Typed(s) /\ Broken(s, p) /\ Drives(p) /\ Shaped(p)
<1>1. ~Normal(s, p)
  BY DEF Normal, Knows
<1> QED
  BY <1>1 DEF Lock

(* The invariant, of a program that has not. *)
LEMMA InStepLocks ==
  ASSUME NEW u, NEW q, InStep(u, q), Drives(q), Shaped(q)
  PROVE  Lock(u, q)
  BY DEF Lock, InStep

(* A step of the program to another place. *)
LEMMA ProgMoves ==
  ASSUME NEW p, Drives(p), Shaped(p), NEW at, NEW q, q = [p EXCEPT !.at = at]
  PROVE  q.at = at /\ q.in = p.in /\ q.left = p.left /\ q.seen = p.seen /\ Drives(q) /\ Shaped(q)
  BY DEF Drives, Shaped

(* It goes on and has nothing to move. *)
Goes(p) == [p EXCEPT !.at = "go", !.left = 0]
Gone(p, q) == q.at = "go" /\ q.in = p.in /\ q.left = 0 /\ Drives(q) /\ Shaped(q)

(* That step. *)
LEMMA ProgGoes ==
  ASSUME NEW p, Drives(p), Shaped(p), NEW q, q = Goes(p)
  PROVE  Gone(p, q)
<1>1. q.at = "go" /\ q.in = p.in /\ Shaped(q)
  BY DEF Shaped, Goes
<1>2. q.left = 0
  BY DEF Shaped, Goes
<1>3. Drives(q)
  BY <1>1, <1>2 DEF Drives
<1> QED
  BY <1>1, <1>2, <1>3 DEF Gone

(* It has one byte less to move. *)
LEMMA ProgCounts ==
  ASSUME NEW p, Drives(p), Shaped(p), p.left > 0, NEW q, q = [p EXCEPT !.left = @ - 1]
  PROVE  SameProg(p, q) /\ q.left = p.left - 1 /\ Drives(q) /\ Shaped(q)
<1>1. SameProg(p, q) /\ q.left = p.left - 1 /\ Shaped(q)
  BY DEF Shaped, SameProg
<1>2. q.left \in Nat
  <2>1. p.left \in Nat
    BY DEF Drives
  <2> QED
    BY <1>1, <2>1
<1> QED
  BY <1>1, <1>2 DEF Drives, SameProg

(* Each step in turn keeps the invariant: a tick of the machine. *)
LEMMA TickLocks ==
  ASSUME NEW s, NEW p, Lock(s, p), NEW u, u = Tick(s)
  PROVE  Lock(u, p)
<1>1. CASE Normal(s, p)
  <2>1. InStep(s, p) /\ Drives(p) /\ Shaped(p)
    BY <1>1 DEF Lock, InStep
  <2>2. InStep(u, p)
    BY <2>1, TickOn
  <2> QED
    BY <2>1, <2>2, InStepLocks
<1>2. CASE Broken(s, p)
  BY <1>2, BrokenTick DEF Lock
<1> QED
  BY <1>1, <1>2 DEF Lock

(* The commands that select a target; with one of them the program does. *)
Selections == {cmd \in {"select", "select with ATN"} : Choice(cmd)}

(* The program selects a target. *)
LEMMA SelectLocks ==
  ASSUME LockInv, ProgSelect
  PROVE  LockInv'
<1>1. PICK there \in BOOLEAN, plan \in Plans, cmd \in Selections :
        scsi' = WriteCommand(Aimed(scsi, there, plan), cmd, FALSE, FALSE)
  BY Zenon DEF ProgSelect, Aimed, Choice, Selections
<1>2. Choice(cmd)
  BY <1>1, Zenon DEF Selections
<1>3. prog.at = "idle" /\ prog' = Goes(prog)
  BY Zenon DEF ProgSelect, Goes
<1>4. InStep(scsi, prog) /\ Drives(prog) /\ Shaped(prog)
  BY <1>3, WhereInStep DEF LockInv
<1>5. Gone(prog, prog')
  BY <1>3, <1>4, ProgGoes
<1>6. prog'.at = "go" /\ prog'.in = prog.in /\ prog'.left = 0 /\ Drives(prog') /\ Shaped(prog')
  BY <1>5 DEF Gone
<1>7. InStep(scsi', prog')
  BY <1>1, <1>2, <1>3, <1>4, <1>6, ProgSelectOn
<1> QED
  BY <1>4, <1>6, <1>7, InStepLocks DEF LockInv

(* It activates the adapter. *)
LEMMA ActivateLocks ==
  ASSUME LockInv, ProgActivate
  PROVE  LockInv'
<1>1. /\ prog.at = "go" /\ prog' = [prog EXCEPT !.at = "wait"]
      /\ scsi' = WriteControl(scsi, Activating(prog))
  BY DEF ProgActivate, Activating
<1>2. InStep(scsi, prog) /\ Drives(prog) /\ Shaped(prog)
  BY <1>1, WhereInStep DEF LockInv
<1>3. Drives(prog') /\ Shaped(prog')
  BY <1>1, <1>2, ProgMoves
<1>4. InStep(scsi', prog')
  BY <1>1, <1>2, ActivatesOn DEF Shaped
<1> QED
  BY <1>3, <1>4, InStepLocks DEF LockInv

(* It takes a byte from the data register. *)
LEMMA ReadsLock ==
  ASSUME LockInv, ProgReads
  PROVE  LockInv'
<1>1. /\ prog.at = "wait" /\ prog.left > 0 /\ prog.in /\ scsi.full
      /\ scsi' = ReadData(Took(scsi)) /\ prog' = [prog EXCEPT !.left = @ - 1]
  BY DEF ProgReads
<1>2. InStep(scsi, prog) /\ Drives(prog) /\ Shaped(prog)
  BY <1>1, WhereInStep DEF LockInv
<1>3. SameProg(prog, prog') /\ prog'.left = prog.left - 1 /\ Drives(prog') /\ Shaped(prog')
  BY <1>1, <1>2, ProgCounts
<1>4. InStep(scsi', prog')
  BY <1>1, <1>2, <1>3, ReadsOn
<1> QED
  BY <1>3, <1>4, InStepLocks DEF LockInv

(* It puts one there. *)
LEMMA WritesLock ==
  ASSUME LockInv, ProgWrites
  PROVE  LockInv'
<1>1. /\ prog.at = "wait" /\ prog.left > 0 /\ ~prog.in /\ ~scsi.full
      /\ scsi' = WriteData(Gave(scsi), scsi.put + 1) /\ prog' = [prog EXCEPT !.left = @ - 1]
  BY DEF ProgWrites
<1>2. InStep(scsi, prog) /\ Drives(prog) /\ Shaped(prog)
  BY <1>1, WhereInStep DEF LockInv
<1>3. SameProg(prog, prog') /\ prog'.left = prog.left - 1 /\ Drives(prog') /\ Shaped(prog')
  BY <1>1, <1>2, ProgCounts
<1>4. InStep(scsi', prog')
  BY <1>1, <1>2, <1>3, WritesOn
<1> QED
  BY <1>3, <1>4, InStepLocks DEF LockInv

(* It reads the causes. *)
LEMMA InterruptLocks ==
  ASSUME LockInv, ProgInterrupt
  PROVE  LockInv'
<1>1. /\ prog.at = "wait" /\ ~scsi.active /\ scsi' = ReadInt(scsi)
      /\ prog' = [prog EXCEPT !.at = "decide", !.seen = scsi.int]
  BY DEF ProgInterrupt
<1>2. InStep(scsi, prog) /\ Drives(prog) /\ Shaped(prog)
  BY <1>1, WhereInStep DEF LockInv
<1>3. prog'.at = "decide" /\ prog'.seen = scsi.int /\ prog'.in = prog.in
     /\ prog'.left = prog.left /\ Shaped(prog')
  BY <1>1, <1>2 DEF Shaped
<1>4. InStep(scsi', prog')
  BY <1>1, <1>2, <1>3, InterruptOn
<1>5. Drives(prog')
  BY <1>2, <1>3 DEF Drives
<1> QED
  BY <1>3, <1>4, <1>5, InStepLocks DEF LockInv

(* It loads a transfer. *)
LEMMA TransfersLock ==
  ASSUME LockInv, ProgTransfers
  PROVE  LockInv'
<1>1. PICK cmd \in {"info", "pad"}, single \in BOOLEAN, dma \in BOOLEAN,
           count \in 1 .. DataBytes \cup {CommandBytes} :
        /\ prog.at = "decide" /\ prog.seen = {"service"}
        /\ Phase(scsi) \in {DataIn, DataOut}
           \/ (cmd = "info" /\ count = IF Phase(scsi) = Command THEN CommandBytes ELSE 1)
        /\ count <= DataBytes \/ ~(Phase(scsi) \in {DataIn, DataOut})
        /\ single => count = 1
        /\ scsi' = WriteCommand([scsi EXCEPT !.count = count, !.put = scsi.taken], cmd, single, dma)
        /\ prog' = [prog EXCEPT !.at = "go", !.in = "IO" \in Phase(scsi),
                                !.left = Due(Phase(scsi), cmd, dma, count)]
  BY Zenon DEF ProgTransfers, Due
<1>2. FitsPhase(Phase(scsi), cmd, count)
  BY <1>1, Zenon DEF FitsPhase
<1>3. prog.at = "decide" /\ prog.seen = {"service"} /\ (single => count = 1)
  BY <1>1
<1>4. InStep(scsi, prog) /\ Drives(prog) /\ Shaped(prog)
  BY <1>3, WhereInStep DEF LockInv
<1>5. PICK left : left = Due(Phase(scsi), cmd, dma, count)
  OBVIOUS
<1>6. prog' = [prog EXCEPT !.at = "go", !.in = "IO" \in Phase(scsi), !.left = left]
  BY <1>1, <1>5, Zenon
<1>7. prog'.at = "go" /\ prog'.in = ("IO" \in Phase(scsi)) /\ prog'.left = left /\ Shaped(prog')
  BY <1>4, <1>6 DEF Shaped
<1>8. PICK x : x = [scsi EXCEPT !.count = count, !.put = scsi.taken]
  OBVIOUS
<1>9. scsi' = WriteCommand(x, cmd, single, dma)
  BY <1>1, <1>8, Zenon
<1>10. InStep(scsi', prog') /\ Drives(prog')
  BY <1>2, <1>3, <1>4, <1>5, <1>7, <1>8, <1>9, ProgTransfersOn
<1> QED
  BY <1>7, <1>10, InStepLocks DEF LockInv

(* It accepts a message, goes on without one, or sees the end of the *)
(* connection.                                                       *)
LEMMA DecidesLock ==
  ASSUME LockInv, ProgDecides
  PROVE  LockInv'
<1>1. prog.at = "decide"
  BY DEF ProgDecides
<1>2. InStep(scsi, prog) /\ Drives(prog) /\ Shaped(prog)
  BY <1>1, WhereInStep DEF LockInv
<1>3. CASE /\ prog' = Goes(prog)
           /\ scsi' = IF Phase(scsi) = MessageIn THEN WriteCommand(scsi, "accept", FALSE,
              FALSE) ELSE scsi
  <2>1. prog'.at = "go" /\ prog'.in = prog.in /\ Drives(prog') /\ Shaped(prog')
    <3>1. Gone(prog, prog')
      BY <1>2, <1>3, ProgGoes
    <3> QED
      BY <3>1 DEF Gone
  <2>2. CASE Phase(scsi) = MessageIn
    <3>1. scsi' = WriteCommand(scsi, "accept", FALSE, FALSE)
      BY <1>3, <2>2
    <3>2. InStep(scsi', prog')
      BY <1>1, <1>2, <2>1, <2>2, <3>1, AcceptsOn
    <3> QED
      BY <2>1, <3>2, InStepLocks DEF LockInv
  <2>3. CASE Phase(scsi) # MessageIn
    <3>1. scsi' = scsi
      BY <1>3, <2>3
    <3>2. Others(scsi, scsi', {"nLines", "cmd", "single", "dma"}) /\ scsi'.nLines = scsi.nLines
      BY <3>1 DEF Others
    <3>3. InStep(scsi', prog')
      BY <1>1, <1>2, <2>1, <3>2, GoesOn
    <3> QED
      BY <2>1, <3>3, InStepLocks DEF LockInv
  <2> QED
    BY <2>2, <2>3
<1>4. CASE "disconnected" \in prog.seen /\ prog' = [prog EXCEPT !.at = "idle"] /\ UNCHANGED scsi
  <2>1. prog'.at = "idle" /\ prog'.in = prog.in /\ Drives(prog') /\ Shaped(prog')
    BY <1>2, <1>4, ProgMoves
  <2>2. InStep(scsi, prog')
    BY <1>1, <1>2, <1>4, <2>1, EndsOn
  <2>3. Lock(scsi, prog')
    BY <2>1, <2>2, InStepLocks
  <2> QED
    BY <1>4, <2>3 DEF LockInv
<1>5. CASE "invalid" \in prog.seen /\ prog' = [prog EXCEPT !.at = "recover"] /\ UNCHANGED scsi
  <2>1. prog'.at = "recover" /\ prog'.in = prog.in /\ Drives(prog') /\ Shaped(prog')
    BY <1>2, <1>5, ProgMoves
  <2>2. Broken(scsi, prog')
    BY <1>1, <1>2, <1>5, <2>1, FailsOn
  <2>3. Lock(scsi, prog')
    BY <1>2, <2>1, <2>2 DEF Lock, InStep
  <2> QED
    BY <1>5, <2>3 DEF LockInv
<1> QED
  BY <1>3, <1>4, <1>5 DEF ProgDecides, Goes

(* It makes a mistake. *)
LEMMA MistakesLock ==
  ASSUME LockInv, ProgMistakes
  PROVE  LockInv'
<1>1. prog.at = "decide" /\ prog.seen = {"service"}
  BY DEF ProgMistakes
<1>2. InStep(scsi, prog) /\ Drives(prog) /\ Shaped(prog)
  BY <1>1, WhereInStep DEF LockInv
<1>3. CASE scsi' = WriteCommand(scsi, "select", FALSE, FALSE) /\ prog' = [prog EXCEPT !.at = "go"]
  <2>1. prog'.at = "go" /\ prog'.in = prog.in /\ Drives(prog') /\ Shaped(prog')
    BY <1>2, <1>3, ProgMoves
  <2>2. InStep(scsi', prog')
    BY <1>1, <1>2, <1>3, <2>1, SelectsAgain
  <2> QED
    BY <2>1, <2>2, InStepLocks DEF LockInv
<1>4. CASE scsi' = WriteCommand(scsi, "disconnect", FALSE, FALSE)
     /\ prog' = [prog EXCEPT !.at = "recover"]
  <2>1. prog'.at = "recover" /\ prog'.in = prog.in /\ Drives(prog') /\ Shaped(prog')
    BY <1>2, <1>4, ProgMoves
  <2>2. Typed(scsi') /\ Broken(scsi', prog')
    BY <1>1, <1>2, <1>4, <2>1, DisconnectsOn
  <2> QED
    BY <2>1, <2>2 DEF LockInv, Lock
<1> QED
  BY <1>3, <1>4 DEF ProgMistakes

(* It clears the adapter or the machine, with no data request standing. *)
LEMMA ClearsLock ==
  ASSUME ScsiRare = {}, LockInv, ProgClears
  PROVE  LockInv'
<1>1. ~scsi.dreq
  BY Zenon DEF ProgClears
<1>2. prog' = [prog EXCEPT !.at = "recover"]
  BY Zenon DEF ProgClears
<1>3. InStep(scsi, prog) /\ Drives(prog) /\ Shaped(prog)
  <2>1. prog.at \notin {"idle", "recover", "drain"}
    BY Zenon DEF ProgClears
  <2> QED
    BY <2>1, WhereInStep DEF LockInv
<1>4. prog'.at = "recover" /\ prog'.in = prog.in /\ Drives(prog') /\ Shaped(prog')
  BY <1>2, <1>3, ProgMoves
<1>5. ASSUME NEW bits, bits \in {{"clear"}, {"clear", "enable"}}, scsi' = WriteControl(scsi, bits)
      PROVE  Typed(scsi') /\ Broken(scsi', prog')
  <2>1. ~ResetBit(bits)
    <3>1. CASE bits = {"clear"}
      BY <3>1, Zenon DEF ResetBit
    <3>2. CASE bits = {"clear", "enable"}
      BY <3>2, Zenon DEF ResetBit
    <3> QED
      BY <1>5, <3>1, <3>2
  <2>2. "clear" \in bits /\ "activate" \notin bits
    BY <1>5
  <2> QED
    BY <1>1, <1>3, <1>4, <1>5, <2>1, <2>2, ControlClears
<1>6. ASSUME scsi' = MasterClear(scsi)
      PROVE  Typed(scsi') /\ Broken(scsi', prog')
  BY <1>1, <1>3, <1>4, <1>6, MasterClears
<1>7. ASSUME scsi' = WriteCommand(scsi, "reset", FALSE, FALSE)
      PROVE  Typed(scsi') /\ Broken(scsi', prog')
  BY <1>1, <1>3, <1>4, <1>7, CommandResets
<1>8. scsi' \in {WriteControl(scsi, {"clear"}), WriteControl(scsi, {"clear", "enable"}),
                 MasterClear(scsi), WriteCommand(scsi, "reset", FALSE, FALSE)}
  BY Zenon DEF ProgClears
<1>9. Typed(scsi') /\ Broken(scsi', prog')
  BY <1>5, <1>6, <1>7, <1>8
<1> QED
  BY <1>4, <1>9 DEF LockInv, Lock

(* It resets the bus after that. *)
LEMMA ResetsBusLock ==
  ASSUME ScsiRare = {}, LockInv, ProgResetsBus
  PROVE  LockInv'
<1>1. PICK bits : /\ ResetBit(bits) /\ "clear" \notin bits /\ "activate" \notin bits
                  /\ scsi' = WriteControl(scsi, bits)
  BY Zenon DEF ProgResetsBus, ResetBit
<1>2. prog.at = "recover" /\ prog' = [prog EXCEPT !.at = "drain"]
  BY Zenon DEF ProgResetsBus
<1>3. Typed(scsi) /\ Broken(scsi, prog) /\ Drives(prog) /\ Shaped(prog)
  BY <1>2, WhereBroken DEF LockInv
<1>4. prog'.at = "drain" /\ prog'.in = prog.in /\ Drives(prog') /\ Shaped(prog')
  BY <1>2, <1>3, ProgMoves
<1>5. Typed(scsi') /\ Broken(scsi', prog')
  BY <1>1, <1>2, <1>3, <1>4, ProgResetsOn
<1> QED
  BY <1>4, <1>5 DEF LockInv, Lock

(* It reads the causes of the bus reset. *)
LEMMA DrainsLock ==
  ASSUME LockInv, ProgDrains
  PROVE  LockInv'
<1>1. prog.at = "drain" /\ scsi' = ReadInt(scsi)
  BY DEF ProgDrains
<1>2. prog'.at = "idle" /\ prog'.in = FALSE /\ prog'.left = 0 /\ Shaped(prog')
  BY DEF ProgDrains, Shaped
<1>3. Typed(scsi) /\ Broken(scsi, prog)
  BY <1>1, WhereBroken DEF LockInv
<1>4. InStep(scsi', prog')
  BY <1>1, <1>2, <1>3, ProgDrainsOn
<1>5. Drives(prog')
  <2>1. prog'.left = 0
    BY <1>2
  <2>2. prog'.left \in Nat
    BY <2>1
  <2>3. prog'.in = FALSE
    BY <1>2
  <2> QED
    BY <2>2, <2>3 DEF Drives
<1> QED
  BY <1>2, <1>4, <1>5, InStepLocks DEF LockInv

(* So does every step of the adapter's specification. *)
LEMMA LockKept ==
  ASSUME ScsiRare = {}, LockInv, [ScsiNext]_scsiVars
  PROVE  LockInv'
<1>1. CASE ScsiTick
  <2>1. scsi' = Tick(scsi) /\ prog' = prog
    BY <1>1 DEF ScsiTick
  <2>2. Lock(scsi', prog)
    BY <2>1, TickLocks DEF LockInv
  <2> QED
    BY <2>1, <2>2 DEF LockInv
<1>2. CASE ScsiIdent
  <2>1. scsi' = Identified(scsi) /\ prog' = prog
    BY <1>2 DEF ScsiIdent, Identified
  <2>2. Typed(scsi') /\ (Normal(scsi', prog) \/ Broken(scsi', prog))
    BY <2>1, IdentOn DEF LockInv, Lock
  <2> QED
    BY <2>1, <2>2 DEF LockInv, Lock
<1>3. CASE ProgSelect
  BY <1>3, SelectLocks
<1>4. CASE ProgGoesOn
  BY <1>4, ActivateLocks, ReadsLock, WritesLock, InterruptLocks, TransfersLock, DecidesLock,
     ResetsBusLock,
     DrainsLock DEF ProgGoesOn
<1>5. CASE ProgMistakes
  BY <1>5, MistakesLock
<1>6. CASE ProgClears
  BY <1>6, ClearsLock
<1>7. CASE UNCHANGED scsiVars
  BY <1>7 DEF scsiVars, LockInv
<1> QED
  BY <1>1, <1>2, <1>3, <1>4, <1>5, <1>6, <1>7 DEF ScsiNext

(* The adapter starts with it. *)
LEMMA LockBegins ==
  ASSUME ScsiInit
  PROVE  LockInv
<1>1. /\ HasFields(scsi) /\ scsi.nLines = {} /\ scsi.tLines = {} /\ scsi.chip = "disconnected"
      /\ scsi.state = "idle" /\ scsi.loaded = FALSE /\ scsi.full = FALSE /\ scsi.int = {}
      /\ scsi.mint = FALSE
      /\ scsi.dreq = FALSE /\ scsi.dataReq = FALSE /\ scsi.stall = FALSE /\ scsi.intNcr = FALSE
      /\ scsi.active = FALSE
  BY DEF ScsiInit, HasFields, Fields
<1>2. /\ scsi.target = "idle" /\ scsi.sub = "none" /\ scsi.queue = <<>> /\ scsi.tTimer = FALSE
      /\ scsi.tWait = Quiet /\ scsi.plan = <<>>
  BY DEF ScsiInit, Quiet
<1>3. scsi.tData = 0 /\ scsi.timer = Off /\ scsi.got = 0 /\ scsi.taken = 0 /\ scsi.count = 0
  BY DEF ScsiInit
<1>4. prog.at = "idle" /\ prog.in = FALSE /\ Shaped(prog)
  BY DEF ScsiInit, Shaped
<1>5. prog.left = 0
  BY DEF ScsiInit
<1>6. Drives(prog)
  <2>1. prog.left \in Nat
    BY <1>5
  <2> QED
    BY <1>4, <2>1 DEF Drives
<1>7. Typed(scsi)
  <2>1. scsi.got \in Nat /\ scsi.taken \in Nat /\ scsi.count \in Nat
    BY <1>3
  <2>2. scsi.plan \in Plans
    BY <1>2 DEF Plans
  <2>3. Wires(scsi)
    BY <1>1 DEF Wires
  <2> QED
    BY <2>1, <2>2, <2>3 DEF Typed
<1>8. Knows(scsi, prog)
  BY <1>1, <1>4 DEF Knows, Idle
<1>9. scsi.tData = 0 /\ scsi.timer = Off
  BY <1>3
<1>10. Idles(scsi, prog)
  BY <1>1, <1>2, <1>4, <1>9 DEF Idles, Chip, AtRest, Vacant
<1>11. Normal(scsi, prog)
  BY <1>1, <1>8, <1>10 DEF Normal, Unconnected
<1> QED
  BY <1>4, <1>6, <1>7, <1>11 DEF LockInv, Lock

(* It is an invariant. *)
LEMMA LockAlways ==
  ASSUME ScsiRare = {}
  PROVE  ScsiSpec => []LockInv
<1>1. ScsiInit => LockInv
  BY LockBegins
<1>2. LockInv /\ [ScsiNext]_scsiVars => LockInv'
  BY LockKept
<1> QED
  BY <1>1, <1>2, PTL DEF ScsiSpec

(* A chip that is at work with its timer off waits for the program, the DMA  *)
(* or the reading of a cause.                                                *)
LEMMA NeverStands ==
  ASSUME NEW s, NEW p, InStep(s, p), s.chip = "initiator", s.state # "idle", s.timer = Off
  PROVE  \/ s.state = "wait req" /\ s.mint
         \/ s.state = "in drq" /\ s.full /\ (IF s.dma THEN s.dataReq ELSE p.left > 0)
         \/ s.state = "out drq" /\ ~s.full /\ (IF s.dma THEN s.dataReq ELSE p.left > 0)
<1>1. 0 # Off
  BY DEF Off
<1>2. Connected(s, p) /\ s.dataReq = s.dreq
  BY DEF InStep, Normal, Unconnected
<1>3. s.timer \notin {0}
  BY <1>1
<1>4. WaitsReq(s, p) \/ InFull(s, p) \/ OutWaits(s, p)
  BY <1>2, <1>3, Zenon DEF Connected, Chip, Resting, CommandLoaded, Begins, InReq, InEmpty, InAck,
     OutReq, OutFull, OutAck, OutPad
<1>5. CASE WaitsReq(s, p)
  BY <1>5, Zenon DEF WaitsReq, Chip
<1>6. CASE InFull(s, p)
  <2>1. s.state = "in drq" /\ s.full /\ (IF s.dma THEN s.dreq ELSE p.left > 0)
    BY <1>6, Zenon DEF InFull, Chip
  <2> QED
    BY <1>2, <2>1, Zenon
<1>7. CASE OutWaits(s, p)
  <2>1. s.state = "out drq" /\ ~s.full /\ (IF s.dma THEN s.dreq ELSE p.left > 0)
    BY <1>7, Zenon DEF OutWaits, Chip
  <2> QED
    BY <1>2, <2>1, Zenon
<1> QED
  BY <1>4, <1>5, <1>6, <1>7

(* A tick that TickNeeded() leaves out would do nothing. *)
LEMMA SkipsNothing ==
  ASSUME NEW s, ~TickNeeded(s)
  PROVE  Tick(s) = s
<1>1. s.timer = Off /\ ~s.tTimer /\ (~s.active \/ (~s.intNcr /\ ~(s.dmaOn /\ s.dataReq)))
  BY DEF TickNeeded
<1>2. NcrClock(s) = s /\ TargetClock(s) = s
  BY <1>1, Sleeps DEF TargetClock
<1>3. GoState(s) = s
  BY <1>1 DEF GoState
<1> QED
  BY <1>2, <1>3 DEF Tick

(* All bytes have arrived when the target reports its status. *)
LEMMA StatusCounts ==
  ASSUME NEW s, NEW p, InStep(s, p), Phase(s) = Status
  PROVE  (IF s.plan = <<>> THEN 0 ELSE IF s.plan[1].act = "in" THEN s.got ELSE s.taken)
           = IF s.plan = <<>> THEN 0 ELSE s.plan[1].size
<1>1. s.plan \in Plans /\ (Connected(s, p) \/ Unconnected(s, p))
  BY DEF InStep, Typed, Normal
<1>2. ~Unconnected(s, p)
  <2>1. ASSUME Unconnected(s, p) PROVE s.tLines \subseteq {"BSY"}
       /\ s.nLines \subseteq {"BSY", "SEL", "ATN"}
    <3>1. CASE Idles(s, p) \/ Chosen(s, p)
      BY <3>1, Zenon DEF Idles, Chosen, AtRest
    <3>2. CASE Arbitrates(s, p)
      <4>1. AtRest(s, "idle", {}) /\ s.nLines \in {{}, {"BSY"}, {"BSY", "SEL"}}
        BY <3>2, Zenon DEF Arbitrates, Selects
      <4> QED
        BY <4>1 DEF AtRest
    <3>3. CASE Awaits(s, p)
      <4>1. s.nLines \in {{"SEL"}, {"ATN", "SEL"}} /\ (AtRest(s, "idle", {})
           \/ AtRest(s, "selected", {"BSY"}))
        BY <3>3, Zenon DEF Awaits, Selects
      <4> QED
        BY <4>1 DEF AtRest
    <3> QED
      BY <2>1, <3>1, <3>2, <3>3 DEF Unconnected
  <2>2. ASSUME s.tLines \subseteq {"BSY"}, s.nLines \subseteq {"BSY", "SEL", "ATN"}
       PROVE Phase(s) = {}
    BY <2>2 DEF Phase, Ctrl, PhaseLines
  <2>3. Status # {}
    BY DEF Status
  <2> QED
    BY <2>1, <2>2, <2>3
<1>3. (\E n : Asking(s, n)) \/ Holding(s)
  BY <1>1, <1>2, Zenon DEF Connected, Resting, WaitsReq, CommandLoaded, Starts, Begins, InReq,
     InFull, InEmpty, InAck,
                     OutReq, OutWaits, OutFull, OutAck, OutPad
<1>4. \E n : Kept(s, n)
  BY <1>3 DEF Asking, Holding
<1>5. (Reads(s) => s.got = Size(s)) /\ (Writes(s) => s.taken = Size(s))
  BY <1>4 DEF Kept
<1>6. s.plan # <<>> => s.plan[1].act \in {"in", "out"}
  BY <1>1 DEF Plans
<1> QED
  BY <1>5, <1>6 DEF Reads, Writes, Size

(* A transfer of the SCSI adapter never stands still, no tick that would do  *)
(* something is skipped, and bytes arrive once each and in order, all of     *)
(* them before the status: for every number of bytes of command and data, of *)
(* a program that does not clear the adapter with a data request standing    *)
(* nor reset the bus alone (part of DataInOrder).                            *)
THEOREM ScsiBytesInOrder ==
  ASSUME ScsiRare = {}
  PROVE  ScsiSpec => [](ScsiEnds /\ ScsiInOrder)
<1>1. ASSUME LockInv PROVE ScsiEnds
  <2>1. SkippedTicksAreIdle
    BY SkipsNothing DEF SkippedTicksAreIdle
  <2>2. ASSUME prog.at = "wait" PROVE InStep(scsi, prog)
    BY <1>1, <2>2, WhereInStep DEF LockInv
  <2>3. ScsiMoves
    BY <2>2, NeverStands, Zenon DEF ScsiMoves
  <2> QED
    BY <2>1, <2>3 DEF ScsiEnds
<1>2. ASSUME LockInv PROVE ScsiInOrder
  <2>1. Bad \notin {scsi.got, scsi.taken}
    <3>1. scsi.got \in Nat /\ scsi.taken \in Nat
      BY <1>2 DEF LockInv, Lock, Typed
    <3> QED
      BY <3>1 DEF Bad
  <2>2. ASSUME prog.at \notin {"recover", "drain"} PROVE InStep(scsi, prog)
    BY <1>2, <2>2, WhereInStep DEF LockInv
  <2> QED
    BY <2>1, <2>2, StatusCounts DEF ScsiInOrder
<1> QED
  BY <1>1, <1>2, LockAlways, PTL
=============================================================================
