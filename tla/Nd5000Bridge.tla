---------------------------- MODULE Nd5000Bridge ----------------------------
(***************************************************************************)
(* The ND-5000 CPUs behind the MF-bus bridge.  Each CPU executes on a host *)
(* thread of its own; the ND-100's thread walks their message queues,      *)
(* loads, starts, preempts and resets them.  A host thread that stops      *)
(* takes the engine lock, parks and answers SINTRAN; the ND-100's thread   *)
(* holds the same lock while it walks a queue or delivers a frame.         *)
(*                                                                         *)
(* A process is not bound to a CPU, so its newest registers are in its     *)
(* context block, on a CPU, or both: newest[p] says where.  SINTRAN, the   *)
(* queue's servicer and the runner are external and are modelled from the  *)
(* calls made to them.  The lock is held over more than one step by the    *)
(* ND-100's thread only, so who holds it is read off nd.                   *)
(***************************************************************************)
EXTENDS Naturals, FiniteSets

CONSTANTS
  Nd5000s,      \* the CPUs
  Processes,    \* SINTRAN's processes
  Nobody,       \* no CPU, or no process
  DeferredMax,  \* MFBUS_DEFERRED_MAX
  FirstCpus, FirstProcesses,  \* where the first message may go, and for whom
  MaxMessages,  \* bound: messages SINTRAN sends, a START counting twice
  MaxKicks,     \* bound: kicks, resets, starts by hand and accesses to memory
  LiveResets    \* whether SINTRAN resets a CPU that executes

ASSUME BridgeAssumption ==
  /\ Nd5000s # {} /\ Nobody \notin Nd5000s \cup Processes /\ "block" \notin Nd5000s
  /\ FirstCpus \subseteq Nd5000s /\ FirstProcesses \subseteq Processes
  /\ DeferredMax \in Nat /\ LiveResets \in BOOLEAN

VARIABLES
  runner,     \* ndbus_runner_state of each CPU's host thread
  at,         \* where in mfbus_cpu_step the thread is
  parked, leaving, loaded, walkAgain, deferred,   \* MfbusCpuSlot
  owner, preempted,                               \* s_proc_owner, s_proc[].preempted
  newest,     \* where the newest registers of a process are
  sta, micfu, cpuOf,    \* N5STA, MICFU and 5CPUN of each process's message
  untold,     \* processes that stopped without SINTRAN being told
  mixed,      \* history: processes of which two copies pass for the newest
  bell,       \* the doorbell X5ACT of each CPU's mailbox is rung
  kick,       \* s_pending_kick
  work,       \* mfbus_tick_work
  nd,         \* what the ND-100's thread is doing for which CPU
  sent, kicked

slotVars == <<parked, leaving, loaded, walkAgain, deferred>>
procVars == <<owner, preempted, newest, mixed>>
msgVars == <<sta, micfu, cpuOf, untold>>
bridgeVars == <<runner, at, slotVars, procVars, msgVars, bell, kick, work, nd, sent, kicked>>

Idle == [do |-> "idle", cpu |-> Nobody, left |-> {}]
Live == {"running", "stopping"}

BridgeInit ==
  /\ runner = [c \in Nd5000s |-> "idle"] /\ at = [c \in Nd5000s |-> "step"]
  /\ parked = [c \in Nd5000s |-> FALSE] /\ leaving = [c \in Nd5000s |-> FALSE]
  /\ loaded = [c \in Nd5000s |-> Nobody] /\ walkAgain = [c \in Nd5000s |-> FALSE]
  /\ deferred = [c \in Nd5000s |-> {}]
  /\ owner = [p \in Processes |-> Nobody] /\ preempted = [p \in Processes |-> FALSE]
  /\ newest = [p \in Processes |-> {"block"}] /\ mixed = {}
  /\ sta = [p \in Processes |-> "none"] /\ micfu = [p \in Processes |-> "start"]
  /\ cpuOf \in [Processes -> {CHOOSE c \in Nd5000s : TRUE}] /\ untold = {}
  /\ bell = [c \in Nd5000s |-> FALSE] /\ kick = [c \in Nd5000s |-> FALSE]
  /\ work = {} /\ nd = Idle /\ sent = 0 /\ kicked = 0

BridgeTypeOK ==
  /\ runner \in [Nd5000s -> {"idle", "stopped"} \cup Live]
  /\ at \in [Nd5000s -> {"step", "report", "undo", "flag", "leave"}]
  /\ loaded \in [Nd5000s -> Processes \cup {Nobody}]
  /\ deferred \in [Nd5000s -> SUBSET Processes]
  /\ owner \in [Processes -> Nd5000s \cup {Nobody}]
  /\ newest \in [Processes -> SUBSET (Nd5000s \cup {"block"})]
  /\ sta \in [Processes -> {"none", "tond500", "waiting", "answer", "refused"}]
  /\ work \subseteq {"KICK", "DEFER"}
-----------------------------------------------------------------------------
(* Registers. *)

EngineLocked == nd.do \in {"walk", "reset", "clear"}

\* mfbus_owns_process: this CPU executed the process last, or nobody has.
BadOwns(c, p) == TRUE
Owns(c, p) == owner[p] \in {Nobody, c}

\* mfbus_save_context: the CPU's copy overwrites the block.
Saved(where, c, p) ==
  [where EXCEPT ![p] = IF c \in @ THEN @ \cup {"block"} ELSE @ \ {"block"}]

\* mfbus_load_context: the block overwrites whatever the CPU held.
Loaded(where, c, p) ==
  [q \in Processes |-> IF q = p /\ "block" \in where[q] THEN where[q] \cup {c}
                       ELSE where[q] \ {c}]

\* mfbus_switch_to_process: nothing when p is loaded and not stale; otherwise the
\* owned process is saved (a stale one is not) and p comes from its block.
Switched(c, p) ==
  LET q == loaded[c]
      owned == q # Nobody /\ Owns(c, q)
  IN  IF owned /\ q = p THEN newest
      ELSE Loaded(IF owned THEN Saved(newest, c, q) ELSE newest, c, p)
\* A CPU holds a copy of p that it takes for its own, and will not load p again.
Holds(c, p) == loaded[c] = p /\ Owns(c, p)
-----------------------------------------------------------------------------
(* The host thread of a CPU. *)

Stepping(c) == runner[c] = "running" /\ at[c] = "step"

\* mfbus_cpu_step: an instruction of the process.
HostStep(c) ==
  /\ Stepping(c) /\ ~parked[c] /\ loaded[c] # Nobody
  /\ newest' = [newest EXCEPT ![loaded[c]] = {c}]
  /\ UNCHANGED <<runner, at, slotVars, owner, preempted, mixed, msgVars, bell, kick, work, nd, sent, kicked>>

\* A monitor call or a captured trap: the context is saved, and the thread goes
\* on to tell SINTRAN, for which it needs the engine lock.
HostStop(c) ==
  /\ Stepping(c) /\ ~parked[c] /\ loaded[c] # Nobody
  /\ newest' = Saved(newest, c, loaded[c])
  /\ at' = [at EXCEPT ![c] = "report"]
  /\ UNCHANGED <<runner, slotVars, owner, preempted, mixed, msgVars, bell, kick, work, nd, sent, kicked>>

\* Parked before the answer goes out, all of it under the engine lock.
HostPark(c) ==
  /\ at[c] = "report" /\ ~EngineLocked
  /\ parked' = [parked EXCEPT ![c] = TRUE] /\ leaving' = [leaving EXCEPT ![c] = TRUE]
  /\ sta' = [sta EXCEPT ![loaded[c]] = "answer"]
  /\ at' = [at EXCEPT ![c] = "leave"]
  /\ UNCHANGED <<runner, loaded, walkAgain, deferred, procVars, micfu, cpuOf, untold, bell, kick, work, nd, sent, kicked>>

\* The servicer refuses the answer.  A monitor call takes the park back before it
\* gives up the lock, and goes on; a trap takes it back afterwards (HostUndo), and
\* the thread ends with SINTRAN not told.
HostRefused(c) ==
  /\ at[c] = "report" /\ ~EngineLocked
  /\ \/ at' = [at EXCEPT ![c] = "step"] /\ UNCHANGED <<parked, leaving, untold>>
     \/ /\ at' = [at EXCEPT ![c] = "undo"] /\ untold' = untold \cup {loaded[c]}
        /\ parked' = [parked EXCEPT ![c] = TRUE] /\ leaving' = [leaving EXCEPT ![c] = TRUE]
  /\ UNCHANGED <<runner, loaded, walkAgain, deferred, procVars, sta, micfu, cpuOf, bell, kick, work, nd, sent, kicked>>

HostUndo(c) ==
  /\ at[c] = "undo" /\ at' = [at EXCEPT ![c] = "leave"]
  /\ parked' = [parked EXCEPT ![c] = FALSE]
  /\ UNCHANGED <<runner, leaving, loaded, walkAgain, deferred, procVars, msgVars, bell, kick, work, nd, sent, kicked>>

\* The step returns false with nothing to report: a stop that is no captured
\* trap, a CPU that executes no process, or one found parked.
HostQuit(c) ==
  /\ Stepping(c)
  /\ at' = [at EXCEPT ![c] = "leave"] /\ leaving' = [leaving EXCEPT ![c] = TRUE]
  /\ untold' = untold \cup ({loaded[c]} \ {Nobody})
  /\ UNCHANGED <<runner, parked, loaded, walkAgain, deferred, procVars, sta, micfu, cpuOf, bell, kick, work, nd, sent, kicked>>

\* The thread ends: after a step that returned false, or because it was asked to.
HostEnd(c) ==
  /\ runner[c] \in Live /\ (at[c] = "leave" \/ (at[c] = "step" /\ runner[c] = "stopping"))
  /\ runner' = [runner EXCEPT ![c] = "stopped"] /\ at' = [at EXCEPT ![c] = "step"]
  /\ UNCHANGED <<slotVars, procVars, msgVars, bell, kick, work, nd, sent, kicked>>

\* mfbus_kick_would_preempt: a snapshot, without the lock.  It may find parked a
\* thread that reports a stop and takes the park back under the lock.
WouldPreempt(c) == ~parked[c] /\ loaded[c] # Nobody /\ runner[c] = "running"
SeemsParked(c) == ~WouldPreempt(c) \/ at[c] = "report"

\* mfbus_ext_write: a kick for another CPU that executes is left to the ND-100's
\* thread; any other goes out under the engine lock and makes the station look at
\* its queue.
HostKick(c, d) ==
  /\ Stepping(c) /\ ~parked[c] /\ kicked < MaxKicks
  /\ \/ /\ WouldPreempt(d) /\ d # c
        /\ kick' = [kick EXCEPT ![d] = TRUE] /\ at' = [at EXCEPT ![c] = "flag"]
        /\ UNCHANGED bell
     \/ /\ SeemsParked(d) \/ d = c
        /\ ~EngineLocked
        /\ bell' = [bell EXCEPT ![d] = TRUE] /\ UNCHANGED <<kick, at>>
  /\ kicked' = kicked + 1
  /\ UNCHANGED <<runner, slotVars, procVars, msgVars, work, nd, sent>>

HostFlag(c) ==
  /\ at[c] = "flag"
  /\ work' = work \cup {"KICK"} /\ at' = [at EXCEPT ![c] = "step"]
  /\ UNCHANGED <<runner, slotVars, procVars, msgVars, bell, kick, nd, sent, kicked>>
-----------------------------------------------------------------------------
(* SINTRAN, on the ND-100's thread: it queues a message and rings, or kicks. *)

\* A START comes with a new context block, also for a process whose registers a
\* CPU still holds; a continue follows the report of a stop.
SintranSends(p, c, f) ==
  /\ nd = Idle /\ sent' = sent + (IF f = "start" THEN 2 ELSE 1) /\ sent' <= MaxMessages
  /\ sent = 0 => c \in FirstCpus /\ p \in FirstProcesses
  /\ sta[p] \in IF f = "start" THEN {"none", "answer", "refused"} ELSE {"answer"}
  /\ sta' = [sta EXCEPT ![p] = "tond500"] /\ micfu' = [micfu EXCEPT ![p] = f]
  /\ cpuOf' = [cpuOf EXCEPT ![p] = c]
  /\ IF f = "cont" THEN UNCHANGED <<newest, mixed>>
     ELSE /\ newest' = [newest EXCEPT ![p] = {"block"}]
          /\ mixed' = IF \E d \in Nd5000s : Holds(d, p) THEN mixed \cup {p} ELSE mixed \ {p}
  /\ untold' = untold \ {p}
  /\ bell' = [bell EXCEPT ![c] = TRUE]
  /\ UNCHANGED <<runner, at, slotVars, owner, preempted, kick, work, nd, kicked>>

\* mfbus_card_transmit of a kick.
SintranKicks(c) ==
  /\ nd = Idle /\ kicked < MaxKicks /\ kicked' = kicked + 1
  /\ nd' = [do |-> "kick", cpu |-> c, left |-> {}]
  /\ UNCHANGED <<runner, at, slotVars, procVars, msgVars, bell, kick, work, sent>>
-----------------------------------------------------------------------------
(* The preempting kick, on the ND-100's thread and without the engine lock. *)

\* The station gets its kick and looks at its queue; the tick goes on with the
\* other CPUs' kicks.
Delivered(c, left) ==
  /\ bell' = [bell EXCEPT ![c] = TRUE]
  /\ nd' = IF left = {} THEN Idle ELSE [do |-> "kicks", cpu |-> Nobody, left |-> left]

KickMissed ==
  /\ nd.do = "kick" /\ SeemsParked(nd.cpu) /\ Delivered(nd.cpu, nd.left)
  /\ UNCHANGED <<runner, at, slotVars, procVars, msgVars, kick, work, sent, kicked>>

KickSeen ==
  /\ nd.do = "kick" /\ WouldPreempt(nd.cpu) /\ nd' = [nd EXCEPT !.do = "stop"]
  /\ UNCHANGED <<runner, at, slotVars, procVars, msgVars, bell, kick, work, sent, kicked>>

\* ndbus_runner_stop_and_join asks, and waits.
AskStop(from, to) ==
  /\ nd.do = from /\ nd' = [nd EXCEPT !.do = to]
  /\ runner' = [runner EXCEPT ![nd.cpu] = IF @ = "running" THEN "stopping" ELSE @]
  /\ UNCHANGED <<at, slotVars, procVars, msgVars, bell, kick, work, sent, kicked>>

\* It has ended.  If it parked by itself there is nothing to preempt; otherwise
\* its process is saved and its message goes back into the queue.
Preempt ==
  LET c == nd.cpu
      p == loaded[c]
  IN  /\ nd.do = "join" /\ runner[c] \notin Live
      /\ runner' = [runner EXCEPT ![c] = "idle"]
      /\ IF parked[c] THEN UNCHANGED <<parked, leaving, preempted, newest, sta, untold>>
         ELSE /\ leaving' = [leaving EXCEPT ![c] = FALSE]
              /\ newest' = Saved(newest, c, p)
              /\ parked' = [parked EXCEPT ![c] = TRUE]
              /\ preempted' = [preempted EXCEPT ![p] = TRUE]
              /\ sta' = [sta EXCEPT ![p] = IF @ = "waiting" THEN "tond500" ELSE @]
              /\ untold' = untold \ {p}
      /\ Delivered(c, nd.left)
      /\ UNCHANGED <<at, loaded, walkAgain, deferred, owner, mixed, micfu, cpuOf, kick, work, sent, kicked>>
-----------------------------------------------------------------------------
(* mfbus_service_nd5000_mailboxes. *)

\* The flag is cleared before the kicks are read.
TickKicks ==
  /\ nd = Idle /\ "KICK" \in work /\ work' = work \ {"KICK"}
  /\ nd' = [do |-> "kicks", cpu |-> Nobody, left |-> Nd5000s]
  /\ UNCHANGED <<runner, at, slotVars, procVars, msgVars, bell, kick, sent, kicked>>

TickKick(c) ==
  /\ nd.do = "kicks" /\ c \in nd.left /\ kick' = [kick EXCEPT ![c] = FALSE]
  /\ LET left == nd.left \ {c}
     IN  nd' = IF kick[c] THEN [do |-> "kick", cpu |-> c, left |-> left]
               ELSE IF left = {} THEN Idle ELSE [nd EXCEPT !.left = left]
  /\ UNCHANGED <<runner, at, slotVars, procVars, msgVars, bell, work, sent, kicked>>

\* mfbus_release_deferred: messages that waited for a CPU whose thread is gone are
\* queued again, and its doorbell rings.
Released == {c \in Nd5000s : (deferred[c] # {} \/ walkAgain[c]) /\ runner[c] \notin Live}
BadRung(b, cs) == b
Rung(b, cs) == [c \in Nd5000s |-> b[c] \/ c \in cs]

ReleaseDeferred ==
  /\ nd = Idle /\ "DEFER" \in work
  /\ sta' = [p \in Processes |-> IF \E c \in Released : p \in deferred[c] THEN "tond500" ELSE sta[p]]
  /\ deferred' = [c \in Nd5000s |-> IF c \in Released THEN {} ELSE deferred[c]]
  /\ walkAgain' = [c \in Nd5000s |-> walkAgain[c] /\ c \notin Released]
  /\ bell' = Rung(bell, Released)
  /\ work' = IF \E c \in Nd5000s \ Released : deferred[c] # {} \/ walkAgain[c]
             THEN work ELSE work \ {"DEFER"}
  /\ UNCHANGED <<runner, at, parked, leaving, loaded, procVars, micfu, cpuOf, untold, kick, nd, sent, kicked>>

\* The doorbell of an armed station: the queue is walked under the engine lock.
TickDoorbell(c) ==
  /\ nd = Idle /\ bell[c] /\ bell' = [bell EXCEPT ![c] = FALSE]
  /\ nd' = [do |-> "walk", cpu |-> c, left |-> {}]
  /\ UNCHANGED <<runner, at, slotVars, procVars, msgVars, kick, work, sent, kicked>>
-----------------------------------------------------------------------------
(* The walk. *)

Queue(c) == {p \in Processes : sta[p] = "tond500" /\ cpuOf[p] = c}

\* mfbus_cpu_is_executing, asked before each message.
IsExecuting(c) == ~parked[c] /\ loaded[c] # Nobody /\ runner[c] \in Live

WalkEnds ==
  LET c == nd.cpu
      busy == Queue(c) # {} /\ IsExecuting(c)
  IN  /\ nd.do = "walk" /\ (Queue(c) = {} \/ IsExecuting(c)) /\ nd' = Idle
      /\ walkAgain' = IF busy THEN [walkAgain EXCEPT ![c] = TRUE] ELSE walkAgain
      /\ work' = IF busy THEN work \cup {"DEFER"} ELSE work
      /\ UNCHANGED <<runner, at, parked, leaving, loaded, deferred, procVars, msgVars, bell, kick, sent, kicked>>

\* mfbus_quiesce_runner: a thread that is leaving is waited for.
BadQuiet(c) == TRUE
Quiet(c) == leaving[c] => runner[c] \notin Live

\* The runner after the wait: joined if it had marked itself.
Runner(c) == IF leaving[c] /\ runner[c] \notin Live THEN "idle" ELSE runner[c]

\* A message mfbus_start_process has in hand.
Takes(p) ==
  /\ nd.do = "walk" /\ p \in Queue(nd.cpu) /\ ~IsExecuting(nd.cpu) /\ Quiet(nd.cpu)
  /\ UNCHANGED <<walkAgain, micfu, cpuOf, untold, bell, kick, nd, sent, kicked>>

\* The mark is taken back once the thread is joined.
Joined(c) == leaving' = [leaving EXCEPT ![c] = @ /\ runner[c] \in Live]

\* mfbus_resume_runner: nothing for a thread that lives, otherwise a new one,
\* and every other CPU's copy of the process is stale.
Resume(c, p) ==
  /\ loaded' = [loaded EXCEPT ![c] = p]
  /\ IF Runner(c) \in Live THEN UNCHANGED <<runner, at, owner>>
     ELSE /\ runner' = [runner EXCEPT ![c] = "running"] /\ at' = [at EXCEPT ![c] = "step"]
          /\ owner' = [owner EXCEPT ![p] = c]
  /\ Joined(c)

\* The process is resumed: one that was preempted, whatever its message says, or
\* one that is continued.  Either way the CPU must be parked.
TakesResume(p) ==
  LET c == nd.cpu
  IN  /\ Takes(p) /\ parked[c]
      /\ preempted[p] \/ micfu[p] = "cont"
      /\ newest' = Switched(c, p)
      /\ preempted' = [preempted EXCEPT ![p] = FALSE]
      /\ parked' = [parked EXCEPT ![c] = FALSE]
      /\ sta' = [sta EXCEPT ![p] = "waiting"]
      /\ Resume(c, p)
      /\ UNCHANGED <<deferred, mixed, work>>

\* mfbus_park_on_answer_copy_fault: the answer was applied to the registers, the
\* copy into the process's memory faults, and the CPU is parked on that trap.  It
\* does not become the owner.
TakesCopyFault(p) ==
  LET c == nd.cpu
  IN  /\ Takes(p) /\ parked[c] /\ ~preempted[p] /\ micfu[p] = "cont"
      /\ mixed' = IF \E d \in Nd5000s \ {c} : Holds(d, p) THEN mixed \cup {p} ELSE mixed
      /\ newest' = Saved([Switched(c, p) EXCEPT ![p] = {c}], c, p)
      /\ loaded' = [loaded EXCEPT ![c] = p]
      /\ sta' = [sta EXCEPT ![p] = "answer"]
      /\ runner' = [runner EXCEPT ![c] = Runner(c)] /\ Joined(c)
      /\ UNCHANGED <<at, parked, deferred, owner, preempted, work>>

\* Taken from a CPU that executes something that is no process: it waits.
TakesDefer(p) ==
  LET c == nd.cpu
  IN  /\ Takes(p) /\ ~parked[c] /\ Runner(c) \in Live
      /\ Cardinality(deferred[c]) < DeferredMax
      /\ deferred' = [deferred EXCEPT ![c] = @ \cup {p}]
      /\ sta' = [sta EXCEPT ![p] = "waiting"] /\ work' = work \cup {"DEFER"}
      /\ UNCHANGED <<runner, at, parked, leaving, loaded, procVars>>

\* A START ends the residency of the parked process, loads and runs.
TakesStart(p) ==
  LET c == nd.cpu
  IN  /\ Takes(p) /\ micfu[p] = "start" /\ ~(preempted[p] /\ parked[c])
      /\ parked[c] \/ Runner(c) \notin Live
      /\ newest' = Loaded(newest, c, p)
      /\ mixed' = IF "block" \in newest[p] THEN mixed \ {p} ELSE mixed
      /\ parked' = [parked EXCEPT ![c] = FALSE]
      /\ sta' = [sta EXCEPT ![p] = "waiting"]
      /\ Resume(c, p)
      /\ UNCHANGED <<preempted, deferred, work>>

\* Answered by the servicer as not taken: a continue for a CPU that is not
\* parked, a START whose block has no entry point, a full table.
TakesRefuse(p) ==
  LET c == nd.cpu
      start == micfu[p] = "start"
  IN  /\ Takes(p)
      /\ \/ ~start /\ ~parked[c] /\ Runner(c) \notin Live
         \/ /\ start /\ ~(preempted[p] /\ parked[c]) /\ (parked[c] \/ Runner(c) \notin Live)
         \/ ~parked[c] /\ Runner(c) \in Live /\ Cardinality(deferred[c]) >= DeferredMax
      /\ sta' = [sta EXCEPT ![p] = "refused"]
      /\ parked' = [parked EXCEPT ![c] = @ /\ ~start]
      /\ runner' = [runner EXCEPT ![c] = IF start /\ parked[c] THEN "idle" ELSE Runner(c)]
      /\ Joined(c)
      /\ UNCHANGED <<at, loaded, deferred, procVars, work>>

\* mfbus_load_named_process: a message that reads or writes the memory of p has a
\* parked CPU switch to p; it is answered in the same walk.
TakesCopy(p) ==
  LET c == nd.cpu
  IN  /\ nd.do = "walk" /\ ~IsExecuting(c) /\ Quiet(c)
      /\ kicked < MaxKicks /\ kicked' = kicked + 1
      /\ IF parked[c] THEN newest' = Switched(c, p) /\ loaded' = [loaded EXCEPT ![c] = p]
         ELSE UNCHANGED <<newest, loaded>>
      /\ runner' = [runner EXCEPT ![c] = Runner(c)] /\ Joined(c)
      /\ UNCHANGED <<at, parked, walkAgain, deferred, owner, preempted, mixed, msgVars, bell, kick, work, nd, sent>>
-----------------------------------------------------------------------------
(* mfbus_reset_cpu_to_idle: a master clear, delivered under the engine lock. *)

SintranResets(c) ==
  /\ nd = Idle /\ kicked < MaxKicks /\ kicked' = kicked + 1
  /\ LiveResets \/ runner[c] \notin Live
  /\ nd' = [do |-> "clear", cpu |-> c, left |-> {}]
  /\ UNCHANGED <<runner, at, slotVars, procVars, msgVars, bell, kick, work, sent>>

\* Once the thread is joined the CPU forgets its process, and SINTRAN the
\* messages it had for this CPU.
Reset ==
  LET c == nd.cpu
      forgets(p) == owner[p] \in {Nobody, c}
  IN  /\ nd.do = "reset" /\ runner[c] \notin Live
      /\ runner' = [runner EXCEPT ![c] = "idle"] /\ leaving' = [leaving EXCEPT ![c] = FALSE]
      /\ deferred' = [deferred EXCEPT ![c] = {}] /\ parked' = [parked EXCEPT ![c] = FALSE]
      /\ loaded' = [loaded EXCEPT ![c] = Nobody] /\ walkAgain' = [walkAgain EXCEPT ![c] = FALSE]
      /\ preempted' = [p \in Processes |-> preempted[p] /\ ~forgets(p)]
      /\ owner' = [p \in Processes |-> IF forgets(p) THEN Nobody ELSE owner[p]]
      /\ newest' = [p \in Processes |-> newest[p] \ {c}]
      /\ mixed' = mixed \cup {p \in Processes : owner[p] = c /\ \E d \in Nd5000s \ {c} : loaded[d] = p}
      /\ sta' = [p \in Processes |-> IF cpuOf[p] = c THEN "none" ELSE sta[p]]
      /\ nd' = Idle
      /\ UNCHANGED <<at, micfu, cpuOf, untold, bell, kick, work, sent, kicked>>

\* mfbus_start_nd5000 on a context placed by hand: the CPU executes no process.
StartByHand(c) ==
  /\ nd = Idle /\ kicked < MaxKicks /\ kicked' = kicked + 1
  /\ runner[c] = "idle" /\ loaded[c] = Nobody /\ ~parked[c]
  /\ runner' = [runner EXCEPT ![c] = "running"] /\ at' = [at EXCEPT ![c] = "step"]
  /\ UNCHANGED <<slotVars, procVars, msgVars, bell, kick, work, nd, sent>>
-----------------------------------------------------------------------------
(* What a host thread does by itself once a step is decided. *)
HostGoesOn(c) == HostPark(c) \/ HostRefused(c) \/ HostUndo(c) \/ HostEnd(c) \/ HostFlag(c)

Host(c) ==
  HostStep(c) \/ HostStop(c) \/ HostQuit(c) \/ HostGoesOn(c) \/ \E d \in Nd5000s : HostKick(c, d)

\* The tick of the bridge, and what it has begun.
Tick ==
  \/ TickKicks \/ ReleaseDeferred
  \/ \E c \in Nd5000s : TickKick(c) \/ TickDoorbell(c)
  \/ KickMissed \/ KickSeen \/ Preempt \/ AskStop("stop", "join") \/ AskStop("clear", "reset")
  \/ WalkEnds \/ Reset
  \/ \E p \in Processes :
       TakesResume(p) \/ TakesCopyFault(p) \/ TakesDefer(p) \/ TakesStart(p)
       \/ TakesRefuse(p) \/ TakesCopy(p)

Sintran ==
  \/ \E p \in Processes, c \in Nd5000s : \E f \in {"start", "cont"} : SintranSends(p, c, f)
  \/ \E c \in Nd5000s : SintranKicks(c) \/ SintranResets(c) \/ StartByHand(c)

BridgeNext == Tick \/ Sintran \/ \E c \in Nd5000s : Host(c)

(* The ND-100's thread ticks for ever, and a host thread goes on with what it *)
(* has begun; nothing makes a process stop.                                  *)
BridgeSpec ==
  /\ BridgeInit /\ [][BridgeNext]_bridgeVars
  /\ WF_bridgeVars(Tick) /\ \A c \in Nd5000s : WF_bridgeVars(HostGoesOn(c))
-----------------------------------------------------------------------------
(* No work is forgotten.  A message that was taken is being executed by the   *)
(* CPU it was sent to, or waits in its table, or its process stopped in a way *)
(* the code does not report; a CPU with messages waiting has the tick's DEFER *)
(* flag, and a recorded kick the KICK flag, a sender about to set it, or a    *)
(* tick that is about to read it.                                            *)
WorkKept ==
  /\ \A p \in Processes : LET c == cpuOf[p] IN
       sta[p] = "waiting" =>
         p \in untold \cup deferred[c]
         \/ (loaded[c] = p /\ runner[c] \in Live /\ ~parked[c] /\ at[c] # "leave")
         \/ (nd.do \in {"join", "reset"} /\ nd.cpu = c /\ loaded[c] = p /\ ~parked[c])
  /\ \A c \in Nd5000s :
       /\ deferred[c] # {} \/ walkAgain[c] => "DEFER" \in work
       /\ kick[c] => "KICK" \in work \/ (\E d \in Nd5000s : at[d] = "flag") \/ c \in nd.left

(* A CPU executes a process from its newest registers: not from a copy that   *)
(* another CPU's execution made stale, not from a block that was not saved,   *)
(* and never while another CPU executes the same process.  In three cases the *)
(* code itself mixes two copies of a process up, and then nothing is said of  *)
(* it until it is started from its block: a new START for a process of which  *)
(* a CPU holds a copy that it takes for its own, a fault in the answer copy   *)
(* while another CPU does, and a reset of its owner while another holds one.  *)
ResumesNewest ==
  \A c \in Nd5000s : runner[c] = "running" /\ at[c] = "step" /\ ~parked[c]
                     /\ loaded[c] \notin mixed \cup {Nobody} => c \in newest[loaded[c]]

(* A queued message is taken, provided its CPU does stop now and then.        *)
MessageServed ==
  \A p \in Processes, c \in Nd5000s :
    []<>(runner[c] \notin Live) => (p \in Queue(c) ~> p \notin Queue(c))

(* Whoever waits for a CPU's thread does not hold the lock which that thread  *)
(* is waiting for.                                                           *)
NoWaitCycle == ~(nd.do = "reset" /\ at[nd.cpu] = "report")
=============================================================================
