---------------------------- MODULE TelnetServer ----------------------------
(***************************************************************************)
(* The telnet server of src/src/ndlib/telnetserver.c: the accept thread    *)
(* with its list of pending clients, one thread per connected client, and  *)
(* the main thread, which runs the CPU, the F12 menu (screenmenu.c) and    *)
(* the shutdown.                                                           *)
(*                                                                         *)
(* A connection is named by its client; descriptor numbers are not reused. *)
(* What a client types is "a choice of terminal", "quit" or something      *)
(* without effect.  Output to the client and the telnet option states are  *)
(* left out, and so is what it types once it has a terminal (it waits in   *)
(* TCP or goes to the terminal): they touch nothing else.                  *)
(***************************************************************************)
EXTENDS Naturals, Sequences

CONSTANTS Terminals,    \* registered terminals, by number
          Menu,         \* terminals the operator claims and releases: local at first
          Clients,      \* connections that are ever made
          NoClient,     \* ND_INVALID_SOCKET
          MaxPending    \* TELNET_MAX_PENDING

ASSUME TelnetAssumption ==
  /\ Terminals \subseteq Nat \ {0} /\ Menu \subseteq Terminals
  /\ NoClient \notin Clients /\ MaxPending \in Nat \ {0}

VARIABLES
  clientFd,   \* per terminal: the connected client
  active,     \* per terminal: clientThreadActive
  handle,     \* per terminal: clientThread, the client it was started for
  local,      \* per terminal: locallyActive
  missing,    \* per terminal: carrier missing
  sock,       \* per client: the server's socket
  peer,       \* per client: what there is to read, "gone" for end of file
  old,        \* clients that have been pending for 60 seconds
  pending,    \* the pending list: [fd, shown]
  apc,        \* the accept thread
  polled,     \* its pfds: the pending clients it polls
  ready,      \* the places in pfds with input, still to be handled
  knock,      \* the listening socket has a connection
  target,     \* the terminal being assigned
  thread,     \* per client: its thread
  on,         \* per client: the terminal its thread serves
  mpc, mt,    \* the main thread, the terminal it is busy with
  mj          \* and the thread it joins there

terms == <<clientFd, active, handle, local, missing>>
conns == <<sock, peer, old>>
acc == <<apc, polled, ready, knock, target>>
thr == <<thread, on>>
main == <<mpc, mt, mj>>
vars == <<terms, conns, pending, acc, thr, main>>

BadExiting == mpc \in {"close", "join", "stopped"}    \* set after the accept thread is joined
Exiting == mpc \in {"stop", "close", "join", "stopped"}     \* shouldExit, and the wake-up byte
Locked == apc \in {"input", "assign", "carrier", "spawn"}   \* pendingMutex is the accept thread's
Free == {t \in Terminals : clientFd[t] = NoClient /\ ~local[t]}

Without(s, i) == [k \in 1 .. (Len(s) - 1) |-> IF k < i THEN s[k] ELSE s[k + 1]]
\* What is left of the list s without those who have been there too long, in its order.
Unexpired(s) == {i \in DOMAIN s : s[i].fd \notin old}
Rising(f) == \A j, k \in DOMAIN f : j < k => f[j] < f[k]
Places(s) ==
  {f \in UNION {[1 .. n -> Unexpired(s)] : n \in 0 .. Len(s)} :
     Rising(f) /\ \A i \in Unexpired(s) : \E k \in DOMAIN f : f[k] = i}
Fds(s) == {s[i].fd : i \in DOMAIN s}
Joined(t) == active[t] => thread[handle[t]] = "ended"       \* pthread_join() returns
Close(cs) ==
  /\ sock' = [c \in Clients |-> IF c \in cs THEN "closed" ELSE sock[c]]
  /\ peer' = [c \in Clients |-> IF c \in cs THEN "quiet" ELSE peer[c]] /\ old' = old \ cs

Init ==
  /\ clientFd = [t \in Terminals |-> NoClient] /\ handle = clientFd
  /\ active = [t \in Terminals |-> FALSE] /\ missing = active
  /\ local = [t \in Terminals |-> t \in Menu]
  /\ sock = [c \in Clients |-> "none"] /\ peer = [c \in Clients |-> "quiet"] /\ old = {}
  /\ pending = <<>> /\ apc = "top" /\ polled = <<>> /\ ready = {} /\ knock = FALSE
  /\ target = 0
  /\ thread = [c \in Clients |-> "none"] /\ on = [c \in Clients |-> 0]
  /\ mpc = "run" /\ mt = 0 /\ mj = NoClient
-----------------------------------------------------------------------------
\* The clients and the clock.
Connect(c) ==
  /\ sock[c] = "none" /\ ~Exiting /\ sock' = [sock EXCEPT ![c] = "queued"]
  /\ UNCHANGED <<terms, peer, old, pending, acc, thr, main>>

Types(c) ==
  /\ sock[c] = "open" /\ thread[c] = "none" /\ peer[c] = "quiet" /\ peer' = [peer EXCEPT ![c] = "typed"]
  /\ UNCHANGED <<terms, sock, old, pending, acc, thr, main>>

HangsUp(c) ==
  /\ sock[c] \in {"queued", "open"} /\ peer[c] # "gone" /\ peer' = [peer EXCEPT ![c] = "gone"]
  /\ UNCHANGED <<terms, sock, old, pending, acc, thr, main>>

Ages(c) ==
  /\ c \in Fds(pending) \ old /\ old' = old \cup {c}
  /\ UNCHANGED <<terms, sock, peer, pending, acc, thr, main>>
-----------------------------------------------------------------------------
(* accept_thread_func(): the poll set, built under the mutex, ... *)
BuildPollSet ==
  /\ apc = "top"
  /\ IF Exiting THEN apc' = "cleanup" /\ UNCHANGED polled
                ELSE apc' = "poll" /\ polled' = [i \in DOMAIN pending |-> pending[i].fd]
  /\ UNCHANGED <<terms, conns, pending, ready, knock, target, thr, main>>

(* ... the poll, which ends after a second at the latest, ... *)
Poll ==
  /\ apc = "poll" /\ polled' = <<>>
  /\ IF Exiting THEN apc' = "cleanup" /\ UNCHANGED <<ready, knock>>
     ELSE /\ apc' = "expire"
          /\ ready' = {i \in DOMAIN polled : sock[polled[i]] = "open" /\ peer[polled[i]] # "quiet"}
          /\ knock' = \E c \in Clients : sock[c] = "queued"
  /\ UNCHANGED <<terms, conns, pending, target, thr, main>>

(* ... the clients whose time is up, under the mutex, ... *)
Expire ==
  /\ apc = "expire" /\ apc' = "begin"
  /\ Close(Fds(pending) \cap old)
  /\ \E f \in Places(pending) : pending' = [k \in DOMAIN f |-> pending[f[k]]]
  /\ UNCHANGED <<terms, polled, ready, knock, target, thr, main>>

(* ... and the loop over the list, from its end, under the mutex again. *)
BeginInput ==
  /\ apc = "begin" /\ apc' = "input" /\ ready' = ready \cap DOMAIN pending
  /\ UNCHANGED <<terms, conns, pending, polled, knock, target, thr, main>>

EndInput ==
  /\ apc = "input" /\ ready = {} /\ apc' = IF knock THEN "accept" ELSE "top"
  /\ UNCHANGED <<terms, conns, pending, polled, ready, knock, target, thr, main>>

\* recv() of the entry's socket blocks until there is something to read.
Receives(i) ==
  /\ apc = "input" /\ i \in ready /\ \A j \in ready : j <= i
  /\ sock[pending[i].fd] = "closed" \/ peer[pending[i].fd] # "quiet"
  /\ UNCHANGED <<terms, polled, knock, thr, main>>

(* recv() fails: the entry goes. *)
PendingGone(i) ==
  /\ Receives(i)
  /\ sock[pending[i].fd] = "closed" \/ peer[pending[i].fd] = "gone"
  /\ Close({pending[i].fd}) /\ pending' = Without(pending, i) /\ ready' = ready \ {i}
  /\ UNCHANGED <<apc, target>>

\* Input arrives; Taken says that it is read and no more happens to the connection.
PendingTyped(i) == Receives(i) /\ sock[pending[i].fd] = "open" /\ peer[pending[i].fd] = "typed"
Taken(i) == peer' = [peer EXCEPT ![pending[i].fd] = "quiet"] /\ UNCHANGED <<sock, old>>

(* Options, an invalid number, or "q". *)
NoChoice(i) ==
  /\ PendingTyped(i) /\ ready' = ready \ {i}
  /\ \/ Taken(i) /\ UNCHANGED pending
     \/ Close({pending[i].fd}) /\ pending' = Without(pending, i)
  /\ UNCHANGED <<apc, target>>

(* A terminal that was taken since the menu was shown: a new menu, or the    *)
(* end if there is none left.                                                *)
Busy(i) ==
  /\ PendingTyped(i) /\ pending[i].shown \ Free # {} /\ ready' = ready \ {i}
  /\ IF Free = {} THEN Close({pending[i].fd}) /\ pending' = Without(pending, i)
                  ELSE pending' = [pending EXCEPT ![i].shown = Free] /\ Taken(i)
  /\ UNCHANGED <<apc, target>>

(* A free terminal: try_assign_pending() begins. *)
Choose(i) ==
  /\ PendingTyped(i) /\ target' \in pending[i].shown \cap Free
  /\ apc' = "assign" /\ Taken(i)
  /\ UNCHANGED <<pending, ready>>

\* The entry try_assign_pending() works on.
Entry == CHOOSE i \in ready : \A j \in ready : j <= i
Assigning(from, to) ==
  /\ apc = from /\ apc' = to /\ target' = IF to = "input" THEN 0 ELSE target
  /\ UNCHANGED <<polled, knock, main>>

BadAssign ==                    \* the thread of the client before is not joined
  /\ Assigning("assign", "carrier")
  /\ active' = [active EXCEPT ![target] = FALSE]
  /\ clientFd' = [clientFd EXCEPT ![target] = pending[Entry].fd]
  /\ UNCHANGED <<handle, local, missing, conns, pending, ready, thr>>

(* The thread of the client before is joined, the terminal is taken, ... *)
Assign ==
  /\ Assigning("assign", "carrier")
  /\ Joined(target)
  /\ active' = [active EXCEPT ![target] = FALSE]
  /\ clientFd' = [clientFd EXCEPT ![target] = pending[Entry].fd]
  /\ UNCHANGED <<handle, local, missing, conns, pending, ready, thr>>

BadGiveCarrier == Assigning("carrier", "spawn") /\ UNCHANGED <<terms, conns, pending, ready, thr>>

(* ... it has a carrier, ... *)
GiveCarrier ==
  /\ Assigning("carrier", "spawn")
  /\ missing' = [missing EXCEPT ![target] = FALSE]
  /\ UNCHANGED <<clientFd, active, handle, local, conns, pending, ready, thr>>

(* ... and a thread, or not: then the entry keeps its closed socket. *)
Spawn ==
  /\ Assigning("spawn", "input") /\ ready' = ready \ {Entry}
  /\ LET c == pending[Entry].fd IN
     \/ /\ thread' = [thread EXCEPT ![c] = "loop"] /\ on' = [on EXCEPT ![c] = target]
        /\ handle' = [handle EXCEPT ![target] = c] /\ active' = [active EXCEPT ![target] = TRUE]
        /\ pending' = Without(pending, Entry)
        /\ UNCHANGED <<clientFd, local, missing, conns>>
     \/ /\ Close({c}) /\ clientFd' = [clientFd EXCEPT ![target] = NoClient]
        /\ UNCHANGED <<active, handle, local, missing, pending, thr>>

(* A new connection: pending, unless the list is full or no terminal free.   *)
(* Once the listening socket is closed accept() fails.                       *)
Accept ==
  /\ apc = "accept" /\ apc' = "top"
  /\ IF Exiting THEN UNCHANGED <<conns, pending>>
     ELSE \E c \in Clients :
       /\ sock[c] = "queued"
       /\ IF Len(pending) = MaxPending \/ Free = {} THEN Close({c}) /\ UNCHANGED pending
          ELSE /\ sock' = [sock EXCEPT ![c] = "open"] /\ UNCHANGED <<peer, old>>
               /\ pending' = Append(pending, [fd |-> c, shown |-> Free])
  /\ UNCHANGED <<terms, polled, ready, knock, target, thr, main>>

BadCleanUp ==                   \* the pending clients are left to telnet_destroy()
  /\ apc = "cleanup" /\ apc' = "ended" /\ pending' = <<>>
  /\ UNCHANGED <<terms, conns, polled, ready, knock, target, thr, main>>

CleanUp ==
  /\ apc = "cleanup" /\ apc' = "ended"
  /\ Close(Fds(pending)) /\ pending' = <<>>
  /\ UNCHANGED <<terms, polled, ready, knock, target, thr, main>>

AcceptThread ==
  \/ BuildPollSet \/ Poll \/ Expire \/ BeginInput \/ EndInput
  \/ \E i \in ready : PendingGone(i) \/ NoChoice(i) \/ Busy(i) \/ Choose(i)
  \/ Assign \/ GiveCarrier \/ Spawn \/ Accept \/ CleanUp
-----------------------------------------------------------------------------
\* client_thread_func(): a step of the thread started for c.
Client(c, from, to) ==
  /\ thread[c] = from /\ thread' = [thread EXCEPT ![c] = to]
  /\ UNCHANGED <<on, pending, acc, main>>

(* The loop ends: shutdown, the terminal was taken away, ... *)
Leave(c) ==
  /\ Client(c, "loop", "leave")
  /\ Exiting \/ clientFd[on[c]] = NoClient
  /\ UNCHANGED <<terms, conns>>

(* ... or recv() or send() fails, which it may never be called to do. *)
Fail(c) ==
  /\ Client(c, "loop", "leave")
  /\ peer[c] = "gone" \/ sock[c] = "closed"
  /\ UNCHANGED <<terms, conns>>

(* The socket the terminal has now is closed, if it has one, ... *)
LookAtFd(c) ==
  /\ \/ Client(c, "leave", "close") /\ clientFd[on[c]] # NoClient
     \/ Client(c, "leave", "hangup") /\ clientFd[on[c]] = NoClient
  /\ UNCHANGED <<terms, conns>>

CloseFd(c) ==
  /\ Client(c, "close", "unset") /\ Close({clientFd[on[c]]}) /\ UNCHANGED terms

UnsetFd(c) ==
  /\ Client(c, "unset", "hangup") /\ clientFd' = [clientFd EXCEPT ![on[c]] = NoClient]
  /\ UNCHANGED <<active, handle, local, missing, conns>>

(* ... and the terminal loses its carrier. *)
HangUp(c) ==
  /\ Client(c, "hangup", "ended") /\ missing' = [missing EXCEPT ![on[c]] = TRUE]
  /\ UNCHANGED <<clientFd, active, handle, local, conns>>

ClientThread(c) == Leave(c) \/ LookAtFd(c) \/ CloseFd(c) \/ UnsetFd(c) \/ HangUp(c)
-----------------------------------------------------------------------------
\* The main thread goes on to a step for terminal t.
Main(from, to, t) ==
  /\ mpc = from /\ mpc' = to /\ mt' = t
  /\ mj' = IF to = "wait" /\ active[t] THEN handle[t] ELSE NoClient
  /\ UNCHANGED <<acc, thr>>

(* The menu takes a terminal for a local screen: first the look, ... *)
LookAtScreen(t) ==
  /\ Main("run", "claim", t) /\ clientFd[t] = NoClient /\ ~local[t]
  /\ UNCHANGED <<terms, conns, pending>>

(* ... then the flag and the carrier. *)
Claim ==
  /\ Main("claim", "run", 0)
  /\ local' = [local EXCEPT ![mt] = TRUE] /\ missing' = [missing EXCEPT ![mt] = FALSE]
  /\ UNCHANGED <<clientFd, active, handle, conns, pending>>

Release(t) ==
  /\ Main("run", "run", 0) /\ clientFd[t] = NoClient /\ local[t]
  /\ local' = [local EXCEPT ![t] = FALSE]
  /\ UNCHANGED <<clientFd, active, handle, missing, conns, pending>>

(* telnet_server_disconnect_terminal(): the socket, ... *)
Disconnect(t) ==
  /\ Main("run", "unset", t) /\ clientFd[t] # NoClient
  /\ Close({clientFd[t]}) /\ UNCHANGED <<terms, pending>>

DisconnectUnset ==
  /\ Main("unset", "look", mt) /\ clientFd' = [clientFd EXCEPT ![mt] = NoClient]
  /\ UNCHANGED <<active, handle, local, missing, conns, pending>>

(* ... the thread is joined, if there is one by now, ... *)
DisconnectLook == Main("look", "wait", mt) /\ UNCHANGED <<terms, conns, pending>>

DisconnectJoin ==
  /\ Main("wait", "mark", mt)
  /\ mj # NoClient => thread[mj] = "ended"
  /\ UNCHANGED <<terms, conns, pending>>

(* ... and the terminal loses its carrier. *)
DisconnectMark ==
  /\ Main("mark", "run", 0)
  /\ active' = [active EXCEPT ![mt] = FALSE] /\ missing' = [missing EXCEPT ![mt] = TRUE]
  /\ UNCHANGED <<clientFd, handle, local, conns, pending>>

(* telnet_drop_pending(), telnet_drop_all_pending(): under the mutex. *)
Drop(i) ==
  /\ Main("run", "run", 0) /\ ~Locked
  /\ Close({pending[i].fd}) /\ pending' = Without(pending, i) /\ UNCHANGED terms

DropAll ==
  /\ Main("run", "run", 0) /\ ~Locked
  /\ Close(Fds(pending)) /\ pending' = <<>> /\ UNCHANGED terms

(* telnet_stop(): shouldExit and the wake-up byte, the accept thread is      *)
(* joined, then each terminal: its socket and its thread.                    *)
Stop == Main("run", "stop", 0) /\ UNCHANGED <<terms, conns, pending>>

StopJoinAccept ==
  Main("stop", "close", 0) /\ apc = "ended" /\ UNCHANGED <<terms, conns, pending>>

StopClose(t) ==
  /\ Main("close", "join", t) /\ t > mt /\ \A u \in Terminals : u > mt => t <= u
  /\ Close({clientFd[t]}) /\ clientFd' = [clientFd EXCEPT ![t] = NoClient]
  /\ UNCHANGED <<active, handle, local, missing, pending>>

StopJoin ==
  /\ Main("join", "close", mt) /\ Joined(mt)
  /\ active' = [active EXCEPT ![mt] = FALSE]
  /\ UNCHANGED <<clientFd, handle, local, missing, conns, pending>>

Stopped ==
  /\ Main("close", "stopped", 0) /\ \A u \in Terminals : u <= mt
  /\ UNCHANGED <<terms, conns, pending>>

MenuKey ==
  \/ \E t \in Menu : LookAtScreen(t) \/ Release(t) \/ Disconnect(t)
  \/ (\E i \in DOMAIN pending : Drop(i)) \/ DropAll
  \/ Stop

MainGoesOn ==
  \/ Claim \/ DisconnectUnset \/ DisconnectLook \/ DisconnectJoin \/ DisconnectMark
  \/ StopJoinAccept \/ (\E t \in Terminals : StopClose(t)) \/ StopJoin \/ Stopped

Outside == \E c \in Clients : Connect(c) \/ Types(c) \/ HangsUp(c) \/ Ages(c)

Next == Outside \/ AcceptThread \/ (\E c \in Clients : ClientThread(c) \/ Fail(c)) \/ MenuKey \/ MainGoesOn

(* Every thread keeps running. *)
Fairness ==
  WF_vars(AcceptThread) /\ WF_vars(MainGoesOn) /\ \A c \in Clients : WF_vars(ClientThread(c))

Spec == Init /\ [][Next]_vars /\ Fairness
-----------------------------------------------------------------------------
(* Types; the pending list fits its array. *)
TypeOK ==
  /\ clientFd \in [Terminals -> Clients \cup {NoClient}] /\ handle \in [Terminals -> Clients \cup {NoClient}]
  /\ active \in [Terminals -> BOOLEAN] /\ local \in [Terminals -> BOOLEAN]
  /\ missing \in [Terminals -> BOOLEAN]
  /\ sock \in [Clients -> {"none", "queued", "open", "closed"}]
  /\ peer \in [Clients -> {"quiet", "typed", "gone"}] /\ old \subseteq Clients
  /\ Len(pending) <= MaxPending
  /\ \A i \in DOMAIN pending : pending[i].fd \in Clients /\ pending[i].shown \subseteq Terminals
  /\ apc \in {"top", "poll", "expire", "begin", "input", "assign", "carrier", "spawn", "accept",
              "cleanup", "ended"}
  /\ ready \subseteq 1..MaxPending /\ knock \in BOOLEAN /\ target \in Terminals \cup {0}
  /\ thread \in [Clients -> {"none", "loop", "leave", "close", "unset", "hangup", "ended"}]
  /\ on \in [Clients -> Terminals \cup {0}]
  /\ mpc \in {"run", "claim", "unset", "look", "wait", "mark", "stop", "close", "join", "stopped"}
  /\ mt \in Terminals \cup {0} /\ mj \in Clients \cup {NoClient}

Alive(c) == thread[c] \notin {"none", "ended"}
Public == Terminals \ Menu

(* A terminal the operator leaves alone is never served by two client        *)
(* threads, although the next client may be assigned as soon as the thread   *)
(* of the one before has given up the socket.                                *)
OneThread == \A c, d \in Clients : Alive(c) /\ Alive(d) /\ on[c] = on[d] /\ on[c] \in Public => c = d

(* While its client is served such a terminal has a carrier: the hang-up of  *)
(* the client before does not come late.                                     *)
CarrierPresent == \A c \in Clients : thread[c] = "loop" /\ on[c] \in Public => ~missing[on[c]]

(* When the server has stopped every socket it accepted is closed, whatever  *)
(* the clients and the threads were doing (terminals of the menu apart).     *)
NoLeak == mpc = "stopped" => \A c \in Clients : sock[c] = "open" => on[c] \in Menu

\* The accept thread waits in recv() for a client that has nothing to say.
Blocked ==
  /\ apc = "input" /\ ready # {}
  /\ sock[pending[Entry].fd] = "open" /\ peer[pending[Entry].fd] = "quiet"

(* telnet_stop() comes to an end; nothing can hold it up but a pending       *)
(* client for which the accept thread waits in recv().                       *)
StopEnds == mpc = "stop" ~> (mpc = "stopped" \/ Blocked)

(* What telnetserver.h promises at line 106: telnet_stop() wakes and joins   *)
(* the accept thread and ends.  It does not when the list of pending clients *)
(* changed between the poll and the loop over its answers: the answer of one *)
(* client is then taken for another, idle one.                               *)
StopReturns == mpc = "stop" ~> mpc = "stopped"
=============================================================================
