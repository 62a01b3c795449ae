------------------------------- MODULE EthLink -------------------------------
(***************************************************************************)
(* The TCP link of the Ethernet card (src/src/devices/ethernet/net/        *)
(* eth_net.c): the thread that accepts or dials, shakes hands and reads,   *)
(* against the emulator's thread, which sends, starts and stops.  Only the *)
(* descriptor conn is under send_lock; active and stop_requested are       *)
(* atomics read outside it.  Frames and their bytes are Ethernet's.  There *)
(* is one connection at a time, and the host gives its number again.       *)
(***************************************************************************)
EXTENDS Naturals

VARIABLES
  net,     \* started, stop_requested, active, conn (whether it names a socket)
  reader,  \* where the link's thread is
  sender,  \* where the emulator's thread is
  tcp      \* the connection: "none" when closed, "open", or "cut" by either end

\* A history variable: a send that began before the connection in use has not
\* found out yet, or has told it inactive.  No guard reads it.
VARIABLE late

linkVars == <<net, reader, sender, tcp, late>>

LinkInit ==
  /\ net = [started |-> FALSE, stop |-> FALSE, active |-> FALSE, conn |-> FALSE]
  /\ reader = "none" /\ sender = "idle" /\ tcp = "none" /\ late = FALSE

\* send_lock is held by the emulator's thread from its first write to its last.
Unlocked == sender \notin {"header", "data"}
-----------------------------------------------------------------------------
(* tcp_listen_thread() and tcp_connect_thread(): a peer comes or answers,    *)
(* else the poll or the pause between two attempts ends, and stop is looked  *)
(* at again.                                                                 *)
NextPeer ==
  /\ reader = "waits" /\ ~net.stop /\ reader' = "shakes" /\ tcp' = "open"
  /\ UNCHANGED <<net, sender, late>>
ThreadEnds == reader = "waits" /\ net.stop /\ reader' = "ended" /\ UNCHANGED <<net, sender, tcp, late>>

(* tcp_handshake(): without the peer's answer, or with stop, the socket is   *)
(* closed.  A send of the connection before may still be under way.          *)
TcpHandshake ==
  /\ reader = "shakes" /\ UNCHANGED <<net, sender>>
  /\ \/ /\ ~net.stop /\ tcp = "open" /\ reader' = "up" /\ UNCHANGED tcp
        /\ late' = (sender \in {"locks", "failed"})
     \/ reader' = "waits" /\ tcp' = "none" /\ UNCHANGED late

(* tcp_run_connection(): conn is published, then active. *)
PublishConn ==
  /\ reader = "up" /\ Unlocked /\ net' = [net EXCEPT !.conn = TRUE] /\ reader' = "greets"
  /\ UNCHANGED <<sender, tcp, late>>
SetActive ==
  /\ reader = "greets" /\ net' = [net EXCEPT !.active = TRUE] /\ reader' = "reads"
  /\ UNCHANGED <<sender, tcp, late>>

(* read_fully() gives up when the connection is cut or stop is asked, and    *)
(* the loop does when a length makes no sense.                               *)
ReadEnds == reader = "reads" /\ reader' = "down" /\ UNCHANGED <<net, sender, tcp, late>>
ClearActive ==
  /\ reader = "down" /\ net' = [net EXCEPT !.active = FALSE] /\ reader' = "clears"
  /\ UNCHANGED <<sender, tcp, late>>
BadClearConn ==   \* mutant: the socket is closed first
  \/ /\ reader = "clears" /\ tcp # "none" /\ tcp' = "none" /\ UNCHANGED <<net, reader, sender, late>>
  \/ /\ reader = "clears" /\ tcp = "none" /\ Unlocked
     /\ net' = [net EXCEPT !.conn = FALSE] /\ reader' = "closes" /\ UNCHANGED <<sender, tcp, late>>
ClearConn ==
  /\ reader = "clears" /\ Unlocked /\ net' = [net EXCEPT !.conn = FALSE] /\ reader' = "closes"
  /\ UNCHANGED <<sender, tcp, late>>
CloseSocket == reader = "closes" /\ tcp' = "none" /\ reader' = "waits" /\ UNCHANGED <<net, sender, late>>

(* The other end hangs up, or the network does (external). *)
PeerLeaves == tcp = "open" /\ tcp' = "cut" /\ UNCHANGED <<net, reader, sender, late>>
-----------------------------------------------------------------------------
(* eth_net_send(): active is read first, conn under the lock.  A write may   *)
(* fail on a connection that is cut, and on one that still looks open; the   *)
(* connection is then shut down, and active cleared after the lock.          *)
SendBegins == sender = "idle" /\ net.active /\ sender' = "locks" /\ UNCHANGED <<net, reader, tcp, late>>
SendLocks ==
  /\ sender = "locks" /\ sender' = (IF net.conn THEN "header" ELSE "failed")
  /\ late' = (late /\ ~net.conn) /\ UNCHANGED <<net, reader, tcp>>
SendWrites ==
  /\ sender \in {"header", "data"} /\ UNCHANGED <<net, reader, late>>
  /\ \/ sender' = (IF sender = "header" THEN "data" ELSE "idle") /\ UNCHANGED tcp
     \/ sender' = "failed" /\ tcp' = "cut"
SendFailed ==
  /\ sender = "failed" /\ net' = [net EXCEPT !.active = FALSE] /\ sender' = "idle"
  /\ late' = (late /\ reader = "reads") /\ UNCHANGED <<reader, tcp>>

(* eth_net_start() and eth_net_stop(), on the emulator's thread as well. *)
NetStart ==
  /\ sender = "idle" /\ ~net.started /\ reader' = "waits"
  /\ net' = [net EXCEPT !.started = TRUE, !.stop = FALSE] /\ UNCHANGED <<sender, tcp, late>>
NetStop ==
  /\ sender = "idle" /\ net.started /\ net' = [net EXCEPT !.stop = TRUE]
  /\ sender' = "stops" /\ UNCHANGED <<reader, tcp, late>>
NetStopEnds ==
  \/ /\ sender = "stops" /\ net' = [net EXCEPT !.active = FALSE]
     /\ sender' = "joins" /\ UNCHANGED <<reader, tcp, late>>
  \/ /\ sender = "joins" /\ reader = "ended" /\ reader' = "none" /\ sender' = "idle"
     /\ net' = [net EXCEPT !.started = FALSE] /\ UNCHANGED <<tcp, late>>

LinkThread ==
  \/ NextPeer \/ ThreadEnds \/ TcpHandshake \/ PublishConn \/ SetActive \/ ReadEnds
  \/ ClearActive \/ ClearConn \/ CloseSocket

LinkNext ==
  \/ LinkThread \/ PeerLeaves \/ SendBegins \/ SendLocks \/ SendWrites \/ SendFailed
  \/ NetStart \/ NetStop \/ NetStopEnds

LinkSpec == LinkInit /\ [][LinkNext]_linkVars
-----------------------------------------------------------------------------
(* No frame is written to a socket that is closed, or whose number another   *)
(* one has got; a link that is up carries frames until it is cut or stopped, *)
(* unless a send that began before its handshake clears active behind its    *)
(* back; and nothing of a stopped link is left.                              *)
LinksSound ==
  /\ net.conn \/ ~Unlocked => tcp # "none"
  /\ ~Unlocked => net.conn
  /\ net.active => net.conn
  /\ reader = "reads" /\ tcp = "open" /\ ~net.stop => net.active \/ late
  /\ ~net.started => ~net.active /\ ~net.conn /\ tcp = "none" /\ reader = "none"

(* A stop returns: every wait of the link's thread is short. *)
LinkStops == sender = "stops" ~> sender = "idle"
=============================================================================
