------------------------- MODULE TelnetServerProofs -------------------------
(***************************************************************************)
(* What the telnet server promises a terminal the operator leaves alone,   *)
(* for any number of terminals, connections and pending clients.           *)
(***************************************************************************)
EXTENDS TelnetServer, TLAPS

(* A member of the pending list, and the state; no connection is in the list *)
(* twice.                                                                    *)
PendingClient == [fd : Clients, shown : SUBSET Terminals]

Shape ==
  /\ pending \in Seq(PendingClient)
  /\ \A i, j \in DOMAIN pending : pending[i].fd = pending[j].fd => i = j
  /\ clientFd \in [Terminals -> Clients \cup {NoClient}]
  /\ handle \in [Terminals -> Clients \cup {NoClient}]
  /\ active \in [Terminals -> BOOLEAN] /\ missing \in [Terminals -> BOOLEAN]
  /\ local \in [Terminals -> BOOLEAN]
  /\ sock \in [Clients -> {"none", "queued", "open", "closed"}]
  /\ thread \in [Clients -> {"none", "loop", "leave", "close", "unset", "hangup", "ended"}]
  /\ on \in [Clients -> Terminals \cup {0}]
  /\ target \in Terminals \cup {0} /\ mt \in Terminals \cup {0}

(* A connection is new, pending, or a thread's: in this order. *)
Stages ==
  /\ \A i \in DOMAIN pending : thread[pending[i].fd] = "none"
       /\ sock[pending[i].fd] \in {"open", "closed"}
  /\ \A c \in Clients :
       /\ thread[c] # "none" => on[c] \in Terminals /\ sock[c] \in {"open", "closed"}
       /\ sock[c] = "open" => c \in Fds(pending) \/ thread[c] # "none"

(* The accept thread handles places of the list, the operator terminals of   *)
(* the menu.                                                                 *)
Handled ==
  /\ Locked => ready \subseteq DOMAIN pending
  /\ apc \in {"assign", "carrier", "spawn"} =>
       target \in Terminals /\ \E i \in ready : \A j \in ready : j <= i
  /\ mpc \in {"claim", "unset", "look", "wait", "mark"} => mt \in Menu
  /\ mpc = "join" => mt \in Terminals

(* A terminal in use is known by its thread until the thread is joined, and  *)
(* is the accept thread's own from its assignment until it has a thread.     *)
Served ==
  /\ \A c \in Clients : Alive(c) /\ on[c] \in Public => active[on[c]] /\ handle[on[c]] = c
  /\ apc = "assign" /\ target \in Public => clientFd[target] = NoClient
  /\ apc \in {"carrier", "spawn"} /\ target \in Public =>
       /\ \A c \in Clients : on[c] = target => ~Alive(c)
       /\ clientFd[target] = pending[Entry].fd
  /\ apc = "spawn" /\ target \in Public => ~missing[target]

(* The terminal of an open connection refers to it. *)
Referred ==
  /\ \A c \in Clients : sock[c] = "open" /\ thread[c] # "none" /\ on[c] \in Public
       => clientFd[on[c]] = c
  /\ \A c \in Clients : thread[c] = "unset" /\ on[c] \in Public /\ clientFd[on[c]] # NoClient =>
       sock[clientFd[on[c]]] = "closed"

(* The shutdown goes through the terminals once the accept thread is gone.   *)
ShutDown ==
  /\ mpc \in {"close", "join", "stopped"} => apc = "ended"
  /\ apc = "ended" => pending = <<>>
  /\ mpc \in {"close", "join"} => \A t \in Public : t <= mt => clientFd[t] = NoClient
  /\ mpc = "stopped" => \A t \in Public : clientFd[t] = NoClient

IInv == Shape /\ Stages /\ Handled /\ Served /\ CarrierPresent /\ Referred /\ ShutDown
-----------------------------------------------------------------------------
(* remove_pending() takes exactly one connection out of a list that has each *)
(* of them once.                                                             *)
LEMMA WithoutOne ==
  ASSUME NEW S, NEW s \in Seq(S), NEW i \in DOMAIN s,
         \A j, k \in DOMAIN s : s[j].fd = s[k].fd => j = k
  PROVE  /\ Without(s, i) \in Seq(S) /\ DOMAIN Without(s, i) = 1 .. (Len(s) - 1)
         /\ \A j, k \in DOMAIN Without(s, i) : Without(s, i)[j].fd = Without(s, i)[k].fd => j = k
         /\ Fds(Without(s, i)) = Fds(s) \ {s[i].fd}
<1> DEFINE w == Without(s, i)
<1>1. /\ Len(s) \in Nat /\ DOMAIN s = 1 .. Len(s) /\ i \in 1 .. Len(s)
      /\ \A k \in 1 .. Len(s) : s[k] \in S
  OBVIOUS
<1>2. w = [k \in 1 .. (Len(s) - 1) |-> IF k < i THEN s[k] ELSE s[k + 1]]
  BY DEF Without
<1> DEFINE Was(k) == IF k < i THEN k ELSE k + 1
<1>3. \A k \in 1 .. (Len(s) - 1) :
        Was(k) \in (1 .. Len(s)) \ {i} /\ w[k] = s[Was(k)]
             /\ \A j \in 1 .. (Len(s) - 1) : Was(j) = Was(k) => j = k
  BY <1>1, <1>2
<1>4. w \in Seq(S) /\ DOMAIN w = 1 .. (Len(s) - 1)
  <2>1. w \in [1 .. (Len(s) - 1) -> S]
    BY <1>1, <1>2, <1>3
  <2> QED
    BY <1>1, <1>2, <2>1, Len(s) - 1 \in Nat
<1> HIDE DEF w, Was
<1>5. \A j, k \in DOMAIN w : w[j].fd = w[k].fd => j = k
  <2> TAKE j, k \in DOMAIN w
  <2> HAVE w[j].fd = w[k].fd
  <2>1. Was(j) = Was(k)
    BY <1>1, <1>3, <1>4
  <2> QED
    BY <1>1, <1>3, <1>4, <2>1
<1>6. Fds(w) \subseteq Fds(s) \ {s[i].fd}
  <2> SUFFICES ASSUME NEW k \in DOMAIN w PROVE w[k].fd \in Fds(s) /\ w[k].fd # s[i].fd
    BY DEF Fds
  <2>1. Was(k) \in DOMAIN s /\ Was(k) # i /\ w[k] = s[Was(k)]
    BY <1>1, <1>3, <1>4
  <2> QED
    BY <2>1 DEF Fds
<1> USE DEF Was
<1>7. ASSUME NEW k \in DOMAIN s, s[k].fd # s[i].fd PROVE s[k].fd \in Fds(w)
  <2>1. PICK j \in DOMAIN w : Was(j) = k
    <3>1. CASE k < i
      BY <1>1, <1>4, <3>1, k \in 1 .. (Len(s) - 1)
    <3>2. CASE k > i
      BY <1>1, <1>4, <3>2, k - 1 \in 1 .. (Len(s) - 1)
    <3> QED
      BY <1>1, <1>7, <3>1, <3>2
  <2> QED
    BY <1>3, <1>4, <2>1 DEF Fds
<1>8. Fds(w) = Fds(s) \ {s[i].fd}
  <2> SUFFICES ASSUME NEW c \in Fds(s) \ {s[i].fd} PROVE c \in Fds(w)
    BY <1>6
  <2> QED
    BY <1>7 DEF Fds
<1> QED
  BY <1>4, <1>5, <1>8 DEF w

(* The time-out takes out those who have been there too long, and no others. *)
LEMMA UnexpiredOnes ==
  ASSUME NEW S, NEW s \in Seq(S), NEW f \in Places(s),
         \A j, k \in DOMAIN s : s[j].fd = s[k].fd => j = k,
         NEW r, r = [k \in DOMAIN f |-> s[f[k]]]
  PROVE  /\ r \in Seq(S) /\ Len(r) <= Len(s)
         /\ \A j, k \in DOMAIN r : r[j].fd = r[k].fd => j = k
         /\ Fds(r) = Fds(s) \ old
<1>1. PICK n \in 0 .. Len(s) : f \in [1 .. n -> Unexpired(s)]
  BY DEF Places
<1>2. Rising(f) /\ \A i \in Unexpired(s) : \E k \in DOMAIN f : f[k] = i
  BY DEF Places
<1>3. \A k \in 1 .. n : f[k] \in DOMAIN s /\ f[k] \in Nat /\ s[f[k]].fd \notin old /\ s[f[k]] \in S
  BY <1>1 DEF Unexpired
<1>4. r \in Seq(S) /\ DOMAIN r = 1 .. n /\ Len(r) = n
  <2>1. r \in [1 .. n -> S]
    BY <1>1, <1>3
  <2> QED
    BY <2>1, <1>1, Len(s) \in Nat
<1>5. \A j, k \in 1 .. n : r[j].fd = r[k].fd => j = k
  <2> SUFFICES ASSUME NEW j \in 1 .. n, NEW k \in 1 .. n, r[j].fd = r[k].fd, j < k
               PROVE  FALSE
    BY <1>1
  <2> QED
    BY <1>1, <1>2, <1>3 DEF Rising
<1>6. Fds(r) = Fds(s) \ old
  <2>1. Fds(r) \subseteq Fds(s) \ old
    BY <1>1, <1>3, <1>4 DEF Fds
  <2>2. ASSUME NEW i \in DOMAIN s, s[i].fd \notin old PROVE s[i].fd \in Fds(r)
    BY <1>1, <1>2, <1>4, <2>2 DEF Fds, Unexpired
  <2> QED
    BY <2>1, <2>2, ZenonT(60) DEF Fds
<1> QED
  BY <1>1, <1>4, <1>5, <1>6

(* An entry of the list is a connection and the terminals it was shown. *)
LEMMA Entries ==
  ASSUME Shape
  PROVE  /\ Len(pending) \in Nat /\ DOMAIN pending = 1 .. Len(pending) /\ Fds(pending) \subseteq Clients
         /\ \A i \in DOMAIN pending : pending[i] \in PendingClient /\ pending[i].fd \in Clients
<1>1. /\ Len(pending) \in Nat /\ DOMAIN pending = 1 .. Len(pending)
      /\ \A i \in DOMAIN pending : pending[i] \in PendingClient
  BY DEF Shape
<1> QED
  BY <1>1 DEF Fds, PendingClient

(* While a terminal is being assigned its entry is the last place to handle.*)
LEMMA EntryKnown ==
  ASSUME IInv, apc \in {"assign", "carrier", "spawn"}
  PROVE  /\ Entry \in ready /\ ready \subseteq DOMAIN pending /\ \A j \in ready : j <= Entry
         /\ pending[Entry].fd \in Clients /\ target \in Terminals
<1>1. (\E i \in ready : \A j \in ready : j <= i) /\ ready \subseteq DOMAIN pending
         /\ target \in Terminals
  BY DEF IInv, Handled, Locked
<1>2. Entry \in ready /\ \A j \in ready : j <= Entry
  BY <1>1 DEF Entry
<1> QED
  BY <1>1, <1>2, Entries DEF IInv

(* A socket that is closed stays closed; the others are left alone. *)
LEMMA Closing ==
  ASSUME NEW cs, Close(cs)
  PROVE  \A c \in Clients :
           /\ sock'[c] = "open" => sock[c] = "open" /\ c \notin cs
           /\ sock[c] = "closed" => sock'[c] = "closed"
           /\ sock[c] \in {"open", "closed"} => sock'[c] \in {"open", "closed"}
  BY DEF Close

(* When connections leave the list and are closed, whoever takes them out,   *)
(* what is known of threads, terminals and sockets remains.                  *)
LEMMA PendingGo ==
  ASSUME IInv, NEW gone \in SUBSET Fds(pending), Close(gone), UNCHANGED <<terms, thr>>,
         pending' \in Seq(PendingClient),
         \A j, k \in DOMAIN pending' : pending'[j].fd = pending'[k].fd => j = k,
         Fds(pending') = Fds(pending) \ gone,
         target' \in Terminals \cup {0}, mt' \in Terminals \cup {0}
  PROVE  Shape' /\ Stages' /\ CarrierPresent' /\ Referred'
<1>1. gone \subseteq Clients /\ Fds(pending) \subseteq Clients
  BY Entries DEF IInv
<1>2. \A c \in gone : thread[c] = "none"
  BY DEF IInv, Stages, Fds
<1>3. Shape'
  BY <1>1 DEF IInv, Shape, terms, thr, Close
<1>4. Stages'
  <2>1. \A i \in DOMAIN pending' : pending'[i].fd \in Fds(pending)
    BY DEF Fds
  <2>2. \A c \in Fds(pending) : thread[c] = "none" /\ sock[c] \in {"open", "closed"}
    BY DEF IInv, Stages, Fds
  <2>3. \A i \in DOMAIN pending' :
          thread'[pending'[i].fd] = "none" /\ sock'[pending'[i].fd] \in {"open", "closed"}
    BY <1>1, <2>1, <2>2 DEF Close, thr
  <2> QED
    BY <2>3, Closing DEF IInv, Stages, thr
<1>5. CarrierPresent'
  BY DEF IInv, CarrierPresent, terms, thr, Public
<1>6. Referred'
  <2>1. \A c \in Clients : on[c] \in Public /\ clientFd[on[c]] # NoClient => clientFd[on[c]] \in Clients
    BY DEF IInv, Shape, Public
  <2> QED
    BY <2>1, Closing DEF IInv, Referred, terms, thr, Public
<1> QED
  BY <1>3, <1>4, <1>5, <1>6

(* remove_pending() for one place, as recv() failing, "q", a full house and
   the operator cause it. *)
LEMMA OneGoes ==
  ASSUME IInv, NEW i \in DOMAIN pending, Close({pending[i].fd}), pending' = Without(pending, i),
         UNCHANGED <<terms, thr>>, target' \in Terminals \cup {0}, mt' \in Terminals \cup {0}
  PROVE  /\ Shape' /\ Stages' /\ CarrierPresent' /\ Referred'
         /\ DOMAIN pending' = 1 .. (Len(pending) - 1)
<1> DEFINE Kept == Without(pending, i)
<1>1. /\ Kept \in Seq(PendingClient) /\ DOMAIN Kept = 1 .. (Len(pending) - 1)
      /\ \A j, k \in DOMAIN Kept : Kept[j].fd = Kept[k].fd => j = k
      /\ Fds(Kept) = Fds(pending) \ {pending[i].fd}
  BY WithoutOne DEF IInv, Shape
<1>2. pending[i].fd \in Fds(pending)
  BY DEF Fds
<1> QED
  BY <1>1, <1>2, PendingGo

(* The clients and the clock. *)
LEMMA OutsideKeepsInv == ASSUME IInv, Outside PROVE IInv'
<1> USE DEF vars, terms, conns, acc, thr, main
<1>1. ASSUME NEW c \in Clients, Connect(c) PROVE IInv'
  BY <1>1, TelnetAssumption
     DEF Connect, IInv, Shape, Stages, Handled, Served, CarrierPresent, Referred, ShutDown, Alive, Public, Locked, Entry, Fds
<1>2. ASSUME NEW c \in Clients, Types(c) \/ HangsUp(c) \/ Ages(c) PROVE IInv'
  BY <1>2
     DEF Types, HangsUp, Ages, IInv, Shape, Stages, Handled, Served, CarrierPresent, Referred, ShutDown, Alive, Public, Locked, Entry, Fds
<1> QED
  BY <1>1, <1>2 DEF Outside

(* The accept thread, step by step; <1>6 and <1>7 are what the answers of a  *)
(* pending client come to when it gets no terminal.                          *)
LEMMA AcceptKeepsInv == ASSUME IInv, AcceptThread PROVE IInv'
<1> USE DEF terms, conns, acc, thr, main
<1>1. CASE BuildPollSet
  BY <1>1 DEF BuildPollSet, IInv, Shape, Stages, Handled, Served, CarrierPresent, Referred,
     ShutDown, Alive, Public, Locked, Fds
<1>2. CASE Poll
  <2>1. Shape' /\ Stages' /\ CarrierPresent' /\ Referred'
    BY <1>2 DEF Poll, IInv, Shape, Stages, CarrierPresent, Referred, Public, Fds
  <2> QED
    BY <1>2, <2>1 DEF Poll, IInv, Handled, Served, ShutDown, Alive, Public, Locked
<1>3. CASE Expire
  <2>1. PICK f \in Places(pending) : pending' = [k \in DOMAIN f |-> pending[f[k]]]
    BY <1>3 DEF Expire
  <2>2. Shape' /\ Stages' /\ CarrierPresent' /\ Referred'
    <3>1. /\ pending' \in Seq(PendingClient)
          /\ \A j, k \in DOMAIN pending' : pending'[j].fd = pending'[k].fd => j = k
          /\ Fds(pending') = Fds(pending) \ old
      <4>1. pending \in Seq(PendingClient)
               /\ \A j, k \in DOMAIN pending : pending[j].fd = pending[k].fd => j = k
        BY DEF IInv, Shape
      <4> QED
        BY <2>1, <4>1, UnexpiredOnes
    <3>2. Fds(pending') = Fds(pending) \ (Fds(pending) \cap old)
      BY <3>1
    <3> QED
      BY <1>3, <3>1, <3>2, PendingGo DEF Expire, IInv, Shape
  <2> QED
    BY <1>3, <2>2 DEF Expire, IInv, Handled, Served, ShutDown, Alive, Public, Locked
<1>4. CASE BeginInput
  BY <1>4 DEF BeginInput, IInv, Shape, Stages, Handled, Served, CarrierPresent, Referred,
     ShutDown, Alive, Public, Locked, Fds
<1>5. CASE EndInput
  BY <1>5 DEF EndInput, IInv, Shape, Stages, Handled, Served, CarrierPresent, Referred,
     ShutDown, Alive, Public, Locked, Fds
<1>6. ASSUME NEW i \in ready, Receives(i), Close({pending[i].fd}), pending' = Without(pending, i),
             ready' = ready \ {i}, UNCHANGED <<apc, target>>
      PROVE  IInv'
  <2>1. i \in DOMAIN pending /\ ready \subseteq DOMAIN pending
    BY <1>6 DEF Receives, IInv, Handled, Locked
  <2>2. /\ Shape' /\ Stages' /\ CarrierPresent' /\ Referred'
        /\ DOMAIN pending' = 1 .. (Len(pending) - 1)
    BY <1>6, <2>1, OneGoes DEF Receives, IInv, Shape
  <2>3. ready' \subseteq DOMAIN pending'
    <3>1. \A j \in ready : j <= i /\ j \in 1 .. Len(pending)
      BY <1>6, <2>1 DEF Receives, IInv, Shape
    <3> QED
      BY <1>6, <2>1, <2>2, <3>1
  <2> QED
    BY <1>6, <2>2, <2>3 DEF Receives, IInv, Handled, Served, ShutDown, Alive, Public
<1>7. ASSUME NEW i \in ready, PendingTyped(i), Taken(i), ready' \subseteq ready, UNCHANGED <<apc, target>>,
             \/ UNCHANGED pending
             \/ pending' = [pending EXCEPT ![i].shown = Free]
      PROVE  IInv'
  <2>1. i \in DOMAIN pending /\ ready \subseteq DOMAIN pending
    BY <1>7 DEF PendingTyped, Receives, IInv, Handled, Locked
  <2>2. /\ pending' \in Seq(PendingClient) /\ DOMAIN pending' = DOMAIN pending
        /\ \A j \in DOMAIN pending : pending'[j].fd = pending[j].fd
    <3>1. CASE UNCHANGED pending
      BY <3>1 DEF IInv, Shape
    <3>2. CASE pending' = [pending EXCEPT ![i].shown = Free]
      <4>1. pending[i] \in PendingClient /\ Free \in SUBSET Terminals
        BY <2>1, Entries DEF Free, IInv
      <4>2. [pending[i] EXCEPT !.shown = Free] \in PendingClient
               /\ [pending[i] EXCEPT !.shown = Free].fd = pending[i].fd
        BY <4>1 DEF PendingClient
      <4>3. pending \in Seq(PendingClient)
               /\ pending' = [pending EXCEPT ![i] = [pending[i] EXCEPT !.shown = Free]]
        BY <3>2 DEF IInv, Shape
      <4> QED
        BY <2>1, <4>2, <4>3
    <3> QED
      BY <1>7, <3>1, <3>2
  <2>3. Fds(pending') = Fds(pending)
    BY <2>2 DEF Fds
  <2>4. Shape'
    BY <1>7, <2>2 DEF PendingTyped, Receives, Taken, IInv, Shape
  <2>5. Stages'
    BY <1>7, <2>2, <2>3 DEF PendingTyped, Receives, Taken, IInv, Stages
  <2>6. Handled' /\ Served' /\ ShutDown'
    BY <1>7, <2>1, <2>2 DEF PendingTyped, Receives, IInv, Handled, Served, ShutDown, Alive, Public
  <2>7. CarrierPresent' /\ Referred'
    BY <1>7 DEF PendingTyped, Receives, Taken, IInv, CarrierPresent, Referred, Public
  <2> QED
    BY <2>4, <2>5, <2>6, <2>7 DEF IInv
<1>8. ASSUME NEW i \in ready, Choose(i) PROVE IInv'
  BY <1>8 DEF Choose, PendingTyped, Receives, Taken, Free, IInv, Shape, Stages, Handled,
     Served, CarrierPresent, Referred, ShutDown,
              Alive, Public, Locked, Fds
<1>9. CASE Assign
  <2>1. pending[Entry].fd \in Clients
    BY <1>9, EntryKnown DEF Assign, Assigning
  <2>2. target \in Terminals /\ clientFd' = [clientFd EXCEPT ![target] = pending[Entry].fd]
           /\ UNCHANGED <<pending, ready>>
    BY <1>9 DEF Assign, Assigning, IInv, Handled
  <2>3. Entry' = Entry
    BY <2>2 DEF Entry
  <2>4. target \in Public => \A c \in Clients : on[c] = target => ~Alive(c)
    BY <1>9 DEF Assign, Joined, IInv, Served, Alive
  <2>5. Shape'
    BY <1>9, <2>1, <2>2 DEF Assign, Assigning, IInv, Shape
  <2>6. Stages' /\ Handled' /\ ShutDown'
    BY <1>9, <2>2 DEF Assign, Assigning, IInv, Shape, Stages, Handled, ShutDown, Locked, Fds
  <2>7. Served'
    BY <1>9, <2>2, <2>3, <2>4 DEF Assign, Assigning, IInv, Shape, Served, Alive
  <2>8. CarrierPresent' /\ Referred'
    BY <1>9, <2>2, <2>4, TelnetAssumption
       DEF Assign, Assigning, IInv, Shape, Stages, Served, CarrierPresent, Referred, Alive, Public
  <2> QED
    BY <2>5, <2>6, <2>7, <2>8 DEF IInv
<1>10. CASE GiveCarrier
  BY <1>10 DEF GiveCarrier, Assigning, IInv, Shape, Stages, Handled, Served,
     CarrierPresent, Referred, ShutDown, Alive, Public, Locked, Entry, Fds
<1>11. CASE Spawn
  <2> DEFINE c == pending[Entry].fd
  <2>1. /\ Entry \in ready /\ ready \subseteq DOMAIN pending /\ \A j \in ready : j <= Entry
        /\ c \in Clients /\ target \in Terminals /\ apc = "spawn"
    BY <1>11, EntryKnown DEF Spawn, Assigning
  <2>2. thread[c] = "none" /\ sock[c] \in {"open", "closed"} /\ c \in Fds(pending)
    BY <2>1 DEF IInv, Stages, Fds
  <2>3. apc' = "input" /\ target' = 0 /\ ready' = ready \ {Entry} /\ UNCHANGED <<mpc, mt>>
    BY <1>11 DEF Spawn, Assigning
  <2>4. CASE /\ thread' = [thread EXCEPT ![c] = "loop"] /\ on' = [on EXCEPT ![c] = target]
             /\ handle' = [handle EXCEPT ![target] = c] /\ active' = [active EXCEPT ![target] = TRUE]
             /\ pending' = Without(pending, Entry) /\ UNCHANGED <<clientFd, local, missing, conns>>
    <3>1. /\ pending' \in Seq(PendingClient) /\ DOMAIN pending' = 1 .. (Len(pending) - 1)
          /\ \A j, k \in DOMAIN pending' : pending'[j].fd = pending'[k].fd => j = k
          /\ Fds(pending') = Fds(pending) \ {c}
      BY <2>1, <2>4, WithoutOne DEF IInv, Shape
    <3>2. Shape'
      BY <2>1, <2>3, <2>4, <3>1 DEF IInv, Shape
    <3>3. Stages'
      <4>1. \A i \in DOMAIN pending' : pending'[i].fd \in Fds(pending) /\ pending'[i].fd # c
        BY <3>1 DEF Fds
      <4>2. \A d \in Fds(pending) : d \in Clients /\ thread[d] = "none"
               /\ sock[d] \in {"open", "closed"}
        BY Entries DEF IInv, Stages, Fds
      <4>3. \A d \in Clients : d # c => thread'[d] = thread[d] /\ on'[d] = on[d]
        BY <2>4 DEF IInv, Shape
      <4>4. thread'[c] = "loop" /\ on'[c] = target
        BY <2>1, <2>4 DEF IInv, Shape
      <4> QED
        BY <2>1, <2>2, <2>4, <3>1, <4>1, <4>2, <4>3, <4>4 DEF IInv, Stages
    <3>4. Handled'
      <4>1. ready' \subseteq DOMAIN pending'
        BY <2>1, <2>3, <3>1, Entries DEF IInv
      <4> QED
        BY <2>3, <4>1 DEF IInv, Handled
    <3>5. Served' /\ CarrierPresent' /\ Referred'
      BY <2>1, <2>2, <2>3, <2>4 DEF IInv, Shape, Served, CarrierPresent, Referred, Alive, Public
    <3>6. ShutDown'
      BY <2>1, <2>3, <2>4 DEF IInv, ShutDown
    <3> QED
      BY <3>2, <3>3, <3>4, <3>5, <3>6 DEF IInv
  <2>5. CASE /\ Close({c}) /\ clientFd' = [clientFd EXCEPT ![target] = NoClient]
             /\ UNCHANGED <<active, handle, local, missing, pending, thr>>
    <3>1. Shape'
      BY <2>1, <2>3, <2>5 DEF IInv, Shape, Close
    <3>2. Stages'
      BY <2>2, <2>5, Closing, Entries DEF IInv, Stages, Fds
    <3>3. Handled' /\ ShutDown'
      BY <2>1, <2>3, <2>5 DEF IInv, Handled, ShutDown
    <3>4. Served' /\ CarrierPresent'
      BY <2>1, <2>3, <2>5 DEF IInv, Shape, Served, CarrierPresent, Alive, Public
    <3>5. Referred'
      <4>1. \A d \in Clients : on[d] \in Public /\ clientFd[on[d]] # NoClient
               => clientFd[on[d]] \in Clients
        BY DEF IInv, Shape, Public
      <4>2. target \in Public => clientFd[target] = c
        BY <2>1 DEF IInv, Served
      <4>3. \A d \in Clients : on[d] \in Public =>
              clientFd'[on[d]] = IF on[d] = target THEN NoClient ELSE clientFd[on[d]]
        BY <2>1, <2>5 DEF IInv, Shape, Public
      <4> QED
        BY <2>5, <4>1, <4>2, <4>3, Closing DEF IInv, Referred
    <3> QED
      BY <3>1, <3>2, <3>3, <3>4, <3>5 DEF IInv
  <2> QED
    BY <1>11, <2>4, <2>5 DEF Spawn
<1>12. CASE Accept
  <2>1. CASE UNCHANGED <<conns, pending>>
    BY <1>12, <2>1
       DEF Accept, IInv, Shape, Stages, Handled, Served, CarrierPresent, Referred, ShutDown, Alive, Public, Locked, Fds
  <2>2. ASSUME NEW c \in Clients, sock[c] = "queued", Close({c}), UNCHANGED pending PROVE IInv'
    <3>1. apc = "accept" /\ apc' = "top" /\ UNCHANGED <<mpc, mt, terms, thr, ready, target>>
      BY <1>12 DEF Accept
    <3>2. Shape'
      BY <2>2, <3>1 DEF IInv, Shape, Close
    <3>3. Stages'
      <4>1. c \notin Fds(pending) /\ thread[c] = "none"
        BY <2>2 DEF IInv, Stages, Fds
      <4> QED
        BY <2>2, <3>1, <4>1, Closing, Entries DEF IInv, Stages, Fds
    <3>4. Handled' /\ Served' /\ CarrierPresent' /\ ShutDown'
      BY <2>2, <3>1 DEF IInv, Handled, Served, CarrierPresent, ShutDown, Locked, Alive, Public
    <3>5. Referred'
      <4>1. \A d \in Clients : on[d] \in Public /\ clientFd[on[d]] # NoClient
               => clientFd[on[d]] \in Clients
        BY DEF IInv, Shape, Public
      <4> QED
        BY <2>2, <3>1, <4>1, Closing DEF IInv, Referred, Public
    <3> QED
      BY <3>2, <3>3, <3>4, <3>5 DEF IInv
  <2>3. ASSUME NEW c \in Clients, sock[c] = "queued", sock' = [sock EXCEPT ![c] = "open"], UNCHANGED <<peer, old>>,
               pending' = Append(pending, [fd |-> c, shown |-> Free])
        PROVE  IInv'
    <3> DEFINE p == [fd |-> c, shown |-> Free]
    <3>1. p \in PendingClient /\ p.fd = c /\ c \notin Fds(pending) /\ thread[c] = "none"
      <4>1. Free \in SUBSET Terminals
        BY DEF Free
      <4>2. c \notin Fds(pending)
        BY <2>3 DEF IInv, Stages, Fds
      <4> QED
        BY <2>3, <4>1, <4>2 DEF PendingClient, IInv, Stages
    <3> HIDE DEF p
    <3>2. /\ pending' \in Seq(PendingClient) /\ DOMAIN pending' = 1 .. (Len(pending) + 1)
          /\ pending'[Len(pending) + 1] = p /\ \A i \in DOMAIN pending : pending'[i] = pending[i]
      <4>1. pending \in Seq(PendingClient) /\ pending' = Append(pending, p)
        BY <2>3 DEF IInv, Shape, p
      <4> QED
        BY <3>1, <4>1
    <3>3. \A i \in DOMAIN pending' : i = Len(pending) + 1 \/ i \in DOMAIN pending
      BY <3>2, Entries DEF IInv
    <3>4. \A j, k \in DOMAIN pending' : pending'[j].fd = pending'[k].fd => j = k
      BY <3>1, <3>2, <3>3 DEF IInv, Shape, Fds
    <3>5. Fds(pending') = Fds(pending) \cup {c}
      <4>1. \A i \in DOMAIN pending' : pending'[i].fd \in Fds(pending) \cup {c}
        BY <3>1, <3>2, <3>3 DEF Fds
      <4>2. \A i \in DOMAIN pending : i \in DOMAIN pending' /\ pending'[i].fd = pending[i].fd
        BY <3>2, Entries DEF IInv
      <4>3. Len(pending) + 1 \in DOMAIN pending' /\ pending'[Len(pending) + 1].fd = c
        BY <3>1, <3>2, Entries DEF IInv
      <4> QED
        BY <4>1, <4>2, <4>3 DEF Fds
    <3>6. Shape'
      BY <1>12, <2>3, <3>2, <3>4 DEF Accept, IInv, Shape
    <3>7. Stages'
      <4>1. \A i \in DOMAIN pending' :
              thread[pending'[i].fd] = "none" /\ sock'[pending'[i].fd] \in {"open", "closed"}
        BY <2>3, <3>1, <3>2, <3>3 DEF IInv, Stages, Shape
      <4> QED
        BY <1>12, <2>3, <3>1, <3>5, <4>1 DEF Accept, IInv, Shape, Stages
    <3>8. Handled' /\ Served' /\ ShutDown'
      <4>1. apc = "accept" /\ apc' = "top" /\ UNCHANGED <<mpc, mt, terms, thr>>
        BY <1>12 DEF Accept
      <4> QED
        BY <4>1 DEF IInv, Handled, Served, ShutDown, Locked, Alive, Public
    <3>9. CarrierPresent' /\ Referred'
      BY <1>12, <2>3, <3>1, TelnetAssumption DEF Accept, IInv, Shape, CarrierPresent, Referred, Public
    <3> QED
      BY <3>6, <3>7, <3>8, <3>9 DEF IInv
  <2> QED
    BY <1>12, <2>1, <2>2, <2>3 DEF Accept
<1>13. CASE CleanUp
  <2>1. /\ pending' \in Seq(PendingClient) /\ DOMAIN pending' = {} /\ Fds(pending') = {}
    BY <1>13 DEF CleanUp, Fds
  <2>2. Shape' /\ Stages' /\ CarrierPresent' /\ Referred'
    BY <1>13, <2>1, PendingGo DEF CleanUp, IInv, Shape
  <2> QED
    BY <1>13, <2>2 DEF CleanUp, IInv, Handled, Served, ShutDown, Alive, Public, Locked
<1>14. ASSUME NEW i \in ready, PendingGone(i) \/ NoChoice(i) \/ Busy(i) PROVE IInv'
  <2>1. Receives(i) /\ UNCHANGED <<apc, target>> /\ ready' = ready \ {i}
    BY <1>14 DEF PendingGone, NoChoice, Busy, PendingTyped
  <2>2. \/ Close({pending[i].fd}) /\ pending' = Without(pending, i)
        \/ PendingTyped(i) /\ Taken(i) /\ UNCHANGED pending
        \/ PendingTyped(i) /\ Taken(i) /\ pending' = [pending EXCEPT ![i].shown = Free]
    BY <1>14 DEF PendingGone, NoChoice, Busy
  <2> QED
    BY <1>6, <1>7, <2>1, <2>2
<1> QED
  BY <1>1, <1>2, <1>3, <1>4, <1>5, <1>8, <1>9, <1>10, <1>11, <1>12, <1>13, <1>14 DEF AcceptThread

(* The thread of a client. *)
LEMMA ClientsKeepInv == ASSUME IInv, NEW c \in Clients, ClientThread(c) \/ Fail(c) PROVE IInv'
<1> USE DEF terms, conns, acc, thr, main
<1>1. ASSUME Client(c, "loop", "leave"), UNCHANGED <<terms, conns>> PROVE IInv'
  BY <1>1 DEF Client, IInv, Shape, Stages, Handled, Served, CarrierPresent, Referred, ShutDown,
              Alive, Public, Locked, Entry, Fds
<1>2. CASE LookAtFd(c)
  <2>1. thread' = [thread EXCEPT ![c] = thread'[c]] /\ thread[c] = "leave"
           /\ thread'[c] \in {"close", "hangup"}
    BY <1>2 DEF LookAtFd, Client, IInv, Shape
  <2>2. Stages'
    <3>1. c \notin Fds(pending)
      BY <2>1 DEF IInv, Stages, Fds
    <3>2. \A d \in Clients : (thread'[d] # "none") <=> (thread[d] # "none")
      BY <2>1 DEF IInv, Shape
    <3> QED
      BY <1>2, <3>2, Entries DEF LookAtFd, Client, IInv, Stages, Shape, Fds
  <2>3. \A d \in Clients : d # c => thread'[d] = thread[d]
    BY <2>1 DEF IInv, Shape
  <2>4. Shape' /\ Handled' /\ CarrierPresent' /\ Referred' /\ ShutDown'
    BY <1>2, <2>1, <2>3, SMTT(60)
       DEF LookAtFd, Client, IInv, Shape, Handled, CarrierPresent, Referred, ShutDown, Public, Locked
  <2>5. Served'
    BY <1>2, <2>1, <2>3, ZenonT(60) DEF LookAtFd, Client, IInv, Served, Alive, Public, Entry
  <2> QED
    BY <2>2, <2>4, <2>5 DEF IInv
<1>3. CASE CloseFd(c)
  <2>1. thread[c] = "close" /\ thread' = [thread EXCEPT ![c] = "unset"] /\ Close({clientFd[on[c]]})
        /\ UNCHANGED <<on, pending, acc, main, terms>>
    BY <1>3 DEF CloseFd, Client
  <2>2. \A d \in Clients : thread'[d] = IF d = c THEN "unset" ELSE thread[d]
    BY <2>1 DEF IInv, Shape
  <2>3. Shape'
    BY <2>1, <2>2 DEF IInv, Shape, Close
  <2>4. Stages'
    BY <2>1, <2>2, Closing, Entries DEF IInv, Stages, Fds
  <2>5. Handled' /\ Served' /\ CarrierPresent' /\ ShutDown'
    BY <2>1, <2>2 DEF IInv, Handled, Served, CarrierPresent, ShutDown, Alive, Locked, Entry, Public
  <2>6. Referred'
    <3>1. \A d \in Clients : on[d] \in Public /\ clientFd[on[d]] # NoClient
             => clientFd[on[d]] \in Clients
      BY DEF IInv, Shape, Public
    <3>2. clientFd[on[c]] \in Clients => sock'[clientFd[on[c]]] = "closed"
      BY <2>1 DEF Close
    <3> QED
      BY <2>1, <2>2, <3>1, <3>2, Closing DEF IInv, Referred, Public
  <2> QED
    BY <2>3, <2>4, <2>5, <2>6 DEF IInv
<1>4. CASE UnsetFd(c)
  BY <1>4, TelnetAssumption
     DEF UnsetFd, Client, IInv, Shape, Stages, Handled, Served, CarrierPresent, Referred, ShutDown, Alive, Public, Locked, Entry, Fds
<1>5. CASE HangUp(c)
  BY <1>5 DEF HangUp, Client, IInv, Shape, Stages, Handled, Served, CarrierPresent, Referred, ShutDown,
              Alive, Public, Locked, Entry, Fds
<1> QED
  BY <1>1, <1>2, <1>3, <1>4, <1>5 DEF ClientThread, Leave, Fail

(* What the operator does in the menu. *)
LEMMA MenuKeepsInv == ASSUME IInv, MenuKey PROVE IInv'
<1> USE DEF terms, conns, acc, thr, main
<1>1. ASSUME NEW t \in Menu, LookAtScreen(t) PROVE IInv'
  BY <1>1, TelnetAssumption
     DEF LookAtScreen, Main, IInv, Shape, Stages, Handled, Served, CarrierPresent, Referred, ShutDown, Alive, Public, Locked, Entry, Fds
<1>2. ASSUME NEW t \in Menu, Release(t) PROVE IInv'
  BY <1>2, TelnetAssumption
     DEF Release, Main, IInv, Shape, Stages, Handled, Served, CarrierPresent, Referred, ShutDown, Alive, Public, Locked, Entry, Fds
<1>3. ASSUME NEW t \in Menu, Disconnect(t) PROVE IInv'
  <2>1. /\ mpc = "run" /\ mpc' = "unset" /\ mt' = t /\ t \in Terminals /\ Close({clientFd[t]})
        /\ UNCHANGED <<acc, thr, terms, pending>>
    BY <1>3, TelnetAssumption DEF Disconnect, Main
  <2>2. Shape'
    BY <2>1 DEF IInv, Shape, Close
  <2>3. Stages'
    BY <2>1, Closing, Entries DEF IInv, Stages, Fds
  <2>4. Handled' /\ Served' /\ CarrierPresent' /\ ShutDown'
    BY <2>1 DEF IInv, Handled, Served, CarrierPresent, ShutDown, Alive, Locked, Entry, Public
  <2>5. Referred'
    <3>1. \A d \in Clients : on[d] \in Public /\ clientFd[on[d]] # NoClient
             => clientFd[on[d]] \in Clients
      BY DEF IInv, Shape, Public
    <3> QED
      BY <2>1, <3>1, Closing DEF IInv, Referred, Public
  <2> QED
    BY <2>2, <2>3, <2>4, <2>5 DEF IInv
<1>4. ASSUME NEW i \in DOMAIN pending, Drop(i) PROVE IInv'
  <2>1. Shape' /\ Stages' /\ CarrierPresent' /\ Referred'
    BY <1>4, OneGoes DEF Drop, Main, IInv, Shape
  <2> QED
    BY <1>4, <2>1 DEF Drop, Main, IInv, Handled, Served, ShutDown, Alive, Public, Locked
<1>5. CASE DropAll
  <2>1. /\ pending' \in Seq(PendingClient) /\ DOMAIN pending' = {} /\ Fds(pending') = {}
    BY <1>5 DEF DropAll, Fds
  <2>2. Shape' /\ Stages' /\ CarrierPresent' /\ Referred'
    BY <1>5, <2>1, PendingGo DEF DropAll, Main, IInv, Shape
  <2> QED
    BY <1>5, <2>2 DEF DropAll, Main, IInv, Handled, Served, ShutDown, Alive, Public, Locked
<1>6. CASE Stop
  BY <1>6 DEF Stop, Main, IInv, Shape, Stages, Handled, Served, CarrierPresent, Referred,
     ShutDown, Alive, Public, Locked, Entry, Fds
<1> QED
  BY <1>1, <1>2, <1>3, <1>4, <1>5, <1>6 DEF MenuKey

(* The menu's disconnection and telnet_stop(). *)
LEMMA MainKeepsInv == ASSUME IInv, MainGoesOn PROVE IInv'
<1> USE TelnetAssumption DEF terms, conns, acc, thr, main, Main, IInv, Alive, Public
<1>1. CASE Claim
  BY <1>1 DEF Claim, Shape, Stages, Handled, Served, CarrierPresent, Referred, ShutDown,
     Locked, Entry, Fds
<1>2. CASE DisconnectLook
  BY <1>2 DEF DisconnectLook, Shape, Stages, Handled, Served, CarrierPresent, Referred,
     ShutDown, Locked, Entry, Fds
<1>3. CASE DisconnectJoin
  BY <1>3 DEF DisconnectJoin, Shape, Stages, Handled, Served, CarrierPresent, Referred,
     ShutDown, Locked, Entry, Fds
<1>4. CASE StopJoinAccept
  BY <1>4 DEF StopJoinAccept, Shape, Stages, Handled, Served, CarrierPresent, Referred,
     ShutDown, Locked, Entry, Fds
<1>5. CASE DisconnectUnset
  BY <1>5 DEF DisconnectUnset, Shape, Stages, Handled, Served, CarrierPresent, Referred,
     ShutDown, Locked, Entry, Fds
<1>6. CASE DisconnectMark
  BY <1>6 DEF DisconnectMark, Shape, Stages, Handled, Served, CarrierPresent, Referred,
     ShutDown, Locked, Entry, Fds
<1>7. ASSUME NEW t \in Terminals, StopClose(t) PROVE IInv'
  <2>1. /\ mpc = "close" /\ mpc' = "join" /\ mt' = t /\ t > mt /\ \A u \in Terminals : u > mt => t <= u
        /\ Close({clientFd[t]}) /\ clientFd' = [clientFd EXCEPT ![t] = NoClient]
        /\ UNCHANGED <<acc, thr, active, handle, local, missing, pending>>
    BY <1>7 DEF StopClose
  <2>2. apc = "ended" /\ pending = <<>>
    BY <2>1 DEF ShutDown
  <2>3. Shape'
    BY <2>1 DEF Shape, Close
  <2>4. Stages'
    BY <2>1, Closing, Entries DEF Stages, Fds
  <2>5. Handled' /\ Served' /\ CarrierPresent'
    BY <2>1, <2>2 DEF Handled, Served, CarrierPresent, Locked
  <2>6. Referred'
    <3>1. \A d \in Clients : on[d] \in Public /\ clientFd[on[d]] # NoClient
             => clientFd[on[d]] \in Clients
      BY DEF Shape
    <3>2. \A d \in Clients : on[d] \in Public =>
            clientFd'[on[d]] = IF on[d] = t THEN NoClient ELSE clientFd[on[d]]
      BY <2>1 DEF Shape
    <3> QED
      BY <2>1, <3>1, <3>2, Closing DEF Referred
  <2>7. ShutDown'
    <3>1. \A u \in Public : u <= t => u <= mt \/ u = t
      BY <2>1 DEF Shape
    <3> QED
      BY <2>1, <2>2, <3>1 DEF Shape, ShutDown
  <2> QED
    BY <2>3, <2>4, <2>5, <2>6, <2>7
<1>8. CASE StopJoin
  BY <1>8 DEF StopJoin, Joined, Shape, Stages, Handled, Served, CarrierPresent, Referred,
     ShutDown, Locked, Entry, Fds
<1>9. CASE Stopped
  BY <1>9 DEF Stopped, Shape, Stages, Handled, Served, CarrierPresent, Referred, ShutDown,
     Locked, Entry, Fds
<1> QED
  BY <1>1, <1>2, <1>3, <1>4, <1>5, <1>6, <1>7, <1>8, <1>9 DEF MainGoesOn

(* telnet_start() leaves the server so. *)
LEMMA InvInit == Init => IInv
<1> SUFFICES ASSUME Init PROVE IInv
  OBVIOUS
<1>1. Shape
  <2>1. pending \in Seq(PendingClient) /\ DOMAIN pending = {}
    BY DEF Init
  <2> QED
    BY <2>1, TelnetAssumption DEF Init, Shape
<1> QED
  BY <1>1, TelnetAssumption
     DEF Init, IInv, Stages, Handled, Served, CarrierPresent, Referred, ShutDown, Locked, Alive, Public, Fds

(* The invariant is inductive. *)
LEMMA InvNext == IInv /\ [Next]_vars => IInv'
<1> SUFFICES ASSUME IInv, [Next]_vars PROVE IInv'
  OBVIOUS
<1>1. CASE UNCHANGED vars
  BY <1>1 DEF vars, terms, conns, acc, thr, main, IInv, Shape, Stages, Handled, Served,
     CarrierPresent, Referred, ShutDown,
              Alive, Public, Locked, Entry, Fds
<1>2. CASE Next
  BY <1>2, OutsideKeepsInv, AcceptKeepsInv, ClientsKeepInv, MenuKeepsInv, MainKeepsInv DEF Next
<1> QED
  BY <1>1, <1>2

(* What is known of the server in every state. *)
LEMMA InvAlways == Spec => []IInv
<1> QED
  BY InvInit, InvNext, PTL DEF Spec

(* A terminal the operator leaves alone is never served by two of the        *)
(* threads that client_thread_func() runs in, whatever the clients, the      *)
(* operator and the shutdown do.                                             *)
THEOREM ServedByOne == Spec => []OneThread
<1>1. IInv => OneThread
  BY DEF IInv, Served, OneThread
<1> QED
  BY <1>1, InvAlways, PTL

(* While client_thread_func() serves a client of such a terminal, the        *)
(* carrier that try_assign_pending() gave it has not been taken away again.  *)
THEOREM ServedWithCarrier == Spec => []CarrierPresent
<1>1. IInv => CarrierPresent
  BY DEF IInv
<1> QED
  BY <1>1, InvAlways, PTL

(* After telnet_stop() no socket is open that was ever accepted, those of    *)
(* the terminals of the menu apart.                                          *)
THEOREM StopClosesAll == Spec => []NoLeak
<1>1. IInv => NoLeak
  <2> SUFFICES ASSUME IInv, mpc = "stopped", NEW c \in Clients, sock[c] = "open"
               PROVE  on[c] \in Menu
    BY DEF NoLeak
  <2>1. pending = <<>> /\ Fds(pending) = {}
    BY DEF IInv, ShutDown, Fds
  <2>2. thread[c] # "none" /\ on[c] \in Terminals
    BY <2>1 DEF IInv, Stages
  <2>3. on[c] \notin Public
    BY <2>2, TelnetAssumption DEF IInv, Referred, ShutDown
  <2> QED
    BY <2>2, <2>3 DEF Public
<1> QED
  BY <1>1, InvAlways, PTL
=============================================================================
