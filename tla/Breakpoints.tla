---------------------------- MODULE Breakpoints ----------------------------
(***************************************************************************)
(* Breakpoints and watchpoints (src/src/cpu/cpu_bkpt.c): lists that the    *)
(* debugger edits, each with a filter in front of it that the CPU asks     *)
(* before it walks the list.  bpThreaded tells the two builds apart: with  *)
(* the debug adapter the edits come from a thread of their own that does   *)
(* not stop the CPU first; in the browser both run on one thread.          *)
(***************************************************************************)
EXTENDS Integers, Sequences, FiniteSets

CONSTANTS
  BpThreads,      \* the builds looked at, a subset of BOOLEAN
  PCs,            \* program addresses with breakpoints
  WatchAddrs,     \* addresses watched
  BpKinds,        \* what a breakpoint asks for: [type, cond, hit, log]
  MatchMax,       \* length of the lists of breakpoint_manager_check(): 10
  MaxBreakpoints, \* bound on the entries at a time
  WatchKinds,     \* [type, space, pil] of a watchpoint
  MaxWatchpoints, \* MAX_WATCHPOINTS
  PageOf(_),      \* address >> 10 of a physical watchpoint
  SkipHits        \* --watch-skip

ASSUME BpAssumption == BpThreads \subseteq BOOLEAN /\ MatchMax \in Nat \ {0}

VARIABLES
  bpThreaded,
  bpList,      \* the entries, newest first: [addr, kind]
  bpBits,      \* g_breakpoint_bitmap
  bpCount,     \* g_breakpoint_entry_count
  bpStep,      \* step_count, and g_breakpoint_step_pending
  bpHits,      \* `hits` of a bkpt_check_hit() under way, from i on
  bpMode,      \* "run" or "break", with the stop reason
  bpLast,      \* last_hit_valid and last_hit_address
  wpList,      \* s_watchpoints, the first g_watchpoint_count
  wpBits,      \* g_watchpoint_bitmap
  wpSkip,      \* g_watchpoint_skip_hits
  physList,    \* phys_watchpoints
  physBits     \* g_phys_watchpoint_pagemap

bpVars == <<bpThreaded, bpList, bpBits, bpCount, bpStep, bpHits, bpMode, bpLast,
            wpList, wpBits, wpSkip, physList, physBits>>
bpLists == <<bpList, bpBits, bpCount>>
wpLists == <<wpList, wpBits, wpSkip, physList, physBits>>

Running == [mode |-> "run", reason |-> "none"]
Stopped(r) == [mode |-> "break", reason |-> r]
NoAddr == -1
NoHitCondition == -1

BpInit ==
  /\ bpThreaded \in BpThreads
  /\ bpList = <<>> /\ bpBits = {} /\ bpCount = 0 /\ bpStep = 0 /\ bpHits = <<>>
  /\ bpMode = Running /\ bpLast = NoAddr
  /\ wpList = <<>> /\ wpBits = {} /\ wpSkip = SkipHits /\ physList = <<>> /\ physBits = {}
-----------------------------------------------------------------------------
Temporary(e) == e.kind.type = "temporary"
AddrsOf(list) == {list[i].addr : i \in DOMAIN list}

\* The entries of a list at the places K, in their order.
Rising(f) == \A j, k \in DOMAIN f : j < k => f[j] < f[k]
Enumerates(f, K) == Rising(f) /\ \A i \in K : \E k \in DOMAIN f : f[k] = i
Kept(list, K) ==
  LET f == CHOOSE f \in UNION {[1 .. n -> K] : n \in 0 .. Len(list)} : Enumerates(f, K)
  IN  [k \in DOMAIN f |-> list[f[k]]]

\* The debugger's edits: while the CPU looks at an entry only from another thread.
Edits == bpHits = <<>> \/ bpThreaded

(* breakpoint_bitmap_rebuild() after the entries that go are unlinked. *)
Rebuilt(list) == bpList' = list /\ bpBits' = AddrsOf(list) /\ bpCount' = Len(list)

\* Add without looking for a temporary one that is there already.
BadBkptAdd(a, k) ==
  /\ Edits /\ Len(bpList) < MaxBreakpoints
  /\ bpList' = <<[addr |-> a, kind |-> k]>> \o bpList
  /\ bpBits' = bpBits \cup {a} /\ bpCount' = bpCount + 1
  /\ UNCHANGED <<bpThreaded, bpStep, bpHits, bpMode, bpLast, wpLists>>
(* bkpt_manager_add() *)
BkptAdd(a, k) ==
  /\ Edits /\ Len(bpList) < MaxBreakpoints
  /\ ~(k.type = "temporary" /\ \E i \in DOMAIN bpList : bpList[i].addr = a /\ Temporary(bpList[i]))
  /\ bpList' = <<[addr |-> a, kind |-> k]>> \o bpList
  /\ bpBits' = bpBits \cup {a} /\ bpCount' = bpCount + 1
  /\ UNCHANGED <<bpThreaded, bpStep, bpHits, bpMode, bpLast, wpLists>>

(* bkpt_manager_remove(): of one type, or of all. *)
Without(a, type) ==
  Kept(bpList, {i \in DOMAIN bpList : ~(bpList[i].addr = a /\ type \in {bpList[i].kind.type, "all"})})
\* Remove that takes the address out of the filter whatever is left there.
BadBkptRemove(a, type) ==
  /\ Edits /\ bpList' = Without(a, type) /\ bpBits' = bpBits \ {a} /\ bpCount' = Len(bpList')
  /\ UNCHANGED <<bpThreaded, bpStep, bpHits, bpMode, bpLast, wpLists>>
BkptRemove(a, type) ==
  /\ Edits /\ Rebuilt(Without(a, type))
  /\ UNCHANGED <<bpThreaded, bpStep, bpHits, bpMode, bpLast, wpLists>>

(* bkpt_manager_clear() and bkpt_manager_clear_type(). *)
BkptClear ==
  /\ Edits /\ bpList' = <<>> /\ bpBits' = {} /\ bpCount' = 0
  /\ UNCHANGED <<bpThreaded, bpStep, bpHits, bpMode, bpLast, wpLists>>
BkptClearType(type) ==
  /\ Edits /\ Rebuilt(Kept(bpList, {i \in DOMAIN bpList : bpList[i].kind.type # type}))
  /\ UNCHANGED <<bpThreaded, bpStep, bpHits, bpMode, bpLast, wpLists>>

(* The debugger lets a stopped CPU go on, with bkpt_manager_step_one() or    *)
(* without, and reads which breakpoint it was (bkpt_manager_get_last_hit()). *)
BkptStepOne ==
  /\ bpMode # Running /\ bpStep' = 1 /\ bpMode' = Running
  /\ UNCHANGED <<bpThreaded, bpLists, bpHits, bpLast, wpLists>>
BkptContinue ==
  /\ bpMode # Running /\ bpMode' = Running
  /\ UNCHANGED <<bpThreaded, bpLists, bpStep, bpHits, bpLast, wpLists>>
GetLastHit ==
  /\ bpLast # NoAddr /\ bpLast' = NoAddr
  /\ UNCHANGED <<bpThreaded, bpLists, bpStep, bpHits, bpMode, wpLists>>
-----------------------------------------------------------------------------
(* breakpoint_manager_check(): the walk ends when either list is full, and   *)
(* temporary ones hide the others.                                           *)
Walked(a) ==
  LET here == {i \in DOMAIN bpList : bpList[i].addr = a}
      Before(i, temporary) == {j \in here : j < i /\ Temporary(bpList[j]) = temporary}
  IN  {i \in here : \A temporary \in BOOLEAN : Cardinality(Before(i, temporary)) < MatchMax}
Matches(a) ==
  LET temporary == {i \in Walked(a) : Temporary(bpList[i])}
  IN  Kept(bpList, IF temporary # {} THEN temporary ELSE Walked(a))

(* cpu_run() has executed an instruction and is at a: the filter, and the    *)
(* head of bkpt_check_hit().                                                 *)
CpuAt(a) ==
  /\ bpMode = Running /\ bpHits = <<>>
  /\ IF bpStep > 0
       THEN /\ bpStep' = 0 /\ bpMode' = Stopped("step")
            /\ UNCHANGED <<bpHits>>
       ELSE /\ bpCount > 0 /\ a \in bpBits /\ bpHits' = Matches(a)
            /\ UNCHANGED <<bpStep, bpMode>>
  /\ UNCHANGED <<bpThreaded, bpLists, bpLast, wpLists>>

(* One turn of its loop.  hitCount stays 0, so a hit condition asks for 0.   *)
(* An entry that another thread has freed meanwhile still reads as it was.   *)
StopReason(type) == IF type = "temporary" THEN "step" ELSE type
BkptHit ==
  /\ bpHits # <<>>
  /\ LET e == Head(bpHits)
         hitOk == e.kind.hit \in {NoHitCondition, 0}
     IN  \E condOk \in (IF e.kind.cond THEN BOOLEAN ELSE {TRUE}) :
           LET met == condOk /\ hitOk IN
           /\ IF met /\ ~e.kind.log
                THEN bpMode' = Stopped(StopReason(e.kind.type)) /\ bpLast' = e.addr
                ELSE UNCHANGED <<bpMode, bpLast>>
           /\ IF met /\ Temporary(e) THEN Rebuilt(Without(e.addr, "temporary"))
                                     ELSE UNCHANGED bpLists
  /\ bpHits' = Tail(bpHits) /\ UNCHANGED <<bpThreaded, bpStep, wpLists>>
-----------------------------------------------------------------------------
SameWatch(w, a, k) == w.addr = a /\ w.kind.space = k.space /\ w.kind.pil = k.pil

(* bkpt_watchpoint_add(), bkpt_watchpoint_remove(): the last takes the place *)
(* of the first one at the address; bkpt_watchpoint_clear().                 *)
WatchAdd(a, k) ==
  /\ IF \E i \in DOMAIN wpList : SameWatch(wpList[i], a, k)
       THEN /\ wpList' = [i \in DOMAIN wpList |->
                            IF SameWatch(wpList[i], a, k) THEN [addr |-> a, kind |-> k] ELSE wpList[i]]
            /\ UNCHANGED wpBits
       ELSE /\ Len(wpList) < MaxWatchpoints
            /\ wpList' = Append(wpList, [addr |-> a, kind |-> k]) /\ wpBits' = wpBits \cup {a}
  /\ UNCHANGED <<bpThreaded, bpLists, bpStep, bpHits, bpMode, bpLast, wpSkip, physList, physBits>>

FirstAt(list, a) == CHOOSE i \in DOMAIN list :
                      list[i].addr = a /\ \A j \in 1 .. (i - 1) : list[j].addr # a
SwapRemove(list, i) == [k \in 1 .. (Len(list) - 1) |-> IF k = i THEN list[Len(list)] ELSE list[k]]

WatchRemove(a) ==
  /\ a \in AddrsOf(wpList) /\ wpList' = SwapRemove(wpList, FirstAt(wpList, a))
  /\ wpBits' = AddrsOf(wpList')
  /\ UNCHANGED <<bpThreaded, bpLists, bpStep, bpHits, bpMode, bpLast, wpSkip, physList, physBits>>
WatchClear ==
  /\ wpList' = <<>> /\ wpBits' = {}
  /\ UNCHANGED <<bpThreaded, bpLists, bpStep, bpHits, bpMode, bpLast, wpSkip, physList, physBits>>

(* The CPU reads or writes at level pil, with or without the alternative     *)
(* page table: the filter, bkpt_watchpoint_check_slow(), and the stop.       *)
Matched(w, a, write, apt, pil) ==
  /\ w.addr = a /\ w.kind.pil \in {-1, pil}
  /\ ~(w.kind.space = "i" /\ apt) /\ ~(w.kind.space = "d" /\ ~apt)
  /\ w.kind.type \in {"readwrite", IF write THEN "write" ELSE "read"}
WatchAccess(a, write, apt, pil) ==
  /\ bpMode = Running /\ wpList # <<>> /\ a \in wpBits
  /\ \E i \in DOMAIN wpList : Matched(wpList[i], a, write, apt, pil)
  /\ IF wpSkip > 0 THEN wpSkip' = wpSkip - 1 /\ UNCHANGED bpMode
                   ELSE bpMode' = Stopped("data") /\ UNCHANGED wpSkip
  /\ UNCHANGED <<bpThreaded, bpLists, bpStep, bpHits, bpLast, wpList, wpBits, physList, physBits>>

(* The same for physical addresses, with a filter by page and no space. *)
PhysAdd(a, k) ==
  /\ IF \E i \in DOMAIN physList : physList[i].addr = a /\ physList[i].kind.pil = k.pil
       THEN /\ physList' = [i \in DOMAIN physList |->
                              IF physList[i].addr = a /\ physList[i].kind.pil = k.pil
                                THEN [addr |-> a, kind |-> k] ELSE physList[i]]
            /\ UNCHANGED physBits
       ELSE /\ Len(physList) < MaxWatchpoints
            /\ physList' = Append(physList, [addr |-> a, kind |-> k])
            /\ physBits' = physBits \cup {PageOf(a)}
  /\ UNCHANGED <<bpThreaded, bpLists, bpStep, bpHits, bpMode, bpLast, wpList, wpBits, wpSkip>>
PagesOf(list) == {PageOf(list[i].addr) : i \in DOMAIN list}
PhysRemove(a) ==
  /\ a \in AddrsOf(physList) /\ physList' = SwapRemove(physList, FirstAt(physList, a))
  /\ physBits' = PagesOf(physList')
  /\ UNCHANGED <<bpThreaded, bpLists, bpStep, bpHits, bpMode, bpLast, wpList, wpBits, wpSkip>>
PhysClear ==
  /\ physList' = <<>> /\ physBits' = {}
  /\ UNCHANGED <<bpThreaded, bpLists, bpStep, bpHits, bpMode, bpLast, wpList, wpBits, wpSkip>>
PhysAccess(a, write, pil) ==
  /\ bpMode = Running /\ physList # <<>> /\ PageOf(a) \in physBits
  /\ \E i \in DOMAIN physList : /\ physList[i].addr = a /\ physList[i].kind.pil \in {-1, pil}
                                /\ physList[i].kind.type \in {"readwrite", IF write THEN "write" ELSE "read"}
  /\ bpMode' = Stopped("data")
  /\ UNCHANGED <<bpThreaded, bpLists, bpStep, bpHits, bpLast, wpLists>>

BpTypes == {k.type : k \in BpKinds}
BreakNext ==
  \/ \E a \in PCs, k \in BpKinds : BkptAdd(a, k)
  \/ \E a \in PCs, t \in BpTypes \cup {"all"} : BkptRemove(a, t)
  \/ BkptClear \/ \E t \in BpTypes : BkptClearType(t)
  \/ BkptStepOne \/ BkptContinue \/ GetLastHit
  \/ \E a \in PCs : CpuAt(a)
  \/ BkptHit
WatchNext ==
  \/ \E a \in WatchAddrs, k \in WatchKinds : WatchAdd(a, k) \/ PhysAdd(a, k)
  \/ \E a \in WatchAddrs : WatchRemove(a) \/ PhysRemove(a)
  \/ WatchClear \/ PhysClear \/ BkptContinue
  \/ \E a \in WatchAddrs, write \in BOOLEAN, apt \in BOOLEAN, pil \in {0, 1} : WatchAccess(a, write, apt, pil)
  \/ \E a \in WatchAddrs, write \in BOOLEAN, pil \in {0, 1} : PhysAccess(a, write, pil)
-----------------------------------------------------------------------------
BpEntry == [addr : PCs, kind : BpKinds]
BpTypeOK ==
  /\ bpThreaded \in BpThreads /\ \A i \in DOMAIN bpList : bpList[i] \in BpEntry
  /\ bpBits \subseteq PCs /\ bpCount \in 0 .. MaxBreakpoints /\ bpStep \in {0, 1}
  /\ bpLast \in PCs \cup {NoAddr} /\ bpMode.mode \in {"run", "break"}
  /\ wpSkip \in 0 .. SkipHits /\ Len(wpList) <= MaxWatchpoints /\ Len(physList) <= MaxWatchpoints

(* A filter lets through exactly what the list behind it has: no breakpoint  *)
(* or watchpoint is passed by because another one was removed.               *)
FiltersComplete ==
  /\ bpBits = AddrsOf(bpList) /\ bpCount = Len(bpList)
  /\ wpBits = AddrsOf(wpList) /\ physBits = PagesOf(physList)

(* bkpt_check_hit() goes on through its list of hits after it has removed    *)
(* and freed the temporary breakpoints there: none that it still has to look *)
(* at is one of them, unless another thread frees it.                        *)
HitsAlive == ~bpThreaded => \A i \in DOMAIN bpHits : \E j \in DOMAIN bpList : bpList[j] = bpHits[i]
=============================================================================
