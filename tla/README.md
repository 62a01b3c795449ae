# ND-100X in TLA+

A verification development for the ND-100X emulator (`src/`): TLA+ models of the parts of
the emulator that decide *when* things happen and *who may touch what*, TLC configurations
that check them on small instances, and TLAPS proofs that hold for every instance.

Paths below are relative to the emulator's `src/` directory inside the repository
(`cpu/cpu.c` is `src/src/cpu/cpu.c` as PROJECT.json counts it).

## 1. The system

The emulator is one C program. Its **CPU thread** (which is the main thread) runs

    main loop (nd100x.c) -> machine_run() -> cpu_run() -> one instruction -> IO_Tick() -> devices

and other host threads work beside it: one per telnet client, the telnet accept thread, the
DAP debugger thread, network and modem threads, one runner per ND-5000 slot.

| component | state | operations | correct when |
|---|---|---|---|
| CPU interrupt system (`cpu/cpu.c`, `cpu_regs.c`, `cpu_instr.c`) | PIE, PID, IIE, IID, Z of each level, PIL, the interrupt switch, `gCHKIT`, run mode | MCL, MST, TRR, TRA IIC, ION, IOF, WAIT, MON, LRB/IRW, traps, faults by `longjmp()`, `check_and_switch()`, `IO_Tick()` | the running level is the highest enabled and requested one at every instruction, although it is recomputed only when `gCHKIT` is set |
| device manager (`devices/devicemanager.c`, `device.c`) | the tick list, `g_dev_tick_wanted`, the saved OR of the interrupt bits with its dirty flag, I/O delays | `devmgr_tick()`, `dev_request_tick()`, `dev_queue_io_delay()`, IDENT | a device with work is ticked, in the order and the passes in which the plain walk would tick it; no request of another thread is lost |
| machine (`machine/io.c`, `machine.c`) | the devices' request lines against PID | `IO_Tick()`, IDENT, `machine_run()` | a request preempts lower levels and is identified |
| debugger handshake (`debugger/debugger.c`, `cpu/cpu_bkpt.c`, `machine.c`, `cpu.c`) | pause request, grant, run mode, stop reason, pending step | DAP commands, time-outs, breakpoints, watchpoints, end of the server | a command never runs beside an instruction; a pause is answered; a stop is reported |
| telnet server (`ndlib/telnetserver.c`) | terminals, pending list, sockets, threads | accept, menu choice, ageing, client thread, disconnect, stop | one client thread per terminal, carrier while it is served, no socket left open, `telnet_stop()` returns |
| front end, operator menu (`frontend/nd100x`) | local screens, quit | claim, release, disconnect, drop pending, stop | as above: it is the telnet server's third actor |
| terminal (`devices/terminal`) | UART registers, input queue shared with the telnet thread | IOX, tick, queue a key | every key once and in order; output does not starve input; the interrupt follows status and control |
| real-time clock (`devices/rtc`) | next pulse, counter, control | IOX, tick, the host's clock | missed pulses are made up for within a bound; the program cannot hold the clock up |
| line printer, paper tape, tape writer, panel | status and control registers, delays, the panel's text and clock | IOX, tick, TRR PANC | an enabled, ready device interrupts |
| memory management (`cpu/cpu_mms.c`, `cpu_regs.c`) | page tables in shadow RAM, PGS, PEA and PES with their locks | translation, marks, ring checks, faults | no access outside the tables in any mode; a written page stays marked |
| physical memory (`cpu/cpu_mms.c`) | bank table, bus lock | windows laid over memory, moved, removed; TSET | every word has one bank; a semaphore has one owner |
| breakpoints and watchpoints (`cpu/cpu_bkpt.c`) | lists, filters, hits | add, remove, check | a filter never hides an entry; a hit is not freed while it is used |
| floppy, SMD, Winchester, CDC, drum | command, busy, seek state, delays | IOX, completion callbacks | an operation in progress has what will end it, its end is told, no transfer leaves the surface |
| SCSI adapter, bus, targets (`devices/scsi`) | bus lines, phases, NCR 5386 registers | selection, phases, reset | each byte passes once and in order; a connection frees the bus |
| HDLC and modem (`devices/hdlc`) | DMA lists, receive queue, modem thread | IOX, DMA steps, frames | each frame once, in order and whole, and its driver is told |
| Ethernet (`devices/ethernet`) and host bridge (`devices/ethernet/net`) | LANCE rings, host receive ring, TCP link with its thread | DMA, interrupts, host frames, connect, stop | frames in order and whole; nothing is written to a closed socket; a stop returns |
| octobus and ND-5000 bridge (`devices/octobus`, `machine/mfbus_bridge.c`) | message queues, deferred messages, context blocks, runner threads, engine lock | start, kick, stop, reset, resume | no message is forgotten; a process goes on from its newest registers; no wait in a circle |
| instruction set, disassembler, expressions, configuration, loaders, WebAssembly front end | mostly none that outlives a call | sequential functions | result equals the architecture's definition |

How they interact: devices raise interrupt bits, `IO_Tick()` ORs them into PID once per
instruction, the CPU switches level, the program executes IDENT, which asks the device manager
which device it was and clears that device's bit. Telnet threads and the debugger queue keys in
a terminal and set `g_dev_tick_wanted`. The debugger thread shares three flags, the run mode and
the stop reason with the CPU thread. The menu works on the telnet server's data from the CPU
thread. Network, modem and ND-5000 threads hand frames and stops to the CPU thread through rings,
flags and one engine lock.

What is hard: the level is recomputed lazily and a fault leaves by `longjmp()` past the end of the loop; flags
are shared between threads with and without atomics; two flags are published one after the other while a third
party polls one of them; a poll set goes stale while its answers are handled; threads are joined by others
that hold a lock; a device clear takes back no callback, so the end of one operation meets the next; a write
to a SCSI line calls the other end back before it returns; two sides walk one ring or list, each with its own
idea of the place. PROJECT.json lists these hazards with their lines and the properties that catch them.

## 2. The modules

| module | models | remarks |
|---|---|---|
| `NDInterrupt` | the interrupt system, one turn of `cpu_run()` in three phases: `check` is `check_and_switch()`, `exec` the instruction, `io` is `IO_Tick()` | one action per kind of instruction; a program is any sequence of them |
| `InterruptPriority` | abstract: the level is settled at every instruction boundary | implemented by `NDInterrupt` |
| `NDMachineProofs` | theorems about `NDInterrupt` and `NDMachine` | |
| `Devices` | I/O delays, input and interrupt bit of devices; what one Tick does | shared by the next two |
| `TableWalk` | abstract: every pass walks over the whole device table | implemented by `DeviceTick` |
| `DeviceTick` | `devmgr_tick()`, `devmgr_take_requests()`, with other threads | one action per step between which another thread can be seen |
| `DeviceTickProofs` | theorems about `DeviceTick` | |
| `NDMachine`, `MCNDMachine` | composes `NDInterrupt` with request lines, IDENT and resident drivers | the system a driver's author reasons about |
| `DebugHandshake` | CPU thread and debugger thread | one action per shared read or write |
| `DebugHandshakeProofs` | theorems about `DebugHandshake` | |
| `TelnetServer` | accept thread, client threads, main thread | one action per section between locks, joins and unlocked accesses |
| `TelnetServerProofs` | theorems about `TelnetServer` | |
| `Terminal`, `RealTimeClock`, `PaperDevices`, `Panel` | the slow peripherals | composed by `MCPeripherals` |
| `PeripheralProofs` | theorems about `MCPeripherals`, its parts and `Nd5000Bridge` | |
| `MemoryManagement`, `FaultRegisters`, `MemoryBanks`, `TestAndSet`, `Breakpoints` | the CPU's memory side | composed by `MCMemory` |
| `MemoryProofs` | theorems about `MCMemory` and its parts | |
| `SmdDisk`, `HardDisks`, `Floppies` | six disk and floppy controllers | composed by `Disks`, which `MCControllers` extends |
| `Scsi` | adapter, NCR 5386, bus and one target | in `MCControllers` |
| `Ethernet`, `EthLink` | the LANCE with its rings; the TCP link with its thread | in `MCControllers` |
| `Hdlc` | the HDLC card's DMA lists against their driver | in `MCControllers` |
| `ScsiProofs` | theorems about `Scsi` | |
| `ControllerProofs` | theorems about `MCControllers` and its other parts | extends `ScsiProofs` |
| `Nd5000Bridge` | ND-5000 CPUs on host threads against the ND-100's thread | a specification of its own |

`MCPeripherals`, `MCMemory` and `MCControllers` put components into one run that share nothing
but the machine that ticks them. A variable, chosen by `Init`, says which of them the behaviour
is about; the others stand still. The state spaces add up instead of multiplying, and a property
of the run is a conjunction of the components' own.

### Correspondence with the code

*NDInterrupt.* Variables carry the registers' names in lower case; `z` is the Z bit of STS on each level;
registers are sets of bit numbers. `Recalc` is `recalc_internal_interrupt_bits()`, `Raise` is
`cpu_interrupt()` on level 14, `PK` is `calc_pk()`. `Fault` goes back to `check` without `io`, as `longjmp()`
does. Each register write sets `chkit'` exactly where the C code sets `gCHKIT`; in particular the transfers to
STS do not. The history variable `unseen` records that Z of the running level was set by such a transfer, or
came into force with the level, and that no recomputation has looked since; no guard reads it. A memory error
(a word that is not there, a wrong check code) lets an instruction end, and is also met by a device's
transfer, outside any instruction (`DmaError`). Power fail, source 10, is raised nowhere in the code. Left
out: general registers and memory, the previous level `gPVL` (nothing here reads it), and which ring a program
is in: whether an instruction is refused is a choice. The debugger's run modes are in `DebugHandshake`.

*Devices, DeviceTick.* A device is its place in the table. `list` is `s_tick_list`, a set
because `devmgr_rebuild_tick_list()` keeps it in table order; `order` is the tick order of the
device served last, which is how the C loop finds its place again after a rebuild. `wanted` and
`pending` are `g_dev_tick_wanted` as memory holds it and the CPU thread's store that is not
visible yet. A device has at most one delay at a time and its queue is a count. The C array
holds 64 devices; the table of the model is smaller than that.

*NDMachine.* `line` holds the devices whose interrupt bit is set, `prog` where each level's
program is: the background program executes MON, IOX and instructions that leave the interrupt registers
alone, with page faults, traps and IOF/ION sections; a driver executes IDENT and WAIT, level 14 executes
TRA IIC and WAIT. PIE, PID, IIE and Z are the operating system's, which has set them up; every program of those
instructions is in `NDInterrupt`.

*DebugHandshake.* `cpc` and `dpc` are program counters of the two threads. The flags are
accessed with C11 atomics in the code, so single accesses are single steps. Two things are
coarser than the code: `ensure_cpu_running()` reads the run mode and then writes it, one step
here; the debugger's own bookkeeping moves with the shared access next to it. The DAP server
library is not part of the repository; it calls the wait/command/release callbacks in that order
and polls for CPU events between commands, and begins no command once the main loop has ended.
A finished instruction may hit a breakpoint or not: the choice stands for the breakpoint list.

*TelnetServer.* A connection is called by its client's name and descriptor numbers are not
reused. Terminals in `Menu` are the ones the operator claims, releases and disconnects; the
others are never touched by the menu. The look at a terminal and the claim are two steps, as
in the code, so a menu terminal can end up with both owners: the one-thread and
carrier properties are about the other terminals. Fields without atomics are sequentially
consistent. Output and option negotiation are left out.

*Terminal.* `ttyBuf`, `ttyHead`, `ttyTail`, `ttyCount` are the host-side queue; the count is
loaded and stored in two steps by either thread when the queue is shared (`ttyShared`), and in
one when the main loop fills it. Keys are numbered modulo `KeyNumbers`, so that an order can be
stated without an end to the run. A tick moves the line time, the delayed end of a character
sent and at most one key to the UART, in the code's order.

*RealTimeClock.* Host time enters only as differences: how far the next pulse is from now and how
long ago the clock was read. Both time bases and the batches in which `clock_gettime()` is called
are there.

*PaperDevices, Panel.* Reader and printer answer within the IOX, the punch ends later. The
panel's clock is derived from an instant of the host's, out of a set that straddles noon and
midnight.

*MemoryManagement, FaultRegisters.* The geometry (pages, tables in either mode) is a
parameter. A word of the shadow RAM is a record of the fields an entry may have in it, because
the two formats overlap in it. Faults are outcomes of a translation; which error registers
they load, and under which lock, is `FaultRegisters` on its own.

*MemoryBanks.* The table is a sequence of intervals, as in `cpu_mms.c`; splitting, the pieces
left behind and refusals are translated. Cards ask to be placed, moved and removed in any order.

*TestAndSet.* `TSET` is a locked read and an exchange; the lock is the mutex of the shared memory.
The other CPUs take the semaphore with one exchange and release it with an ordinary store.

*Breakpoints.* Both lists with their filters (a bit per address, or per page for watchpoints), the
match count, temporary entries and the skip after a resume. `bpThreaded` tells the two builds
apart: the debug adapter edits from a thread of its own.

*SmdDisk, HardDisks, Floppies.* A control word starts an operation, whether one is active or not,
and callbacks queued before a clear still come. What an operation finds (no drive, bad address,
failed transfer) is a choice; every way it ends is an action. For the CDC and the drum, which
keep their surface in memory, the address and count of a transfer are kept with the width of the
code's unsigned arithmetic.

*Scsi.* Chip and target are two state machines that meet on the bus lines. A write to a line calls
the other end back before it returns, so steps are functions from state to state, nested as
the calls are. Bytes are their numbers in the data phase. The program is external: it follows the
phases, chooses DMA or single bytes, and may give up at any point.

*Ethernet, EthLink.* Both descriptor rings with their owners, the queue in front of the receive ring, polls,
interrupts, stop and start; the firmware is external and owns the other half of the rings. It gives several
frames before it asks for a poll or one poll per frame, and writes CSR0 whenever it likes; `fw.unasked` counts
the frames it has given and not asked a poll for. `EthLink` has one action per access to `conn`, `active` and
`stop_requested`. The sender and the link's thread are threads of the emulator, so nothing orders them but the
lock: a send may outlast a disconnection and the next handshake. The history variable `late` records that one
has begun before the connection in use and has not found out, or has told that connection inactive.

*Hdlc.* The receive list is a row of blocks with a "new list" key behind them, `hmem.key` what
memory holds and `hrx.dcb` the copy the receiver has loaded; a frame fills one block or two. One
`RxTick` is one call of `dma_receiver_process_buffered_data()`. The driver is external: it reads
the status, takes full blocks in the order of the list, gives them back and, when the list ran
empty, begins it anew.

*Nd5000Bridge.* `newest[p]` says where the newest registers of a process are: in its context block, on a CPU,
or both. Messages, kicks, resets and starts reach the ND-100's thread, which walks the queues under the engine
lock; a CPU's thread takes the lock to park and report. A report that the servicer refuses takes the park
back, for a trap only after the lock is given up (`HostUndo`), and a kick from another thread, which looks
without the lock, may see the park in between (`SeemsParked`). Messages that read or write a process's memory
make a parked CPU switch to it (`TakesCopy`). SINTRAN, the queue's servicer and the runner are external and
modelled from the calls made to them. The history variable `mixed` holds the processes of which the code
itself has let two copies pass for the newest, from the step that does so until the process starts from its
block; section 5 names the three paths. `LiveResets` says whether SINTRAN resets a CPU that executes, which
`BridgeReset` needs and `Nd5000Bridge` leaves out, because the emulator then may stand still. Other frames
than kicks that a program of an ND-5000 sends by itself, resets included, are left out.

Three modules have a constant ending in `Rare`: `ScsiRare` (what the program does to the adapter), `EthRare`
(the order in which the firmware gives the buffers of a frame) and `HdlcRare` (what driver and line do). Each
names things that a program inside the emulated machine, or the other end of a line, may do and under which a
property does not hold; the passing runs leave it empty and thereby say what they assume of them. Nothing that
the emulator's own code or threads do is excluded this way. Section 5 lists what each of them leads to.

## 3. The runs

| run | instance | shows |
|---|---|---|
| `NDInterrupt` | levels 0, 14, 15; a device on 15; sources MON, page fault, Z, memory out of range: 4.4 million states | `PriorityRule`, `InternalPreempts`, `NothingForgotten`, `LevelFrozen`, and the refinement `ImplementsPriority` |
| `DeviceTick` | three devices (one always ticked, two with queues), delay 1, one unit of input, sequentially consistent | `NoRequestLost`; `InputServed` under fairness |
| `DeviceTickWeak` | three devices (plain, always ticked, queued), delays up to 3, store buffer | `IrqCoherent` and the refinement `ImplementsWalk`: neither depends on the memory model |
| `MCNDMachine` | two devices on each of levels 12 and 13, four sources | `LinePreempts`; `RequestServed` under fairness |
| `DebugHandshake` | slice of 3 instructions, poll every 4 turns, faults, line steps | `ExclusiveCpu`; `PauseAnswered`, `StopReported` under fairness |
| `TelnetServer` | two terminals, one of them the menu's; two clients; pending list of two | `OneThread`, `CarrierPresent`, `NoLeak`; `StopEnds` under fairness: 468 thousand states |
| `MCPeripherals` | one of terminal, clock, paper devices, panel: 217 thousand states | `OwnKeysInOrder`: every key once and in order; `InterruptsCoherent`: no enabled and ready direction of terminal, printer or tape is without its interrupt bit, and the clock's stands only with an enabled pulse; `RtcBacklogBounded`: overdue pulses are bounded; under fairness `KeyArrives` (output does not starve input) and `RtcPulseComes` (the program cannot hold the clock up) |
| `MCMemory` | one of translation, error registers, banks, TSET, breakpoints: 123 thousand states | `ShadowInBounds`, `WrittenIsMarked`, `LowRingsKeepTables`: the shared shadow RAM in all modes; `BanksConsistent`; `SemaphoreOwned`, and `BusComesBack` under fairness; `FiltersComplete`, `HitsAlive` |
| `MCControllers` | one of the SMD, three hard disks, two floppies, SCSI, LANCE, network link, HDLC receiver, HDLC transmitter: 273 thousand states | `OperationsEnd`: an operation in progress on a disk or floppy has what will end it; `InterruptsTold`: an end is told; `WithinSurface`; `DataInOrder`: bytes and frames once, in order, whole, and a SCSI chip and bus that agree on where they are; `LinksSound`; `OperationsOver` under fairness |
| `Nd5000Bridge` | two CPUs, two processes: 200 thousand states | `WorkKept`; `ResumesNewest`, also after two copies were mixed up and the process started anew; `MessageServed` under fairness |
| `DebugKeyboard` | slice 2, poll 1, no faults, no line steps | `KeyboardServed` is violated (finding) |
| `BridgeReset` | two CPUs, a reset of one that executes | `NoWaitCycle` is violated (finding) |

### Why the bounds are enough

* *Levels.* The rule compares the running level with the highest requested one: three levels
  give a level below, at and above the internal level 14. The four sources cover the four ways a
  source enters IID: by an instruction that ends, by one that is abandoned, by sampling
  Z, and by a device outside any instruction. The proofs remove this bound.
* *Devices.* Three places give a device before, at and behind the one being ticked, which is
  what a rebuild in mid-pass can get wrong. A delay of 3 can be started in one pass,
  counted in a second and overtaken in a third. The proofs remove this bound for everything but `InputServed`.
* *Slices.* 5000 instructions and 105500 turns between polls become 3 and 4: the counter of the
  polls outlives a slice, as it does in the code, so a slice can end before, at and after a
  poll, and a poll can fall in a turn that faults.
* *Telnet.* Two clients compete for a terminal, follow each other on one, and fill the pending
  list; two terminals allow one each and distinguish the menu's from the others. Three clients
  are beyond five minutes.
* *Peripherals.* A queue of two places wraps and overflows; four key numbers tell a lost key from
  a doubled one in it. A character takes two ticks, so a key can arrive during one. The clock's
  period is 3, its backlog two periods and its longest stall 12, so a stall can be longer than
  the backlog; batches of two reads. The display holds three characters.
* *Memory.* One page per table and two or four tables: what goes wrong is which words of the
  shadow RAM a mode may touch, and every pair of modes overlaps. Twelve words of which eight are
  installed, two cards and four banks: windows at, over and beyond the end of memory, pieces
  left behind, a table that is full. Two other CPUs. Two addresses for breakpoints, three for
  watchpoints on two pages, three and two entries.
* *Disks.* Two units, two callbacks pending, surfaces of 0, 3 and 4 words under addresses modulo
  16: a transfer ends before, at, beyond the surface, and wraps around.
* *SCSI.* Two bytes of command and of data, cut into transfers of one or two: first, middle and
  last byte of a phase, and a phase that ends within a transfer. Larger counts repeat the middle.
* *Ethernet.* Rings of three with frames of one or two buffers, three frames: a ring wraps, fills,
  and a frame meets too few buffers. `EthLink` has no bound at all (161 states).
* *HDLC.* Three blocks and four frames of one or two: the list ends within a frame, at its
  end and at the last block, and is begun anew. Two transmit lists.
* *Bridge.* Two CPUs and two processes let a process move and meet its old copy; one deferred
  message fills the table; `MaxMessages = 6`, of which a START takes two, allows two starts and two continues: a
  process starts, is preempted, resumes and starts again on the other CPU. `MaxKicks = 1` is one kick, reset,
  start by hand or access to memory in a behaviour.

Symmetry is not used: most sets are ordered, and the runs on the others check liveness, for
which a symmetry set is not sound.

### Fairness

* *CPU thread*, `WF` on its steps: it loops until the end of the program.
* `StoreVisible`, `WF`: a processor drains its store buffer.
* *Host threads*, `WF` on the second half of what they have begun: after queueing input a thread
  goes on to the request; clients and debugger commands themselves are under no obligation.
* *Debugger*, `WF` on a command that has been granted control, so that it ends; no fairness on
  starting one or on `WaitTimeout`. `SF` on polling for CPU events: commands make the poll
  momentarily impossible, but between any two messages the server polls.
* *Telnet*, `WF` on the accept thread, on each client thread and on the main thread once it is
  inside an operation. `Fail` has none: `recv()` on an open connection may never return.
* *Peripherals*, `WF` on the ticks and on host time: devices are ticked for ever and the host's clock
  moves on. The program is under no obligation to read or to enable anything.
* *Memory*, `WF` on the ND-100 inside a TSET: an instruction ends or traps.
* *Controllers*, `WF` on ticks in which a delay of the SMD runs out, on the SCSI adapter's tick and on
  the program that has begun a SCSI command (both written out without ENABLED, which TLC evaluates
  slowly there), and on the link's thread once it is to stop: its waits are polls of a fraction of a
  second.
* *Bridge*, `WF` on the ND-100's tick and on each host thread that has begun to stop. `MessageServed`
  is about a CPU that stops now and then; what an ND-5000 executes is not the emulator's to bound.
* `CHECK_DEADLOCK FALSE` is used only where the program or the instance ends: the debugger
  handshake after the main loop, the telnet server after `telnet_stop()`, the bridge when all
  messages have been sent.

### What each property rejects

A property that no plausible bug could violate says nothing; each is shown to fail when one
definition is replaced by a faulty variant (named `Bad...` in the modules).

| property | faulty variant | the bug |
|---|---|---|
| `PriorityRule` | `BadInterruptsOn` | ION forgets `gCHKIT` |
| `InternalPreempts` | `BadRecalc` | a pending source does not ask for another look |
| `NothingForgotten` | `BadSetError` | arithmetic sets Z without `gCHKIT` |
| `LevelFrozen` | `BadCheckAndSwitch` | the interrupt switch is not tested |
| `ImplementsPriority` | `BadIoTick` | PID follows the lines instead of latching |
| `NoRequestLost` | `BadClearLate` | the request is cleared after the look at the table |
| `InputServed` | `BadTickDevice` | a device leaves without being asked for waiting input |
| `IrqCoherent` | `BadEndPass` | the dirty flag is cleared, the OR kept |
| `ImplementsWalk` | `BadEndScan` | the list is rebuilt only at the end of the pass |
| `LinePreempts` | `BadMIoTick` | only rising lines reach PID |
| `RequestServed` | `BadIdent` | the identified device keeps its bit |
| `ExclusiveCpu` | `BadOwn` | the request is taken for the grant |
| `PauseAnswered` | `BadFault` | a fault resets the poll counter |
| `StopReported` | `BadReportStop` | the stop after a step is not reported |
| `OneThread` | `BadAssign` | the thread of the client before is not joined |
| `CarrierPresent` | `BadGiveCarrier` | the carrier is not set on assignment |
| `NoLeak` | `BadCleanUp` | pending sockets are not closed at the end |
| `StopEnds` | `BadExiting` | `shouldExit` is set after the join |
| `OwnKeysInOrder` | `BadPutKey` | a key is put one place too far |
| `InterruptsCoherent` | `BadIrqAfterTick` | `write_end()` does not look at the interrupt |
| `RtcBacklogBounded` | `BadDueAfterPulse` | overdue pulses queue without bound |
| `KeyArrives` | `BadArrived` | arrival looks at the transmitter before the tick ends its character |
| `RtcPulseComes` | `BadClearClockTicks` | clearing the counter pushes the wall-clock pulse away |
| `ShadowInBounds` | `BadReadable` | sixteen tables are taken for granted in normal mode |
| `WrittenIsMarked` | `BadMarked` | a write does not set the written mark |
| `LowRingsKeepTables` | `BadIsShadow` | the shadow RAM does not ask for the ring |
| `BanksConsistent` | `BadUnregisterOverLocal` | a window taken away leaves its words to nobody |
| `SemaphoreOwned` | `BadTsetWrite` | the write half of TSET is a plain store |
| `BusComesBack` | `BadTsetTrap` | the trap jumps without giving the lock back |
| `FiltersComplete` | `BadBkptRemove` | the filter's bit is cleared although another entry is left |
| `HitsAlive` | `BadBkptAdd` | a second temporary breakpoint at one address |
| `OperationsEnd` | `BadWdGo` | an error exit returns without a callback |
| `InterruptsTold` | `BadDrumEnd` | the end does not look at the interrupt |
| `WithinSurface` | `BadOutOfRange` | only the difference is checked, which wraps |
| `DataInOrder` | `BadDMARead` | the byte is taken and the request left standing |
| `LinksSound` | `BadClearConn` | the socket is closed before `conn` is cleared |
| `OperationsOver` | `BadSearchTick` | a search waits for the pulse only |
| `WorkKept` | `BadQuiet` | a leaving thread is not waited for |
| `ResumesNewest` | `BadOwns` | a CPU's copy is trusted wherever the process ran last |
| `MessageServed` | `BadRung` | a released message rings no doorbell |

## 4. What is proved

The theorems hold for every value of the constants under the modules' named assumptions, which say what the
code takes for granted: levels are numbers 0..15 that include 0 and 14; sources are numbers 0..10; device
levels are 10 to 13 and 15; the sets of permanent and queued devices are disjoint; sizes, periods and the
length of a slice are positive; the tables in shadow RAM fit into it, and what a program loads into a PCR
names one of them; no card is called "local" or "shared"; there is at least one ND-5000. TLC evaluates each
assumption on the runs. Three further hypotheses stand in the theorems that need them: `HdlcRare = {}` (no
damaged frame, and a driver that reads the status before it gives blocks back), `EthRare = {}` (firmware that
gives the first buffer of a frame to the LANCE after the others) and `ScsiRare = {}` (a program that does not
clear the adapter while a data request stands, nor resets the bus alone in the middle of a transfer). Section
5 says what happens without them; all three are conditions on the programs that run inside the emulated
machine and on the far end of a line, none on the emulator's own threads or code paths.

Every safety invariant and action property of the passing runs is proved.

An invariant is seldom inductive, and what has to be added says why the code is right:

* **NDMachineProofs.** `TypeCorrect`, `PriorityKept`, `InternalInterruptsPreempt`, `NoRequestForgotten`,
  `LevelFrozenWhileOff`, the refinement `PriorityImplemented`, and for the composed machine `RequestsPreempt`.
  What holds when the instruction begins must be connected with what holds when `gCHKIT` is found clear two
  phases later: `IInv` says (a) during an instruction with interrupts on, the level is right, and a pending
  enabled source has left `gCHKIT` set and level 14 requested; (b) whenever `gCHKIT` is clear there is no
  pending enabled source, no enabled Z of the running level but an `unseen` one and, with interrupts on, the
  level is right. `NoRequestForgotten` states (b): a Z that arithmetic sets is never left over, one that STS
  or a level switch brings is, and nothing else. `LineInv` adds that outside the `io` phase every asserted
  line is in PID: a line can be raised by the instruction, and `IO_Tick()` is what follows it.
* **DeviceTickProofs.** `TypeCorrect`, `CachedInterruptsRight`, the refinement `TableWalkImplemented`, all three
  with and without a store buffer, and `RequestsKept` without one. `IInv` adds to the types and
  `IrqCoherent` that the permanent members are always listed, that a joined device is listed or about to be,
  and that a device with a delay has joined, will be looked at by the scan under way, or has a request standing
  that the CPU thread itself can see. The last conjunct is why delays survive a store buffer and input does not:
  a delay is requested by the CPU thread, which sees its own stores.
* **DebugHandshakeProofs.** `TypeCorrect` and `DebuggerOwnsCpu`. `IInv` adds: while control is granted the CPU
  thread is outside the loop of `cpu_run()`; while a command owns or gives back the CPU, control is granted.
  The first is kept because only the CPU thread grants, the second because only the debugger takes back.
* **TelnetServerProofs.** `ServedByOne`, `ServedWithCarrier` and `StopClosesAll`, about the terminals that the
  operator's menu leaves alone. The invariant has one part per idea: `Stages` (a connection is pending, served
  or closed, never two of them), `Handled` (what the accept thread holds while it has the lock is still in the
  list), `Served` (the terminal of a live thread is active and its handle is that thread's; while a client is
  being assigned no live thread serves the terminal), `Referred` (a terminal refers to the open socket of the
  thread that serves it, and an unset that is still to come finds nothing else's descriptor), and `ShutDown`
  (once the accept thread has ended nothing is pending, and terminals already passed by `telnet_stop()` stay
  without a client). `Served` is where the join of the client before matters.
* **PeripheralProofs.** `InterruptsComplete`, `BacklogIsBounded`, `KeysComeInOrder`. The terminal's queue is
  described by what its places hold: the keys from `ttyTail` on are those due, one after the other, and as
  many as the count says; this needs the arithmetic of two different moduli, of places and of key numbers. The
  clock's bound needs only that the next pulse is never further off than a period. `InterruptsComplete` says
  of the terminal, the printer and the tape devices that no enabled and ready direction is without its
  interrupt. Of the clock it says only the converse, that an interrupt stands only with an enabled pulse:
  enabling the interrupt of a pulse that has already come raises none. Of the bridge, `NoWorkForgotten`,
  `NewestResumed`, for any number of CPUs and processes. `NdInv` says what the ND-100's thread knows at each
  of its steps: a CPU it wants to preempt keeps its process while the thread ends. `ThreadInv` says what a
  CPU's thread and its flags may be in each state of its runner, with the park that a refused report takes
  back late, and `CopyInv` where the newest registers are: a CPU that executes a process owns it and no
  message of it is deferred; the copy of the owner is newest; one that reports, and a deferred process, have
  their newest registers in the block. The parts of `CopyInv` that compare copies are about processes outside
  `mixed`; those in it are safe again once their block is the newest copy and a START loads it.
* **MemoryProofs.**
  * `SemaphoreHasOwner`: the bus lock is the ND-100's exactly while it is between the halves of a TSET, and what
    its read half found is still so when it is looked at.
  * `TablesInBounds`, `WritesAreMarked`, `TablesKept`: the first is arithmetic over the number of tables,
    pages and words per entry in all four modes; the others follow access by access.
  * `FiltersAreComplete`, `HitsAreAlive`: a hit is alive because at most one temporary breakpoint has an
    address, which `bkpt_manager_add()` takes care of, and because a hit on a temporary one is alone in the
    list of hits. That a filter survives the removal of entries needs the order-preserving enumeration of
    those kept.
  * `BanksStayConsistent`: the table is sound (banks lie apart; each is inside installed memory or above it;
    RAM is inside; every word of installed memory has a bank), and its windows are exactly those of placed
    cards and the shared one. A window can then only be laid over one whole local bank, the place it leaves is
    free to be registered as RAM, and there is always room for that.
* **ControllerProofs.** `OperationsComeToEnd`, `EndsAreTold`, `TransfersOnSurface` for the disks and floppies:
  callbacks are counted, so the invariants hold with any number of callbacks of earlier operations still
  queued. `TransfersOnSurface` is for every word size, although the check subtracts unsigned numbers: it first
  asks whether the address itself is on the surface. `LinksAreSound` for any number of connections, failures
  and restarts: the invariant ties `conn`, `active` and the open socket to the place the link's thread is at,
  and says that a send that has found its socket gone and is still to clear `active`, while a connection is
  up, is one that `late` records. `FramesInOrder` and `FramesAreTold` for the HDLC card, with lists of any
  length and any number of frames. `RxInv` says that from the driver's place on the list holds some pieces h
  in full blocks and empty blocks after them; that the receiver's copy of a key is "empty" only if it stands
  at the first block after h, and "full" only if the whole list is and LIST_EMPTY says so; and that what the
  driver has taken, then h, then the frames still buffered are one sequence in order, whole unless the list
  ended within a frame. `TxInv` says that no frame has gone of a list not sent yet. Each function of the
  receiver has a lemma of its own, in the order in which they call each other. `EthFramesInOrder` and
  `EthIsTold`, for rings and queues of any length and any number of frames. From the firmware's place in the
  receive ring on, the descriptors are the firmware's up to the LANCE's place and the LANCE's behind it; the
  firmware's hold whole frames, in order, after those it has taken and before those that are still queued. In
  the transmit ring the LANCE's descriptors hold whole frames, in order, none but the last `fw.unasked` the
  firmware has given, and behind them the frame in hand, of which the LANCE never sees a part because its
  first buffer is given last. A tick receives every queued frame in one step; the recursive function
  `Received` says what each of them leaves, and the induction is over the queue. `InterruptsAreTold` and
  `AllInOrder` put the parts together: a behaviour of `MCControllers` is one of each part (`PartsBehave`), so
  each part's theorem holds of the whole.
* **ScsiProofs.** `ScsiIsTold` needs no hypothesis on the program. The chip's line is up when there is a cause
  and has then reached the adapter (`Told`); an adapter that is ready and enabled has interrupted. That each
  nested call keeps this depends on the target finding the control entries it expects, so `Waits` says what
  its queue holds in each state. There is a lemma for each function of chip, bus and target, innermost first.
  `ScsiBytesInOrder` is for any number of bytes of command and data and any cut of the data phase into
  transfers. Its invariant `LockInv` is the interlock of chip and target. For every state of the chip, and
  whatever it transfers when it is in one, it says whether the target asks for its byte (`Asking`) or the chip
  holds ACK for a byte that has been taken (`Holding`), what each has on the lines, and who has the byte: the
  data lines, the data register or the program. `Kept` then ties what has arrived to the target's position in
  the data, with the bytes still on their way, and `TransferIn` and `TransferOut` what the program has left to
  move to the chip's counter. Around it stand the states without a connection (idle, selection, arbitration, a
  target that settles), what a cause in the register says of the bus and what a program that has read it still
  knows (`Knows`), and a program that has given up, after which the bus is reset. The hard steps are those in
  which one call runs through chip, bus and target and back: a raised ACK makes the target take its byte
  within the chip's write (`AckRaised`), a dropped one makes it ask for the next, change the phase or free the
  bus, which disconnects the chip while it is still at work (`AckDropped`).

Refinement is proved by steps: the initial states map to initial states, each action maps to an
action of the abstract module or to a stutter.

Lemmas worth knowing when the models are extended: `Enumerable`, `KeptInOrder` (entries kept of a list, in
order), `RemovedOne` (a sequence without one place), `LeastNatural`, `SetInduction` and `InductionTo`
(induction stated with a set in place of a predicate, because the provers cannot instantiate the library's
induction theorems; they rest on the naturals being well founded).

Only model-checked:

* Liveness under fairness, which is out of the prover's reach, as is ENABLED.
* The findings and the divergences of section 5, which are counterexamples.

## 5. Where the code and its documentation differ

Two runs end in a counterexample; PROJECT.json quotes the lines.

1. `DebugKeyboard`: a grant stored after the debugger has released is never taken back;
   `machine_run()` then spins without returning to the keyboard.
2. `BridgeReset`: a reset is delivered with the engine lock held and joins the thread of the CPU
   it resets; if that thread is waiting for the lock to report a stop, both wait for ever.

Other disagreements and limits are reproduced by changing one line of a cfg:

* `DeviceTick` with `StoreBuffer = TRUE` violates `NoRequestLost`: `devmgr_take_requests()`
  clears the request with a release store and then reads the queues; the store may become visible
  after the reads. The comment in `devices/device.c` says the input is never lost.
* `MCNDMachine` with `PidFollowsLines`: PID is never recomputed from the devices' lines, only added
  to, contrary to the comment at IDENT. A withdrawn request is still served, with an IOX error.
* `DebugKeyboard` with `LineSteps = TRUE` and `NoSilentStop`: the stop reason is published before the
  run mode; a line step between the two leaves the CPU stopped and the client waiting. With
  `MachineEnds`: the shutdown requested when the DAP server ends can be overwritten.
* `TelnetServer` with `StopReturns`: the places of the poll set are used after the pending list has
  changed; `recv()` then blocks on a client that sent nothing.
* `MCPeripherals` with `KeysInOrder`: when a telnet thread fills the queue, an update of the count can be
  lost, and a key is lost or repeated. With `PanelKeepsTime`: the panel's half-days and seconds
  disagree with the comment on `update_machine_time()`.
* `MCMemory` with `ErrorAddressWhole`: `gPGS_Lock` is defined as the field of `gPES_Lock`
  (`cpu/cpu_types.h:638`), so a page fault locks or unlocks half of a memory error's address.
  `HitsAlive` without its premise: a debug adapter may free a breakpoint that the CPU is about to look at.
* The bridge mixes two copies of a process up in three ways, all of which happen in `Nd5000Bridge`: a fault in
  the answer copy parks a CPU on the process without making it the owner, while another CPU takes its copy for
  its own (`mfbus_bridge.c:3155`); a reset forgets the owner, after which a copy left on another CPU passes
  for current (3981); a START brings a new context block, and a CPU that holds the process does not load it
  (2815). `ResumesNewest` exempts the processes in `mixed`, and only them; without the exemption TLC finds an
  old copy resumed in each of the three ways. A START that fails while its process is preempted leaves the
  mark of the preemption set, so that a later answer is not applied; it breaks neither property.
* `NDInterrupt`: MST, TRR, LRB and IRW set Z without setting `gCHKIT` (`cpu_instr.c:1244`, 1205, 1477, 1617),
  and a switch of level (`cpu.c:645-656`) brings another level's Z into force after the recomputation has
  sampled the old one. The error interrupt then waits until something else sets `gCHKIT`. `NothingForgotten`
  without its `unseen` says that nothing is ever left over, and TLC refutes it in a few steps.
* `ScsiRare`: "clear with a request" leaves a byte in the chip that the next transfer takes for its
  own, or both ends waiting; "reset alone" acknowledges on a free bus. Apart from these: a chip reset leaves
  its bus lines asserted; reading RITRG in a stall acknowledges a byte that was not taken; SET ATN in
  the command phase leaves the target idle with BSY on.
* `EthRare` "first buffer first": firmware that gives the first buffer of a frame before the others sees a
  partial frame sent and the transmitter switched off. One transmit demand sends one frame at once and at most
  one more at the next tick, and frames queued before STRT get one poll only: firmware that gives more frames
  than it asks polls for may wait for the last of them, which is why `DataInOrder` counts polls;
  `lance_reset()` keeps received frames queued.
* `MCControllers`: a failing send clears `active` after it has given up the lock (`eth_net.c:1349`); a
  connection made meanwhile is up but carries nothing. `LinksSound` allows this silence, marked by `late`, and
  no other.
* `HdlcRare`: "blocks first" - after LIST_EMPTY the receiver goes on filling blocks that are given back before
  RECEIVER_CONTINUE, out of order, although `dma_receiver.c:518` says "stop the DMA receiver completely";
  `process_buffered_data()` never asks whether it is active. "damaged frame" - the comment at
  `dma_receiver.c:332` says a failed check sum marks the buffer as received with an error; the code
  marks nothing and steps over the empty block, so list and driver are out of step. "resumes midway" - the
  end of the list goes back to where the last command began, so CONTINUE in the middle shortens the ring.
  "enables last" - enabling the DMA interrupt with a request pending raises no interrupt on
  the receive side (`device_hdlc.c:429`), unlike on the transmit side (490).

Met while reading, without a run: the comment at `dma_receiver.c:392` says RTS_DATA_AVAILABLE is not
included, the code includes it; LIST_EMPTY is reported at the last block of a ring, since
`dmacb_is_next_r_xbuf_valid()` does not know the wrap; the last block of a frame carries both
start and end marks; the COM5025's registers are one static struct shared by all cards
(`chip_com5025.c:60`). In `modem.c`, `queue_write_all()` (142) retries for ever without looking at the
shutdown request, so `modem_destroy()` hangs if the worker waits for room in a full queue, and CPU
thread and worker can wait for each other over two full queues; bytes taken from the transmit queue
before a failed send are lost, and stale ones survive a reconnection.

## 6. Not modelled

Listed in PROJECT.json with reasons.

* Out of scope for good: the generated 68000 core (more than 36 thousand lines of an interpreter's
  cases), the contents of git submodules (DAP library, ND-5000), formatting and user interface, file formats
  and host I/O, logging, WebAssembly glue.
* Sequential arithmetic: the instruction set beyond interrupts and TSET, the disassembler, the expression
  evaluator, symbol tables, configuration parsing. They keep no state between calls that an
  interleaving could disturb; unit tests reach them.
* Parts of modelled devices: the modem's thread and its queues, HDLC in character mode, the Octobus card's
  registers and FIFO, the Ethernet card's MFP timers, datagram, TAP and pcap back ends, SCSI commands'
  contents, the telnet output ring, the print job's time-out, the frames other than kicks that a
  program of an ND-5000 sends.
* `Panel` is modelled and runs in `MCPeripherals`, but no property of a passing run is about it: what its
  documentation says of its clock does not hold (section 5).

Hazards known and left without a property: the tick list holds 64 devices and drops the rest
(`devicemanager.c:738`); `dev_tick_io_delay()` keeps a pointer into an array the callback may grow
(`device.c:283`); the SIGINT handler joins threads from signal context (`nd100x.c:272`); the menu looks at a
terminal and then claims it (`screenmenu.c:1217`); a disconnect may join the next client's thread
(`telnetserver.c:527`); descriptor numbers are closed twice (`telnetserver.c:1376`); a terminal's device clear
resets the status after the interrupt bit was computed (`device_terminal.c:310`); the modem's waits above.

## 7. Plan

Done: the interrupt system with its abstract specification and proofs, the device manager with
its own, their composition, the debugger handshake with proofs, the telnet server, the peripherals,
the memory side, the disk, floppy, SCSI, Ethernet and HDLC controllers, the network link with its
proof, the ND-5000 bridge.

Next, in this order:

1. `Modem`: the worker thread, both byte queues, disconnection and `modem_destroy()`; bytes in order per
   connection; a stop returns unless the peer floods. Composes with `Hdlc`.
2. The Octobus card's registers and FIFO in front of `Nd5000Bridge`.
3. The telnet output ring and the print job's time-out.
4. A second SCSI target on one bus; HDLC in character mode.

Proofs to come: `OperationsEnd` and `InterruptsTold` of new controllers as they are added to `Disks`;
the terminal's queue as a refinement of a first-in first-out queue.
