# A verification project for spike-online

`spike-online` is a fork of Spike, the RISC-V instruction-set simulator. The fork adds a
cache hierarchy with per-instruction profiling (`riscv/cache_model.cc`,
`riscv/cache_hierarchy.cc`), an accelerator extension (`nvr/`) and a web debugger (`web/`).
This directory holds TLA+ models of the parts of the program whose correctness depends on
sequences of steps rather than on one computation, the TLC runs that check them and the
proofs that TLAPS checks.

Line numbers refer to the commit the models were written from. `PROJECT.json` maps every
definition to the lines it models.

## The system and its parts

A *simulation loop* gives each *hart* a slice of instructions in turn and ticks the
*devices* once a round. Harts reach devices through loads and stores (`bus`), devices reach
harts by writing bits of their `mip` register. A *debugger* outside the process talks to the
*debug module* through JTAG; the module itself only sees DMI reads and writes, idle cycles
and the stores the harts make while they run the debug ROM. A *host* (fesvr) serves the
program's system calls between slices. Every data access of a hart also goes through its
*cache hierarchy*, which counts misses and charges them to instructions.

| Part | State | Operations | Interacts with | Hard because | What makes it correct | Module |
|---|---|---|---|---|---|---|
| PLIC (`plic.cc`) | priorities, wires, per context: enable, pending, latched priority, claimed, threshold | register stores, claim, completion, wire changes | devices raise wires; drives `mip` of the harts; shared with CSR writes and resets | state is cached three times (wire → pending → mip) and each copy is refreshed on some paths only | mip says whether there is something to claim; pending follows the wire; a source has one server | `Plic` |
| UART (`ns16550.cc`) | registers, receive queue, back-off | loads, stores, tick | PLIC wire, terminal | the interrupt is recomputed at the end of some paths; the queue has a limit | the wire says whether there is something to do; no input is lost, and all of it is read | `Ns16550` |
| CLINT (`clint.cc`) | mtime, mtimecmp, msip bits | stores, tick | harts' mip | 64-bit registers are written by halves | MTIP says mtime ≥ mtimecmp; a timer does not fire early | `Clint` |
| Simulation loop (`sim.cc`) | current hart and step | turns, ticks, end of reservations | everything | interrupts are looked at in few places | nobody starves; a waiting hart wakes | `Platform`, `Mmu` |
| Processor (`processor.cc`, `execute.cc`, status CSRs) | privilege, saved status at three levels, double-trap bits, debug mode, single step, the locals of `step` | interrupts, traps, returns, halts, steps | every interrupt source, debugger | a loop with a slow and a fast path and many exits; two delegations | no saved context lost; one instruction a step; returns go back; masks respected | `Hart` |
| MMU (`mmu.cc`) | TLB tags and data, instruction cache, reservation | translate, refill, flush, LR, SC | PMP, triggers, CSRs, page table | caches that are only right if everybody flushes them | a hit agrees with what the tables say now | `Mmu` |
| PMP (`csrs.cc`, `mmu.cc`) | addresses, configurations, security configuration | register writes, match | MMU | locks reach into a neighbour's register | locked means for ever | `Pmp` |
| Triggers (`triggers.cc`) | tdata | writes by software and debugger, match | MMU, debug mode | chains, and matches that are taken at the next fetch | debug mode is entered once per match | `Triggers`, `Mmu` |
| Debug module (`debug_module.cc`, `debug_rom.S`) | selection, halted/resumeack/havereset, GO and RESUME flags, abstract command, busy, cmderr | DMI reads and writes, idle cycles, ROM stores | debugger and harts, concurrently | the module infers what a hart does from its stores; three actors clear each other's flags | it believes only what is true; busy covers the command; every request ends | `DebugModule` |
| System bus access (`debug_module.cc`) | sbcs, sbaddress, sbdata, two wait counters | start, wait, perform, increment | debug module's idle cycles | registers may change between start and access | the access made is the access asked for; no failure is forgotten | `SystemBus` |
| JTAG and bitbang (`jtag_dtm.cc`, `remote_bitbang.cc`) | TAP state, dmi, sticky busy | pin changes, reset | debug module | early scans, retries | an accepted operation is done once, a refused one not at all | `JtagDtm` |
| Cache hierarchy (`cache_model.cc`, `cache_hierarchy.cc`) | sets with tags, states and LRU counters, statistics | one access, at two levels | processor and MMU | counters rebase and wrap; one access writes the second level twice | LRU order; no dirty line lost; the statistics agree | `CacheModel`, `CacheHierarchy`, `LruCache` |
| Instruction profile (`processor.cc`, `execute.cc`) | misses of the current instruction, per-pc totals | charge, retire | cache hierarchy, traps | the current counts are cleared on some ways out of an instruction only | misses are charged to the instruction that made them | `CacheHierarchy` |
| Host interface (`fesvr/htif.cc`, `syscall.cc`, `device.cc`) | tohost/fromhost words, answer queue, console reads, table of descriptors | serve, idle, answer, system calls | the simulated program, the host's files | answers wait and cross; two descriptor spaces | each command answered once and in order; a descriptor leads to its file | `Host` |
| Web debugger (`web/server.js`, `app.js`), interactive debugger (`interactive.cc`) | process reference, running and waiting flags, timers | socket events, process events, clicks | spike over a pty, the page | late events of an older process, feedback between page and server | the page offers what its session can do; a run does not stall or get ahead | `Web` |
| fesvr DTM (`fesvr/dtm.cc`) | request/response flags, coroutines | tick | hardware simulators | handshake | no lost response | – |
| Stand-alone caches (`cachesim.cc`) | tags with valid and dirty bits | access, clean/invalidate | MMU tracer | invalidated lines | an invalidated line misses | – |
| Buckyball (`nvr/buckyball`) | scratchpad | RoCC instructions | MMU | bounds | stays in its memory | – |
| Instructions, softfloat, remaining CSRs, disassembler, command line, device tree, generators | registers | pure computation, parsing, formatting | – | width, not order | not a matter for a state-machine model | – |

The `components` and `hazards` lists of `PROJECT.json` have the same inventory with the
status of each part and the line where each hazard bites.

## Modules

### `Plic` — the interrupt controller

One module, one action per register store (`priority_write`, `context_enable_write`,
`context_write_threshold`, `context_write_claim`), the claim load (`context_claim`), the wire
(`set_interrupt_level`) and the two ways others write the bits it drives (`csr_write_seip`,
`hart_reset`). Bit vectors are sets of source numbers; `WordBits` keeps the word-wise
enables. `ScanBest` is the code's double loop: over `NumWords` words, of which the empty ones are
skipped, and over the bits of a word as far as there are sources (`Visited`);
`context_best_pending` is what it should return. `overwritten` is a history variable: the contexts whose mip bit
someone else wrote since the controller last computed it. `ExclusiveSpec` restricts software
to enabling each source in one context at a time.

### `DebugModule` — run control and abstract commands

The debugger's steps (`dmi_write_*`, `dmi_read_*`, `run_test_idle`), and per hart the
instructions of the debug ROM as places of a program counter: a hart announces itself
(`rom_halted`), polls GO and RESUME (`rom_poll_*`), runs `debug_abstract` and the program
buffer (`rom_going`, `rom_abstract`, `rom_progbuf`, `rom_exception`) and leaves
(`rom_resuming`, `rom_dret`), while `step_halt`, `step_break` and `step_run` are its slices
outside debug mode. Commands are abstracted to their kinds (transfer, direction, postexec,
custom, unsupported), registers to one per hart, the program buffer to how it ends when
run (return, fault, loop); whatever it does on the way, it leaves any value in the hart's
register and in the data words. What a command has done (`CommandEffect`) is therefore stated
where the code guarantees it: when busy falls after a command without postexec, and when the
program buffer starts after one with it. `CarefulSpec` is a debugger that leaves dmcontrol and cmderr alone
while a command is in flight and starts no command on a hart it has asked to resume before
the hart has answered; the repository's own debugger, `fesvr/dtm.cc`, waits in this way.
`late` is a history variable for resume requests made to running harts.

### `CacheModel`, `CacheHierarchy`, `LruCache` — the caches

`CacheModel` has the operators on one cache: look-up, victim, `update_lru` with its rebasing
and its 32-bit wrap (`wrap`), write-back, statistics. They are operators because one access
of the hierarchy uses the second level twice in one step. `CacheHierarchy` composes two of
them with the processor's accounting: `begin`, `access_hit`, `access_miss`, `retire` and
`escape` (the ways out of an instruction that do not pass `update_dcache_stats`). `own` and
`stale` are history variables: the misses the instruction made itself, and the lines of which
memory has an old copy. `LruCache` is the abstract specification: per set the resident tags,
the dirty ones and the order of use, without ways or counters; `L1IsLru` says that the first
level implements it.

`Lines` are line addresses: the two levels of the shipped configuration have lines of one
size. With different sizes a write-back address would have to be translated, which the code
does not do.

### `Ns16550`, `Clint`, `Platform` — the board

`Ns16550` extends `Plic`: every operation ends in `update_interrupt`, which drives the wire
through `set_interrupt_level`. Registers are the sets of their one bits. The code looks for
the FIFO clear bits in `lcr`; the model does too, so that setting a word length empties the
receive queue. `cleared` is a history variable for the bytes lost that way. `Clint` has
mtime, mtimecmp and the two bits of mip; a 64-bit register is two halves of `Half` values.

`Platform` composes the three with `sim_t::step`: a hart runs `INTERLEAVE` instructions, the
next one follows, after the last one CLINT and UART tick. `take_pending_interrupt` happens
where `processor_t::step` looks: when the turn starts and after an instruction that
serialises. The guest is the environment, and it behaves as a driver does: boot stores
(a loopback self-test, then line settings, then interrupts), claim, read while data is
ready, complete; it may move the interrupt to another hart at any time. The bytes it sends
itself are 0, to be told from the typed ones, and what its self-test reads counts as received.

### `Hart` — traps, returns and the loop of `step`

One hart with S, U, H and both double-trap extensions. `state` is `state_t` reduced to the
fields that decide what happens next, `loop` the locals of `processor_t::step`: the place in
it (`slice`, `outer`, `inner`), the instructions left, the local pc and which path was taken.
`step`, `take_interrupt`, `enter_inner`, `step_done` and `wait` are the control of the loop,
`plain_insn`, `exception_insn`, `ebreak`, `wfi`, `mret`, `sret`, `dret`, `csr_insn` the
instructions and their ways out. `supv_double_trap`, `vsdeleg` and `hsdeleg` are the
decisions of `take_trap`. The software is anything within a discipline (`software_*`): a
handler leaves its saved status alone until it has copied it, then clears the double-trap
bit. `saved` and `lost` are history: what each level interrupted, and which levels had it
overwritten.

### `Pmp`, `Triggers`, `Mmu` — a hart's port into memory

`Pmp` has the registers with their locks, `match4`, `access_ok`, `pmp_ok` and
`pmp_homogeneous`; `Triggers` the address triggers, their legalisation and the match with
chains. `Mmu` extends both with the page table, the TLB (one translation and three tags an
entry), the instruction cache and the load reservation, and has one action per access
(`fetch`, `load`, `store`, `load_reserved`, `store_conditional`) and per thing that changes
what the caches stand for (CSR writes, fences, traps, returns, debug mode, trigger
updates, page-table edits). The hart runs in turns: `end_of_turn` gives up its reservation
(`sim.cc:291`), while it waits other harts store where they like (`other_store`), and
`turn_begins` lets it go on. An `mmu_t` looks at its own reservation only, so nothing takes
it away when another hart stores; `linked` is the history variable that knows of such a store,
and `ReservationHolds` compares the two. `edited` is the history variable that excuses a page
whose entry software changed without a fence. `CachesTransparent` states translation and PMP
for both caches, the triggers for the TLB only. `LockedForever` says of a locked entry, with
the lock bypass off, that it covers what it covered and never allows more; what it allows
changes at all only when software switches `mseccfg.MML` on. The page table has one level; sectors of four bytes are
the unit of addresses, and a page has `PageSectors` of them.

### `SystemBus`, `JtagDtm` — the debugger's way in

`SystemBus` has sbcs, sbaddress and sbdata and the access that happens some idle cycles after
it was asked for; memory is the environment. An access is its direction, its address, its
size and, of a write, both data words. `JtagDtm` extends it with the TAP controller,
pin by pin, `capture_dr`, `update_dr` with the sticky busy status, and the bitbang commands.
What a scan shifts in is any value the debugger may have in mind; bits are not shifted one by
one. `asked`, `lost`, `seen`, `times` and `dropped` are history: the access as it was
asked for, what was refused, and what the running scan saw and did. The debugger lets the
clock alternate and, as `debug_defines.h:2687` asks, leaves the access size alone while an
access is in flight. `DebugModule` and `SystemBus` share no register but dmactive, so they
are checked apart.

### `Host` — the mailbox and the system calls

One pass of `htif_t::run` is a command served, or a slice of the target, followed by the tick
of the devices and the delivery of an answer. `serve` decodes the command by device: system
calls (open, close, read, write, exit, and the command's unknown ones, which end the
process), the console with its queue of pending reads, and the identification every device
answers. Only reads of the console wait for their answer; `identify` of the same device
overtakes them, so the order kept is that of the waiting commands among themselves and of all
others among themselves. `host.fds` is the table of descriptors and `host.open` what the host has open;
`held` is the program's view of both. A read of an empty terminal blocks the whole
simulator, which `Blocked` says.

### `Web` — page, server and spike

The handlers of the server and the page run to their end one at a time, so each is an action;
between them lie two ordered message queues, the pseudo terminal, two kinds of timers and the
exit events of processes. `spike_runs` is the interactive debugger's side: readline writes
the line so far again for each character, prompt included, then the command runs and prints
one line for an instruction it starts, or none. `spike_data` hands over the output in pieces
that may end anywhere, inside a line too (`Cuts`): `handleSpikeOutput` keeps nothing for the next
piece, so an instruction cut before its disassembly is lost, one cut later is still a line, and
of an echo, which repeats the prompt, none, one or both halves may show one. `excused` is a
history variable: the connections where a step showed no instruction or a cut lost one. `late`,
another, marks a session that the second start-up timer announced after its process had exited.

## Runs

Behaviours of the `cache_hierarchy` run end at their bounds, so it does not check deadlock;
the other runs do.

| Run | Instance | Question |
|---|---|---|
| `plic_core` | one hart, M and S context, two sources in two register words, three priorities | Do the mip bits agree with what can be claimed across every order of stores, claims, wires, CSR writes and resets? Is claimed ⊆ pending ⊆ enable? Does the scan return what the priority rule asks for, with ties, a partial word and priorities at the threshold? |
| `platform` | two harts, UART with a queue of one, two characters typed, one timer, one move of the interrupt | Do wire, queue and MTIP agree, is pending exactly wire-and-enabled with one server, is all input kept in order and read in the end, does a timer set by halves fire early, does a waiting hart wake? |
| `hart` | two kinds of firmware, slices of two, three CSR writes, interrupts of three kinds, halts, single steps and resets at any point | Is a saved context ever lost, does a step retire one instruction, do returns go where the trap came from, do interrupts respect the enables? |
| `memory` | two virtual pages that share a TLB entry, three physical pages of two sectors, two PMP entries, two triggers, two register writes, turns of the hart between the stores of others | Do the caches ever grant what the tables, the PMP and the triggers would not now; does a store-conditional find a reservation after another hart stored there; does a locked entry ever cover something else or allow more? |
| `jtag_sba` | registers of three values, an access after two idle cycles, one idle cycle per operation, a bus of which two of three addresses answer | Is the access made the one asked for, is every refusal visible until it is acknowledged, is a scanned operation done once or not at all? |
| `debug_run_control` | two harts whose ids are not their indices; halts, resumes, resets, arrays, groups, availability, authentication | Does the module believe only what is true, are acknowledgements fresh, are unavailable harts left alone? |
| `debug_commands` | two harts, every kind of command, autoexec, careful debugger | Does busy cover the whole command, and has a command that ends without error, or comes to its program buffer, done its transfer, whatever that program then changes? |
| `debug_live` | two harts, halt group, faulting program, one idle cycle of delay | Do commands, halts and resumes come to an end? |
| `cache_hierarchy` | L1 of one set and two ways, L2 of two sets and one way, three lines, rebasing after two accesses, six accesses | Is a dirty line ever lost, do the statistics agree, is L1 an LRU cache? |
| `host` | three commands of sixteen kinds, two files, one typed character, descriptors at their limit | Does every descriptor lead to its file, is every command answered once and in order, does every call return? |
| `web` | two connections, two processes, four clicks, output in any pieces | Does the page offer only what its session can do, does continuous execution stall or get ahead, when does a session let go of a running process? |
| `debug_entered_twice` | as `memory` | *Violated:* dcsr.prv "contains the privilege mode the hart was operating in when Debug Mode was entered" (`debug_defines.h:502`). |

Properties that are conjunctions of named parts (`PlatformInv`, `HartInv`, `DtmInv`,
`CachesTransparent`, `HostInv`, `WebInv`) join the ranges of a module's variables with what
must hold between its steps; each part is defined and explained by itself.

Further configurations show a disagreement between the code and what is said of it; each is
run with the module named, and TLC finds the property violated.

| Configuration | Module | Property | What is said, and what happens |
|---|---|---|---|
| `MCPendingFollowsWire.cfg` | `MCPlic` | `PendingFollowsWire` | "PLIC interrupts are level-triggered" (`plic.cc:307`); with a source enabled in two contexts the fall of the wire reaches only the first. |
| `MCNoLateResume.cfg` | `MCDebugModule` | `NoLateResume` | harts resume "if they are halted when the write occurs" (`debug_defines.h:2128`); the flag of a running hart waits for its next halt. |
| `MCBusyHeld.cfg` | `MCDebugModule` | `BusyHeldUntilDone` | busy "is not cleared until that command has completed" (`debug_defines.h:2392`); selecting another halted hart ends it early. |
| `MCNoOverflow.cfg` | `MCCacheHierarchy` | `NoOverflow` | "Prevent overflow by resetting counters periodically" (`cache_model.cc:114`); while a way of a set stays unused its counter is the minimum, and nothing is subtracted. |
| `MCOwnMisses.cfg` | `MCCacheHierarchy` | `OwnMissesOnly` | update_dcache_stats is to be called in the exceptional case too (`execute.cc:215`); a trap out of the fast loop skips it. |
| `MCDebugRunsRom.cfg` | `MCHart` | `DebugRunsRom` | "enter_debug_mode changed state.pc, so we can't just continue" (`execute.cc:296`); after a critical error in the slow path (326–334) the loop does continue. It needs a debugger that resumes a hart with a critical error. |
| `MCDupFd.cfg` | `MCHost` | `HostInv` | `sys_fcntl` (`syscall.cc:296`) returns the host's number for a duplicated descriptor, which is not in the program's table. |
| `MCNoOrphan.cfg` | `MCWeb` | `NoOrphan` | on disconnect the session is to be cleaned up (`server.js:649`); the late exit of a replaced process has cleared the reference, and its successor runs on. |
| `MCPageRuns.cfg` | `MCWeb` | `PageRuns` | a page told that debugging has started has a process; the second start-up timer (`server.js:220`) announces a session without looking whether its process still runs. |

**Bounds.** Two harts, contexts, connections or ways are the least that can get in each other's
way; the code treats all of a kind alike except for "first enabled", "selected" and "current",
which two of them already exhibit. `plic_core` keeps the second context to one source and
threshold 0 (`SmallSMode`), since both contexts run the same code and the theorems cover the
rest. In the caches the second level is *smaller* than the first, so that the write-back of the
first level's victim displaces the line just fetched; with three lines and six accesses each
set is rebased several times (`lru_limit` is 2 where the code has 1000000), and `wrap` is far
above the accesses, as 2^32 is in practice. A queue of one character is full at once, a
back-off of two shows both its ends, and times of two halves of two values pass every
boundary of a half. Slices of two instructions end in the middle of everything. In `memory`
a page of two sectors has a first and a last one that differ; virtual pages 0 and 1 share the
one TLB entry; firmware has set up the tables, so the two register writes (or one and an LR)
come on top of that, with any number of accesses, traps, returns and debugger visits between
them. In `jtag_sba` there is no bound but the values: scans, resets and idle cycles go on for
ever. Three commands let an answer wait behind two others; two processes of two connections
let every event come late by one generation.

**Fairness.** `FairSpec` of `DebugModule` assumes weak fairness of each hart's instructions in
the ROM and of the debugger's idle cycles, nothing of the debugger's requests. `sim_t::step`
gives every hart its turn whatever it does, so a hart whose next instruction is enabled
executes it; `Platform` models that loop, and `WakesUp` is checked over it. A debugger that
waits for busy to fall clocks the TAP in Run-Test/Idle meanwhile, which is what calls
`run_test_idle`. `PlatformSpec` assumes only that the simulator goes on stepping
(`htif_t::run` calls `idle` again and again); typing is under no fairness. `Host` assumes weak
fairness of the loop's steps and strong fairness of `program_takes`: a program that is owed an
answer polls fromhost, slice after slice. `Web` has no fairness: that continuous execution does
not stall is the invariant that something is always under way (`NotStalled`).

## Proofs

Eight modules, `PlatformProofs` (the PLIC and the board), `DebugModuleProofs`, `CacheProofs`,
`JtagProofs`, `MmuProofs`, `HartProofs`, `HostProofs` and `WebProofs`, extend the models. Their
theorems hold for every value of the constants within the assumptions named in the models
(`PlicAssumption`, `HierarchyAssumption`, ...), which TLC evaluates on every run. Where a theorem
asks for more, the condition is a definition of its own and part of the statement.

* **PLIC.** Types, `ServiceNesting`, `MipCoherent` and `NoSpuriousMeip` for any number of
  contexts, sources and priorities. `MipCoherent` is inductive with the types, because every
  action that changes what `context_best_pending` reads ends in `context_update` for the
  context. `NoSpuriousMeip` needs the weaker half alone, since a reset may lose the bit.
  Under exclusive routing `LevelTriggered` and `OneServer` follow from one invariant
  (`ExclusiveInv`): the context at which the loop of `set_interrupt_level` breaks is the only
  one that has the source enabled. `ScanAgrees`: the loop over words and bits, with the empty
  words skipped and the last word cut off at the number of sources, returns the
  highest latched priority above the threshold and the lowest number among equals.
* **Board.** `PlatformSpec` implements `ExclusiveSpec` (`BoardIsPlic`): the guest, which moves
  the UART interrupt from hart to hart, never has it enabled at two, so what was proved of
  the PLIC alone holds of the board. The invariant `BoardInv` adds `Routed` (a hart about to
  enable the source finds it enabled nowhere), `UartInv` (the wire is what `update_interrupt`
  would compute), `ClintInv` and `TimerInv` (where a guest is in setting its timer by halves),
  and gives all parts of `PlatformInv`. `TimersNeverEarly` has the condition `BelowTop`: no
  deadline lies in the last half of the time there is. Without it the theorem is false: the
  recipe of writing all ones into the high half first gives a compare value below such a
  deadline, and TLC finds the early interrupt with `Deadlines = {1, 3}` and `INTERLEAVE = 1`.
  `InputKept` is `InputIntact`: what was received, what is queued and what the terminal still
  has are, in this order and apart from the guest's own zeros, the typed characters without
  those that a clear threw away.
* **Debug module.** Types, `HaltedIsTrue` and `AckIsFresh` against any debugger, any number
  of harts and any ascending hart ids; `BusyUntilDone` and `CommandEffect` for the careful
  one. What a command has done needs four more facts in the invariant `Careful`: a hart
  about to resume still has its flag up (`FlagUp`), the selected hart stays in the ROM and is
  not asked to resume while busy is up (`Stays`), only a command with postexec brings a hart to
  the program buffer (`AsksIt`), and past its transfer the hart's register and the data register
  are equal as long as no program buffer has run (`InHand`). `UnavailableLeftAlone` is an action property of every step, halt groups included.
* **JTAG and system bus.** `InFlightIntact`, `NoSilentLoss`, `DtmInv` and `OncePerScan` for any
  register width, wait, set of scans and bus. The invariant `DtmIInv` adds the phase of the
  clock: between Capture-DR and Update-DR nothing has been done for the scan and the status it
  saw is the sticky bit; once Update-DR has run, it was done once, or not at all if the
  status was busy.
* **Hart.** `HartInv` (no context is lost), `StepsOne`, `ReturnsWhereItCame` and
  `InterruptsRespectMasks` for any slice, delegation and pattern of interrupts, halts and
  resets. The invariant `HartIInv` says for each of the three levels that a context its handler
  has not copied is in the registers of the level, behind its double-trap bit, and that the
  hart is where that handler can run (`FrameM`, `FrameS`, `FrameVS`); that the bits agree with the
  modes (`ModesAgree`); and at which places of `step` a single step can still be ended
  (`StepInv`). It needs `DcsrAssumption`: the debugger writes no dcsr with V and M together.
  `dret` takes such a value as it is and clears SDT under a context of S, which the attempt at
  the proof showed.
* **MMU and PMP.** `CachesTransparent` (a TLB or instruction-cache hit grants what a walk and
  the PMP would grant now, and a TLB hit skips no trigger), `ReservationHolds` and
  `LockedForever`, for any number of pages, entries and triggers. `ReservationHolds` rests on the
  turns: a hart that waits has no reservation (`Yielded`), so a store of another hart finds
  none to contradict. For `LockedForever` what `access_ok` allows is compared case by case before
  and after MML is set. The invariant adds to the property that `check_triggers` is what
  the triggers watch and that the tables have their types. The argument for the PMP is that a
  region that is homogeneous over a page answers alike for all of it; it uses
  `PageSizeAssumption`, that NAPOT regions and pages nest, which holds because both sizes are
  powers of two.
* **Caches.** Types (rebasing never underflows) for any geometry. With fewer accesses than a
  counter has values (`MaxAccesses < wrap`), `NoOverflow` and the refinement `L1IsLru`. The
  invariant `OrderInv` says of each set that no tag is in it twice, that the counters of
  valid lines differ and are below `next_lru`, and that `next_lru` is at most the number of
  accesses; the last part is what keeps it from wrapping although a set may never be
  rebased. The refinement goes set by set: `AccessRefills` shows what an access does to
  the resident tags, the dirty ones and their order, `AccessCases` that it hits, fills a free
  way or replaces the oldest line. `NothingLost` and `CountersAgree` hold with wrapped counters
  too: a line is its set and its tag and back, the second access of a miss to the second
  level keeps what the first saved, and the totals per pc and the statistics of the caches
  are raised together.
* **Host.** `HostInv` under `NoDupFd`, that the program duplicates no descriptor: the table
  leads each descriptor the program holds to the file it opened, no two to the same one, and
  nothing the host has open is forgotten, for any limit on descriptors. `MCDupFd.cfg` shows
  that the condition is needed. `AnsweredOnceInOrder` holds for every program
  (`AnswersInLine`); `AnswersIInv` adds that the command in tohost is the newest of all.
* **Web.** `WebInv` (`WebSafe`), `OnlyClicksAdd` (`OnlyClicks`) and `LetGo` (`LetsGo`) for any number
  of connections, processes and clicks and any division of the output into pieces. The
  invariant `WebIInv` adds whose a process is (`SessionsSound`, `ProcessesSound`), that start
  requests under way find a process to start (`RoomToStart`), that nothing is under way
  without a connection (`NotConnected`), and `EchoFirst`, which is why a run does not stall: a
  session that waits for output has a process that is still to be asked, or whose echo stands
  before its instruction, and a cut leaves a part of both or excuses the session
  (`CutEffect`), so that whatever piece the server reads, it counts the echo as the prompt
  before it tells the page of the instruction. Without `EchoFirst`, `NotStalled` is not
  inductive: the acknowledgement could come while the session still waits for output. For
  `OnlyClicksAdd` a step that is no click moves instructions between one process and the two
  directions of the socket and adds none (`TotalMoves`).

Two kinds of argument recur. What a recursive function or a fold computes is shown with a
least counterexample, since the naturals are well founded (`WFMin`), instead of by induction;
for the folds over sets in `Web`, that the function they choose exists is shown the same way
(`SetRecursion`).
And sequences are compared position by position: the provers do not know `SelectSeq`, so the
properties about order (`InputIntact`, `AnsweredOnceInOrder`) speak of positions.

Some attempts corrected the models. A handler's read of the receive register with the divisor
latch open returned the head of the queue, and bytes read by the boot code were not counted
(`InputIntact`); the order of answers was stated per device, which `identify` does not respect
(`AnsweredOnceInOrder`).

Every invariant and every action property of the passing runs is stated by a theorem. Only
model-checked are the liveness properties (`RequestsServed`, `InputIsRead`, `WakesUp`,
`CallsReturn`): fairness is out of the prover's reach.

## What the code does otherwise than it says

The violated run and the further configurations above are disagreements with a run behind
them. Others were met while modelling. Where the model has the code, it does what the code does.

Interrupts and devices

* `plic.cc:325`: after a wire rose while a source was enabled in two contexts, only the first
  sees it; enabling, claiming or disabling there leaves a high wire without a pending bit.
* `ns16550.cc:96` looks for the FIFO clear bits in `lcr`; `ns16550.cc:125`: receive and transmit
  interrupts together read as the code of a line-status interrupt.
* Interrupts are only looked at when a turn starts and after a serialising instruction, so one
  that a store of the hart itself raises waits for the end of its turn.

Debug

* `debug_defines.h:2429` says writes to abstractauto while busy set cmderr;
  `debug_module.cc:929` accepts them.
* `debug_defines.h:2606` says the group applies to the selected harts; `debug_module.cc:1006`
  changes only the hart of hartsel.
* `debug_module.h:201` keeps availability by hart id; `debug_module.cc:643` tests it with the
  hart's index.
* `debug_module.cc:809`: nothing lowers GO when a hart or the module is reset in mid-command.
* `debug_module.cc:286` adds in 32 bits before it widens, so an increment loses its carry.
* `jtag_dtm.cc:96`: every call that is no rising edge repeats the action of the state; a client
  that sets the pins twice with the clock low applies an operation twice.
* `remote_bitbang.cc:147` sends the whole buffer again after a partial write;
  `remote_bitbang.cc:156`: a quit leaves the loop before the code that closes the connection.

Processor

* `sret.h` (30–46): an sret in M-mode clears mstatus.SDT and writes it back with an older value.
* `dret.h:12` tests dcsr.v as it was written, not as it is legal.
* `execute.cc:355`–378: a critical error while a step ends enters debug mode twice and
  loses dpc; a trap trigger that raises an exception in a critical error does not stop the hart.
* `processor.cc:360` drops the result of the icount match; `processor.cc:471` looks at the
  guest's double-trap bit also for traps that go to HS.
* `debug_defines.h:361`: dcsr.stepie is hard-wired to 0, but interrupts are taken while stepping.
* `triggers.cc:536` computes whether a chain is allowed from the dmode of the value written;
  the comment above it speaks of the trigger's.
* `csrs.cc:464`: a change of mstatus.MIE or SIE does not flush. An instruction cached while an
  execute trigger with action 0 was held back in its mode is not checked again after
  interrupts are switched on.
* `execute.cc:170` charges an instruction's misses to `instruction_perf[state.pc]`; a serialising
  instruction has moved `state.pc` by then. The sums do not change.
* `csrs.cc:585`: a write of mnstatus.NMIE changes whether MPRV applies and does not flush.

Caches, host and web

* `cache_hierarchy.cc:195` drops the result of the write-back, whose victim costs no cycles.
* `cachesim.cc:191` looks a line up without its valid bit.
* `syscall.cc`: the stat calls compare with `(reg_t)-1` although an error is `-errno`, and copy
  an uninitialised buffer to the program after an error.
* `web/server.js`: a `run 1` that prints no instruction, or is sent before the session is
  initialised, leaves continuous execution waiting for ever (`excused` in `Web`).
* `web/server.js:233`–241 splits each piece of output at its newlines and keeps no partial line:
  a line that the terminal cuts before its disassembly is lost, and continuous execution
  waits for ever for it (`Cuts` and `excused` in `Web`).

## Not modelled, and why

The repository has some 72000 lines, of which most are one file per instruction, softfloat,
encodings, the disassembler's tables, vendored device-tree code and generated headers. They
are computations on wide words, constants or formatting, without interleavings: a model of
them would be a transliteration, and TLC could not enumerate their inputs. The modules here
take in the code that carries state from one step to another.

Left out of parts that are modelled:

* `Hart`: non-maskable interrupts, landing pads, icount triggers, commit logs, reset of
  extensions. Registers that only describe a trap (xepc, xcause, xtval).
* `Mmu`: two-stage translation, the levels above the leaf, shadow stacks, pointer masking,
  devices, the splitting of misaligned accesses where they are enabled (`mmu.cc:254`–257,
  330–333). M-mode software runs with MIE clear. Stores of a debugger or of the host are not
  among those of `other_store`.
* `CacheHierarchy`: that the accounts of a serialising instruction are kept under the next pc.
* `Triggers`: the tests of sstatus.SIE and vsstatus.SIE with delegated breakpoints
  (`triggers.cc:88`–97), as medeleg leaves breakpoints to M-mode; hit bits, textra conditions, comparisons other than equality, icount, itrigger
  and etrigger.
* `JtagDtm`: accepting and closing connections, and how commands are batched.
* `Clint`: the real-time clock. `Ns16550`: divisor, modem status, scratch.
* `Host`: ELF loading, disk and framebuffer devices, the contents of magicmem, chroot, the loop
  for programs without tohost, truncation of exit codes; the exit of the simulator when a
  command names a bad address (`htif.cc:267`, 280, 291) and its abort when the terminal takes no output
  (`term.cc:51`), after which nothing happens.
* `Web`: a page opens two sockets, as `initializeSocket` is called twice (`app.js:394` and 1040).
  The buttons use the second; on the first the server never gets a request, so its session
  stays as it was created, and only its connect and disconnect events reach the page. The
  model has the second one. Also rendering, register and memory views, statistics, the CPU monitor, upload errors, the
  shutdown of the server. The interactive debugger's other commands print and change nothing
  that the page depends on.

Left out as a whole: the fesvr DTM (its peer is hardware outside the repository), the
stand-alone cache simulator (one thread, a random victim, nobody reads its state), the
accelerator, ELF analysis, generators, the command line.

## Plan

All modules that were planned are written, and their safety properties are proved. Worth adding
next are the parts listed above as left out of a modelled component, first two-stage
translation in `Mmu` and non-maskable interrupts in `Hart`: their state crosses steps, and
both meet code that is proved here.
