# A TLA+ model of Flycast-X

Flycast-X is a port of the Flycast Dreamcast/Naomi emulator to the original
Xbox.  The emulator core is in `src/flycast/core`, the host layer of the port
in `src/Platform/xbox`.  This directory holds TLA+ specifications of the parts
whose correctness is a matter of *order, concurrency and arithmetic at its
limits*, TLC configurations that check them on small instances, and TLAPS
proofs, for instances of every size, about the event scheduler, the interrupt
controllers, the timers, the disc drive, the block cache, the texture cache, the
audio ring and the render hand-over.

`PROJECT.json` is the machine-readable index: components, runs, mutants,
definition-to-source map, hazards, findings and theorems.

## 1. Inventory

### How the program works

One thread, the *emulation thread*, interprets or recompiles SH4 code in time
slices of 448 cycles.  After each slice `UpdateSystem_INTC` advances the clock
and calls `sh4_sched_tick`, whose callbacks are the devices: the video raster
(SPG), the sound processor (AICA), timers, the disc drive, the controller bus.
Devices raise interrupts in the Holly and SH4 interrupt controllers, which the
CPU takes at the end of the slice.  A frame ends with the game starting a
render: the TA context built so far is handed to the *render thread* (which is
also the UI thread).  Every block of samples is handed to the audio backend,
whose *feeder thread* refills the hardware buffer.  Host threads are therefore
three.  They meet in three places: the render hand-over, the audio FIFO, and
video memory, which the CPU writes while the render thread converts textures from
it.  The last meeting place has no queue: pages of VRAM that hold a converted
texture are write-protected, and the exception handler of the CPU's store finds
out which textures to convert again.  The recompiler uses the same device for
main RAM: pages with compiled code are protected, and a store to one discards the
code.  Inside the emulation thread the hard parts are time (every device is a
callback of the scheduler, counted in words that wrap) and code that disappears
while it runs.

### Components

| Component | State | Operations | What makes it correct | Status |
|---|---|---|---|---|
| SH4 event scheduler (`hw/sh4/sh4_sched.cpp`) | list of slots (start, end), clock, cycles to the next event | register, unregister, request, tick, reset, (de)serialize | no event is lost or early; jitter is the true lateness; a tick ends | modelled, proved |
| Render hand-over (`hw/pvr/Renderer_if.cpp`) | message queue, five events, pend_rend | rend_start_render, rend_end_render, rend_vblank, rend_swap_frame, rend_single_frame, rend_cancel_emu_wait, rollbacks | a frame is rendered once; RENDER_DONE waits; no wait is forever | modelled (threaded path), safety proved |
| TA contexts (`hw/pvr/ta_ctx.cpp`) | pool, list, current context, one-frame slot | find, alloc, pop, recycle, QueueRender, FinishRender, (de)serialize | a context has one owner; the slot is never overwritten | modelled, proved |
| Emulator life cycle (`emulator.cpp`) | state, CpuRunning, reset request | start, stop, reset, exceptions, load, unload | stop() returns | the part the two threads see |
| Xbox audio (`xbox_audio_directsound.cpp`) | byte ring, room event, hardware buffer | push, feeder loop, init, term | the ring is a queue; no lost wakeup; no stale sound | modelled, safety proved |
| SH4 interrupt controller (`sh4_interrupts.cpp`, `modules/intc.cpp`, `UpdateSR`) | tables sorted by priority, pending, mask and SR words, cached `interrupt_pend` | pend, mask, priority writes, SR loads, RTE, accept, reset | the taken interrupt is the highest raised, enabled, unmasked one; the cache is never stale | modelled, proved |
| Holly interrupt controller (`holly_intc.cpp`) | status words, masks per level | raise, cancel, status and mask writes, resets | the SH4's IRL bits follow the words | modelled, proved |
| Timers (`modules/tmu.cpp`) | base, mask and mode per channel, TCOR, TCR | reads that reload, writes of TCNT, TCOR, TCR, TSTR, callback, reset | the computed counter is that of a counter that counts; no underflow is missed | modelled but for save states, proved |
| Block cache (`dyna/blockmanager.cpp`, `dyna/driver.cpp`, `rec-x86`) | blocks, jump table, patched jumps, block lists of pages, protected and written pages, discarded blocks | compile, link, check, discard on a write fault, flush, reset, load | code that starts is the code in memory; no jump into freed code; no fault in the first view of RAM that repeats for ever | modelled for MMU off, safety proved |
| GD-ROM drive (`gdromv3.cpp`) | ATA state, status, PIO and DMA buffers, GD-DMA registers, slot | register writes, packet commands, scheduled DMA, abort, reset | drive and driver agree on the phase; no sector lost; a waiting driver is answered, with the exceptions the properties name | transfer engine modelled, safety proved |
| Texture cache, VRAM protection (`TexCache.cpp`, `addrspace.cpp`, `xbox_fault_handler.cpp`) | cache, locks, lists and protection of pages, dirty marks | update, lock, fault, cleanup, delete, reset | a clean texture shows VRAM; every store is executed | modelled but for custom and rendered textures, safety proved |
| SPG, SH4 DMA, Maple, AICA timers and DMA | registers, one scheduler slot each | register writes, callbacks | counters agree with the clock; completion is raised once | not modelled |
| Disc images, flash ROM and NVRAM, audiostream | files, command state, one block of samples | read, write cycles, WriteSample | formats; the log finds the newest valid block | not modelled: sequential |
| Interpreter and recompilers (instructions), ARM7, DSP, TA parser, renderers | | | instruction semantics and geometry: out of TLC's reach | not modelled |
| Naomi, modem, BBA, netplay session, UI, file browser, CRT shims | | | outside the core, stubbed on Xbox, or plain I/O | not modelled |

### What is hard to test

`PROJECT.json` lists 40 hazards with their lines.  They fall into these groups:

* *wrapping words and cut lengths*: in the scheduler an overdue event looks almost
  a full word away and is silent for 21 seconds; in the drive a read is cut into
  sectors, buffers, ticks and DMA lengths none of which divides the others; in the
  timers every register write has to move a base;
* *unlocked hand-over* of the render slot, the audio ring and video memory;
* *waits with a single waker*, who is also the one that calls `stop()` and joins,
  and stores that are repeated until a handler has removed the cause of the fault;
* *what is left behind*: signals, messages and the frame in the slot after a stop,
  the slot and the buffer of a DMA after an abort, the links and page protection of
  flushed blocks;
* *cached values* that many places change and one test reads: interrupt words,
  patched jumps, the compiled code itself, the copies of textures in the GPU.

Where no property covers a hazard its note says why.

## 2. Plan

1. `Sh4Sched`, `Sh4SchedProofs` – everything else keeps time with it. *Done.*
2. `RenderThreads` – the hand-over between the two main threads. *Done.*
3. `AudioQueue`, `XboxAudio` – the third thread. *Done.*
4. `Intc`, `Sh4Intc`, `HollyIntc` and their proofs – the interrupt controllers
   that connect the devices to the CPU. *Done.*
5. `BlockCache` – compiled code under page protection. *Done.*
6. `GdRom` – the command state machine with a driver and its DMA. *Done.*
7. `TexCache` – the texture cache under page protection, two threads. *Done.*
8. `Timer`, `Tmu` – a device on top of the scheduler's promises, as a refinement.
   *Done.*
9. Proofs of `BlockCache`, `TexCache`, `XboxAudio`, `Tmu`, `RenderThreads` and
   `GdRom`: all of their safety properties and both refinements. *Done.*
10. Not planned: AICA timers and DMA and the video raster (in the manner of
    `Tmu`), the Maple DMA, the block log of `nvmem.cpp`.  They are sequential code
    with little state kept between calls.

No module that is, or is meant to be, proved about declares a RECURSIVE
operator.

## 3. Modules

### Sh4Sched

State: `ffb` is the low word of `sh4_sched_ffb`, `schedNext` is
`Sh4cntx.sh4_sched_next`, `nextId` is `sh4_sched_next_id`, `schList` is
`sch_list`.  `pc`, `pos` and `jitter` are the program counter and locals of
`sh4_sched_tick`/`handle_cb`, split at the callback because a callback may
request and cancel events of any device.  `left` is a history variable: the
true distance to each deadline, in integers that never wrap; the properties
compare the code's words with it.  `saved` is a save state.

Each function is one action (`UpdateSystem_INTC`, `handle_cb`, `cb_return`,
`tick_end` and so on), every one of which ends, as in the code, with
`sh4_sched_ffts` where the code calls it.  `sh4_sched_ffts` states what the
scan finds (`IsEarliest`: first minimum, never -1) instead of looping.

Abstracted: the high word of the clock (read only by `sh4_sched_now64`), the
callback argument and tag.  Not modelled: registering or unregistering a slot
*inside* a callback (it invalidates the reference the loop holds); save-state
formats older than the current one; slots of network devices (not saved, but
no state is saved while online).

### RenderThreads

Threads: the emulation thread (`epc`) and the render/UI thread (`rpc`).  A step
ends where the code takes or leaves a lock, touches the other thread's
variables, or signals or waits.  A chain of TA contexts is the set of its
members; addresses are abstracted (the game names any context of the list);
messages are their types; events are `cResetEvent`s that keep one signal.  `Env` selects what the
environment may do in a run: spurious wakeups, overlapping renders, soft
resets, exceptions, stops, state loads, game changes and GGPO rollbacks.

`rend_start_render` reads `ctx->rend.isRTT` after the Render message was
queued, when the render thread may already have deleted the context; the value
is then arbitrary (`LateIsRTT`).

The model covers builds with `config::ThreadedRendering`.  The Xbox build turns
the option off and runs both roles on one thread; the hand-over then is a plain
call and has no interleavings.  Left out: pixel data, the frame-buffer writers,
the swap-interval detector, and `stop()` called from a third thread (Android).

### AudioQueue and XboxAudio

`AudioQueue` is the promise: a bounded queue into which blocks go whole and from
which whole frames come out.  `XboxAudio` is the code: `push`, the ring's
`write`/`read` with the copy and the publication of the cursor as separate
steps, `feederMain`, `init`, `term`, and the hardware's play cursor (external:
modelled from how the feeder reads it).  The refinement mapping takes the bytes
between the cursors for the queue.

The hardware plays its buffer in a loop by itself.  In a round of the feeder (a
sleep of 2 ms and the copying) it plays up to `Lag` bytes, whether or not they were
written since they were last played; `fresh` are the bytes that were.  A round
fails when `GetCurrentPosition()` or `Lock()` does, and up to `MaxFails` rounds in
a row may.  `term()` waits for the feeder to end or for its timeout, whichever
comes first, and then releases the buffer in either case; the timeout is counted in steps that the
feeder takes meanwhile (`JoinSteps`), which is what a 2 s wait guarantees when
threads are scheduled.  If more rounds fail, or the time is too short, `NoReplay`
and `NoFeederLeft` are false; the theorems state how much is enough.

Creating the objects succeeds or `init()` fails before anything is started.  Memory is
sequentially consistent in the model; the code relies on volatile, aligned
cursors on the single-core x86 of the Xbox.

### Intc, Sh4Intc and HollyIntc

`Intc` is the promise of the SH4's controller: sources with levels, a set of
raised and a set of enabled ones, and the rule that the highest one above SR's
level is taken.  `Sh4Intc` is the code.  There each source has a bit, numbered in
the order of priority, so that one bit scan finds the interrupt to take; a write
to IPRA, IPRB or IPRC renumbers all bits and moves the pending and mask words;
`pend` (`interrupt_pend`) caches the conjunction of three words.  A word is the
set of its bit numbers.  `Rank` states the value `cnt` has when the loops of
`SIIDRebuild` come to a source, `LevelBits` the first `cnt` bits after each
level.  The refinement mapping takes a source for raised when its *current* bit
is in `vpend`.

Interrupts are taken at the end of a slice (`UpdateINTC`) and in the
instructions that load SR (`ldc_SR`, `rte_end`, which end in `UpdateSR` and
`UpdateINTC`).  RTE is two steps because a device register, also a priority
register, may be written in its delay slot, when SR is restored and not yet
decoded; SSR is arbitrary since the guest may load it.  An exception in that slot
and an exception while BL is set are fatal in the code and are not steps; nor is a
load of SR in the slot, which the SH4 forbids.  `InterruptMask` is what the
devices do: they always set the pending bit and then the mask bit of their source.
`interrupts_reset` includes what the CPU reset before it and the timer reset after
it leave.

`HollyIntc` extends it with the status words (normal, external, error, and normal
of the second CLX on a Naomi 2), the masks of each IRL level, and every function
that changes them; the IRL sources then belong to Holly and the others to the
devices of the SH4.  `lost` is a history variable: the levels that Holly has not
updated since a soft reset.  A soft reset clears the normal words only, while
the SH4 forgets all pending bits; what is left in the external and error words is
delivered when Holly next updates that level.  `IrlIsCurrent` states that this is
the only way in which the two may differ.

Left out: save states (all fields are copied), register banks, the address in
INTEVT and VBR, and reads, which change nothing.

### BlockCache

One thread, whose control state `cpu` says where the host is: in the main loop, in
`compilePC`, in `rdv_LinkBlock`, at the check at a block's start, in the scheduler
tick of its prologue, or in its guest code.  `blkmap`, `fpcb`, `pageBlocks`
(`blocks_per_page`), `unprotected` (`unprotected_pages`), `delBlocks` and
`lastAddr` are the tables of the code; `link` and `preRefs` are the patched jumps
and `pre_refs`; `locked` is the host's page protection.  `ram` and `snap` are what
pages contain and what a block was compiled from; a page is one value.

The guest may store to any page, at any time in a block's body; a DMA may do the
same in the tick.  `Decode[a]` are the blocks that may be found at an address:
pages, exits that can be linked, computed jump or not.  `Setup` is `Setup()`,
`compile()` and `bm_AddBlock()`, which nothing interrupts; before it `CompilePC`
may flush the cache, also while `rdv_LinkBlock` holds a pointer to the block it
means to patch.  `Store` includes the fault, the handler and the second try.

A store names a view of RAM.  The first, at 0x0C000000, is the one that is committed
in the fastmem window of the Xbox, that `bm_LockPage` protects and that the
emulator's own code writes through.  The mirrors at 0x0D000000 to 0x0F000000 are
reserved address space: an access there faults, `bm_getRamOffset` takes it for an
access to the page, and the handler has it repeated, for ever (`FaultAgain`; §6).
`NoLoopInFirstView` is about the other view only.

`Collect` is not code: when a block starts, blocks that were discarded before can
no longer be asked for, and the model forgets their data so that block objects
can be used again.

Slots of the scheduler run in the order in which they were registered: vertical
blank, RTC, DMA.  The RTC slot frees discarded blocks once a second, and that it
comes before the slots that write to RAM is what keeps the running block known
(`LinkerFindsBlock`).

Left out: the MMU and temporary blocks; code that runs with the FPU disabled;
light guns, whose answer is written during vertical blank; where in the code
buffer a block lies (see the hazard at `driver.cpp:293`); block sizes in host code;
desktop builds, where the mirrors are mapped and `bm_LockPage` protects the first
view only.

### GdRom

`gd` is the drive, `sb` the GD-DMA registers with the scheduler slot, `host` a
driver.  `gd_set_state` calls itself until the drive reaches a state in which it
waits; each transient state is an operator from drive to drive, so that an action
is a whole register access.  Actions: writes of the command register (NOP, soft
reset, packet, the ones that only interrupt), packet words, data words in both
directions, STATUS reads, GD-DMA start, enable and disable, the scheduler callback
`GDRomschd`, and a reset of the machine.

`gd_spi_pio_end` tests for an empty buffer in words, `gd_spi_pio_read_end` in bytes;
a length is kept in words.  `SPI_SET_MODE` of one byte therefore announces data and
has none (`Wordless`): only an abort ends it.

The driver is external.  Towards the command registers it follows the ATA protocol:
it sends commands while BSY and DRQ are clear, waits for INTRQ, reads STATUS and
moves what the drive announced; at any moment it may give up and send ATA_NOP or
ATA_SOFT_RESET.  Of the DMA it sees the registers only: whenever SB_GDST is clear it
may start one of any length, before, during or after any command, with SB_GDEN set
or not; it may stop it by clearing SB_GDEN.  So one read may be split over several
DMAs and one DMA may span several reads, which the comment at `gdromv3.cpp:1299`
("dc can do multi read dma") expects.

`xfer` and `dma` are history variables.  `xfer`: sectors asked for and units
delivered.  `dma.ahead`: SB_GDST was set for more than a DMA read in progress had
(too long, or no read there).  `dma.starved`: SB_GDST is set but the slot is gone,
because it was started without SB_GDEN or a tick found no data
(`gdromv3.cpp:1240-1241`).  `dma.torn`: during the present command, which is no DMA
read, a slot moved data, of a PIO read or of a read that was aborted; when that
empties the drive, `gds_procpacketdone` ends the present command.  The properties
hold for every driver, with these exceptions and no others:

* `PhasesAgree`: under `dma.torn` a driver in a packet or data phase may face a drive
  that waits for a command;
* `NoSectorLost`: under `dma.torn` the words of a PIO read do not add up.  The
  `verify()` in `DmaBuffer::fill` fails, and a slot is lost, only when `dma.ahead`;
* `HostServed`: a driver may wait for ever when its DMA is `dma.starved`, `verify()`
  failed, or the transfer is `Wordless`.

After a failed `verify()` the emulator has ended (`Died`).

Left out: contents of replies, sense keys, CD audio, subcode, disc swap, save
states, reads of no sectors, SB_GDDIR other than 1, the interrupt at the end of a DMA
(the driver reads SB_GDST) and the slot that `SPI_CD_SEEK` requests under
`STRICT_MODE`.

### TexCache

Threads: the CPU (`cpu`: at a store, in the exception handler) and the renderer
(`rt`: parsing, converting, uploading, cleaning, drawing).  A critical section of
`vramlist_lock` is one step.  A conversion reads page by page, so that stores fall
between.  `unseen` are the textures overwritten between the read of a page and the
lock, or through the view that is never locked.  `dirty` counts frames since a
texture was overwritten, up to the age at which it is deleted.  `lists` says
whether `VramLocks` has been allocated: before the first texture the handler
rejects a fault, afterwards it accepts every address at 0x04000000.

VRAM has three views: `first` at 0x04000000, through which the emulator's own code
writes, `wrap` behind it at 0x04800000, and `mirror` at 0x06000000.  `protectVram`
locks the first two; the lines for the third are commented out, and `getVramOffset`
does not recognize it.  A store names its view.

Three constants tell builds apart.  Desktop: `Threaded`, `CleanupFirst` and
`MirrorsMapped` true; there a store through the third view is executed without a
fault.  Xbox: all false; the renderer is called from the emulation thread, cleans up
after parsing, and only the first view is committed; an access to the third view
faults and is rewritten to the slow handler, one to the second is not (§4, Findings).

Left out: texture formats and the conversion itself, custom textures, textures
that are rendered into, termination of a renderer.

### Timer and Tmu

`Timer` is the promise: counters that go down at the edges of a prescaler,
reloaded some time after they underflow, with a flag that is also the interrupt
request.  `Tmu` is the code, where nothing counts.  The scheduler is not composed
state by state but through what is proved of it: a request is kept, give or take
the cycle that avoids -1 (`Skips`), and a due event is handled at the end of the
slice in which it expires.  The clock is kept modulo `Period`, and bases of running
channels go down with it (`Rebased`), which leaves every difference as it was.

Left out: save states (all fields are copied) and the reserved prescaler modes.

## 4. Runs

| Run | Checks | Instance |
|---|---|---|
| `sched` | `TypeOK`, `NoEventLost`, `JitterIsLateness`, `RequestIsKept` | word of 12 cycles, slice 2, delays 1 and 2, two slots, saves just before the wrap |
| `render_rollback` | `NoRollbackDuringProcess`, `CallsReturn` | 2 contexts; GGPO rollbacks, presented and skipped frames |
| `render_stop` | `OneOwner`, `SlotIsStable`, `RenderMatchesSlot` | 2 contexts; stop, start, reset, exception, load, unload, rollback, overlapping renders, skipped frames, spurious wakeups |
| `render_live` | `StopReturns`, `CallsReturn`, `FramesAreRendered` | stops and starts racing soft resets, exceptions and game changes |
| `render_stale` | `LockedUntilRendered` is **violated** | stops and starts |
| `audio` | `NoOverlap`, `NoLostWakeup`, `NoFeederLeft`, `ImplementsQueue`, `NoReplay`, `PushReturns` | ring of 5 frames, blocks of 2, hardware of 4, 2 timeouts, 4 failing rounds in a row, a join of 10 feeder steps |
| `holly` | `TypeOK`, `PendIsExact`, `TablesSorted`, `IrlIsCurrent`, `ImplementsIntc`, `TakenIsDue` | two IRL levels and one source of the SH4, one bit per word, Naomi 2 |
| `blocks` | `TypeOK`, `LinksAreLive`, `TablesAgree`, `NoLoopInFirstView`, `LinkerFindsBlock`, `EntryIsFresh` | three addresses, two pages, two views, code buffer for three blocks, four block objects |
| `gdrom` | `PhasesAgree`, `NoSectorLost`, `HostServed` | sectors of 2 and 3 units, reads of 1 and 3, DMA buffer of 2 sectors, ticks of 4 units, DMAs of 2, 6 and 10 units, replies of 0, 1 and 4 bytes |
| `texcache` | `TypeOK`, `LocksAgree`, `FreshUnlessUnseen`, `StoreCompletes` | two pages, three views, two textures that share one, one that does not fit; desktop build |
| `fastmem_mirror` | `StoreCompletes` is **violated** | the same in the Xbox build |
| `tmu` | `ImplementsTimer`, `UnderflowIsTimely` | one channel, prescalers 2 and 8, slice 3 |

Each run ends within four minutes on two cores.

Why the bounds are enough.  The scheduler's behaviour depends on distances
modulo the word and on their order; with a word of 12 the clock wraps dozens of
times per behaviour, every residue (also -1) is used as a deadline, and the
ratio required by `ClockAssumption` is met with nothing to spare
(2(2+2+2) = 12).  Two slots suffice for a callback to touch a slot that the loop
has passed and one it has not reached.  In the render model the slot holds one
frame, so one context in the slot and one being built show every combination of
owners; `SliceOps` bounds what the game does in the last
2 µs slice after `stop()` (one operation).  The audio sizes
are chosen so that blocks do not divide the ring: copies wrap, the ring becomes
full and empty at every offset, and a feeder round may drain less than a block.
Failing rounds and the time of the join are at the limits the theorems give
(`InTime`: 2 + (4 + 2) * 1 = 8; `EnoughTime`: 4 * 2 + 2 = 10).
For the interrupt controllers a source with a free priority against two with fixed
ones shows ties and overtaking in both directions; in `holly` the normal and
the error words are raised (`Raisable`), the external word being treated like the
error word, and one bit per word is enough since words are only tested for an
intersection.  Both restrictions are lifted by the proofs.

`blocks`: a block over both pages and blocks over one give every overlap; one
address is outside protected RAM and always checked, and is the one at which the
cache is flushed; three slots fill up while a block waits to be linked; the fourth
object is the discarded block that is still running.  `gdrom`: sizes are small and
chosen like the real ones so as not to divide each other (sector, buffer, tick,
DMA length); a read of 3 sectors needs two buffers and, by PIO, several batches; a DMA
of 6 units divides no read of sectors of 3 units that is longer, one of 10 (length
0) outlasts each, and one of 2 is done at once, without the scheduler.
`texcache`: `Age` is 0, so that an overwritten texture may be deleted soon.
`tmu`: edges fall on every place in a slice, `MainClock` is shorter
than the longest count, so that the callback comes early; channels do not interact.

Contexts are symmetric; symmetry is used only in runs without liveness.

The cfgs with `LiveSpec` use no symmetry and no state constraint.

### Fairness

* `RenderThreads!LiveSpec`: weak fairness of each thread's steps taken together
  (the operating system runs both).  The user's actions are not fair.  Weak
  fairness of a thread does not promise that the game ever starts another
  render, only that a thread that can go on does.  The render thread's wait in
  `dequeue` has a timeout; the emulation thread's waits have none, and that they
  end is what is checked.
* `XboxAudio!LiveSpec`: only the emulation thread is fair.  `PushReturns` holds
  though the feeder may stop at any point.
* `GdRom!LiveSpec`: weak fairness of the scheduler's callback (`NoEventLost`: a
  pending slot runs) and of a driver that answers interrupts, moves announced
  words, enables the DMA, and starts one while STATUS shows BSY and SB_GDST is clear.
  It does not see whether a slot is pending.  The driver's aborts and
  stops are not fair, and stops are bounded by `MaxStops`: a driver that stops its
  DMA for ever is not served.
* `TexCache!LiveSpec`: weak fairness of the CPU's current instruction (store, fault
  and handler) and of the renderer's current frame.

### Findings

`render_stale`: `rend_cancel_emu_wait()` signals `renderEnd` at every stop and
nothing resets it.  If the emulation thread was not waiting at that moment, the
signal survives into the next run, and the first `rend_end_render()` after a
resume returns although its render-to-texture frame is still in the slot.  The
comment in `PvrMessageQueue::render` says "continue locking until the frame is
rendered".  The effect is one texture read too early after a pause.

`fastmem_mirror`: in the Xbox build an access to the second view of VRAM (at
0x04800000) faults, since only the first is committed.  `xbox_FastmemFault` asks
`VramLockedWrite` first, which maps both views to the same page, unprotects the
first view and has the store repeated; as that was not the cause, the store faults
again, for ever.  The comment in `xbox_oslib.cpp:84` says mirror accesses "simply
fault to the (correct) slow handler".  Before the first texture is converted they
do.  `bm_RamWriteAccess` does the same to the mirrors of main RAM; `BlockCache` shows
it (`FaultAgain`).

### Mutants

Every property of every passing run has a mutant: an operator next to the one it
replaces, whose comment says which slip of the code it stands for (a dropped
test after a wait, a window open at the wrong end, a whole queue cleared instead
of a part).  With the mutant in place TLC finds the property violated.  There are 43.

## 5. Proofs

### Scheduler

`Sh4SchedProofs` proves, for every word size, slice, longest delay, number of
slots and set of delays:

| Theorem | Statement |
|---|---|
| `TypeCorrect` | `Spec => []TypeOK` |
| `EventsAreKept` | `Spec => []NoEventLost` |
| `JitterIsExact` | `Spec => JitterIsLateness` |
| `RequestsAreKept` | `Spec => RequestIsKept` |

Assumption: `ClockAssumption`, i.e. positive slice and
`2 * (Timeslice + MainClock + 2) <= Word`.  The code's 448, 200 000 000 and 2^32
satisfy it with a factor of ten: this is the reason why taking a distance
modulo the word and reading it as signed is right.

The invariants are not inductive by themselves: inside a tick events *are*
overdue, by up to one slice, and `NoEventLost` says nothing about that.
`IInv` is the conjunction of

* `TypeOK`;
* `ListOK`: in *every* state each scheduled deadline equals (now + left) modulo
  the word, it was requested at most `MainClock + 1` cycles before, and `left`
  is at least the floor of that slot: 0 outside a tick and for slots the loop has passed, minus one
  slice for the slots still to come;
* `NextOK`: outside a tick `schedNext` is not negative and does not reach past
  any deadline, and `nextId` is set when something is scheduled;
* `SavedOK`: the same for the saved list at its own time.

The argument: a slice lowers every `left` by one slice, so the floor is met; the
loop fires exactly the slots between floor and 0 (`RemainingSlice` turns the
signed wrapped distance into `left + Timeslice`); what a callback requests is at
least 0 (`EndAfterOK`, `RequestOK`); so at the end of the loop nothing is
overdue and `sh4_sched_ffts` finds the true minimum (`FftsRun`).  The modular
arithmetic is in eight lemmas at the top of the module; there is one lemma per
action below them.

### Interrupt controllers

`IntcProofs` proves, for any number of sources, levels,
priority registers and status bits:

| Theorem | Statement |
|---|---|
| `TypeCorrect` | `Spec => []TypeOK` |
| `PendExact` | `Spec => []PendIsExact` |
| `Sorted` | `Spec => []TablesSorted` |
| `Implements` | `Spec => ImplementsIntc`, the refinement of `Intc` |
| `IrlCurrent` | `HollySpec => []IrlIsCurrent` |
| `TakenInOrder` | `HollySpec => TakenIsDue` |

Assumptions: `SourceAssumption` (there is a source, the IRL sources come first and
have fixed levels, each other source has a priority field, the timers are not IRL
sources) and `HollyAssumption`.

The inductive invariant `IInv` says where each cached value comes from: the tables
are those of the current priorities (`TablesInv`), `pend` is the conjunction of
the three words (`WordsInv`), and outside RTE's delay slot the SR word is the
decoded SR (`SrInv`).  `PendIsExact` alone is not inductive, because in the slot
it says nothing, and because it does not tie the tables to the registers.

The argument rests on the ranks.  `Before` is a strict total order
(`BeforeTotal`, `BeforeAsymmetric`); what comes before a source is a proper subset
of what comes before a later one, so ranks grow with the order (`RankBefore`) and
are distinct; being distinct and below `Count` they are all the numbers below it
(`RankSurjective`, by the pigeonhole principle), so `InterruptEnvId` is defined
and inverts `InterruptBit` (`EnvIdsInvert`).  Counting the sources up to a level
in the same way shows that the first `cnt` bits are exactly theirs
(`RankLevel`), which is what `SRdecode` relies on.  The highest bit of the pending
word is then the bit of the source that outranks the others (`TopIsTaken`).  For
Holly the invariant is extended by the property itself and by the fact that IRL
sources are always enabled; the functions that update all levels need nothing
else, and a mask write must not change what the other levels see.

### Timers

`TmuProofs` proves, for any number of channels, any prescalers and any slice:

| Theorem | Statement |
|---|---|
| `TypeCorrect` | `Spec => []TypeOK` |
| `Timely` | `Spec => UnderflowIsTimely`: an underflow is flagged at the end of the slice in which it happens |
| `Refines` | `Spec => ImplementsTimer`: registers that are only computed are those of `Timer`, a counter that counts |

Assumption: `TmuAssumption`.  Its part `2 ^ Shift[m] \in Nat \ {0}` follows from
`Shift[m] \in Nat \ {0}`; it is there because the provers know nothing of `^`.

`UnderflowIsTimely` speaks of one slice, and its proof has to know what was
arranged many slices before.  `ChanOK` says it: the event of a running channel
comes in this slice, or no later than the moment at which the counter goes below
zero, `(base + 1) * Scale`.  The code measures a delay from the start of the
slice although it computes it in the middle, cuts it at `MainClock` and lengthens
it by a cycle; `DelayBound` shows that the event still is not late, and
`CallbackOK` that a channel whose delay was cut asks again.  Two more facts
complete `IInv`: slices start at multiples of their length, and the
interrupt is pending exactly when the underflow bit is set.

The refinement maps the base to the counter that a read would return.  A run of
instructions is an advance of the abstract timers (`Edges` counts the clock edges
in it), the end of a slice underflows the channels whose events came, and every
register write is the abstract write, because the code moves the base such that
the counter it does not write keeps its value (`WriteOK`, `ReloadOK`, `TurnOK`).
The model keeps its clock small by turning it back by a period; `TurnBackOK` shows
that nothing observes it.

### GD-ROM drive

`GdRomProofs` proves, for any sizes of sectors, buffers, ticks and DMA transfers
and any lengths of reads and replies:

| Theorem | Statement |
|---|---|
| `TypeCorrect` | `Spec => []TypeOK`: no buffer overflows |
| `PhasesMatch` | `Spec => []PhasesAgree` |
| `SectorsKept` | `Spec => []NoSectorLost` |

Assumption: `GdRomAssumption` (a sector and a reply fit in the PIO buffer, DMA
lengths are aligned).  Nothing is assumed of when the driver starts, stops or
aborts; what it can spoil is in the properties themselves, as `dma.ahead`,
`dma.starved` and `dma.torn` (§3).

`IInv` adds to the two properties three facts.  `DmaOK`: while SB_GDST is set and the
DMA is not ahead of its read, the drive reads for a DMA, SB_GDLEND is aligned, and
what the DMA has still to move the drive has in its buffer or on the disc.  So a
tick is never cut short by an empty buffer, the rounding of SB_GDLEND loses nothing,
and the DMA is over exactly when SB_GDLEND meets SB_GDLEN, also for a
length of 0, which stands for the whole range: neither `verify()` can fail nor the
slot be lost.  `PioOK`: a data phase has words left unless it was announced for one
byte, and goes on with the next batch exactly while sectors remain, as long as no
slot took them.  `ReadOK`: nothing is counted for commands that do not read.

A tick copies in a loop, which the model states as a recursive function
(`Moved`).  `LoopExists` shows that the recursion defines a function and `MovedOK`
what it computes, by induction over the rounds.  The induction theorems of the
library have an operator as a parameter, which the provers cannot instantiate;
`SetInduction` has a set of numbers instead and follows from the theorem that a
set of natural numbers has a least element (`WFMin`).

### Block cache

`BlockCacheProofs` proves, for any guest code, any number of pages, addresses and
block objects and any size of the code buffer:

| Theorem | Statement |
|---|---|
| `TypeCorrect` | `Spec => []TypeOK` |
| `LinksLive` | `Spec => []LinksAreLive`: no patched jump into a discarded block |
| `TablesConsistent` | `Spec => []TablesAgree`: jump table, block map and page lists |
| `FaultsEnd` | `Spec => []NoLoopInFirstView`: the handler removes the cause of each fault in the first view of RAM |
| `FirstViewStores` | a store through the first view is carried out at the latest when it is repeated |
| `LinkerFound` | `Spec => []LinkerFindsBlock` |
| `EntriesFresh` | `Spec => EntryIsFresh`: code that starts is the code in memory |

Assumption: `BlockAssumption`.  `FaultsEnd` and `FirstViewStores` say nothing of the
mirrors of RAM, where on the Xbox stores do fault for ever.

`EntryIsFresh` is what the component is for, and it is not inductive: it speaks
of the block being entered, and a store may change the code of any other one.
`PagesOK` is the reason why it holds: a block that carries no check is in the
list of *every* page it touches, a page with a list is locked, and such a block
has not changed since it was compiled.  A store either meets a locked page,
and then every block in its list is discarded, or it changes no such block.
`LinksOK` extends `LinksAreLive` by the back references through which a discard
finds the jumps it has to undo, also for the block that is being executed, which
may be discarded already.  `ControlOK` says what each place of the control flow knows: up
to the first DMA slot the current block is live, after it it may be in the list
of discarded ones.

### Texture cache

`TexCacheProofs` proves, for any number of textures and pages and any overlap:

| Theorem | Statement |
|---|---|
| `TypeCorrect` | `Spec => []TypeOK` |
| `LocksConsistent` | `Spec => []LocksAgree`: locks, page lists and protection |
| `OnlyUnseenAreStale` | `Spec => []FreshUnlessUnseen` |

Assumption: `TexAssumption`.  The theorems hold for both builds.

`FreshUnlessUnseen` says that a clean texture shows VRAM if no store went unseen,
during its conversion or through the third view.  A store through the other views
spares it only because it is locked and because its lock covers all of its pages,
so `IInv` adds `CleanIsLocked`.  Between the start of the update and the lock the
texture is *not* protected; `BufferOK` says what holds there: every page that has
been converted is still what VRAM holds, or the texture counts as `unseen`, or a
fault has made it dirty again.

### Audio ring

`XboxAudioProofs` proves, for any size of ring, block, frame and hardware buffer:

| Theorem | Statement |
|---|---|
| `TypeCorrect` | `Spec => []TypeOK` |
| `CopiesApart` | `Spec => []NoOverlap`: the two unlocked copies touch different bytes |
| `WakeupKept` | `Spec => []NoLostWakeup` |
| `FeederEnds` | `EnoughTime /\ Spec => []NoFeederLeft` |
| `SoundIsFresh` | `InTime /\ Spec => NoReplay` |
| `RingIsQueue` | `Spec => ImplementsQueue`, the refinement of `AudioQueue` |

Assumption: `SizeAssumption` (blocks, ring and hardware buffer are whole frames; a
block fits in the ring with a byte to spare).  Two theorems have a condition that
says how much time is enough.  `InTime`: the hardware buffer is at least a frame
and what is played in `MaxFails + 2` rounds; the code's buffer lasts 46 ms and a
round sleeps 2 ms, so about twenty rounds in a row may fail.  `EnoughTime`: the wait
in `term()` allows the feeder the steps that refill the whole buffer, four for each
of its four blocks, and two to end.

Each thread decides by a cursor that the other one moves afterwards.  `NoOverlap`
is the heart: what a thread has seen can only have grown, so the room or the
bytes it counted are still its own.  With it `ProducerOK` and `ConsumerOK` say
that the copies are exact at the moment the cursor moves, and this is what the
refinement needs: `publish` appends the block, `consume` takes the frames, every
other step leaves the bytes between the cursors alone.  `FreshOK` describes the
hardware buffer: the bytes that were played and not refilled form one arc from the
write position on, and it bounds that arc by what a frame leaves over, the rounds
that failed and the present one; under `InTime` it never closes to a whole circle,
which the code would take for nothing played.  `TimeOK` counts down the steps the
feeder may still need once `feederRunning` is cleared: a failed `Lock()` leaves the
inner loop, so every step takes it nearer to its end.

### Render hand-over

`RenderThreadsProofs` proves, for any set of contexts, every combination of the
options and everything in `Env`:

| Theorem | Statement |
|---|---|
| `TypeCorrect` | `Spec => []TypeOK`, which bounds the pool |
| `ContextsOwned` | `Spec => []OneOwner` |
| `SlotStable` | `Spec => []SlotIsStable`: the frame being rendered is the frame in the slot |
| `MessageMatchesSlot` | `Spec => []RenderMatchesSlot`: one Render message per frame in the slot |
| `RollbackApart` | `Calm /\ Spec => []NoRollbackDuringProcess` |

Assumption: `OptionAssumption`; the set of contexts is finite because the pool is
counted.

None of the four is inductive.  The slot is stable because nobody takes a frame
while the render thread has one, which needs that there is no second Render
message; that one message exists per frame needs that the slot is empty when the
next frame is queued, and where each thread is when it is (`MessageOK`: the message
is in the queue, *or* with the render thread, *or* about to be sent, and never two
of these).  `OneOwner` needs, besides `OwnersOK`, that a chain in the slot leaves
it exactly when it is recycled.  `ControlOK` lists the places of both threads with
the locals they have there.

`RollbackApart` excludes stops and spurious wakeups (`Calm`): `stop()`
deliberately ends all waits, the wait of the rollback included, and that wait has
no loop around it.

### What is only model-checked

* Liveness, and everything that needs ENABLED: out of the prover's reach.
* The statements that the two violation runs refute.

The type invariants of `RenderThreads`, `XboxAudio`, `Tmu` and `GdRom` are proved
and no run is spent on them.

## 6. Limits

* A second render started in the last slice after `stop()` would wait for a
  signal that was already used; the model allows one of each operation there
  (a game would have to start two renders within 2 µs).
* Bytes read from the ring are lost if `Lock()` then fails; the model shows it
  and no property forbids it.
* After a soft reset an external or error interrupt that was set is not delivered
  before Holly updates its level (see `IrlIsCurrent`); what the hardware does is
  not documented in the repository.
* When a flush happens inside `findOrCompile`, `rdv_LinkBlock` patches a block that
  is no longer live, at its old place in a buffer that starts over.  The model has
  no layout of the buffer and cannot say what is overwritten.
* With SR.FD set `compilePC` may return null, which `rdv_LinkBlock` and
  `rdv_BlockCheckFail` pass on; such code is not modelled.
* A texture that is overwritten while it is converted, or through the view of VRAM
  at 0x06000000 in a desktop build, is shown as it was until its page is written
  through another view (`unseen`); the lines that would lock that view are commented
  out in the code.
* With the cleaning order of the Xbox renderer (`xbox_d3d8_renderer.cpp:333-335`) a
  texture that does not fit, whose `Update()` fails, counts as old at once and may be
  deleted after the frame was parsed and before it is drawn.  No document of the
  repository says otherwise, and in the desktop order nothing is deleted between the
  two; neither is stated as a property.
* On the Xbox a load or store through a mirror of RAM (0x0D000000 to 0x0F000000)
  faults for ever.  `BlockCache` shows it (`FaultAgain`), and `xbox_oslib.cpp:84` says
  otherwise, as it does for video memory; it is the defect of `fastmem_mirror` in a
  second place and has no run of its own.
* A DMA over several reads loses its slot when a tick comes between two reads
  (`gdromv3.cpp:1240-1241`), and nothing requests it again although SB_GDST stays set;
  when a tick reaches past the last sector, `verify()` in `DmaBuffer::fill` fails
  (17 sectors of 2048 bytes: the fourth tick of 10240 finds one in the buffer and
  one to read).  The
  comment at line 1299 says the hardware can do such DMAs; it does not say when the
  driver has to send the next read, so this is kept as an exception in the
  properties and not counted as a finding.
* The hardware of the audio model plays at most `Lag` bytes in a round of the feeder: a
  feeder that is not scheduled for 46 ms lets stale sound be played.
* Instruction sets, code generation, graphics and sound synthesis are data
  transformations and are not modelled.
