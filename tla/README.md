# A TLA+ verification of the emulation core

This directory keeps TLA+ models of the core of the emulator, the TLC
configurations that check them on small instances, and theorems about them that
the TLA+ proof system (TLAPS) checks for every instance.

1. [The system and its parts](#1-the-system-and-its-parts)
2. [The modules](#2-the-modules)
3. [What corresponds to what](#3-what-corresponds-to-what)
4. [The runs](#4-the-runs)
5. [Fairness](#5-fairness)
6. [What is proved](#6-what-is-proved)
7. [Findings, and other places where the code surprised](#7-findings-and-other-places-where-the-code-surprised)
8. [Not modelled](#8-not-modelled)
9. [What could come next](#9-what-could-come-next)

## 1. The system and its parts

The program emulates machines.  A machine is a tree of devices, some of which
execute instructions; one thread runs the machine, and a pool of worker threads
takes over rendering, decompression and the like.  About 18 000 files describe
particular chips and machines (`src/devices`, `src/mame`); the logic they all
share is small, and is what is modelled here.  Paths are those below the root of
the program's repository.

| Part | Source | State it keeps | Operations | Hard because |
|---|---|---|---|---|
| Emulated timers | `src/emu/schedule.*`, `attotime.h` | the sorted list of timers, the base time, the timer being called back | alloc, adjust, reset, enable, timer_set, timer_pulse, execute_timers, can_save, postload | any callback or device may change any timer while a loop walks the list; a state file overwrites the timers in place |
| Scheduler of devices | `src/emu/schedule.*`, `diexec.*` | per device: local time, suspend reasons now and next, eat-cycles flags, trigger; the execute list; the quanta | timeslice, suspend, resume, yield, spin, trigger, boost_interleave | suspensions take effect later than they are asked for; triggers are lost when nobody waits |
| Input lines | `src/emu/diexec.*` | per line: a queue of 32 events, the current state and vector | set_input_line, empty_event_queue, acknowledge, reset | events are queued and applied at a synchronisation point; RESET re-enters the line itself |
| Work queues | `src/osd/modules/sync/work_osd.cpp` | the list of items, the live and pending counters, events, the worker threads | queue_alloc, item_queue_multiple, queue_wait, item_wait, item_release, queue_free | threads, lock-free hints, events, shutdown |
| Events and threads | `src/osd/modules/sync/sync_*.cpp` | signalled and auto-reset flags | set, reset, wait with timeout | condition variables wake without cause; a signal may be gone when its thread runs |
| Polygon manager | `src/devices/video/poly.h` | units, polygon and object-data arrays, the chain of units per scanline bucket | render, wait, worker callback | the units of one bucket run in order across workers, by atomic hand-over |
| Machine life cycle | `src/emu/machine.cpp`, `ui/ui.cpp` | the phase, pending exit, reset and state file requests | run loop, schedule_*, handle_saveload, soft and hard reset | requests overlap and are deferred |
| State files | `src/emu/save.cpp` | the registry of items and of presave and postload functions | save_memory, read_file, write_file | a failure half way; hosts and runs that differ |
| Compressed images | `src/lib/util/chd.cpp` | the ring of hunks, its reader and work items, the map | compress_begin, compress_continue, async_read, async_compress_hunk, reading | items of a ring finish out of order |
| Memory system | `src/emu/memory.cpp` | dispatch tables, reference counts, banks, the window of direct reads | install, map banks, switch banks, fetch | tables are shared, split, merged and freed; pointers are cached |
| Virtual TLB | `src/emu/divtlb.cpp` | the table of translated pages | load, fill, flush | shared with generated code |
| Sound streams | `src/emu/sound.cpp` | per stream: sample positions in output and inputs | update, resample, set_sample_rate | positions of streams at different rates |
| Video and throttling | `src/emu/video.cpp` | frame skip state, throttle times | frame_update, update_throttle | real against emulated time |
| Input ports | `src/emu/ioport.cpp` | field states, recorded and played back input | frame_update, playback, record | order relative to the frame |
| User interface | `src/emu/ui` | menus, sliders, the handler in charge | handlers, menus | it may pause what needs time to pass |
| Rendering | `src/emu/render.cpp` | primitive lists, texture references | get_primitives, invalidate | lists used by another thread |
| Other emulation services | `src/emu/{cheat,image,output,config,hiscore,bookkeeping,debug}` | settings, counters, callbacks | load, save, notify | start-up order |
| Chips and machines | `src/devices`, `src/mame` | everything device specific | callbacks of the above | volume; each is a program of its own |
| Libraries and tools | `src/lib`, `src/tools`, `src/ldplayer` | formats, utilities, netlist solver | pure data transformation | |

**How they interact.**  The run loop of the machine calls `timeslice`, which
executes the devices up to the next timer and then the timers that are due.
Devices and callbacks call back into the timers, the suspend operations and the
input lines; an input line uses an anonymous timer to apply its events when all
devices have reached the same time, and suspends and resumes devices.  Between two
time slices the run loop reads and writes state files, which the scheduler permits
only while no anonymous timer is pending.  Devices read memory through the tables
of their address spaces and opcodes through a window that skips them.  Worker
threads touch none of this: they share only work items and the data those point
to.  The polygon manager and the compressor of images are users of the work
queues, which in turn are users of the events.

**What makes each part correct.**

* Timers: the list is in order and complete after any sequence of calls; a slice
  ends at the next timer; a timer is called back at its instant, in the order of
  arming, and whoever re-arms it from its own callback has the last word.
* Scheduler: no suspension or resumption is forgotten, a yield lasts one pass, a
  spin has a timer that ends it, the base time leaves no device behind and goes on.
* Input lines: what was asked last is what the device ends up with; a queue that is
  not empty has a timer; an interrupt wakes the device that waits for one.
* Work queues: the count of pending items is true, an item that is reused is
  nobody's, no wake-up is lost, answers are true, every call returns.
* Events: no wake-up is lost; waits say what happened.
* Polygons: every unit drawn once, those of a bucket in order, with its own data;
  waits end.
* Machine: every request is carried out or given up; an exit does not leave a save
  behind.
* State files: a load that succeeds has loaded what was saved; a foreign file
  changes nothing.
* Images: the file reads back as its source; compression ends.
* Memory: an address is served by what was installed there last; counts are true;
  what is cached agrees with the tables.

## 2. The modules

| Module | Models |
|---|---|
| `TimerList` | attotime arithmetic, the timer record, insertion into and removal from the sorted list |
| `TimerQueue` | timers, the slice loop as far as timers see it, callbacks, state files |
| `TimerService` | the abstract alarm clock `TimerQueue` implements: no list, only the relation "armed first" among the timers of one instant |
| `TimerQueueProofs` | lemmas and theorems about them |
| `Scheduler`, `SchedulerProofs` | the slice loop as the devices see it: suspensions, triggers, cycles, quanta |
| `InputLines` | the input lines of one device, with the calls under way as a stack |
| `Event`, `EventService` | the event of `sync_tc.cpp`, and what `osdsync.h` promises of it |
| `WorkQueue`, `WorkQueueProofs` | a queue, its user and its threads, one access to shared state a step |
| `PolyManager`, `PolyManagerProofs` | the polygon manager on top of what `WorkQueue` shows of a queue |
| `Machine` | the life of machines and the requests made of them |
| `MachineProofs` | lemmas and theorems about `Machine` and `InputLines` |
| `StateFile` | registration, writing and reading, across runs, games and hosts |
| `ServiceProofs` | lemmas and theorems about `Event` and `StateFile`, and how the event implements `EventService` |
| `ChdMap` | the encoding and decoding of the hunk map, as operators |
| `ChdCompressor`, `ChdCompressorProofs` | the compressor's three kinds of threads and their ring; extends `ChdMap` |
| `AddressTable` | the two-level table and its bookkeeping, as operators on a record |
| `AddressSpace` | the calls that change the table, banks, the window; extends `AddressTable` |
| `MemoryMap` | what an address space promises; `AddressSpace` implements it |
| `AddressSpaceProofs` | lemmas and theorems about the three |
| `MC*` | the instances for TLC; `MCSchedulerFiles`, `MCMachineMemory` and `MCChdEvent` are each about two components (section 4) |

Two modules have an abstract counterpart for the sake of refinement in both
directions of the project's layering: `TimerQueue` implements `TimerService`
(`KeepsAppointments`), `AddressSpace` implements `MemoryMap` (`MapsAsInstalled`);
`Event` implements `EventService`, the comments of `osdsync.h`, up to two kinds of
step, which `AsDescribed` names, and with the sense of one parameter turned round
(section 7).

Where one module of proofs, or one instance for TLC, is about two components, one of
them has names of its own for what every specification has: `LifeInit`, `LifeNext`,
`LifeSpec` in `Machine`, `SaveInit`, `SaveNext`, `SaveSpec` in `StateFile`,
`EventInit`, `EventNext`, `EventSpec` in `Event`.

An operator whose comment begins with "Mutant of" (or "Mutant:") is a variant of
the definition after it with a plausible mistake in it.  The specifications never
use them; `PROJECT.json` says which property each of them violates, which shows
that the property can fail.

## 3. What corresponds to what

`PROJECT.json` maps every definition to the lines it models.  In short:

**Timers** (`TimerQueue`).  `tlist` is `m_timer_list`, `timer` the fields of each
`emu_timer`, `basetime` `m_basetime`, `cb` the three members about the timer being
called back.  `AllocTimer`, `Adjust`, `ResetTimer`, `TimerPulse`, `TimerSet`,
`Enable` are the calls; `BeginTimeslice` .. `EndSlice` the loop of `timeslice`, in
which a device runs to some local time at or past the target; `BeginTimers`,
`BeginCallback`, `SkipDisabled`, `EndCallback`, `EndTimers` are `execute_timers`,
split where code runs; `SaveState`, `LoadState`, `LoadFails` and `Drain` ..
`ReinsertDone` the files and `postload`'s two loops.  Device code may make any call
in a slice, in a callback, and between slices.  An attotime is a number of ticks up
to a saturating `Never`.

**Scheduler**.  `dev` holds the execute interface of each device, `pending`
`m_suspend_changes_pending`, `quanta` the quantum list, `execlist` the execute
list.  A pass over the devices is `BeginPass`, then for each one `PassOver`,
`IdleDevice` or `EnterDevice` .. `LeaveDevice`, then `EndPass`.  Between
instructions and in callbacks `Operation` is one of the calls of device code.  Only
the timers that deliver triggers are kept (`alarms`).

**Input lines**.  `queue`, `curstate`, `curvector`, `stored` are the members of
`device_input`; `stack` the calls under way, innermost first, because an event calls
the device, which may set lines, which may flush a full queue, and so on.
`FireTimer` starts the anonymous timer's callback, `NextEvent` takes an event, and
the actions after it are the cases of `empty_event_queue`.

**Events**.  Every action is a stretch of code that holds the mutex.  A thread in
the condition variable is in `sleeping`; `Set` moves threads to `woken`, one or all of
them; `Awake` is the return from the condition.  `EventService` is taken from the
comments of `osdsync.h`, sentence by sentence.

**Work queues**.  `pc` says where each thread is, and each action ends at an access
to a field other threads use: linking items and counting them are two steps, so are
the read of `thread->active` and the setting of the thread's event.  `Pull` ..
`TellWaiting` is `worker_thread_process`, which the main thread runs too; `Sleep` ..
`Retire` the worker's loop; `QueueItems` .. `WakeThread` queueing; `WaitForQueue` ..
`Answer` and `WaitForItem` .. `BlockOnItem` the waits; `TellThreads` .. `FreeQueue`
the end.

**Polygons**.  `unit` holds `count_next` in its two halves, `previtem` and so on;
`Take`, `Look`, `Link`, `Finish` are `work_item_callback` between its atomic
operations; `Render` a call of a `render_*` function, whose wait for space is
`Wait` .. `WaitEnds`.

**Machine**.  `pc` follows `run` and the loop of `machine_manager::execute`.  A
timeslice is `EndSlice`, which lets time pass or not and may start or fire
anonymous timers; `Handle` is `handle_saveload`; the keys are those of
`handler_ingame`, `handler_confirm_quit` and `handler_load_save`.

**State files**.  `SaveMemory`, `RegisterCallback`, `CloseRegistration` build the
registry; `WriteFile`, `ReadFile` are whole calls with their error paths;
`NewRun` starts the program again, perhaps as another game on another host;
`CutShort` truncates the file.  Items are byte sequences and swapping is done byte
by byte.  The bytes of an entry are at its `Offset`, the sum of the sizes of those
before it in the list; nothing else in the file says whose they are.

**Images** (`ChdCompressor`).  The caller's thread is `QueueRead`, `ProcessHunk`,
`WaitOver`, `Finish`; the input thread `ReadHunks`, `SpawnHunk`, `NoteItem`,
`SumHunks`, `AdvanceRead`; a worker `HashHunk`, `PackHunk`, `ItemDone`.  A hunk is
the sequence of its units, offsets count hunks, a hash is what it was made from.
`RestartRing` ends the walk over the parent.  `CompressedMap` and `DecompressedMap`
encode the map for real, with promotion, run lengths and fields of as many bits as
the largest value needs.

**Memory** (`AddressTable`, `AddressSpace`).  A table is a record of the first
level, the subtables with their use counts, the handlers with their reference
counts and the free list.  `PopulateMirrored` is `populate_range_mirrored` with its
quick maps; `Open` `subtable_open`; `Merge` `subtable_merge`; `SetupRangeMasked`
`setup_range_masked`.  Every loop of the code is an `Ascend`, which applies an
operator to the table for each member of a set of numbers, from the least up; the two
loops of counting that do nothing but add or move (the references of a copied
subtable, the blocks of a merged one) are taken at once (`RefAll`, `Move`).
`MapStatic`, `MapBank`, `Install`, `InstallMasked`, `SetBank` and `Fetch` are calls made
from outside; `MapStatic` and `MapBank` are the two
functions `install_bank_generic`, of which one is given the name of a bank and the
other a pointer to it.

## 4. The runs

Each run is one module with one configuration.  "Bound" lists what is cut, and why
what is left is enough for the interesting cases.  Three runs are about two
components each that have nothing to do with each other, and follow one while the
other rests: so as to ask what each of them has to answer in as few runs as possible,
not because they interact.

| Run | Checks | Shows |
|---|---|---|
| `timers` | `Sorted`, `LinkedOnce`, `IdleOutOfTheWay`, `NothingDueLeft`, `SliceStopsAtTimer`, `KeepsAppointments` | the timer list under any interleaving of device code, slices, callbacks and state files, and that it implements the alarm clock |
| `scheduler_files` | `TypeOK`, `PendingWhenDiffer`, `SuspendedLast`, `SpinHasAlarm`, `YieldLastsOnePass`, `BaseKeepsPace`, `QuantaAgree`, `TimeAdvances` | suspensions, triggers, quanta and time on four machines |
| | `LoadsWhatWasSaved`, `OnlyForeignRefused` | files exchanged between runs, games and hosts |
| `work_queue` | `ItemsCounted`, `FreeIsIdle`, `SomebodyIsAwake`, `AnswersTrue`, `QueuedRuns`, `CallsReturn` | queues of no, one and two threads |
| `work_release` | `AutoReleaseOfDone` (violated) | the finding about `item->flags` |
| `work_free` | `FreeCompletes` (violated) | the finding about queues that are freed |
| `lines` | `QueueHasTimer`, `SettledAsAsked`, `InterruptWakes` | input lines of four kinds of devices |
| `machine_memory` | `RequestKept`, `RequestsEnd` | requests, exits, resets and state files, with and without autosave and `-state`, from keys, scripts and the debugger |
| | `CountsAgree`, `CachedRangesTrue`, `WindowFollowsBank`, `MapsAsInstalled` | tables, counts, caches, and that they implement the map |
| `memory_window` | `WindowReadsMap` (violated) | the finding about the window of direct reads |
| `memory_bank` | `AllWindowsUpdated` (violated) | the finding about banks mapped by pointers |
| `poly` | `DrawnAsRendered`, `WaitReturns` | the hand-over of units between threads |
| `chd_event` | `SlotKept`, `ReadsBack`, `CompressionEnds` | eight images through the ring |
| | `NoLostWake`, `SetReleases`, `AsDescribed` | the event with four waiting threads |
| `chd_walk` | `ReadingWhenQueued` (violated) | the finding about the end of the parent's walk |

**Bounds.**

* `timers`: instants 0 .. 3 and `Never`; two permanent timers and one slot for an
  anonymous one; periods 1 and none; two quanta; a device overruns its target by at
  most one tick.  One session has delays in the past, of one tick and for ever, up
  to time 2 without state files; another has one file.  Two permanent timers are
  enough for ties and for insertion in front of and behind each other, the third
  for a timer armed in the callback of another.  Permanent timers are
  interchangeable (`SYMMETRY`): the modules compare them only for equality, and no
  liveness is checked in this run.
* `scheduler_files`, the scheduler: two devices, one often with half the clock of the other; the horizon
  is 3 to 8 attoseconds with 6 to a second, so that the parts of a second wrap; the
  code of each machine uses the operations that bear on one question, because all at once are too many.  Two ids
  for timed triggers (256 in the code) make them come round again.
* `work_queue`: up to two threads, two items, batches of at most two, each item
  reused where the queue allows; with two threads one item.  Deadlock is not
  checked, since everything stops when the queue has been freed; `CallsReturn` says
  that it does not stop before.
* `lines`: queues of two events (32), at most three events pending in all lines and
  two timers per line.  Two events fill the queue, the third flushes it on the spot.
* `machine_memory`, the machine: two files (the autosave and a slot), three requests, a
  second of waiting is one timeslice; four sets of options.
* `scheduler_files`, the files: two games of which one supports save states, two items
  (one packed by its presave function, one array), files cut inside the second item;
  two runs of the program, so that a file is read by the run that wrote it or by the
  next, which may write and read one of its own.
* `chd_event`, the event: four waiting threads and two that set the event, one of them both; one
  that resets it; timeouts and wake-ups without cause.
* `poly`: two workers and the waiting main thread, two buckets, five units, two
  polygons and the permanent object-data entry, two data.  Polygons higher than all
  buckets come round to the first again.
* `chd_event`, the images: a ring of four slots (256), two workers, images of 1 to 12
  hunks of two units.  One parent is shorter than its image.  A compression is followed
  until the end of the walk has overtaken a read, and for one of the images also after an
  item has been noted late (section 7): what follows then is no longer an image.
  The ring goes round three times, a run of types is longer than a small count, and a last run is shorter than half the ring.
* `machine_memory`, the memory: four blocks of two words with two lanes, three subtables (64), three
  handlers (thousands), two banks; four calls, one cached range (one entry per
  fetch in the code).  Subtables and handlers both run out and are merged and
  reused.  Deadlock is not checked, since a fatal error ends the emulation and with
  it everything.  A call is a range with its mirrors as `adjust_addresses` leaves
  them (`IsRange`): it clears the mirror's address lines in the start and the end
  (`memory.cpp:1772`), so that mirrors do not overlap and no sum carries from the cell
  into the block.  The quick maps rely on it.

## 5. Fairness

Liveness is checked under the fairness the code's scheduling gives and no more.

* Scheduler: weak fairness of `Timeslice`.  One thread runs the machine and never
  stops; what device code does in between is its own affair.
* Work queues: weak fairness of each thread's own next step: threads that can run
  do, and callbacks return.  The user need not call anything again.
* Events: a thread that has been woken gets the mutex in the end.
* Polygons: the threads of the queue run, and the main thread while it waits.
* Input lines: weak fairness of calls under way; strong fairness of the firing of a
  line's timer, which is anonymous, due at once and called when the current slice
  ends, though setting lines may come first any number of times.
* Machine: weak fairness of the main thread; strong fairness of "a timeslice lets
  time pass" (`TimePasses`) and of a due soft reset timer: a timeslice may start
  with a timer that is due already and let no time pass, but periodic timers and
  the quantum make a later one longer.  The user is taken not to pause over and over
  while a request waits (`PatientUser`).
* Images: each thread that can go on does.  `CompressionEnds` allows for the two
  slips of section 7, after which the calls may wait for ever.

## 6. What is proved

All theorems hold for any values of the constants that satisfy the module's named
assumption (`TimerQueueAssumption`, `SchedulerAssumption`, and so on), which only
says what kind of thing each constant is; that of `AddressSpace` also says what
`adjust_addresses` makes of the ranges of calls (`IsRange`, section 4).

| Theorem | Says |
|---|---|
| `TimerQueueProofs!TypeCorrect`, `ListSorted`, `NoTimerLost`, `NoneOverdue` | types, `Sorted`, `LinkedOnce`, `NothingDueLeft` of the timer list |
| `TimerQueueProofs!IdleStandBack`, `SliceStops` | `IdleOutOfTheWay`, `SliceStopsAtTimer` |
| `TimerQueueProofs!Appointments` | `KeepsAppointments`: the list implements `TimerService` |
| `TimerQueueProofs!InsertTimerKeeps` | insertion keeps order and distinctness and adds one element |
| `SchedulerProofs!NoRequestForgotten`, `SpinnersAreWoken`, `YieldsEnd` | `PendingWhenDiffer`, `SpinHasAlarm`, `YieldLastsOnePass`, of machines whose code makes no other device yield or spin (`Alone`, section 7) |
| `SchedulerProofs!TypeCorrect`, `SuspendedDevicesLast` | types, `SuspendedLast` |
| `SchedulerProofs!QuantaInOrder`, `BaseInStep` | `QuantaAgree`, `BaseKeepsPace`, of devices whose clocks are faster than 1 Hz (`Fast`, section 7) |
| `WorkQueueProofs!TypeCorrect`, `CountCorrect`, `EmptyIsEmpty` | types, `ItemsCounted`, and that a wait that answers "empty" is right |
| `WorkQueueProofs!NoLostWakeUp`, `WaitsTellTheTruth` | `SomebodyIsAwake`, `AnswersTrue` |
| `WorkQueueProofs!FreeIsNobodys`, `DoneBeforeRelease` | `FreeIsIdle` and `AutoReleaseOfDone`, of queues whose items are all released automatically, or whose waits do not end early and whose user queues nothing more once items have been released (`Careful`) |
| `MachineProofs!TypeCorrect`, `NoEventForgotten`, `LinesSettle` | of input lines: types, `QueueHasTimer`, `SettledAsAsked` |
| `MachineProofs!LifeTypeCorrect`, `NoRequestLost` | of the life of a machine: types, `RequestKept` |
| `PolyManagerProofs!DrawnOnceInOrder` | `DrawnAsRendered`, of a manager whose `m_unit_bucket` starts as `wait` leaves it (`CleanStart`, section 7) |
| `ChdCompressorProofs!QueuedWhereSetAside` | `ReadingWhenQueued`, until the end of the parent's walk has overtaken the input thread: the finding of `chd_walk` is the only way to break the assertion |
| `ChdCompressorProofs!KeptUntilWritten` | `SlotKept`, for parents of any length |
| `ServiceProofs!TypeCorrect`, `NoWakeLost`, `DepartsInTwoWays`, `EventImplements` | of events: types, `NoLostWake`, `AsDescribed`; and that an event that cannot depart (`WithoutDepartures`) implements `EventService` |
| `ServiceProofs!FilesTrue`, `ForeignFiles`, `LoadsSaved` | of state files: the invariant `SaveInv`, `OnlyForeignRefused`, `LoadsWhatWasSaved` |
| `AddressSpaceProofs!AddressSpaceInvariant`, `AddressSpaceCounts`, `AddressSpaceRanges`, `AddressSpaceWindow` | the inductive invariant, `CountsAgree`, `CachedRangesTrue`, `WindowFollowsBank` |
| `AddressSpaceProofs!AddressSpacePromise` | `MapsAsInstalled`: the tables implement `MemoryMap` |

**The arguments.**

* *Timers.*  `IInv == TypeOK /\ Sorted /\ Linkage /\ DummyArmed`.  Order alone is
  not inductive: the head of the list must exist, which the dummy timer guarantees
  because it is linked, armed for `Never`, and the base time never gets there.
  Almost every step is "change one timer and link it again", and the lemmas
  `InsertTimerKeeps` and `RelinkKeeps` settle what that does to a sequence: they
  state it as the order of every two timers (`Before`), of which only the pairs of the
  timer that moved change (`Moved`).
  `IdleInv` is about timers that are off.  That none of them stands in front of an
  enabled one is not inductive, since postload's loops walk a list that is in no order
  yet; that each stands behind the dummy is, because it is inserted as if it were due
  at `Never`, and a list in order then has nothing behind it but timers for `Never`.
  It adds that a linked anonymous timer is armed or being called back, and
  what postload works on (`ReadWhole`).
  `SliceBounded` is about a slice under way: the target is not ahead of any armed
  timer by more than an instruction, or the device has been told to stop and its local
  time is not past that timer yet.  The step that needs the
  most is an `adjust` in the middle of a slice: it aborts the slice if the timer is the
  head now, and if it is not, the head is enabled, due no later, and bounds the slice
  already.
  `Appointments` maps the pairs of timers armed for one instant to their order in the
  list.  A moved timer comes behind the others of its instant (`MovedOrder`), the head
  is a first timer of the clock, and after a load the list has some order
  of each instant.  While a load that failed half way has not been made up for, the clock is
  `"lost"` and promises nothing; the steps of the list are then its `Wander`.  It
  also needs that a timer that was never handed out is idle in the files too
  (`Untouched`), since the list overwrites linked timers and the clock all of them.
* *Scheduler.*  The flag and the reasons need each other.  The flag may be cleared
  only if the TIMESLICE reason, which `apply_suspend_changes` takes off the next
  reasons alone, is not among the current ones too; it is not, because a suspended
  device does not run and so cannot yield again.  The invariant adds `OneSlice`
  (TIMESLICE is never in both sets) and `RunnerIsFree` (who executes is not
  suspended), of the devices and of those in state files.  These three theorems are
  about machines whose code makes no *other* device yield or spin (`Alone`); where it
  does, they are false (section 7).  They do not need the types of times and quanta.
  `Sound == TypeOK /\ Ticking /\ SuspendedLast /\ InTurn /\ QuantaSound` is about the
  lists.  The loops of `rebuild_execute_list`, `add_scheduling_quantum` and
  `compute_perfect_interleave` are recursive functions, and what they compute is proved
  by the least position at which it would go wrong (`UpTo`, from the well-foundedness
  of the naturals): `PickedKeeps`, `RebuiltInOrder`, `AddQuantumSound`, `PerfectSecond`.
  `SuspendedLast` needs nobody's good behaviour, because `Quiet` calls of device code
  leave the reasons in force alone.
  `Pace` is about a pass.  The target is between the base and the longest slice from
  it; each device that had its turn has reached it but for a cycle, or it is the base;
  each alarm is no earlier than an instruction before it, or the device executing has
  been left no cycles and is not past the alarm.  Lowering the target keeps this for all
  devices before, and `ShortDelta` shows that the time left is computed right from the
  parts of a second as long as it is less than one.
* *Work queues.*  `IInv == TypeOK /\ Control /\ Drained /\ ItemsCounted`.
  `Control` says which threads may be where: `livethreads` counts exactly the
  workers between `GoLive` and `Deactivate`, a thread between `Pull` and `PushFree`
  has an item in hand, and the main thread counts what it has linked before it goes
  on.  The count lemma then follows each item from the list to a thread and out.  `Drained` is
  about what remains when the queue is being freed.  Of careful queues the
  invariant grows by `Separate`: an item is in the list, in the batch, free, or in the
  hands of one thread, and in one of these places only; it is done before its flags
  are read; the user waits for and releases only what it queued for itself; and an
  event that is set tells that the item is done.  The run
  `work_release` refutes `AutoReleaseOfDone` without the condition.
  `AwakeInv` is about the wake-ups: an active thread has yet to look at the list, a
  thread sleeps only after it has looked without effect, and the main thread, which
  counts and links first, looks at all threads until it has woken one; the first one
  it looks at is active, or gets its event.
* *Input lines.*  `IInv == TypeOK /\ QueueHasTimer`; the type of the stack does the
  work, through lemmas about its head and tail, since a queue that is not empty may
  rely on any frame of the stack.  `SettledInv` adds the shapes the stack can have
  (`Shape`: one loop at a time, and a line set from within it finds room), that the
  queue of a line ends in what was asked for last, that a loop has applied the event
  before its index, and the same of what a state file holds (`FileAgrees`), which is
  true because none is written while a timer waits.
* *Machine.*  `IInv == TypeOK /\ PendingAgree /\ NothingLeft`.
* *Events.*  `NoLostWake` is inductive by itself, and `DepartsInTwoWays` needs it: a
  set that signals nobody although threads sleep must be of an event with a thread on
  its way.  `EventImplements` maps the threads that sleep to those that wait and the
  woken ones to those released; that one thread is woken is enough where one thread at
  most waits (`OneIsAll`).
* *Polygons.*  A unit that is not drawn is in one place (`OneOwner`): in the queue, in
  the hands of one thread, or parked, that is, named in the upper half of the word of
  the unit before it in its bucket.  `Chained` says which one that is, also where a
  polygon is so tall that its units come round to the first bucket again; a unit
  therefore has one successor, and `|=` writes into an empty half (`OrZero`, through the
  sixteen bits).  Two steps decide the race.  A thread that finds the word empty when
  it exchanges it knows that the unit before is drawn, and by `DrawnInOrder` all before
  that; a thread that finishes takes over a successor that was neither queued nor held,
  for whoever is has an empty half before it.  When all is quiet nothing is left:
  the least unit that is not drawn would be parked behind a lesser one
  (`QuietIsDrawn`).  0 in the upper half can mean "none" because unit 0 follows nothing.

* *Images.*  `DataInv == LayoutInv /\ PlacesFilled /\ DataRead`.  Neither property is
  inductive: what keeps a read from an occupied slot is how far three threads have come.
  `RingLayout` says it: the ring's length of hunks from `writeHunk` on is with
  the workers or done up to `Spawning`, set aside up to `readOffset`, and free behind
  that, so that `m_status` tells how far everything is; during a walk one slot more is
  free.  `ReadsQueuedUp` ties the tasks to
  the half rings between `doneOffset` and `readOffset`, `ItemsOut` gives each hunk
  that is not done one item.  A read then starts at a half of the ring and its places are
  those of hunks less than a ring ahead of `writeHunk` (`ReadElsewhere`); the extra hunk of
  a walk goes into the other half, of which a slot is free, or behind the ring, and what
  it overwrites there is either the same hunk or of no hunk in use (`ReadFills`); where a
  parent is too short it overwrites nothing.
  `WindowOfParent` turns the two places a hash reaches over into units of the parent.
  That the workers hash late and in any order, and that a read may fail, changes none
  of it.  What does is the end of the walk when a read is under way, since it sets
  `doneOffset` back under it: every lemma is about steps that do not do that, and
  the two theorems hold up to the step that does (`Overtaken`).

* *State files.*  `SaveInv` has two parts that matter.  The entries are in strict order
  of their names, and a set has only one such list (`OneList`, by the least index at
  which two would differ): what is registered decides the signature and where in the
  file each entry is, whatever the order of registration.  And a file holds, as far as
  it goes, the packed values of what was saved at the offsets of its writer, in the
  byte order of its writer.  A load that passes `validate_header` then has the
  writer's list and its offsets, and swapping the elements of an item twice
  gives it back (`FlipTwice`).  That a load with an incomplete entry reports an error
  needs no more than that every entry has at least a byte.

* *Memory.*  `IInv` has the types, `TableSettled`, `CachedRangesTrue` and
  `WindowOnBank`.  `WindowFollowsBank` is not inductive by itself: the window must be on
  a bank, and the bank must tell it when it moves, which it does once it has been
  mapped here by its name; references are never taken back.
  The calls are long programs on the table, and `TableSettled` does not hold inside
  them: `populate_range` counts all the references of a handler first and writes the
  cells afterwards.  `Sound(t, e, n)` is what holds in between: the table agrees with its
  counts, except that `n` references of `e`, the entry being written, have been counted
  and are not there yet, and the free list has each idle handler once, except a handler
  just taken that no cell has yet.  A loop keeps a statement about the turn it is
  at by the least turn at which it would fail (`Loop`, `UpTo`), so that each loop has
  a lemma about one turn and one about the whole.
  `Written(t, v, e, S)` then says what the reader sees: `e` in `S`, and elsewhere
  what was there.  Merging and copying subtables change nothing the reader sees
  (`Folded`, `Opened`).  A quick map is right since blocks that had one first-level
  entry before the call read alike (`Alike`), those mapped so far have taken the same
  pattern (`Pattern`), and to write one block leaves the subtables of all others as they
  were (`Private`).  With a mask, the stretches that are overridden come first and then
  those of one handler after the other (`Ongoing`): an address whose turn has come reads
  what it read at the start joined with the mask, any other still has the entry it had
  at the start, set up as it was, so that no handler is taken that is yet to be divided.
  `AddressSpacePromise` puts it together: each call is the step of `MemoryMap` with the
  same range, or `Stop` if a table of fixed size is full.

The type invariants of the timers, lines, machine, events and work queues are
proved and therefore not checked by a run of their own; that of the polygons is
part of `DrawnAsRendered`, and that of the scheduler is both proved and checked.

**Only model-checked.**  Liveness, everywhere: TLAPS does not handle fairness.
What needs an induction over data that has not been given the form of a least
counterexample: that the file of an image reads back (`ReadsBack`, through the
folds of `ChdMap` and the recursive readers of the map and of `Contents`).
`FreeIsIdle` where queues are not careful in the sense of the theorem but those of the
run still do no harm; in general it is false there (section 7).

## 7. Findings, and other places where the code surprised

Five runs show the code doing what a comment, header or assertion of the program says
it does not.

* `work_release`: after `item->done` is set, the user may release the item and the
  next `osd_work_item_queue` may take it; only then does the worker read
  `item->flags` (`work_osd.cpp:754`), which are those of the new use, and releases
  an item that is still queued.
* `work_free`: a worker looks at `exiting` before it looks at the list
  (`work_osd.cpp:658`), and `osd_work_queue_free` frees what is left there without
  running it (408), though `osdcore.h:539` has it "waiting for all items to complete".
  `QueuedRuns` is about items of queues that are not freed.
* `chd_walk`: at the end of the parent's walk the offsets and slots are set back
  (`chd.cpp:2958`) while the input thread may still be in `async_read`, which adds to the
  offset afterwards; the next one queues hunks from behind the start of the source, in
  slots that are not set aside, which the assertion at line 3148 says they are.  The
  history `slips` remembers that a read has been overtaken; `SlotKept`, `ReadsBack` and
  `CompressionEnds` are about what happens before or without it.
* `memory_window`: `map_range` closes the window of direct reads only if it is on
  the entry just mapped, not on the one that was there before
  (`memory.cpp:2743`, `memory.h:177`), so that opcodes go on being fetched from the
  old bank, although the comment above the call says that it recomputes "any direct
  access on this space".
* `memory_bank`: the `install_bank_generic` that is given a pointer to a bank
  (`memory.cpp:2304`) adds no reference from the bank to the space, so that a switch of
  the bank leaves the window on the old base; the comment at 3936 has it "force updates
  on all referencing address spaces".  `WindowFollowsBank` is about banks that have been
  mapped in the space by their names.

*Events.*  `osdsync.h` and `sync_tc.cpp` disagree twice, and a third time by the standard
library.  The header says that an event with `manualreset` is reset by a wait (31-33); the
code does so with those that are without (`sync_tc.cpp:78`), as the name has it and
the callers expect, so that `Event` is compared with the header turned round.  The header
says that a set signals all the threads that wait (88); the code wakes one if the event is
reset automatically (104), or none when one is on its way (`SetForOne` in
`AsDescribed`).  And a thread that `pthread_cond_timedwait` wakes for no reason
returns TRUE, "the event was signalled" (`WokenByChance`).

The models show more that no statement in the repository decides.  The runs leave
these cases out where they would hide what else there is, by a constant or by a
condition in the property.

*Scheduler and lines.*
A device that another one makes yield or spin while its TIMESLICE suspension is in
force waits for ever: the flag is cleared while the reasons differ (set
`others |-> TRUE` in `MCScheduler`: `YieldLastsOnePass` fails; `diexec.h:31`).
A CLEAR of RESET resets the device inside the loop over the line's events and drops
those behind it (`diexec.cpp:837`); `SettledAsAsked` is not about RESET.
A reset of a device resumes it for all reasons, an asserted HALT line and a missing
clock included (`diexec.cpp:528`), and the one eat-cycles flag serves all reasons.
The cycle time of a device is not in the state file and stays that of before a load.
The eat-cycles flag of a halted device is cleared by a `yield` of its own that takes
effect with the halt; it then falls behind, and if it is let go a second or more later,
`delta` leaves out the whole seconds and the assertion below it (`schedule.cpp:453`)
does not hold.  In a build without assertions the device can stay whole seconds behind
the base time from then on, which is why `BaseKeepsPace` excepts devices as far behind
as that.  It also allows for a clock made slower or faster after
the device's turn (`Clocks`).  With a clock of 1 Hz or less a cycle is a second or
more, and the perfect interleave can exceed what `compute_perfect_interleave` starts
with; `QuantaInOrder` and `BaseInStep` leave that out (`Fast`).
`enable` in the middle of a slice does not end it.  After a load a disabled timer that
holds an instant may stand in front of an enabled one, and an `adjust` that inserts
behind it does not end the slice either, though the timer is the next to be called
(`schedule.cpp:202` looks at the head alone).  A file read half way leaves the list out
of order until the next load.  The history `lapses` says which of these has happened,
and `DisabledLast`, `SliceStopsAtTimer` and the others say which of them they allow for.

*Machine.*
`handler_confirm_quit` pauses the machine in every frame (`ui.cpp:1958`), and an
exit that has to save first then never ends; `RequestsEnd` is about exits that are
not confirmed (`Unasked`).  A hard reset asked for during startup is lost
(`machine.cpp:400`).  The autosave of an exit overwrites a session that was never
read.  A watchdog counter that has fired or is loaded as 0 wraps (`machine.cpp:1092`).

*Polygons.*  What a new manager draws before its first wait takes previous units
from memory the constructor does not set (`poly.h:596`): `FirstBuckets` says what
that memory may hold, and the run and the theorem have it clean.

*Images.*
`item.m_osd` is assigned after the work item has been queued (`chd.cpp:3151`), so that the
caller may see it late: the loop at 2985 can then wait for ever, or the item is never
released.  `slips` remembers that too, and `CompressionEnds` allows for it.
A parent shorter than the image ends the walk with a read error that is ignored, and
what is hashed for its missing hunks is what the ring held before; `ReadsBack` is about
parents that are long enough.
`write_hunk` of an uncompressed image leaves out hunks of zeros even where a parent
would show through.  The reference to a unit of the parent is cut to 32 bits.  The
tail of a partial last hunk is whatever the ring held.

*Memory.*
`setup_range_masked` does not remove cached ranges (`CachedRangesTrue` is not about
handlers that serve lanes one by one).  A masked handler over a full-width one drops
the other lanes.  `reconfigure_subunits` shifts offsets wrongly where the multiplier
differs from the number of units (`memory.cpp:4119`).  `set_direct_region` uses the
previous mask of the window (3684, 3702).  A named bank at two ranges has one start.
The calls
of `verify_reference_counts` are commented out; `CountsAgree` is what it would find.

## 8. Not modelled

Whole components (with reasons in `PROJECT.json`): user interface, sound streams,
video and throttling, input ports, rendering, the virtual TLB, other services, the
chips and machines themselves, libraries and tools.  Most of the repository is in
the last two: programs of their own that use the core through the operations
modelled here, and that are the environment of every module.

Inside the components:

* Timers: an `emu_timer &` kept to an anonymous timer and adjusted after it fired;
  the reclaim branch of `postload`, dead because files are written only while no
  anonymous timer is pending (`Drain` has the branch, and no run reaches it).
* Scheduler: periodic and VBLANK interrupts, the debugger's `immediate_load`, the
  rounding of clock division, devices whose shortest instruction takes more than
  one cycle, the profiler.
* Input lines: re-entrant overflow of several lines' queues at once, the packing of
  a vector into 24 bits.
* Work queues: several user threads, batches of items that are not released
  automatically, `work_mini.cpp` (a queue without threads), statistics, failed
  allocations, the choice of the number of threads.
* Events: the limit of 10000 seconds of a wait without one, which is a wait with a timeout;
  the implementations for other systems; priority and affinity.
* Machine: the watchdog, the order in which devices start, the web port.
* State files: collisions of the CRC and the signature 0.
* Polygons: geometry, clipping, vertex data; that `wait` gives up after 100 seconds
  (`poly.h:457`) and goes on as if the queue were empty, with units still being drawn:
  `WaitEnds` waits for as long as it takes.
* Images: that the wait for the reads at the end gives up after 30 seconds (`chd.cpp:2968`)
  and goes on (`Finish` waits for as long as it takes); the codecs, the
  Huffman code and checksum of the map, metadata, versions 3 and 4, single reads and writes through the hunk cache, collisions of hashes.
* Memory: the write table and the table of offsets (the same code), watchpoints,
  submaps, the offsets handlers are called with, direct-update callbacks,
  `derive_range`'s early stop at block boundaries, the memory behind banks.

## 9. What could come next

The virtual TLB together with the pages processor cores load as fixed: flushing an
address leaves live entries, so that a later flush or reuse may clear a fixed entry
that was loaded over the page.  Sample positions of sound streams against the
timers.
