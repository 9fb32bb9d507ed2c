# Verification of the ACM configuration library and driver

TLA+ models of the software around the ACM, a switching IP for time sensitive
networking: the user space library `libacmconfig` (`src/ngn.acm-config`), the
kernel driver (`src/ngn.ngn-dd/acm`) and the sysrepo plugin (`src/ngn.acm-yang`).
Modules named `Acm*` model components, `MC*` instantiate them for TLC,
`*Proofs` hold proofs for TLAPS. `PROJECT.json` maps every definition to the
lines it models.

Contents: 1 the system; 2 the modules; 3 the runs; 4 bounds, deadlock and
fairness; 5 proofs; 6 disagreements found; 7 what is not modelled; 8 the state of the work.

## 1. The system

An application (the plugin, the demo `ngn.ngn-demo`) creates streams, modules and
a configuration through `libacmconfig`. The library validates after every call,
keeps the indexes of the hardware tables cached, and at `acm_apply_config()`
writes tables, message buffers and schedules to sysfs files of the driver. The
driver turns each write into register accesses and keeps a state machine, message
buffers, timers and delayed work of its own.

| component | state | operations | hard behaviour | correct when |
|---|---|---|---|---|
| streams, modules, configurations (`stream.c`, `module.c`, `config.c`, `libacmconfig.c`) | pointers between objects, stream types, lists and slots, applied flag | create, destroy, reference, add, schedule, apply, disable | calls in any order, calls that fail after they changed something, recursive destruction | pointers are inverse, everything is owned once, halves of a pair are in different modules, applied configurations do not change |
| table indexes and contents (`stream.c`, `operation.c`, `lookup.c`, `sysfs.c`, `api/acmdrv.h`) | cached indexes per stream, operations; words of the tables | recomputed by the calls above, written when applied | an index depends on all earlier streams and on a partner in another module; cached values go stale; fields cut values off | the commands written do what the operations of each stream say |
| module schedule (`sysfs.c`, `module.c`, `validate.c`, `schedule.c`) | schedule entries, sorted commands, cycle time | add, clean, set cycle, write rows | delays move commands over the ends of the cycle, long distances need extra rows, narrow words | commands are spaced, complete, on time, and the table is large enough |
| application (`application.c`, `sysfs.c`), state machine (`state.c`, `config.c`) | tables and identifier of the hardware; INIT, CONFIG, RUN, DESYNC; what a restart resumes | apply, new schedule, disable; start, end, stop, restart, remove | some forty writes of which any may fail; a second process that writes states; a removal without the lock | success means all was written; a module at work has the tables of one configuration |
| message buffers (`buffer.c`, `config.c`; `msgbuf.c`, `chardev.c`, `sysfs_control.c`) | list of buffers; lock control, descriptors, devices, overwritten counters | recalculate; open, read, write, lock, count | read-modify-write over several words, registers cleared by reading, files that outlive a configuration | buffers are apart, locks are as called, no overwritten message is lost |
| scheduler of the driver (`scheduler.c`) | two tables, start times and triggers, delayed work | rows, cycle, start, status, cleanup | delayed work against calls, hardware and clock, busy wait | what starts is what was asked for, in the window, eventually |
| diagnostics (`bypass.c`, `sysfs_diag.c`) | counters, flags, poll time | poll work, read, reset | registers cleared by reading and shared with the recovery, retries, self-queuing work | nothing is lost or counted twice, polling goes on |
| recovery timers (`redundancy.c`) | timeouts, remaining ticks | periodic work, set timeout | flags of before, changes between ticks, cycles longer than a tick, products beyond a word | a timeout comes neither early nor never |
| status and error files, capabilities (`sysfs_status.c`, `sysfs_error.c`, `commreg.c`, `status.c`) | caches of partitioned registers | read | several files of one register that reading clears; versions of the interface | every item has a file with its bits |
| probing, removal (`main.c`, `sysfs.c`) | the parts that are initialised | probe, remove | a failure at any step | what was done is undone, once, in the opposite order |
| plugin (`acm.c`) | none between requests | a data store to calls | a call that is refused in the middle | nothing is destroyed twice, little is left over |
| logging, memory, network notifications, demo, tests | - | - | - | not modelled (section 7) |

## 2. The modules

| module | models | builds on |
|---|---|---|
| `AcmStreams` | the object graph of libacmconfig | - |
| `AcmStreamsProofs` | theorems about it | `AcmStreams`, TLAPS |
| `AcmTables` | lists in order, operations, cached indexes | EXTENDS `AcmStreams`; each action conjoins the one of the graph |
| `AcmTablesProofs` | theorems about it | `AcmTables`, `AcmStreamsProofs` |
| `AcmWords` | fields of the words of `acmdrv.h`, arrays of bits | - |
| `AcmRegisters` | which item of a sysfs attribute is which register | - |
| `AcmRows` | all words written for a module, and what the hardware does with them | `AcmTables`, `AcmWords`, `AcmRegisters` |
| `AcmFsc` | the schedule of one module from entries to rows | - |
| `AcmFscProofs` | theorems about it | `AcmFsc`, TLAPS |
| `AcmScheduler` | driver, hardware and caller around the tables of one scheduler | - |
| `AcmSchedulerProofs` | theorems about them | `AcmScheduler`, TLAPS |
| `AcmConfigLife` | abstract: which configuration each module processes frames with | - |
| `AcmState` | the writes of a call, the states of the driver, a second process | implements `AcmConfigLife` |
| `AcmStateProofs` | theorems about it, the refinement among them | `AcmState`, TLAPS |
| `AcmBuffers` | the message buffers of a configuration | - |
| `AcmMsgBuf` | the message buffers of the driver and their users | `AcmBuffers` |
| `AcmMsgBufProofs` | theorems about them | `AcmMsgBuf`, TLAPS |
| `AcmDiagnostics` | the diagnostics of one bypass module | - |
| `AcmDiagnosticsProofs` | theorems about them | `AcmDiagnostics`, TLAPS |
| `AcmRecovery` | recovery timers | - |
| `AcmRecoveryProofs` | theorems about them | `AcmRecovery`, TLAPS |
| `AcmStatus` | status and error files, common registers, capabilities | `AcmWords` |
| `AcmProbe` | order of probing and removal | - |
| `AcmPlugin` | the calls of the sysrepo plugin | - |

Definitions whose comment starts with "(Deviation: ...)" are not the code: they
are plausible mistakes, kept beside the definition they would replace, and show
that the properties can fail.

### AcmStreams

One action is one call of the public API, with everything the call does.

- State: one function per pointer of `struct acm_stream`, `acm_module` and
  `acm_config` (`reference`, `reference_parent`, `reference_redundant`, the list
  back pointer as `entry`, `bypass`, `config_reference`), the type of each
  stream, the number of schedule entries, and `live`, the objects not freed yet.
  Pointers of a freed object, and to it, keep their value as in C.
- `SetChild`, `SetRedundant`: the two halves of `stream_set_reference()`, with
  the undo after a failed validation folded in (the action is enabled only if
  the validation passes; otherwise the call leaves no change).
- `DestroyStream`: `stream_delete()` with the children, and the partner of a pair.
- `AddModuleStream`: `acm_add_module_stream()`. It adds parent and children one
  after the other; `added` is the prefix that stays, so each way it fails is a
  step of its own.
- `AddSchedule`, `CleanSchedule`, `AddModule`, `AddModuleFails` (its undo leaves
  `config_reference` set), `DestroyModule`, `DestroyConfig`, `Enable`,
  `EnableFails` (the final validation fails: applied becomes false).
- `UseAfterFree`: a call whose code would follow a pointer to a freed object.
  What happens next is undefined, so a behaviour ends there. The other actions
  are guarded against such pointers and describe defined executions only.

Checks on data that is not in the model (frame sizes, names, memory, files) may
go either way, so that every error path behind them is explored. `Init` is the
state after the application has created its objects; creating them later adds no
interleaving, as an object no call has touched is as good as not created.

### AcmTables, AcmWords, AcmRegisters, AcmRows

`order` is the list of a module in order; `operations` counts the operations of a
stream per kind; four functions hold the cached indexes. Each call recomputes
exactly the indexes the code recomputes; `unrefreshed` is a history variable with
the modules whose gather indexes `stream_set_reference()` should have recomputed
and did not. `RowsOwned` is what the caches are for: the rows of the streams of a
module are apart in each table. Sums over the streams before one are a function of
the position (`RowsUpTo`).

A word is the set of the positions of its ones and a field a pair of positions,
so that a value that does not fit is cut off as the macros of `acmdrv.h` do.
`Memory(c)` is the function from registers to words that
`write_module_data_to_HW()` leaves for configuration `c`: each word of each table
created with the functions of the header and put to the register its offset in
the sysfs attribute leads to. The second half of `AcmRows` reads these words as
the hardware does: from a rule through the stream trigger to the chains of
scatter, gather and prefetch commands. `UpdatedCommand` is the word of the schedule
that `update_fsc_indexes()` completes when the configuration is applied: a window
command names the rule, an event command the gather row and the entry of the
redundancy table (0 for what is not a transmitted half, whatever index it has
kept), the end of a window of a stream with a recovery stream the gather row of
that one. `RowsPerformOperations` compares what the chains do, started by a frame
or by such a command, with what the operations of the stream ask for.

### AcmFsc

`schedules` are the entries of all streams of a module and `fsc_list` the sorted
commands. `EventCommands` and `WindowCommands` are
`create_event_sysfs_items()` and `create_window_sysfs_items()` with their
roundings and the wrap at the cycle end. `Valid` is what `validate_module()` asks
of schedules, with the distance taken in an unsigned word as in the code.
`Rows` is `write_fsc_schedules_to_HW()`: lead, commands, NOP rows for long
distances, last row with the minimal distance; the indexes in its words are those
of `AcmRows`. Loops over the list are functions
of the number of steps taken (`InsertedUpTo`, `KeptUpTo`, `NopsUpTo`,
`RowsUpTo`), which TLC evaluates and the proofs can unfold.

### AcmScheduler

The caller (`pc`) is one process that applies schedules through
`write_module_schedule_to_HW()` or removes the configuration through
`acm_config_remove()`; each file access is a step. Between any two of its steps
the delayed work of a table, the hardware (`Take`, `ReachLastCycle`) and the
clock (`Tick`) may act. Rows are identified by the request that wrote them, and
`WriteSomeRows`/`WriteOtherRows` split a table write in two so that the hardware
can take a table that is half written. `asked`, `waiting`, `overrun` and
`disabled` are history. `has_reset` is chosen once: with a reset the status
registers are cleared by the removal, without it the schedule is stopped only
by the stop schedule. The hardware is modelled as the driver's comments describe
it: a table that may be taken is taken at its start time, which clears the bit
and stops the other.

### AcmState and AcmConfigLife

A call of the library is the sequence of its steps, `todo`: removal of the former
configuration (`clear_all_fpga`, without the lock of the state), CONFIG_START
(the removal again, with it), buffers, tables of each module with the enable bit
last, timeouts, identifier, CONFIG_END, schedules. A write of a table succeeds,
or fails and leaves the table as it was or `Torn`; a scatter table may also fail
unnoticed. A reset may be absent, work, or time out. The second process writes
DESYNC, RESTART and INIT to `config_state`; a restart reads what was active and
enables each module in two steps, as the code does under different locks. `ended`
is history: a configuration phase has ended and no removal has begun since; so is
`identified`: the configuration whose application wrote the identifier, and
whether a schedule of another one has replaced it.
`stopped` is what a DESYNC stopped, for `RestartResumesModules`; it is valid only
where the state was RUN with such a configuration, since a RESTART while a call
is still applying sets RUN as well and leaves nothing to resume.

`AcmConfigLife` is what all this promises of the traffic: a module that is off
may be started with a configuration, modules may be stopped, a restart takes a
module back to what was kept of it and to nothing else, a removal forgets. A
module never changes from one configuration to another while it is at work. The
refinement maps `traffic` to the writer of the constant table of an enabled
module (`EnabledIsWritten` shows that all its tables have that writer) and `kept`
to the same under `active`. The one exception of the abstract specification,
`Race`, is a removal between the two halves of a restart.

### AcmBuffers, AcmMsgBuf

`BufferList` is `create_hw_msg_buf_list()`: buffers of the operations of both
modules in order, shared by name, growing with the longest operation, offsets
recalculated. Its two loops are functions of the number of operations
(`FilledUpTo`) and of modules (`ListUpTo`) processed, `ChangedOffset` is the running
offset of the loop that moves the buffers behind one that grew. A layout is a member
of `Layouts`: any two sequences of operations (`LayoutsAssumption`), whose names
are from `Names`. In `AcmMsgBuf` every access to a register or to shared memory by a
process is a step: the two reads and two writes of the lock control vector, the
status register that clears the OVERWRITTEN bit and the counter it is added to,
device, descriptor and copy of a read or write. `todo` of the configuring process
is the removal (device, status, counter, descriptor of each buffer) and the
application. A buffer belongs to at most one process (`OwnsAssumption`): the lock
of a buffer has no owner in the code, so two processes that used one buffer would
unlock it for each other. `holds`, `raised`, `reported`, `discarded` are history.

### AcmDiagnostics, AcmRecovery, AcmStatus

`AcmDiagnostics` has one holder of `diag_lock` (`update`), one of the lock of
`no_frames_received` (`transfer`), the recovery on its way to a flag (`tick`),
the poll work and the call that sets the poll time (`poll`). The OR into
`bypass->diag` is a read and a write because the recovery does it without
`diag_lock`. `unread`, `owed`, `due` and `overwritten` are history: what the
hardware counted or flagged and nobody has got yet.

`AcmRecovery` takes from it that a flag reaches the recovery whoever reads the
register, so that reading is one step. `ticks` counts the ticks that found an
item silent and is what the code's counters are compared with. A tick asks for no
cycle: one that comes before the next cycle finds no flag and restarts the timers
of rules, as in the code; `cycled` is history. A product of timeout and ticks that
leaves its word wraps. The parameter `recovery_ticks_per_sec` is a constant.

`AcmStatus` is the table of files (register, field, versions of the interface),
the caches of registers that several files share, the defaults of missing common
registers, the table of the diagnostics and the items libacmconfig reads.

### AcmProbe, AcmPlugin

Both are sequences and functions on them without a state of their own.
`ProbeSteps`, `Undone` and `Removed` are the labels of `acm_probe()` and the
calls of `acm_remove()`; `Needs` says what a part uses while it is at work.
`ProcessAcmConfig` gives the calls of libacmconfig for a data store, `Perform`
does them until one is refused, `Undo` is what the plugin frees itself.

## 3. The runs

| run | states | shows |
|---|---|---|
| `stream_pairs` | 6.9 e5 | two redundant pairs possible and small tables: `TypeOK`, `PairsInverse`, `PairsSplit`, `LookupWithinLimit`, `AppliedFrozen`, `DestroyStreamLeavesNoPointer` |
| `stream_owners` | 1.1 e6 | parent, child and grandchild, three modules (two for one port), two configurations: `ReferencesInverse`, `ChildListedWithParent`, `OwnedOnce` |
| `table_pairs` | 2.6 e5 | four time triggered streams paired before or after they are added: `RowsPerformOperations`, `RedundancyIndexesAgree` |
| `table_mixed` | 1.4 e5 | receiving, event and recovery streams with operations: `RowsPerformOperations`, `ListsMatchEntries`, `RowsOwned` (outside `unrefreshed`) |
| `gather_rows_stale` | - | violation of `AppliedRowsDisjoint` |
| `fsc_rows` | 2.0 e5 | `CommandsApart`, `EntriesComplete`, `RowsFit`, `RowsOnTime` |
| `driver_state` | 1.3 e6 | `AppliedIsWritten`, `EnabledIsWritten`, `IdentifiedIsWritten`, `RestartResumesModules`, `CallsEnd`, and the refinement `ImplementsLife` |
| `sched_tables` | 2.2 e5 | `ScheduleIsWhole`, `WrittenTableIsFree` (outside `overrun`), `StartInWindow`, and under fairness `StartEventuallyWritten`, `CleanupEnds` |
| `sched_disable` | - | violation of `DisabledStaysDisabled` |
| `message_buffers` | 3.5 e5 | `LocksAsCalled`, `OverwrittenConserved`, `ReadIsOfItsBuffer`, `BuffersApart`, `CallsReturn` |
| `diagnostics` | 6.5 e6 | `FlagsReachRecovery`, `FlagsReachReader`, `CountsAddUp`, `PollingGoesOn` |
| `recovery` | 3.6 e5 | `TimeoutIsDue` (timeouts that fit), `SilentTimesOut` (for rules if at last each tick comes after a cycle) |

Operators without behaviours are evaluated by assumptions of the MC modules, each
on bounded inputs that hold both ends of what the code takes:

- `MCTables`: masks, fields, bit arrays and descriptors of `AcmWords` against
  sets of numbers; every word behind an attribute is one register, and library and
  driver count items alike (`AcmRegisters`).
- `MCStreams`: `AcmPlugin` with every call of a data store refused in turn:
  `RefusedLeavesOne`, `AcceptedIsWhole`, `AcceptedIsAsStated`, `ProcessedOnce`,
  `StateEndsEarly`.
- `MCState`: `AcmProbe` with a failure at every step: `ProbeUndone`,
  `SysfsUndoneInOrder`, `RemovedInOrder`, `UsedBeforeProbed`, `UsedAfterRemoved`.
- `MCDiagnostics`: `AcmStatus`: `PartitionsLoseNothing`, `FilesApart`,
  `DiagnosticsReadAlone`, `ErrorFlagsShown`, `ItemsReadable`,
  `CapabilitiesReadable`, `TimestampOfUpdate`.

Some passing properties name states that section 6 describes and hold in all
others: `unrefreshed` in `RowsPerformOperations` and for the gather rows in
`RowsOwned` (its violation is `gather_rows_stale`), `overrun` in the scheduler,
`lost`, `raced` and `locked` in `AcmState`, `overwritten` in `FlagsReachReader`. Each
of these variables is set by the one step that does the damage and by no other.

## 4. Bounds, deadlock and fairness

- `stream_pairs`, `stream_owners`: at most five streams. A property here relates
  at most a stream, its parent or partner, and their modules; the instances have
  one such group and a second stream that competes for the same parent, table
  entry or slot. `MaxRedundant = 2` and `MaxLookup = 1` make the tables full with
  one pair or one receiving stream (the code's 32 and 16 are never reached with
  few streams). `MaxWindows = 1` is enough for "has a schedule".
- `table_pairs`: four streams give two pairs, the least for "different pairs".
  `SYMMETRY` permutes them; they have the same kind, the run has no liveness
  property and no definition orders streams other than by the list. `table_mixed`:
  `MaxOperations = 2`, so that sizes 0, 1 and more differ. The operations of a
  stream use buffers of both lock groups and lengths at both ends of the fields.
- `driver_state`: a configuration of both modules and one of the first only, so
  that a table may be left over from the other; two calls and three states of the
  second process: "restart while a call is applying, stop, restart" needs the third.
  `ExpectedIds` are both configurations and `None`, the identifier 0 of a device
  without one, which `acm_apply_schedule()` accepts as well.
- `message_buffers`: two processes with a buffer each, in lock words of one bit,
  so that an update covers two words; a buffer that grows with the second module,
  names and directions that are exchanged, and a layout that is too long. Three
  calls and one frame per run: a frame changes one flag and every property counts
  per buffer; each of the mutants needs no more.
- `diagnostics`: fields count to 2 and words to 3, so that each overflows alone
  and both do; two updates are one repetition and one timeout. The proofs of
  section 5 hold for every size. `recovery`: with 4 ticks in 7 a
  timeout of 2 is rounded up to two ticks, the least that may be cut short, and one
  of 5, whose product leaves the word of 16, comes to one tick instead of three;
  with `SeqMod = 2` the sequence number wraps within a timeout.
- `sched_tables`: start times in the past, in the window of 2 and beyond it;
  three requests are the least for "a second schedule before the first has
  started, and a removal". The clock stops at `MaxTime` unless something is due.
- `fsc_rows`: a tick is 2 ns, words hold 5 ticks, and cycle times are one to
  three periods, so that each rounding, the skip of negative send times, the
  wrap and long distances occur; `MAX_EVENTS = 5` makes tables full. The cycle
  times are `WholeCycles`, which `MCFsc` assumes for TLC to evaluate: section 5 says
  what happens without.
- `CHECK_DEADLOCK FALSE` where the system may stop: an application calls no more
  once everything is destroyed (`AcmStreams`, `AcmTables`, `AcmFsc`), a behaviour
  ends at `UseAfterFree`, and `AcmState`, `AcmScheduler` and `AcmMsgBuf` end when
  their calls are used up. There `CallsEnd`, `CleanupEnds` and `CallsReturn` say
  that no call hangs. `AcmDiagnostics` and `AcmRecovery` never stop, and
  deadlock is checked.
- Fairness. `AcmScheduler`: weak fairness of `Tick` (time passes), `Work` (a
  queued delayed work runs), `Take` and `ReachLastCycle` (the hardware goes on)
  and `StopReached` (a loop that polls leaves when its condition holds).
  `AcmState`: a system call under way goes on (`Library`, `Restart`); neither the
  begin of a call nor a signal that interrupts one is fair. `AcmMsgBuf`: weak
  fairness of the configuring process, strong fairness of each process, since a
  kernel mutex is handed to those who wait for it although others come back for
  it. `AcmRecovery`: cycles end and the work queue runs the work; how they
  alternate is open, and what a property needs of it is its premise. Nothing is
  assumed of the application: it may stop between any two calls.

## 5. Proofs

Each `*Proofs` module has one inductive invariant, one lemma for each action that
can disturb it and one step for each conjunct, a theorem that the invariant holds
and, from it, the theorems about the properties of section 3. The invariants were
checked by TLC on the instances of section 3 before they were proved.
`PROJECT.json` lists the theorems.

### The object graph

`AcmStreamsProofs` proves, for all sets of streams, modules and configurations
and all limits, from the assumptions named in `AcmStreams` (NULL is no object,
kinds of objects are disjoint, `Kind` and `ModuleId` are functions of their type,
limits are natural numbers): `TypeCorrect`, `ReferencesAreInverse`,
`PairsAreInverse`, `PairsAreSplit`, `ChildrenAreListedWithParent`,
`EverythingIsOwnedOnce`, `AppliedIsFrozen`, `DestroyedIsForgotten`, and for any
finite set of streams `LookupFitsTable`.

The inductive invariant `IInv` is the conjunction of `TypeOK`,
`ReferencesInverse`, `PairsInverse`, `ChildListedWithParent`, `PairsSplit`,
`SlotsConsistent` and `ListsAllocated`. None of its parts is inductive alone:

- `PairsSplit` needs `PairsInverse`: linking asks for the modules of both streams,
  `acm_add_module_stream()` refuses a stream that is a half already
  (`libacmconfig.c:569`), and a half that is added as a child has no partner.
- `ChildListedWithParent` needs `ReferencesInverse`: destroying a module removes
  the children found by `reference`, the property speaks of
  `reference_parent`.
- `SlotsConsistent` and `ListsAllocated` need each other and
  `ChildListedWithParent`: destroying a configuration frees the modules of its
  slots and the streams of their lists.

There is one lemma per action (`SetChildInvariant` ... `UseAfterFreeInvariant`),
each with one step per conjunct the action can disturb; `NextInvariant` puts them
together, `Invariance` makes the temporal step. `NextFrozen` proves the action
property from the same invariant: two configurations have different modules in
their slots, and each call that changes a module asks for its configuration. Type
and partner of a listed stream are excepted where the code asks for nothing: see
`stream_set_reference()` in section 6.
`DestroyedIsForgotten` needs that what is freed with a stream is its children, and
that these have no partners of their own. `LookupFitsTable` counts: a conversion
validates the module of one of the two streams only, but it keeps the other one
among the types that are looked up, or takes it out.

### The diagnostics

`AcmDiagnosticsProofs` proves, for any rules and readers, any width of registers
and counters and any number of repetitions, from `DiagnosticsAssumption` (the
sizes are natural numbers, a field is narrower than a word, processes are
different): `TypesHold`, `MissingFramesReachRecovery`,
`MissingFramesReachReader`, `CyclesAreCounted`, `PollingIsKept`.

The inductive invariant adds to the four properties what the locks guarantee:

- `Holders`: `diag_lock` has a holder exactly while an update is under way, and
  whoever is between reading the flags and storing them is there alone.
- `TransferKeepsFlags`: what is about to be stored covers the flags the
  diagnostics hold at that moment. A reset may only make them fewer, so that a
  store without `diag_lock` never drops a flag, though it may bring back one that
  was reset, which is harmless for the reader.
- `CountsCover`: `CountsAddUp` speaks of counters that have not overflowed, but
  reading a register that has overflowed empties it; the invariant keeps that
  the cache then stands at its maximum, and that a register that overflowed holds
  no more than was counted.
- `CancelledIsOff`: the poll work is cancelled only when there is no poll time.
  This needs the one setter the model has.

One lemma per action and one step per conjunct; `UnlockKeeps` and
`ReadCyclesKeeps` are what several actions share.

### The table indexes

`AcmTablesProofs` proves `GraphImplemented`: every call of `AcmTables` is a call of
`AcmStreams` or leaves its variables alone, so that all theorems about the graph
hold of the lists with their cached indexes. From there `ListsMatch` and
`RedundancyAgrees`, for any finite number of streams and modules, and `RowsAreOwned`.

`TInv` adds to the invariant of the graph: `Listing` (a list holds the streams
that point back to it, each once), `ReferenceHasSlot`, and `PairIndexes`: the
halves of a pair have one index, and pairs of the same two modules have
different ones. `RedundancyIndexesAgree` alone is not inductive: an index is the
number of pairs before a stream in the list of its own module, plus a start, and
the other half gets a copy. That it is free in the other list needs that two pairs
can only compete when both their modules are the same, and that each call which
shortens or extends a list counts anew.

`RInv` adds to `TInv` the types of operations and indexes and `TablesLaid`: the rows
of the streams of each module are apart in the gather table (which the prefetch
table shares), the scatter table and the lookup table, and what needs no rows
points to the general commands. It is not the claim that a cached index is the one
that would be computed now, which is false: when a stream loses its partner, it
sends no tag any more, needs a row less and keeps its index, and so do the streams
behind it. The argument is the following.

- `RowsBeforeGrow`: the sum of the rows before a stream is no less than the sum
  before an earlier one and the rows of that one. So what is computed for a whole
  list is apart (`GatherComputed`, `ScatterComputed`, `LookupComputed`); for the
  lookup table it is within the table because validation has counted the rules.
- `GatherKept`, `ScatterKept`, `LookupKept`: a table that is not computed again stays
  apart when its list does not get longer and no stream of it needs more rows.
- For each call, that it computes the tables of each module whose list or needs
  it changes, or that the other lemma applies (`SetChildTables` ...
  `DestroyTables`). The one call for which neither is so is the one that makes a
  transmitted pair: the module of the other half becomes `unrefreshed`.

### The schedule of a module

`AcmFscProofs` proves, for all cycle times, periods, delays, roundings and widths
of words: `CommandsAreApart`, `RowsAlwaysFit`, `RowsAreOnTime`,
`CommandsAreCounted`, and for cycles of whole ticks that are no shorter than the
delays `EntriesAreComplete`.

`FscInv` says that `fsc_list` and the list of the rows written last are sorted and
apart, that the latter passed validation, and that `table` is `Rows` of it.

- `InsertAllSorted`, `RemoveAllApart`, `GapsApart`: insertion keeps the list sorted,
  so that no distance is negative and the comparison in an unsigned word is the
  right one; removal only makes distances longer.
- `NumSlicesFits`: a distance gives no more slices than `NopsFor` counts for it, and
  the rest is between `ANZ_MIN_TICKS` and `UINT16_T_MAX`. This is where
  `NOP_DELTA_CYCLE + ANZ_MIN_TICKS - 1 <= UINT16_T_MAX` is needed, the reason the
  comment in the code gives for the value 60000.
- `RowsSound`: what holds of the rows after k commands, proved by `LeadSound` and
  `RowsSoundStep`. `SlicesAddUp` and `TimesOfConcat` are about sums of distances.
- `EntriesInv`: all commands in the list are of entries that are there, and each entry
  has the number its periods ask for. Adding makes them one by one at sorted places
  among those of other entries, so that what is kept is a number and not a place;
  that an entry has none before it is added is the other half of the invariant.
- `TimesInv`: the commands of an entry are within the cycle it was made for.

`CommandsAreCounted` needs no hypothesis: nothing is lost or duplicated by the skip of
negative send times or the wrap at the end of the cycle. That all commands are inside
the cycle (`EntriesComplete`) needs `WholeCycles`. The times of commands are rounded
to ticks, while the end of the cycle they are moved over is not, and
`get_rx_window_abs_cycle()` moves a command by one cycle only (`sysfs.c:284`, `314`).
With a cycle and a period of 15, ticks of 4 and a delay of 1, an entry that starts at
15 sends at 14, which is rounded to tick 4, behind the 3 whole ticks of the cycle: TLC
finds this state when `MCFsc` is given these values without its assumption. Neither
validation nor `libacmconfig.h` asks for whole ticks or for cycles as long as the
delays, so that the hypothesis is one on the application.

Induction over the length of a list is not available as a rule of the library
that the provers could instantiate. `StepsExist` and `StepsInduction`, proved from
the least natural number for which a claim would be false, take its place: the
claim is a set of numbers, the step of the loop a function.

### Applying a configuration

`AcmStateProofs` proves for any configurations and any number of calls and of
states that the second process writes: `EnabledWritten`, `AppliedWritten`,
`IdentifiedWritten`, `RestartResumes`, and `LifeImplemented`, the refinement of
`AcmConfigLife`.

What is to do of a call is always the rest of a plan that is fixed when the call
begins (`OnPlan`), so that the position in the plan is what the other conjuncts
speak of: who holds the lock of the state (`LockHeld`), which modules are off
(`RemovedIsOff`), which tables are written (`WrittenSoFar`), whether an identifier
may be there (`NothingIdentified`). `WorkIsWritten` strengthens
`EnabledIsWritten` to modules that only a restart would take back into operation,
and to those a restart under way has read but not written yet; without that the
second half of a restart could not be shown to be harmless. `EndedIsActive` says
the same of `stopped`.

`IdentifiedWritten` rests on `IdentifiedInv`: from the write of the identifier on, no
table of its configuration is left to write, and a removal takes the identifier away
before it begins to clear tables, if the hardware has a reset.

### The scheduler of the driver

`AcmSchedulerProofs` proves for any tables, times and number of requests:
`WholeSchedule`, `WrittenFree`, `StartsInWindow`. The invariant says what the
caller has prepared at each of its steps, that its target is neither used nor
due, and that a start that is outstanding, in the hardware or in a delayed work,
is the one asked for last (`StartIsAsked`). `Rounded` is the arithmetic of whole
cycles. Outside `overrun`, as the properties themselves.

### The message buffers of the driver

`AcmMsgBufProofs` proves, for any number of processes, buffers and words of the lock
control vector and any configurations: `LocksFollowCalls`,
`OverwrittenIsConserved`, `MemoryIsApart` and `ReadsAreOfTheirBuffer`. `ReadSoFar`
and `WrittenSoFar` say what the holder of `lock_ctl_lock` knows between the words it
reads and writes; `HeldIsLocked` is `LocksAsCalled` for calls under way, with the
buffers they work on left out. The second theorem counts: at most one process is between reading a status register
and adding to the counter, because it holds `msgbuf_lock` (`MsgExclusive`).

The last two theorems rest on what `create_hw_msg_buf_list()` computes, for any
operations: buffers one after the other (`LaidOut`), each operation with a buffer of its
name and direction that is long enough (`Serves`), and the end inside the memory
(`Fits`). `WithOperationLaid` is one round of the loop, the case of a buffer that grows
among them; that a list only gets longer (`Extends`) keeps what earlier operations
have. Loops are handled as in `AcmFsc`: `RoundsExist` and `RoundsInduction`.

`ConfInv`, proved as `ConfigurationHolds`, says in which state each prefix of the
writes of a call leaves the devices and descriptors:

- `ScriptInv`: what is to do is in the order deactivate, clear, descriptors,
  activate, run (`Rank`, `ScriptIsRight`).
- `DescInv`: all valid descriptors are of one configuration, which is the applied one
  once none is to be cleared. Without it regions of two configurations could not
  be shown apart while one is replaced by the other.
- `DevInv`: a device that is active and not to be deactivated has a descriptor that
  stays, and the size of its buffer as soon as it is activated.
- `MessageInv`: a message is in the buffer it is for.
- `CallInv`: what a read has found so far (size, direction, that there is a message)
  is still so, unless a step of a configuration came between. Reads look at state
  and descriptor without locks, so this is what they rely on.

### The recovery timers

`AcmRecoveryProofs` proves `TimeoutsAreDue` for any rules, entries, timeouts of a
word and ticks a second, and cycles of any length, from `ItemsDiffer` (rules and
entries are different things) and the types of the constants. What it says it says
of the timeouts whose product fits the word (`Fits`); others may be set meanwhile, and
section 6 shows that they may come early. `TicksDue` relates the ticks counted in
silence to what remains of a timer; `FlagsSilent` and `BasesSilent` say which flags
and sequence numbers are left over from before. `TypeCorrect` holds of all timeouts:
what remains of one stays in its word.

### Only model-checked

- Liveness under fairness (`StartEventuallyWritten`, `CleanupEnds`, `CallsEnd`,
  `CallsReturn`, `SilentTimesOut`) is out of reach of the prover.
- `RowsPerformOperations` compares the words of whole tables, cut into bit fields, with
  what chains of commands do: data built from lists of rows by loops over
  all streams and operations at once. What it needs of the indexes, that
  no stream overwrites rows of another, is `RowsAreOwned`.
- What the two runs that fail show; their properties are false.
- The assumptions of the MC modules.

## 6. Disagreements found

Shown by a run that fails as expected:

1. `gather_rows_stale`: making a transmitted pair recomputes the gather indexes
   of one of the two modules only (`stream.c:320`).
2. `sched_disable`: a start left to a delayed work of the other table survives
   the removal of the configuration (`scheduler.c:813`).

Met while modelling; the models do what the code does, and the properties name
them where they matter.

Library:
- `stream_set_reference()` asks for the configuration of its first stream only
  (`stream.c:224`): a call with a first half in no module takes a time triggered
  stream of an applied configuration to `REDUNDANT_STREAM_TX` with a partner, and
  destroying the first half takes it back. `AppliedFrozen` allows the type and
  the partner of a listed stream to change in these two ways and in no other.
- Linking an event stream that already has a recovery stream to a listed parent
  does not list the recovery stream (`stream.c:260`; comment `libacmconfig.c:588`).
- `acm_apply_schedule()` accepts 0 as the expected identifier, which is that of a
  device nothing was applied to (`config.c:183`), although a comment takes it for
  granted that a configuration is there then (`config.c:194`). It writes the
  identifier of a configuration whose tables are not there.
- A failed `acm_add_module()` leaves the module with a configuration reference
  (`config.c:113`): it can neither be added again nor destroyed.
- Destroying one half of a pair takes the other back to TIME_TRIGGERED but keeps
  its redundancy index (`stream.c:102-107`).
- A cycle time set after schedule entries leaves the commands of the former cycle
  (`module.c:154`).
- A table whose start is still left to a delayed work is taken for free
  (`sysfs.c:770`).
- An error while writing scatter rows is overwritten by the next stream
  (`sysfs.c:1136`); an error in the lookup tables returns with the list of streams
  locked (`sysfs.c:962`).
- `acm_read_buffer_locking_vector()` always returns 0 (`status.c:115`), and
  `CAP_DEBUG` reads a file the driver does not have (`status.h:119`).

Driver:
- A restart does not enable the schedulers again: `config.c:142-146` restores
  flags that are recorded before the schedules are written.
- `clear_all_fpga` removes a configuration without the lock of the state
  (`sysfs_config.c:1463`): a concurrent restart enables a module without tables.
- The recovery stores flags in the diagnostics without `diag_lock`
  (`bypass.c:326`): one that comes between copy and reset reaches no reader.
- The product of a timeout and the ticks per second leaves its 32 bits unchecked
  (`redundancy.c:230`), with 100 ticks a second for timeouts of twelve hours and
  more; the timeout then comes after a few ticks, or after 2^32. TLC shows the
  former when `Fits` is left out of `TimeoutIsDue`.
- A tick that finds no flag counts as one with a frame (`redundancy.c:592`). With
  cycles longer than a tick, 10 ms by default, every other tick may start the count
  of a silent rule anew, which then never times out: TLC shows it when the premise
  of `SilentTimesOut` is left out. Neither driver nor library relates the two lengths.
- `lock_msg_bufs_read()` passes the address of its pointer to the AND macro
  (`sysfs_control.c:56`), so that the vector that is read is not masked;
  `AcmMsgBuf` does not mask it either.
- The correction of the diagnostics' timestamp never finds its condition true
  (`bypass.c:345-347`): it is 256 s ahead after a wrap of the seconds.
- An ACM whose interface is older than 4.0 has no file of the number of message
  buffers, so that buffers are not found by name.
- A failed `acm_dev_create()` returns the character devices twice, and a probe
  without a work queue returns 0 (`main.c:181-183`, `257`).
- Files exist before the state they use is initialised and after the devices are
  removed; poll works run before the scheduler is initialised.

Plugin:
- A refused `acm_add_module()` leaves the module behind, a refused link the event
  or recovery stream (`acm.c:1034-1038`, `1150-1170`).
- A link speed that is not supported is only logged; the request fails later, by
  the cycle time that is not read any more (`acm.c:555-567`, `1568-1570`).
- Two leaves set in one request are both processed, although `acm.yang` says that
  the schedule change is ignored; an ABORT is not undone.
- The status of a module ends at the first item that cannot be read, which is the
  sixth of fifteen before interface 3.0.

## 7. Not modelled

- Memory exhaustion (a failing call changes nothing), contents of frames and
  names, text forms of addresses, logging and tracing.
- The transfer of a row through the access registers of the scheduler, whose lock
  is one per table (`scheduler.c:436`): a row write is atomic, and the model has
  one scheduler with one caller.
- The read-modify-write of a TAKE_ANY bit the hardware may clear in between
  (`redundancy.c:260`): the effect is one more frame accepted.
- The handshake of the reset lines: only its outcomes. Notifications of network
  devices: one register write when a link changes.
- Two calls that set the poll time at once; `recovery_ticks_per_sec` written at run
  time, which changes the ticks of later timeouts but not the interval.
- `libacmconfig` with several calling threads: its lists have locks but its checks
  span several of them, and nothing in the code promises more.
- Of the plugin the parsing of leaves, the startup data store and subscribing; the
  demo and the monitoring client, which call the library and the devices as
  `AcmState` and `AcmMsgBuf` allow any process to; unit tests and vendored tools.

## 8. State of the work

All components of section 1 but those of section 7 are modelled, and every invariant
and every action property of a passing run but `RowsPerformOperations` is a theorem
for all values of the constants (`EntriesComplete` under `WholeCycles`). Open, in the
order of what it would add:

1. The access registers of rows under two processes at two tables.
2. `RowsPerformOperations` for the words of one table, the scatter table first, whose
   rows are those of one kind of operation.
