------------------------------ MODULE AcmState ------------------------------
(***************************************************************************)
(* A configuration on its way through the driver: the sequence of writes   *)
(* of libacmconfig (application.c, config.c, module.c, sysfs.c), the states*)
(* of the driver and the removal of a configuration (ngn.ngn-dd/acm:       *)
(* state.c, config.c, sysfs_config.c), and a second process that writes    *)
(* states, as the interface config_state allows.                           *)
(*                                                                         *)
(* Every write of a table may fail.  clear_all_fpga removes a configuration*)
(* without the lock of the state, so that a restart may run in the middle. *)
(***************************************************************************)
EXTENDS Naturals, Sequences, FiniteSets

CONSTANTS
  Configs,      \* the configurations
  Uses,         \* the modules each of them has
  None,         \* no configuration
  Torn,         \* content of a table only part of which was written
  ExpectedIds,  \* the identifiers acm_apply_schedule() is told to expect
  StateWrites,  \* the states the second process writes
  MaxCalls,     \* bound: calls of the library
  MaxStateWrites \* bound: writes of the second process

\* ACMDRV_BYPASS_MODULES_COUNT = ACMDRV_SCHEDULER_COUNT = ACM_MODULES_COUNT
Modules == 0 .. 1

ASSUME UsesAssumption == Uses \in [Configs -> SUBSET Modules]
ASSUME NoneAssumption == None \notin Configs /\ Torn \notin Configs /\ None # Torn
ASSUME ExpectedAssumption == ExpectedIds \subseteq Configs \cup {None}
ASSUME StatesAssumption == StateWrites \subseteq {"DESYNC", "RESTART", "INIT"}
ASSUME BoundsAssumption == MaxCalls \in Nat /\ MaxStateWrites \in Nat

\* The tables of one module, in the order they are written, and those there is one of.
ModuleTables == <<"const", "lookup", "scatter", "gather", "mode", "redund", "indiv", "speed">>
Timeouts == {"indiv", "base"}
Tables == {<<ModuleTables[i], m>> : i \in DOMAIN ModuleTables, m \in Modules}
            \cup {<<"desc">>, <<"alias">>, <<"base">>}

VARIABLES
  has_reset,     \* reset lines are wired (or the IP resets by register)
  status,        \* state->status
  state_lock,    \* who holds state->lock: "nobody", "caller" or "operator"
  enabled,       \* NGN_ENABLE of each module
  active,        \* bypass->active
  eme_dis,       \* EME_DIS_CTRL of each scheduler
  sched_active,  \* sched_data->active
  hw,            \* the configuration each table was written by
  id,            \* configuration_id: that of a configuration, None if it is 0
  todo,          \* what the call of the library still has to do
  kind,          \* what the last call was: "config", "schedule" or "disable"
  config,        \* the configuration it is about
  result,        \* how the last call ended
  calls,         \* number of calls
  locked,        \* configurations whose list of streams is left locked
  op,            \* the second process: what it does, with which module, what it read
  writes,        \* number of states it wrote
  lost,          \* history: a failed row of a scatter table was not reported
  raced,         \* history: clear_all_fpga removed a module between the two halves
                 \* of restarting it
  ended,         \* history: a configuration phase has ended since the last removal began
  stopped,       \* history: the modules at work when DESYNC was written,
                 \* until INIT is written or a removal begins
  identified     \* history: the configuration acm_apply_config() identified last
                 \* since the reset, and whether acm_apply_schedule() has written
                 \* an identifier of its own since then

driver == <<status, state_lock, enabled, active, eme_dis, sched_active, hw, id>>
library == <<todo, kind, config, result, calls, locked>>
operator == <<op, writes>>
history == <<lost, raced, ended, stopped, identified>>
vars == <<has_reset, driver, library, operator, history>>

Idle == [do |-> "idle", m |-> 0, was |-> FALSE]
NotStopped == [modules |-> {}, valid |-> FALSE]
NotIdentified == [config |-> None, scheduled |-> FALSE]

(***************************************************************************)
(* The steps of a call.                                                    *)
(***************************************************************************)
Do(what) == [do |-> what, arg |-> <<>>]
Write(table) == [do |-> "write", arg |-> table]
Module(what, m) == [do |-> what, arg |-> <<m>>]

\* acm_config_remove()
RemoveSteps == <<Do("schedulers_off"), Do("modules_off"), Do("reset"), Do("devices_off"), Do("cleanup")>>

\* clear_all_fpga_write(): the removal, then the state
ClearSteps == RemoveSteps \o <<Do("set_init")>>

\* config_state_write() of CONFIG_START: the removal with the lock held
StartSteps == <<Do("lock")>> \o RemoveSteps \o <<Do("unlock_init")>>

\* write_module_data_to_HW(); the module is enabled last.
ModuleSteps(m) ==
  [i \in 1 .. Len(ModuleTables) |-> Write(<<ModuleTables[i], m>>)] \o <<Module("enable", m)>>

\* write_module_schedule_to_HW()
ScheduleSteps(m) == <<Module("schedule", m), Module("emergency", m)>>

\* The loops over config->bypass[].
EachModule(c, steps) ==
  (IF 0 \in Uses[c] THEN steps[0] ELSE <<>>) \o (IF 1 \in Uses[c] THEN steps[1] ELSE <<>>)

\* apply_schedule()
ApplySchedule(c) == EachModule(c, [m \in Modules |-> ScheduleSteps(m)])

\* sysfs_write_base_recovery() writes nothing without both modules.
BaseSteps(c) == IF Uses[c] = Modules THEN <<Write(<<"base">>)>> ELSE <<>>

\* (Deviation: the former configuration is not removed.)
PrepareNothing == <<>>

\* (Deviation: the identifier is written before the tables of the modules.)
BuffersAndIdentifier == <<Write(<<"desc">>), Write(<<"alias">>), Do("identify")>>

\* The parts of apply_configuration()
Prepare == ClearSteps \o StartSteps
Buffers == <<Write(<<"desc">>), Write(<<"alias">>)>>
Finish == <<Do("identify"), Do("end")>>

\* config_enable() with apply_configuration()
ApplyConfig(c) ==
  <<Do("validate")>> \o Prepare \o Buffers \o EachModule(c, [m \in Modules |-> ModuleSteps(m)]) \o BaseSteps(c)
    \o Finish \o ApplySchedule(c) \o <<Do("identify")>>

\* config_schedule()
ApplyNewSchedule(c) == <<Do("check_id"), Do("validate")>> \o ApplySchedule(c) \o <<Do("identify")>>

(***************************************************************************)
(* Initial states and the calls of the application.                        *)
(***************************************************************************)
Init ==
  /\ has_reset \in BOOLEAN
  /\ status = "INIT"
  /\ state_lock = "nobody"
  /\ enabled = [m \in Modules |-> FALSE]
  /\ active = [m \in Modules |-> FALSE]
  /\ eme_dis = [m \in Modules |-> TRUE]
  /\ sched_active = [m \in Modules |-> FALSE]
  /\ hw = [t \in Tables |-> None]
  /\ id = None
  /\ todo = <<>> /\ kind = "none" /\ config = None /\ result = "none" /\ calls = 0 /\ locked = {}
  /\ op = Idle /\ writes = 0
  /\ lost = FALSE /\ raced = FALSE /\ ended = FALSE /\ stopped = NotStopped
  /\ identified = NotIdentified

Busy == todo # <<>>

Call(what, c, steps) ==
  /\ ~Busy
  /\ calls < MaxCalls
  /\ calls' = calls + 1
  /\ kind' = what
  /\ config' = c
  /\ todo' = steps
  /\ result' = "none"
  /\ UNCHANGED <<has_reset, driver, locked, operator, history>>

\* acm_apply_config(), acm_apply_schedule(), acm_disable_config()
CallApplyConfig == \E c \in Configs : Call("config", c, ApplyConfig(c))
CallApplySchedule == \E c \in Configs : Call("schedule", c, ApplyNewSchedule(c))
CallDisable == Call("disable", None, ClearSteps)

(***************************************************************************)
(* The steps of the library.                                               *)
(***************************************************************************)
AtStep(what) == Busy /\ Head(todo).do = what
Arg == Head(todo).arg
TheModule == Arg[1]

\* The call goes on with its next step; with the last one it succeeds.
Done ==
  /\ todo' = Tail(todo)
  /\ result' = IF Len(todo) = 1 THEN "ok" ELSE result
  /\ UNCHANGED <<kind, config, calls>>

\* (Deviation: the error of writing the aliases is not looked at.)
FailedUnnoticed ==
  IF Head(todo) = Write(<<"alias">>) THEN Done
  ELSE todo' = <<>> /\ result' = "error" /\ UNCHANGED <<kind, config, calls>>

\* Every error ends the call.
Failed ==
  /\ todo' = <<>>
  /\ result' = "error"
  /\ UNCHANGED <<kind, config, calls>>

\* validate_config() walks over the streams: it waits for a list that was left
\* locked, forever.
Validate ==
  /\ AtStep("validate")
  /\ config \notin locked
  /\ Done \/ Failed
  /\ UNCHANGED <<has_reset, driver, locked, operator, history>>

\* sysfs_read_configuration_id(); the caller may even expect 0 (None).
CheckId ==
  /\ AtStep("check_id")
  /\ \E expected \in ExpectedIds : IF id = expected THEN Done ELSE Failed
  /\ UNCHANGED <<has_reset, driver, locked, operator, history>>

\* A lookup table that fails within the loop over the streams leaves their list locked.
LockedAfter(table) ==
  IF table[1] = "lookup" THEN {locked, locked \cup {config}} ELSE {locked}

WriteFails ==
  /\ AtStep("write")
  /\ Failed
  /\ \E content \in {hw[Arg], Torn} : hw' = [hw EXCEPT ![Arg] = content]
  /\ locked' \in LockedAfter(Arg)
  /\ UNCHANGED <<has_reset, status, state_lock, enabled, active, eme_dis, sched_active, id, operator, history>>

WriteTable ==
  /\ AtStep("write")
  /\ Done
  /\ hw' = [hw EXCEPT ![Arg] = config]
  /\ UNCHANGED <<has_reset, status, state_lock, enabled, active, eme_dis, sched_active, id,
                 locked, operator, history>>

\* sysfs_write_scatter_dma(): an error leaves the loop over the operations of one
\* stream only, and the rows of the next stream overwrite it.
WriteScatterLosesError ==
  /\ AtStep("write")
  /\ Arg[1] = "scatter"
  /\ Done
  /\ hw' = [hw EXCEPT ![Arg] = Torn]
  /\ lost' = TRUE
  /\ UNCHANGED <<has_reset, status, state_lock, enabled, active, eme_dis, sched_active, id,
                 locked, operator, raced, ended, stopped, identified>>

\* sysfs_write_module_enable(), sysfs_write_emergency_disable(),
\* sysfs_write_configuration_id(): one register each.
EnableModule ==
  /\ AtStep("enable")
  /\ \/ Done /\ enabled' = [enabled EXCEPT ![TheModule] = TRUE]
     \/ Failed /\ UNCHANGED enabled
  /\ UNCHANGED <<has_reset, status, state_lock, active, eme_dis, sched_active, hw, id, locked, operator, history>>

EnableScheduler ==
  /\ AtStep("emergency")
  /\ \/ Done /\ eme_dis' = [eme_dis EXCEPT ![TheModule] = FALSE]
     \/ Failed /\ UNCHANGED eme_dis
  /\ UNCHANGED <<has_reset, status, state_lock, enabled, active, sched_active, hw, id, locked, operator, history>>

Identify ==
  /\ AtStep("identify")
  /\ \/ /\ Done
        /\ id' = config
        /\ identified' = IF kind = "schedule" THEN [identified EXCEPT !.scheduled = TRUE]
                         ELSE [config |-> config, scheduled |-> FALSE]
     \/ Failed /\ UNCHANGED <<id, identified>>
  /\ UNCHANGED <<has_reset, status, state_lock, enabled, active, eme_dis, sched_active, hw, locked, operator,
                 lost, raced, ended, stopped>>

\* The rows, cycle and start of a schedule: AcmScheduler.
WriteSchedule ==
  /\ AtStep("schedule")
  /\ Done \/ Failed
  /\ UNCHANGED <<has_reset, driver, locked, operator, history>>

(***************************************************************************)
(* The removal of a configuration, acm_config_remove().                    *)
(***************************************************************************)
AllOff == [m \in Modules |-> FALSE]

SchedulersOff ==
  /\ AtStep("schedulers_off")
  /\ Done
  /\ eme_dis' = [m \in Modules |-> TRUE]
  /\ sched_active' = AllOff
  /\ ended' = FALSE
  /\ stopped' = NotStopped
  /\ UNCHANGED <<has_reset, status, state_lock, enabled, active, hw, id, locked, operator,
                 lost, raced, identified>>

\* A module is disabled before its timeouts are cleared.
ModulesOff ==
  /\ AtStep("modules_off")
  /\ Done
  /\ enabled' = AllOff
  /\ active' = AllOff
  /\ hw' = [t \in Tables |-> IF t[1] \in Timeouts THEN None ELSE hw[t]]
  /\ raced' = (raced \/ op.was)
  /\ UNCHANGED <<has_reset, status, state_lock, eme_dis, sched_active, id, locked, operator,
                 lost, ended, stopped, identified>>

\* (Deviation: the error of the removal returns with the lock held.)
StillLocked == state_lock

\* A process that holds the lock gives it up when it leaves acm_state_set().
Unlocked == IF state_lock = "caller" THEN "nobody" ELSE state_lock

ResetHardware ==
  /\ enabled' = AllOff
  /\ hw' = [t \in Tables |-> None]
  /\ id' = None
  /\ lost' = FALSE
  /\ identified' = NotIdentified

\* reset_trigger(): a line that is not wired is no error; a handshake may time
\* out, after the hardware took the reset or not, and ends the removal.
Reset ==
  /\ AtStep("reset")
  /\ \/ has_reset /\ ResetHardware /\ Done /\ UNCHANGED state_lock
     \/ ~has_reset /\ Done /\ UNCHANGED <<enabled, hw, id, lost, identified, state_lock>>
     \/ /\ has_reset
        /\ ResetHardware \/ UNCHANGED <<enabled, hw, id, lost, identified>>
        /\ Failed
        /\ state_lock' = Unlocked
  /\ UNCHANGED <<has_reset, status, active, eme_dis, sched_active, locked, operator, raced, ended, stopped>>

DevicesOff ==
  /\ AtStep("devices_off")
  /\ Done
  /\ hw' = [hw EXCEPT ![<<"alias">>] = None]
  /\ UNCHANGED <<has_reset, status, state_lock, enabled, active, eme_dis, sched_active, id, locked, operator, history>>

\* acm_cleanup() clears the tables, not the control registers.
Cleanup ==
  /\ AtStep("cleanup")
  /\ Done
  /\ hw' = [t \in Tables |-> IF t[1] \in {"mode", "speed"} THEN hw[t] ELSE None]
  /\ lost' = FALSE
  /\ UNCHANGED <<has_reset, status, state_lock, enabled, active, eme_dis, sched_active, id, locked, operator,
                 raced, ended, stopped, identified>>

(***************************************************************************)
(* acm_state_set() by the library.                                         *)
(***************************************************************************)

\* mutex_lock_interruptible() may be interrupted at any time.
Interrupted ==
  /\ AtStep("set_init") \/ AtStep("lock") \/ AtStep("end")
  /\ Failed
  /\ UNCHANGED <<has_reset, driver, locked, operator, history>>

SetInit ==
  /\ AtStep("set_init")
  /\ state_lock = "nobody"
  /\ Done
  /\ status' = "INIT"
  /\ UNCHANGED <<has_reset, state_lock, enabled, active, eme_dis, sched_active, hw, id, locked, operator, history>>

LockState ==
  /\ AtStep("lock")
  /\ state_lock = "nobody"
  /\ Done
  /\ state_lock' = "caller"
  /\ UNCHANGED <<has_reset, status, enabled, active, eme_dis, sched_active, hw, id, locked, operator, history>>

\* acm_config_start() leaves the driver in the INIT state.
UnlockInit ==
  /\ AtStep("unlock_init")
  /\ Done
  /\ status' = "INIT"
  /\ state_lock' = "nobody"
  /\ UNCHANGED <<has_reset, enabled, active, eme_dis, sched_active, hw, id, locked, operator, history>>

\* (Deviation: nothing is stored.)
RecordNothing == UNCHANGED <<sched_active, active>>

\* What acm_config_end() stores for a restart.
RecordActive ==
  /\ sched_active' = [m \in Modules |-> ~eme_dis[m]]
  /\ active' = enabled

EndConfig ==
  /\ AtStep("end")
  /\ state_lock = "nobody"
  /\ Done
  /\ RecordActive
  /\ status' = "RUN"
  /\ ended' = TRUE
  /\ UNCHANGED <<has_reset, state_lock, enabled, eme_dis, hw, id, locked, operator,
                 lost, raced, stopped, identified>>

(***************************************************************************)
(* The second process.                                                     *)
(***************************************************************************)
BeginStateWrite(s) ==
  /\ s \in StateWrites
  /\ op = Idle
  /\ state_lock = "nobody"
  /\ writes < MaxStateWrites
  /\ writes' = writes + 1

\* acm_config_stop_running()
StopRunning ==
  /\ BeginStateWrite("DESYNC")
  /\ eme_dis' = [m \in Modules |-> TRUE]
  /\ enabled' = AllOff
  /\ status' = "DESYNC"
  /\ stopped' = [modules |-> {m \in Modules : enabled[m]}, valid |-> status = "RUN" /\ ended]
  /\ UNCHANGED <<has_reset, state_lock, active, sched_active, hw, id, library, op,
                 lost, raced, ended, identified>>

\* INIT is written without any action.
WriteInit ==
  /\ BeginStateWrite("INIT")
  /\ status' = "INIT"
  /\ stopped' = NotStopped
  /\ UNCHANGED <<has_reset, state_lock, enabled, active, eme_dis, sched_active, hw, id, library, op,
                 lost, raced, ended, identified>>

\* acm_config_restart_running(): the schedulers, then each module in two halves.
RestartSchedulers ==
  /\ BeginStateWrite("RESTART")
  /\ state_lock' = "operator"
  /\ eme_dis' = [m \in Modules |-> ~sched_active[m]]
  /\ op' = [do |-> "read", m |-> 0, was |-> FALSE]
  /\ UNCHANGED <<has_reset, status, enabled, active, sched_active, hw, id, library,
                 lost, raced, ended, stopped, identified>>

ReadActive ==
  /\ op.do = "read"
  /\ op' = [op EXCEPT !.do = "write", !.was = active[op.m]]
  /\ UNCHANGED <<has_reset, driver, library, writes, history>>

RestartModule ==
  /\ op.do = "write"
  /\ enabled' = [enabled EXCEPT ![op.m] = op.was]
  /\ IF op.m + 1 \in Modules
       THEN op' = [do |-> "read", m |-> op.m + 1, was |-> FALSE] /\ UNCHANGED <<status, state_lock>>
       ELSE op' = Idle /\ status' = "RUN" /\ state_lock' = "nobody"
  /\ UNCHANGED <<has_reset, active, eme_dis, sched_active, hw, id, library, writes, history>>

(***************************************************************************)
(* Specification.                                                          *)
(***************************************************************************)
Library ==
  \/ Validate \/ CheckId \/ WriteTable \/ WriteFails \/ WriteScatterLosesError
  \/ EnableModule \/ EnableScheduler \/ Identify \/ WriteSchedule
  \/ SchedulersOff \/ ModulesOff \/ Reset \/ DevicesOff \/ Cleanup
  \/ SetInit \/ LockState \/ UnlockInit \/ EndConfig

Restart == ReadActive \/ RestartModule

Next ==
  \/ CallApplyConfig \/ CallApplySchedule \/ CallDisable
  \/ Library \/ Interrupted
  \/ StopRunning \/ WriteInit \/ RestartSchedulers
  \/ Restart

\* A system call that is under way goes on; nobody has to begin one, and no signal
\* comes to the help of a call that waits for the lock.
Fairness == WF_vars(Library) /\ WF_vars(Restart)

Spec == Init /\ [][Next]_vars /\ Fairness

(***************************************************************************)
(* Properties.                                                             *)
(***************************************************************************)
TablesOf(m) == {<<ModuleTables[i], m>> : i \in DOMAIN ModuleTables}
TablesUsed(c) == (UNION {TablesOf(m) : m \in Uses[c]}) \cup {<<"desc">>, <<"alias">>}

WrittenBy(t, c) == hw[t] = c \/ (lost /\ t[1] = "scatter" /\ hw[t] = Torn)

AppliedJustNow(c) == kind = "config" /\ config = c /\ result = "ok" /\ ~Busy

\* When acm_apply_config() returns 0, every table of the configuration was
\* written completely by it and the identifier is its own, whatever failed in
\* earlier calls and whatever DESYNC, RESTART and INIT another process wrote to
\* config_state meanwhile (but for a scatter table whose error the library loses).
AppliedIsWritten ==
  \A c \in Configs :
    AppliedJustNow(c) => /\ id = c
                         /\ \A t \in TablesUsed(c) : WrittenBy(t, c)

\* A module whose NGN_ENABLE is set processes frames with tables that were all
\* written by one and the same configuration, also after failed calls, DESYNC and
\* RESTART in any order.
EnabledIsWritten ==
  raced \/ \A m \in Modules :
             enabled[m] => \E c \in Configs : m \in Uses[c] /\ \A t \in TablesOf(m) : WrittenBy(t, c)

\* All tables of c were written by it, but for those a removal clears before the
\* identifier.
TablesComplete(c) == \A t \in TablesUsed(c) : t[1] \in Timeouts \/ WrittenBy(t, c)

\* Where the hardware is reset, the identifier that acm_apply_config() wrote names
\* the configuration all of whose tables are in the hardware, from the first time
\* it can be read.  acm_apply_schedule() of another configuration replaces the
\* identifier and leaves the tables of the one applied before.  (Without a reset
\* line an identifier survives the removal of its configuration.)
IdentifiedIsWritten ==
  has_reset =>
    /\ ~identified.scheduled => id = identified.config
    /\ identified.config # None => TablesComplete(identified.config)

\* A RESTART that finishes after a DESYNC enables exactly the modules that the
\* DESYNC stopped (acm_config_stop_running(), acm_config_restart_running()), where
\* a configuration was at work and none was removed in between.
RestartResumesModules ==
  [][op # Idle /\ op' = Idle /\ stopped.valid =>
       {m \in Modules : enabled'[m]} = stopped.modules]_vars

\* Every call of the library returns, unless an earlier failure left the list of
\* streams locked: no error path of the driver keeps the lock of the state.
CallsEnd == Busy ~> (~Busy \/ config \in locked)

\* Applying, stopping, restarting and removing configurations in the steps of the
\* code is starting, stopping, resuming and forgetting traffic, as AcmConfigLife
\* promises it: a module never changes its configuration while it is at work.
AtWork(flags) == [m \in Modules |-> IF flags[m] THEN hw[<<"const", m>>] ELSE None]

Life == INSTANCE AcmConfigLife WITH
  Off <- None, traffic <- AtWork(enabled), kept <- AtWork(active), raced <- raced

ImplementsLife == Life!Spec
=============================================================================
