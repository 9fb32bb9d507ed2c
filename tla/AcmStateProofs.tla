--------------------------- MODULE AcmStateProofs ---------------------------
(***************************************************************************)
(* Proofs about AcmState, for any configurations and any number of calls   *)
(* and of states written by the second process.  What is still to do of a  *)
(* call is the rest of a plan that is fixed when the call begins, so that  *)
(* the position in the plan says which tables are written, which modules   *)
(* are off and who holds the lock.                                         *)
(***************************************************************************)
EXTENDS AcmState, SequenceTheorems, TLAPS

-----------------------------------------------------------------------------
(* Where a call is.                                                        *)

Steps ==
    {Do(what) : what \in {"validate", "check_id", "schedulers_off", "modules_off", "reset",
                          "devices_off", "cleanup", "set_init", "lock", "unlock_init",
                          "identify", "end"}}
      \cup {Write(t) : t \in Tables}
      \cup {Module(what, m) : what \in {"enable", "schedule", "emergency"}, m \in Modules}

(* All the steps of the last call, and the step it is at.                  *)
Plan ==
    IF kind = "config" THEN ApplyConfig(config)
    ELSE IF kind = "schedule" THEN ApplyNewSchedule(config)
    ELSE ClearSteps

Pos == Len(Plan) - Len(todo) + 1

(* The position of Finish in ApplyConfig(c): behind the removal (14 steps),*)
(* the two buffer tables, nine steps for each module, and the base timeouts*)
FinishAt(c) ==
    17 + (IF 0 \in Uses[c] THEN 9 ELSE 0) + (IF 1 \in Uses[c] THEN 9 ELSE 0)
       + (IF Uses[c] = Modules THEN 1 ELSE 0)

Configuring == Busy /\ kind = "config"
Disabling == Busy /\ kind = "disable"

(* A module that neither processes frames nor will after a restart.        *)
Off(m) == ~enabled[m] /\ ~active[m] /\ ~(op.m = m /\ op.was)

(* Every table of the module was written by one configuration.             *)
Complete(m) == \E c \in Configs : m \in Uses[c] /\ \A t \in TablesOf(m) : WrittenBy(t, c)

-----------------------------------------------------------------------------
(* The inductive invariant.                                                *)

TypeOK ==
    /\ has_reset \in BOOLEAN
    /\ status \in {"INIT", "RUN", "DESYNC"}
    /\ state_lock \in {"nobody", "caller", "operator"}
    /\ enabled \in [Modules -> BOOLEAN]
    /\ active \in [Modules -> BOOLEAN]
    /\ eme_dis \in [Modules -> BOOLEAN]
    /\ sched_active \in [Modules -> BOOLEAN]
    /\ hw \in [Tables -> Configs \cup {None, Torn}]
    /\ id \in Configs \cup {None}
    /\ kind \in {"none", "config", "schedule", "disable"}
    /\ config \in Configs \cup {None}
    /\ result \in {"none", "ok", "error"}
    /\ calls \in Nat
    /\ locked \subseteq Configs
    /\ op \in [do : {"idle", "read", "write"}, m : Modules, was : BOOLEAN]
    /\ writes \in Nat
    /\ lost \in BOOLEAN /\ raced \in BOOLEAN /\ ended \in BOOLEAN
    /\ stopped \in [modules : SUBSET Modules, valid : BOOLEAN]
    /\ identified \in [config : Configs \cup {None}, scheduled : BOOLEAN]

(* What is to do is the rest of the plan.                                  *)
OnPlan ==
    /\ todo \in Seq(Steps)
    /\ Busy => /\ kind # "none"
               /\ kind # "disable" => config \in Configs
               /\ result = "none"
               /\ Len(todo) <= Len(Plan)
               /\ \A i \in 1 .. Len(todo) : todo[i] = Plan[Pos - 1 + i]

(* Who holds the lock of the state.                                        *)
LockHeld ==
    /\ state_lock = "operator" <=> op.do # "idle"
    /\ state_lock = "caller" <=> Configuring /\ Pos \in 9 .. 14
    /\ op.do # "write" => ~op.was
    /\ op.do = "idle" => op = Idle

(* From a removal to its own enable step a module is off: without the lock *)
(* of the state only if no restart came in between.                        *)
RemovedIsOff ==
    /\ Configuring /\ Pos \in 4 .. 9 => \A m \in Modules : raced \/ Off(m)
    /\ Disabling /\ Pos \in 3 .. 6 => \A m \in Modules : raced \/ Off(m)
    /\ Configuring /\ Pos \in 11 .. FinishAt(config) =>
          \A m \in Modules :
            (\A i \in 15 .. Pos - 1 : Plan[i] # Module("enable", m)) => Off(m)

(* Every table whose write lies behind is written.                         *)
WrittenSoFar ==
    Configuring =>
      \A i \in 15 .. Pos - 1 : \A t \in Tables : Plan[i] = Write(t) => WrittenBy(t, config)

(* Between the reset and its own identifier nothing is identified.         *)
NothingIdentified ==
    has_reset => /\ Configuring /\ Pos \in 5 .. FinishAt(config) => id = None
                 /\ Disabling /\ Pos \in 4 .. 6 => id = None

(* What works or is to work again has all its tables, and not one that is  *)
(* partly written.                                                         *)
WorkIsWritten ==
    \A m \in Modules :
      ~Off(m) => /\ raced \/ Complete(m)
                 /\ hw[<<"const", m>>] # Torn

(* What a restart is about to write is what was stored, but for a race.    *)
RestartWritesActive == op.do = "write" => raced \/ op.was = active[op.m]

(* While a configuration is at work, it is what is stored for a restart.   *)
EndedIsActive ==
    /\ ended =>
         /\ Configuring => Pos \notin 3 .. FinishAt(config) + 1
         /\ Disabling => Pos = 1
         /\ status = "RUN" /\ op.do = "idle" => enabled = active
         /\ \A m \in Modules : op.do # "idle" /\ m < op.m => enabled[m] = active[m]
         /\ op.do = "write" => op.was = active[op.m]
    /\ stopped.valid => ended /\ stopped.modules = {m \in Modules : active[m]}

IInv ==
    /\ TypeOK
    /\ OnPlan
    /\ LockHeld
    /\ RemovedIsOff
    /\ WrittenSoFar
    /\ NothingIdentified
    /\ WorkIsWritten
    /\ RestartWritesActive
    /\ EndedIsActive

-----------------------------------------------------------------------------
(* The plans.                                                              *)

(* What the concatenation of two sequences is made of.                     *)
LEMMA ConcatElements ==
  ASSUME NEW S, NEW s \in Seq(S), NEW t \in Seq(S)
  PROVE  /\ s \o t \in Seq(S)
         /\ Len(s \o t) = Len(s) + Len(t)
         /\ \A i \in 1 .. Len(s) : (s \o t)[i] = s[i]
         /\ \A i \in 1 .. Len(t) : (s \o t)[Len(s) + i] = t[i]
OBVIOUS

(* The names of the tables of a module.                                    *)
Names == {"const", "lookup", "scatter", "gather", "mode", "redund", "indiv", "speed"}

(* The tables of a module are those whose writes ModuleSteps contains.     *)
LEMMA NamesOfTables ==
  /\ DOMAIN ModuleTables = 1 .. 8
  /\ Len(ModuleTables) = 8
  /\ \A i \in 1 .. 8 : ModuleTables[i] \in Names
  /\ \A n \in Names : \E i \in 1 .. 8 : ModuleTables[i] = n
  /\ \A m : TablesOf(m) = {<<n, m>> : n \in Names}
<1>1. ModuleTables \in Seq(Names) /\ Len(ModuleTables) = 8
  BY DEF ModuleTables, Names
<1>2. DOMAIN ModuleTables = 1 .. 8
  BY <1>1
<1>4. /\ ModuleTables[1] = "const" /\ ModuleTables[2] = "lookup" /\ ModuleTables[3] = "scatter"
      /\ ModuleTables[4] = "gather" /\ ModuleTables[5] = "mode" /\ ModuleTables[6] = "redund"
      /\ ModuleTables[7] = "indiv" /\ ModuleTables[8] = "speed"
  BY DEF ModuleTables
<1>3. \A i \in 1 .. 8 : ModuleTables[i] \in Names
  <2>1. \A i \in 1 .. 8 : i = 1 \/ i = 2 \/ i = 3 \/ i = 4 \/ i = 5 \/ i = 6 \/ i = 7 \/ i = 8
    OBVIOUS
  <2>2. QED
    BY <1>4, <2>1, Zenon DEF Names
<1>5. \A n \in Names : \E i \in 1 .. 8 : ModuleTables[i] = n
  <2>1. /\ 1 \in 1 .. 8 /\ 2 \in 1 .. 8 /\ 3 \in 1 .. 8 /\ 4 \in 1 .. 8
        /\ 5 \in 1 .. 8 /\ 6 \in 1 .. 8 /\ 7 \in 1 .. 8 /\ 8 \in 1 .. 8
    OBVIOUS
  <2>2. QED
    BY <1>4, <2>1, Zenon DEF Names
<1>6. \A m : TablesOf(m) = {<<n, m>> : n \in Names}
  BY <1>2, <1>3, <1>5, Zenon DEF TablesOf
<1>7. QED
  BY <1>1, <1>2, <1>3, <1>5, <1>6

(* The tables there are.                                                   *)
LEMMA AllTables ==
  Tables = {<<n, m>> : n \in Names, m \in Modules} \cup {<<"desc">>, <<"alias">>, <<"base">>}
<1>1. {<<ModuleTables[i], m>> : i \in DOMAIN ModuleTables, m \in Modules}
        = {<<n, m>> : n \in Names, m \in Modules}
  <2>1. ASSUME NEW i \in DOMAIN ModuleTables, NEW m \in Modules
        PROVE  \E n \in Names : <<ModuleTables[i], m>> = <<n, m>>
    BY NamesOfTables, Zenon
  <2>2. ASSUME NEW n \in Names, NEW m \in Modules
        PROVE  \E i \in DOMAIN ModuleTables : <<n, m>> = <<ModuleTables[i], m>>
    BY NamesOfTables, Zenon
  <2>3. QED
    BY <2>1, <2>2
<1>2. QED
  BY <1>1 DEF Tables

(* What a step does and with what.                                         *)
LEMMA StepFields ==
  /\ \A what : Do(what).do = what
  /\ \A t : Write(t).do = "write" /\ Write(t).arg = t
  /\ \A what, m : /\ Module(what, m).do = what
                  /\ Module(what, m).arg = <<m>>
                  /\ Module(what, m).arg[1] = m
BY DEF Do, Write, Module

(* The plan of acm_disable_config().                                       *)
LEMMA DisablePlan ==
  /\ ClearSteps \in Seq(Steps)
  /\ Len(ClearSteps) = 6
  /\ ClearSteps[1] = Do("schedulers_off") /\ ClearSteps[2] = Do("modules_off")
  /\ ClearSteps[3] = Do("reset") /\ ClearSteps[4] = Do("devices_off")
  /\ ClearSteps[5] = Do("cleanup") /\ ClearSteps[6] = Do("set_init")
<1>1. /\ Do("schedulers_off") \in Steps /\ Do("modules_off") \in Steps /\ Do("reset") \in Steps
      /\ Do("devices_off") \in Steps /\ Do("cleanup") \in Steps /\ Do("set_init") \in Steps
  BY DEF Steps
<1>2. /\ RemoveSteps \in Seq(Steps) /\ Len(RemoveSteps) = 5
      /\ RemoveSteps[1] = Do("schedulers_off") /\ RemoveSteps[2] = Do("modules_off")
      /\ RemoveSteps[3] = Do("reset") /\ RemoveSteps[4] = Do("devices_off")
      /\ RemoveSteps[5] = Do("cleanup")
  BY <1>1 DEF RemoveSteps
<1>3. /\ <<Do("set_init")>> \in Seq(Steps) /\ Len(<<Do("set_init")>>) = 1
      /\ <<Do("set_init")>>[1] = Do("set_init")
  BY <1>1
<1> DEFINE r == RemoveSteps
           i == <<Do("set_init")>>
           c == r \o i
<1>4. ClearSteps = c
  BY DEF ClearSteps
<1>5. r \in Seq(Steps) /\ i \in Seq(Steps)
  BY <1>2, <1>3
<1>6. Len(r) = 5 /\ Len(i) = 1 /\ i[1] = Do("set_init")
  BY <1>2, <1>3
<1> HIDE DEF r, i
<1>7. /\ c \in Seq(Steps) /\ Len(c) = Len(r) + Len(i)
      /\ \A k \in 1 .. Len(r) : c[k] = r[k]
      /\ \A k \in 1 .. Len(i) : c[Len(r) + k] = i[k]
  BY <1>5, ConcatElements
<1> HIDE DEF c
<1>8. /\ c \in Seq(Steps) /\ Len(c) = 6 /\ c[6] = Do("set_init")
      /\ c[1] = r[1] /\ c[2] = r[2] /\ c[3] = r[3] /\ c[4] = r[4] /\ c[5] = r[5]
  BY <1>6, <1>7
<1>9. QED
  BY <1>2, <1>4, <1>8, Zenon DEF r

(* The removal with the lock held, as acm_config_start() does it.          *)
LEMMA StartPlan ==
  /\ StartSteps \in Seq(Steps)
  /\ Len(StartSteps) = 7
  /\ StartSteps[1] = Do("lock")
  /\ StartSteps[2] = Do("schedulers_off") /\ StartSteps[3] = Do("modules_off")
  /\ StartSteps[4] = Do("reset") /\ StartSteps[5] = Do("devices_off")
  /\ StartSteps[6] = Do("cleanup") /\ StartSteps[7] = Do("unlock_init")
<1>1. /\ Do("schedulers_off") \in Steps /\ Do("modules_off") \in Steps /\ Do("reset") \in Steps
      /\ Do("devices_off") \in Steps /\ Do("cleanup") \in Steps
      /\ Do("lock") \in Steps /\ Do("unlock_init") \in Steps
  BY DEF Steps
<1>2. /\ RemoveSteps \in Seq(Steps) /\ Len(RemoveSteps) = 5
      /\ RemoveSteps[1] = Do("schedulers_off") /\ RemoveSteps[2] = Do("modules_off")
      /\ RemoveSteps[3] = Do("reset") /\ RemoveSteps[4] = Do("devices_off")
      /\ RemoveSteps[5] = Do("cleanup")
  BY <1>1 DEF RemoveSteps
<1>3. /\ <<Do("lock")>> \in Seq(Steps) /\ Len(<<Do("lock")>>) = 1
      /\ <<Do("lock")>>[1] = Do("lock")
  BY <1>1
<1>4. /\ <<Do("unlock_init")>> \in Seq(Steps) /\ Len(<<Do("unlock_init")>>) = 1
      /\ <<Do("unlock_init")>>[1] = Do("unlock_init")
  BY <1>1
<1> DEFINE l == <<Do("lock")>>
           r == RemoveSteps
           u == <<Do("unlock_init")>>
           b == l \o r
           c == b \o u
<1>5. StartSteps = c
  BY DEF StartSteps
<1>6. l \in Seq(Steps) /\ r \in Seq(Steps) /\ u \in Seq(Steps)
  BY <1>2, <1>3, <1>4
<1>7. /\ Len(l) = 1 /\ l[1] = Do("lock") /\ Len(r) = 5
      /\ Len(u) = 1 /\ u[1] = Do("unlock_init")
  BY <1>2, <1>3, <1>4
<1> HIDE DEF l, r, u
<1>8. /\ b \in Seq(Steps) /\ Len(b) = Len(l) + Len(r)
      /\ \A k \in 1 .. Len(l) : b[k] = l[k]
      /\ \A k \in 1 .. Len(r) : b[Len(l) + k] = r[k]
  BY <1>6, ConcatElements
<1> HIDE DEF b
<1>9. /\ b \in Seq(Steps) /\ Len(b) = 6 /\ b[1] = Do("lock")
      /\ b[2] = r[1] /\ b[3] = r[2] /\ b[4] = r[3] /\ b[5] = r[4] /\ b[6] = r[5]
  BY <1>7, <1>8
<1>10. /\ c \in Seq(Steps) /\ Len(c) = Len(b) + Len(u)
       /\ \A k \in 1 .. Len(b) : c[k] = b[k]
       /\ \A k \in 1 .. Len(u) : c[Len(b) + k] = u[k]
  <2>1. b \in Seq(Steps) /\ u \in Seq(Steps)
    BY <1>6, <1>9
  <2>2. QED
    BY <2>1, ConcatElements
<1> HIDE DEF c
<1>11. /\ Len(c) = 7 /\ c[7] = Do("unlock_init") /\ c[1] = b[1]
       /\ c[2] = b[2] /\ c[3] = b[3] /\ c[4] = b[4] /\ c[5] = b[5] /\ c[6] = b[6]
  BY <1>7, <1>9, <1>10
<1>12. QED
  BY <1>2, <1>5, <1>9, <1>10, <1>11, Zenon DEF r

(* The steps of a module: its tables, then NGN_ENABLE.                     *)
LEMMA ModulePlan ==
  ASSUME NEW m \in Modules
  PROVE  /\ ModuleSteps(m) \in Seq(Steps)
         /\ Len(ModuleSteps(m)) = 9
         /\ \A i \in 1 .. 8 : ModuleSteps(m)[i] = Write(<<ModuleTables[i], m>>)
         /\ ModuleSteps(m)[9] = Module("enable", m)
<1> DEFINE w == [i \in 1 .. Len(ModuleTables) |-> Write(<<ModuleTables[i], m>>)]
<1>1. \A i \in 1 .. 8 : Write(<<ModuleTables[i], m>>) \in Steps
  <2>1. \A i \in 1 .. 8 : <<ModuleTables[i], m>> \in Tables
    BY NamesOfTables, AllTables
  <2>2. QED
    BY <2>1 DEF Steps
<1>2. w = [i \in 1 .. 8 |-> Write(<<ModuleTables[i], m>>)]
  BY NamesOfTables
<1> HIDE DEF w
<1>3. \A i \in 1 .. 8 : w[i] = Write(<<ModuleTables[i], m>>)
  BY <1>2
<1>4. w \in Seq(Steps) /\ Len(w) = 8
  <2>1. /\ [i \in 1 .. 8 |-> Write(<<ModuleTables[i], m>>)] \in Seq(Steps)
        /\ Len([i \in 1 .. 8 |-> Write(<<ModuleTables[i], m>>)]) = 8
    BY <1>1
  <2>2. QED
    BY <1>2, <2>1
<1>5. Module("enable", m) \in Steps
  BY DEF Steps
<1>6. /\ <<Module("enable", m)>> \in Seq(Steps) /\ Len(<<Module("enable", m)>>) = 1
      /\ <<Module("enable", m)>>[1] = Module("enable", m)
  BY <1>5
<1>7. ModuleSteps(m) = w \o <<Module("enable", m)>>
  BY DEF ModuleSteps, w
<1> DEFINE e == <<Module("enable", m)>>
           c == w \o e
<1>8. e \in Seq(Steps) /\ Len(e) = 1 /\ e[1] = Module("enable", m) /\ ModuleSteps(m) = c
  BY <1>6, <1>7
<1> HIDE DEF e
<1>9. /\ c \in Seq(Steps) /\ Len(c) = Len(w) + Len(e)
      /\ \A k \in 1 .. Len(w) : c[k] = w[k]
      /\ \A k \in 1 .. Len(e) : c[Len(w) + k] = e[k]
  <2>1. w \in Seq(Steps) /\ e \in Seq(Steps)
    BY <1>4, <1>8
  <2>2. QED
    BY <2>1, ConcatElements
<1> HIDE DEF c
<1>10. c \in Seq(Steps) /\ Len(c) = 9 /\ (\A i \in 1 .. 8 : c[i] = w[i]) /\ c[9] = e[1]
  BY <1>4, <1>8, <1>9
<1>11. QED
  BY <1>3, <1>8, <1>10, Zenon

(* What the loops over the modules of a configuration make of a sequence   *)
(* for each module.                                                        *)
InOrder(c, f, s) ==
    /\ 0 \notin Uses[c] /\ 1 \notin Uses[c] => s = <<>>
    /\ 0 \in Uses[c] /\ 1 \notin Uses[c] => s = f[0]
    /\ 0 \notin Uses[c] /\ 1 \in Uses[c] => s = f[1]
    /\ 0 \in Uses[c] /\ 1 \in Uses[c] =>
         /\ Len(s) = Len(f[0]) + Len(f[1])
         /\ \A i \in 1 .. Len(f[0]) : s[i] = f[0][i]
         /\ \A i \in 1 .. Len(f[1]) : s[Len(f[0]) + i] = f[1][i]

(* EachModule runs through the modules a configuration has.                *)
LEMMA EachModulePlan ==
  ASSUME NEW S, NEW c, NEW f \in [Modules -> Seq(S)]
  PROVE  EachModule(c, f) \in Seq(S) /\ InOrder(c, f, EachModule(c, f))
<1>1. f[0] \in Seq(S) /\ f[1] \in Seq(S) /\ <<>> \in Seq(S)
  BY DEF Modules
<1>2. CASE 0 \notin Uses[c] /\ 1 \notin Uses[c]
  <2>1. EachModule(c, f) = <<>> \o <<>>
    BY <1>2 DEF EachModule
  <2>2. EachModule(c, f) = <<>>
    BY <1>1, <2>1, ConcatEmptySeq
  <2>3. QED
    BY <1>1, <1>2, <2>2 DEF InOrder
<1>3. CASE 0 \in Uses[c] /\ 1 \notin Uses[c]
  <2>1. EachModule(c, f) = f[0] \o <<>>
    BY <1>3 DEF EachModule
  <2>2. EachModule(c, f) = f[0]
    BY <1>1, <2>1, ConcatEmptySeq
  <2>3. QED
    BY <1>1, <1>3, <2>2 DEF InOrder
<1>4. CASE 0 \notin Uses[c] /\ 1 \in Uses[c]
  <2>1. EachModule(c, f) = <<>> \o f[1]
    BY <1>4 DEF EachModule
  <2>2. EachModule(c, f) = f[1]
    BY <1>1, <2>1, ConcatEmptySeq
  <2>3. QED
    BY <1>1, <1>4, <2>2 DEF InOrder
<1>5. CASE 0 \in Uses[c] /\ 1 \in Uses[c]
  <2> DEFINE x == f[0]
             y == f[1]
             e == x \o y
  <2>1. EachModule(c, f) = e
    BY <1>5 DEF EachModule
  <2>2. x \in Seq(S) /\ y \in Seq(S)
    BY <1>1
  <2> HIDE DEF x, y
  <2>3. /\ e \in Seq(S) /\ Len(e) = Len(x) + Len(y)
        /\ \A k \in 1 .. Len(x) : e[k] = x[k]
        /\ \A k \in 1 .. Len(y) : e[Len(x) + k] = y[k]
    BY <2>2, ConcatElements
  <2> HIDE DEF e
  <2>4. QED
    BY <1>5, <2>1, <2>3, Zenon DEF InOrder, x, y
<1>6. QED
  BY <1>2, <1>3, <1>4, <1>5

(* The steps that put the schedules to work.                               *)
SchedulingSteps == {Module(what, m) : what \in {"schedule", "emergency"}, m \in Modules}

(* apply_schedule() writes nothing but schedules.                          *)
LEMMA SchedulesOnly ==
  ASSUME NEW c
  PROVE  ApplySchedule(c) \in Seq(SchedulingSteps)
<1> DEFINE f == [m \in Modules |-> ScheduleSteps(m)]
<1>1. \A m \in Modules : ScheduleSteps(m) \in Seq(SchedulingSteps)
  <2>1. SUFFICES ASSUME NEW m \in Modules PROVE ScheduleSteps(m) \in Seq(SchedulingSteps)
    OBVIOUS
  <2>2. Module("schedule", m) \in SchedulingSteps /\ Module("emergency", m) \in SchedulingSteps
    BY DEF SchedulingSteps
  <2>3. QED
    BY <2>2 DEF ScheduleSteps
<1>2. f \in [Modules -> Seq(SchedulingSteps)]
  BY <1>1
<1> HIDE DEF f
<1>3. EachModule(c, f) \in Seq(SchedulingSteps)
  BY <1>2, EachModulePlan
<1>4. QED
  BY <1>3 DEF ApplySchedule, f

(* The plan of acm_apply_schedule().                                       *)
LEMMA SchedulePlan ==
  ASSUME NEW c
  PROVE  /\ ApplyNewSchedule(c) \in Seq(Steps)
         /\ Len(ApplyNewSchedule(c)) >= 3
         /\ ApplyNewSchedule(c)[1] = Do("check_id")
         /\ ApplyNewSchedule(c)[2] = Do("validate")
         /\ \A i \in 3 .. Len(ApplyNewSchedule(c)) :
              ApplyNewSchedule(c)[i] \in SchedulingSteps \cup {Do("identify")}
<1> DEFINE x == <<Do("check_id"), Do("validate")>>
           y == ApplySchedule(c)
           z == <<Do("identify")>>
           a == x \o y
           b == a \o z
<1>1. ApplyNewSchedule(c) = b
  BY DEF ApplyNewSchedule
<1>2. Do("check_id") \in Steps /\ Do("validate") \in Steps /\ Do("identify") \in Steps
  BY DEF Steps
<1>3. SchedulingSteps \subseteq Steps
  BY DEF SchedulingSteps, Steps
<1>4. y \in Seq(SchedulingSteps)
  BY SchedulesOnly
<1>5. x \in Seq(Steps) /\ z \in Seq(Steps)
  BY <1>2
<1>6. Len(x) = 2 /\ x[1] = Do("check_id") /\ x[2] = Do("validate") /\ Len(z) = 1 /\ z[1] = Do("identify")
  OBVIOUS
<1> HIDE DEF x, y, z
<1>7. y \in Seq(Steps) /\ Len(y) \in Nat /\ \A k \in 1 .. Len(y) : y[k] \in SchedulingSteps
  BY <1>3, <1>4
<1>8. /\ a \in Seq(Steps) /\ Len(a) = Len(x) + Len(y)
      /\ \A k \in 1 .. Len(x) : a[k] = x[k]
      /\ \A k \in 1 .. Len(y) : a[Len(x) + k] = y[k]
  BY <1>5, <1>7, ConcatElements
<1> HIDE DEF a
<1>9. /\ b \in Seq(Steps) /\ Len(b) = Len(a) + Len(z)
      /\ \A k \in 1 .. Len(a) : b[k] = a[k]
      /\ \A k \in 1 .. Len(z) : b[Len(a) + k] = z[k]
  <2>1. a \in Seq(Steps) /\ z \in Seq(Steps)
    BY <1>5, <1>8
  <2>2. QED
    BY <2>1, ConcatElements
<1> HIDE DEF b
<1>10. Len(a) = 2 + Len(y) /\ Len(b) = Len(a) + 1 /\ b[Len(a) + 1] = Do("identify")
  BY <1>6, <1>8, <1>9
<1>11. b[1] = Do("check_id") /\ b[2] = Do("validate")
  <2>1. a[1] = x[1] /\ a[2] = x[2]
    BY <1>6, <1>8
  <2>2. b[1] = a[1] /\ b[2] = a[2]
    BY <1>7, <1>9, <1>10
  <2>3. QED
    BY <1>6, <2>1, <2>2
<1>12. ASSUME NEW i \in 3 .. Len(b) PROVE b[i] \in SchedulingSteps \cup {Do("identify")}
  <2>1. CASE i = Len(a) + 1
    BY <1>10, <2>1
  <2>2. CASE i # Len(a) + 1
    <3>1. i \in 1 .. Len(a) /\ i - 2 \in 1 .. Len(y)
      BY <1>7, <1>10, <2>2
    <3>2. b[i] = a[i]
      BY <1>9, <3>1
    <3>3. a[2 + (i - 2)] = y[i - 2]
      BY <1>6, <1>8, <3>1
    <3>4. y[i - 2] \in SchedulingSteps
      BY <1>7, <3>1
    <3>5. 2 + (i - 2) = i
      BY <3>1
    <3>6. QED
      BY <3>2, <3>3, <3>4, <3>5
  <2>3. QED
    BY <2>1, <2>2
<1>13. QED
  BY <1>1, <1>7, <1>9, <1>10, <1>11, <1>12

(* The removals and the buffers, with which applying a configuration       *)
(* begins.                                                                 *)
Removals == <<Do("validate")>> \o Prepare

(* The steps of a removal one by one.                                      *)
LEMMA RemovalPlan ==
  /\ Removals \in Seq(Steps)
  /\ Len(Removals) = 14
  /\ Removals[1] = Do("validate")
  /\ Removals[2] = Do("schedulers_off") /\ Removals[3] = Do("modules_off")
  /\ Removals[4] = Do("reset") /\ Removals[5] = Do("devices_off")
  /\ Removals[6] = Do("cleanup") /\ Removals[7] = Do("set_init")
  /\ Removals[8] = Do("lock")
  /\ Removals[9] = Do("schedulers_off") /\ Removals[10] = Do("modules_off")
  /\ Removals[11] = Do("reset") /\ Removals[12] = Do("devices_off")
  /\ Removals[13] = Do("cleanup") /\ Removals[14] = Do("unlock_init")
<1> DEFINE x == <<Do("validate")>>
           y == ClearSteps
           z == StartSteps
           a == y \o z
           b == x \o a
<1>1. Removals = b
  BY DEF Removals, Prepare
<1>2. x \in Seq(Steps)
  BY DEF Steps
<1>3. Len(x) = 1 /\ x[1] = Do("validate")
  OBVIOUS
<1>4. y \in Seq(Steps) /\ z \in Seq(Steps)
  BY DisablePlan, StartPlan
<1>5. /\ Len(y) = 6
      /\ y[1] = Do("schedulers_off") /\ y[2] = Do("modules_off") /\ y[3] = Do("reset")
      /\ y[4] = Do("devices_off") /\ y[5] = Do("cleanup") /\ y[6] = Do("set_init")
  BY DisablePlan
<1>6. /\ Len(z) = 7 /\ z[1] = Do("lock")
      /\ z[2] = Do("schedulers_off") /\ z[3] = Do("modules_off") /\ z[4] = Do("reset")
      /\ z[5] = Do("devices_off") /\ z[6] = Do("cleanup") /\ z[7] = Do("unlock_init")
  BY StartPlan
<1> HIDE DEF x, y, z
<1>7. /\ a \in Seq(Steps) /\ Len(a) = Len(y) + Len(z)
      /\ \A k \in 1 .. Len(y) : a[k] = y[k]
      /\ \A k \in 1 .. Len(z) : a[Len(y) + k] = z[k]
  BY <1>4, ConcatElements
<1> HIDE DEF a
<1>8. a \in Seq(Steps) /\ Len(a) = 13
  BY <1>5, <1>6, <1>7
<1>9. /\ a[1] = y[1] /\ a[2] = y[2] /\ a[3] = y[3] /\ a[4] = y[4] /\ a[5] = y[5] /\ a[6] = y[6]
  BY <1>5, <1>7
<1>10. /\ a[7] = z[1] /\ a[8] = z[2] /\ a[9] = z[3] /\ a[10] = z[4] /\ a[11] = z[5]
       /\ a[12] = z[6] /\ a[13] = z[7]
  BY <1>5, <1>6, <1>7
<1>11. /\ b \in Seq(Steps) /\ Len(b) = Len(x) + Len(a)
       /\ \A k \in 1 .. Len(x) : b[k] = x[k]
       /\ \A k \in 1 .. Len(a) : b[Len(x) + k] = a[k]
  <2>1. x \in Seq(Steps) /\ a \in Seq(Steps)
    BY <1>2, <1>8
  <2>2. QED
    BY <2>1, ConcatElements
<1> HIDE DEF b
<1>12. Len(b) = 14 /\ b[1] = x[1] /\ b[2] = a[1] /\ b[3] = a[2] /\ b[4] = a[3] /\ b[5] = a[4]
  BY <1>3, <1>8, <1>11
<1>13. /\ b[6] = a[5] /\ b[7] = a[6] /\ b[8] = a[7] /\ b[9] = a[8] /\ b[10] = a[9]
       /\ b[11] = a[10] /\ b[12] = a[11] /\ b[13] = a[12] /\ b[14] = a[13]
  BY <1>3, <1>8, <1>11
<1>14. QED
  BY <1>1, <1>3, <1>5, <1>6, <1>9, <1>10, <1>11, <1>12, <1>13, Zenon

(* What stands in front of a module in the plan.                           *)
StartOf(c, m) == 16 + (IF m = 1 /\ 0 \in Uses[c] THEN 9 ELSE 0)

(* The plan of acm_apply_config(): the removals, the buffers, the modules, *)
(* the base timeouts, the identifier and the end of the configuration, and *)
(* the schedules.                                                          *)
LEMMA ConfigPlan ==
  ASSUME NEW c \in Configs
  PROVE  /\ ApplyConfig(c) \in Seq(Steps)
         /\ Len(ApplyConfig(c)) > FinishAt(c) + 1
         /\ \A i \in 1 .. 14 : ApplyConfig(c)[i] = Removals[i]
         /\ ApplyConfig(c)[15] = Write(<<"desc">>) /\ ApplyConfig(c)[16] = Write(<<"alias">>)
         /\ \A m \in Uses[c] :
              /\ \A i \in 1 .. 8 : ApplyConfig(c)[StartOf(c, m) + i] = Write(<<ModuleTables[i], m>>)
              /\ ApplyConfig(c)[StartOf(c, m) + 9] = Module("enable", m)
         /\ Uses[c] = Modules => ApplyConfig(c)[FinishAt(c) - 1] = Write(<<"base">>)
         /\ ApplyConfig(c)[FinishAt(c)] = Do("identify")
         /\ ApplyConfig(c)[FinishAt(c) + 1] = Do("end")
         /\ \A i \in FinishAt(c) + 2 .. Len(ApplyConfig(c)) :
              ApplyConfig(c)[i] \in SchedulingSteps \cup {Do("identify")}
         /\ ApplyConfig(c)[Len(ApplyConfig(c))] = Do("identify")
<1> DEFINE u == Buffers
           v == EachModule(c, [m \in Modules |-> ModuleSteps(m)])
           w == BaseSteps(c)
           x == Finish
           y == ApplySchedule(c)
           z == <<Do("identify")>>
           a == Removals \o u
           b == a \o v
           d == b \o w
           e == d \o x
           f == e \o y
           g == f \o z
<1>1. ApplyConfig(c) = g
  BY DEF ApplyConfig, Removals
<1>2. /\ Write(<<"desc">>) \in Steps /\ Write(<<"alias">>) \in Steps /\ Write(<<"base">>) \in Steps
      /\ Do("identify") \in Steps /\ Do("end") \in Steps
  BY DEF Steps, Tables
<1>3. u \in Seq(Steps) /\ Len(u) = 2 /\ u[1] = Write(<<"desc">>) /\ u[2] = Write(<<"alias">>)
  BY <1>2 DEF Buffers
<1>4. x \in Seq(Steps) /\ Len(x) = 2 /\ x[1] = Do("identify") /\ x[2] = Do("end")
  BY <1>2 DEF Finish
<1>5. z \in Seq(Steps) /\ Len(z) = 1 /\ z[1] = Do("identify")
  BY <1>2
<1>6. /\ w \in Seq(Steps)
      /\ Uses[c] = Modules => Len(w) = 1 /\ w[1] = Write(<<"base">>)
      /\ Uses[c] # Modules => Len(w) = 0
  BY <1>2 DEF BaseSteps
<1>7. /\ v \in Seq(Steps)
      /\ Len(v) = (IF 0 \in Uses[c] THEN 9 ELSE 0) + (IF 1 \in Uses[c] THEN 9 ELSE 0)
      /\ \A m \in Uses[c] : /\ \A i \in 1 .. 8 : v[StartOf(c, m) - 16 + i] = Write(<<ModuleTables[i], m>>)
                            /\ v[StartOf(c, m) - 16 + 9] = Module("enable", m)
  <2> DEFINE s == [m \in Modules |-> ModuleSteps(m)]
  <2>1. s \in [Modules -> Seq(Steps)]
    BY ModulePlan
  <2>2. \A m \in Modules : /\ Len(s[m]) = 9
                           /\ \A i \in 1 .. 8 : s[m][i] = Write(<<ModuleTables[i], m>>)
                           /\ s[m][9] = Module("enable", m)
    BY ModulePlan
  <2> HIDE DEF s
  <2> DEFINE t == EachModule(c, s)
  <2>3. t \in Seq(Steps) /\ InOrder(c, s, t)
    BY <2>1, EachModulePlan
  <2> HIDE DEF t
  <2>4. 0 \in Modules /\ 1 \in Modules /\ Len(s[0]) = 9 /\ Len(s[1]) = 9
    BY <2>2 DEF Modules
  <2>5. Len(t) = (IF 0 \in Uses[c] THEN 9 ELSE 0) + (IF 1 \in Uses[c] THEN 9 ELSE 0)
    <3>1. CASE 0 \in Uses[c] /\ 1 \in Uses[c]
      BY <2>3, <2>4, <3>1 DEF InOrder
    <3>2. CASE 0 \in Uses[c] /\ 1 \notin Uses[c]
      BY <2>3, <2>4, <3>2 DEF InOrder
    <3>3. CASE 0 \notin Uses[c] /\ 1 \in Uses[c]
      BY <2>3, <2>4, <3>3 DEF InOrder
    <3>4. CASE 0 \notin Uses[c] /\ 1 \notin Uses[c]
      BY <2>3, <2>4, <3>4 DEF InOrder
    <3>5. QED
      BY <3>1, <3>2, <3>3, <3>4
  <2>6. ASSUME 0 \in Uses[c]
        PROVE  (\A i \in 1 .. 8 : t[i] = Write(<<ModuleTables[i], 0>>)) /\ t[9] = Module("enable", 0)
    <3>1. \A i \in 1 .. 9 : t[i] = s[0][i]
      BY <2>3, <2>4, <2>6 DEF InOrder
    <3>2. 9 \in 1 .. 9 /\ \A i \in 1 .. 8 : i \in 1 .. 9
      OBVIOUS
    <3>3. QED
      BY <2>2, <2>4, <3>1, <3>2, Zenon
  <2>7. ASSUME 1 \in Uses[c], NEW n \in Nat, n = IF 0 \in Uses[c] THEN 9 ELSE 0
        PROVE  (\A i \in 1 .. 8 : t[n + i] = Write(<<ModuleTables[i], 1>>)) /\ t[n + 9] = Module("enable", 1)
    <3>1. ASSUME NEW i \in 1 .. 9 PROVE t[n + i] = s[1][i]
      <4>1. CASE 0 \in Uses[c]
        BY <2>3, <2>4, <2>7, <4>1 DEF InOrder
      <4>2. CASE 0 \notin Uses[c]
        <5>1. n + i = i /\ t = s[1]
          BY <2>3, <2>7, <4>2 DEF InOrder
        <5>2. QED
          BY <5>1
      <4>3. QED
        BY <4>1, <4>2
    <3>2. 9 \in 1 .. 9 /\ \A i \in 1 .. 8 : i \in 1 .. 9
      OBVIOUS
    <3>3. QED
      BY <2>2, <2>4, <3>1, <3>2, Zenon
  <2>8. ASSUME NEW m \in Uses[c]
        PROVE  /\ \A i \in 1 .. 8 : t[StartOf(c, m) - 16 + i] = Write(<<ModuleTables[i], m>>)
               /\ t[StartOf(c, m) - 16 + 9] = Module("enable", m)
    <3>1. m = 0 \/ m = 1
      BY UsesAssumption DEF Modules
    <3>2. CASE m = 0
      <4>1. StartOf(c, m) = 16
        BY <3>2 DEF StartOf
      <4>2. QED
        BY <2>6, <3>2, <4>1
    <3>3. CASE m = 1
      <4>1. StartOf(c, m) = 16 + (IF 0 \in Uses[c] THEN 9 ELSE 0)
        BY <3>3 DEF StartOf
      <4>2. QED
        BY <2>7, <3>3, <4>1
    <3>4. QED
      BY <3>1, <3>2, <3>3
  <2>9. v = t
    BY DEF s, t
  <2>10. QED
    BY <2>3, <2>5, <2>8, <2>9, Zenon
<1> HIDE DEF u, v, w, x, z
<1>8. y \in Seq(Steps) /\ \A i \in 1 .. Len(y) : y[i] \in SchedulingSteps
  <2>1. y \in Seq(SchedulingSteps)
    BY SchedulesOnly
  <2>2. SchedulingSteps \subseteq Steps
    BY DEF SchedulingSteps, Steps
  <2>3. QED
    BY <2>1, <2>2
<1> HIDE DEF y
<1>9. /\ a \in Seq(Steps) /\ Len(a) = Len(Removals) + Len(u)
      /\ \A k \in 1 .. Len(Removals) : a[k] = Removals[k]
      /\ \A k \in 1 .. Len(u) : a[Len(Removals) + k] = u[k]
  <2>1. Removals \in Seq(Steps) /\ u \in Seq(Steps)
    BY RemovalPlan, <1>3
  <2>2. QED
    BY <2>1, ConcatElements
<1> HIDE DEF a
<1>10. /\ b \in Seq(Steps) /\ Len(b) = Len(a) + Len(v)
       /\ \A k \in 1 .. Len(a) : b[k] = a[k]
       /\ \A k \in 1 .. Len(v) : b[Len(a) + k] = v[k]
  <2>1. a \in Seq(Steps) /\ v \in Seq(Steps)
    BY <1>9, <1>7
  <2>2. QED
    BY <2>1, ConcatElements
<1> HIDE DEF b
<1>11. /\ d \in Seq(Steps) /\ Len(d) = Len(b) + Len(w)
       /\ \A k \in 1 .. Len(b) : d[k] = b[k]
       /\ \A k \in 1 .. Len(w) : d[Len(b) + k] = w[k]
  <2>1. b \in Seq(Steps) /\ w \in Seq(Steps)
    BY <1>10, <1>6
  <2>2. QED
    BY <2>1, ConcatElements
<1> HIDE DEF d
<1>12. /\ e \in Seq(Steps) /\ Len(e) = Len(d) + Len(x)
       /\ \A k \in 1 .. Len(d) : e[k] = d[k]
       /\ \A k \in 1 .. Len(x) : e[Len(d) + k] = x[k]
  <2>1. d \in Seq(Steps) /\ x \in Seq(Steps)
    BY <1>11, <1>4
  <2>2. QED
    BY <2>1, ConcatElements
<1> HIDE DEF e
<1>13. /\ f \in Seq(Steps) /\ Len(f) = Len(e) + Len(y)
       /\ \A k \in 1 .. Len(e) : f[k] = e[k]
       /\ \A k \in 1 .. Len(y) : f[Len(e) + k] = y[k]
  <2>1. e \in Seq(Steps) /\ y \in Seq(Steps)
    BY <1>12, <1>8
  <2>2. QED
    BY <2>1, ConcatElements
<1> HIDE DEF f
<1>14. /\ g \in Seq(Steps) /\ Len(g) = Len(f) + Len(z)
       /\ \A k \in 1 .. Len(f) : g[k] = f[k]
       /\ \A k \in 1 .. Len(z) : g[Len(f) + k] = z[k]
  <2>1. f \in Seq(Steps) /\ z \in Seq(Steps)
    BY <1>13, <1>5
  <2>2. QED
    BY <2>1, ConcatElements
<1> HIDE DEF g
<1>15. Len(Removals) = 14
  BY RemovalPlan
<1>16. Len(y) \in Nat
  BY <1>8
<1>17. /\ Len(a) = 16 /\ Len(b) = 16 + Len(v) /\ Len(d) = Len(b) + Len(w)
       /\ Len(e) = Len(d) + 2 /\ Len(f) = Len(e) + Len(y) /\ Len(g) = Len(f) + 1
  BY <1>3, <1>4, <1>5, <1>9, <1>10, <1>11, <1>12, <1>13, <1>14, <1>15
<1>18. Len(v) \in Nat /\ Len(w) \in {0, 1} /\ Len(b) \in Nat /\ Len(d) \in Nat
  BY <1>6, <1>7, <1>17
<1>19. /\ FinishAt(c) = Len(d) + 1 /\ FinishAt(c) \in Nat
       /\ Uses[c] = Modules => FinishAt(c) - 1 = Len(b) + 1 /\ Len(w) = 1
  <2>1. CASE Uses[c] = Modules
    <3>1. 0 \in Uses[c] /\ 1 \in Uses[c]
      BY <2>1 DEF Modules
    <3>2. FinishAt(c) = 36 /\ Len(v) = 18 /\ Len(w) = 1
      BY <1>6, <1>7, <2>1, <3>1 DEF FinishAt
    <3>3. QED
      BY <1>17, <3>2
  <2>2. CASE Uses[c] # Modules
    BY <1>6, <1>7, <1>17, <1>18, <2>2 DEF FinishAt
  <2>3. QED
    BY <2>1, <2>2
(* The parts stay where they are when others are appended.                 *)
<1>20. \A i \in 1 .. Len(e) : g[i] = e[i]
  BY <1>13, <1>14, <1>16, <1>17, <1>18
<1>21. \A i \in 1 .. Len(d) : g[i] = d[i]
  BY <1>12, <1>17, <1>18, <1>20
<1>22. \A i \in 1 .. Len(b) : g[i] = b[i]
  BY <1>11, <1>17, <1>18, <1>21
<1>23. \A i \in 1 .. 16 : g[i] = a[i]
  <2>1. TAKE i \in 1 .. 16
  <2>2. i \in 1 .. Len(a) /\ i \in 1 .. Len(b)
    BY <1>17, <1>18
  <2>3. g[i] = b[i]
    BY <1>22, <2>2
  <2>4. b[i] = a[i]
    BY <1>10, <2>2
  <2>5. QED
    BY <2>3, <2>4
<1>24. \A i \in 1 .. 14 : g[i] = Removals[i]
  BY <1>9, <1>15, <1>23
<1>25. g[15] = Write(<<"desc">>) /\ g[16] = Write(<<"alias">>)
  <2>1. a[14 + 1] = u[1] /\ a[14 + 2] = u[2]
    BY <1>3, <1>9, <1>15
  <2>2. g[15] = a[15] /\ g[16] = a[16]
    BY <1>23
  <2>3. QED
    BY <1>3, <2>1, <2>2
<1>26. ASSUME NEW m \in Uses[c]
       PROVE  /\ \A i \in 1 .. 8 : g[StartOf(c, m) + i] = Write(<<ModuleTables[i], m>>)
              /\ g[StartOf(c, m) + 9] = Module("enable", m)
  <2>1. StartOf(c, m) - 16 \in Nat /\ StartOf(c, m) - 16 + 9 <= Len(v)
    BY <1>7, UsesAssumption DEF StartOf, Modules
  <2>2. ASSUME NEW i \in 1 .. 9 PROVE g[StartOf(c, m) + i] = v[StartOf(c, m) - 16 + i]
    <3> DEFINE j == StartOf(c, m) - 16 + i
    <3>1. StartOf(c, m) \in Nat
      BY DEF StartOf
    <3>2. j \in 1 .. Len(v) /\ StartOf(c, m) + i = 16 + j
      <4> DEFINE n == StartOf(c, m) - 16
      <4>1. n \in Nat /\ n + 9 <= Len(v) /\ j = n + i
        BY <2>1
      <4>2. StartOf(c, m) = 16 + n
        BY <3>1
      <4>3. Len(v) \in Nat
        BY <1>18
      <4> HIDE DEF n, j
      <4>4. QED
        BY <4>1, <4>2, <4>3
    <3> HIDE DEF j
    <3>3. 16 + j \in 1 .. Len(b)
      BY <1>17, <1>18, <3>2
    <3>4. b[Len(a) + j] = v[j]
      BY <1>10, <3>2, Zenon
    <3>5. g[16 + j] = b[16 + j]
      BY <1>22, <3>3
    <3>6. Len(a) + j = 16 + j
      BY <1>17
    <3>7. QED
      BY <3>2, <3>4, <3>5, <3>6 DEF j
  <2>3. 9 \in 1 .. 9 /\ \A i \in 1 .. 8 : i \in 1 .. 9
    OBVIOUS
  <2>4. QED
    BY <1>7, <2>2, <2>3, Zenon
<1>27. Uses[c] = Modules => g[FinishAt(c) - 1] = Write(<<"base">>)
  <2>1. SUFFICES ASSUME Uses[c] = Modules PROVE g[FinishAt(c) - 1] = Write(<<"base">>)
    OBVIOUS
  <2>2. Len(w) = 1 /\ w[1] = Write(<<"base">>) /\ FinishAt(c) - 1 = Len(b) + 1
    BY <1>6, <1>19, <2>1
  <2>3. d[Len(b) + 1] = w[1]
    <3>1. 1 \in 1 .. Len(w)
      BY <2>2
    <3>2. QED
      BY <1>11, <3>1, Zenon
  <2>4. Len(b) + 1 \in 1 .. Len(d)
    BY <1>17, <1>18, <2>2
  <2>5. QED
    BY <1>21, <2>2, <2>3, <2>4
<1>28. g[FinishAt(c)] = Do("identify") /\ g[FinishAt(c) + 1] = Do("end")
  <2>1. e[Len(d) + 1] = x[1] /\ e[Len(d) + 2] = x[2]
    <3>1. 1 \in 1 .. Len(x) /\ 2 \in 1 .. Len(x)
      BY <1>4
    <3>2. QED
      BY <1>12, <3>1, Zenon
  <2>2. g[Len(d) + 1] = e[Len(d) + 1] /\ g[Len(d) + 2] = e[Len(d) + 2]
    <3>1. Len(d) + 1 \in 1 .. Len(e) /\ Len(d) + 2 \in 1 .. Len(e)
      BY <1>17, <1>18
    <3>2. QED
      BY <1>20, <3>1
  <2>3. QED
    BY <1>4, <1>18, <1>19, <2>1, <2>2
<1>29. g[Len(g)] = Do("identify") /\ Len(g) > FinishAt(c) + 1
  BY <1>5, <1>14, <1>16, <1>17, <1>18, <1>19
<1>30. ASSUME NEW i \in FinishAt(c) + 2 .. Len(g)
       PROVE  g[i] \in SchedulingSteps \cup {Do("identify")}
  <2>1. CASE i = Len(g)
    BY <1>29, <2>1
  <2>2. CASE i # Len(g)
    <3> DEFINE j == i - Len(e)
    <3>1. j \in 1 .. Len(y) /\ i = Len(e) + j /\ i \in 1 .. Len(f)
      <4>1. Len(e) = Len(d) + 2 /\ Len(f) = Len(e) + Len(y) /\ Len(g) = Len(f) + 1
        BY <1>17
      <4>2. i \in Nat /\ i >= Len(d) + 3 /\ i <= Len(g)
        BY <1>18, <1>19
      <4>3. QED
        BY <1>16, <1>18, <2>2, <4>1, <4>2
    <3> HIDE DEF j
    <3>2. g[i] = f[i]
      BY <1>14, <3>1
    <3>3. f[Len(e) + j] = y[j]
      BY <1>13, <3>1, Zenon
    <3>4. QED
      BY <1>8, <3>1, <3>2, <3>3
  <2>3. QED
    BY <2>1, <2>2
<1>31. QED
  BY <1>1, <1>14, <1>24, <1>25, <1>26, <1>27, <1>28, <1>29, <1>30, Zenon

(* Between the removals and the identifier there are the tables and the    *)
(* steps of the modules, and nothing else.                                 *)
LEMMA ConfigRange ==
  ASSUME NEW c \in Configs
  PROVE  /\ FinishAt(c) \in Nat /\ FinishAt(c) > 16
         /\ \A m \in Uses[c] : /\ StartOf(c, m) \in Nat /\ StartOf(c, m) >= 16
                               /\ StartOf(c, m) + 9 < FinishAt(c)
         /\ \A i \in 15 .. FinishAt(c) - 1 :
              \/ i = 15 \/ i = 16
              \/ \E m \in Uses[c] : \E k \in 1 .. 9 : i = StartOf(c, m) + k
              \/ Uses[c] = Modules /\ i = FinishAt(c) - 1
<1>1. Uses[c] \subseteq {0, 1} /\ Modules = {0, 1}
  BY UsesAssumption DEF Modules
<1>2. CASE 0 \in Uses[c] /\ 1 \in Uses[c]
  <2>1. Uses[c] = Modules
    BY <1>1, <1>2
  <2>2. FinishAt(c) = 36 /\ StartOf(c, 0) = 16 /\ StartOf(c, 1) = 25
    BY <1>2, <2>1 DEF FinishAt, StartOf
  <2>3. ASSUME NEW i \in 15 .. 35
        PROVE  \/ i = 15 \/ i = 16 \/ i = 35
               \/ \E k \in 1 .. 9 : i = 16 + k
               \/ \E k \in 1 .. 9 : i = 25 + k
    <3>1. CASE i \in 17 .. 25
      <4>1. i - 16 \in 1 .. 9 /\ i = 16 + (i - 16)
        BY <3>1
      <4>2. QED
        BY <4>1
    <3>2. CASE i \in 26 .. 34
      <4>1. i - 25 \in 1 .. 9 /\ i = 25 + (i - 25)
        BY <3>2
      <4>2. QED
        BY <4>1
    <3>3. QED
      BY <3>1, <3>2
  <2>4. QED
    BY <1>1, <1>2, <2>1, <2>2, <2>3
<1>3. CASE ~(0 \in Uses[c] /\ 1 \in Uses[c])
  <2>1. Uses[c] # Modules
    BY <1>1, <1>3
  <2>2. CASE Uses[c] = {}
    BY <1>1, <2>1, <2>2 DEF FinishAt
  <2>3. CASE Uses[c] # {}
    <3>1. PICK m \in Modules : Uses[c] = {m}
      BY <1>1, <1>3, <2>3
    <3>2. FinishAt(c) = 26 /\ StartOf(c, m) = 16
      BY <1>1, <2>1, <3>1 DEF FinishAt, StartOf
    <3>3. ASSUME NEW i \in 15 .. 25
          PROVE  i = 15 \/ i = 16 \/ \E k \in 1 .. 9 : i = 16 + k
      <4>1. CASE i \in 17 .. 25
        <5>1. i - 16 \in 1 .. 9 /\ i = 16 + (i - 16)
          BY <4>1
        <5>2. QED
          BY <5>1
      <4>2. QED
        BY <4>1
    <3>4. QED
      BY <3>1, <3>2, <3>3
  <2>4. QED
    BY <2>2, <2>3
<1>4. QED
  BY <1>2, <1>3

(* The tables of different modules are different, and none of them is one  *)
(* of the tables there is one of.                                          *)
LEMMA TablesApart ==
  /\ \A m, n : \A t \in TablesOf(m) : t \in TablesOf(n) => m = n
  /\ \A m : \A t \in TablesOf(m) : t # <<"desc">> /\ t # <<"alias">> /\ t # <<"base">>
  /\ \A m : \A t \in TablesOf(m) : t[2] = m /\ t[1] \in Names
  /\ \A m \in Modules : TablesOf(m) \subseteq Tables /\ <<"const", m>> \in TablesOf(m)
  /\ <<"desc">> \in Tables /\ <<"alias">> \in Tables /\ <<"base">> \in Tables
<1>1. \A m : TablesOf(m) = {<<n, m>> : n \in Names}
  BY NamesOfTables
<1>2. \A m : \A t \in TablesOf(m) : \E n \in Names : t = <<n, m>>
  BY <1>1
<1>3. "const" \in Names
  BY DEF Names
<1>4. QED
  BY <1>1, <1>2, <1>3, AllTables

(* A step that enables a module is the last of the module.                 *)
LEMMA EnableIsLast ==
  ASSUME NEW c \in Configs, NEW i \in 15 .. FinishAt(c) - 1, NEW m,
         ApplyConfig(c)[i] = Module("enable", m)
  PROVE  m \in Uses[c] /\ i = StartOf(c, m) + 9
<1>1. ApplyConfig(c)[i].do = "enable"
  BY StepFields
<1>2. \A t : ApplyConfig(c)[i] # Write(t)
  BY <1>1, StepFields
<1>3. PICK n \in Uses[c], k \in 1 .. 9 : i = StartOf(c, n) + k
  BY <1>2, ConfigRange, ConfigPlan
<1>4. k = 9
  <2>1. k \in 1 .. 8 => ApplyConfig(c)[i] = Write(<<ModuleTables[k], n>>)
    BY <1>3, ConfigPlan
  <2>2. QED
    BY <1>2, <1>3, <2>1
<1>5. ApplyConfig(c)[i] = Module("enable", n)
  BY <1>3, <1>4, ConfigPlan
<1>6. m = n
  BY <1>5, StepFields
<1>7. QED
  BY <1>3, <1>4, <1>6

(* A module is enabled once, when all its tables are written, and is not   *)
(* written after that.                                                     *)
LEMMA EnabledAfterTables ==
  ASSUME NEW c \in Configs, NEW i \in 15 .. FinishAt(c) - 1
  PROVE  \/ \E t \in Tables :
              /\ ApplyConfig(c)[i] = Write(t)
              /\ \/ t \in {<<"desc">>, <<"alias">>, <<"base">>}
                 \/ \E m \in Uses[c] :
                      /\ t \in TablesOf(m)
                      /\ \A j \in 15 .. i - 1 : ApplyConfig(c)[j] # Module("enable", m)
         \/ \E m \in Uses[c] :
              /\ ApplyConfig(c)[i] = Module("enable", m)
              /\ \A t \in TablesOf(m) : \E j \in 15 .. i - 1 : ApplyConfig(c)[j] = Write(t)
              /\ \A j \in 15 .. i - 1 : ApplyConfig(c)[j] # Module("enable", m)
<1>1. CASE i = 15 \/ i = 16 \/ (Uses[c] = Modules /\ i = FinishAt(c) - 1)
  BY <1>1, ConfigPlan, TablesApart
<1>2. CASE \E m \in Uses[c] : \E k \in 1 .. 9 : i = StartOf(c, m) + k
  <2>1. PICK m \in Uses[c], k \in 1 .. 9 : i = StartOf(c, m) + k
    BY <1>2
  <2>2. /\ StartOf(c, m) \in Nat /\ StartOf(c, m) >= 16 /\ StartOf(c, m) + 9 < FinishAt(c)
        /\ FinishAt(c) \in Nat
    BY ConfigRange
  <2>3. ASSUME NEW j \in 15 .. i - 1 PROVE ApplyConfig(c)[j] # Module("enable", m)
    <3>1. j \in 15 .. FinishAt(c) - 1 /\ j # StartOf(c, m) + 9
      BY <2>1, <2>2
    <3>2. QED
      BY <3>1, EnableIsLast
  <2>4. m \in Modules
    BY UsesAssumption
  <2>5. CASE k \in 1 .. 8
    <3>1. ApplyConfig(c)[i] = Write(<<ModuleTables[k], m>>)
      BY <2>1, <2>5, ConfigPlan
    <3>2. <<ModuleTables[k], m>> \in TablesOf(m)
      BY <2>5, NamesOfTables
    <3>3. <<ModuleTables[k], m>> \in Tables
      BY <2>4, <3>2, TablesApart
    <3>4. QED
      BY <2>3, <3>1, <3>2, <3>3
  <2>6. CASE k = 9
    <3>1. ApplyConfig(c)[i] = Module("enable", m)
      BY <2>1, <2>6, ConfigPlan
    <3>2. ASSUME NEW t \in TablesOf(m)
          PROVE  \E j \in 15 .. i - 1 : ApplyConfig(c)[j] = Write(t)
      <4>1. PICK n \in Names : t = <<n, m>>
        BY NamesOfTables
      <4>2. PICK l \in 1 .. 8 : ModuleTables[l] = n
        BY NamesOfTables
      <4>3. StartOf(c, m) + l \in 15 .. i - 1
        BY <2>1, <2>2, <2>6
      <4>4. ApplyConfig(c)[StartOf(c, m) + l] = Write(<<ModuleTables[l], m>>)
        BY ConfigPlan
      <4>5. QED
        BY <4>1, <4>2, <4>3, <4>4
    <3>3. QED
      BY <2>3, <3>1, <3>2
  <2>7. QED
    BY <2>5, <2>6
<1>3. QED
  BY <1>1, <1>2, ConfigRange

(* Every table of the configuration is written.                            *)
LEMMA AllTablesPlanned ==
  ASSUME NEW c \in Configs, NEW t \in TablesUsed(c)
  PROVE  t \in Tables /\ \E j \in 15 .. FinishAt(c) - 1 : ApplyConfig(c)[j] = Write(t)
<1>1. CASE t = <<"desc">> \/ t = <<"alias">>
  <2>1. 15 \in 15 .. FinishAt(c) - 1 /\ 16 \in 15 .. FinishAt(c) - 1
    BY ConfigRange
  <2>2. ApplyConfig(c)[15] = Write(<<"desc">>) /\ ApplyConfig(c)[16] = Write(<<"alias">>)
    BY ConfigPlan
  <2>3. QED
    BY <1>1, <2>1, <2>2, TablesApart
<1>2. CASE \E m \in Uses[c] : t \in TablesOf(m)
  <2>1. PICK m \in Uses[c] : t \in TablesOf(m)
    BY <1>2
  <2>2. PICK n \in Names : t = <<n, m>>
    BY <2>1, NamesOfTables
  <2>3. PICK l \in 1 .. 8 : ModuleTables[l] = n
    BY NamesOfTables
  <2>4. StartOf(c, m) + l \in 15 .. FinishAt(c) - 1
    BY ConfigRange
  <2>5. ApplyConfig(c)[StartOf(c, m) + l] = Write(<<ModuleTables[l], m>>)
    BY ConfigPlan
  <2>6. m \in Modules
    BY UsesAssumption
  <2>7. QED
    BY <2>1, <2>2, <2>3, <2>4, <2>5, <2>6, TablesApart
<1>3. QED
  BY <1>1, <1>2 DEF TablesUsed

-----------------------------------------------------------------------------
(* Where a call is in its plan.                                            *)

(* The first step to do is the one at Pos.                                 *)
LEMMA AtPos ==
  ASSUME TypeOK, OnPlan, Busy
  PROVE  /\ kind \in {"config", "schedule", "disable"}
         /\ kind # "disable" => config \in Configs
         /\ Plan \in Seq(Steps)
         /\ Pos \in 1 .. Len(Plan)
         /\ Head(todo) = Plan[Pos]
         /\ Len(todo) \in Nat \ {0}
         /\ Len(todo) = 1 <=> Pos = Len(Plan)
<1>1. kind \in {"config", "schedule", "disable"} /\ (kind # "disable" => config \in Configs)
  BY DEF TypeOK, OnPlan
<1>2. Plan \in Seq(Steps)
  BY <1>1, ConfigPlan, SchedulePlan, DisablePlan DEF Plan
<1>3. Len(todo) \in Nat \ {0} /\ Len(todo) <= Len(Plan) /\ Len(Plan) \in Nat
  BY <1>2 DEF OnPlan, Busy
<1>4. Pos \in 1 .. Len(Plan) /\ (Len(todo) = 1 <=> Pos = Len(Plan))
  BY <1>3 DEF Pos
<1>5. Head(todo) = todo[1]
  BY DEF OnPlan, Busy
<1>6. todo[1] = Plan[Pos - 1 + 1]
  BY <1>3 DEF OnPlan
<1>7. Pos - 1 + 1 = Pos
  BY <1>4
<1>8. QED
  BY <1>1, <1>2, <1>3, <1>4, <1>5, <1>6, <1>7

(* The next step is at the next position.                                  *)
LEMMA NextPos ==
  ASSUME TypeOK, OnPlan, Busy, Done
  PROVE  /\ Plan' = Plan /\ kind' = kind /\ config' = config
         /\ Busy' <=> Pos # Len(Plan)
         /\ Busy' => Pos' = Pos + 1
         /\ result' = IF Pos = Len(Plan) THEN "ok" ELSE "none"
         /\ OnPlan'
<1>1. /\ todo' = Tail(todo) /\ kind' = kind /\ config' = config /\ result = "none"
      /\ result' = IF Len(todo) = 1 THEN "ok" ELSE result
  BY DEF Done, OnPlan
<1>2. Plan' = Plan
  BY <1>1 DEF Plan
<1>3. todo' \in Seq(Steps) /\ Len(todo') = Len(todo) - 1 /\ \A i \in 1 .. Len(todo') : todo'[i] = todo[i + 1]
  BY <1>1, HeadTailProperties DEF OnPlan, Busy
<1>4. Len(todo) \in Nat \ {0} /\ Len(Plan) \in Nat /\ Len(todo) <= Len(Plan)
  BY AtPos DEF OnPlan
<1>5. Busy' <=> Len(todo') # 0
  BY <1>3, EmptySeq DEF Busy
<1>6. Busy' <=> Pos # Len(Plan)
  BY <1>3, <1>4, <1>5, AtPos
<1>7. Pos' = Pos + 1
  BY <1>2, <1>3, <1>4 DEF Pos
<1>8. result' = IF Pos = Len(Plan) THEN "ok" ELSE "none"
  BY <1>1, AtPos
<1>9. ASSUME Busy'
      PROVE  /\ kind' # "none" /\ (kind' # "disable" => config' \in Configs) /\ result' = "none"
             /\ Len(todo') <= Len(Plan')
             /\ \A i \in 1 .. Len(todo') : todo'[i] = Plan'[Pos' - 1 + i]
  <2>1. ASSUME NEW i \in 1 .. Len(todo') PROVE todo'[i] = Plan[Pos' - 1 + i]
    <3>1. i + 1 \in 1 .. Len(todo) /\ Pos \in Nat
      BY <1>3, <1>4, AtPos
    <3>2. todo[i + 1] = Plan[Pos - 1 + (i + 1)]
      BY <3>1 DEF OnPlan
    <3>3. Pos - 1 + (i + 1) = Pos' - 1 + i
      BY <1>7, <3>1
    <3>4. QED
      BY <1>3, <3>2, <3>3
  <2>2. QED
    BY <1>1, <1>2, <1>3, <1>4, <1>6, <1>8, <1>9, <2>1, AtPos
<1>10. QED
  BY <1>1, <1>2, <1>3, <1>6, <1>7, <1>8, <1>9 DEF OnPlan

(* A call that has failed has nothing to do.                               *)
LEMMA NothingToDo ==
  ASSUME Failed
  PROVE  ~Busy' /\ OnPlan' /\ ~Configuring' /\ ~Disabling'
BY EmptySeq DEF Failed, Busy, OnPlan, Configuring, Disabling

(* What the steps of a plan do, by position.                               *)
LEMMA StepAt ==
  ASSUME TypeOK, OnPlan, Busy
  PROVE  /\ kind = "config" =>
              /\ Pos = 1 => Head(todo).do = "validate"
              /\ Pos \in {2, 9} => Head(todo).do = "schedulers_off"
              /\ Pos \in {3, 10} => Head(todo).do = "modules_off"
              /\ Pos \in {4, 11} => Head(todo).do = "reset"
              /\ Pos \in {5, 12} => Head(todo).do = "devices_off"
              /\ Pos \in {6, 13} => Head(todo).do = "cleanup"
              /\ Pos = 7 => Head(todo).do = "set_init"
              /\ Pos = 8 => Head(todo).do = "lock"
              /\ Pos = 14 => Head(todo).do = "unlock_init"
              /\ Pos \in 15 .. FinishAt(config) - 1 => Head(todo).do \in {"write", "enable"}
              /\ Pos = FinishAt(config) => Head(todo).do = "identify"
              /\ Pos = FinishAt(config) + 1 => Head(todo).do = "end"
              /\ Pos > FinishAt(config) + 1 => Head(todo).do \in {"schedule", "emergency", "identify"}
              /\ FinishAt(config) \in Nat /\ FinishAt(config) > 16
         /\ kind = "schedule" =>
              /\ Pos = 1 => Head(todo).do = "check_id"
              /\ Pos = 2 => Head(todo).do = "validate"
              /\ Pos > 2 => Head(todo).do \in {"schedule", "emergency", "identify"}
         /\ kind = "disable" =>
              /\ Pos = 1 => Head(todo).do = "schedulers_off"
              /\ Pos = 2 => Head(todo).do = "modules_off"
              /\ Pos = 3 => Head(todo).do = "reset"
              /\ Pos = 4 => Head(todo).do = "devices_off"
              /\ Pos = 5 => Head(todo).do = "cleanup"
              /\ Pos = 6 => Head(todo).do = "set_init"
              /\ Pos \in 1 .. 6
<1>1. \A s \in SchedulingSteps \cup {Do("identify")} : s.do \in {"schedule", "emergency", "identify"}
  BY StepFields DEF SchedulingSteps
<1>2. CASE kind = "config"
  <2>1. config \in Configs /\ Plan = ApplyConfig(config)
    BY <1>2, AtPos DEF Plan
  <2>2. Pos \in 1 .. Len(ApplyConfig(config)) /\ Head(todo) = ApplyConfig(config)[Pos]
    BY <2>1, AtPos
  <2>3. FinishAt(config) \in Nat /\ FinishAt(config) > 16
    BY <2>1, ConfigRange
  <2>4. Pos \in 1 .. 14 => Head(todo) = Removals[Pos]
    BY <2>1, <2>2, ConfigPlan
  <2>5. /\ Pos = 1 => Head(todo).do = "validate"
        /\ Pos \in {2, 9} => Head(todo).do = "schedulers_off"
        /\ Pos \in {3, 10} => Head(todo).do = "modules_off"
        /\ Pos \in {4, 11} => Head(todo).do = "reset"
        /\ Pos \in {5, 12} => Head(todo).do = "devices_off"
        /\ Pos \in {6, 13} => Head(todo).do = "cleanup"
        /\ Pos = 7 => Head(todo).do = "set_init"
        /\ Pos = 8 => Head(todo).do = "lock"
        /\ Pos = 14 => Head(todo).do = "unlock_init"
    BY <2>4, RemovalPlan, StepFields
  <2>6. Pos \in 15 .. FinishAt(config) - 1 => Head(todo).do \in {"write", "enable"}
    BY <2>1, <2>2, EnabledAfterTables, StepFields
  <2>7. /\ Pos = FinishAt(config) => Head(todo).do = "identify"
        /\ Pos = FinishAt(config) + 1 => Head(todo).do = "end"
    <3>1. /\ ApplyConfig(config)[FinishAt(config)] = Do("identify")
          /\ ApplyConfig(config)[FinishAt(config) + 1] = Do("end")
      BY <2>1, ConfigPlan
    <3>2. /\ Pos = FinishAt(config) => Head(todo) = Do("identify")
          /\ Pos = FinishAt(config) + 1 => Head(todo) = Do("end")
      BY <2>2, <3>1
    <3>3. QED
      BY <3>2, StepFields
  <2>8. Pos > FinishAt(config) + 1 => Head(todo).do \in {"schedule", "emergency", "identify"}
    <3>1. Pos > FinishAt(config) + 1 => Pos \in FinishAt(config) + 2 .. Len(ApplyConfig(config))
      BY <2>2, <2>3
    <3>2. QED
      BY <1>1, <2>1, <2>2, <3>1, ConfigPlan
  <2>9. QED
    BY <1>2, <2>3, <2>5, <2>6, <2>7, <2>8, Zenon
<1>3. CASE kind = "schedule"
  <2>1. Plan = ApplyNewSchedule(config)
    BY <1>3 DEF Plan
  <2>2. Pos > 2 => Pos \in 3 .. Len(ApplyNewSchedule(config))
    BY <2>1, AtPos
  <2>3. QED
    BY <1>1, <1>3, <2>1, <2>2, AtPos, SchedulePlan, StepFields
<1>4. CASE kind = "disable"
  <2>1. Plan = ClearSteps
    BY <1>4 DEF Plan
  <2>2. QED
    BY <1>4, <2>1, AtPos, DisablePlan, StepFields
<1>5. QED
  BY <1>2, <1>3, <1>4, AtPos

(* Where a step that is to do stands.                                      *)
LEMMA PosOf ==
  ASSUME TypeOK, OnPlan
  PROVE  /\ AtStep("validate") => (kind = "config" /\ Pos = 1) \/ (kind = "schedule" /\ Pos = 2)
         /\ AtStep("check_id") => kind = "schedule" /\ Pos = 1
         /\ AtStep("schedulers_off") => (kind = "config" /\ Pos \in {2, 9}) \/ (kind = "disable" /\ Pos = 1)
         /\ AtStep("modules_off") => (kind = "config" /\ Pos \in {3, 10}) \/ (kind = "disable" /\ Pos = 2)
         /\ AtStep("reset") => (kind = "config" /\ Pos \in {4, 11}) \/ (kind = "disable" /\ Pos = 3)
         /\ AtStep("devices_off") => (kind = "config" /\ Pos \in {5, 12}) \/ (kind = "disable" /\ Pos = 4)
         /\ AtStep("cleanup") => (kind = "config" /\ Pos \in {6, 13}) \/ (kind = "disable" /\ Pos = 5)
         /\ AtStep("set_init") => (kind = "config" /\ Pos = 7) \/ (kind = "disable" /\ Pos = 6)
         /\ AtStep("lock") => kind = "config" /\ Pos = 8
         /\ AtStep("unlock_init") => kind = "config" /\ Pos = 14
         /\ AtStep("write") \/ AtStep("enable") => kind = "config" /\ Pos \in 15 .. FinishAt(config) - 1
         /\ AtStep("identify") =>
              \/ kind = "config" /\ (Pos = FinishAt(config) \/ Pos > FinishAt(config) + 1)
              \/ kind = "schedule" /\ Pos > 2
         /\ AtStep("end") => kind = "config" /\ Pos = FinishAt(config) + 1
         /\ AtStep("schedule") \/ AtStep("emergency") =>
              (kind = "config" /\ Pos > FinishAt(config) + 1) \/ (kind = "schedule" /\ Pos > 2)
<1>1. CASE ~Busy
  BY <1>1 DEF AtStep
<1>2. CASE Busy /\ kind = "config"
  <2> DEFINE what == Head(todo).do
             f == FinishAt(config)
  <2>1. /\ Pos = 1 => what = "validate"
        /\ Pos \in {2, 9} => what = "schedulers_off"
        /\ Pos \in {3, 10} => what = "modules_off"
        /\ Pos \in {4, 11} => what = "reset"
        /\ Pos \in {5, 12} => what = "devices_off"
        /\ Pos \in {6, 13} => what = "cleanup"
        /\ Pos = 7 => what = "set_init"
        /\ Pos = 8 => what = "lock"
        /\ Pos = 14 => what = "unlock_init"
        /\ Pos \in 15 .. f - 1 => what \in {"write", "enable"}
        /\ Pos = f => what = "identify"
        /\ Pos = f + 1 => what = "end"
        /\ Pos > f + 1 => what \in {"schedule", "emergency", "identify"}
        /\ f \in Nat /\ f > 16
    BY <1>2, StepAt
  <2>2. Pos \in Nat /\ Pos >= 1
    <3>1. Pos \in 1 .. Len(Plan)
      BY <1>2, AtPos
    <3>2. QED
      BY <3>1
  <2> HIDE DEF what, f
  <2>3. \/ Pos = 1 \/ Pos = 2 \/ Pos = 3 \/ Pos = 4 \/ Pos = 5 \/ Pos = 6 \/ Pos = 7 \/ Pos = 8
        \/ Pos = 9 \/ Pos = 10 \/ Pos = 11 \/ Pos = 12 \/ Pos = 13 \/ Pos = 14
        \/ Pos \in 15 .. f - 1 \/ Pos = f \/ Pos = f + 1 \/ Pos > f + 1
    BY <2>1, <2>2
  <2>4. /\ what = "validate" => Pos = 1
        /\ what # "check_id"
        /\ what = "schedulers_off" => Pos \in {2, 9}
        /\ what = "modules_off" => Pos \in {3, 10}
        /\ what = "reset" => Pos \in {4, 11}
        /\ what = "devices_off" => Pos \in {5, 12}
        /\ what = "cleanup" => Pos \in {6, 13}
        /\ what = "set_init" => Pos = 7
        /\ what = "lock" => Pos = 8
        /\ what = "unlock_init" => Pos = 14
        /\ what = "write" \/ what = "enable" => Pos \in 15 .. f - 1
        /\ what = "identify" => Pos = f \/ Pos > f + 1
        /\ what = "end" => Pos = f + 1
        /\ what = "schedule" \/ what = "emergency" => Pos > f + 1
    BY <2>1, <2>3
  <2>5. \A w : AtStep(w) <=> what = w
    BY <1>2 DEF AtStep, what
  <2>6. QED
    BY <1>2, <2>4, <2>5 DEF f
<1>3. CASE Busy /\ kind = "schedule"
  <2>1. Pos \in 1 .. Len(Plan)
    BY <1>3, AtPos
  <2>2. Pos = 1 \/ Pos = 2 \/ Pos > 2
    BY <2>1
  <2>3. QED
    BY <1>3, <2>2, StepAt DEF AtStep
<1>4. CASE Busy /\ kind = "disable"
  <2>1. Pos = 1 \/ Pos = 2 \/ Pos = 3 \/ Pos = 4 \/ Pos = 5 \/ Pos = 6
    BY <1>4, StepAt
  <2>2. QED
    BY <1>4, <2>1, StepAt DEF AtStep
<1>5. QED
  BY <1>1, <1>2, <1>3, <1>4, AtPos

(* The table a write is about is not one of a module that was enabled.     *)
LEMMA WriteAt ==
  ASSUME TypeOK, OnPlan, AtStep("write")
  PROVE  /\ config \in Configs /\ Configuring /\ Pos \in 15 .. FinishAt(config) - 1
         /\ Arg \in Tables /\ Plan[Pos] = Write(Arg)
         /\ \A m \in Modules : Arg \in TablesOf(m) =>
              \A j \in 15 .. Pos - 1 : Plan[j] # Module("enable", m)
<1>1. Busy /\ kind = "config" /\ Pos \in 15 .. FinishAt(config) - 1
  BY PosOf DEF AtStep
<1>2. config \in Configs /\ Plan = ApplyConfig(config) /\ Head(todo) = Plan[Pos]
  BY <1>1, AtPos DEF Plan
<1>3. Plan[Pos].do = "write"
  BY <1>2 DEF AtStep
<1>4. \A m : Plan[Pos] # Module("enable", m)
  BY <1>3, StepFields
<1>5. PICK t \in Tables :
        /\ Plan[Pos] = Write(t)
        /\ \/ t \in {<<"desc">>, <<"alias">>, <<"base">>}
           \/ \E m \in Uses[config] :
                /\ t \in TablesOf(m)
                /\ \A j \in 15 .. Pos - 1 : Plan[j] # Module("enable", m)
  BY <1>1, <1>2, <1>4, EnabledAfterTables
<1>6. Arg = t
  BY <1>2, <1>5, StepFields DEF Arg
<1>7. \A m \in Modules : t \in TablesOf(m) => \A j \in 15 .. Pos - 1 : Plan[j] # Module("enable", m)
  BY <1>5, TablesApart
<1>8. QED
  BY <1>1, <1>2, <1>5, <1>6, <1>7 DEF Configuring

(* A module is enabled for the first time in its call, when all its tables *)
(* were written.                                                           *)
LEMMA EnableAt ==
  ASSUME TypeOK, OnPlan, AtStep("enable")
  PROVE  /\ config \in Configs /\ Configuring /\ Pos \in 15 .. FinishAt(config) - 1
         /\ TheModule \in Uses[config] /\ TheModule \in Modules
         /\ Plan[Pos] = Module("enable", TheModule)
         /\ \A j \in 15 .. Pos - 1 : Plan[j] # Module("enable", TheModule)
         /\ \A t \in TablesOf(TheModule) : \E j \in 15 .. Pos - 1 : Plan[j] = Write(t)
<1>1. Busy /\ kind = "config" /\ Pos \in 15 .. FinishAt(config) - 1
  BY PosOf DEF AtStep
<1>2. config \in Configs /\ Plan = ApplyConfig(config) /\ Head(todo) = Plan[Pos]
  BY <1>1, AtPos DEF Plan
<1>3. Plan[Pos].do = "enable"
  BY <1>2 DEF AtStep
<1>4. \A t : Plan[Pos] # Write(t)
  BY <1>3, StepFields
<1>5. PICK m \in Uses[config] :
        /\ Plan[Pos] = Module("enable", m)
        /\ \A t \in TablesOf(m) : \E j \in 15 .. Pos - 1 : Plan[j] = Write(t)
        /\ \A j \in 15 .. Pos - 1 : Plan[j] # Module("enable", m)
  BY <1>1, <1>2, <1>4, EnabledAfterTables
<1>6. TheModule = m
  BY <1>2, <1>5, StepFields DEF TheModule, Arg
<1>7. m \in Modules
  BY <1>2, UsesAssumption
<1>8. QED
  BY <1>1, <1>2, <1>5, <1>6, <1>7 DEF Configuring

-----------------------------------------------------------------------------
(* What the steps of a call keep, whatever they do.                        *)

(* A configuration is not over before the steps of its schedules.          *)
LEMMA GoesOn ==
  ASSUME TypeOK, OnPlan, Busy, Done
  PROVE  /\ kind = "config" /\ Pos <= FinishAt(config) + 1 => Busy'
         /\ kind = "disable" /\ Pos < 6 => Busy'
<1>1. kind = "config" => Len(Plan) > FinishAt(config) + 1 /\ FinishAt(config) \in Nat
  BY AtPos, ConfigPlan, ConfigRange DEF Plan
<1>2. kind = "disable" => Len(Plan) = 6
  BY DisablePlan DEF Plan
<1>3. Pos \in Nat /\ Len(Plan) \in Nat /\ (Busy' <=> Pos # Len(Plan))
  BY AtPos, NextPos
<1>4. ASSUME kind = "config", Pos <= FinishAt(config) + 1 PROVE Busy'
  <2>1. FinishAt(config) \in Nat /\ Len(Plan) > FinishAt(config) + 1
    BY <1>1, <1>4
  <2>2. QED
    BY <1>3, <1>4, <2>1
<1>5. ASSUME kind = "disable", Pos < 6 PROVE Busy'
  BY <1>2, <1>3, <1>5
<1>6. QED
  BY <1>4, <1>5

(* The lock changes hands in two steps only.                               *)
LEMMA KeepsLock ==
  ASSUME TypeOK, OnPlan, LockHeld, Busy, Done, ~AtStep("lock"), ~AtStep("unlock_init"),
         UNCHANGED <<state_lock, op>>
  PROVE  LockHeld'
<1>1. kind' = kind /\ config' = config /\ Plan' = Plan /\ (Busy' => Pos' = Pos + 1)
  BY NextPos
<1>2. kind = "config" => Pos # 8 /\ Pos # 14
  BY StepAt DEF AtStep
<1>3. kind = "config" /\ Pos \in 8 .. 14 => Busy'
  BY GoesOn, StepAt
<1>4. Pos \in Nat
  BY AtPos
<1>5. (Configuring /\ Pos \in 9 .. 14)' <=> Configuring /\ Pos \in 9 .. 14
  BY <1>1, <1>2, <1>3, <1>4 DEF Configuring
<1>6. QED
  BY <1>5 DEF LockHeld

(* A module that is off remains off until it is enabled.                   *)
LEMMA KeepsOff ==
  ASSUME TypeOK, OnPlan, RemovedIsOff, Busy, Done, ~AtStep("modules_off"), ~AtStep("enable"),
         raced => raced', \A m \in Modules : Off(m) => Off(m)'
  PROVE  RemovedIsOff'
<1>1. /\ kind' = kind /\ config' = config /\ Plan' = Plan /\ (Busy' => Pos' = Pos + 1)
      /\ FinishAt(config)' = FinishAt(config) /\ Pos \in Nat
  BY NextPos, AtPos DEF FinishAt
<1>2. kind = "config" => Pos # 3 /\ Pos # 10
  BY StepAt DEF AtStep
<1>3. kind = "disable" => Pos # 2
  BY StepAt DEF AtStep
<1>4. Configuring' /\ Pos' \in 4 .. 9 => \A m \in Modules : raced' \/ Off(m)'
  BY <1>1, <1>2 DEF Configuring, RemovedIsOff
<1>5. Disabling' /\ Pos' \in 3 .. 6 => \A m \in Modules : raced' \/ Off(m)'
  BY <1>1, <1>3 DEF Disabling, RemovedIsOff
<1>6. ASSUME Configuring', Pos' \in 11 .. FinishAt(config)', NEW m \in Modules,
             \A i \in 15 .. Pos' - 1 : Plan'[i] # Module("enable", m)
      PROVE  Off(m)'
  <2>1. Configuring /\ Pos \in 11 .. FinishAt(config)
    <3>1. kind = "config" => FinishAt(config) \in Nat
      BY StepAt
    <3>2. QED
      BY <1>1, <1>2, <1>6, <3>1 DEF Configuring
  <2>2. \A i \in 15 .. Pos - 1 : Plan[i] # Module("enable", m)
    <3>1. \A i \in 15 .. Pos - 1 : i \in 15 .. Pos' - 1
      BY <1>1, <1>6 DEF Configuring
    <3>2. QED
      BY <1>1, <1>6, <3>1
  <2>3. QED
    BY <1>6, <2>1, <2>2 DEF RemovedIsOff
<1>7. QED
  BY <1>4, <1>5, <1>6 DEF RemovedIsOff

(* What is written remains written, and before the first write there is    *)
(* nothing to keep.                                                        *)
LEMMA KeepsWritten ==
  ASSUME TypeOK, OnPlan, WrittenSoFar, Busy, Done, ~AtStep("write"),
         Configuring /\ Pos > 14 => \A t \in Tables : WrittenBy(t, config) => WrittenBy(t, config)'
  PROVE  WrittenSoFar'
<1>1. kind' = kind /\ config' = config /\ Plan' = Plan /\ (Busy' => Pos' = Pos + 1) /\ Pos \in Nat
  BY NextPos, AtPos
<1>2. SUFFICES ASSUME Configuring', NEW i \in 15 .. Pos, NEW t \in Tables, Plan[i] = Write(t)
               PROVE  WrittenBy(t, config)'
  BY <1>1 DEF WrittenSoFar, Configuring
<1>3. Configuring /\ Pos > 14
  BY <1>1, <1>2 DEF Configuring
<1>4. i # Pos
  BY <1>2, AtPos, StepFields DEF AtStep
<1>5. i \in 15 .. Pos - 1
  BY <1>1, <1>4
<1>6. QED
  BY <1>2, <1>3, <1>5 DEF WrittenSoFar

(* Only the reset and the identifier change what is identified.            *)
LEMMA KeepsUnidentified ==
  ASSUME TypeOK, OnPlan, NothingIdentified, Busy, Done, ~AtStep("reset"),
         UNCHANGED <<has_reset, id>>
  PROVE  NothingIdentified'
<1>1. /\ kind' = kind /\ config' = config /\ Plan' = Plan /\ (Busy' => Pos' = Pos + 1) /\ Pos \in Nat
      /\ FinishAt(config)' = FinishAt(config)
  BY NextPos, AtPos DEF FinishAt
<1>2. /\ kind = "config" => Pos # 4 /\ FinishAt(config) \in Nat
      /\ kind = "disable" => Pos # 3
  BY StepAt DEF AtStep
<1>3. Configuring' /\ Pos' \in 5 .. FinishAt(config) => Configuring /\ Pos \in 5 .. FinishAt(config)
  BY <1>1, <1>2 DEF Configuring
<1>4. Disabling' /\ Pos' \in 4 .. 6 => Disabling /\ Pos \in 4 .. 6
  BY <1>1, <1>2 DEF Disabling
<1>5. QED
  BY <1>1, <1>3, <1>4 DEF NothingIdentified

(* Only a removal ends what is at work.                                    *)
LEMMA KeepsEnded ==
  ASSUME TypeOK, OnPlan, EndedIsActive, Busy, Done, ~AtStep("schedulers_off"),
         status' = status \/ status' = "INIT", UNCHANGED <<enabled, active, op, ended, stopped>>
  PROVE  EndedIsActive'
<1>1. /\ kind' = kind /\ config' = config /\ Plan' = Plan /\ (Busy' => Pos' = Pos + 1) /\ Pos \in Nat
      /\ FinishAt(config)' = FinishAt(config)
  BY NextPos, AtPos DEF FinishAt
<1>2. /\ kind = "config" => Pos # 2 /\ FinishAt(config) \in Nat
      /\ kind = "disable" => Pos # 1
  BY StepAt DEF AtStep
<1>3. Pos \in Nat \ {0}
  BY AtPos
<1>4. ended => /\ Configuring' => Pos' \notin 3 .. FinishAt(config)' + 1
               /\ ~Disabling'
  BY <1>1, <1>2, <1>3 DEF EndedIsActive, Configuring, Disabling
<1>5. QED
  BY <1>4 DEF EndedIsActive

(* The tables of the modules at work are written as long as neither change.*)
LEMMA KeepsWork ==
  ASSUME WorkIsWritten, raced => raced', lost => lost',
         \A m \in Modules : ~Off(m)' =>
            ~Off(m) /\ \A t \in TablesOf(m) :
                         hw'[t] = hw[t] \/ (lost' /\ t[1] = "scatter" /\ hw'[t] = Torn)
  PROVE  WorkIsWritten'
<1>1. SUFFICES ASSUME NEW m \in Modules, ~Off(m)'
               PROVE  (raced' \/ Complete(m)') /\ hw'[<<"const", m>>] # Torn
  BY DEF WorkIsWritten
<1>2. /\ raced \/ Complete(m)
      /\ hw[<<"const", m>>] # Torn
      /\ \A t \in TablesOf(m) : hw'[t] = hw[t] \/ (lost' /\ t[1] = "scatter" /\ hw'[t] = Torn)
  BY <1>1 DEF WorkIsWritten
<1>3. ASSUME NEW t \in TablesOf(m), NEW c, WrittenBy(t, c) PROVE WrittenBy(t, c)'
  BY <1>2, <1>3 DEF WrittenBy
<1>4. Complete(m) => Complete(m)'
  BY <1>3 DEF Complete
<1>5. <<"const", m>> \in TablesOf(m) /\ <<"const", m>>[1] # "scatter"
  BY TablesApart
<1>6. hw'[<<"const", m>>] # Torn
  BY <1>2, <1>5
<1>7. QED
  BY <1>2, <1>4, <1>6

-----------------------------------------------------------------------------
(* The inductive invariant holds initially.                                *)
LEMMA InitIInv ==
  ASSUME Init
  PROVE  IInv
<1>1. todo = <<>> /\ ~Busy
  BY DEF Init, Busy
<1>2. TypeOK
  <2>1. op \in [do : {"idle", "read", "write"}, m : Modules, was : BOOLEAN]
    BY DEF Init, Idle, Modules
  <2>2. stopped \in [modules : SUBSET Modules, valid : BOOLEAN]
    BY DEF Init, NotStopped
  <2>3. hw \in [Tables -> Configs \cup {None, Torn}]
    BY DEF Init
  <2>4. QED
    BY <2>1, <2>2, <2>3 DEF Init, TypeOK, NotIdentified
<1>3. OnPlan
  BY <1>1, EmptySeq DEF OnPlan
<1>4. LockHeld
  BY <1>1 DEF Init, LockHeld, Configuring, Idle
<1>5. RemovedIsOff /\ WrittenSoFar /\ NothingIdentified
  BY <1>1 DEF RemovedIsOff, WrittenSoFar, NothingIdentified, Configuring, Disabling
<1>6. \A m \in Modules : Off(m)
  BY DEF Init, Off, Idle
<1>7. WorkIsWritten
  BY <1>6 DEF WorkIsWritten
<1>8. RestartWritesActive /\ EndedIsActive
  BY DEF Init, RestartWritesActive, EndedIsActive, Idle, NotStopped
<1>9. QED
  BY <1>2, <1>3, <1>4, <1>5, <1>7, <1>8 DEF IInv

(* A call begins at the first step of its plan.                            *)
LEMMA CallKeeps ==
  ASSUME IInv, NEW what, NEW c, NEW steps, Call(what, c, steps),
         \/ what = "config" /\ c \in Configs /\ steps = ApplyConfig(c)
         \/ what = "schedule" /\ c \in Configs /\ steps = ApplyNewSchedule(c)
         \/ what = "disable" /\ c = None /\ steps = ClearSteps
  PROVE  IInv'
<1> USE DEF IInv
<1>1. /\ todo' = steps /\ kind' = what /\ config' = c /\ result' = "none" /\ calls' = calls + 1 /\ ~Busy
      /\ UNCHANGED <<has_reset, status, state_lock, enabled, active, eme_dis, sched_active, hw, id,
                     locked, op, writes, lost, raced, ended, stopped, identified>>
  BY DEF Call, driver, operator, history
<1>2. Plan' = steps
  BY <1>1 DEF Plan
<1>3. steps \in Seq(Steps)
  BY ConfigPlan, SchedulePlan, DisablePlan
<1>4. Len(steps) \in Nat
  BY <1>3
<1>5. Pos' = 1
  BY <1>1, <1>2, <1>4 DEF Pos
<1>6. TypeOK'
  BY <1>1, BoundsAssumption DEF TypeOK
<1>7. OnPlan'
  <2>1. Len(todo') <= Len(Plan') /\ \A i \in 1 .. Len(todo') : todo'[i] = Plan'[Pos' - 1 + i]
    BY <1>1, <1>2, <1>4, <1>5
  <2>2. kind' # "none" /\ (kind' # "disable" => config' \in Configs) /\ result' = "none"
    BY <1>1
  <2>3. QED
    BY <1>1, <1>3, <2>1, <2>2 DEF OnPlan
<1>8. LockHeld'
  BY <1>1, <1>5 DEF LockHeld, Configuring
<1>9. RemovedIsOff' /\ NothingIdentified' /\ WrittenSoFar'
  BY <1>1, <1>5 DEF RemovedIsOff, NothingIdentified, WrittenSoFar
<1>10. WorkIsWritten'
  BY <1>1 DEF WorkIsWritten, Off, Complete, WrittenBy
<1>11. RestartWritesActive'
  BY <1>1 DEF RestartWritesActive
<1>12. EndedIsActive'
  BY <1>1, <1>5 DEF EndedIsActive
<1>13. QED
  BY <1>6, <1>7, <1>8, <1>9, <1>10, <1>11, <1>12

(* A step that touches neither the modules nor their tables.               *)
LEMMA QuietStep ==
  ASSUME IInv, Busy, Done, ~AtStep("modules_off"), ~AtStep("write"), ~AtStep("enable"),
         UNCHANGED <<enabled, active, hw, op, lost, raced>>
  PROVE  OnPlan' /\ RemovedIsOff' /\ WrittenSoFar' /\ WorkIsWritten' /\ RestartWritesActive'
<1> USE DEF IInv
<1>1. \A m \in Modules : Off(m)' = Off(m)
  BY DEF Off
<1>2. config' = config
  BY NextPos
<1>3. \A t \in Tables : WrittenBy(t, config)' = WrittenBy(t, config)
  BY <1>2 DEF WrittenBy
<1>4. OnPlan'
  BY NextPos
<1>5. RemovedIsOff'
  BY <1>1, KeepsOff
<1>6. WrittenSoFar'
  BY <1>3, KeepsWritten
<1>7. WorkIsWritten'
  BY <1>1, KeepsWork
<1>8. RestartWritesActive'
  BY DEF RestartWritesActive
<1>9. QED
  BY <1>4, <1>5, <1>6, <1>7, <1>8

(* A call that fails without a change.                                     *)
LEMMA FailedStep ==
  ASSUME IInv, Failed, state_lock # "caller",
         UNCHANGED <<status, state_lock, enabled, active, hw, op, lost, raced, ended, stopped>>
  PROVE  /\ OnPlan' /\ LockHeld' /\ RemovedIsOff' /\ WrittenSoFar' /\ NothingIdentified'
         /\ WorkIsWritten' /\ RestartWritesActive' /\ EndedIsActive'
<1> USE DEF IInv
<1>1. ~Busy' /\ OnPlan' /\ ~Configuring' /\ ~Disabling'
  BY NothingToDo
<1>2. LockHeld'
  BY <1>1 DEF LockHeld
<1>3. RemovedIsOff' /\ WrittenSoFar' /\ NothingIdentified'
  BY <1>1 DEF RemovedIsOff, WrittenSoFar, NothingIdentified
<1>4. WorkIsWritten'
  BY KeepsWork DEF Off
<1>5. RestartWritesActive'
  BY DEF RestartWritesActive
<1>6. EndedIsActive'
  BY <1>1 DEF EndedIsActive
<1>7. QED
  BY <1>1, <1>2, <1>3, <1>4, <1>5, <1>6

(* Outside the removal the caller does not hold the lock.                  *)
LEMMA CallerHolds ==
  ASSUME TypeOK, OnPlan, LockHeld,
         \/ AtStep("validate") \/ AtStep("check_id") \/ AtStep("write") \/ AtStep("enable")
         \/ AtStep("identify") \/ AtStep("schedule") \/ AtStep("emergency")
         \/ AtStep("set_init") \/ AtStep("lock") \/ AtStep("end")
  PROVE  Busy /\ state_lock # "caller"
<1>1. Busy
  BY DEF AtStep
<1>2. kind = "config" => FinishAt(config) \in Nat /\ FinishAt(config) > 16 /\ Pos \in Nat
  BY <1>1, StepAt, AtPos
<1>3. kind = "config" => Pos \notin 9 .. 14
  BY <1>2, PosOf
<1>4. QED
  BY <1>1, <1>3 DEF LockHeld, Configuring

-----------------------------------------------------------------------------
(* The steps of the library keep the invariant.                            *)

(* validate_config() and write_module_schedule_to_HW() change nothing here.*)
LEMMA ValidateKeeps ==
  ASSUME IInv, Validate \/ WriteSchedule
  PROVE  IInv'
<1> USE DEF IInv
<1>1. /\ AtStep("validate") \/ AtStep("schedule")
      /\ Done \/ Failed
      /\ UNCHANGED <<has_reset, status, state_lock, enabled, active, eme_dis, sched_active, hw, id,
                     locked, op, writes, lost, raced, ended, stopped, identified>>
  BY DEF Validate, WriteSchedule, driver, operator, history
<1>2. Busy /\ state_lock # "caller"
  BY <1>1, CallerHolds
<1>3. TypeOK'
  BY <1>1, <1>2, AtPos, NextPos DEF TypeOK, Failed, Done
<1>4. CASE Done
  <2>1. /\ ~AtStep("modules_off") /\ ~AtStep("write") /\ ~AtStep("enable") /\ ~AtStep("lock")
        /\ ~AtStep("unlock_init") /\ ~AtStep("reset") /\ ~AtStep("check_id") /\ ~AtStep("schedulers_off")
    BY <1>1 DEF AtStep
  <2>2. OnPlan' /\ RemovedIsOff' /\ WrittenSoFar' /\ WorkIsWritten' /\ RestartWritesActive'
    BY <1>1, <1>2, <1>4, <2>1, QuietStep
  <2>3. LockHeld' /\ NothingIdentified' /\ EndedIsActive'
    BY <1>1, <1>2, <1>4, <2>1, KeepsLock, KeepsUnidentified, KeepsEnded
  <2>4. QED
    BY <1>3, <2>2, <2>3
<1>5. CASE Failed
  BY <1>1, <1>2, <1>3, <1>5, FailedStep
<1>6. QED
  BY <1>1, <1>4, <1>5

(* sysfs_write_emergency_disable() switches a scheduler on.                *)
LEMMA EnableSchedulerKeeps ==
  ASSUME IInv, EnableScheduler
  PROVE  IInv'
<1> USE DEF IInv
<1>1. /\ AtStep("emergency")
      /\ Done \/ Failed
      /\ eme_dis' = [eme_dis EXCEPT ![TheModule] = FALSE] \/ eme_dis' = eme_dis
      /\ UNCHANGED <<has_reset, status, state_lock, enabled, active, sched_active, hw, id,
                     locked, op, writes, lost, raced, ended, stopped, identified>>
  BY DEF EnableScheduler, operator, history
<1>2. Busy /\ state_lock # "caller"
  BY <1>1, CallerHolds
<1>3. TypeOK'
  <2>1. eme_dis' \in [Modules -> BOOLEAN]
    BY <1>1 DEF TypeOK
  <2>2. QED
    BY <1>1, <1>2, <2>1, AtPos, NextPos DEF TypeOK, Failed, Done
<1>4. CASE Done
  <2>1. /\ ~AtStep("modules_off") /\ ~AtStep("write") /\ ~AtStep("enable") /\ ~AtStep("lock")
        /\ ~AtStep("unlock_init") /\ ~AtStep("reset") /\ ~AtStep("check_id") /\ ~AtStep("schedulers_off")
    BY <1>1 DEF AtStep
  <2>2. OnPlan' /\ RemovedIsOff' /\ WrittenSoFar' /\ WorkIsWritten' /\ RestartWritesActive'
    BY <1>1, <1>2, <1>4, <2>1, QuietStep
  <2>3. LockHeld' /\ NothingIdentified' /\ EndedIsActive'
    BY <1>1, <1>2, <1>4, <2>1, KeepsLock, KeepsUnidentified, KeepsEnded
  <2>4. QED
    BY <1>3, <2>2, <2>3
<1>5. CASE Failed
  BY <1>1, <1>2, <1>3, <1>5, FailedStep
<1>6. QED
  BY <1>1, <1>4, <1>5

(* sysfs_read_configuration_id() changes nothing.                          *)
LEMMA CheckIdKeeps ==
  ASSUME IInv, CheckId
  PROVE  IInv'
<1> USE DEF IInv
<1>1. /\ AtStep("check_id")
      /\ Done \/ Failed
      /\ UNCHANGED <<has_reset, status, state_lock, enabled, active, eme_dis, sched_active, hw, id,
                     locked, op, writes, lost, raced, ended, stopped, identified>>
  BY DEF CheckId, driver, operator, history
<1>2. Busy /\ state_lock # "caller"
  BY <1>1, CallerHolds
<1>3. TypeOK'
  BY <1>1, <1>2, AtPos, NextPos DEF TypeOK, Failed, Done
<1>4. CASE Done
  <2>1. /\ ~AtStep("modules_off") /\ ~AtStep("write") /\ ~AtStep("enable") /\ ~AtStep("lock")
        /\ ~AtStep("unlock_init") /\ ~AtStep("reset") /\ ~AtStep("schedulers_off")
    BY <1>1 DEF AtStep
  <2>2. OnPlan' /\ RemovedIsOff' /\ WrittenSoFar' /\ WorkIsWritten' /\ RestartWritesActive'
    BY <1>1, <1>2, <1>4, <2>1, QuietStep
  <2>3. LockHeld' /\ NothingIdentified' /\ EndedIsActive'
    BY <1>1, <1>2, <1>4, <2>1, KeepsLock, KeepsUnidentified, KeepsEnded
  <2>4. QED
    BY <1>3, <2>2, <2>3
<1>5. CASE Failed
  BY <1>1, <1>2, <1>3, <1>5, FailedStep
<1>6. QED
  BY <1>1, <1>4, <1>5

(* sysfs_write_configuration_id() comes when nothing else can be named.    *)
LEMMA IdentifyKeeps ==
  ASSUME IInv, Identify
  PROVE  IInv'
<1> USE DEF IInv
<1>1. /\ AtStep("identify")
      /\ \/ /\ Done /\ id' = config
            /\ identified' = IF kind = "schedule" THEN [identified EXCEPT !.scheduled = TRUE]
                             ELSE [config |-> config, scheduled |-> FALSE]
         \/ Failed /\ UNCHANGED <<id, identified>>
      /\ UNCHANGED <<has_reset, status, state_lock, enabled, active, eme_dis, sched_active, hw,
                     locked, op, writes, lost, raced, ended, stopped>>
  BY DEF Identify, operator
<1>2. Busy /\ state_lock # "caller"
  BY <1>1, CallerHolds
<1>3. TypeOK'
  <2>1. id' \in Configs \cup {None}
    BY <1>1 DEF TypeOK
  <2>2. /\ config \in Configs \cup {None} /\ identified.config \in Configs \cup {None}
        /\ identified \in [config : Configs \cup {None}, scheduled : BOOLEAN]
    BY DEF TypeOK
  <2>3. /\ [config |-> config, scheduled |-> FALSE] \in [config : Configs \cup {None}, scheduled : BOOLEAN]
        /\ [identified EXCEPT !.scheduled = TRUE] \in [config : Configs \cup {None}, scheduled : BOOLEAN]
    BY <2>2
  <2>4. identified' \in [config : Configs \cup {None}, scheduled : BOOLEAN]
    BY <1>1, <2>2, <2>3
  <2>5. QED
    BY <1>1, <1>2, <2>1, <2>4, AtPos, NextPos DEF TypeOK, Failed, Done
<1>4. CASE Done /\ id' = config
  <2>1. /\ ~AtStep("modules_off") /\ ~AtStep("write") /\ ~AtStep("enable") /\ ~AtStep("lock")
        /\ ~AtStep("unlock_init") /\ ~AtStep("reset") /\ ~AtStep("schedulers_off")
    BY <1>1 DEF AtStep
  <2>2. OnPlan' /\ RemovedIsOff' /\ WrittenSoFar' /\ WorkIsWritten' /\ RestartWritesActive'
    BY <1>1, <1>2, <1>4, <2>1, QuietStep
  <2>3. LockHeld' /\ EndedIsActive'
    BY <1>1, <1>2, <1>4, <2>1, KeepsLock, KeepsEnded
  <2>4. /\ kind' = kind /\ config' = config /\ (Busy' => Pos' = Pos + 1)
        /\ FinishAt(config)' = FinishAt(config)
    BY <1>2, <1>4, NextPos DEF FinishAt
  <2>5. \/ kind = "config" /\ Pos >= FinishAt(config) /\ FinishAt(config) \in Nat /\ Pos \in Nat
        \/ kind = "schedule"
    BY <1>1, <1>2, PosOf, StepAt, AtPos
  <2>6. NothingIdentified'
    BY <2>4, <2>5 DEF NothingIdentified, Configuring, Disabling
  <2>7. QED
    BY <1>3, <2>2, <2>3, <2>6
<1>5. CASE Failed
  BY <1>1, <1>2, <1>3, <1>5, FailedStep
<1>6. QED
  BY <1>1, <1>4, <1>5

(* acm_config_remove() begins with the schedulers.                         *)
LEMMA SchedulersOffKeeps ==
  ASSUME IInv, SchedulersOff
  PROVE  IInv'
<1> USE DEF IInv
<1>1. /\ AtStep("schedulers_off") /\ Done
      /\ eme_dis' = [m \in Modules |-> TRUE] /\ sched_active' = AllOff
      /\ ended' = FALSE /\ stopped' = NotStopped
      /\ UNCHANGED <<has_reset, status, state_lock, enabled, active, hw, id,
                     locked, op, writes, lost, raced, identified>>
  BY DEF SchedulersOff, operator
<1>2. Busy
  BY <1>1 DEF AtStep
<1>3. TypeOK'
  <2>1. eme_dis' \in [Modules -> BOOLEAN] /\ sched_active' \in [Modules -> BOOLEAN]
    BY <1>1 DEF AllOff
  <2>2. stopped' \in [modules : SUBSET Modules, valid : BOOLEAN]
    BY <1>1 DEF NotStopped
  <2>3. ended' \in BOOLEAN /\ result' \in {"none", "ok", "error"}
    BY <1>1, <1>2, NextPos
  <2>4. QED
    BY <1>1, <2>1, <2>2, <2>3 DEF TypeOK, Done
<1>4. /\ ~AtStep("modules_off") /\ ~AtStep("write") /\ ~AtStep("enable") /\ ~AtStep("lock")
      /\ ~AtStep("unlock_init") /\ ~AtStep("reset") /\ ~AtStep("check_id")
  BY <1>1 DEF AtStep
<1>5. OnPlan' /\ RemovedIsOff' /\ WrittenSoFar' /\ WorkIsWritten' /\ RestartWritesActive'
  BY <1>1, <1>2, <1>4, QuietStep
<1>6. LockHeld' /\ NothingIdentified'
  BY <1>1, <1>2, <1>4, KeepsLock, KeepsUnidentified
<1>7. EndedIsActive'
  BY <1>1 DEF EndedIsActive, NotStopped
<1>8. QED
  BY <1>3, <1>5, <1>6, <1>7

(* The devices of the message buffers are removed in a removal only.       *)
LEMMA DevicesOffKeeps ==
  ASSUME IInv, DevicesOff
  PROVE  IInv'
<1> USE DEF IInv
<1>1. /\ AtStep("devices_off") /\ Done
      /\ hw' = [hw EXCEPT ![<<"alias">>] = None]
      /\ UNCHANGED <<has_reset, status, state_lock, enabled, active, eme_dis, sched_active, id,
                     locked, op, writes, lost, raced, ended, stopped, identified>>
  BY DEF DevicesOff, operator, history
<1>2. Busy
  BY <1>1 DEF AtStep
<1>3. TypeOK'
  <2>1. hw' \in [Tables -> Configs \cup {None, Torn}]
    BY <1>1 DEF TypeOK
  <2>2. result' \in {"none", "ok", "error"}
    BY <1>1, <1>2, NextPos
  <2>3. QED
    BY <1>1, <2>1, <2>2 DEF TypeOK, Done
<1>4. /\ ~AtStep("modules_off") /\ ~AtStep("write") /\ ~AtStep("enable") /\ ~AtStep("lock")
      /\ ~AtStep("unlock_init") /\ ~AtStep("reset") /\ ~AtStep("check_id") /\ ~AtStep("schedulers_off")
  BY <1>1 DEF AtStep
<1>5. \A m \in Modules : Off(m)' = Off(m)
  BY <1>1 DEF Off
<1>6. RemovedIsOff'
  BY <1>1, <1>2, <1>4, <1>5, KeepsOff
<1>7. WrittenSoFar'
  <2>1. ~(Configuring /\ Pos > 14)
    BY <1>1, <1>2, PosOf DEF Configuring
  <2>2. QED
    BY <1>1, <1>2, <1>4, <2>1, KeepsWritten
<1>8. WorkIsWritten'
  <2>1. \A m \in Modules : \A t \in TablesOf(m) : hw'[t] = hw[t]
    BY <1>1, TablesApart DEF TypeOK
  <2>2. QED
    BY <1>1, <1>5, <2>1, KeepsWork
<1>9. OnPlan' /\ LockHeld' /\ NothingIdentified' /\ EndedIsActive'
  BY <1>1, <1>2, <1>4, NextPos, KeepsLock, KeepsUnidentified, KeepsEnded
<1>10. RestartWritesActive'
  BY <1>1 DEF RestartWritesActive
<1>11. QED
  BY <1>3, <1>6, <1>7, <1>8, <1>9, <1>10

(* The removal of clear_all_fpga ends in the INIT state.                   *)
LEMMA SetInitKeeps ==
  ASSUME IInv, SetInit
  PROVE  IInv'
<1> USE DEF IInv
<1>1. /\ AtStep("set_init") /\ Done /\ status' = "INIT"
      /\ UNCHANGED <<has_reset, state_lock, enabled, active, eme_dis, sched_active, hw, id,
                     locked, op, writes, lost, raced, ended, stopped, identified>>
  BY DEF SetInit, operator, history
<1>2. Busy
  BY <1>1 DEF AtStep
<1>3. TypeOK'
  BY <1>1, <1>2, AtPos, NextPos DEF TypeOK, Done
<1>4. /\ ~AtStep("modules_off") /\ ~AtStep("write") /\ ~AtStep("enable") /\ ~AtStep("lock")
      /\ ~AtStep("unlock_init") /\ ~AtStep("reset") /\ ~AtStep("check_id") /\ ~AtStep("schedulers_off")
  BY <1>1 DEF AtStep
<1>5. OnPlan' /\ RemovedIsOff' /\ WrittenSoFar' /\ WorkIsWritten' /\ RestartWritesActive'
  BY <1>1, <1>2, <1>4, QuietStep
<1>6. LockHeld' /\ NothingIdentified' /\ EndedIsActive'
  BY <1>1, <1>2, <1>4, KeepsLock, KeepsUnidentified, KeepsEnded
<1>7. QED
  BY <1>3, <1>5, <1>6

(* acm_state_set() takes the lock when the second process does not have it.*)
LEMMA LockStateKeeps ==
  ASSUME IInv, LockState
  PROVE  IInv'
<1> USE DEF IInv
<1>1. /\ AtStep("lock") /\ Done /\ state_lock = "nobody" /\ state_lock' = "caller"
      /\ UNCHANGED <<has_reset, status, enabled, active, eme_dis, sched_active, hw, id,
                     locked, op, writes, lost, raced, ended, stopped, identified>>
  BY DEF LockState, operator, history
<1>2. Busy
  BY <1>1 DEF AtStep
<1>3. TypeOK'
  BY <1>1, <1>2, AtPos, NextPos DEF TypeOK, Done
<1>4. /\ ~AtStep("modules_off") /\ ~AtStep("write") /\ ~AtStep("enable")
      /\ ~AtStep("reset") /\ ~AtStep("check_id") /\ ~AtStep("schedulers_off")
  BY <1>1 DEF AtStep
<1>5. OnPlan' /\ RemovedIsOff' /\ WrittenSoFar' /\ WorkIsWritten' /\ RestartWritesActive'
  BY <1>1, <1>2, <1>4, QuietStep
<1>6. NothingIdentified' /\ EndedIsActive'
  BY <1>1, <1>2, <1>4, KeepsUnidentified, KeepsEnded
<1>7. LockHeld'
  <2>1. kind = "config" /\ Pos = 8 /\ FinishAt(config) > 16 /\ FinishAt(config) \in Nat
    BY <1>1, <1>2, PosOf, StepAt
  <2>2. Busy'
    BY <1>1, <1>2, <2>1, GoesOn
  <2>3. Configuring' /\ Pos' = 9
    BY <1>1, <1>2, <2>1, <2>2, NextPos DEF Configuring
  <2>4. op.do = "idle"
    BY <1>1 DEF LockHeld, TypeOK
  <2>5. QED
    BY <1>1, <2>3, <2>4 DEF LockHeld
<1>8. QED
  BY <1>3, <1>5, <1>6, <1>7

(* acm_config_start() gives the lock up in the INIT state.                 *)
LEMMA UnlockInitKeeps ==
  ASSUME IInv, UnlockInit
  PROVE  IInv'
<1> USE DEF IInv
<1>1. /\ AtStep("unlock_init") /\ Done /\ status' = "INIT" /\ state_lock' = "nobody"
      /\ UNCHANGED <<has_reset, enabled, active, eme_dis, sched_active, hw, id,
                     locked, op, writes, lost, raced, ended, stopped, identified>>
  BY DEF UnlockInit, operator, history
<1>2. Busy
  BY <1>1 DEF AtStep
<1>3. TypeOK'
  BY <1>1, <1>2, AtPos, NextPos DEF TypeOK, Done
<1>4. /\ ~AtStep("modules_off") /\ ~AtStep("write") /\ ~AtStep("enable")
      /\ ~AtStep("reset") /\ ~AtStep("check_id") /\ ~AtStep("schedulers_off")
  BY <1>1 DEF AtStep
<1>5. OnPlan' /\ RemovedIsOff' /\ WrittenSoFar' /\ WorkIsWritten' /\ RestartWritesActive'
  BY <1>1, <1>2, <1>4, QuietStep
<1>6. NothingIdentified' /\ EndedIsActive'
  BY <1>1, <1>2, <1>4, KeepsUnidentified, KeepsEnded
<1>7. LockHeld'
  <2>1. kind = "config" /\ Pos = 14
    BY <1>1, PosOf
  <2>2. ~(Configuring' /\ Pos' \in 9 .. 14)
    BY <1>1, <1>2, <2>1, NextPos DEF Configuring
  <2>3. op.do = "idle"
    BY <1>2, <2>1 DEF LockHeld, TypeOK, Configuring
  <2>4. QED
    BY <1>1, <2>2, <2>3 DEF LockHeld
<1>8. QED
  BY <1>3, <1>5, <1>6, <1>7

(* A call that waits for the lock does not have it.                        *)
LEMMA InterruptedKeeps ==
  ASSUME IInv, Interrupted
  PROVE  IInv'
<1> USE DEF IInv
<1>1. /\ AtStep("set_init") \/ AtStep("lock") \/ AtStep("end")
      /\ Failed
      /\ UNCHANGED <<has_reset, status, state_lock, enabled, active, eme_dis, sched_active, hw, id,
                     locked, op, writes, lost, raced, ended, stopped, identified>>
  BY DEF Interrupted, driver, operator, history
<1>2. Busy /\ state_lock # "caller"
  BY <1>1, CallerHolds
<1>3. TypeOK'
  BY <1>1 DEF TypeOK, Failed
<1>4. QED
  BY <1>1, <1>2, <1>3, FailedStep

(* A table is written while its module is off.                             *)
LEMMA WriteTableKeeps ==
  ASSUME IInv, WriteTable
  PROVE  IInv'
<1> USE DEF IInv
<1>1. /\ AtStep("write") /\ Done
      /\ hw' = [hw EXCEPT ![Arg] = config]
      /\ UNCHANGED <<has_reset, status, state_lock, enabled, active, eme_dis, sched_active, id,
                     locked, op, writes, lost, raced, ended, stopped, identified>>
  BY DEF WriteTable, operator, history
<1>2. Busy
  BY <1>1 DEF AtStep
<1>3. /\ config \in Configs /\ Configuring /\ Pos \in 15 .. FinishAt(config) - 1
      /\ Arg \in Tables /\ Plan[Pos] = Write(Arg)
      /\ \A m \in Modules : Arg \in TablesOf(m) => \A j \in 15 .. Pos - 1 : Plan[j] # Module("enable", m)
  BY <1>1, WriteAt
<1>4. TypeOK'
  <2>1. hw' \in [Tables -> Configs \cup {None, Torn}]
    BY <1>1, <1>3 DEF TypeOK
  <2>2. result' \in {"none", "ok", "error"}
    BY <1>1, <1>2, NextPos
  <2>3. QED
    BY <1>1, <2>1, <2>2 DEF TypeOK, Done
<1>5. /\ ~AtStep("modules_off") /\ ~AtStep("enable") /\ ~AtStep("lock")
      /\ ~AtStep("unlock_init") /\ ~AtStep("reset") /\ ~AtStep("check_id") /\ ~AtStep("schedulers_off")
  BY <1>1 DEF AtStep
<1>6. \A m \in Modules : Off(m)' = Off(m)
  BY <1>1 DEF Off
<1>7. \A t \in Tables : t # Arg => hw'[t] = hw[t]
  BY <1>1 DEF TypeOK
<1>8. hw'[Arg] = config
  BY <1>1, <1>3 DEF TypeOK
<1>9. RemovedIsOff'
  BY <1>1, <1>2, <1>5, <1>6, KeepsOff
<1>10. WrittenSoFar'
  <2>1. kind' = kind /\ config' = config /\ Plan' = Plan /\ (Busy' => Pos' = Pos + 1) /\ Pos \in Nat
    BY <1>1, <1>2, NextPos, AtPos
  <2>2. SUFFICES ASSUME Configuring', NEW i \in 15 .. Pos, NEW t \in Tables, Plan[i] = Write(t)
                 PROVE  WrittenBy(t, config)'
    BY <2>1 DEF WrittenSoFar, Configuring
  <2>3. CASE t = Arg
    BY <1>8, <2>1, <2>3 DEF WrittenBy
  <2>4. CASE t # Arg
    <3>1. i # Pos
      BY <1>3, <2>2, <2>4, StepFields
    <3>2. i \in 15 .. Pos - 1
      BY <2>1, <3>1
    <3>3. WrittenBy(t, config)
      BY <1>3, <2>2, <3>2 DEF WrittenSoFar
    <3>4. QED
      BY <1>1, <1>7, <2>1, <2>4, <3>3 DEF WrittenBy
  <2>5. QED
    BY <2>3, <2>4
<1>11. WorkIsWritten'
  <2>1. \A m \in Modules : Arg \in TablesOf(m) => Off(m)
    <3>1. Pos \in 11 .. FinishAt(config)
      BY <1>3, ConfigRange
    <3>2. QED
      BY <1>3, <3>1 DEF RemovedIsOff
  <2>2. \A m \in Modules : ~Off(m) => \A t \in TablesOf(m) : hw'[t] = hw[t]
    BY <1>7, <2>1, TablesApart
  <2>3. QED
    BY <1>1, <1>6, <2>2, KeepsWork
<1>12. OnPlan' /\ LockHeld' /\ NothingIdentified' /\ EndedIsActive'
  BY <1>1, <1>2, <1>5, NextPos, KeepsLock, KeepsUnidentified, KeepsEnded
<1>13. RestartWritesActive'
  BY <1>1 DEF RestartWritesActive
<1>14. QED
  BY <1>4, <1>9, <1>10, <1>11, <1>12, <1>13

(* A table whose write failed is one of a module that is off, and remains  *)
(* without a use.                                                          *)
LEMMA WriteFailsKeeps ==
  ASSUME IInv, WriteFails
  PROVE  IInv'
<1> USE DEF IInv
<1>1. /\ AtStep("write") /\ Failed
      /\ \E content \in {hw[Arg], Torn} : hw' = [hw EXCEPT ![Arg] = content]
      /\ locked' \in LockedAfter(Arg)
      /\ UNCHANGED <<has_reset, status, state_lock, enabled, active, eme_dis, sched_active, id,
                     op, writes, lost, raced, ended, stopped, identified>>
  BY DEF WriteFails, operator, history
<1>2. /\ config \in Configs /\ Configuring /\ Pos \in 15 .. FinishAt(config) - 1
      /\ Arg \in Tables
      /\ \A m \in Modules : Arg \in TablesOf(m) => \A j \in 15 .. Pos - 1 : Plan[j] # Module("enable", m)
  BY <1>1, WriteAt
<1>3. Busy /\ state_lock # "caller"
  BY <1>1, CallerHolds
<1>4. TypeOK'
  <2>1. hw[Arg] \in Configs \cup {None, Torn}
    BY <1>2 DEF TypeOK
  <2>2. PICK content \in Configs \cup {None, Torn} : hw' = [hw EXCEPT ![Arg] = content]
    BY <1>1, <2>1
  <2>3. hw' \in [Tables -> Configs \cup {None, Torn}]
    BY <1>2, <2>2 DEF TypeOK
  <2>4. locked' \subseteq Configs
    BY <1>1, <1>2 DEF TypeOK, LockedAfter
  <2>5. QED
    BY <1>1, <2>3, <2>4 DEF TypeOK, Failed
<1>5. \A t \in Tables : t # Arg => hw'[t] = hw[t]
  BY <1>1 DEF TypeOK
<1>6. ~Busy' /\ OnPlan' /\ ~Configuring' /\ ~Disabling'
  BY <1>1, NothingToDo
<1>7. LockHeld'
  BY <1>1, <1>3, <1>6 DEF LockHeld
<1>8. RemovedIsOff' /\ WrittenSoFar' /\ NothingIdentified'
  BY <1>6 DEF RemovedIsOff, WrittenSoFar, NothingIdentified
<1>9. \A m \in Modules : Off(m)' = Off(m)
  BY <1>1 DEF Off
<1>10. WorkIsWritten'
  <2>1. \A m \in Modules : Arg \in TablesOf(m) => Off(m)
    <3>1. Pos \in 11 .. FinishAt(config)
      BY <1>2, ConfigRange
    <3>2. QED
      BY <1>2, <3>1 DEF RemovedIsOff
  <2>2. \A m \in Modules : ~Off(m) => \A t \in TablesOf(m) : hw'[t] = hw[t]
    BY <1>5, <2>1, TablesApart
  <2>3. QED
    BY <1>1, <1>9, <2>2, KeepsWork
<1>11. RestartWritesActive'
  BY <1>1 DEF RestartWritesActive
<1>12. EndedIsActive'
  BY <1>1, <1>6 DEF EndedIsActive
<1>13. QED
  BY <1>4, <1>6, <1>7, <1>8, <1>10, <1>11, <1>12

(* The error that is lost is noted in the history.                         *)
LEMMA WriteScatterLosesErrorKeeps ==
  ASSUME IInv, WriteScatterLosesError
  PROVE  IInv'
<1> USE DEF IInv
<1>1. /\ AtStep("write") /\ Arg[1] = "scatter" /\ Done
      /\ hw' = [hw EXCEPT ![Arg] = Torn] /\ lost' = TRUE
      /\ UNCHANGED <<has_reset, status, state_lock, enabled, active, eme_dis, sched_active, id,
                     locked, op, writes, raced, ended, stopped, identified>>
  BY DEF WriteScatterLosesError, operator
<1>2. Busy
  BY <1>1 DEF AtStep
<1>3. Arg \in Tables /\ Plan[Pos] = Write(Arg)
  BY <1>1, WriteAt
<1>4. TypeOK'
  <2>1. hw' \in [Tables -> Configs \cup {None, Torn}]
    BY <1>1, <1>3 DEF TypeOK
  <2>2. result' \in {"none", "ok", "error"}
    BY <1>1, <1>2, NextPos
  <2>3. QED
    BY <1>1, <2>1, <2>2 DEF TypeOK, Done
<1>5. /\ ~AtStep("modules_off") /\ ~AtStep("enable") /\ ~AtStep("lock")
      /\ ~AtStep("unlock_init") /\ ~AtStep("reset") /\ ~AtStep("check_id") /\ ~AtStep("schedulers_off")
  BY <1>1 DEF AtStep
<1>6. \A m \in Modules : Off(m)' = Off(m)
  BY <1>1 DEF Off
<1>7. \A t \in Tables : hw'[t] = hw[t] \/ (lost' /\ t[1] = "scatter" /\ hw'[t] = Torn)
  BY <1>1 DEF TypeOK
<1>8. RemovedIsOff'
  BY <1>1, <1>2, <1>5, <1>6, KeepsOff
<1>9. WrittenSoFar'
  <2>1. kind' = kind /\ config' = config /\ Plan' = Plan /\ (Busy' => Pos' = Pos + 1) /\ Pos \in Nat
    BY <1>1, <1>2, NextPos, AtPos
  <2>2. SUFFICES ASSUME Configuring', NEW i \in 15 .. Pos, NEW t \in Tables, Plan[i] = Write(t)
                 PROVE  WrittenBy(t, config)'
    BY <2>1 DEF WrittenSoFar, Configuring
  <2>3. CASE i = Pos
    <3>1. t = Arg
      BY <1>3, <2>2, <2>3, StepFields
    <3>2. hw'[t] = Torn
      BY <1>1, <1>3, <3>1 DEF TypeOK
    <3>3. QED
      BY <1>1, <3>1, <3>2 DEF WrittenBy
  <2>4. CASE i # Pos
    <3>1. i \in 15 .. Pos - 1 /\ Configuring
      BY <2>1, <2>2, <2>4, <1>2 DEF Configuring
    <3>2. WrittenBy(t, config)
      BY <2>2, <3>1 DEF WrittenSoFar
    <3>3. QED
      BY <1>1, <1>7, <2>1, <3>2 DEF WrittenBy
  <2>5. QED
    BY <2>3, <2>4
<1>10. WorkIsWritten'
  <2>1. \A m \in Modules : \A t \in TablesOf(m) :
          hw'[t] = hw[t] \/ (lost' /\ t[1] = "scatter" /\ hw'[t] = Torn)
    BY <1>7, TablesApart
  <2>2. QED
    BY <1>1, <1>6, <2>1, KeepsWork
<1>11. OnPlan' /\ LockHeld' /\ NothingIdentified' /\ EndedIsActive'
  BY <1>1, <1>2, <1>5, NextPos, KeepsLock, KeepsUnidentified, KeepsEnded
<1>12. RestartWritesActive'
  BY <1>1 DEF RestartWritesActive
<1>13. QED
  BY <1>4, <1>8, <1>9, <1>10, <1>11, <1>12

(* sysfs_write_module_enable() comes when all tables of the module are     *)
(* written.                                                                *)
LEMMA EnableModuleKeeps ==
  ASSUME IInv, EnableModule
  PROVE  IInv'
<1> USE DEF IInv
<1>1. /\ AtStep("enable")
      /\ (Done /\ enabled' = [enabled EXCEPT ![TheModule] = TRUE]) \/ (Failed /\ UNCHANGED enabled)
      /\ UNCHANGED <<has_reset, status, state_lock, active, eme_dis, sched_active, hw, id,
                     locked, op, writes, lost, raced, ended, stopped, identified>>
  BY DEF EnableModule, operator, history
<1>2. Busy /\ state_lock # "caller"
  BY <1>1, CallerHolds
<1>3. TypeOK'
  <2>1. enabled' \in [Modules -> BOOLEAN]
    BY <1>1 DEF TypeOK
  <2>2. result' \in {"none", "ok", "error"}
    BY <1>1, <1>2, NextPos DEF Failed
  <2>3. QED
    BY <1>1, <2>1, <2>2 DEF TypeOK, Done, Failed
<1>4. CASE Failed /\ UNCHANGED enabled
  BY <1>1, <1>2, <1>3, <1>4, FailedStep
<1>5. CASE Done /\ enabled' = [enabled EXCEPT ![TheModule] = TRUE]
  <2>1. /\ config \in Configs /\ Configuring /\ Pos \in 15 .. FinishAt(config) - 1
        /\ TheModule \in Uses[config] /\ TheModule \in Modules
        /\ Plan[Pos] = Module("enable", TheModule)
        /\ \A t \in TablesOf(TheModule) : \E j \in 15 .. Pos - 1 : Plan[j] = Write(t)
    BY <1>1, EnableAt
  <2>2. /\ ~AtStep("modules_off") /\ ~AtStep("write") /\ ~AtStep("lock")
        /\ ~AtStep("unlock_init") /\ ~AtStep("reset") /\ ~AtStep("check_id") /\ ~AtStep("schedulers_off")
    BY <1>1 DEF AtStep
  <2>3. /\ kind' = kind /\ config' = config /\ Plan' = Plan /\ Busy' /\ Pos' = Pos + 1 /\ Pos \in Nat
        /\ FinishAt(config)' = FinishAt(config) /\ FinishAt(config) \in Nat /\ kind = "config"
    <3>1. kind = "config" /\ FinishAt(config) \in Nat
      BY <1>2, <2>1, StepAt DEF Configuring
    <3>2. Pos <= FinishAt(config) + 1
      BY <2>1, <3>1
    <3>3. Busy'
      BY <1>2, <1>5, <3>1, <3>2, GoesOn
    <3>4. QED
      BY <1>2, <1>5, <3>1, <3>3, NextPos, AtPos DEF FinishAt
  <2>4. \A m \in Modules : m # TheModule => enabled'[m] = enabled[m]
    BY <1>5 DEF TypeOK
  <2>5. \A m \in Modules : m # TheModule => Off(m)' = Off(m)
    BY <1>1, <2>4 DEF Off
  <2>6. RemovedIsOff'
    <3>1. ~(Configuring' /\ Pos' \in 4 .. 9) /\ ~Disabling'
      BY <2>1, <2>3 DEF Configuring, Disabling
    <3>2. ASSUME NEW m \in Modules, \A i \in 15 .. Pos' - 1 : Plan'[i] # Module("enable", m)
          PROVE  Off(m)'
      <4>1. Pos \in 15 .. Pos' - 1 /\ \A i \in 15 .. Pos - 1 : i \in 15 .. Pos' - 1
        BY <2>1, <2>3
      <4>2. m # TheModule
        BY <2>1, <2>3, <3>2, <4>1
      <4>3. \A i \in 15 .. Pos - 1 : Plan[i] # Module("enable", m)
        BY <2>3, <3>2, <4>1
      <4>4. Pos \in 11 .. FinishAt(config)
        BY <2>1, <2>3
      <4>5. Off(m)
        BY <2>1, <4>3, <4>4 DEF RemovedIsOff
      <4>6. QED
        BY <2>5, <4>2, <4>5
    <3>3. QED
      BY <3>1, <3>2 DEF RemovedIsOff
  <2>7. WrittenSoFar'
    BY <1>1, <1>2, <1>5, <2>2, <2>3, KeepsWritten DEF WrittenBy
  <2>8. ASSUME NEW t \in TablesOf(TheModule) PROVE WrittenBy(t, config)
    <3>1. t \in Tables
      BY <2>1, TablesApart
    <3>2. QED
      BY <2>1, <2>8, <3>1 DEF WrittenSoFar
  <2>9. WorkIsWritten'
    <3>1. ASSUME NEW m \in Modules, ~Off(m)'
          PROVE  (raced' \/ Complete(m)') /\ hw'[<<"const", m>>] # Torn
      <4>1. CASE m = TheModule
        <5>1. Complete(m)'
          BY <1>1, <2>1, <2>8, <4>1 DEF Complete, WrittenBy
        <5>2. WrittenBy(<<"const", m>>, config)
          BY <2>1, <2>8, <4>1, TablesApart
        <5>3. hw[<<"const", m>>] = config
          BY <5>2 DEF WrittenBy
        <5>4. QED
          BY <1>1, <2>1, <5>1, <5>3, NoneAssumption
      <4>2. CASE m # TheModule
        <5>1. ~Off(m)
          BY <2>5, <3>1, <4>2
        <5>2. (raced \/ Complete(m)) /\ hw[<<"const", m>>] # Torn
          BY <5>1 DEF WorkIsWritten
        <5>3. QED
          BY <1>1, <5>2 DEF Complete, WrittenBy
      <4>3. QED
        BY <4>1, <4>2
    <3>2. QED
      BY <3>1 DEF WorkIsWritten
  <2>10. EndedIsActive'
    <3>1. ~ended
      BY <2>1, <2>3 DEF EndedIsActive
    <3>2. QED
      BY <1>1, <3>1 DEF EndedIsActive
  <2>11. OnPlan' /\ LockHeld' /\ NothingIdentified'
    BY <1>1, <1>2, <1>5, <2>2, NextPos, KeepsLock, KeepsUnidentified
  <2>12. RestartWritesActive'
    BY <1>1 DEF RestartWritesActive
  <2>13. QED
    BY <1>3, <2>6, <2>7, <2>9, <2>10, <2>11, <2>12
<1>6. QED
  BY <1>1, <1>4, <1>5

(* Where a removal is, nothing has ended, and the modules are off from the *)
(* reset on.                                                               *)
LEMMA InRemoval ==
  ASSUME IInv,
         AtStep("modules_off") \/ AtStep("reset") \/ AtStep("cleanup")
  PROVE  /\ Busy /\ ~ended /\ ~stopped.valid
         /\ ~(Configuring /\ Pos > 14) /\ kind \in {"config", "disable"}
         /\ ~AtStep("modules_off") => \A m \in Modules : raced \/ Off(m)
<1> USE DEF IInv
<1>1. Busy
  BY DEF AtStep
<1>2. \/ kind = "config" /\ Pos \in {3, 4, 6, 10, 11, 13}
      \/ kind = "disable" /\ Pos \in {2, 3, 5}
  BY PosOf
<1>3. kind = "config" => FinishAt(config) \in Nat /\ FinishAt(config) > 16
  BY <1>1, StepAt
<1>4. ~ended
  BY <1>1, <1>2, <1>3 DEF EndedIsActive, Configuring, Disabling
<1>5. ~stopped.valid
  BY <1>4 DEF EndedIsActive
<1>6. ASSUME ~AtStep("modules_off"), NEW m \in Modules
      PROVE  raced \/ Off(m)
  <2>1. \/ kind = "config" /\ Pos \in {4, 6, 11, 13}
        \/ kind = "disable" /\ Pos \in {3, 5}
    BY <1>6, PosOf
  <2>2. CASE kind = "config" /\ Pos \in {4, 6}
    BY <1>1, <2>2 DEF RemovedIsOff, Configuring
  <2>3. CASE kind = "config" /\ Pos \in {11, 13}
    <3>1. Pos \in 11 .. FinishAt(config)
      BY <1>3, <2>3
    <3>2. \A i \in 15 .. Pos - 1 : FALSE
      BY <2>3
    <3>3. QED
      BY <1>1, <2>3, <3>1, <3>2 DEF RemovedIsOff, Configuring
  <2>4. CASE kind = "disable"
    BY <1>1, <2>1, <2>4 DEF RemovedIsOff, Disabling
  <2>5. QED
    BY <2>1, <2>2, <2>3, <2>4
<1>7. QED
  BY <1>1, <1>2, <1>4, <1>5, <1>6 DEF Configuring

(* The modules are switched off; what a restart has read before is a race. *)
LEMMA ModulesOffKeeps ==
  ASSUME IInv, ModulesOff
  PROVE  IInv'
<1> USE DEF IInv
<1>1. /\ AtStep("modules_off") /\ Done
      /\ enabled' = AllOff /\ active' = AllOff
      /\ hw' = [t \in Tables |-> IF t[1] \in Timeouts THEN None ELSE hw[t]]
      /\ raced' = (raced \/ op.was)
      /\ UNCHANGED <<has_reset, status, state_lock, eme_dis, sched_active, id,
                     locked, op, writes, lost, ended, stopped, identified>>
  BY DEF ModulesOff, operator
<1>2. Busy /\ ~ended /\ ~stopped.valid /\ ~(Configuring /\ Pos > 14) /\ kind \in {"config", "disable"}
  BY <1>1, InRemoval
<1>3. TypeOK'
  <2>1. enabled' \in [Modules -> BOOLEAN] /\ active' \in [Modules -> BOOLEAN]
    BY <1>1 DEF AllOff
  <2>2. hw' \in [Tables -> Configs \cup {None, Torn}]
    BY <1>1 DEF TypeOK
  <2>3. raced' \in BOOLEAN
    BY <1>1 DEF TypeOK
  <2>4. result' \in {"none", "ok", "error"}
    BY <1>1, <1>2, NextPos
  <2>5. QED
    BY <1>1, <2>1, <2>2, <2>3, <2>4 DEF TypeOK, Done
<1>4. /\ ~AtStep("write") /\ ~AtStep("enable") /\ ~AtStep("lock")
      /\ ~AtStep("unlock_init") /\ ~AtStep("reset") /\ ~AtStep("check_id") /\ ~AtStep("schedulers_off")
  BY <1>1 DEF AtStep
<1>5. \A m \in Modules : Off(m)' <=> ~(op.m = m /\ op.was)
  BY <1>1 DEF Off, AllOff
<1>6. \A m \in Modules : raced' \/ Off(m)'
  BY <1>1, <1>5
<1>7. RemovedIsOff'
  <2>1. /\ kind' = kind /\ config' = config /\ Plan' = Plan /\ (Busy' => Pos' = Pos + 1)
        /\ (kind = "config" /\ Pos \in {3, 10}) \/ (kind = "disable" /\ Pos = 2)
    BY <1>1, <1>2, NextPos, PosOf
  <2>2. ASSUME Configuring', Pos' \in 11 .. FinishAt(config)', NEW m \in Modules PROVE Off(m)'
    <3>1. kind = "config" /\ Pos = 10
      BY <2>1, <2>2 DEF Configuring
    <3>2. state_lock = "caller"
      BY <1>2, <3>1 DEF LockHeld, Configuring
    <3>3. ~op.was
      BY <3>2 DEF LockHeld, TypeOK
    <3>4. QED
      BY <1>5, <3>3
  <2>3. QED
    BY <1>6, <2>2 DEF RemovedIsOff
<1>8. WrittenSoFar'
  BY <1>1, <1>2, <1>4, KeepsWritten
<1>9. WorkIsWritten'
  <2>1. SUFFICES ASSUME NEW m \in Modules, ~Off(m)' PROVE raced' /\ hw'[<<"const", m>>] # Torn
    BY DEF WorkIsWritten
  <2>2. op.m = m /\ op.was
    BY <1>5, <2>1
  <2>3. ~Off(m)
    BY <2>2 DEF Off
  <2>4. <<"const", m>> \in Tables /\ <<"const", m>>[1] \notin Timeouts
    BY TablesApart DEF Timeouts
  <2>5. hw'[<<"const", m>>] = hw[<<"const", m>>]
    BY <1>1, <2>4
  <2>6. QED
    BY <1>1, <2>2, <2>3, <2>5 DEF WorkIsWritten
<1>10. RestartWritesActive'
  <2>1. ASSUME op.do = "write" PROVE raced' \/ op.was = active'[op.m]
    BY <1>1 DEF AllOff, TypeOK
  <2>2. QED
    BY <1>1, <2>1 DEF RestartWritesActive
<1>11. EndedIsActive'
  BY <1>1, <1>2 DEF EndedIsActive
<1>12. OnPlan' /\ LockHeld' /\ NothingIdentified'
  BY <1>1, <1>2, <1>4, NextPos, KeepsLock, KeepsUnidentified
<1>13. QED
  BY <1>3, <1>7, <1>8, <1>9, <1>10, <1>11, <1>12

(* The reset takes everything from the hardware, or a failed one may not;  *)
(* then the caller gives up the lock.                                      *)
LEMMA ResetKeeps ==
  ASSUME IInv, Reset
  PROVE  IInv'
<1> USE DEF IInv
<1>1. /\ AtStep("reset")
      /\ \/ has_reset /\ ResetHardware /\ Done /\ UNCHANGED state_lock
         \/ ~has_reset /\ Done /\ UNCHANGED <<enabled, hw, id, lost, identified, state_lock>>
         \/ /\ ResetHardware \/ UNCHANGED <<enabled, hw, id, lost, identified>>
            /\ Failed
            /\ state_lock' = Unlocked
      /\ UNCHANGED <<has_reset, status, active, eme_dis, sched_active,
                     locked, op, writes, raced, ended, stopped>>
  BY DEF Reset, operator
<1>2. /\ Busy /\ ~ended /\ ~stopped.valid /\ ~(Configuring /\ Pos > 14) /\ kind \in {"config", "disable"}
      /\ \A m \in Modules : raced \/ Off(m)
  BY <1>1, InRemoval DEF AtStep
<1>3. /\ ~AtStep("modules_off") /\ ~AtStep("write") /\ ~AtStep("enable") /\ ~AtStep("lock")
      /\ ~AtStep("unlock_init") /\ ~AtStep("check_id") /\ ~AtStep("schedulers_off")
  BY <1>1 DEF AtStep
<1>4. EndedIsActive' /\ RestartWritesActive'
  BY <1>1, <1>2 DEF EndedIsActive, RestartWritesActive
<1>5. ASSUME ResetHardware
      PROVE  /\ enabled' \in [Modules -> BOOLEAN] /\ hw' \in [Tables -> Configs \cup {None, Torn}]
             /\ id' = None /\ lost' = FALSE /\ identified' = NotIdentified
             /\ \A m \in Modules : Off(m) => Off(m)'
             /\ WorkIsWritten'
  <2>1. /\ enabled' = AllOff /\ hw' = [t \in Tables |-> None] /\ id' = None /\ lost' = FALSE
        /\ identified' = NotIdentified
    BY <1>5 DEF ResetHardware
  <2>2. enabled' \in [Modules -> BOOLEAN] /\ hw' \in [Tables -> Configs \cup {None, Torn}]
    BY <2>1 DEF AllOff
  <2>3. \A m \in Modules : Off(m) => Off(m)'
    BY <1>1, <2>1 DEF Off, AllOff
  <2>4. ASSUME NEW m \in Modules PROVE hw'[<<"const", m>>] = None
    <3>1. <<"const", m>> \in Tables
      BY TablesApart
    <3>2. QED
      BY <2>1, <3>1
  <2>5. WorkIsWritten'
    BY <1>1, <1>2, <2>3, <2>4, NoneAssumption DEF WorkIsWritten
  <2>6. QED
    BY <2>1, <2>2, <2>3, <2>5
<1>10. NotIdentified \in [config : Configs \cup {None}, scheduled : BOOLEAN]
  BY DEF NotIdentified
<1>6. CASE has_reset /\ ResetHardware /\ Done /\ UNCHANGED state_lock
  <2>1. OnPlan' /\ kind' = kind /\ result' \in {"none", "ok", "error"}
    BY <1>2, <1>6, NextPos
  <2>2. TypeOK'
    BY <1>1, <1>5, <1>6, <1>10, <2>1 DEF TypeOK, Done
  <2>3. LockHeld'
    BY <1>1, <1>2, <1>3, <1>6, KeepsLock
  <2>4. RemovedIsOff'
    BY <1>1, <1>2, <1>3, <1>5, <1>6, KeepsOff
  <2>5. WrittenSoFar'
    BY <1>1, <1>2, <1>3, <1>6, KeepsWritten
  <2>6. NothingIdentified'
    BY <1>2, <1>5, <1>6, <2>1 DEF NothingIdentified
  <2>7. QED
    BY <1>4, <1>5, <1>6, <2>1, <2>2, <2>3, <2>4, <2>5, <2>6
<1>7. CASE ~has_reset /\ Done /\ UNCHANGED <<enabled, hw, id, lost, identified, state_lock>>
  <2>1. OnPlan' /\ RemovedIsOff' /\ WrittenSoFar' /\ WorkIsWritten' /\ result' \in {"none", "ok", "error"}
    BY <1>1, <1>2, <1>3, <1>7, QuietStep, NextPos
  <2>2. TypeOK'
    BY <1>1, <1>7, <2>1 DEF TypeOK, Done
  <2>3. LockHeld'
    BY <1>1, <1>2, <1>3, <1>7, KeepsLock
  <2>4. NothingIdentified'
    BY <1>1, <1>7 DEF NothingIdentified
  <2>5. QED
    BY <1>4, <2>1, <2>2, <2>3, <2>4
<1>8. CASE /\ ResetHardware \/ UNCHANGED <<enabled, hw, id, lost, identified>>
           /\ Failed
           /\ state_lock' = Unlocked
  <2>1. ~Busy' /\ OnPlan' /\ ~Configuring' /\ ~Disabling'
    BY <1>8, NothingToDo
  <2>2. TypeOK'
    <3>1. state_lock' \in {"nobody", "caller", "operator"}
      BY <1>8 DEF Unlocked, TypeOK
    <3>2. enabled' \in [Modules -> BOOLEAN] /\ hw' \in [Tables -> Configs \cup {None, Torn}]
      BY <1>5, <1>8 DEF TypeOK
    <3>3. id' \in Configs \cup {None} /\ lost' \in BOOLEAN
      BY <1>5, <1>8 DEF TypeOK
    <3>4. identified' \in [config : Configs \cup {None}, scheduled : BOOLEAN]
      BY <1>5, <1>8, <1>10 DEF TypeOK
    <3>5. QED
      BY <1>1, <1>8, <3>1, <3>2, <3>3, <3>4 DEF TypeOK, Failed
  <2>3. LockHeld'
    BY <1>1, <1>8, <2>1 DEF LockHeld, Unlocked
  <2>4. RemovedIsOff' /\ WrittenSoFar' /\ NothingIdentified'
    BY <1>8, <2>1 DEF RemovedIsOff, WrittenSoFar, NothingIdentified, Failed
  <2>5. WorkIsWritten'
    <3>1. CASE ResetHardware
      BY <1>5, <3>1
    <3>2. CASE UNCHANGED <<enabled, hw, id, lost, identified>>
      BY <1>1, <3>2, KeepsWork DEF Off
    <3>3. QED
      BY <1>8, <3>1, <3>2
  <2>6. QED
    BY <1>4, <2>1, <2>2, <2>3, <2>4, <2>5
<1>9. QED
  BY <1>1, <1>6, <1>7, <1>8

(* acm_cleanup() clears tables of modules that are off.                    *)
LEMMA CleanupKeeps ==
  ASSUME IInv, Cleanup
  PROVE  IInv'
<1> USE DEF IInv
<1>1. /\ AtStep("cleanup") /\ Done
      /\ hw' = [t \in Tables |-> IF t[1] \in {"mode", "speed"} THEN hw[t] ELSE None]
      /\ lost' = FALSE
      /\ UNCHANGED <<has_reset, status, state_lock, enabled, active, eme_dis, sched_active, id,
                     locked, op, writes, raced, ended, stopped, identified>>
  BY DEF Cleanup, operator
<1>2. /\ Busy /\ ~ended /\ ~stopped.valid /\ ~(Configuring /\ Pos > 14)
      /\ \A m \in Modules : raced \/ Off(m)
  BY <1>1, InRemoval DEF AtStep
<1>3. TypeOK'
  <2>1. hw' \in [Tables -> Configs \cup {None, Torn}]
    BY <1>1 DEF TypeOK
  <2>2. result' \in {"none", "ok", "error"}
    BY <1>1, <1>2, NextPos
  <2>3. /\ lost' \in BOOLEAN /\ Done
        /\ UNCHANGED <<has_reset, status, state_lock, enabled, active, eme_dis, sched_active, id,
                       locked, op, writes, raced, ended, stopped, identified>>
    BY <1>1
  <2>4. QED
    BY <2>1, <2>2, <2>3 DEF TypeOK, Done
<1>4. /\ ~AtStep("modules_off") /\ ~AtStep("write") /\ ~AtStep("enable") /\ ~AtStep("lock")
      /\ ~AtStep("unlock_init") /\ ~AtStep("reset") /\ ~AtStep("check_id") /\ ~AtStep("schedulers_off")
  BY <1>1 DEF AtStep
<1>5. \A m \in Modules : Off(m)' = Off(m)
  BY <1>1 DEF Off
<1>6. RemovedIsOff'
  BY <1>1, <1>2, <1>4, <1>5, KeepsOff
<1>7. WrittenSoFar'
  BY <1>1, <1>2, <1>4, KeepsWritten
<1>8. WorkIsWritten'
  <2>1. ASSUME NEW m \in Modules PROVE hw'[<<"const", m>>] = None
    <3>1. <<"const", m>> \in Tables
      BY TablesApart
    <3>2. <<"const", m>>[1] \notin {"mode", "speed"}
      OBVIOUS
    <3>3. QED
      BY <1>1, <3>1, <3>2
  <2>2. QED
    BY <1>1, <1>2, <1>5, <2>1, NoneAssumption DEF WorkIsWritten
<1>9. OnPlan' /\ LockHeld' /\ NothingIdentified'
  BY <1>1, <1>2, <1>4, NextPos, KeepsLock, KeepsUnidentified
<1>10. RestartWritesActive' /\ EndedIsActive'
  BY <1>1, <1>2 DEF RestartWritesActive, EndedIsActive
<1>11. QED
  BY <1>3, <1>6, <1>7, <1>8, <1>9, <1>10

(* acm_config_end() stores what is enabled.                                *)
LEMMA EndConfigKeeps ==
  ASSUME IInv, EndConfig
  PROVE  IInv'
<1> USE DEF IInv
<1>1. /\ AtStep("end") /\ Done /\ state_lock = "nobody"
      /\ sched_active' = [m \in Modules |-> ~eme_dis[m]] /\ active' = enabled
      /\ status' = "RUN" /\ ended' = TRUE
      /\ UNCHANGED <<has_reset, state_lock, enabled, eme_dis, hw, id,
                     locked, op, writes, lost, raced, stopped, identified>>
  BY DEF EndConfig, RecordActive, operator
<1>2. Busy
  BY <1>1 DEF AtStep
<1>3. TypeOK'
  <2>1. sched_active' \in [Modules -> BOOLEAN] /\ active' \in [Modules -> BOOLEAN]
    BY <1>1 DEF TypeOK
  <2>2. result' \in {"none", "ok", "error"}
    BY <1>1, <1>2, NextPos
  <2>3. QED
    BY <1>1, <2>1, <2>2 DEF TypeOK, Done
<1>4. /\ ~AtStep("modules_off") /\ ~AtStep("write") /\ ~AtStep("enable") /\ ~AtStep("lock")
      /\ ~AtStep("unlock_init") /\ ~AtStep("reset") /\ ~AtStep("check_id") /\ ~AtStep("schedulers_off")
  BY <1>1 DEF AtStep
<1>5. op = Idle
  BY <1>1 DEF LockHeld, TypeOK
<1>6. \A m \in Modules : Off(m)' <=> ~enabled[m]
  BY <1>1, <1>5 DEF Off, Idle
<1>7. \A m \in Modules : Off(m) => Off(m)'
  BY <1>6 DEF Off
<1>8. RemovedIsOff'
  BY <1>1, <1>2, <1>4, <1>7, KeepsOff
<1>9. WrittenSoFar'
  BY <1>1, <1>2, <1>4, KeepsWritten, NextPos DEF WrittenBy
<1>10. WorkIsWritten'
  BY <1>1, <1>7, KeepsWork
<1>11. EndedIsActive'
  <2>1. kind = "config" /\ Pos = FinishAt(config) + 1 /\ FinishAt(config) \in Nat /\ FinishAt(config) > 16
    BY <1>1, <1>2, PosOf, StepAt
  <2>2. kind' = "config" /\ config' = config /\ (Busy' => Pos' = Pos + 1) /\ FinishAt(config)' = FinishAt(config)
    BY <1>1, <1>2, <2>1, NextPos DEF FinishAt
  <2>3. (Configuring' => Pos' \notin 3 .. FinishAt(config)' + 1) /\ ~Disabling'
    BY <2>1, <2>2 DEF Configuring, Disabling
  <2>4. Pos \in 3 .. FinishAt(config) + 1
    BY <2>1
  <2>5. ~ended
    BY <1>2, <2>1, <2>4 DEF EndedIsActive, Configuring
  <2>6. ~stopped.valid
    BY <2>5 DEF EndedIsActive
  <2>7. op.do = "idle"
    BY <1>5 DEF Idle
  <2>8. QED
    BY <1>1, <2>3, <2>6, <2>7 DEF EndedIsActive
<1>12. OnPlan' /\ LockHeld' /\ NothingIdentified'
  BY <1>1, <1>2, <1>4, NextPos, KeepsLock, KeepsUnidentified
<1>13. RestartWritesActive'
  BY <1>1, <1>5 DEF RestartWritesActive, Idle
<1>14. QED
  BY <1>3, <1>8, <1>9, <1>10, <1>11, <1>12, <1>13

-----------------------------------------------------------------------------
(* The second process keeps the invariant.                                 *)

(* It does not move the call of the library.                               *)
LEMMA CallStays ==
  ASSUME OnPlan, UNCHANGED <<todo, kind, config, result, calls, locked>>
  PROVE  /\ Plan' = Plan /\ Pos' = Pos /\ FinishAt(config)' = FinishAt(config)
         /\ Busy' = Busy /\ Configuring' = Configuring /\ Disabling' = Disabling
         /\ OnPlan'
<1>1. Plan' = Plan
  BY DEF Plan
<1>2. Pos' = Pos
  BY <1>1 DEF Pos
<1>3. Busy' = Busy /\ Configuring' = Configuring /\ Disabling' = Disabling
  BY DEF Busy, Configuring, Disabling
<1>4. FinishAt(config)' = FinishAt(config)
  BY DEF FinishAt
<1>5. OnPlan'
  BY <1>1, <1>2, <1>3 DEF OnPlan
<1>6. QED
  BY <1>1, <1>2, <1>3, <1>4, <1>5

(* Neither what is written nor what is identified is its business.         *)
LEMMA WritesStay ==
  ASSUME OnPlan, WrittenSoFar, NothingIdentified, UNCHANGED <<has_reset, hw, id, lost>>,
         UNCHANGED <<todo, kind, config, result, calls, locked>>
  PROVE  WrittenSoFar' /\ NothingIdentified'
<1>1. /\ Plan' = Plan /\ Pos' = Pos /\ FinishAt(config)' = FinishAt(config)
      /\ Busy' = Busy /\ Configuring' = Configuring /\ Disabling' = Disabling
  BY CallStays
<1>2. WrittenSoFar'
  BY <1>1 DEF WrittenSoFar, WrittenBy
<1>3. NothingIdentified'
  BY <1>1 DEF NothingIdentified
<1>4. QED
  BY <1>2, <1>3

(* A module that is off remains off when what is enabled is stored.        *)
LEMMA OffStays ==
  ASSUME OnPlan, RemovedIsOff, UNCHANGED <<todo, kind, config, result, calls, locked>>,
         UNCHANGED raced, \A m \in Modules : Off(m) => Off(m)'
  PROVE  RemovedIsOff'
<1>1. /\ Plan' = Plan /\ Pos' = Pos /\ FinishAt(config)' = FinishAt(config)
      /\ Busy' = Busy /\ Configuring' = Configuring /\ Disabling' = Disabling
  BY CallStays
<1>2. QED
  BY <1>1 DEF RemovedIsOff

(* acm_config_stop_running() disables and stores nothing.                  *)
LEMMA StopRunningKeeps ==
  ASSUME IInv, StopRunning
  PROVE  IInv'
<1> USE DEF IInv
<1>1. /\ op = Idle /\ state_lock = "nobody" /\ writes' = writes + 1
      /\ eme_dis' = [m \in Modules |-> TRUE] /\ enabled' = AllOff /\ status' = "DESYNC"
      /\ stopped' = [modules |-> {m \in Modules : enabled[m]}, valid |-> status = "RUN" /\ ended]
      /\ UNCHANGED <<has_reset, state_lock, active, sched_active, hw, id,
                     todo, kind, config, result, calls, locked, op, lost, raced, ended, identified>>
  BY DEF StopRunning, BeginStateWrite, library
<1>2. /\ Pos' = Pos /\ FinishAt(config)' = FinishAt(config)
      /\ Configuring' = Configuring /\ Disabling' = Disabling /\ OnPlan'
  BY <1>1, CallStays
<1>3. \A m \in Modules : Off(m) => Off(m)'
  BY <1>1 DEF Off, AllOff
<1>4. TypeOK'
  <2>1. eme_dis' \in [Modules -> BOOLEAN] /\ enabled' \in [Modules -> BOOLEAN]
    BY <1>1 DEF AllOff
  <2>2. stopped' \in [modules : SUBSET Modules, valid : BOOLEAN]
    BY <1>1 DEF TypeOK
  <2>3. QED
    BY <1>1, <2>1, <2>2 DEF TypeOK
<1>5. LockHeld'
  BY <1>1, <1>2 DEF LockHeld
<1>6. RemovedIsOff'
  BY <1>1, <1>3, OffStays
<1>7. WrittenSoFar' /\ NothingIdentified'
  BY <1>1, WritesStay
<1>8. WorkIsWritten'
  BY <1>1, <1>3, KeepsWork
<1>9. RestartWritesActive'
  BY <1>1 DEF RestartWritesActive
<1>10. EndedIsActive'
  <2>1. stopped'.valid => ended /\ enabled = active
    BY <1>1 DEF EndedIsActive, Idle
  <2>2. stopped'.modules = {m \in Modules : enabled[m]}
    BY <1>1
  <2>3. stopped'.valid => ended' /\ stopped'.modules = {m \in Modules : active'[m]}
    BY <1>1, <2>1, <2>2
  <2>4. status' # "RUN" /\ op'.do = "idle"
    BY <1>1 DEF Idle
  <2>5. ended' => (Configuring' => Pos' \notin 3 .. FinishAt(config)' + 1) /\ (Disabling' => Pos' = 1)
    BY <1>1, <1>2 DEF EndedIsActive
  <2>6. QED
    BY <2>3, <2>4, <2>5 DEF EndedIsActive
<1>11. QED
  BY <1>2, <1>4, <1>5, <1>6, <1>7, <1>8, <1>9, <1>10

(* INIT is only written down.                                              *)
LEMMA WriteInitKeeps ==
  ASSUME IInv, WriteInit
  PROVE  IInv'
<1> USE DEF IInv
<1>1. /\ op = Idle /\ state_lock = "nobody" /\ writes' = writes + 1
      /\ status' = "INIT" /\ stopped' = NotStopped
      /\ UNCHANGED <<has_reset, state_lock, enabled, active, eme_dis, sched_active, hw, id,
                     todo, kind, config, result, calls, locked, op, lost, raced, ended, identified>>
  BY DEF WriteInit, BeginStateWrite, library
<1>2. /\ Pos' = Pos /\ FinishAt(config)' = FinishAt(config)
      /\ Configuring' = Configuring /\ Disabling' = Disabling /\ OnPlan'
  BY <1>1, CallStays
<1>3. \A m \in Modules : Off(m)' = Off(m)
  BY <1>1 DEF Off
<1>4. TypeOK'
  <2>1. stopped' \in [modules : SUBSET Modules, valid : BOOLEAN]
    BY <1>1 DEF NotStopped
  <2>2. QED
    BY <1>1, <2>1 DEF TypeOK
<1>5. LockHeld'
  BY <1>1, <1>2 DEF LockHeld
<1>6. RemovedIsOff'
  BY <1>1, <1>3, OffStays
<1>7. WrittenSoFar' /\ NothingIdentified'
  BY <1>1, WritesStay
<1>8. WorkIsWritten'
  BY <1>1, <1>3, KeepsWork
<1>9. RestartWritesActive'
  BY <1>1 DEF RestartWritesActive
<1>10. EndedIsActive'
  <2>1. ~stopped'.valid
    BY <1>1 DEF NotStopped
  <2>2. status' # "RUN" /\ op'.do = "idle"
    BY <1>1 DEF Idle
  <2>3. ended' => (Configuring' => Pos' \notin 3 .. FinishAt(config)' + 1) /\ (Disabling' => Pos' = 1)
    BY <1>1, <1>2 DEF EndedIsActive
  <2>4. QED
    BY <2>1, <2>2, <2>3 DEF EndedIsActive
<1>11. QED
  BY <1>2, <1>4, <1>5, <1>6, <1>7, <1>8, <1>9, <1>10

(* acm_config_restart_running() begins with the schedulers.                *)
LEMMA RestartSchedulersKeeps ==
  ASSUME IInv, RestartSchedulers
  PROVE  IInv'
<1> USE DEF IInv
<1>1. /\ op = Idle /\ state_lock = "nobody" /\ writes' = writes + 1
      /\ state_lock' = "operator" /\ eme_dis' = [m \in Modules |-> ~sched_active[m]]
      /\ op' = [do |-> "read", m |-> 0, was |-> FALSE]
      /\ UNCHANGED <<has_reset, status, enabled, active, sched_active, hw, id,
                     todo, kind, config, result, calls, locked, lost, raced, ended, stopped, identified>>
  BY DEF RestartSchedulers, BeginStateWrite, library
<1>2. /\ Pos' = Pos /\ FinishAt(config)' = FinishAt(config)
      /\ Configuring' = Configuring /\ Disabling' = Disabling /\ OnPlan'
  BY <1>1, CallStays
<1>3. \A m \in Modules : Off(m) => Off(m)'
  BY <1>1 DEF Off
<1>4. TypeOK'
  <2>1. eme_dis' \in [Modules -> BOOLEAN]
    BY <1>1 DEF TypeOK
  <2>2. op' \in [do : {"idle", "read", "write"}, m : Modules, was : BOOLEAN]
    BY <1>1 DEF Modules
  <2>3. QED
    BY <1>1, <2>1, <2>2 DEF TypeOK
<1>5. LockHeld'
  BY <1>1, <1>2 DEF LockHeld
<1>6. RemovedIsOff'
  BY <1>1, <1>3, OffStays
<1>7. WrittenSoFar' /\ NothingIdentified'
  BY <1>1, WritesStay
<1>8. \A m \in Modules : ~Off(m)' => ~Off(m)
  BY <1>1 DEF Off
<1>9. WorkIsWritten'
  BY <1>1, <1>8, KeepsWork
<1>10. RestartWritesActive'
  BY <1>1 DEF RestartWritesActive
<1>11. EndedIsActive'
  <2>1. op'.do = "read" /\ op'.m = 0
    BY <1>1
  <2>2. \A m \in Modules : ~(m < op'.m)
    BY <2>1 DEF Modules
  <2>3. ended' => (Configuring' => Pos' \notin 3 .. FinishAt(config)' + 1) /\ (Disabling' => Pos' = 1)
    BY <1>1, <1>2 DEF EndedIsActive
  <2>4. stopped'.valid => ended' /\ stopped'.modules = {m \in Modules : active'[m]}
    BY <1>1 DEF EndedIsActive
  <2>5. QED
    BY <2>1, <2>2, <2>3, <2>4 DEF EndedIsActive
<1>12. QED
  BY <1>2, <1>4, <1>5, <1>6, <1>7, <1>9, <1>10, <1>11

(* The first half of restarting a module reads what is stored.             *)
LEMMA ReadActiveKeeps ==
  ASSUME IInv, ReadActive
  PROVE  IInv'
<1> USE DEF IInv
<1>1. /\ op.do = "read"
      /\ op' = [op EXCEPT !.do = "write", !.was = active[op.m]]
      /\ UNCHANGED <<has_reset, status, state_lock, enabled, active, eme_dis, sched_active, hw, id,
                     todo, kind, config, result, calls, locked, writes, lost, raced, ended, stopped, identified>>
  BY DEF ReadActive, driver, library, history
<1>2. /\ Pos' = Pos /\ FinishAt(config)' = FinishAt(config)
      /\ Configuring' = Configuring /\ Disabling' = Disabling /\ OnPlan'
  BY <1>1, CallStays
<1>3. op' = [do |-> "write", m |-> op.m, was |-> active[op.m]] /\ op.m \in Modules /\ active[op.m] \in BOOLEAN
  BY <1>1 DEF TypeOK
<1>4. op'.do = "write" /\ op'.m = op.m /\ op'.was = active[op.m]
  BY <1>3
<1>5. TypeOK'
  <2>1. op' \in [do : {"idle", "read", "write"}, m : Modules, was : BOOLEAN]
    BY <1>3
  <2>2. QED
    BY <1>1, <2>1 DEF TypeOK
<1>6. \A m \in Modules : Off(m)' <=> Off(m)
  BY <1>1, <1>4 DEF Off, LockHeld
<1>7. LockHeld'
  BY <1>1, <1>2, <1>4 DEF LockHeld
<1>8. RemovedIsOff'
  BY <1>1, <1>6, OffStays
<1>9. WrittenSoFar' /\ NothingIdentified'
  BY <1>1, WritesStay
<1>10. WorkIsWritten'
  BY <1>1, <1>6, KeepsWork
<1>11. RestartWritesActive'
  BY <1>1, <1>4 DEF RestartWritesActive
<1>12. EndedIsActive'
  <2>1. ended' => (Configuring' => Pos' \notin 3 .. FinishAt(config)' + 1) /\ (Disabling' => Pos' = 1)
    BY <1>1, <1>2 DEF EndedIsActive
  <2>2. stopped'.valid => ended' /\ stopped'.modules = {m \in Modules : active'[m]}
    BY <1>1 DEF EndedIsActive
  <2>3. ended' => \A m \in Modules : op'.do # "idle" /\ m < op'.m => enabled'[m] = active'[m]
    BY <1>1, <1>4 DEF EndedIsActive
  <2>4. QED
    BY <1>1, <1>4, <2>1, <2>2, <2>3 DEF EndedIsActive
<1>13. QED
  BY <1>2, <1>5, <1>7, <1>8, <1>9, <1>10, <1>11, <1>12

(* The second half writes it, and the last one ends the restart.           *)
LEMMA RestartModuleKeeps ==
  ASSUME IInv, RestartModule
  PROVE  IInv'
<1> USE DEF IInv
<1>1. /\ op.do = "write"
      /\ enabled' = [enabled EXCEPT ![op.m] = op.was]
      /\ \/ /\ op.m + 1 \in Modules
            /\ op' = [do |-> "read", m |-> op.m + 1, was |-> FALSE]
            /\ UNCHANGED <<status, state_lock>>
         \/ op.m + 1 \notin Modules /\ op' = Idle /\ status' = "RUN" /\ state_lock' = "nobody"
      /\ UNCHANGED <<has_reset, active, eme_dis, sched_active, hw, id,
                     todo, kind, config, result, calls, locked, writes, lost, raced, ended, stopped, identified>>
  BY DEF RestartModule, library, history
<1>2. /\ Pos' = Pos /\ FinishAt(config)' = FinishAt(config)
      /\ Configuring' = Configuring /\ Disabling' = Disabling /\ OnPlan'
  BY <1>1, CallStays
<1>3. op.m \in {0, 1} /\ Modules = {0, 1} /\ op.was \in BOOLEAN
  BY DEF TypeOK, Modules
<1>4. op'.was = FALSE
  BY <1>1 DEF Idle
<1>5. enabled'[op.m] = op.was /\ \A m \in Modules : m # op.m => enabled'[m] = enabled[m]
  BY <1>1, <1>3 DEF TypeOK
<1>6. \A m \in Modules : Off(m) => Off(m)'
  BY <1>1, <1>4, <1>5 DEF Off
<1>7. TypeOK'
  <2>1. enabled' \in [Modules -> BOOLEAN]
    BY <1>1, <1>3 DEF TypeOK
  <2>2. op' \in [do : {"idle", "read", "write"}, m : Modules, was : BOOLEAN]
    <3>1. CASE op' = Idle
      BY <1>3, <3>1 DEF Idle
    <3>2. CASE op.m + 1 \in Modules /\ op' = [do |-> "read", m |-> op.m + 1, was |-> FALSE]
      BY <3>2
    <3>3. QED
      BY <1>1, <3>1, <3>2
  <2>3. status' \in {"INIT", "RUN", "DESYNC"} /\ state_lock' \in {"nobody", "caller", "operator"}
    BY <1>1 DEF TypeOK
  <2>4. QED
    BY <1>1, <2>1, <2>2, <2>3 DEF TypeOK
<1>8. LockHeld'
  <2>1. state_lock = "operator" /\ ~(Configuring /\ Pos \in 9 .. 14)
    BY <1>1 DEF LockHeld
  <2>2. CASE op' = [do |-> "read", m |-> op.m + 1, was |-> FALSE] /\ UNCHANGED <<status, state_lock>>
    BY <1>2, <2>1, <2>2 DEF LockHeld
  <2>3. CASE op' = Idle /\ status' = "RUN" /\ state_lock' = "nobody"
    BY <1>2, <2>1, <2>3 DEF LockHeld, Idle
  <2>4. QED
    BY <1>1, <2>2, <2>3
<1>9. RemovedIsOff'
  BY <1>1, <1>6, OffStays
<1>10. WrittenSoFar' /\ NothingIdentified'
  BY <1>1, WritesStay
<1>11. WorkIsWritten'
  BY <1>1, <1>6, KeepsWork
<1>12. RestartWritesActive'
  BY <1>1 DEF RestartWritesActive, Idle
<1>13. EndedIsActive'
  <2>1. ended' => (Configuring' => Pos' \notin 3 .. FinishAt(config)' + 1) /\ (Disabling' => Pos' = 1)
    BY <1>1, <1>2 DEF EndedIsActive
  <2>2. stopped'.valid => ended' /\ stopped'.modules = {m \in Modules : active'[m]}
    BY <1>1 DEF EndedIsActive
  <2>3. ended => \A m \in Modules : m < op.m + 1 => enabled'[m] = active[m]
    BY <1>1, <1>3, <1>5 DEF EndedIsActive
  <2>4. CASE op.m = 0
    <3>1. op'.do = "read" /\ op'.m = op.m + 1
      BY <1>1, <1>3, <2>4
    <3>2. QED
      BY <1>1, <2>1, <2>2, <2>3, <3>1 DEF EndedIsActive
  <2>5. CASE op.m = 1
    <3>1. op'.do = "idle"
      BY <1>1, <1>3, <2>5 DEF Idle
    <3>2. ended => \A m \in Modules : enabled'[m] = active[m]
      BY <1>3, <2>3, <2>5
    <3>3. enabled' \in [Modules -> BOOLEAN] /\ active \in [Modules -> BOOLEAN]
      BY <1>7 DEF TypeOK
    <3>4. ended => enabled' = active
      BY <3>2, <3>3
    <3>5. QED
      BY <1>1, <2>1, <2>2, <3>1, <3>4 DEF EndedIsActive
  <2>6. QED
    BY <1>3, <2>4, <2>5
<1>14. QED
  BY <1>2, <1>7, <1>8, <1>9, <1>10, <1>11, <1>12, <1>13

(* Every step keeps the invariant.                                         *)
LEMMA NextKeeps ==
  ASSUME IInv, [Next]_vars
  PROVE  IInv'
<1>1. CASE CallApplyConfig
  BY <1>1, CallKeeps DEF CallApplyConfig
<1>2. CASE CallApplySchedule
  BY <1>2, CallKeeps DEF CallApplySchedule
<1>3. CASE CallDisable
  BY <1>3, CallKeeps DEF CallDisable
<1>4. CASE Library
  BY <1>4, ValidateKeeps, CheckIdKeeps, WriteTableKeeps, WriteFailsKeeps, WriteScatterLosesErrorKeeps,
     EnableModuleKeeps, EnableSchedulerKeeps, IdentifyKeeps, SchedulersOffKeeps, ModulesOffKeeps,
     ResetKeeps, DevicesOffKeeps, CleanupKeeps, SetInitKeeps, LockStateKeeps, UnlockInitKeeps,
     EndConfigKeeps DEF Library
<1>5. CASE Interrupted
  BY <1>5, InterruptedKeeps
<1>6. CASE StopRunning \/ WriteInit \/ RestartSchedulers
  BY <1>6, StopRunningKeeps, WriteInitKeeps, RestartSchedulersKeeps
<1>7. CASE Restart
  BY <1>7, ReadActiveKeeps, RestartModuleKeeps DEF Restart
<1>8. CASE UNCHANGED vars
  <2>1. UNCHANGED <<has_reset, status, state_lock, enabled, active, eme_dis, sched_active, hw, id,
                    todo, kind, config, result, calls, locked, op, writes, lost, raced, ended, stopped, identified>>
    BY <1>8 DEF vars, driver, library, operator, history
  <2>2. /\ Plan' = Plan /\ Pos' = Pos /\ FinishAt(config)' = FinishAt(config)
        /\ Busy' = Busy /\ Configuring' = Configuring /\ Disabling' = Disabling /\ OnPlan'
    BY <2>1, CallStays DEF IInv
  <2>3. \A m \in Modules : Off(m)' = Off(m)
    BY <2>1 DEF Off
  <2>4. TypeOK' /\ LockHeld' /\ RestartWritesActive' /\ EndedIsActive'
    BY <2>1, <2>2 DEF IInv, TypeOK, LockHeld, RestartWritesActive, EndedIsActive
  <2>5. RemovedIsOff' /\ WrittenSoFar' /\ NothingIdentified' /\ WorkIsWritten'
    BY <2>1, <2>3, OffStays, WritesStay, KeepsWork DEF IInv
  <2>6. QED
    BY <2>2, <2>4, <2>5 DEF IInv
<1>9. QED
  BY <1>1, <1>2, <1>3, <1>4, <1>5, <1>6, <1>7, <1>8 DEF Next

-----------------------------------------------------------------------------
(* What holds in every state.                                              *)

(* The inductive invariant holds.                                          *)
THEOREM InvariantHolds == Spec => []IInv
<1>1. Init => IInv
  BY InitIInv
<1>2. IInv /\ [Next]_vars => IInv'
  BY NextKeeps
<1>3. QED
  BY <1>1, <1>2, PTL DEF Spec

(* Every variable has its type.                                            *)
THEOREM TypeCorrect == Spec => []TypeOK
<1>1. IInv => TypeOK
  BY DEF IInv
<1>2. QED
  BY <1>1, InvariantHolds, PTL

(* A module that is enabled has all its tables from one configuration.     *)
THEOREM EnabledWritten == Spec => []EnabledIsWritten
<1>1. IInv => EnabledIsWritten
  BY DEF IInv, WorkIsWritten, Off, Complete, EnabledIsWritten
<1>2. QED
  BY <1>1, InvariantHolds, PTL

(* Every step of the library is done or fails.                             *)
LEMMA DoneOrFailed ==
  ASSUME Library \/ Interrupted
  PROVE  Busy /\ (Done \/ Failed)
<1>1. ASSUME NEW what, AtStep(what) PROVE Busy
  BY <1>1 DEF AtStep
<1>2. CASE Interrupted
  BY <1>1, <1>2 DEF Interrupted
<1>3. CASE Validate \/ CheckId \/ WriteTable \/ WriteFails \/ WriteScatterLosesError
  BY <1>1, <1>3 DEF Validate, CheckId, WriteTable, WriteFails, WriteScatterLosesError
<1>4. CASE EnableModule \/ EnableScheduler \/ Identify \/ WriteSchedule
  BY <1>1, <1>4 DEF EnableModule, EnableScheduler, Identify, WriteSchedule
<1>5. CASE SchedulersOff \/ ModulesOff \/ Reset \/ DevicesOff \/ Cleanup
  BY <1>1, <1>5 DEF SchedulersOff, ModulesOff, Reset, DevicesOff, Cleanup
<1>6. CASE SetInit \/ LockState \/ UnlockInit \/ EndConfig
  BY <1>1, <1>6 DEF SetInit, LockState, UnlockInit, EndConfig
<1>7. QED
  BY <1>2, <1>3, <1>4, <1>5, <1>6 DEF Library

(* The last step of acm_apply_config() writes the identifier.              *)
LEMMA LastStep ==
  ASSUME IInv, Library \/ Interrupted, kind' = "config", result' = "ok"
  PROVE  /\ Identify /\ id' = config /\ config' = config /\ config \in Configs
         /\ UNCHANGED <<hw, lost>>
         /\ \A t \in TablesUsed(config) : WrittenBy(t, config)
<1> USE DEF IInv
<1>1. Busy /\ (Done \/ Failed)
  BY DoneOrFailed
<1>2. Done
  BY <1>1 DEF Failed
<1>3. Pos = Len(Plan) /\ kind = "config" /\ config' = config /\ config \in Configs
  BY <1>1, <1>2, NextPos, AtPos
<1>4. Plan = ApplyConfig(config) /\ Len(ApplyConfig(config)) \in Nat
  BY <1>3, ConfigPlan DEF Plan
<1>5. Head(todo).do = "identify"
  <2>1. Head(todo) = Plan[Pos]
    BY <1>1, AtPos
  <2>2. ApplyConfig(config)[Len(ApplyConfig(config))] = Do("identify")
    BY <1>3, ConfigPlan
  <2>3. Head(todo) = Do("identify")
    BY <1>3, <1>4, <2>1, <2>2
  <2>4. QED
    BY <2>3, StepFields
<1>6. \A what : AtStep(what) => what = "identify"
  BY <1>5 DEF AtStep
<1>7. Identify
  BY <1>6 DEF Library, Interrupted, Validate, CheckId, WriteTable, WriteFails, WriteScatterLosesError,
        EnableModule, EnableScheduler, WriteSchedule, SchedulersOff, ModulesOff, Reset, DevicesOff, Cleanup,
        SetInit, LockState, UnlockInit, EndConfig
<1>8. id' = config /\ UNCHANGED <<hw, lost>>
  BY <1>7 DEF Identify, Failed, history
<1>9. ASSUME NEW t \in TablesUsed(config) PROVE WrittenBy(t, config)
  <2>1. PICK j \in 15 .. FinishAt(config) - 1 : ApplyConfig(config)[j] = Write(t)
    BY <1>3, AllTablesPlanned
  <2>2. t \in Tables
    BY <1>3, AllTablesPlanned
  <2>3. Len(ApplyConfig(config)) > FinishAt(config) + 1 /\ FinishAt(config) \in Nat
    BY <1>3, ConfigPlan, ConfigRange
  <2>4. j \in 15 .. Pos - 1
    BY <1>3, <1>4, <2>3
  <2>5. QED
    BY <1>1, <1>3, <1>4, <2>1, <2>2, <2>4 DEF WrittenSoFar, Configuring
<1>10. QED
  BY <1>3, <1>7, <1>8, <1>9

(* acm_apply_config() that returns 0 has written all tables.               *)
THEOREM AppliedWritten == Spec => []AppliedIsWritten
<1>1. Init => AppliedIsWritten
  BY DEF Init, AppliedIsWritten, AppliedJustNow
<1>2. ASSUME IInv, AppliedIsWritten, [Next]_vars PROVE AppliedIsWritten'
  <2>1. SUFFICES ASSUME NEW c \in Configs, AppliedJustNow(c)'
                 PROVE  id' = c /\ \A t \in TablesUsed(c) : WrittenBy(t, c)'
    BY DEF AppliedIsWritten, TablesUsed, TablesOf
  <2>2. kind' = "config" /\ config' = c /\ result' = "ok"
    BY <2>1 DEF AppliedJustNow
  <2>3. CASE CallApplyConfig \/ CallApplySchedule \/ CallDisable
    BY <2>2, <2>3 DEF CallApplyConfig, CallApplySchedule, CallDisable, Call
  <2>4. CASE Library \/ Interrupted
    BY <1>2, <2>2, <2>4, LastStep DEF WrittenBy
  <2>5. CASE StopRunning \/ WriteInit \/ RestartSchedulers \/ Restart \/ UNCHANGED vars
    <3>1. UNCHANGED <<id, hw, lost, todo, kind, config, result>>
      BY <2>5 DEF StopRunning, WriteInit, RestartSchedulers, Restart, ReadActive, RestartModule, BeginStateWrite,
            vars, driver, library, history
    <3>2. AppliedJustNow(c)
      BY <2>1, <3>1 DEF AppliedJustNow, Busy
    <3>3. QED
      BY <1>2, <3>1, <3>2 DEF AppliedIsWritten, WrittenBy
  <2>6. QED
    BY <1>2, <2>3, <2>4, <2>5 DEF Next
<1>3. QED
  BY <1>1, <1>2, InvariantHolds, PTL DEF Spec

(* What is identified: without an identifier nothing was identified.       *)
IdentifiedInv ==
    /\ IdentifiedIsWritten
    /\ id = None => identified.config = None

(* The steps of the library that write tables keep what is identified.     *)
LEMMA TableStepIdentified ==
  ASSUME IInv, IdentifiedInv,
         WriteTable \/ WriteFails \/ WriteScatterLosesError \/ DevicesOff \/ Cleanup \/ ModulesOff
  PROVE  IdentifiedInv'
<1> USE DEF IInv
<1>1. UNCHANGED <<has_reset, id, identified>>
  BY DEF WriteTable, WriteFails, WriteScatterLosesError, DevicesOff, Cleanup, ModulesOff, history
<1>2. CASE WriteTable \/ WriteFails \/ WriteScatterLosesError \/ DevicesOff \/ Cleanup
  <2>1. AtStep("write") \/ AtStep("devices_off") \/ AtStep("cleanup")
    BY <1>2 DEF WriteTable, WriteFails, WriteScatterLosesError, DevicesOff, Cleanup
  <2>2. \/ kind = "config" /\ Pos \in 5 .. FinishAt(config)
        \/ kind = "disable" /\ Pos \in 4 .. 6
    <3>1. kind = "config" => FinishAt(config) \in Nat /\ FinishAt(config) > 16
      BY <2>1, StepAt DEF AtStep
    <3>2. \/ kind = "config" /\ (Pos \in 15 .. FinishAt(config) - 1 \/ Pos \in {5, 6, 12, 13})
          \/ kind = "disable" /\ Pos \in {4, 5}
      BY <2>1, PosOf
    <3>3. QED
      BY <3>1, <3>2
  <2>3. has_reset => id = None
    BY <2>1, <2>2 DEF AtStep, NothingIdentified, Configuring, Disabling
  <2>4. has_reset => identified.config = None
    BY <2>3 DEF IdentifiedInv
  <2>5. QED
    BY <1>1, <2>4 DEF IdentifiedInv, IdentifiedIsWritten
<1>3. CASE ModulesOff
  <2>1. hw' = [t \in Tables |-> IF t[1] \in Timeouts THEN None ELSE hw[t]] /\ UNCHANGED lost
    BY <1>3 DEF ModulesOff
  <2>2. ASSUME has_reset, identified.config # None PROVE TablesComplete(identified.config)'
    <3> DEFINE c == identified.config
    <3>1. c \in Configs
      BY <2>2 DEF TypeOK
    <3>2. TablesComplete(c)
      BY <2>2 DEF IdentifiedInv, IdentifiedIsWritten
    <3>3. ASSUME NEW t \in TablesUsed(c) PROVE t[1] \in Timeouts \/ WrittenBy(t, c)'
      <4>1. t \in Tables
        BY <3>1, AllTablesPlanned
      <4>2. QED
        BY <1>1, <2>1, <3>2, <3>3, <4>1 DEF TablesComplete, WrittenBy
    <3>4. TablesUsed(c)' = TablesUsed(c)
      BY <1>1 DEF TablesUsed, TablesOf
    <3>5. QED
      BY <3>3, <3>4 DEF TablesComplete
  <2>3. QED
    BY <1>1, <2>2 DEF IdentifiedInv, IdentifiedIsWritten
<1>4. QED
  BY <1>2, <1>3

(* The identifier of acm_apply_config() is written behind all the tables.  *)
LEMMA IdentifyIdentified ==
  ASSUME IInv, IdentifiedInv, Identify
  PROVE  IdentifiedInv'
<1> USE DEF IInv
<1>1. /\ AtStep("identify") /\ UNCHANGED <<has_reset, hw, lost>>
      /\ \/ /\ Done /\ id' = config
            /\ identified' = IF kind = "schedule" THEN [identified EXCEPT !.scheduled = TRUE]
                             ELSE [config |-> config, scheduled |-> FALSE]
         \/ UNCHANGED <<id, identified>>
  BY DEF Identify
<1>2. Busy
  BY <1>1 DEF AtStep
<1>3. \A c : TablesComplete(c)' = TablesComplete(c)
  BY <1>1 DEF TablesComplete, WrittenBy, TablesUsed, TablesOf
<1>4. CASE UNCHANGED <<id, identified>>
  BY <1>1, <1>3, <1>4 DEF IdentifiedInv, IdentifiedIsWritten
<1>5. CASE kind = "config" /\ id' = config /\ identified' = [config |-> config, scheduled |-> FALSE]
  <2>1. config \in Configs /\ Plan = ApplyConfig(config) /\ Pos \in Nat
    BY <1>2, <1>5, AtPos DEF Plan
  <2>2. FinishAt(config) \in Nat /\ Pos >= FinishAt(config)
    BY <1>1, <1>2, <1>5, <2>1, PosOf, StepAt
  <2>3. ASSUME NEW t \in TablesUsed(config) PROVE WrittenBy(t, config)
    <3>1. PICK j \in 15 .. FinishAt(config) - 1 : ApplyConfig(config)[j] = Write(t)
      BY <2>1, AllTablesPlanned
    <3>2. t \in Tables
      BY <2>1, AllTablesPlanned
    <3>3. j \in 15 .. Pos - 1
      BY <2>1, <2>2
    <3>4. QED
      BY <1>2, <1>5, <2>1, <3>1, <3>2, <3>3 DEF WrittenSoFar, Configuring
  <2>4. TablesComplete(config)
    BY <2>3 DEF TablesComplete
  <2>5. QED
    BY <1>3, <1>5, <2>1, <2>4, NoneAssumption DEF IdentifiedInv, IdentifiedIsWritten
<1>6. CASE kind = "schedule" /\ id' = config /\ identified' = [identified EXCEPT !.scheduled = TRUE]
  <2>1. config \in Configs
    BY <1>2, <1>6, AtPos
  <2>2. identified'.config = identified.config /\ identified'.scheduled
    BY <1>6 DEF TypeOK
  <2>3. QED
    BY <1>1, <1>3, <1>6, <2>1, <2>2, NoneAssumption DEF IdentifiedInv, IdentifiedIsWritten
<1>7. kind = "config" \/ kind = "schedule"
  BY <1>1, <1>2, PosOf
<1>8. QED
  BY <1>1, <1>4, <1>5, <1>6, <1>7

(* The identifier of acm_apply_config() names the configuration all of     *)
(* whose tables are in the hardware, and acm_apply_schedule() leaves these.*)
THEOREM IdentifiedWritten == Spec => []IdentifiedIsWritten
<1>1. Init => IdentifiedInv
  BY DEF Init, IdentifiedInv, IdentifiedIsWritten, NotIdentified
<1>2. ASSUME IInv, IdentifiedInv, [Next]_vars PROVE IdentifiedInv'
  <2> USE <1>2
  <2>1. ASSUME UNCHANGED <<has_reset, id, hw, lost, identified>> PROVE IdentifiedInv'
    BY <2>1 DEF IdentifiedInv, IdentifiedIsWritten, TablesComplete, WrittenBy, TablesUsed, TablesOf
  <2>2. CASE CallApplyConfig \/ CallApplySchedule \/ CallDisable
    <3>1. UNCHANGED <<has_reset, id, hw, lost, identified>>
      BY <2>2 DEF CallApplyConfig, CallApplySchedule, CallDisable, Call, driver, history
    <3>2. QED
      BY <2>1, <3>1
  <2>3. CASE WriteTable \/ WriteFails \/ WriteScatterLosesError \/ DevicesOff \/ Cleanup \/ ModulesOff
    BY <2>3, TableStepIdentified
  <2>4. CASE Validate \/ CheckId \/ EnableModule \/ EnableScheduler \/ WriteSchedule \/ SchedulersOff
             \/ SetInit \/ LockState \/ UnlockInit \/ EndConfig \/ Interrupted
    <3>1. UNCHANGED <<has_reset, id, hw, lost, identified>>
      BY <2>4 DEF Validate, CheckId, EnableModule, EnableScheduler, WriteSchedule, SchedulersOff, SetInit,
            LockState, UnlockInit, EndConfig, Interrupted, driver, history
    <3>2. QED
      BY <2>1, <3>1
  <2>5. CASE StopRunning \/ WriteInit \/ RestartSchedulers \/ Restart \/ UNCHANGED vars
    <3>1. UNCHANGED <<has_reset, id, hw, lost, identified>>
      BY <2>5 DEF StopRunning, WriteInit, RestartSchedulers, Restart, ReadActive, RestartModule, BeginStateWrite,
            vars, driver, history
    <3>2. QED
      BY <2>1, <3>1
  <2>6. CASE Reset
    <3>1. \/ id' = None /\ identified' = NotIdentified
          \/ ~has_reset /\ UNCHANGED <<id, identified>>
          \/ UNCHANGED <<id, hw, lost, identified>>
      BY <2>6 DEF Reset, ResetHardware
    <3>2. UNCHANGED has_reset
      BY <2>6 DEF Reset
    <3>3. CASE id' = None /\ identified' = NotIdentified
      BY <3>3 DEF IdentifiedInv, IdentifiedIsWritten, NotIdentified
    <3>4. CASE ~has_reset /\ UNCHANGED <<id, identified>>
      BY <3>2, <3>4 DEF IdentifiedInv, IdentifiedIsWritten
    <3>5. QED
      BY <2>1, <3>1, <3>2, <3>3, <3>4
  <2>7. CASE Identify
    BY <2>7, IdentifyIdentified
  <2>8. QED
    BY <2>2, <2>3, <2>4, <2>5, <2>6, <2>7 DEF Next, Library
<1>3. IdentifiedInv => IdentifiedIsWritten
  BY DEF IdentifiedInv
<1>4. QED
  BY <1>1, <1>2, <1>3, InvariantHolds, PTL DEF Spec

(* A restart that ends enables what the DESYNC before it has stopped.      *)
THEOREM RestartResumes == Spec => RestartResumesModules
<1>1. ASSUME IInv, IInv', [Next]_vars
      PROVE  [op # Idle /\ op' = Idle /\ stopped.valid => {m \in Modules : enabled'[m]} = stopped.modules]_vars
  <2>1. SUFFICES ASSUME op # Idle, op' = Idle, stopped.valid, Next
                 PROVE  {m \in Modules : enabled'[m]} = stopped.modules
    BY <1>1
  <2>2. RestartModule
    <3>1. ASSUME UNCHANGED op PROVE FALSE
      BY <2>1, <3>1
    <3>2. ~CallApplyConfig /\ ~CallApplySchedule /\ ~CallDisable
      BY <3>1 DEF CallApplyConfig, CallApplySchedule, CallDisable, Call, operator
    <3>3. ~Validate /\ ~CheckId /\ ~WriteTable /\ ~WriteFails /\ ~WriteScatterLosesError
      BY <3>1 DEF Validate, CheckId, WriteTable, WriteFails, WriteScatterLosesError, operator
    <3>4. ~EnableModule /\ ~EnableScheduler /\ ~Identify /\ ~WriteSchedule
      BY <3>1 DEF EnableModule, EnableScheduler, Identify, WriteSchedule, operator
    <3>5. ~SchedulersOff /\ ~ModulesOff /\ ~Reset /\ ~DevicesOff /\ ~Cleanup
      BY <3>1 DEF SchedulersOff, ModulesOff, Reset, DevicesOff, Cleanup, operator
    <3>6. ~SetInit /\ ~LockState /\ ~UnlockInit /\ ~EndConfig /\ ~Interrupted
      BY <3>1 DEF SetInit, LockState, UnlockInit, EndConfig, Interrupted, operator
    <3>7. ~StopRunning /\ ~WriteInit
      BY <3>1 DEF StopRunning, WriteInit
    <3>8. ~RestartSchedulers /\ ~ReadActive
      <4>1. op'.do = "idle"
        BY <2>1 DEF Idle
      <4>2. RestartSchedulers => op'.do = "read"
        BY DEF RestartSchedulers
      <4>3. ReadActive => op'.do = "write"
        BY <1>1 DEF ReadActive, IInv, TypeOK
      <4>4. QED
        BY <4>1, <4>2, <4>3
    <3>9. QED
      BY <2>1, <3>2, <3>3, <3>4, <3>5, <3>6, <3>7, <3>8 DEF Next, Library, Restart
  <2>3. status' = "RUN" /\ UNCHANGED <<active, ended, stopped>>
    BY <2>1, <2>2 DEF RestartModule, Idle, history
  <2>4. op'.do = "idle"
    BY <2>1 DEF Idle
  <2>5. enabled' = active'
    BY <1>1, <2>1, <2>3, <2>4 DEF IInv, EndedIsActive
  <2>6. stopped.modules = {m \in Modules : active'[m]}
    BY <1>1, <2>1, <2>3 DEF IInv, EndedIsActive
  <2>7. QED
    BY <2>5, <2>6
<1>2. QED
  BY <1>1, InvariantHolds, PTL DEF Spec, RestartResumesModules

-----------------------------------------------------------------------------
(* The refinement.                                                         *)

(* What a module processes frames with is a configuration.                 *)
LEMMA TrafficTyped ==
  ASSUME IInv
  PROVE  /\ AtWork(enabled) \in [Modules -> Configs \cup {None}]
         /\ AtWork(active) \in [Modules -> Configs \cup {None}]
<1>1. ASSUME NEW m \in Modules, enabled[m] \/ active[m]
      PROVE  hw[<<"const", m>>] \in Configs \cup {None}
  <2>1. ~Off(m)
    BY <1>1 DEF Off
  <2>2. hw[<<"const", m>>] # Torn
    BY <2>1 DEF IInv, WorkIsWritten
  <2>3. <<"const", m>> \in Tables
    BY TablesApart
  <2>4. hw[<<"const", m>>] \in Configs \cup {None, Torn}
    BY <2>3 DEF IInv, TypeOK
  <2>5. QED
    BY <2>2, <2>4
<1>2. QED
  BY <1>1 DEF AtWork

(* A step that neither switches modules nor writes the tables of one that  *)
(* works leaves the traffic as it is.                                      *)
LEMMA TrafficStays ==
  ASSUME UNCHANGED <<enabled, active, raced>>,
         \A m \in Modules : ~Off(m) => hw'[<<"const", m>>] = hw[<<"const", m>>]
  PROVE  AtWork(enabled)' = AtWork(enabled) /\ AtWork(active)' = AtWork(active)
<1>1. ASSUME NEW m \in Modules, enabled[m] \/ active[m]
      PROVE  hw'[<<"const", m>>] = hw[<<"const", m>>]
  BY <1>1 DEF Off
<1>2. QED
  BY <1>1 DEF AtWork

(* A step that changes no table of a module and switches none.             *)
LEMMA QuietTraffic ==
  ASSUME \/ CallApplyConfig \/ CallApplySchedule \/ CallDisable
         \/ Validate \/ CheckId \/ EnableScheduler \/ Identify \/ WriteSchedule \/ SchedulersOff
         \/ SetInit \/ LockState \/ UnlockInit \/ Interrupted
         \/ WriteInit \/ RestartSchedulers \/ ReadActive \/ UNCHANGED vars
  PROVE  UNCHANGED Life!vars
<1>1. UNCHANGED <<enabled, active, hw, raced>>
  <2>1. CASE CallApplyConfig \/ CallApplySchedule \/ CallDisable \/ UNCHANGED vars
    BY <2>1 DEF CallApplyConfig, CallApplySchedule, CallDisable, Call, vars, driver, history
  <2>2. CASE Validate \/ CheckId \/ EnableScheduler \/ Identify \/ WriteSchedule \/ SchedulersOff
    BY <2>2 DEF Validate, CheckId, EnableScheduler, Identify, WriteSchedule, SchedulersOff, driver, history
  <2>3. CASE SetInit \/ LockState \/ UnlockInit \/ Interrupted
    BY <2>3 DEF SetInit, LockState, UnlockInit, Interrupted, driver, history
  <2>4. CASE WriteInit \/ RestartSchedulers \/ ReadActive
    BY <2>4 DEF WriteInit, RestartSchedulers, ReadActive, driver, history
  <2>5. QED
    BY <2>1, <2>2, <2>3, <2>4
<1>2. QED
  BY <1>1, TrafficStays DEF Life!vars

(* The tables of a module that works are not written.                      *)
LEMMA WriteTraffic ==
  ASSUME IInv, WriteTable \/ WriteFails \/ WriteScatterLosesError \/ DevicesOff
  PROVE  UNCHANGED Life!vars
<1> USE DEF IInv
<1>1. UNCHANGED <<enabled, active, raced>>
  BY DEF WriteTable, WriteFails, WriteScatterLosesError, DevicesOff, history
<1>2. ASSUME NEW m \in Modules, ~Off(m) PROVE hw'[<<"const", m>>] = hw[<<"const", m>>]
  <2>1. <<"const", m>> \in Tables /\ <<"const", m>> \in TablesOf(m) /\ <<"const", m>> # <<"alias">>
    BY TablesApart
  <2>2. CASE DevicesOff
    BY <2>1, <2>2 DEF DevicesOff, TypeOK
  <2>3. CASE WriteTable \/ WriteFails \/ WriteScatterLosesError
    <3>1. AtStep("write") /\ \E content : hw' = [hw EXCEPT ![Arg] = content]
      BY <2>3 DEF WriteTable, WriteFails, WriteScatterLosesError
    <3>2. /\ Configuring /\ config \in Configs /\ Pos \in 15 .. FinishAt(config) - 1
          /\ Arg \in TablesOf(m) => \A j \in 15 .. Pos - 1 : Plan[j] # Module("enable", m)
      BY <3>1, WriteAt
    <3>3. Pos \in 11 .. FinishAt(config)
      BY <3>2, ConfigRange
    <3>4. Arg \notin TablesOf(m)
      BY <1>2, <3>2, <3>3 DEF RemovedIsOff
    <3>5. QED
      BY <2>1, <3>1, <3>4 DEF TypeOK
  <2>4. QED
    BY <2>2, <2>3
<1>3. QED
  BY <1>1, <1>2, TrafficStays DEF Life!vars

(* Applying, stopping, restarting and removing configurations is starting, *)
(* stopping, resuming and forgetting traffic.                              *)
LEMMA StepImplements ==
  ASSUME IInv, IInv', [Next]_vars
  PROVE  [Life!Next]_Life!vars
<1> USE DEF IInv
<1> DEFINE Nothing == [m \in Modules |-> None]
<1>1. AtWork(enabled)' \in [Modules -> Life!ConfigOrOff] /\ AtWork(active)' \in [Modules -> Life!ConfigOrOff]
  <2>1. (IInv => AtWork(enabled) \in [Modules -> Configs \cup {None}]
                  /\ AtWork(active) \in [Modules -> Configs \cup {None}])'
    BY TrafficTyped, PTL
  <2>2. QED
    BY <2>1 DEF Life!ConfigOrOff
<1>2. ASSUME raced' PROVE Life!Next
  BY <1>1, <1>2 DEF Life!Next, Life!Race
<1>3. ASSUME UNCHANGED raced, AtWork(enabled)' = Nothing, AtWork(active)' = Nothing PROVE Life!Next
  BY <1>3 DEF Life!Next, Life!Forget
<1>4. CASE EnableModule
  <2>1. AtStep("enable") /\ UNCHANGED <<active, hw, raced>>
    BY <1>4 DEF EnableModule, history
  <2>2. /\ config \in Configs /\ Configuring /\ Pos \in 15 .. FinishAt(config) - 1
        /\ TheModule \in Modules
        /\ \A j \in 15 .. Pos - 1 : Plan[j] # Module("enable", TheModule)
        /\ \A t \in TablesOf(TheModule) : \E j \in 15 .. Pos - 1 : Plan[j] = Write(t)
    BY <2>1, EnableAt
  <2>3. Off(TheModule)
    <3>1. Pos \in 11 .. FinishAt(config)
      BY <2>2, ConfigRange
    <3>2. QED
      BY <2>2, <3>1 DEF RemovedIsOff
  <2>4. hw[<<"const", TheModule>>] = config
    <3>1. <<"const", TheModule>> \in TablesOf(TheModule) /\ <<"const", TheModule>> \in Tables
      BY <2>2, TablesApart
    <3>2. WrittenBy(<<"const", TheModule>>, config)
      BY <2>2, <3>1 DEF WrittenSoFar
    <3>3. QED
      BY <3>2 DEF WrittenBy
  <2>5. AtWork(active)' = AtWork(active)
    BY <2>1 DEF AtWork
  <2>6. CASE UNCHANGED enabled
    BY <2>1, <2>5, <2>6 DEF Life!vars, AtWork
  <2>7. CASE enabled' = [enabled EXCEPT ![TheModule] = TRUE]
    <3>1. AtWork(enabled)[TheModule] = None
      BY <2>2, <2>3 DEF AtWork, Off
    <3>2. AtWork(enabled)' = [AtWork(enabled) EXCEPT ![TheModule] = config]
      BY <2>1, <2>2, <2>4, <2>7 DEF AtWork, TypeOK
    <3>3. Life!Start(TheModule, config)
      BY <2>1, <2>5, <3>1, <3>2 DEF Life!Start
    <3>4. QED
      BY <2>2, <3>3 DEF Life!Next
  <2>8. QED
    BY <1>4, <2>6, <2>7 DEF EnableModule
<1>5. CASE EndConfig
  <2>1. active' = enabled /\ UNCHANGED <<enabled, hw, raced>>
    BY <1>5 DEF EndConfig, RecordActive
  <2>2. AtWork(active)' = AtWork(enabled) /\ AtWork(enabled)' = AtWork(enabled)
    BY <2>1 DEF AtWork
  <2>3. QED
    BY <2>1, <2>2 DEF Life!Next, Life!Keep
<1>6. CASE ModulesOff
  <2>1. enabled' = AllOff /\ active' = AllOff /\ raced' = (raced \/ op.was)
    BY <1>6 DEF ModulesOff
  <2>2. AtWork(enabled)' = Nothing /\ AtWork(active)' = Nothing
    BY <2>1 DEF AtWork, AllOff
  <2>3. raced' \/ UNCHANGED raced
    BY <2>1 DEF TypeOK
  <2>4. QED
    BY <1>2, <1>3, <2>2, <2>3
<1>7. CASE Reset
  <2>1. UNCHANGED <<active, raced>> /\ (ResetHardware \/ UNCHANGED <<enabled, hw>>)
    BY <1>7 DEF Reset
  <2>2. CASE ResetHardware
    <3>1. AtWork(enabled)' = Nothing /\ AtWork(active)' = Nothing
      <4>1. ASSUME NEW m \in Modules PROVE hw'[<<"const", m>>] = None
        <5>1. <<"const", m>> \in Tables
          BY TablesApart
        <5>2. QED
          BY <2>2, <5>1 DEF ResetHardware
      <4>2. QED
        BY <4>1 DEF AtWork
    <3>2. QED
      BY <1>3, <2>1, <3>1
  <2>3. CASE UNCHANGED <<enabled, hw>>
    BY <2>1, <2>3, TrafficStays DEF Life!vars
  <2>4. QED
    BY <2>1, <2>2, <2>3
<1>8. CASE Cleanup
  <2>1. /\ UNCHANGED <<enabled, active, raced>>
        /\ hw' = [t \in Tables |-> IF t[1] \in {"mode", "speed"} THEN hw[t] ELSE None]
    BY <1>8 DEF Cleanup
  <2>2. ASSUME NEW m \in Modules PROVE hw'[<<"const", m>>] = None
    <3>1. <<"const", m>> \in Tables
      BY TablesApart
    <3>2. <<"const", m>>[1] \notin {"mode", "speed"}
      OBVIOUS
    <3>3. QED
      BY <2>1, <3>1, <3>2
  <2>3. AtWork(enabled)' = Nothing /\ AtWork(active)' = Nothing
    BY <2>2 DEF AtWork
  <2>4. QED
    BY <1>3, <2>1, <2>3
<1>9. CASE StopRunning
  <2>1. enabled' = AllOff /\ UNCHANGED <<active, hw, raced>>
    BY <1>9 DEF StopRunning
  <2>2. AtWork(enabled)' = [m \in Modules |-> IF m \in Modules THEN None ELSE AtWork(enabled)[m]]
    BY <2>1 DEF AtWork, AllOff
  <2>3. AtWork(active)' = AtWork(active)
    BY <2>1 DEF AtWork
  <2>4. Life!Stop
    BY <2>1, <2>2, <2>3 DEF Life!Stop
  <2>5. QED
    BY <2>4 DEF Life!Next
<1>10. CASE RestartModule
  <2>1. op.do = "write" /\ enabled' = [enabled EXCEPT ![op.m] = op.was] /\ UNCHANGED <<active, hw, raced>>
    BY <1>10 DEF RestartModule, history
  <2>2. CASE raced
    BY <1>2, <2>1, <2>2
  <2>3. CASE ~raced
    <3>1. op.was = active[op.m] /\ op.m \in Modules
      BY <2>1, <2>3 DEF RestartWritesActive, TypeOK
    <3>2. AtWork(enabled)' = [AtWork(enabled) EXCEPT ![op.m] = AtWork(active)[op.m]]
      BY <2>1, <3>1 DEF AtWork, TypeOK
    <3>3. AtWork(active)' = AtWork(active)
      BY <2>1 DEF AtWork
    <3>4. Life!Resume(op.m)
      BY <2>1, <3>2, <3>3 DEF Life!Resume
    <3>5. QED
      BY <3>1, <3>4 DEF Life!Next
  <2>4. QED
    BY <2>2, <2>3
<1>11. CASE WriteTable \/ WriteFails \/ WriteScatterLosesError \/ DevicesOff
  BY <1>11, WriteTraffic
<1>12. CASE \/ CallApplyConfig \/ CallApplySchedule \/ CallDisable
            \/ Validate \/ CheckId \/ EnableScheduler \/ Identify \/ WriteSchedule \/ SchedulersOff
            \/ SetInit \/ LockState \/ UnlockInit \/ Interrupted
            \/ WriteInit \/ RestartSchedulers \/ ReadActive \/ UNCHANGED vars
  BY <1>12, QuietTraffic
<1>13. QED
  BY <1>4, <1>5, <1>6, <1>7, <1>8, <1>9, <1>10, <1>11, <1>12 DEF Next, Library, Restart

(* AcmState implements AcmConfigLife.                                      *)
THEOREM LifeImplemented == Spec => ImplementsLife
<1>1. Init => Life!Init
  BY DEF Init, Life!Init, AtWork
<1>2. IInv /\ IInv' /\ [Next]_vars => [Life!Next]_Life!vars
  BY StepImplements
<1>3. QED
  BY <1>1, <1>2, InvariantHolds, PTL DEF Spec, ImplementsLife, Life!Spec
=============================================================================
