------------------------------ MODULE AcmStreams ------------------------------
(***************************************************************************)
(* The object graph of libacmconfig: streams, the references between them, *)
(* the modules they are added to and the configurations that hold the      *)
(* modules (ngn.acm-config/src: stream.c, module.c, config.c).             *)
(*                                                                         *)
(* One action is one call of the public API.  A call that fails before it  *)
(* changes anything is a stuttering step.  Checks on data this module does *)
(* not hold (frame sizes, buffer names, periods, scheduling gaps, memory,  *)
(* files of the driver) may go either way: an action takes their outcome   *)
(* as a parameter, so every error path behind them is explored.            *)
(***************************************************************************)
EXTENDS Naturals, FiniteSets

CONSTANTS
  Streams,       \* the streams the application creates
  Modules,       \* the modules it creates
  Configs,       \* the configurations it creates
  Null,          \* the NULL pointer
  Kind,          \* the type each stream is created with
  ModuleId,      \* the module_id each module is created with
  MaxRedundant,  \* ACM_MAX_REDUNDANT_STREAMS: entries of the redundancy table
  MaxLookup,     \* ACM_MAX_LOOKUP_ITEMS: entries of the lookup table
  MaxWindows     \* bound: schedule entries the application adds to a stream

INGRESS_TRIGGERED_STREAM == "INGRESS_TRIGGERED_STREAM"
TIME_TRIGGERED_STREAM == "TIME_TRIGGERED_STREAM"
EVENT_STREAM == "EVENT_STREAM"
RECOVERY_STREAM == "RECOVERY_STREAM"
REDUNDANT_STREAM_TX == "REDUNDANT_STREAM_TX"
REDUNDANT_STREAM_RX == "REDUNDANT_STREAM_RX"

\* The types an application can ask for; the redundant ones are conversions.
Kinds == { INGRESS_TRIGGERED_STREAM, TIME_TRIGGERED_STREAM,
           EVENT_STREAM, RECOVERY_STREAM }
RedundantTypes == { REDUNDANT_STREAM_TX, REDUNDANT_STREAM_RX }
LookupTypes == { INGRESS_TRIGGERED_STREAM, REDUNDANT_STREAM_RX }
StreamTypes == Kinds \cup RedundantTypes
ChildKinds == { EVENT_STREAM, RECOVERY_STREAM }

MODULE_IDS == 0 .. 1   \* ACM_MODULES_COUNT modules: MODULE_0 and MODULE_1

ASSUME NullAssumption == Null \notin Streams \cup Modules \cup Configs
ASSUME DisjointAssumption ==
  /\ Streams \cap Modules = {}
  /\ Streams \cap Configs = {}
  /\ Modules \cap Configs = {}
ASSUME KindAssumption == Kind \in [Streams -> Kinds]
ASSUME ModuleIdAssumption == ModuleId \in [Modules -> MODULE_IDS]
ASSUME LimitAssumption ==
  /\ MaxRedundant \in Nat /\ MaxLookup \in Nat /\ MaxWindows \in Nat

VARIABLES
  live,                 \* the objects that are allocated
  type,                 \* stream->type
  reference,            \* stream->reference: the child stream
  reference_parent,     \* stream->reference_parent
  reference_redundant,  \* stream->reference_redundant: the other of a pair
  entry,                \* ACMLIST_REF(stream, entry): the module listing it
  windows,              \* number of entries of stream->windows
  bypass,               \* config->bypass[]: the modules of a configuration
  config_reference,     \* module->config_reference
  config_applied,       \* config->config_applied
  use_after_free        \* a call has followed a pointer to a freed object

streamVars == <<type, reference, reference_parent, reference_redundant,
                entry, windows>>
configVars == <<bypass, config_reference, config_applied>>
vars == <<live, streamVars, configVars, use_after_free>>

-----------------------------------------------------------------------------
(* Helpers *)

LiveStreams == Streams \cap live
StreamsOf(m) == { s \in Streams : entry[s] = m }

\* A pointer to an object that has been freed.
Freed(p) == p # Null /\ p \notin live

\* Some stream listed by m has a pair whose other half has been freed: reading
\* or writing through reference_redundant of the streams of m is an error.
PairFreed(m) ==
  \E s \in StreamsOf(m) : type[s] \in RedundantTypes /\ Freed(reference_redundant[s])

\* The module of s points to a configuration that has been freed.
ConfigFreed(s) == entry[s] # Null /\ Freed(config_reference[entry[s]])

\* (Deviation: an applied configuration is not protected.)
NeverApplied(s) == FALSE

\* stream_config_applied()
Applied(s) ==
  IF entry[s] = Null \/ config_reference[entry[s]] = Null THEN FALSE
  ELSE config_applied[config_reference[entry[s]]]

\* (Deviation: one lookup entry too many.)
WithinLimitsOffByOne(m, ty, en) ==
  Cardinality({ s \in Streams : en[s] = m /\ ty[s] \in LookupTypes }) <= MaxLookup + 1

\* The limits validate_module() enforces on the numbers of streams of a module
\* that have the types ty and are listed by the modules en.
WithinLimits(m, ty, en) ==
  /\ 1 + Cardinality({ s \in Streams : en[s] = m /\ ty[s] \in RedundantTypes }) <= MaxRedundant
  /\ Cardinality({ s \in Streams : en[s] = m /\ ty[s] \in LookupTypes }) <= MaxLookup

-----------------------------------------------------------------------------
(* The state after the application has created its objects. *)
Init ==
  /\ live = Streams \cup Modules \cup Configs
  /\ type = Kind
  /\ reference = [s \in Streams |-> Null]
  /\ reference_parent = [s \in Streams |-> Null]
  /\ reference_redundant = [s \in Streams |-> Null]
  /\ entry = [s \in Streams |-> Null]
  /\ windows = [s \in Streams |-> 0]
  /\ bypass = [c \in Configs |-> [i \in MODULE_IDS |-> Null]]
  /\ config_reference = [m \in Modules |-> Null]
  /\ config_applied = [c \in Configs |-> FALSE]
  /\ use_after_free = FALSE

-----------------------------------------------------------------------------
(* acm_set_reference_stream() *)

\* (Deviation: the reference may have a parent already.)
ReferenceAllowedTwice(s, r) ==
  /\ {s, r} \subseteq live /\ reference[s] = Null
  /\ reference_redundant[s] = Null /\ reference_redundant[r] = Null
  /\ ~ConfigFreed(s) /\ ~Applied(s)

\* The early returns common to all combinations of types.
ReferenceAllowed(s, r) ==
  /\ {s, r} \subseteq live
  /\ reference[s] = Null /\ reference_parent[r] = Null
  /\ reference_redundant[s] = Null /\ reference_redundant[r] = Null
  /\ ~ConfigFreed(s) /\ ~Applied(s)

IsParentChild(s, r) ==
  \/ type[s] = EVENT_STREAM /\ type[r] = RECOVERY_STREAM
  \/ type[s] = INGRESS_TRIGGERED_STREAM /\ type[r] = EVENT_STREAM

\* Ingress triggered to event stream, event to recovery stream.  If the parent
\* is in a module the child (not the child of the child) is added to its list.
SetChild(s, r) ==
  /\ ReferenceAllowed(s, r) /\ IsParentChild(s, r)
  /\ entry[s] # Null => entry[r] = Null
  /\ LET en == [entry EXCEPT ![r] = IF entry[s] = Null THEN @ ELSE entry[s]]
     IN  /\ entry[s] # Null => WithinLimits(entry[s], type, en)
         /\ entry' = en
  /\ reference' = [reference EXCEPT ![s] = r]
  /\ reference_parent' = [reference_parent EXCEPT ![r] = s]
  /\ UNCHANGED <<live, type, reference_redundant, windows, configVars, use_after_free>>

\* (Deviation: only the type of the first stream is looked at.)
PairTypeOfFirst(s, r) ==
  IF type[s] = INGRESS_TRIGGERED_STREAM THEN REDUNDANT_STREAM_RX ELSE REDUNDANT_STREAM_TX

\* The type two streams get when they are made a redundant pair.
PairType(s, r) ==
  CASE type[s] = TIME_TRIGGERED_STREAM /\ type[r] = TIME_TRIGGERED_STREAM
         -> REDUNDANT_STREAM_TX
    [] type[s] = INGRESS_TRIGGERED_STREAM /\ type[r] = INGRESS_TRIGGERED_STREAM
         -> REDUNDANT_STREAM_RX
    [] OTHER -> "none"

\* (Deviation: two streams of one module may be a pair.)
PairPlacementSameModule(s, r) ==
  entry[s] # Null /\ entry[r] # Null =>
    \/ Null \in { config_reference[entry[s]], config_reference[entry[r]] }
    \/ config_reference[entry[s]] = config_reference[entry[r]]

\* validate_stream(): the configuration and the module of a pair's two halves.
PairPlacement(s, r) ==
  entry[s] # Null /\ entry[r] # Null =>
    /\ entry[s] # entry[r]
    /\ \/ Null \in { config_reference[entry[s]], config_reference[entry[r]] }
       \/ config_reference[entry[s]] = config_reference[entry[r]]

\* Time triggered to time triggered stream, ingress triggered to ingress
\* triggered stream.  Only s and its module are validated, not those of r; the
\* module of s lists no freed pair, whose index calculate_redundancy_indizes()
\* would write.
SetRedundant(s, r) ==
  /\ ReferenceAllowed(s, r)
  /\ PairType(s, r) # "none"
  /\ PairPlacement(s, r)
  /\ LET ty == [x \in Streams |-> IF x \in {s, r} THEN PairType(s, r) ELSE type[x]]
     IN  /\ entry[s] # Null => WithinLimits(entry[s], ty, entry) /\ ~PairFreed(entry[s])
         /\ type' = ty
  /\ reference_redundant' = [reference_redundant EXCEPT ![s] = r, ![r] = s]
  /\ UNCHANGED <<live, reference, reference_parent, entry, windows,
                 configVars, use_after_free>>

-----------------------------------------------------------------------------
(* acm_destroy_stream() *)

\* (Deviation: a child can be destroyed.)
DeletableChild(s) == entry[s] = Null

\* stream_delete() stops, without an effect, at a stream in a module and at an
\* event or recovery stream that still has a parent.
Deletable(s) ==
  /\ entry[s] = Null
  /\ ~(type[s] \in ChildKinds /\ reference_parent[s] # Null)

\* The streams a call destroys: s and, as far as they are in no module, the
\* child of s and the child of that child.
DeletedWith(s) ==
  LET child == reference[s]
      grandchild == IF child = Null THEN Null ELSE reference[child]
  IN  { s } \cup { x \in { child } : x # Null /\ entry[x] = Null }
            \cup { x \in { grandchild } : x # Null /\ entry[child] = Null /\ entry[x] = Null }

\* (Deviation: the other half of the pair keeps its type.)
TypeWithoutPartner(s) == type[s]

\* The other half of a redundant pair is reconverted.
UnpairedType(s) == TIME_TRIGGERED_STREAM

\* The other half of a redundant pair is kept, as a time triggered stream.  The
\* fields of the freed streams are reset: nobody reads them any more.
DestroyStream(s) ==
  LET gone == DeletedWith(s)
      partner == reference_redundant[s]
      clear(f) == [x \in Streams |-> IF x \in gone THEN Null ELSE f[x]]
  IN  /\ s \in live /\ Deletable(s) /\ ~Freed(partner)
      /\ live' = live \ gone
      /\ type' = [x \in Streams |->
                    IF x \in gone THEN Kind[x]
                    ELSE IF x = partner THEN UnpairedType(x) ELSE type[x]]
      /\ reference' = clear(reference)
      /\ reference_parent' = [x \in Streams |->
           IF x \in gone \/ reference_parent[x] \in gone THEN Null ELSE reference_parent[x]]
      /\ reference_redundant' = [x \in Streams |->
           IF x \in gone \/ x = partner THEN Null ELSE reference_redundant[x]]
      /\ windows' = [x \in Streams |-> IF x \in gone THEN 0 ELSE windows[x]]
      /\ UNCHANGED <<entry, configVars, use_after_free>>

-----------------------------------------------------------------------------
(* acm_add_module_stream() *)

\* (Deviation: a child stream can be added by itself.)
StreamAddableAnyType(m, s) ==
  /\ {m, s} \subseteq live
  /\ ~Freed(config_reference[m])
  /\ config_reference[m] # Null => ~config_applied[config_reference[m]]
  /\ entry[s] = Null

StreamAddable(m, s) ==
  /\ {m, s} \subseteq live
  /\ ~Freed(config_reference[m])
  /\ config_reference[m] # Null => ~config_applied[config_reference[m]]
  /\ type[s] \in { INGRESS_TRIGGERED_STREAM, TIME_TRIGGERED_STREAM }
  /\ entry[s] = Null

\* The streams the call adds after s, in this order: the event stream of an
\* ingress triggered stream and the recovery stream of the event stream.
FirstChild(s) == IF type[s] = INGRESS_TRIGGERED_STREAM THEN reference[s] ELSE Null
SecondChild(s) == IF FirstChild(s) = Null THEN Null ELSE reference[FirstChild(s)]

\* What the call adds: s, the first child and the second child, or only the first
\* of them, if it fails in the middle.
AddedPrefixes(s) ==
  { {s}, {s, FirstChild(s)} \ {Null}, {s, FirstChild(s), SecondChild(s)} \ {Null} }

\* Each stream is added to the end of the list, the module is validated and, for
\* a time triggered stream, the redundancy indexes of the list are computed.
AddModuleStream(m, s, added) ==
  /\ StreamAddable(m, s)
  /\ added \in AddedPrefixes(s)
  /\ \A x \in added : entry[x] = Null
  /\ LET en == [x \in Streams |-> IF x \in added THEN m ELSE entry[x]]
     IN  WithinLimits(m, type, en) /\ entry' = en
  /\ type[s] = TIME_TRIGGERED_STREAM => ~PairFreed(m)
  /\ UNCHANGED <<live, type, reference, reference_parent, reference_redundant,
                 windows, configVars, use_after_free>>

-----------------------------------------------------------------------------
(* acm_add_stream_schedule_event(), acm_add_stream_schedule_window() and       *)
(* acm_clean_schedule(): none of them looks at config_applied.                 *)

\* The schedule entry is put into stream->windows first; module_add_schedules()
\* refuses a stream that is in no module, or is not valid there, and the entry is
\* taken out again.
ScheduleValid(s) ==
  /\ entry[s] # Null /\ ~ConfigFreed(s)
  /\ type[s] \in RedundantTypes =>
       ~Freed(reference_redundant[s]) /\ PairPlacement(s, reference_redundant[s])
  /\ WithinLimits(entry[s], type, entry)

AddSchedule(s) ==
  /\ s \in live /\ type[s] \notin ChildKinds
  /\ ScheduleValid(s)
  /\ windows[s] < MaxWindows
  /\ windows' = [windows EXCEPT ![s] = @ + 1]
  /\ UNCHANGED <<live, type, reference, reference_parent, reference_redundant,
                 entry, configVars, use_after_free>>

CleanSchedule(s) ==
  /\ s \in live
  /\ windows' = [windows EXCEPT ![s] = 0]
  /\ UNCHANGED <<live, type, reference, reference_parent, reference_redundant,
                 entry, configVars, use_after_free>>

-----------------------------------------------------------------------------
(* acm_add_module(), acm_destroy_module(), acm_destroy() *)

\* (Deviation: a module can be added to a second configuration.)
ModuleAddableTwice(c, m) ==
  /\ {c, m} \subseteq live
  /\ ~config_applied[c]
  /\ bypass[c][ModuleId[m]] = Null

ModuleAddable(c, m) ==
  /\ {c, m} \subseteq live
  /\ ~config_applied[c]
  /\ bypass[c][ModuleId[m]] = Null
  /\ config_reference[m] = Null

AddModule(c, m) ==
  /\ ModuleAddable(c, m)
  /\ bypass' = [bypass EXCEPT ![c][ModuleId[m]] = m]
  /\ config_reference' = [config_reference EXCEPT ![m] = c]
  /\ UNCHANGED <<live, streamVars, config_applied, use_after_free>>

\* validate_config() fails: the slot is emptied but the module keeps its
\* pointer to the configuration.
AddModuleFails(c, m) ==
  /\ ModuleAddable(c, m)
  /\ config_reference' = [config_reference EXCEPT ![m] = c]
  /\ UNCHANGED <<live, streamVars, bypass, config_applied, use_after_free>>

\* module_destroy() of the modules ms: every stream in their lists is freed,
\* whatever points to it.
FreeModules(ms) ==
  LET gone == { s \in Streams : entry[s] \in ms }
      clear(f) == [x \in Streams |-> IF x \in gone THEN Null ELSE f[x]]
  IN  /\ type' = [x \in Streams |-> IF x \in gone THEN Kind[x] ELSE type[x]]
      /\ reference' = clear(reference)
      /\ reference_parent' = clear(reference_parent)
      /\ reference_redundant' = clear(reference_redundant)
      /\ entry' = clear(entry)
      /\ windows' = [x \in Streams |-> IF x \in gone THEN 0 ELSE windows[x]]

DestroyModule(m) ==
  /\ m \in live /\ config_reference[m] = Null
  /\ FreeModules({m})
  /\ live' = live \ ({m} \cup StreamsOf(m))
  /\ UNCHANGED <<configVars, use_after_free>>

DestroyConfig(c) ==
  LET ms == { m \in Modules : \E i \in MODULE_IDS : bypass[c][i] = m }
  IN  /\ c \in live
      /\ FreeModules(ms)
      /\ live' = live \ ({c} \cup ms \cup { s \in Streams : entry[s] \in ms })
      /\ bypass' = [bypass EXCEPT ![c] = [i \in MODULE_IDS |-> Null]]
      /\ config_reference' = [m \in Modules |-> IF m \in ms THEN Null ELSE config_reference[m]]
      /\ config_applied' = [config_applied EXCEPT ![c] = FALSE]
      /\ UNCHANGED use_after_free

-----------------------------------------------------------------------------
(* acm_apply_config() *)

ModulesOf(c) == { m \in Modules : \E i \in MODULE_IDS : bypass[c][i] = m }

\* The final validation of the pairs and of the table limits of configuration c.
PairsComplete(c) ==
  \A m \in ModulesOf(c) : \A s \in StreamsOf(m) :
    type[s] \in RedundantTypes =>
      LET r == reference_redundant[s]
      IN  entry[r] # Null /\ entry[r] # m /\ config_reference[entry[r]] = c

FinalValid(c) ==
  PairsComplete(c) /\ \A m \in ModulesOf(c) : WithinLimits(m, type, entry)

\* The configuration is valid and the driver took all of it.  (If the driver
\* refuses a part, config_applied keeps the value it had.)
Enable(c) ==
  /\ c \in live /\ \A m \in ModulesOf(c) : ~PairFreed(m)
  /\ FinalValid(c)
  /\ config_applied' = [config_applied EXCEPT ![c] = TRUE]
  /\ UNCHANGED <<live, streamVars, bypass, config_reference, use_after_free>>

\* A final validation that fails marks the configuration as not applied.
EnableFails(c) ==
  /\ c \in live /\ \A m \in ModulesOf(c) : ~PairFreed(m)
  /\ config_applied' = [config_applied EXCEPT ![c] = FALSE]
  /\ UNCHANGED <<live, streamVars, bypass, config_reference, use_after_free>>

-----------------------------------------------------------------------------
(* Undefined behaviour: a call follows a pointer to a freed object.  For every *)
(* such reference_redundant (acm_destroy_stream(), or for a listed stream      *)
(* acm_add_stream_schedule_*()) and every such config_reference                *)
(* (acm_add_module_stream()) there is one.  What the program does from there   *)
(* on is not modelled.                                                         *)
UseAfterFree ==
  /\ \/ \E s \in LiveStreams : Freed(reference_redundant[s])
     \/ \E m \in Modules \cap live : Freed(config_reference[m])
  /\ use_after_free' = TRUE
  /\ UNCHANGED <<live, streamVars, configVars>>

-----------------------------------------------------------------------------
SetReference(s, r) == SetChild(s, r) \/ SetRedundant(s, r)

AddStream(m, s) == \E added \in AddedPrefixes(s) : AddModuleStream(m, s, added)

Next ==
  /\ ~use_after_free
  /\ \/ \E s, r \in Streams : SetReference(s, r)
     \/ \E s \in Streams : DestroyStream(s)
     \/ \E m \in Modules, s \in Streams : AddStream(m, s)
     \/ \E s \in Streams : AddSchedule(s) \/ CleanSchedule(s)
     \/ \E c \in Configs, m \in Modules : AddModule(c, m) \/ AddModuleFails(c, m)
     \/ \E m \in Modules : DestroyModule(m)
     \/ \E c \in Configs : DestroyConfig(c) \/ Enable(c) \/ EnableFails(c)
     \/ UseAfterFree

Spec == Init /\ [][Next]_vars

-----------------------------------------------------------------------------
(* Properties *)

\* Every variable has a value of its type.  The type of a stream is the one it
\* was created with or, if it is no child, that of a conversion.
TypeOK ==
  /\ live \subseteq Streams \cup Modules \cup Configs
  /\ type \in [Streams -> StreamTypes]
  /\ \A s \in Streams :
       \/ type[s] = Kind[s]
       \/ Kind[s] \notin ChildKinds /\ type[s] \in RedundantTypes \cup {TIME_TRIGGERED_STREAM}
  /\ reference \in [Streams -> Streams \cup {Null}]
  /\ reference_parent \in [Streams -> Streams \cup {Null}]
  /\ reference_redundant \in [Streams -> Streams \cup {Null}]
  /\ entry \in [Streams -> Modules \cup {Null}]
  /\ windows \in [Streams -> 0 .. MaxWindows]
  /\ bypass \in [Configs -> [MODULE_IDS -> Modules \cup {Null}]]
  /\ config_reference \in [Modules -> Configs \cup {Null}]
  /\ config_applied \in [Configs -> BOOLEAN]
  /\ use_after_free \in BOOLEAN

\* The references of the streams, whatever sequence of calls led here, are
\* inverse to each other: a child is allocated and points back to its parent,
\* an ingress triggered stream has an event stream as child and an event stream
\* a recovery stream.  stream_delete() and the error path of
\* stream_set_reference() have to keep both ends equal.
ReferencesInverse ==
  \A s \in LiveStreams :
    /\ reference[s] # Null =>
         /\ reference[s] \in live /\ reference_parent[reference[s]] = s
         /\ Kind[s] = IF Kind[reference[s]] = EVENT_STREAM
                      THEN INGRESS_TRIGGERED_STREAM ELSE EVENT_STREAM
         /\ Kind[reference[s]] \in ChildKinds
    /\ reference_parent[s] \in live => reference[reference_parent[s]] = s

\* The two halves of a redundant pair that are allocated point to each other
\* and agree on the type; a stream has a redundant type exactly while it has a
\* partner.  All code that follows reference_redundant relies on it.
PairsInverse ==
  \A s \in LiveStreams :
    /\ (type[s] \in RedundantTypes) <=> (reference_redundant[s] # Null)
    /\ reference_redundant[s] \in live =>
         /\ reference_redundant[reference_redundant[s]] = s
         /\ type[reference_redundant[s]] = type[s]

\* A child is in the list of a module only together with its parent: the
\* indexes of the tables and the limits are computed per module, so a listed
\* event stream without its ingress stream would never be triggered.
ChildListedWithParent ==
  \A s \in LiveStreams :
    type[s] \in ChildKinds /\ entry[s] # Null =>
      reference_parent[s] \in live /\ entry[reference_parent[s]] = entry[s]

\* The two halves of a redundant pair are never in the same module, although
\* the pair can be made before or after its streams are added
\* (stream_set_reference(), acm_add_module_stream(), validate_stream()).
PairsSplit ==
  \A s \in LiveStreams :
    reference_redundant[s] \in live /\ entry[s] # Null =>
      entry[s] # entry[reference_redundant[s]]

\* A configuration holds allocated modules with the id of the slot that point
\* back to it, so a module is in one configuration at most.  The slot is the
\* only owner of the module: config_destroy() would free it twice.
SlotsConsistent ==
  \A c \in Configs, i \in MODULE_IDS :
    bypass[c][i] # Null =>
      /\ {c, bypass[c][i]} \subseteq live
      /\ ModuleId[bypass[c][i]] = i
      /\ config_reference[bypass[c][i]] = c

\* The list of a module is the only owner of its streams: both are allocated.
ListsAllocated ==
  \A s \in Streams : entry[s] # Null => {s, entry[s]} \subseteq live

\* Everything a configuration owns is allocated and owned once.
OwnedOnce == SlotsConsistent /\ ListsAllocated

\* The lookup table of a module can hold an entry for every stream the frames
\* of which its list looks up, also when types change while streams are listed.
LookupWithinLimit ==
  \A m \in Modules :
    Cardinality({ s \in StreamsOf(m) : type[s] \in LookupTypes }) <= MaxLookup

\* The streams of an applied configuration.
AppliedStreams(c) == { s \in Streams : entry[s] \in ModulesOf(c) }

\* stream_set_reference() for a stream outside of all applied configurations
\* makes the applied stream s the other half of its pair.
PairedFromOutside(s) ==
  /\ reference_redundant[s] = Null /\ reference_redundant'[s] \in live
  /\ \A c \in Configs : config_applied[c] => reference_redundant'[s] \notin AppliedStreams(c)
  /\ type[s] \in Kinds /\ type'[s] \in RedundantTypes

\* acm_destroy_stream() for the other half of s, which is in no module.
UnpairedFromOutside(s) ==
  /\ reference_redundant[s] \in live \ live' /\ entry[reference_redundant[s]] = Null
  /\ reference_redundant'[s] = Null /\ type'[s] = TIME_TRIGGERED_STREAM

\* What was written to the driver: while a configuration stays applied its
\* modules, their streams and the children and parents of these do not change,
\* and neither do their types and pairs, whichever stream a call is for.  The
\* exception is a partner that is not applied: only the first argument of
\* acm_set_reference_stream() is asked whether it is, and acm_destroy_stream()
\* does not ask for the other half.
AppliedFrozen ==
  [][\A c \in Configs : config_applied[c] /\ config_applied'[c] =>
       /\ bypass'[c] = bypass[c]
       /\ \A m \in ModulesOf(c) : StreamsOf(m)' = StreamsOf(m)
       /\ \A s \in AppliedStreams(c) :
            /\ reference'[s] = reference[s] /\ reference_parent'[s] = reference_parent[s]
            /\ \/ type'[s] = type[s] /\ reference_redundant'[s] = reference_redundant[s]
               \/ PairedFromOutside(s)
               \/ UnpairedFromOutside(s)
    ]_vars

\* acm_destroy_stream() leaves no pointer to what it has freed: neither in the
\* partner of a pair, nor in a parent or a child.
DestroyStreamLeavesNoPointer ==
  [][ live' # live /\ live \ live' \subseteq Streams =>
        \A s \in Streams \cap live' :
          /\ Freed(reference[s])' => Freed(reference[s])
          /\ Freed(reference_parent[s])' => Freed(reference_parent[s])
          /\ Freed(reference_redundant[s])' => Freed(reference_redundant[s])
    ]_vars
=============================================================================
