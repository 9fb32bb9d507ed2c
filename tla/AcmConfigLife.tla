---------------------------- MODULE AcmConfigLife ----------------------------
(***************************************************************************)
(* What applying, stopping, restarting and removing configurations promises*)
(* of the traffic: which configuration each module processes frames with.  *)
(* AcmState implements it.                                                 *)
(***************************************************************************)
CONSTANTS
  Modules,   \* the bypass modules
  Configs,   \* the configurations
  Off        \* a module that processes no frames

VARIABLES
  traffic,   \* the configuration a module processes frames with, or Off
  kept,      \* the one a restart resumes, or Off
  raced      \* a restart overlapped a removal: nothing is promised any more

vars == <<traffic, kept, raced>>

ConfigOrOff == Configs \cup {Off}

TypeOK ==
  /\ traffic \in [Modules -> ConfigOrOff]
  /\ kept \in [Modules -> ConfigOrOff]
  /\ raced \in BOOLEAN

Init ==
  /\ traffic = [m \in Modules |-> Off]
  /\ kept = [m \in Modules |-> Off]
  /\ raced = FALSE

\* A configuration is put to work only on a module that is off: a module never
\* changes from one configuration to another while it processes frames.
Start(m, c) ==
  /\ traffic[m] = Off
  /\ traffic' = [traffic EXCEPT ![m] = c]
  /\ UNCHANGED <<kept, raced>>

\* The end of the configuration phase: from now on a restart resumes this.
Keep ==
  /\ kept' = traffic
  /\ UNCHANGED <<traffic, raced>>

\* Modules may be stopped at any time, together or one after the other.
Stop ==
  /\ \E M \in SUBSET Modules : traffic' = [m \in Modules |-> IF m \in M THEN Off ELSE traffic[m]]
  /\ UNCHANGED <<kept, raced>>

\* A restart takes a module back to what was kept of it, and to nothing else.
Resume(m) ==
  /\ traffic' = [traffic EXCEPT ![m] = kept[m]]
  /\ UNCHANGED <<kept, raced>>

\* A removal: nothing is left to resume.
Forget ==
  /\ traffic' = [m \in Modules |-> Off]
  /\ kept' = [m \in Modules |-> Off]
  /\ UNCHANGED raced

\* After a race any configuration, or none, may be at work.
Race ==
  /\ raced'
  /\ traffic' \in [Modules -> ConfigOrOff]
  /\ kept' \in [Modules -> ConfigOrOff]

Next ==
  \/ \E m \in Modules, c \in Configs : Start(m, c)
  \/ Keep
  \/ Stop
  \/ \E m \in Modules : Resume(m)
  \/ Forget
  \/ Race

Spec == Init /\ [][Next]_vars
=============================================================================
