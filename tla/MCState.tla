------------------------------ MODULE MCState ------------------------------
(***************************************************************************)
(* Two configurations: one with both modules, one with the first only; and *)
(* the sequences of AcmProbe.                                              *)
(***************************************************************************)
EXTENDS AcmState, AcmProbe, TLC
CONSTANTS c1, c2

TwoConfigs == {c1, c2}
TwoConfigsOrNone == {c1, c2, None}
BothAndOne == (c1 :> {0, 1}) @@ (c2 :> {0})

-----------------------------------------------------------------------------
Before(part) == SubSeq(ProbeSteps, 1, Step(part) - 1)

(* A probe that fails undoes what it did in the opposite order, and fails; *)
(* but the character devices are returned twice when the list of devices   *)
(* was not allocated, and a probe without a work queue succeeds.           *)
ASSUME ProbeUndone ==
    \A part \in ToSet(ProbeSteps) :
        /\ Undone(part) = UndoneAtOnce(part) \o Reverse(Before(part))
        /\ (UndoneAtOnce(part) = << >>) = (part # "devices")
        /\ (ProbeResult(part, -12) = 0) = (part = "workqueue")

ASSUME SysfsUndoneInOrder ==
    \A i \in DOMAIN SysfsGroups :
        SysfsUndone(SysfsGroups[i]) = Reverse(SubSeq(SysfsGroups, 1, i - 1))

At(sequence, part) ==
    CHOOSE i \in DOMAIN sequence : sequence[i] = part

(* The removal undoes every step but the files in the opposite order.      *)
ASSUME RemovedInOrder ==
    Removed = Reverse(SelectSeq(ProbeSteps, LAMBDA part : part # "sysfs"))

(* The parts that are at work before what they use is initialised: the     *)
(* poll works, which find no scheduler and take time 0, and the files,     *)
(* whose functions find no state.                                          *)
ASSUME UsedBeforeProbed ==
    {<<part, used>> \in ToSet(ProbeSteps) \X ToSet(ProbeSteps) :
        used \in Needs(part) /\ Step(used) > Step(part)}
      = {<<"bypass", "scheduler">>, <<"sysfs", "state">>}

(* The parts at work after what they use was undone: a write to a file can *)
(* still make the devices active that were just removed.                   *)
ASSUME UsedAfterRemoved ==
    {<<part, used>> \in ToSet(ProbeSteps) \X (ToSet(ProbeSteps) \ {"sysfs"}) :
        /\ used \in Needs(part)
        /\ At(Removed, used) < At(Removed, EndsWith(part))}
      = {<<"bypass", "scheduler">>, <<"sysfs", "state">>,
         <<"sysfs", "devices">>, <<"sysfs", "region">>}
=============================================================================
