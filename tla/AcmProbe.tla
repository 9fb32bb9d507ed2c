------------------------------- MODULE AcmProbe --------------------------------
(***************************************************************************)
(* The life of the driver's parts (main.c): what acm_probe() initialises   *)
(* in which order, what it undoes when a step fails, and what acm_remove() *)
(* undoes.  A step either succeeds or fails with an error of its own; a    *)
(* kernel function that undoes a step is part of the label it is called at.*)
(***************************************************************************)
EXTENDS Naturals, SequencesExt

\* The steps of acm_probe() that can fail, after the device tree was looked at.
ProbeSteps ==
  << "workqueue", "commreg", "reset", "bypass", "scheduler", "redundancy", "msgbuf",
     "device", "region", "devices", "sysfs", "state" >>

Step(part) == CHOOSE i \in DOMAIN ProbeSteps : ProbeSteps[i] = part

\* The labels of its end, in the order they are passed.
CleanupLabels ==
  << "sysfs", "devices", "region", "device", "msgbuf", "redundancy", "scheduler", "bypass",
     "reset", "commreg", "workqueue" >>

\* The label a failed step goes to names the first part that is undone.
FailedGoesTo(part) ==
  IF part = "workqueue" THEN "out" ELSE ProbeSteps[Step(part) - 1]

\* A failed acm_dev_create() returns the character devices before it goes to the label
\* that does so.
UndoneAtOnce(part) == IF part = "devices" THEN << "region" >> ELSE << >>

From(label) ==
  IF label = "out" THEN << >>
  ELSE SubSeq(CleanupLabels, CHOOSE i \in DOMAIN CleanupLabels : CleanupLabels[i] = label,
              Len(CleanupLabels))

Undone(part) == UndoneAtOnce(part) \o From(FailedGoesTo(part))

\* alloc_workqueue() returns no error, and ret is still 0 then.
ProbeResult(part, error) == IF part = "workqueue" THEN 0 ELSE error

-----------------------------------------------------------------------------
(* acm_sysfs_init() and its labels; the groups are created in one call. *)

SysfsGroups == << "control", "config", "error", "status", "diag", "groups" >>

SysfsUndone(group) ==
  Reverse(SubSeq(SysfsGroups, 1, (CHOOSE i \in DOMAIN SysfsGroups : SysfsGroups[i] = group) - 1))

-----------------------------------------------------------------------------
(* acm_remove(); the sysfs files go with the device. *)

Removed ==
  << "state", "devices", "region", "device", "msgbuf", "redundancy", "scheduler", "bypass",
     "reset", "commreg", "workqueue" >>

\* What a part needs once its step was done: the poll work of a bypass module asks the
\* scheduler for the time, the recovery work reads the modules, and files and devices
\* reach everything; acm_dev_create() only makes a list of inactive devices.
Needs(part) ==
  CASE part = "bypass" -> {"workqueue", "scheduler"}
    [] part = "redundancy" -> {"workqueue", "bypass"}
    [] part = "devices" -> {"commreg", "region"}
    [] part = "sysfs" -> ToSet(ProbeSteps) \ {"sysfs"}
    [] OTHER -> {}

\* Until which step of acm_remove() a part is at work: works end in the exit functions,
\* files when the device is unregistered.
EndsWith(part) == IF part = "sysfs" THEN "device" ELSE part
=============================================================================
