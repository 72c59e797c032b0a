---------------------------- MODULE ActionFilter ----------------------------
(***************************************************************************)
(* The volume action filter of storage.js (actionfilter, lines 5-50): the  *)
(* set of action names the list and detail views offer for one volume      *)
(* record.  The code builds an array by push; the views only test          *)
(* membership, so the result is modelled as a set.                         *)
(*                                                                         *)
(* A record is a JSON object returned by listVolumes or by a job result.   *)
(* An attribute the server left out reads as undefined in the code, which  *)
(* compares like null; both are the model value Null.                      *)
(***************************************************************************)
EXTENDS FiniteSets

CONSTANT Null

\* Attribute values a volume record can carry, Null meaning absent.
Hypervisors  == {"KVM", "Ovm", Null}
VolumeStates == {"Allocated", "Ready", "Creating", "Corrupted", Null}
VolumeTypes  == {"ROOT", "DATADISK", Null}
VmStates     == {"Running", "Stopped", "Destroyed", "Starting", Null}
StorageTypes == {"shared", "local", Null}
VolumeNames  == {"attaching", "data-1"}
VmIds        == {"vm-1", Null}
VmNames      == {"i-2-3-VM", "none", Null}

Records ==
    [hypervisor : Hypervisors, state : VolumeStates, name : VolumeNames,
     type : VolumeTypes, vmstate : VmStates, virtualmachineid : VmIds,
     storagetype : StorageTypes, vmname : VmNames]

ActionNames == {"takeSnapshot", "createTemplate", "detachDisk",
                "attachDisk", "delete"}

\* Mutant: the name # "attaching" test of line 21 dropped.
ActionableIgnoringName(r) ==
    r.state \notin {"Creating", "Corrupted"}

\* Line 21: the volume is neither being created, corrupted nor attaching.
Actionable(r) ==
    r.state \notin {"Creating", "Corrupted"} /\ r.name # "attaching"

\* {name} when cond holds: one allowedActions.push(name) under its guard.
Offer(name, cond) == IF cond THEN {name} ELSE {}

\* Lines 5-50, the nested ifs flattened into one guard per push.  The
\* state # "Allocated" branch (lines 14-19) only holds commented-out pushes.
actionfilter(r) ==
    LET root     == r.type = "ROOT"
        attached == r.virtualmachineid # Null
        shared   == r.storagetype = "shared"
    IN  Offer("takeSnapshot", r.hypervisor # "Ovm")
        \cup Offer("createTemplate",
                   Actionable(r) /\ root /\ r.vmstate = "Stopped")
        \cup Offer("detachDisk",
                   /\ Actionable(r) /\ ~root /\ attached /\ shared
                   /\ r.vmstate \in {"Running", "Stopped", "Destroyed"})
        \cup Offer("attachDisk", Actionable(r) /\ ~root /\ ~attached /\ shared)
        \cup Offer("delete",
                   /\ Actionable(r) /\ ~root /\ ~attached /\ shared
                   /\ r.vmname \in {Null, "none"})

=============================================================================
