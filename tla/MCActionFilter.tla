--------------------------- MODULE MCActionFilter ---------------------------
(***************************************************************************)
(* Checks the action filter of storage.js against the decision table of    *)
(* the spec (section 4.1) over every record the attribute domains allow.   *)
(* The single variable holds the record under test; every record is an    *)
(* initial state and no step changes it.                                   *)
(***************************************************************************)
EXTENDS ActionFilter

VARIABLE rec

Init == rec \in Records
Next == UNCHANGED rec
Spec == Init /\ [][Next]_rec

\* The spec's table (4.1), row by row, read as written there.
SameGuard(r) ==
    r.state \notin {"Creating", "Corrupted"} /\ r.name # "attaching"
TableActions(r) ==
    { a \in ActionNames :
        \/ a = "takeSnapshot" /\ r.hypervisor # "Ovm"
        \/ a = "createTemplate" /\ SameGuard(r) /\ r.type = "ROOT"
                                /\ r.vmstate = "Stopped"
        \/ a = "detachDisk" /\ SameGuard(r) /\ r.type # "ROOT"
                            /\ r.virtualmachineid # Null
                            /\ r.storagetype = "shared"
                            /\ r.vmstate \in {"Running", "Stopped", "Destroyed"}
        \/ a = "attachDisk" /\ SameGuard(r) /\ r.type # "ROOT"
                            /\ r.virtualmachineid = Null
                            /\ r.storagetype = "shared"
        \/ a = "delete" /\ SameGuard(r) /\ r.type # "ROOT"
                        /\ r.virtualmachineid = Null
                        /\ r.storagetype = "shared"
                        /\ r.vmname \in {Null, "none"} }

\* A record whose state and type are values the server really sends.
Recognised(r) == r.state # Null /\ r.type # Null

\* For every record with a recognised state and type, actionfilter offers
\* exactly the actions of the spec's decision table: no attach, detach or
\* delete on a ROOT disk, no second attach of an attached disk, nothing
\* while the volume is Creating, Corrupted or named "attaching".
ActionFilterMatchesTable ==
    Recognised(rec) => actionfilter(rec) = TableActions(rec)

\* Spec 4.1, edge case: a record whose state or type is unset "falls
\* through to no actions for the blocked branches" (fails closed): none of
\* createTemplate, detachDisk, attachDisk or delete is offered for it.
FailsClosed ==
    ~Recognised(rec) =>
        actionfilter(rec) \cap {"createTemplate", "detachDisk",
                                "attachDisk", "delete"} = {}

=============================================================================
