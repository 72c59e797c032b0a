----------------------------- MODULE VolumeSpec -----------------------------
(***************************************************************************)
(* What the volume list of storage.js promises (spec 3, 4.2): each volume  *)
(* row follows one life-cycle, detached <-> attached, detached -> deleted, *)
(* one step per completed action, and never goes back to an earlier        *)
(* record.  ver counts attach and detach steps; a deleted volume keeps its *)
(* last version.  takeSnapshot, a failed action and a request still in     *)
(* flight change nothing.                                                  *)
(***************************************************************************)
EXTENDS Naturals

CONSTANT Vols

VARIABLE vol   \* vol[v] = [status, ver]: the volume as the list shows it

Status == {"detached", "attached", "deleted"}

TypeOK == vol \in [Vols -> [status : Status, ver : Nat]]

Init == vol \in [Vols -> [status : {"detached", "attached"}, ver : {0}]]

\* Move v from status from to status to; attach and detach make a new version.
Step(v, from, to) ==
    /\ vol[v].status = from
    /\ vol' = [vol EXCEPT ![v] = [status |-> to,
                                  ver |-> IF to = "deleted" THEN @.ver ELSE @.ver + 1]]

Attach(v) == Step(v, "detached", "attached")
Detach(v) == Step(v, "attached", "detached")
Delete(v) == Step(v, "detached", "deleted")

Next == \E v \in Vols : Attach(v) \/ Detach(v) \/ Delete(v)

Spec == Init /\ [][Next]_vol

=============================================================================
