--------------------------- MODULE VolumeActions ---------------------------
(***************************************************************************)
(* The volume rows of storage.js and the actions that change them: the     *)
(* listVolumes data provider (lines 241-254), takeSnapshot, attachDisk,    *)
(* detachDisk and delete (207-237, 260-498), each an AJAX request whose    *)
(* success hands a job id to the host's poller, which patches the row with *)
(* getUpdatedItem(json) when the job ends.                                 *)
(*                                                                         *)
(* The remote API and the host's pollAsyncJobResult are not code of this   *)
(* file; they are the environment: the server's volumes and jobs, and the  *)
(* poller that waits for a job's end (spec 4.2, 6, 7).                     *)
(*                                                                         *)
(* A volume is abstracted to whether it exists and whether it is attached  *)
(* to the one VM, with a version the server bumps on every change.  The    *)
(* record actionfilter sees is rebuilt from that (VolumeRecord).           *)
(***************************************************************************)
EXTENDS Naturals, FiniteSets

CONSTANTS
    Vols,          \* volume ids
    Null,          \* an absent JSON attribute
    WithRefresh,   \* the user may reload the list (dataProvider, 241-254)
    MaxRequests,   \* bound on action requests
    MaxRefresh,    \* bound on list reloads
    PerRowSerial   \* TRUE: the user waits for a row's action to end before the next

ASSUME WithRefresh \in BOOLEAN /\ PerRowSerial \in BOOLEAN

AF == INSTANCE ActionFilter

VARIABLES
    server,    \* server[v] = [exists, attached, ver]: the volume on the server
    rows,      \* rows[v] = [shown, attached, ver]: the record the list holds
    received,  \* history: highest version of v the client has been sent
    requests,  \* action requests sent, not answered
    jobs,      \* async jobs on the server
    polls,     \* ids of jobs the client's poller is waiting on
    lists,     \* listVolumes responses in flight, with the server's list
    nreq,      \* requests issued, also the request and job id
    nref       \* list reloads issued

vars == <<server, rows, received, requests, jobs, polls, lists, nreq, nref>>

Ids      == 1 .. MaxRequests
Versions == 0 .. MaxRequests
Acts     == {"takeSnapshot", "attachDisk", "detachDisk", "delete"}
Server   == [exists : BOOLEAN, attached : BOOLEAN, ver : Versions]
Row      == [shown : BOOLEAN, attached : BOOLEAN, ver : Versions]
Job      == [id : Ids, vol : Vols, act : Acts,
             status : {"pending", "succeeded", "failed"}, result : Row \cup {Null}]

TypeOK ==
    /\ server \in [Vols -> Server]
    /\ rows \in [Vols -> Row]
    /\ received \in [Vols -> Versions]
    /\ requests \subseteq [id : Ids, vol : Vols, act : Acts]
    /\ jobs \subseteq Job
    /\ polls \subseteq Ids
    /\ lists \subseteq [Vols -> Server]
    /\ nreq \in 0 .. MaxRequests
    /\ nref \in 0 .. MaxRefresh

\* The JSON object listVolumes and queryAsyncJobResult return for a shared
\* KVM data disk, attached to the VM or not.
VolumeRecord(attached) ==
    [hypervisor |-> "KVM", state |-> "Ready", name |-> "data-1",
     type |-> "DATADISK", storagetype |-> "shared",
     virtualmachineid |-> IF attached THEN "vm-1" ELSE Null,
     vmname           |-> IF attached THEN "i-2-3-VM" ELSE Null,
     vmstate          |-> IF attached THEN "Running" ELSE Null]

\* What the server sends for v: the row a response puts in the list.
AsRow(s) == [shown |-> s.exists, attached |-> s.attached, ver |-> s.ver]

(***************************************************************************)
(* The client: storage.js.                                                 *)
(***************************************************************************)

\* The actions the views define for a row: list view takeSnapshot
\* (207-237), detail view takeSnapshot, attachDisk, detachDisk and delete
\* (259-498), each shown when actionfilter (passed at 249 and 558) allows.
\* downloadVolume (415-461) is defined but never allowed.
Offered(v) ==
    IF rows[v].shown THEN AF!actionfilter(VolumeRecord(rows[v].attached)) \cap Acts
    ELSE {}

\* An action on v is still in flight: its request is unanswered or its job
\* is still polled.  Nothing in storage.js tests this; PerRowSerial is a
\* user who waits.
Busy(v) ==
    \/ \E r \in requests : r.vol = v
    \/ \E j \in jobs : j.vol = v /\ j.id \in polls

\* The user confirms action a on row v; action(args) sends createSnapshot,
\* attachVolume (with the one VM listed by the form, 314-339),
\* detachVolume or deleteVolume.
Request(v, a) ==
    /\ a \in Offered(v)
    /\ PerRowSerial => ~Busy(v)
    /\ nreq < MaxRequests
    /\ nreq' = nreq + 1
    /\ requests' = requests \cup {[id |-> nreq + 1, vol |-> v, act |-> a]}
    /\ UNCHANGED <<server, rows, received, jobs, polls, lists, nref>>

\* Mutant: getUpdatedItem returning the row the action started from.
UpdatedItemFromContext(row, j) == row

\* getUpdatedItem (353-355, 398-400): the volume of the job result.
UpdatedItem(row, j) == j.result

\* Mutant: the row removed whatever deleteVolume answered.
OnDeleteResponseAlways(row, ok) == [row EXCEPT !.shown = FALSE]

\* delete's success callback and its poll stub args.complete() (484-497):
\* the row goes when deleteVolume answers success, and only then.
OnDeleteResponse(row, ok) == IF ok THEN [row EXCEPT !.shown = FALSE] ELSE row

\* The user reloads the list: listVolumes is answered with the server's
\* list as it is now; the answer arrives later.
Refresh ==
    /\ WithRefresh
    /\ nref < MaxRefresh
    /\ nref' = nref + 1
    /\ lists' = lists \cup {server}
    /\ UNCHANGED <<server, rows, received, requests, jobs, polls, nreq>>

\* dataProvider's success (246-252): the rows are replaced wholesale.
ListArrives(l) ==
    /\ lists' = lists \ {l}
    /\ rows' = [v \in Vols |-> AsRow(l[v])]
    /\ received' = [v \in Vols |-> IF l[v].ver > received[v] THEN l[v].ver
                                                               ELSE received[v]]
    /\ UNCHANGED <<server, requests, jobs, polls, nreq, nref>>

(***************************************************************************)
(* The environment: the API and the host's poller.                         *)
(***************************************************************************)

\* Mutant: the success callback reads a wrong jobid field, and the poller
\* is handed no job.
StartJobNoPoll(r) ==
    /\ jobs' = jobs \cup {[id |-> r.id, vol |-> r.vol, act |-> r.act,
                           status |-> "pending", result |-> Null]}
    /\ polls' = polls

\* The request is answered with a job id (createsnapshotresponse.jobid and
\* the like); the success callback hands it to the poller.
StartJob(r) ==
    /\ jobs' = jobs \cup {[id |-> r.id, vol |-> r.vol, act |-> r.act,
                           status |-> "pending", result |-> Null]}
    /\ polls' = polls \cup {r.id}

\* The server answers request r.  deleteVolume is synchronous: it deletes a
\* detached volume at once and fails on an attached one; line 485 reads an
\* absent jobid and the stub poll (496) completes at once.  The other
\* requests are answered with a job.
ServerAnswers(r) ==
    LET v  == r.vol
        ok == server[v].exists /\ ~server[v].attached
    IN
    /\ requests' = requests \ {r}
    /\ IF r.act = "delete"
       THEN /\ server' = IF ok THEN [server EXCEPT ![v] = [@ EXCEPT !.exists = FALSE,
                                                                  !.ver = @ + 1]]
                         ELSE server
            /\ rows' = [rows EXCEPT ![v] = OnDeleteResponse(@, ok)]
            /\ received' = IF ok THEN [received EXCEPT ![v] = server'[v].ver]
                           ELSE received
            /\ UNCHANGED <<jobs, polls>>
       ELSE /\ StartJob(r)
            /\ UNCHANGED <<server, rows, received>>
    /\ UNCHANGED <<lists, nreq, nref>>

\* The request fails (HTTP error): no callback runs (spec 7b).
RequestFails(r) ==
    /\ requests' = requests \ {r}
    /\ UNCHANGED <<server, rows, received, jobs, polls, lists, nreq, nref>>

\* The effect of a job on its volume, and whether it succeeds.
JobApplies(j, s) ==
    CASE j.act = "attachDisk"   -> s.exists /\ ~s.attached
      [] j.act = "detachDisk"   -> s.exists /\ s.attached
      [] j.act = "takeSnapshot" -> s.exists
JobEffect(j, s) ==
    CASE j.act = "attachDisk"   -> [s EXCEPT !.attached = TRUE, !.ver = @ + 1]
      [] j.act = "detachDisk"   -> [s EXCEPT !.attached = FALSE, !.ver = @ + 1]
      [] j.act = "takeSnapshot" -> s

\* The server runs a pending job to its end.  A job whose action applies
\* may still fail for a cause outside this model (spec 7c).
JobRuns(j) ==
    \E ok \in IF JobApplies(j, server[j.vol]) THEN BOOLEAN ELSE {FALSE} :
    LET v == j.vol IN
    /\ j.status = "pending"
    /\ server' = IF ok THEN [server EXCEPT ![v] = JobEffect(j, @)] ELSE server
    /\ jobs' = (jobs \ {j}) \cup
               {[j EXCEPT !.status = IF ok THEN "succeeded" ELSE "failed",
                          !.result = IF ok THEN AsRow(server'[v]) ELSE Null]}
    /\ UNCHANGED <<rows, received, requests, polls, lists, nreq, nref>>

\* The actions whose _custom carries getUpdatedItem (350-360, 395-405);
\* takeSnapshot's (230, 283) has only the job id.
WithUpdatedItem == {"attachDisk", "detachDisk"}

\* Mutant: the poller patches the row whatever the job's status.
PatchRowIgnoringStatus(row, j) == UpdatedItem(row, j)

\* pollAsyncJobResult on a finished job: a succeeded job of an action with
\* getUpdatedItem replaces the row in place; a failed one leaves it (spec
\* 7c), and a row already gone from the list has no place to update.
PatchRow(row, j) ==
    IF row.shown /\ j.status = "succeeded" /\ j.act \in WithUpdatedItem
    THEN UpdatedItem(row, j) ELSE row

\* The poller queries job j and finds it finished.
PollCompletes(j) ==
    /\ j.id \in polls
    /\ j.status # "pending"
    /\ polls' = polls \ {j.id}
    /\ rows' = [rows EXCEPT ![j.vol] = PatchRow(@, j)]
    /\ received' = IF /\ j.status = "succeeded" /\ j.act \in WithUpdatedItem
                      /\ j.result.ver > received[j.vol]
                   THEN [received EXCEPT ![j.vol] = j.result.ver]
                   ELSE received
    /\ UNCHANGED <<server, requests, jobs, lists, nreq, nref>>

Init ==
    \E att \in [Vols -> BOOLEAN] :
        /\ server = [v \in Vols |-> [exists |-> TRUE, attached |-> att[v], ver |-> 0]]
        /\ rows = [v \in Vols |-> AsRow(server[v])]
        /\ received = [v \in Vols |-> 0]
        /\ requests = {} /\ jobs = {} /\ polls = {} /\ lists = {}
        /\ nreq = 0 /\ nref = 0

Next ==
    \/ \E v \in Vols, a \in Acts : Request(v, a)
    \/ Refresh
    \/ \E l \in lists : ListArrives(l)
    \/ \E r \in requests : ServerAnswers(r) \/ RequestFails(r)
    \/ \E j \in jobs : JobRuns(j) \/ PollCompletes(j)

\* The server ends every job, answers every request, and the poller and
\* the event loop deliver every answer; the user has no fairness.
Fairness ==
    /\ WF_vars(\E r \in requests : ServerAnswers(r) \/ RequestFails(r))
    /\ WF_vars(\E j \in jobs : JobRuns(j))
    /\ WF_vars(\E j \in jobs : PollCompletes(j))
    /\ WF_vars(\E l \in lists : ListArrives(l))

Spec == Init /\ [][Next]_vars /\ Fairness


(***************************************************************************)
(* Properties.                                                             *)
(***************************************************************************)

\* The row shows the server's volume: present iff it exists, and attached
\* iff it is.
Matches(v) ==
    /\ rows[v].shown = server[v].exists
    /\ server[v].exists => rows[v].attached = server[v].attached

\* A row disappears from the list only for a volume the server has
\* deleted: neither a failed deleteVolume nor a delete racing an attach
\* may hide a volume that still exists.
RemovedOnlyIfDeleted == \A v \in Vols : ~rows[v].shown => ~server[v].exists

RowsConverge == <>[](\A v \in Vols : Matches(v))

(***************************************************************************)
(* Refinement: with one action at a time per row, the list implements      *)
(* VolumeSpec.  A row whose action is in flight is read as the server has  *)
(* it, so the abstract step happens when the job runs (or the synchronous  *)
(* delete answers) and the poll that patches the row is a stutter.         *)
(***************************************************************************)

\* The record the list shows for v once its action in flight has ended.
Seen(v) == IF Busy(v) THEN AsRow(server[v]) ELSE rows[v]

AbsVol ==
    [v \in Vols |->
        [status |-> IF ~Seen(v).shown THEN "deleted"
                    ELSE IF Seen(v).attached THEN "attached" ELSE "detached",
         ver    |-> Seen(v).ver]]

VS == INSTANCE VolumeSpec WITH vol <- AbsVol

\* Spec 3, 4.2 and 7: with one action at a time per row and no reloads,
\* every change of a row is a step of the volume's life-cycle: the
\* getUpdatedItem patch of a succeeded attach or detach moves the row to
\* the new record; delete's callback removes it only for a volume the
\* server deleted; a failed request or job, takeSnapshot's job (no
\* getUpdatedItem) and delete's stub poll change nothing.
ImplementsVolumeSpec == VS!Spec

=============================================================================
