---------------------------- MODULE AddVolumeForm ----------------------------
(***************************************************************************)
(* The Add volume form of storage.js (lines 3, 79-205): the zone list      *)
(* fetched asynchronously, the disk offerings fetched synchronously into   *)
(* the module-scoped diskofferingObjs, the change handler that sets the    *)
(* module-scoped selectedDiskOfferingObj and shows or hides the size       *)
(* field, and action(args), which builds createVolume.                     *)
(*                                                                         *)
(* The two module-scoped variables outlive the dialog: a second opening of *)
(* the form starts with the first one's selectedDiskOfferingObj.  Whether  *)
(* the host framework fires change for the select's first option once the  *)
(* handler of line 136 is bound is not code of this repository:            *)
(* InitialChange says whether it does.  A change fired while line 132      *)
(* fills the select comes before that binding and is lost: the FALSE case. *)
(***************************************************************************)
EXTENDS Naturals, FiniteSets

CONSTANTS
    Offerings,      \* disk offerings listDiskOfferings returns, by id
    Customized,     \* those with iscustomized = true
    First,          \* the offering the select shows first
    Null,           \* undefined
    InitialChange,  \* the framework fires change after line 136 binds the handler
    MaxOpens        \* bound on openings of the form

ASSUME Customized \subseteq Offerings /\ First \in Offerings /\ InitialChange \in BOOLEAN

VARIABLES
    diskofferingObjs,         \* module scope (line 3)
    selectedDiskOfferingObj,  \* module scope (line 3)
    open,       \* the dialog is shown
    value,      \* the disk-offering select's value
    zone,       \* the zone select's value: "none" until listZones answers
    sizeShown,  \* the diskSize item is displayed (hidden: true at first)
    size,       \* the diskSize input: "empty" or "entered"
    sent,       \* createVolume requests: [offering, zone, size]
    errors,     \* action(args) calls that threw before sending
    opens       \* openings of the form

vars == <<diskofferingObjs, selectedDiskOfferingObj, open, value, zone,
          sizeShown, size, sent, errors, opens>>

\* Mutant: the handler keeps the first offering it ever saw.
OnChangeKeepFirst(objs, o, shown) ==
    /\ selectedDiskOfferingObj' = IF selectedDiskOfferingObj = Null /\ o \in objs
                                  THEN o ELSE selectedDiskOfferingObj
    /\ sizeShown' = IF selectedDiskOfferingObj' = Null THEN shown
                    ELSE selectedDiskOfferingObj' \in Customized

\* The select's change handler (136-155) with the select's value o: the
\* offering with that id in diskofferingObjs (objs) becomes
\* selectedDiskOfferingObj, the loop breaking at it; if none is set, return
\* and leave the diskSize item as it is (shown); else show it iff the
\* offering is customizable.
OnChange(objs, o, shown) ==
    /\ selectedDiskOfferingObj' = IF o \in objs THEN o ELSE selectedDiskOfferingObj
    /\ sizeShown' = IF selectedDiskOfferingObj' = Null THEN shown
                    ELSE selectedDiskOfferingObj' \in Customized

\* The user opens the form.  createForm's fields are built: listZones is
\* sent (async, 107-117); listDiskOfferings runs synchronously and fills
\* diskofferingObjs and the select (121-134); diskSize starts hidden
\* (163).  The framework may then fire change for the first option, after
\* the handler is bound.
Open ==
    /\ ~open
    /\ opens < MaxOpens
    /\ opens' = opens + 1
    /\ open' = TRUE
    /\ diskofferingObjs' = Offerings
    /\ value' = First
    /\ zone' = "none"
    /\ size' = "empty"
    /\ IF InitialChange
       THEN OnChange(Offerings, First, FALSE)
       ELSE /\ sizeShown' = FALSE
            /\ UNCHANGED selectedDiskOfferingObj
    /\ UNCHANGED <<sent, errors>>

\* listZones answers (112-115): the zone select gets its first zone.  An
\* answer for a form already closed fills a select no longer shown.
ZonesArrive ==
    /\ open
    /\ zone = "none"
    /\ zone' = "zone-1"
    /\ UNCHANGED <<diskofferingObjs, selectedDiskOfferingObj, open, value,
                   sizeShown, size, sent, errors, opens>>

\* The user picks another disk offering; change fires.
ChangeOffering(o) ==
    /\ open
    /\ o # value
    /\ value' = o
    /\ OnChange(diskofferingObjs, o, sizeShown)
    /\ UNCHANGED <<diskofferingObjs, open, zone, size, sent, errors, opens>>

\* The user types a size into the diskSize item, which only a shown item
\* accepts.
EnterSize ==
    /\ open
    /\ sizeShown
    /\ size = "empty"
    /\ size' = "entered"
    /\ UNCHANGED <<diskofferingObjs, selectedDiskOfferingObj, open, value,
                   zone, sizeShown, sent, errors, opens>>

\* The user confirms.  diskSize is required (162) while it is shown.  The
\* dialog closes and action(args) runs (169-200): name, zoneId and
\* diskOfferingId from the form, and &size iff selectedDiskOfferingObj is
\* customizable (176-178); with selectedDiskOfferingObj undefined line 176
\* throws and nothing is sent.
Submit ==
    /\ open
    /\ sizeShown => size = "entered"
    /\ open' = FALSE
    /\ IF selectedDiskOfferingObj = Null
       THEN /\ errors' = errors + 1
            /\ UNCHANGED sent
       ELSE /\ sent' = sent \cup
                 {[offering |-> value, zone |-> zone,
                   size |-> IF selectedDiskOfferingObj \in Customized
                            THEN size ELSE "none"]}
            /\ UNCHANGED errors
    /\ UNCHANGED <<diskofferingObjs, selectedDiskOfferingObj, value, zone,
                   sizeShown, size, opens>>

\* The user cancels the dialog.
Close ==
    /\ open
    /\ open' = FALSE
    /\ UNCHANGED <<diskofferingObjs, selectedDiskOfferingObj, value, zone,
                   sizeShown, size, sent, errors, opens>>

Init ==
    /\ diskofferingObjs = {}
    /\ selectedDiskOfferingObj = Null
    /\ open = FALSE
    /\ value = First
    /\ zone = "none"
    /\ sizeShown = FALSE
    /\ size = "empty"
    /\ sent = {}
    /\ errors = 0
    /\ opens = 0

Next ==
    \/ Open
    \/ ZonesArrive
    \/ \E o \in Offerings : ChangeOffering(o)
    \/ EnterSize
    \/ Submit
    \/ Close

\* Only the user acts; listZones is answered eventually.
Spec == Init /\ [][Next]_vars /\ WF_vars(ZonesArrive)

(***************************************************************************)
(* Properties.                                                             *)
(***************************************************************************)

\* createVolume carries &size exactly when the offering it names is
\* customizable, and then with the size the user entered: line 176 decides
\* from selectedDiskOfferingObj, which must be the offering submitted.
SizeIffCustomized ==
    \A r \in sent : r.size = IF r.offering \in Customized THEN "entered" ELSE "none"

====
