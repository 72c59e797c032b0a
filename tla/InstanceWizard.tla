--------------------------- MODULE InstanceWizard ---------------------------
(***************************************************************************)
(* The instance-provisioning wizard of ui-custom/instanceWizard.js: the    *)
(* step sequencing of showStep, the data generators that fill a step with  *)
(* the options its data provider returns and restore the earlier choice,   *)
(* the 50 ms timer that selects a default, the Next / Previous / Cancel /  *)
(* Edit click handler, and completeAction with the caller's creation       *)
(* request.                                                                *)
(*                                                                         *)
(* Steps are numbered 1..NumSteps as in the template; the last one is the  *)
(* review step, the others are data steps.  A data step's DOM state is     *)
(* abstracted to the number of option lists appended to its                *)
(* .select-container (copies) and the value of its checked radio           *)
(* (checked).  serializeForm reads every input of the form, hidden steps   *)
(* included, so a step's serialized value is its checked value.            *)
(***************************************************************************)
EXTENDS Naturals, Sequences, FiniteSets

CONSTANTS
    NumSteps,      \* number of div.steps children; the last is "review"
    Values,        \* option ids a step's data provider returns
    First,         \* the option rendered first (input[type=radio]:first)
    DiskStep,      \* the data step built by the 'data-disk-offering' generator
    Custom,        \* the disk offerings whose customFlag is set
    NetStep,       \* the data step built by the 'network' generator
    OptionalNets,  \* its optional-networks checkboxes, by value
    SecurityGroups,\* its security-groups checkboxes, by value
    None,          \* no radio of the step is checked / no value serialized
    SyncProvider,  \* TRUE: args.steps[i] calls response.success before returning
    ProviderFails, \* a data provider's request may fail and never call success
    MaxShows,      \* bound on showStep calls that display a step
    MaxLaunches    \* bound on completeAction calls

ASSUME NumSteps >= 2 /\ First \in Values /\ None \notin Values
ASSUME DiskStep \in 1 .. NumSteps - 1 /\ Custom \subseteq Values
ASSUME NetStep \in 1 .. NumSteps - 1 /\ NetStep # DiskStep
ASSUME OptionalNets \cap SecurityGroups = {}
ASSUME SyncProvider \in BOOLEAN /\ ProviderFails \in BOOLEAN /\ MaxShows \in Nat /\ MaxLaunches \in Nat

VARIABLES
    open,         \* the dialog exists (close() not yet called)
    shown,        \* the step left visible by $steps.hide()[i].show()
    form,         \* form[s] = [copies, checked] for each data step s
    chosen,       \* history: the last value clicked into step s
    clicked,      \* history: every value ever clicked into step s
    pending,      \* data-provider calls whose response.success has not run
    timers,       \* armed setTimeout(..., 50) callbacks of showStep
    shows,        \* showStep calls that displayed a step (also the call id)
    submissions,  \* payloads passed to args.complete, in order
    creating,     \* creation requests of args.complete not yet answered
    answers,      \* instances created whose response.success has not run
    listed,       \* calls of listViewArgs.complete
    customSize,   \* the data-disk step's .section.custom-size is displayed
    ticks,        \* the network step's checked checkboxes, by value
    wanted        \* history: the checkboxes the user last left checked

vars == <<open, shown, form, chosen, clicked, pending, timers, shows,
          submissions, creating, answers, listed, customSize, ticks, wanted>>

Review    == NumSteps
DataSteps == 1 .. NumSteps - 1
Value     == Values \cup {None}
Payload   == [DataSteps -> Value]
Container == [copies : 0 .. MaxShows, checked : Value]
Boxes     == OptionalNets \cup SecurityGroups

TypeOK ==
    /\ open \in BOOLEAN
    /\ shown \in 1 .. NumSteps
    /\ form \in [DataSteps -> Container]
    /\ chosen \in [DataSteps -> Value]
    /\ clicked \in [DataSteps -> SUBSET Values]
    /\ pending \subseteq [id : 0 .. MaxShows, step : DataSteps, snap : Value,
                          boxes : SUBSET Boxes]
    /\ timers \subseteq [id : 0 .. MaxShows, step : DataSteps]
    /\ shows \in 0 .. MaxShows
    /\ submissions \in Seq(Payload) /\ Len(submissions) <= MaxLaunches
    /\ creating \in 0 .. MaxLaunches
    /\ answers \in 0 .. MaxLaunches
    /\ listed \in 0 .. MaxLaunches
    /\ customSize \in BOOLEAN
    /\ ticks \subseteq Boxes
    /\ wanted \subseteq Boxes

(***************************************************************************)
(* DOM effects on one data step.                                           *)
(***************************************************************************)

\* Line 341: $targetStep.find('.select-container div, option').remove()
\* drops every rendered option, and with it the checked radio.
Clear(c) == [copies |-> 0, checked |-> None]

PopulateCheckFirst(c, snap) ==
    [copies  |-> c.copies + 1,
     checked |-> IF snap # None THEN snap ELSE First]

\* A data generator's response.success (lines 96-107, 120-149, 162-173,
\* 189-233, 267-310): makeSelects appends one more option list, then
\* originalValues clicks the radio whose value is the one serialized when
\* the step was entered; with no such value nothing is clicked.
Populate(c, snap) ==
    [copies  |-> c.copies + 1,
     checked |-> IF snap # None THEN snap ELSE c.checked]

\* Lines 375-379: if no radio of the step is checked, click the first one.
AutoSelect(f, s) ==
    IF f[s].checked = None /\ f[s].copies > 0
    THEN [f EXCEPT ![s].checked = First] ELSE f

(***************************************************************************)
(* The custom-size section of the 'data-disk-offering' step, lines        *)
(* 178-233.  Only this generator binds a change handler to its radios;    *)
(* a click, by the user, by originalValues or by the timer, that checks a *)
(* radio fires it.  sec is the section's current visibility.              *)
(***************************************************************************)

\* Line 185: the generator, run by showStep before the provider is
\* called, hides the section.
HideCustomSize(s) == IF s = DiskStep THEN FALSE ELSE customSize

\* Mutant: the else-branch of lines 224-227 missing.
OnDiskChangeNoHide(s, v, sec) ==
    IF s = DiskStep /\ v \in Custom THEN TRUE ELSE sec

\* Lines 207-230: the change handler finds the offering with the radio's
\* value in args.data.diskOfferings and shows the section iff its
\* customFlag is set, hides it otherwise.
OnDiskChange(s, v, sec) == IF s = DiskStep THEN v \in Custom ELSE sec

\* Lines 179-183 and 232: originalValues clicks the remembered value, if
\* there is one, and the click fires change; other steps bind no handler.
Restored(s, snap, sec) ==
    IF s = DiskStep /\ snap # None THEN OnDiskChange(s, snap, sec) ELSE sec

(***************************************************************************)
(* The checkboxes of the 'network' step, lines 237-313.  formData is       *)
(* serialized before line 341 clears the step, so a call carries the      *)
(* boxes checked when the step was entered.                                *)
(***************************************************************************)

\* Line 341 on the network step removes its checkboxes with their lists.
ClearBoxes(s) == IF s = NetStep THEN {} ELSE ticks

\* Lines 238-261: originalValues checks (attr('checked')) the boxes of
\* formData['optional-networks'], a single value or an array; it does not
\* look at 'security-groups'.
OriginalBoxes(snapBoxes) == snapBoxes \cap OptionalNets

\* Lines 263-310: the network success handler appends the default-network
\* radios and the optional-network and security-group checkboxes, all
\* unchecked, then calls originalValues.  tk is the step's checked boxes.
NetworkSuccess(s, tk, snapBoxes) ==
    IF s = NetStep THEN tk \cup OriginalBoxes(snapBoxes) ELSE tk

(***************************************************************************)
(* showStep(index), lines 327-380.                                         *)
(***************************************************************************)

\* Mutant: the clamp of line 330 missing (Previous on step 1 asks for step 0).
TargetUnclamped(index) == index

\* Lines 328-330 as a 1-based step number.
Target(index) == IF index <= 1 THEN 1 ELSE index

\* Line 331: targetIndex == $steps.size().
PastLast(index) == Target(index) = NumSteps + 1

\* Lines 23-37: args.complete gets serializeForm($form) and starts the
\* caller's creation request; the wizard stays as it is.
completeAction ==
    /\ Len(submissions) < MaxLaunches
    /\ submissions' = Append(submissions, [s \in DataSteps |-> form[s].checked])
    /\ creating' = creating + 1
    /\ UNCHANGED <<open, shown, form, chosen, clicked, pending, timers, shows,
                   answers, listed, customSize, ticks, wanted>>

\* Lines 336-379 for a data step t: serialize, clear, call the data
\* provider (answered at once when SyncProvider), arm the timer.
DisplayDataStep(t) ==
    LET snap    == form[t].checked
        cleared == Clear(form[t])
    IN
    /\ IF SyncProvider
       THEN /\ form' = [form EXCEPT ![t] = Populate(cleared, snap)]
            /\ customSize' = Restored(t, snap, HideCustomSize(t))
            /\ ticks' = NetworkSuccess(t, ClearBoxes(t), ticks)
            /\ UNCHANGED pending
       ELSE /\ form' = [form EXCEPT ![t] = cleared]
            /\ customSize' = HideCustomSize(t)
            /\ ticks' = ClearBoxes(t)
            /\ pending' = pending \cup
                  {[id |-> shows, step |-> t, snap |-> snap, boxes |-> ticks]}
    /\ timers' = timers \cup {[id |-> shows, step |-> t]}

\* Lines 336-379 for the review step: its content is not regenerated
\* (line 340), its generator's success handler is empty (lines 315-321)
\* and it holds no radio for the timer to click.
DisplayReview ==
    UNCHANGED <<form, pending, timers, customSize, ticks>>

showStep(index) ==
    \/ /\ PastLast(index)
       /\ completeAction
    \/ /\ ~PastLast(index)
       /\ shows < MaxShows
       /\ shown' = Target(index)
       /\ shows' = shows + 1
       /\ IF Target(index) = Review THEN DisplayReview
                                    ELSE DisplayDataStep(Target(index))
       /\ UNCHANGED <<open, chosen, clicked, submissions, creating, answers,
                      listed, wanted>>

(***************************************************************************)
(* The click handler, lines 383-419, and the asynchronous callbacks.       *)
(***************************************************************************)

\* Lines 387-393.  $form.valid() failing returns before any change, so
\* only the valid case is a step.
NextClick == open /\ showStep(shown + 1)

\* Lines 396-400: showStep($steps.filter(':visible').index()).
PreviousClick == open /\ showStep(shown - 1)

\* Lines 403-407 and close(), lines 17-20.
CancelClick ==
    /\ open
    /\ open' = FALSE
    /\ UNCHANGED <<shown, form, chosen, clicked, pending, timers, shows, submissions,
                   creating, answers, listed, customSize, ticks, wanted>>

\* Lines 410-416: the edit links of the review step jump to step j.
EditClick(j) == open /\ shown = Review /\ showStep(j)

\* The user clicks radio v of the visible data step.
SelectOption(v) ==
    /\ open
    /\ shown \in DataSteps
    /\ form[shown].copies > 0
    /\ form' = [form EXCEPT ![shown].checked = v]
    /\ chosen' = [chosen EXCEPT ![shown] = v]
    /\ clicked' = [clicked EXCEPT ![shown] = @ \cup {v}]
    /\ customSize' = OnDiskChange(shown, v, customSize)
    /\ UNCHANGED <<open, shown, pending, timers, shows, submissions,
                   creating, answers, listed, ticks, wanted>>

\* The user checks or unchecks checkbox b of the visible network step;
\* what they leave checked is what they want sent.
ToggleBox(b) ==
    /\ open
    /\ shown = NetStep
    /\ form[NetStep].copies > 0
    /\ ticks' = IF b \in ticks THEN ticks \ {b} ELSE ticks \cup {b}
    /\ wanted' = ticks'
    /\ UNCHANGED <<open, shown, form, chosen, clicked, pending, timers, shows,
                   submissions, creating, answers, listed, customSize>>

\* A data provider calls response.success for call r.  The DOM of a
\* closed wizard is still updated: nothing cancels the call.
ProviderResponds(r) ==
    /\ pending' = pending \ {r}
    /\ form' = [form EXCEPT ![r.step] = Populate(@, r.snap)]
    /\ customSize' = Restored(r.step, r.snap, customSize)
    /\ ticks' = NetworkSuccess(r.step, ticks, r.boxes)
    /\ UNCHANGED <<open, shown, chosen, clicked, timers, shows, submissions,
                   creating, answers, listed, wanted>>

\* The provider's request for call r fails (spec 7b): response.success is
\* never called, and the step stays as line 341 cleared it.
ProviderFailsCall(r) ==
    /\ ProviderFails
    /\ pending' = pending \ {r}
    /\ UNCHANGED <<open, shown, form, chosen, clicked, timers, shows, submissions,
                   creating, answers, listed, customSize, ticks, wanted>>

\* The 50 ms timer armed by showStep for call t fires.
TimerFires(t) ==
    /\ timers' = timers \ {t}
    /\ form' = AutoSelect(form, t.step)
    /\ chosen' = IF form'[t.step].checked # form[t.step].checked
                 THEN [chosen EXCEPT ![t.step] = form'[t.step].checked]
                 ELSE chosen
    /\ clicked' = IF form'[t.step].checked # form[t.step].checked
                  THEN [clicked EXCEPT ![t.step] = @ \cup {form'[t.step].checked}]
                  ELSE clicked
    /\ customSize' = IF form'[t.step].checked # form[t.step].checked
                     THEN OnDiskChange(t.step, First, customSize)
                     ELSE customSize
    /\ UNCHANGED <<open, shown, pending, shows, submissions, creating, answers,
                   listed, ticks, wanted>>

\* The server creates the instance; its answer is on its way.
ServerCreates ==
    /\ creating > 0
    /\ creating' = creating - 1
    /\ answers' = answers + 1
    /\ UNCHANGED <<open, shown, form, chosen, clicked, pending, timers, shows,
                   submissions, listed, customSize, ticks, wanted>>

\* response.success (lines 28-34) runs: it tells the list view and calls
\* close(), whether or not the user has closed the wizard meanwhile.
CreateSucceeds ==
    /\ answers > 0
    /\ answers' = answers - 1
    /\ listed' = listed + 1
    /\ open' = FALSE
    /\ UNCHANGED <<shown, form, chosen, clicked, pending, timers, shows,
                   submissions, creating, customSize, ticks, wanted>>

\* The creation request fails: success is never called, the wizard stays.
CreateFails ==
    /\ creating > 0
    /\ creating' = creating - 1
    /\ UNCHANGED <<open, shown, form, chosen, clicked, pending, timers, shows,
                   submissions, answers, listed, customSize, ticks, wanted>>

\* instanceWizard(args), lines 7-14 and the showStep(1) of line 421.
Init ==
    /\ open = TRUE
    /\ chosen = [s \in DataSteps |-> None]
    /\ clicked = [s \in DataSteps |-> {}]
    /\ submissions = << >>
    /\ creating = 0
    /\ answers = 0
    /\ listed = 0
    /\ customSize = FALSE
    /\ ticks = {}
    /\ wanted = {}
    /\ LET blank == [s \in DataSteps |-> [copies |-> 0, checked |-> None]]
       IN  IF SyncProvider
           THEN /\ form = [blank EXCEPT ![1] = Populate(Clear(@), None)]
                /\ pending = {}
           ELSE /\ form = blank
                /\ pending = {[id |-> 0, step |-> 1, snap |-> None, boxes |-> {}]}
    /\ timers = {[id |-> 0, step |-> 1]}
    /\ shown = 1
    /\ shows = 1

Next ==
    \/ NextClick
    \/ PreviousClick
    \/ CancelClick
    \/ \E j \in DataSteps : EditClick(j)
    \/ \E v \in Values : SelectOption(v)
    \/ \E b \in Boxes : ToggleBox(b)
    \/ \E r \in pending : ProviderResponds(r) \/ ProviderFailsCall(r)
    \/ \E t \in timers : TimerFires(t)
    \/ ServerCreates
    \/ CreateSucceeds
    \/ CreateFails

\* The browser's event loop runs every due timer and delivers every
\* answer; the user's clicks carry no fairness.
Fairness ==
    /\ WF_vars(\E t \in timers : TimerFires(t))
    /\ WF_vars(\E r \in pending : ProviderResponds(r) \/ ProviderFailsCall(r))
    /\ WF_vars(ServerCreates \/ CreateFails)
    /\ WF_vars(CreateSucceeds)

Spec == Init /\ [][Next]_vars /\ Fairness

(***************************************************************************)
(* Properties.                                                             *)
(***************************************************************************)

\* The boxes of group B the user left checked are checked, or carried by a
\* network-step call whose success handler is to restore them.
BoxesKept(B) ==
    \A b \in wanted \cap B :
        \/ b \in ticks
        \/ \E r \in pending : r.step = NetStep /\ b \in r.boxes

PayloadClicked ==
    \A i \in 1 .. Len(submissions), s \in DataSteps :
        submissions[i][s] \in clicked[s] \cup {None}

\* The custom-size section of the data-disk step is shown exactly when
\* the checked offering is customizable.  Line 185 hides it whenever the
\* step is re-entered, and only a change event shows it again: the restore
\* click of a success handler, a late handler of an earlier visit, the
\* user's click and the 50 ms timer's click must each leave the section
\* in step with the radio they checked.
CustomSizeMatchesOffering ==
    form[DiskStep].checked # None =>
        (customSize <=> form[DiskStep].checked \in Custom)

\* Spec 8: reaching past the last step invokes the completion callback
\* exactly once and never again on later events.
CompleteOnce == Len(submissions) <= 1

=============================================================================
