---------------------------- MODULE ImportScreen ----------------------------
(***************************************************************************)
(* The wizard of the admin panel for a Cloud export: choose the file and   *)
(* its key, analyze, review the plan, confirm with the password, watch the *)
(* import, read the report.  The browser sends the file twice, and the     *)
(* second time is what counts.                                             *)
(*                                                                         *)
(* Abstractions.  An input is a file with its key; a plan or a report is   *)
(* the input it was made from.  What the routes do to the node is in       *)
(* CloudImport: here they accept, refuse or are lost.                      *)
(***************************************************************************)
EXTENDS Naturals

CONSTANTS Inputs,      \* what may be chosen
          MaxClicks,   \* bound: choices and buttons pressed
          NoInput

ASSUME WizardAssumption == NoInput \notin Inputs /\ MaxClicks \in Nat

VARIABLES
  wizard,    \* the state of the component
  call,      \* the request it waits for
  reviewed,  \* history: the plan that was on the screen when Import was pressed
  swapped,   \* history: the input was changed while it was analyzed
  cutLate,   \* history: the connection was lost between the report and the end of the stream
  clicks

wizardVars == <<wizard, call, reviewed, swapped, cutLate, clicks>>

StartOver == [step |-> "select", input |-> NoInput, plan |-> NoInput, report |-> NoInput,
          busy |-> FALSE, password |-> FALSE, error |-> FALSE]
NoCall == [to |-> "none", input |-> NoInput, told |-> FALSE]

WizardInit ==
  /\ wizard = StartOver /\ call = NoCall
  /\ reviewed = NoInput /\ swapped = FALSE /\ cutLate = FALSE /\ clicks = 0

\* What is rendered besides the message of an error.
Section ==
  CASE wizard.step = "select" -> "select"
    [] wizard.step = "review" /\ wizard.plan # NoInput -> "review"
    [] wizard.step = "importing" /\ wizard.plan # NoInput -> "importing"
    [] wizard.step = "done" /\ wizard.report # NoInput -> "done"
    [] OTHER -> "blank"

Press(w) == clicks < MaxClicks /\ clicks' = clicks + 1 /\ wizard' = w
-----------------------------------------------------------------------------
(* What the user does *)

\* The inputs stay open while an analysis runs.
ChooseInput(i) ==
  /\ Section = "select"
  /\ Press([wizard EXCEPT !.input = i])
  /\ swapped' = IF call.to = "analyze" THEN i # call.input ELSE swapped
  /\ UNCHANGED <<call, reviewed, cutLate>>

Analyze ==
  /\ Section = "select" /\ wizard.input # NoInput /\ ~wizard.busy
  /\ Press([wizard EXCEPT !.busy = TRUE, !.error = FALSE])
  /\ call' = [NoCall EXCEPT !.to = "analyze", !.input = wizard.input]
  /\ swapped' = FALSE
  /\ UNCHANGED <<reviewed, cutLate>>

TypePassword ==
  /\ Section = "review" /\ ~wizard.password
  /\ Press([wizard EXCEPT !.password = TRUE])
  /\ UNCHANGED <<call, reviewed, swapped, cutLate>>

RunImport ==
  /\ Section = "review" /\ wizard.password /\ ~wizard.busy
  /\ Press([wizard EXCEPT !.busy = TRUE, !.error = FALSE])
  /\ call' = [NoCall EXCEPT !.to = "authorize", !.input = wizard.input]
  /\ reviewed' = wizard.plan
  /\ UNCHANGED <<swapped, cutLate>>

\* `reset` leaves the password and the busy flag as they are.
ResetWizard ==
  /\ (Section = "review" /\ ~wizard.busy) \/ Section = "done"
  /\ Press([StartOver EXCEPT !.busy = wizard.busy, !.password = wizard.password])
  /\ UNCHANGED <<call, reviewed, swapped, cutLate>>
-----------------------------------------------------------------------------
(* What comes back *)

Answer(w, c) == wizard' = w /\ call' = c /\ UNCHANGED <<reviewed, swapped, clicks>>

PlanArrives ==
  /\ call.to = "analyze"
  /\ Answer([wizard EXCEPT !.plan = call.input, !.step = "review", !.busy = FALSE], NoCall)
  /\ UNCHANGED cutLate

\* Mutant: the wizard goes on after a refused analysis.
RequestRefusedGoesOn ==
  /\ call.to \in {"analyze", "authorize", "apply"}
  /\ Answer([wizard EXCEPT !.error = TRUE, !.busy = FALSE, !.step = "review"], NoCall)
  /\ UNCHANGED cutLate

\* A conflict, a wrong key or password, an import that runs already.
RequestRefused ==
  /\ call.to \in {"analyze", "authorize", "apply"}
  /\ Answer([wizard EXCEPT !.error = TRUE, !.busy = FALSE], NoCall)
  /\ UNCHANGED cutLate

Authorized ==
  /\ call.to = "authorize"
  /\ Answer([wizard EXCEPT !.password = FALSE], [call EXCEPT !.to = "apply"])
  /\ UNCHANGED cutLate

StreamBegins ==
  /\ call.to = "apply"
  /\ Answer([wizard EXCEPT !.step = "importing"], [call EXCEPT !.to = "stream"])
  /\ UNCHANGED cutLate

DoneArrives ==
  /\ call.to = "stream" /\ ~call.told
  /\ Answer([wizard EXCEPT !.report = call.input, !.step = "done"], [call EXCEPT !.told = TRUE])
  /\ UNCHANGED cutLate

ErrorArrives ==
  /\ call.to = "stream" /\ ~call.told
  /\ Answer([wizard EXCEPT !.error = TRUE, !.step = "review"], [call EXCEPT !.told = TRUE])
  /\ UNCHANGED cutLate

StreamEnds ==
  /\ call.to = "stream" /\ call.told
  /\ Answer([wizard EXCEPT !.busy = FALSE], NoCall)
  /\ UNCHANGED cutLate

\* fetch or read throws; only that of the import leads to the review.
ConnectionLost ==
  /\ call.to # "none"
  /\ Answer([wizard EXCEPT !.error = TRUE, !.busy = FALSE,
                           !.step = IF call.to = "analyze" THEN @ ELSE "review"], NoCall)
  /\ cutLate' = (cutLate \/ (call.to = "stream" /\ call.told))

WizardNext ==
  \/ \E i \in Inputs : ChooseInput(i)
  \/ Analyze \/ TypePassword \/ RunImport \/ ResetWizard
  \/ PlanArrives \/ RequestRefused \/ Authorized \/ StreamBegins
  \/ DoneArrives \/ ErrorArrives \/ StreamEnds \/ ConnectionLost

WizardSpec == WizardInit /\ [][WizardNext]_wizardVars
-----------------------------------------------------------------------------
(* Properties *)

WizardTypeOK ==
  /\ wizard.step \in {"select", "review", "importing", "done"}
  /\ {wizard.input, wizard.plan, wizard.report, reviewed} \subseteq Inputs \cup {NoInput}
  /\ call.to \in {"none", "analyze", "authorize", "apply", "stream"}
  /\ clicks \in 0..MaxClicks

\* What is imported is what was reviewed, unless the input was changed while
\* it was analyzed; some part of the wizard is on the screen and, with no request
\* under way, can be used, unless the connection broke after the report.
WizardShowsTheImport ==
  /\ (call.to \in {"authorize", "apply", "stream"} /\ ~swapped) => call.input = reviewed
  /\ cutLate \/ Section # "blank"
  /\ call.to = "none" => ~wizard.busy /\ wizard.step # "importing"
=============================================================================
