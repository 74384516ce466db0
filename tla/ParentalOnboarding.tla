------------------------- MODULE ParentalOnboarding -------------------------
(***************************************************************************)
(* The end of the wizard of the parents (ebrota-console-ui,                *)
(* ParentalOnboardingWizard.svelte, Step10AprovarMC1.svelte): they approve *)
(* a first message for each child, MC1, and finish. The console keeps the  *)
(* row, writes the profile and schedules the messages                      *)
(* (ebrota-console-bff/src/server.ts:785-914, parental-onboarding-store.ts,*)
(* mc1-repo.ts), which the scheduler delivers. Texts are numbers, in the   *)
(* order they come to be; step 9 stands for the steps before.              *)
(***************************************************************************)
EXTENDS Naturals, FiniteSets

CONSTANTS
    OnbChildren,
    MaxMessages,   \* bound: texts generated or edited
    MaxSubmits,    \* bound: requests of completion
    MaxOnbFaults   \* bound: writes that fail

ASSUME OnbAssumption == {MaxMessages, MaxSubmits, MaxOnbFaults} \subseteq Nat

VARIABLES
    step,        \* the page's
    approvals,   \* mc1Approvals: the text of each child, 0 for none, and approved
    loading,     \* loadingChild of Step10, a set of one at most
    asking,      \* requests of a preview, and whether the step that made them is shown
    texts,       \* texts so far
    draft,       \* a draft is on its way
    request,     \* the request of completion
    ready,       \* readyForPilot
    record,      \* status of the row of parental_onboarding; its step is left out
    profile,     \* the submission the YAML holds, 0 for none
    submits,     \* submissions so far
    pending, delivered, \* rows of mc1_scheduled: the texts of each child
    onbFaults,   \* writes that failed
    approvedEver, \* history: texts a parent approved
    surprised    \* history: a text came to a page past the step of the approvals, a parent
                 \* approved an empty text or cancelled a message

wizardVars == <<step, approvals, loading, asking, texts, ready>>
storeVars == <<record, profile, pending, delivered, onbFaults>>
onbVars == <<wizardVars, storeVars, draft, request, submits, approvedEver, surprised>>

NoText == [text |-> 0, approved |-> FALSE]
Empty == MaxMessages + 1   \* the text of a field that was emptied
NoRequest == [at |-> "idle"]

OnbInit ==
    /\ step = 9 /\ approvals = [c \in OnbChildren |-> NoText]
    /\ loading = {} /\ asking = {} /\ texts = 0
    /\ draft = FALSE /\ request = NoRequest /\ ready = FALSE
    /\ record = "none" /\ profile = 0 /\ submits = 0
    /\ pending = [c \in OnbChildren |-> {}] /\ delivered = [c \in OnbChildren |-> {}]
    /\ onbFaults = 0 /\ approvedEver = {} /\ surprised = FALSE

-----------------------------------------------------------------------------
(* The page *)

\* isStep10Complete
AllApproved == \A c \in OnbChildren : approvals[c].approved

CanAdvance == step = 9 \/ (step = 10 /\ AllApproved)

\* What was asked in a step that is left is answered all the same.
Left == {[a EXCEPT !.shown = FALSE] : a \in asking}

\* next: the draft is not awaited.
NextStep ==
    /\ request = NoRequest /\ CanAdvance
    /\ step' = step + 1 /\ draft' = TRUE
    /\ loading' = {} /\ asking' = Left
    /\ UNCHANGED <<approvals, texts, ready, storeVars, request, submits, approvedEver, surprised>>

\* back
PreviousStep ==
    /\ request = NoRequest /\ step > 9
    /\ step' = step - 1
    /\ loading' = {} /\ asking' = Left
    /\ UNCHANGED <<approvals, texts, ready, storeVars, draft, request, submits, approvedEver,
                   surprised>>

\* generate: only one child is marked as loading at a time.
Generate(c) ==
    /\ step = 10 /\ c \notin loading /\ texts + Cardinality(asking) < MaxMessages
    /\ loading' = {c}
    /\ asking' = asking \cup {[child |-> c, shown |-> TRUE]}
    /\ UNCHANGED <<step, approvals, texts, ready, storeVars, draft, request, submits,
                   approvedEver, surprised>>

Unapproved(c, t) == [approvals EXCEPT ![c] = [text |-> t, approved |-> FALSE]]

\* The text takes the place of the one there was, which may have been approved.
Generated(a) ==
    /\ texts' = texts + 1
    /\ approvals' = Unapproved(a.child, texts')
    /\ surprised' = (surprised \/ step = 11)

Answer(a) ==
    /\ a \in asking
    /\ asking' = asking \ {a} /\ loading' = IF a.shown THEN {} ELSE loading
    /\ \/ Generated(a)
       \/ UNCHANGED <<texts, approvals, surprised>>
    /\ UNCHANGED <<step, ready, storeVars, draft, request, submits, approvedEver>>

Approve(c) ==
    /\ step = 10 /\ approvals[c].text # 0 /\ ~approvals[c].approved
    /\ approvals' = [approvals EXCEPT ![c].approved = TRUE]
    /\ approvedEver' = approvedEver \cup {approvals[c].text}
    /\ surprised' = (surprised \/ approvals[c].text = Empty)
    /\ UNCHANGED <<step, loading, asking, texts, ready, storeVars, draft, request, submits>>

\* Faulty variant: an edited text keeps the approval of the one before.
SaveEditApproved(c) ==
    /\ step = 10 /\ approvals[c].text # 0 /\ texts + Cardinality(asking) < MaxMessages
    /\ texts' = texts + 1
    /\ approvals' = [approvals EXCEPT ![c].text = texts']
    /\ UNCHANGED <<step, loading, asking, ready, storeVars, draft, request, submits,
                   approvedEver, surprised>>

\* saveEdit, when the field is left: as it was, emptied, or with another text.
SaveEdit(c) ==
    /\ step = 10 /\ approvals[c].text # 0
    /\ \/ approvals' = Unapproved(c, approvals[c].text) /\ UNCHANGED texts
       \/ /\ texts + Cardinality(asking) < MaxMessages
          /\ texts' = texts + 1
          /\ \E t \in {texts', Empty} : approvals' = Unapproved(c, t)
    /\ UNCHANGED <<step, loading, asking, ready, storeVars, draft, request, submits,
                   approvedEver, surprised>>

\* finish: the approvals are not asked for again, and it may be pressed once more.
Finish ==
    /\ step = 11 /\ request = NoRequest /\ submits < MaxSubmits
    /\ submits' = submits + 1
    /\ request' = [at |-> "sent", approvals |-> approvals]
    /\ UNCHANGED <<wizardVars, storeVars, draft, approvedEver, surprised>>

Finished ==
    /\ request.at \in {"served", "refused"}
    /\ ready' = (ready \/ request.at = "served")
    /\ request' = NoRequest
    /\ UNCHANGED <<step, approvals, loading, asking, texts, storeVars, draft, submits,
                   approvedEver, surprised>>

\* The request or its answer is lost; the console may have served it.
FinishFails ==
    /\ request # NoRequest
    /\ request' = NoRequest
    /\ UNCHANGED <<wizardVars, storeVars, draft, submits, approvedEver, surprised>>

-----------------------------------------------------------------------------
(* The console *)

\* Faulty variant: a draft that comes late opens the wizard again.
SaveDraftReopens ==
    /\ draft /\ draft' \in BOOLEAN
    /\ record' \in {record, "in_progress"}
    /\ UNCHANGED <<wizardVars, profile, pending, delivered, onbFaults, request, submits,
                   approvedEver, surprised>>

\* saveDraft, if it arrives: a row keeps its status. Others may be on their way.
SaveDraft ==
    /\ draft /\ draft' \in BOOLEAN
    /\ record' \in {record, IF record = "none" THEN "in_progress" ELSE record}
    /\ UNCHANGED <<wizardVars, profile, pending, delivered, onbFaults, request, submits,
                   approvedEver, surprised>>

OnbFault == onbFaults < MaxOnbFaults /\ onbFaults' = onbFaults + 1

\* markComplete comes first: the row is complete, also when the profile is not written.
ProfileFails ==
    /\ request.at = "sent" /\ OnbFault
    /\ record' = "complete"
    /\ request' = [at |-> "refused"]
    /\ UNCHANGED <<wizardVars, profile, pending, delivered, draft, submits, approvedEver,
                   surprised>>

\* Faulty variant: the message that waits is not cancelled.
ScheduledMore(c) == pending[c] \cup {request.approvals[c].text}

\* The pending messages of a child are cancelled, and the approved one is scheduled.
Scheduled(c) == {request.approvals[c].text}

Wanted == {c \in OnbChildren : request.approvals[c].approved /\ request.approvals[c].text # Empty}

\* A child whose cancellation or scheduling fails does not stop the others.
Complete ==
    /\ request.at = "sent"
    /\ record' = "complete"
    /\ profile' = submits
    /\ \/ /\ pending' = [c \in OnbChildren |-> IF c \in Wanted THEN Scheduled(c) ELSE pending[c]]
          /\ UNCHANGED onbFaults
       \/ /\ OnbFault
          /\ \E unlucky \in Wanted : \E kept \in {{}, pending[unlucky]} :
                pending' = [c \in OnbChildren |-> IF c = unlucky THEN kept
                                                  ELSE IF c \in Wanted THEN Scheduled(c)
                                                  ELSE pending[c]]
    /\ request' = [at |-> "served"]
    /\ UNCHANGED <<wizardVars, delivered, draft, submits, approvedEver, surprised>>

\* POST /parental/mc1/cancel
CancelMc1(c) ==
    /\ pending' = [pending EXCEPT ![c] = {}]
    /\ surprised' = TRUE
    /\ UNCHANGED <<wizardVars, record, profile, delivered, onbFaults, draft, request, submits,
                   approvedEver>>

\* The scheduler, in a process of its own.
DeliverMc1(c) ==
    /\ \E mc1 \in pending[c] :
          /\ pending' = [pending EXCEPT ![c] = @ \ {mc1}]
          /\ delivered' = [delivered EXCEPT ![c] = @ \cup {mc1}]
    /\ UNCHANGED <<wizardVars, record, profile, onbFaults, draft, request, submits, approvedEver,
                   surprised>>

OnbStep ==
    \/ NextStep \/ PreviousStep \/ Finish \/ Finished \/ FinishFails
    \/ \E c \in OnbChildren : Generate(c) \/ Approve(c) \/ SaveEdit(c)
                              \/ CancelMc1(c) \/ DeliverMc1(c)
    \/ \E a \in asking : Answer(a)
    \/ SaveDraft
    \/ ProfileFails \/ Complete

OnbSpec == OnbInit /\ [][OnbStep]_onbVars

-----------------------------------------------------------------------------
(* Properties *)

OnbTypeOK ==
    /\ step \in 9..11 /\ texts \in 0..MaxMessages
    /\ approvals \in [OnbChildren -> [text : 0..Empty, approved : BOOLEAN]]
    /\ loading \subseteq OnbChildren /\ asking \subseteq [child : OnbChildren, shown : BOOLEAN]
    /\ draft \in BOOLEAN /\ ready \in BOOLEAN
    /\ record \in {"none", "in_progress", "complete"}
    /\ submits \in 0..MaxSubmits /\ profile \in 0..submits /\ onbFaults \in 0..MaxOnbFaults
    /\ request.at \in {"idle", "sent", "served", "refused"}

\* No child is sent, or will be sent, a text that no parent approved as it stands,
\* however previews, edits, drafts and submissions overlap; and one text waits at most.
OnlyApprovedWait ==
    \A c \in OnbChildren :
        /\ pending[c] \cup delivered[c] \subseteq approvedEver
        /\ Cardinality(pending[c]) <= 1

\* A family the page calls ready has its profile written, its row complete for good
\* (drafts come late), and a first message for every child ("Todas precisam estar
\* aprovadas para finalizar"), unless a write failed, a parent cancelled or emptied it, or
\* a text came when the approvals had been left: the last step does not look at them again.
ReadyIsReady ==
    /\ ready => record = "complete" /\ profile # 0
    /\ ready /\ onbFaults = 0 /\ ~surprised =>
          \A c \in OnbChildren : pending[c] \cup delivered[c] # {}

OnboardingKept == OnlyApprovedWait /\ ReadyIsReady
=============================================================================
