------------------------------ MODULE Rollback ------------------------------
(***************************************************************************)
(* Rolling a Deployment back (internal/api/rollback.go, frontend/src/       *)
(* components/detail/RolloutsTab.tsx): the tab lists the revisions, the user *)
(* reviews the template of one beside the current one and confirms, and the  *)
(* server looks the revision up anew, by its NUMBER, before it patches. The  *)
(* deployment controller renumbers, creates and collects ReplicaSets         *)
(* meanwhile, and others roll out, or replace the deployment.                *)
(***************************************************************************)
EXTENDS Integers, FiniteSets, FiniteSetsExt

CONSTANTS
    TemplateKeys,    \* what a pod template can set: a container, a label, a field of one
    TemplateValues,  \* ... and to what
    Absent,          \* ... or not at all
    Rolled,          \* bound: the templates that others roll out
    MaxRevision,     \* bound: numbers the controller gives
    MaxOwners        \* bound: deployments of the name, one after the other

(* Pod templates, without the label of the controller *)
Templates == [TemplateKeys -> TemplateValues \cup {Absent}]

ASSUME RollbackAssumption ==
    MaxRevision \in Nat /\ MaxOwners \in Nat /\ Rolled \subseteq Templates /\ Rolled # {}

VARIABLES
    deployment,    \* at the server: its uid, template and revision annotation
    replicaSets,   \* at the server: their owner, template and revision
    history,       \* the page's list of revisions, of the last answer: the row for the user's click
    left,          \* currentTemplate: the page's copy of the deployment's template
    review,        \* the dialog: the revision under review, or NoReview
    confirmed      \* the request under way: what was reviewed, what the server got and found

rollbackVars == <<deployment, replicaSets, history, left, review, confirmed>>

SomeTemplate == CHOOSE t \in Rolled : TRUE
NoReview == [owner |-> 0, template |-> SomeTemplate, revision |-> 0]
NothingGot == [uid |-> 0, revision |-> 0]
NoRequest == [stage |-> "none", reviewed |-> NoReview, got |-> NothingGot, found |-> NoReview]

RollbackInit ==
    /\ deployment = [uid |-> 1, template |-> SomeTemplate, revision |-> 0]
    /\ replicaSets = {} /\ history = NoReview /\ left = SomeTemplate
    /\ review = NoReview /\ confirmed = NoRequest

(* collectRevisions: the ReplicaSets this deployment owns, by their numbers *)
Owned == {s \in replicaSets : s.owner = deployment.uid}
Newest == IF Owned = {} THEN 0 ELSE Max({s.revision : s \in Owned})

-----------------------------------------------------------------------------
(* The controller: the set with the template of the deployment gets the next  *)
(* number, or is created with it; the annotation of the deployment follows;   *)
(* sets that are not current are collected.                                  *)
ControllerScales ==
    LET mine == {s \in Owned : s.template = deployment.template}
    IN /\ Newest < MaxRevision
       /\ \A s \in mine : s.revision < Newest
       /\ replicaSets' = (replicaSets \ mine) \cup
            {[owner |-> deployment.uid, template |-> deployment.template, revision |-> Newest + 1]}
       /\ UNCHANGED <<deployment, history, left, review, confirmed>>
ControllerAnnotates ==
    /\ \E s \in Owned : s.template = deployment.template /\ s.revision > deployment.revision
                        /\ deployment' = [deployment EXCEPT !.revision = s.revision]
    /\ UNCHANGED <<replicaSets, history, left, review, confirmed>>
ControllerCollects(s) ==
    /\ s \in replicaSets /\ (s.owner = deployment.uid => s.revision < deployment.revision /\ s.template # deployment.template)
    /\ replicaSets' = replicaSets \ {s}
    /\ UNCHANGED <<deployment, history, left, review, confirmed>>
RollOut(t) ==
    /\ t # deployment.template /\ deployment' = [deployment EXCEPT !.template = t]
    /\ UNCHANGED <<replicaSets, history, left, review, confirmed>>
Recreated(t) ==
    /\ deployment.uid < MaxOwners
    /\ deployment' = [uid |-> deployment.uid + 1, template |-> t, revision |-> 0]
    /\ UNCHANGED <<replicaSets, history, left, review, confirmed>>

-----------------------------------------------------------------------------
(* The tab: listRollouts every few seconds, and the deployment beside it. The  *)
(* server gets the deployment and then lists the sets, so that the deployment  *)
(* may be an earlier one, and the row marked as active, without a button, any. *)
(* Of the rows with a button the one that will be clicked stands for all.      *)
HistoryAnswers ==
    /\ history' \in {s \in replicaSets : s.owner <= deployment.uid}
    /\ UNCHANGED <<deployment, replicaSets, left, review, confirmed>>
PanelRefetches ==
    /\ left' = deployment.template
    /\ UNCHANGED <<deployment, replicaSets, history, review, confirmed>>
RollBackTo ==
    /\ review = NoReview /\ history # NoReview /\ review' = history
    /\ UNCHANGED <<deployment, replicaSets, history, left, confirmed>>
CancelReview ==
    /\ review # NoReview /\ confirmed = NoRequest /\ review' = NoReview
    /\ UNCHANGED <<deployment, replicaSets, history, left, confirmed>>
NoChanges == left = review.template
Confirm ==
    /\ review # NoReview /\ confirmed = NoRequest /\ ~NoChanges
    /\ confirmed' = [NoRequest EXCEPT !.stage = "sent", !.reviewed = review]
    /\ UNCHANGED <<deployment, replicaSets, history, left, review>>

(* rollbackDeployment: the deployment, then the sets, then the patch: other   *)
(* steps come between. A refusal, or an error, leaves the dialog open.        *)
GetDeployment ==
    /\ confirmed.stage = "sent"
    /\ confirmed' = [confirmed EXCEPT !.stage = "got",
                        !.got = [uid |-> deployment.uid, revision |-> deployment.revision]]
    /\ UNCHANGED <<deployment, replicaSets, history, left, review>>

(* Mutant of FindRevision: among all sets that match the selector. *)
FindRevisionOfAny ==
    /\ confirmed.stage = "got"
    /\ LET found == {s \in replicaSets : s.revision = confirmed.reviewed.revision}
       IN IF found = {} \/ confirmed.reviewed.revision = confirmed.got.revision
          THEN confirmed' = NoRequest
          ELSE \E s \in found : confirmed' = [confirmed EXCEPT !.stage = "found", !.found = s]
    /\ UNCHANGED <<deployment, replicaSets, history, left, review>>

(* findRevision: among the sets of the deployment that was got *)
FindRevision ==
    /\ confirmed.stage = "got"
    /\ LET found == {s \in replicaSets : s.owner = confirmed.got.uid /\ s.revision = confirmed.reviewed.revision}
       IN IF found = {} \/ confirmed.reviewed.revision = confirmed.got.revision
          THEN confirmed' = NoRequest
          ELSE \E s \in found : confirmed' = [confirmed EXCEPT !.stage = "found", !.found = s]
    /\ UNCHANGED <<deployment, replicaSets, history, left, review>>
(* A strategic merge patch, of the deployment that has the name by now: what   *)
(* the template found sets replaces what was set, what it does not set stays. *)
Merged(old, patch) == [k \in TemplateKeys |-> IF patch[k] = Absent THEN old[k] ELSE patch[k]]
PatchTemplate ==
    /\ confirmed.stage = "found"
    /\ deployment' = [deployment EXCEPT !.template = Merged(@, confirmed.found.template)]
    /\ confirmed' = NoRequest /\ review' = NoReview
    /\ UNCHANGED <<replicaSets, history, left>>
RollbackFails ==
    /\ confirmed.stage # "none" /\ confirmed' = NoRequest
    /\ UNCHANGED <<deployment, replicaSets, history, left, review>>

RollbackNext ==
    \/ ControllerScales \/ ControllerAnnotates
    \/ \E s \in replicaSets : ControllerCollects(s)
    \/ \E t \in Rolled : RollOut(t) \/ Recreated(t)
    \/ HistoryAnswers \/ PanelRefetches \/ RollBackTo \/ CancelReview \/ Confirm
    \/ GetDeployment \/ FindRevision \/ PatchTemplate \/ RollbackFails

RollbackSpec == RollbackInit /\ [][RollbackNext]_rollbackVars

-----------------------------------------------------------------------------
(* Whatever the template that was reviewed sets is set to that: what the       *)
(* server finds under the number is what the dialog showed on its right side,  *)
(* although the controller renumbers and collects, and others roll out, in      *)
(* between; except when the deployment was replaced by another of the name,    *)
(* whose numbers start again. And nothing else changes: what was added since    *)
(* the revision stays, which the dialog does not show and the comments of       *)
(* rollback.go:7 and 135 (the template is copied back, "replaced") deny.        *)
ReviewedIsSet ==
    confirmed.reviewed.owner = deployment.uid =>
      \A k \in TemplateKeys :
         deployment'.template[k] = IF confirmed.reviewed.template[k] # Absent
                                   THEN confirmed.reviewed.template[k] ELSE deployment.template[k]
AppliesTheReviewed == [][PatchTemplate => ReviewedIsSet]_rollbackVars
=============================================================================
