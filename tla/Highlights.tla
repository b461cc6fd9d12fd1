----------------------------- MODULE Highlights -----------------------------
(***************************************************************************)
(* The highlights of one round.  highlight-job has every candidate         *)
(* reviewed and keeps one row for it; Argo then starts one                 *)
(* highlight-artifact-job for each accepted candidate, and when all of     *)
(* them have succeeded one finalizing job each, which marks the row as     *)
(* ready.  The reviewer is a language model: a pod that is started again   *)
(* may get other verdicts than the one before it.                          *)
(***************************************************************************)
EXTENDS Naturals, Sequences

CONSTANTS
  Clips,     \* number of candidates that FindCandidates returns
  MaxLost    \* bound on lost and failed pods

ASSUME HighlightAssumption == Clips \in Nat /\ MaxLost \in Nat

Candidates == 1..Clips

\* What run of highlight-artifact-job publishes, each by a rename, in order.
\* "video" stands for the danmu, subtitle, burned and cover files after it, too.
Artifacts == <<"video", "preview", "json">>
ArtifactSet == {Artifacts[i] : i \in 1..3}

VARIABLES
  review,   \* highlight-job: state, next candidate, contexts gathered so far
  clip,     \* the highlight_clips rows: status
  ready,    \* rows with a preview and artifact_ready_at
  step,     \* next artifact of each artifact job; 4: succeeded, 5: failed
  files,    \* artifacts in the directory of each clip
  lost      \* lost and failed pods

hlVars == <<review, clip, ready, step, files, lost>>

HighlightsTypeOK ==
  /\ review \in [state : {"running", "succeeded"}, next : 1..(Clips + 1),
                 contexts : SUBSET Candidates]
  /\ clip \in [Candidates -> {"none", "AVAILABLE", "SKIPPED"}]
  /\ ready \in SUBSET Candidates
  /\ step \in [Candidates -> 1..5]
  /\ files \in [Candidates -> SUBSET ArtifactSet]
  /\ lost \in 0..MaxLost

NewReview == [state |-> "running", next |-> 1, contexts |-> {}]

HighlightsInit ==
  /\ review = NewReview
  /\ clip = [c \in Candidates |-> "none"]
  /\ ready = {}
  /\ step = [c \in Candidates |-> 1]
  /\ files = [c \in Candidates |-> {}]
  /\ lost = 0

Mishap == lost < MaxLost /\ lost' = lost + 1

-----------------------------------------------------------------------------
(* highlight-job                                                           *)

\* Faulty variant: only a row that this pod created yields a context.
ContextsOfNewRows(c, accepted) ==
  review.contexts \cup (IF accepted /\ clip[c] = "none" THEN {c} ELSE {})

\* The contexts after candidate c: one for each accepted candidate.
ContextsWith(c, accepted) ==
  review.contexts \cup (IF accepted THEN {c} ELSE {})

\* createOrUpdateClip: the row is created, or updated if an earlier pod did.
ReviewClip(accepted) ==
  LET c == review.next
  IN  /\ review.state = "running"
      /\ c \in Candidates
      /\ clip' = [clip EXCEPT ![c] = IF accepted THEN "AVAILABLE" ELSE "SKIPPED"]
      /\ review' = [review EXCEPT !.next = c + 1, !.contexts = ContextsWith(c, accepted)]
      /\ UNCHANGED <<ready, step, files, lost>>

\* The contexts leave the pod only when every candidate has been reviewed.
WriteContexts ==
  /\ review.state = "running"
  /\ review.next > Clips
  /\ review' = [review EXCEPT !.state = "succeeded"]
  /\ UNCHANGED <<clip, ready, step, files, lost>>

\* The pod is lost, or a review fails with a temporary error: Argo starts another.
LoseReview ==
  /\ review.state = "running"
  /\ Mishap
  /\ review' = NewReview
  /\ UNCHANGED <<clip, ready, step, files>>

-----------------------------------------------------------------------------
(* highlight-artifact-job, once for each context                           *)

Rendering(c) == review.state = "succeeded" /\ c \in review.contexts /\ step[c] <= 3

PublishArtifact(c) ==
  /\ Rendering(c)
  /\ files' = [files EXCEPT ![c] = @ \cup {Artifacts[step[c]]}]
  /\ step' = [step EXCEPT ![c] = @ + 1]
  /\ UNCHANGED <<review, clip, ready, lost>>

\* A lost pod: the next one renders everything again, over what is there.
LoseArtifactPod(c) ==
  /\ Rendering(c)
  /\ Mishap
  /\ step' = [step EXCEPT ![c] = 1]
  /\ UNCHANGED <<review, clip, ready, files>>

\* The context has no description, which highlight-job does not ask for, or a tool
\* fails: exit code 1 is not tried again.
FailArtifact(c) ==
  /\ Rendering(c)
  /\ Mishap
  /\ step' = [step EXCEPT ![c] = 5]
  /\ UNCHANGED <<review, clip, ready, files>>

\* finalizeHighlightArtifact, after the whole group of artifact jobs.
FinalizeClip(c) ==
  /\ review.state = "succeeded"
  /\ \A d \in review.contexts : step[d] = 4
  /\ c \in review.contexts \ ready
  /\ {"video", "preview", "json"} \subseteq files[c]
  /\ ready' = ready \cup {c}
  /\ UNCHANGED <<review, clip, step, files, lost>>

\* BackfillArtifactReadiness, which every upgrade of the chart runs beside the
\* workflows: an accepted clip that has all its files.
BackfillClip(c) ==
  /\ clip[c] = "AVAILABLE" /\ c \notin ready
  /\ {"video", "preview", "json"} \subseteq files[c]
  /\ ready' = ready \cup {c}
  /\ UNCHANGED <<review, clip, step, files, lost>>

-----------------------------------------------------------------------------
HighlightsWork ==
  \/ \E accepted \in BOOLEAN : ReviewClip(accepted)
  \/ WriteContexts
  \/ \E c \in Candidates : PublishArtifact(c) \/ FinalizeClip(c)

HighlightsBackfill == \E c \in Candidates : BackfillClip(c)

HighlightsMishap ==
  \/ LoseReview
  \/ \E c \in Candidates : LoseArtifactPod(c) \/ FailArtifact(c)

\* All highlight tasks of the round have succeeded, or one has failed for good.
HighlightsDone ==
  review.state = "succeeded" /\ \A c \in review.contexts : step[c] = 4 /\ c \in ready

HighlightsFailed == \E c \in Candidates : step[c] = 5

Whole(c) == files[c] = ArtifactSet

\* What featuredHighlightRows finds: metadata whose preview exists.
Featured == {c \in Candidates : {"preview", "json"} \subseteq files[c]}
=============================================================================
