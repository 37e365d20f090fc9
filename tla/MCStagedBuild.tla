-------------------------- MODULE MCStagedBuild --------------------------
(* StagedBuild for TLC, with the stages that StagePlan cuts, and StagePlan *)
(* itself over all conversations of up to MaxTokens tokens.                *)
EXTENDS StagedBuild, StagePlan

MaxTokens == 6

\* Stages that end at 2, 4 and 7 tokens, behind 1, 2 and 4 chunks of two.
ThreeStages  == <<1, 2, 4>>
Conversation == derive_assistant_boundary_records({2, 3, 4, 7}, 7)

ASSUME StagesArePlanned ==
    ThreeStages = StageEnds(select_stage_boundaries(Conversation, <<2, 4>>, 6, 7), 2)

TargetLists == UNION {[1 .. k -> 1 .. MaxTokens] : k \in 1 .. 3}

\* Every plan that select_stage_boundaries can be asked for.
Plans == {p \in [counts : SUBSET (1 .. MaxTokens), targets : TargetLists,
                 minimum : 1 .. MaxTokens, maximum : 1 .. MaxTokens] :
             AcceptedTargets(p.targets) /\ AcceptedRange(p.minimum, p.maximum)}

\* Evaluated once; the properties below refer to them.
SoundPlans == \A p \in Plans : SoundPlan(p.counts, p.targets, p.minimum, p.maximum)

CompleteCuts ==
    \A p \in {q \in Plans : q.minimum = 1 /\ q.maximum = MaxTokens}, size \in 1 .. 4 :
        LET plan == select_stage_boundaries(p.counts, p.targets, p.minimum, p.maximum)
        IN  plan # Raised => CompleteCut(plan, size)

\* A build that has selected its boundaries has a sound plan, whatever they
\* are (select_stage_boundaries).
PlanIsSound == ckpt.phase \notin {"none", "allocated"} => SoundPlans

\* And its chunks submit every token of that plan as new exactly once
\* (suffix_chunk_ranges).
EveryTokenOnce == ckpt.phase \notin {"none", "allocated"} => CompleteCuts
==========================================================================
