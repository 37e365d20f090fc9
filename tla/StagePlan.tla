----------------------------- MODULE StagePlan -----------------------------
(* How the canonical build cuts its prompt (scripts/q3ple_canonical_60k.py): *)
(* select_stage_boundaries picks the ends of the stages among the assistant  *)
(* boundaries of the conversation, suffix_chunk_ranges cuts the new part of  *)
(* a stage into transport chunks.                                            *)
(*                                                                           *)
(* A boundary is told by its token count: the records come from              *)
(* derive_assistant_boundary_records, where every vector is a prefix of the  *)
(* final one and longer than the one before.                                 *)
EXTENDS Naturals, Sequences, FiniteSets, FiniteSetsExt

Raised == <<>>      \* the functions below answer this when they raise

\* What the assistant boundaries of a conversation are: derive_... raises
\* unless the last one is the whole prompt.
derive_assistant_boundary_records(counts, final) ==
    IF final \in counts /\ \A c \in counts : 0 < c /\ c <= final THEN counts ELSE {}

\* The largest boundary in the range, as the only member of a set.
select_canonical_boundary(counts, minimum, maximum) ==
    LET candidates == {c \in counts : minimum <= c /\ c <= maximum}
    IN  IF candidates = {} THEN {} ELSE {Max(candidates)}

\* What the two selections accept: they raise at once on anything else.
AcceptedTargets(targets) ==
    /\ targets # <<>> /\ \A i \in DOMAIN targets : targets[i] > 0
    /\ \A i \in 1 .. Len(targets) - 1 : targets[i] < targets[i + 1]
AcceptedRange(minimum, maximum) == minimum >= 1 /\ maximum > minimum

Mutant_select_stage_boundaries(counts, targets, minimum, maximum) ==
    LET picked[i \in 0 .. Len(targets)] ==
            IF i = 0 THEN 0
            ELSE LET candidates == {c \in counts : picked[i - 1] < c /\ c <= targets[i]}
                 IN  IF candidates = {} THEN 0 ELSE Max(candidates)
        final == select_canonical_boundary(counts, minimum, maximum)
    IN  IF (\E i \in DOMAIN targets : picked[i] = 0) \/ final = {}
        THEN Raised
        ELSE [i \in 1 .. Len(targets) + 1 |->
                IF i <= Len(targets) THEN picked[i] ELSE Max(final)]

\* For every target the largest boundary at or below it and above the stage
\* before; then the canonical one, which must lie behind them all.
select_stage_boundaries(counts, targets, minimum, maximum) ==
    LET picked[i \in 0 .. Len(targets)] ==
            IF i = 0 THEN 0
            ELSE LET candidates == {c \in counts : picked[i - 1] < c /\ c <= targets[i]}
                 IN  IF candidates = {} THEN 0 ELSE Max(candidates)
        final == {c \in select_canonical_boundary(counts, minimum, maximum) :
                     c > picked[Len(targets)]}
    IN  IF (\E i \in DOMAIN targets : picked[i] = 0) \/ final = {}
        THEN Raised
        ELSE [i \in 1 .. Len(targets) + 1 |->
                IF i <= Len(targets) THEN picked[i] ELSE Max(final)]

Mutant_suffix_chunk_ranges(previous, target, chunk_tokens) ==
    LET from[start \in previous .. target + chunk_tokens] ==
            IF start >= target THEN <<>>
            ELSE LET end == start + chunk_tokens
                 IN  <<[start |-> start, end |-> end]>> \o from[end]
    IN  from[previous]

\* The chunks of the tokens behind the previous stage: chunk k is submitted
\* as the prompt up to its end, and its start is what the cache must hold.
suffix_chunk_ranges(previous, target, chunk_tokens) ==
    LET from[start \in previous .. target] ==
            IF start = target THEN <<>>
            ELSE LET end == Min({target, start + chunk_tokens})
                 IN  <<[start |-> start, end |-> end]>> \o from[end]
    IN  from[previous]

\* The chunks of stage i of a plan, and the stages' ends counted in chunks.
Chunks(plan, i, chunk_tokens) ==
    suffix_chunk_ranges(IF i = 1 THEN 0 ELSE plan[i - 1], plan[i], chunk_tokens)

StageEnds(plan, chunk_tokens) ==
    LET end[i \in 0 .. Len(plan)] ==
            IF i = 0 THEN 0 ELSE end[i - 1] + Len(Chunks(plan, i, chunk_tokens))
    IN  [i \in DOMAIN plan |-> end[i]]

(***************************************************************************)
(* Properties.                                                             *)
(***************************************************************************)
\* The loop of select_stage_boundaries, which carries the stage before along,
\* decides what the boundaries alone decide: there is a plan if and only if a
\* boundary lies between any two targets and one of the canonical range behind
\* the last; every stage then ends at the boundary next to its target, and each
\* behind the one before.
SoundPlan(counts, targets, minimum, maximum) ==
    LET plan == select_stage_boundaries(counts, targets, minimum, maximum)
        Behind(i) == IF i = 1 THEN 0 ELSE targets[i - 1]
        range == {c \in counts : minimum <= c /\ c <= maximum}
    IN  /\ plan # Raised <=>
              /\ \A i \in DOMAIN targets : \E c \in counts : Behind(i) < c /\ c <= targets[i]
              /\ \E c \in range : c > targets[Len(targets)]
        /\ plan # Raised =>
              /\ Len(plan) = Len(targets) + 1
              /\ \A i \in DOMAIN targets :
                    /\ plan[i] \in counts /\ plan[i] <= targets[i]
                    /\ counts \cap (plan[i] + 1) .. targets[i] = {}
              /\ plan[Len(plan)] \in range
              /\ \A i, j \in DOMAIN plan : i < j => plan[i] < plan[j]

\* Over all the stages of a plan suffix_chunk_ranges submits every token of the
\* final prompt as new exactly once, no chunk crosses the end of its stage, and
\* the stages' ends in chunks are such as StagedBuild assumes.
CompleteCut(plan, size) ==
    LET cut  == UNION {{<<i, k>> : k \in DOMAIN Chunks(plan, i, size)} : i \in DOMAIN plan}
        Chunk(c) == Chunks(plan, c[1], size)[c[2]]
        ends == StageEnds(plan, size)
    IN  /\ \A token \in 1 .. plan[Len(plan)] :
              Cardinality({c \in cut : Chunk(c).start < token /\ token <= Chunk(c).end}) = 1
        /\ \A c \in cut : Chunk(c).end <= plan[c[1]]
                          /\ Chunk(c).end - Chunk(c).start \in 1 .. size
        /\ ends \in Seq(Nat \ {0}) /\ Len(ends) = Len(plan)
        /\ \A i, j \in DOMAIN ends : i < j => ends[i] < ends[j]
=============================================================================
