--------------------------- MODULE ConversationLog ---------------------------
(***************************************************************************)
(* What the Pi gateway promises about one episode, seen from its durable    *)
(* files alone: a conversation that only grows, turns that are counted, a   *)
(* seal that is never broken, and evidence rows in the order of the turns.  *)
(* A crash, a failed write or a restart of the gateway is no event here.    *)
(***************************************************************************)
EXTENDS Naturals, Sequences, SequencesExt

CONSTANT Message

VARIABLES
    turns,      \* turns counted so far
    history,    \* the canonical chat messages
    sealed,     \* the episode has failed closed
    evidence    \* the turn numbers recorded, in the order of recording

logVars == <<turns, history, sealed, evidence>>

LogInit == turns = 0 /\ history = <<>> /\ sealed = FALSE /\ evidence = <<>>

\* A turn or a boundary alignment: the conversation is extended, never
\* rewritten, and the same write may seal the episode.
Advance ==
    /\ ~sealed
    /\ turns' \in {turns, turns + 1}
    /\ history' \in Seq(Message) /\ IsPrefix(history, history')
    /\ sealed' \in BOOLEAN
    /\ UNCHANGED evidence

\* The row of the last counted turn, at most once.
Record ==
    /\ ~sealed
    /\ \A i \in DOMAIN evidence : evidence[i] < turns
    /\ evidence' = Append(evidence, turns)
    /\ UNCHANGED <<turns, history, sealed>>

LogNext == Advance \/ Record
LogSpec == LogInit /\ [][LogNext]_logVars
=============================================================================
