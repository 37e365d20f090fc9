------------------------------ MODULE PiSession ------------------------------
(***************************************************************************)
(* The Pi/DSH gateway (scripts/q3ple_pi_adapter.py): SessionContract, which *)
(* keeps the prompt-prefix state of one episode in memory and in            *)
(* session.json, EvidenceStore, and the two POST handlers that drive them.  *)
(* The HTTP server is single-threaded, so requests never overlap; what can  *)
(* come between two steps is the death of the process, a failed write, and  *)
(* an upstream or a client that goes away.                                  *)
(*                                                                         *)
(* A chat message is a member of Message and a token a member of Token; the *)
(* chat template and the tokenizer run upstream, so a request may come with *)
(* any token vector.                                                        *)
(***************************************************************************)
EXTENDS Naturals, Sequences, SequencesExt

CONSTANTS
    Message, Token,
    Tolerance,      \* trailing tokens a later prompt may replace (16)
    Replay,         \* MAX_CANONICAL_BOUNDARY_REPLAY_TOKENS (8)
    MaxMessages, MaxTokens, MaxTurns,   \* bounds
    CanCrash,       \* the gateway may die between two steps
    CanFailIO,      \* a write to the run directory may fail
    CanTruncate,    \* an upstream response may end inside its framing
    CanAlign        \* clients use /q3ple/align-boundary

ASSUME WindowAssumption == Tolerance \in Nat /\ Replay \in Nat
ASSUME BoundsAssumption == MaxMessages \in Nat /\ MaxTokens \in Nat /\ MaxTurns \in Nat
ASSUME SwitchAssumption == {CanCrash, CanFailIO, CanTruncate, CanAlign} \subseteq BOOLEAN

VARIABLES
    disk,       \* session.json; a missing file loads as Fresh
    raw,        \* turns that have raw request and response files
    rows,       \* turns.jsonl
    contract,   \* the SessionContract attributes that _save writes
    pending,    \* pending_messages and pending_expected_cache_n
    completed,  \* last_completed_messages, empty for None
    pc, req,    \* the handler: its position and its request
    row,        \* the row it is about to record
    cut,        \* how this process lost an inference it had started, if it did
    promoted    \* the turns behind which a boundary was promoted

durable == <<disk, raw, rows>>
vars == <<disk, raw, rows, contract, pending, completed, pc, req, row, cut, promoted>>

Conversations == BoundedSeq(Message, MaxMessages)
Histories == Conversations \ {<<>>}
Prompts == BoundedSeq(Token, MaxTokens) \ {<<>>}

Fresh == [turn |-> 0, tokens |-> <<>>, messages |-> <<>>, failed |-> FALSE]
NoPending == [messages |-> <<>>, floor |-> 0]
NoReq == [messages |-> <<>>, tokens |-> <<>>, stream |-> FALSE]
NoRow == [turn |-> 0, previous |-> 0, tokens |-> 0, cache |-> 0, prompt |-> 0]

Init ==
    /\ disk = Fresh /\ raw = {} /\ rows = <<>>
    /\ contract = Fresh /\ pending = NoPending /\ completed = <<>>
    /\ pc = "down" /\ req = NoReq /\ row = NoRow
    /\ cut = "no" /\ promoted = {}

-----------------------------------------------------------------------------
(* SessionContract *)

common_prefix(left, right) == Len(LongestCommonPrefix({left, right}))

\* _save writes what the contract is after the step; a write that fails leaves
\* the old file whole.
Saved == disk' = contract'
SaveFails == CanFailIO /\ UNCHANGED disk

\* prepare: the checks that seal the session, and the cache floor.
Mutant_Rewrites_shorter_only(messages) == Len(messages) < Len(contract.messages)
Rewrites(messages) == ~IsPrefix(contract.messages, messages)
TooEarly(tokens) ==
    common_prefix(contract.tokens, tokens) + Tolerance < Len(contract.tokens)
Mutant_ExpectedMin_below_zero(tokens) == common_prefix(contract.tokens, tokens) - Replay
ExpectedMin(tokens) ==
    LET prefix == common_prefix(contract.tokens, tokens)
    IN  IF prefix > Replay THEN prefix - Replay ELSE 0

\* commit: what the reported counts must satisfy.  Counts that are missing or
\* not integers are refused like the ones this refuses.
Mutant_CountsHold_without_floor(tokens, cache, prompt) ==
    /\ contract.tokens = <<>> => cache = 0
    /\ cache + prompt = Len(tokens)
CountsHold(tokens, cache, prompt) ==
    /\ contract.tokens = <<>> => cache = 0
    /\ contract.tokens # <<>> => cache >= pending.floor
    /\ cache + prompt = Len(tokens)

\* promote_boundary: the floor here follows from the boundary itself.
BoundaryHolds(tokens, cache, prompt) ==
    /\ ~contract.failed
    /\ IsPrefix(contract.messages, completed)
    /\ cache >= ExpectedMin(tokens)
    /\ cache + prompt = Len(tokens)

-----------------------------------------------------------------------------
(* The process *)

Start ==
    /\ pc = "down"
    /\ contract' = disk
    /\ pc' = "idle"
    /\ UNCHANGED <<durable, pending, completed, req, row, cut, promoted>>

Crash ==
    /\ CanCrash /\ pc # "down"
    /\ contract' = Fresh /\ pending' = NoPending /\ completed' = <<>>
    /\ pc' = "down" /\ req' = NoReq /\ row' = NoRow
    /\ cut' = "no"
    /\ UNCHANGED <<durable, promoted>>

\* The handler is done with the request.
Return == pc' = "idle" /\ req' = NoReq /\ row' = NoRow

-----------------------------------------------------------------------------
(* POST /v1/chat/completions *)

\* force_request, prompt_tokens and prepare.  A request that fails before
\* prepare, or meets a session that has failed, changes nothing here.
Prepare(messages, tokens, stream) ==
    /\ pc = "idle" /\ ~contract.failed
    /\ contract.turn < MaxTurns
    /\ IF Rewrites(messages) \/ TooEarly(tokens)
       THEN /\ contract' = [contract EXCEPT !.failed = TRUE]
            /\ Saved \/ SaveFails
            /\ UNCHANGED <<pending, pc, req>>
       ELSE /\ pending' = [messages |-> messages, floor |-> ExpectedMin(tokens)]
            /\ req' = [messages |-> messages, tokens |-> tokens, stream |-> stream]
            /\ pc' = "connect"
            /\ UNCHANGED <<contract, disk>>
    /\ UNCHANGED <<raw, rows, completed, row, cut, promoted>>

\* connection.request: when it raises, inference_started is still false.
Connect ==
    /\ pc = "connect"
    /\ \/ pc' = "infer" /\ UNCHANGED <<req, row>>
       \/ Return
    /\ UNCHANGED <<durable, contract, pending, completed, cut, promoted>>

\* A status other than 200, a time out, an abnormal end, a client that hangs
\* up while the stream is forwarded.
InferFails ==
    /\ pc = "infer"
    /\ pc' = "handler" /\ cut' = "named"
    /\ UNCHANGED <<durable, contract, pending, completed, req, row, promoted>>

\* http.client.IncompleteRead is none of the exceptions the handler names: it
\* leaves do_POST and the server goes on with the next request.
InferEscapes ==
    /\ CanTruncate /\ pc = "infer"
    /\ Return /\ cut' = "escaped"
    /\ UNCHANGED <<durable, contract, pending, completed, promoted>>

\* commit refuses the counts: the session is sealed here, then by the handler.
CommitRefuses(cache, prompt) ==
    /\ pc = "infer"
    /\ ~CountsHold(req.tokens, cache, prompt)
    /\ contract' = [contract EXCEPT !.failed = TRUE]
    /\ Saved \/ SaveFails
    /\ pc' = "handler" /\ cut' = "named"
    /\ UNCHANGED <<raw, rows, pending, completed, req, row, promoted>>

\* commit counts the turn; last_completed_messages is set once it is saved.
Mutant_Commit_without_save(cache, prompt, reply) ==
    /\ pc = "infer"
    /\ CountsHold(req.tokens, cache, prompt)
    /\ contract' = [contract EXCEPT !.turn = @ + 1, !.tokens = req.tokens,
                                    !.messages = pending.messages]
    /\ pending' = NoPending
    /\ completed' = IF reply = <<>> THEN <<>> ELSE req.messages \o reply
    /\ row' = [turn |-> contract'.turn, previous |-> Len(contract.tokens),
               tokens |-> Len(req.tokens), cache |-> cache, prompt |-> prompt]
    /\ pc' = "record"
    /\ UNCHANGED <<disk, raw, rows, req, cut, promoted>>
Commit(cache, prompt, reply) ==
    /\ pc = "infer"
    /\ CountsHold(req.tokens, cache, prompt)
    /\ contract' = [contract EXCEPT !.turn = @ + 1, !.tokens = req.tokens,
                                    !.messages = pending.messages]
    /\ pending' = NoPending
    /\ \/ /\ Saved
          /\ completed' = IF reply = <<>> THEN <<>> ELSE req.messages \o reply
          /\ row' = [turn |-> contract'.turn, previous |-> Len(contract.tokens),
                     tokens |-> Len(req.tokens), cache |-> cache, prompt |-> prompt]
          /\ pc' = "record"
          /\ UNCHANGED cut
       \/ /\ SaveFails
          /\ pc' = "handler" /\ cut' = "named"
          /\ UNCHANGED <<completed, row>>
    /\ UNCHANGED <<raw, rows, req, promoted>>

\* EvidenceStore.record: the raw files, refused if they exist, then the row.
Mutant_RecordRaw_ignores_failure ==
    /\ pc = "record"
    /\ \/ row.turn \notin raw /\ raw' \in {raw, raw \cup {row.turn}} /\ pc' = "append"
       \/ row.turn \in raw /\ pc' = "handler" /\ UNCHANGED raw
    /\ UNCHANGED <<disk, rows, contract, pending, completed, req, row, cut, promoted>>
RecordRaw ==
    /\ pc = "record"
    /\ \/ row.turn \notin raw /\ raw' = raw \cup {row.turn} /\ pc' = "append"
       \/ row.turn \in raw /\ pc' = "handler" /\ UNCHANGED raw
       \/ CanFailIO /\ raw' \in {raw, raw \cup {row.turn}} /\ pc' = "handler"
    /\ UNCHANGED <<disk, rows, contract, pending, completed, req, row, cut, promoted>>

RecordRow ==
    /\ pc = "append"
    /\ \/ /\ rows' = Append(rows, row)
          /\ IF req.stream THEN Return ELSE pc' = "send" /\ UNCHANGED <<req, row>>
       \/ /\ CanFailIO
          /\ rows' \in {rows, Append(rows, row)}
          /\ pc' = "handler" /\ UNCHANGED <<req, row>>
    /\ UNCHANGED <<disk, raw, contract, pending, completed, cut, promoted>>

\* The whole answer of a request that does not stream; the client may be gone.
Send ==
    /\ pc = "send"
    /\ \/ Return
       \/ pc' = "handler" /\ UNCHANGED <<req, row>>
    /\ UNCHANGED <<durable, contract, pending, completed, cut, promoted>>

\* The except clause of both handlers: the session is sealed and saved.
Mutant_Handler_keeps_session ==
    /\ pc = "handler"
    /\ Return
    /\ UNCHANGED <<durable, contract, pending, completed, cut, promoted>>
Handler ==
    /\ pc = "handler"
    /\ contract' = [contract EXCEPT !.failed = TRUE]
    /\ Saved \/ SaveFails
    /\ Return
    /\ UNCHANGED <<raw, rows, pending, completed, cut, promoted>>

-----------------------------------------------------------------------------
(* POST /q3ple/align-boundary *)

\* No completed turn to align, an upstream error, a refused promotion.
AlignFails ==
    /\ CanAlign /\ pc = "idle"
    /\ pc' = "handler"
    /\ UNCHANGED <<durable, contract, pending, completed, req, row, cut, promoted>>

Mutant_Promote_before_save(tokens, cache, prompt) ==
    /\ CanAlign /\ pc = "idle" /\ completed # <<>>
    /\ BoundaryHolds(tokens, cache, prompt)
    /\ contract' = [contract EXCEPT !.tokens = tokens, !.messages = completed]
    /\ promoted' = promoted \cup {contract.turn}
    /\ pc' = "answer"
    /\ UNCHANGED <<durable, pending, completed, req, row, cut>>
Promote(tokens, cache, prompt) ==
    /\ CanAlign /\ pc = "idle" /\ completed # <<>>
    /\ BoundaryHolds(tokens, cache, prompt)
    /\ contract' = [contract EXCEPT !.tokens = tokens, !.messages = completed]
    /\ promoted' = promoted \cup {contract.turn}
    /\ \/ Saved /\ pc' = "answer"
       \/ SaveFails /\ pc' = "handler"
    /\ UNCHANGED <<raw, rows, pending, completed, req, row, cut>>

\* The line in boundary-alignments.jsonl and the answer: either may fail.
AlignAnswer ==
    /\ pc = "answer"
    /\ pc' \in {"idle", "handler"}
    /\ UNCHANGED <<durable, contract, pending, completed, req, row, cut, promoted>>

-----------------------------------------------------------------------------

Counts == 0..MaxTokens
\* The assistant message of the answer, nothing when it calls tools.
Replies == BoundedSeq(Message, 1)

Chat ==
    \/ \E messages \in Histories, tokens \in Prompts, stream \in BOOLEAN :
          Prepare(messages, tokens, stream)
    \/ Connect \/ InferFails \/ InferEscapes
    \/ \E cache, prompt \in Counts :
          \/ CommitRefuses(cache, prompt)
          \/ \E reply \in Replies : Commit(cache, prompt, reply)
    \/ RecordRaw \/ RecordRow \/ Send \/ Handler

Align ==
    \/ AlignFails \/ AlignAnswer
    \/ \E tokens \in Prompts, cache, prompt \in Counts : Promote(tokens, cache, prompt)

Next == Start \/ Crash \/ Chat \/ Align

Spec == Init /\ [][Next]_vars

-----------------------------------------------------------------------------
(* Properties *)

Session == [turn : 0..MaxTurns, tokens : Prompts \cup {<<>>},
            messages : BoundedSeq(Message, MaxMessages + 1), failed : BOOLEAN]
Row == [turn : 0..MaxTurns, previous : Counts, tokens : Counts, cache : Counts, prompt : Counts]
TypeOK ==
    /\ disk \in Session /\ contract \in Session
    /\ raw \subseteq 1..MaxTurns /\ rows \in Seq(Row)
    /\ pending \in [messages : Conversations, floor : Counts]
    /\ completed \in BoundedSeq(Message, MaxMessages + 1)
    /\ pc \in {"down", "idle", "connect", "infer", "handler", "record", "append", "send", "answer"}
    /\ req \in [messages : Conversations, tokens : Prompts \cup {<<>>}, stream : BOOLEAN]
    /\ row \in Row /\ cut \in {"no", "named", "escaped"} /\ promoted \subseteq 1..MaxTurns

\* Between two requests an open session holds in memory what session.json
\* holds, so a restart continues the same episode: whatever failed on the way
\* (a write, the upstream, the client), every path that leaves the two apart
\* seals the session.
MemoryIsDurable == (pc = "idle" /\ ~contract.failed) => contract = disk

\* Raw files of a turn are never found in the way, whatever crash or failed
\* write came before: a turn number is on disk before evidence bears it.
EvidenceFits == pc = "record" => row.turn \notin raw

\* A row stands on raw files and on a turn that session.json counts.
EvidenceGrounded ==
    \A i \in DOMAIN rows : rows[i].turn \in raw /\ rows[i].turn <= disk.turn

\* The durable files behave like a conversation log.
Log == INSTANCE ConversationLog WITH
    turns <- disk.turn, history <- disk.messages, sealed <- disk.failed,
    evidence <- [i \in DOMAIN rows |-> rows[i].turn]
Refinement == Log!LogSpec

\* Every row proves that its turn took all of the contract's prompt from the
\* cache but the tail that the code lets go, Replay + Tolerance tokens: less than
\* PreviousPromptCached.  Two adjacent rows prove it together, even if the
\* gateway died and came back between them, unless the boundary of the earlier
\* turn was promoted in between.
AdjacentRowsReuse ==
    \A i \in DOMAIN rows :
        /\ rows[i].cache + Replay + Tolerance >= rows[i].previous
        /\ (i > 1 /\ rows[i].turn = rows[i - 1].turn + 1) =>
              \/ rows[i].previous = rows[i - 1].tokens
              \/ rows[i - 1].turn \in promoted

\* The documented proof of a row: its turn took at least the whole previous prompt
\* from the cache.
PreviousPromptCached == \A i \in DOMAIN rows : rows[i].cache >= rows[i].previous

\* Once an inference was started and did not become a saved turn, the process
\* serves no further turn: the request is not retried on a slot nobody can
\* vouch for.
CutMeansSealed == (pc = "idle" /\ cut # "no") => contract.failed

\* At least the failures that the handler names do, also behind one that it
\* does not name.
NamedCutMeansSealed == (pc = "idle" /\ cut = "named") => contract.failed
=============================================================================
