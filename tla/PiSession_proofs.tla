--------------------------- MODULE PiSession_proofs ---------------------------
(* Theorems about PiSession, for any messages, tokens, windows and bounds. *)
EXTENDS PiSession, FiniteSetTheorems, TLAPS

-----------------------------------------------------------------------------
(* Sequences *)

LEMMA BoundedSeqs ==
    ASSUME NEW S, NEW n \in Nat
    PROVE  BoundedSeq(S, n) = {s \in Seq(S) : Len(s) <= n}
<1>1. ASSUME NEW s \in BoundedSeq(S, n) PROVE s \in Seq(S) /\ Len(s) <= n
  <2>1. PICK m \in 0..n : s \in [1..m -> S]
    BY <1>1 DEF BoundedSeq, SeqOf
  <2> QED BY <2>1
<1>2. ASSUME NEW s \in Seq(S), Len(s) <= n PROVE s \in BoundedSeq(S, n)
  <2>1. s \in [1..Len(s) -> S] /\ Len(s) \in 0..n
    BY <1>2
  <2> QED BY <2>1 DEF BoundedSeq, SeqOf
<1> QED BY <1>1, <1>2

\* The prefix test of the code, list(right[:len(left)]) == left, point by point.
LEMMA PrefixPoints ==
    ASSUME NEW S, NEW s \in Seq(S), NEW t \in Seq(S)
    PROVE  IsPrefix(s, t) <=> Len(s) <= Len(t) /\ \A i \in 1..Len(s) : s[i] = t[i]
<1>1. SubSeq(s, 1, Len(s)) = s
  OBVIOUS
<1>2. ASSUME Len(s) <= Len(t)
      PROVE  SubSeq(t, 1, Len(s)) \in Seq(S) /\ Len(SubSeq(t, 1, Len(s))) = Len(s)
             /\ \A i \in 1..Len(s) : SubSeq(t, 1, Len(s))[i] = t[i]
  BY <1>2
<1>3. ASSUME Len(s) <= Len(t), \A i \in 1..Len(s) : s[i] = t[i]
      PROVE  SubSeq(t, 1, Len(s)) = s
  BY <1>2, <1>3
<1> QED BY <1>1, <1>2, <1>3 DEF IsPrefix

LEMMA PrefixFacts ==
    ASSUME NEW S, NEW s \in Seq(S), NEW t \in Seq(S), NEW u \in Seq(S)
    PROVE  /\ IsPrefix(<<>>, s) /\ IsPrefix(s, s) /\ IsPrefix(s, s \o t)
           /\ IsPrefix(s, t) /\ IsPrefix(t, u) => IsPrefix(s, u)
<1>1. <<>> \in Seq(S) /\ s \o t \in Seq(S)
  OBVIOUS
<1>2. IsPrefix(<<>>, s) /\ IsPrefix(s, s)
  <2>1. IsPrefix(<<>>, s)
    BY DEF IsPrefix
  <2>2. IsPrefix(s, s) <=> Len(s) <= Len(s) /\ \A i \in 1..Len(s) : s[i] = s[i]
    BY PrefixPoints
  <2> QED BY <2>1, <2>2
<1>3. IsPrefix(s, s \o t)
  <2>1. Len(s) <= Len(s \o t) /\ \A i \in 1..Len(s) : s[i] = (s \o t)[i]
    OBVIOUS
  <2> QED BY <1>1, <2>1, PrefixPoints
<1>4. IsPrefix(s, t) /\ IsPrefix(t, u) => IsPrefix(s, u)
  BY PrefixPoints
<1> QED BY <1>2, <1>3, <1>4

\* The set {0..k : k bounds N} has a least member, and its k is in N.
LEMMA Maximum ==
    ASSUME NEW n \in Nat, NEW N \in SUBSET (0..n), N # {}
    PROVE  \E m \in N : \A x \in N : x <= m
<1> DEFINE Above == {k \in 0..n : \A x \in N : x <= k}
           Downs == {0..k : k \in Above}
<1>1. n \in Above
  OBVIOUS
<1>2. Downs \subseteq FiniteSubsetsOf(Nat) /\ Downs # {}
  <2>1. \A k \in Above : IsFiniteSet(0..k) /\ 0..k \subseteq Nat
    BY FS_Interval
  <2> QED BY <1>1, <2>1 DEF FiniteSubsetsOf
<1>3. IsWellFoundedOn(StrictSubsetOrdering(Nat), FiniteSubsetsOf(Nat))
  BY FS_StrictSubsetOrderingWellFounded
<1>4. PICK low \in Downs : \A d \in Downs : <<d, low>> \notin StrictSubsetOrdering(Nat)
  BY <1>2, <1>3, WFMin
<1>5. PICK k \in Above : low = 0..k
  OBVIOUS
<1>6. ASSUME NEW j \in Above, j < k PROVE FALSE
  <2>1. 0..j \in Downs /\ 0..j \subseteq 0..k /\ 0..k \subseteq Nat
    BY <1>6
  <2>2. k \in 0..k /\ k \notin 0..j
    BY <1>6
  <2>3. <<0..j, low>> \in StrictSubsetOrdering(Nat)
    BY <1>5, <2>1, <2>2 DEF StrictSubsetOrdering
  <2> QED BY <1>4, <2>1, <2>3
<1>7. k \in N
  <2>1. SUFFICES ASSUME k \notin N PROVE FALSE
    OBVIOUS
  <2>2. PICK x \in N : TRUE
    OBVIOUS
  <2>3. k - 1 \in Above
    BY <2>1, <2>2
  <2> QED BY <1>6, <2>3
<1> QED BY <1>7

\* common_prefix counts tokens that both vectors have.
LEMMA CommonPrefixBound ==
    ASSUME NEW S, NEW s \in Seq(S), NEW t \in Seq(S)
    PROVE  common_prefix(s, t) \in Nat /\ common_prefix(s, t) <= Len(s)
           /\ common_prefix(s, t) <= Len(t)
<1> DEFINE P == CommonPrefixes({s, t})
           Lengths == {Len(p) : p \in P}
<1>1. \A p \in P : p \in Seq(S) /\ Len(p) <= Len(s) /\ Len(p) <= Len(t)
  <2> SUFFICES ASSUME NEW p \in P PROVE p \in Seq(S) /\ Len(p) <= Len(s) /\ Len(p) <= Len(t)
    OBVIOUS
  <2>1. IsPrefix(p, s) /\ IsPrefix(p, t) /\ p \in Prefixes(s) \cup Prefixes(t)
    BY DEF CommonPrefixes
  <2>2. p \in Seq(S)
    BY <2>1 DEF Prefixes
  <2> QED BY <2>1, <2>2 DEF IsPrefix
<1>2. <<>> \in P
  <2>1. <<>> \in Prefixes(s)
    <3>1. SubSeq(s, 1, 0) = <<>> /\ 0 \in 0..Len(s)
      OBVIOUS
    <3> QED BY <3>1 DEF Prefixes
  <2>2. IsPrefix(<<>>, s) /\ IsPrefix(<<>>, t)
    BY PrefixFacts
  <2> QED BY <2>1, <2>2 DEF CommonPrefixes
<1>3. common_prefix(s, t) = Len(LongestCommonPrefix({s, t}))
  BY DEF common_prefix
<1>4. LongestCommonPrefix({s, t}) = CHOOSE longest \in P : \A other \in P : Len(other) <= Len(longest)
  BY DEF LongestCommonPrefix
<1> HIDE DEF P
<1>5. PICK m \in Lengths : \A x \in Lengths : x <= m
  <2>1. Len(s) \in Nat
    OBVIOUS
  <2>2. \A p \in P : Len(p) \in 0..Len(s)
    BY <1>1
  <2>3. Lengths \in SUBSET (0..Len(s))
    BY <2>2
  <2>4. Lengths # {}
    BY <1>2
  <2> QED BY <2>1, <2>3, <2>4, Maximum
<1>6. \E p \in P : \A q \in P : Len(q) <= Len(p)
  BY <1>5
<1>7. LongestCommonPrefix({s, t}) \in P
  BY <1>4, <1>6
<1> QED BY <1>1, <1>3, <1>7

-----------------------------------------------------------------------------
(* Type correctness *)

\* What a request, a row and a completed turn are at the positions of the handler.
Positions ==
    /\ pc \in {"connect", "infer"} => contract.turn < MaxTurns /\ req.tokens # <<>>
    /\ pc \in {"record", "append"} => row.turn \in 1..MaxTurns
    /\ completed # <<>> => contract.turn > 0
    /\ pc = "down" => completed = <<>>

TInv == TypeOK /\ Positions

PcSet == {"down", "idle", "connect", "infer", "handler", "record", "append", "send", "answer"}

\* The bounded sets of sequences, as SMT understands them.
LEMMA Sets ==
    /\ Conversations = {s \in Seq(Message) : Len(s) <= MaxMessages}
    /\ BoundedSeq(Message, MaxMessages + 1) = {s \in Seq(Message) : Len(s) <= MaxMessages + 1}
    /\ Replies = {s \in Seq(Message) : Len(s) <= 1}
    /\ Prompts = {s \in Seq(Token) : Len(s) <= MaxTokens /\ s # <<>>}
    /\ MaxMessages \in Nat /\ MaxTokens \in Nat /\ MaxTurns \in Nat
    /\ Counts \subseteq Nat
<1>1. MaxMessages \in Nat /\ MaxTokens \in Nat /\ MaxTurns \in Nat /\ MaxMessages + 1 \in Nat
      /\ 1 \in Nat
  BY BoundsAssumption
<1>2. Conversations = {s \in Seq(Message) : Len(s) <= MaxMessages}
  BY <1>1, BoundedSeqs DEF Conversations
<1>3. BoundedSeq(Message, MaxMessages + 1) = {s \in Seq(Message) : Len(s) <= MaxMessages + 1}
  BY <1>1, BoundedSeqs
<1>4. Replies = {s \in Seq(Message) : Len(s) <= 1}
  BY <1>1, BoundedSeqs DEF Replies
<1>5. BoundedSeq(Token, MaxTokens) = {s \in Seq(Token) : Len(s) <= MaxTokens}
  BY <1>1, BoundedSeqs
<1>6. Prompts = {s \in Seq(Token) : Len(s) <= MaxTokens /\ s # <<>>}
  BY <1>5 DEF Prompts
<1> QED BY <1>1, <1>2, <1>3, <1>4, <1>6 DEF Counts

\* The cache floor is at most the new prompt, and all of the contract's prompt
\* but the replay and the tail.
LEMMA Floor ==
    ASSUME TInv, NEW tokens \in Prompts
    PROVE  /\ ExpectedMin(tokens) \in Counts
           /\ ~TooEarly(tokens) =>
                 ExpectedMin(tokens) + Replay + Tolerance >= Len(contract.tokens)
<1> DEFINE prefix == common_prefix(contract.tokens, tokens)
<1>1. contract.tokens \in Seq(Token) /\ tokens \in Seq(Token) /\ Len(tokens) <= MaxTokens
      /\ Len(tokens) \in Nat /\ Len(contract.tokens) \in Nat
  <2>1. contract.tokens \in Prompts \cup {<<>>}
    BY DEF TInv, TypeOK, Session
  <2>2. contract.tokens \in Seq(Token)
    <3>1. <<>> \in Seq(Token)
      OBVIOUS
    <3>2. Prompts \subseteq Seq(Token)
      BY Sets
    <3> QED BY <2>1, <3>1, <3>2
  <2>3. tokens \in Seq(Token) /\ Len(tokens) <= MaxTokens
    BY Sets
  <2> QED BY <2>2, <2>3
<1>2. prefix \in Nat /\ prefix <= Len(tokens)
  BY <1>1, CommonPrefixBound
<1>3. ExpectedMin(tokens) = IF prefix > Replay THEN prefix - Replay ELSE 0
  BY DEF ExpectedMin
<1>4. TooEarly(tokens) <=> prefix + Tolerance < Len(contract.tokens)
  BY DEF TooEarly
<1> HIDE DEF prefix
<1> QED BY <1>1, <1>2, <1>3, <1>4, Sets, WindowAssumption DEF Counts

PendingSet == [messages : Conversations, floor : Counts]
ReqSet == [messages : Conversations, tokens : Prompts \cup {<<>>}, stream : BOOLEAN]

LEMMA Blanks ==
    /\ Fresh \in Session /\ NoPending \in PendingSet /\ NoReq \in ReqSet /\ NoRow \in Row
    /\ <<>> \in BoundedSeq(Message, MaxMessages + 1)
<1>1. <<>> \in Conversations /\ <<>> \in BoundedSeq(Message, MaxMessages + 1)
  <2>1. <<>> \in Seq(Message) /\ Len(<<>>) = 0
    OBVIOUS
  <2>2. 0 <= MaxMessages /\ 0 <= MaxMessages + 1
    BY Sets
  <2> HIDE DEF Conversations
  <2> QED BY <2>1, <2>2, Sets
<1>2. 0 \in 0..MaxTurns /\ 0 \in Counts
  BY Sets DEF Counts
<1> QED BY <1>1, <1>2 DEF Fresh, NoPending, NoReq, NoRow, Session, PendingSet, ReqSet, Row

\* What the handlers write is again a session.
LEMMA Updates ==
    ASSUME NEW c \in Session
    PROVE  /\ [c EXCEPT !.failed = TRUE] \in Session
           /\ \A tokens \in Prompts, messages \in BoundedSeq(Message, MaxMessages + 1) :
                 [c EXCEPT !.tokens = tokens, !.messages = messages] \in Session
           /\ c.turn < MaxTurns =>
                 \A tokens \in Prompts, messages \in BoundedSeq(Message, MaxMessages + 1) :
                    [c EXCEPT !.turn = @ + 1, !.tokens = tokens, !.messages = messages] \in Session
<1>1. c.turn < MaxTurns => c.turn + 1 \in 0..MaxTurns
  BY Sets DEF Session
<1>2. [c EXCEPT !.failed = TRUE] \in Session
  BY DEF Session
<1>3. ASSUME NEW tokens \in Prompts, NEW messages \in BoundedSeq(Message, MaxMessages + 1)
      PROVE  [c EXCEPT !.tokens = tokens, !.messages = messages] \in Session
  BY DEF Session
<1>4. ASSUME c.turn < MaxTurns, NEW tokens \in Prompts,
             NEW messages \in BoundedSeq(Message, MaxMessages + 1)
      PROVE  [c EXCEPT !.turn = @ + 1, !.tokens = tokens, !.messages = messages] \in Session
  BY <1>1, <1>4 DEF Session
<1> QED BY <1>2, <1>3, <1>4

LEMMA TypeInit == Init => TInv
<1> SUFFICES ASSUME Init PROVE TInv
  OBVIOUS
<1>1. {} \subseteq 1..MaxTurns /\ <<>> \in Seq(Row)
  OBVIOUS
<1> QED BY <1>1, Blanks DEF Init, TInv, TypeOK, Positions, PendingSet, ReqSet, Fresh

\* Steps that change no session, no evidence and no request.
LEMMA TypeQuiet ==
    ASSUME TInv, UNCHANGED <<durable, contract, pending, completed, promoted>>,
           cut' \in {"no", "named", "escaped"}, pc' \in PcSet,
           \/ UNCHANGED <<req, row>> /\ pc' # "down"
              /\ (pc' \in {"connect", "infer"} => pc \in {"connect", "infer"})
              /\ (pc' \in {"record", "append"} => pc \in {"record", "append"})
           \/ Return
    PROVE  TInv'
<1>1. TypeOK'
  BY Blanks DEF TInv, TypeOK, PcSet, durable, Return, ReqSet
<1>2. Positions'
  BY DEF TInv, Positions, durable, Return
<1> QED BY <1>1, <1>2 DEF TInv

LEMMA TypeStart == TInv /\ Start => TInv'
<1> SUFFICES ASSUME TInv, Start PROVE TInv'
  OBVIOUS
<1>1. TypeOK'
  BY DEF TInv, TypeOK, Start, durable
<1>2. Positions'
  BY DEF TInv, Positions, Start
<1> QED BY <1>1, <1>2 DEF TInv

LEMMA TypeCrash == TInv /\ Crash => TInv'
<1> SUFFICES ASSUME TInv, Crash PROVE TInv'
  OBVIOUS
<1>1. TypeOK'
  BY Blanks DEF TInv, TypeOK, Crash, durable, PendingSet, ReqSet
<1>2. Positions'
  BY DEF TInv, Positions, Crash
<1> QED BY <1>1, <1>2 DEF TInv

LEMMA TypePrepare ==
    ASSUME TInv, NEW messages \in Histories, NEW tokens \in Prompts, NEW stream \in BOOLEAN,
           Prepare(messages, tokens, stream)
    PROVE  TInv'
<1>1. messages \in Conversations /\ tokens # <<>>
  BY Sets DEF Histories
<1>2. CASE Rewrites(messages) \/ TooEarly(tokens)
  <2>1. contract' = [contract EXCEPT !.failed = TRUE] /\ disk' \in {disk, contract'}
        /\ UNCHANGED <<raw, rows, pending, completed, pc, req, row, cut, promoted>>
    BY <1>2 DEF Prepare, Saved, SaveFails
  <2>2. contract' \in Session /\ contract'.turn = contract.turn
    BY <2>1, Updates DEF TInv, TypeOK, Session
  <2>3. TypeOK'
    BY <2>1, <2>2 DEF TInv, TypeOK
  <2>4. Positions'
    BY <2>1, <2>2 DEF TInv, Positions
  <2> QED BY <2>3, <2>4 DEF TInv
<1>3. CASE ~(Rewrites(messages) \/ TooEarly(tokens))
  <2>1. /\ pending' = [messages |-> messages, floor |-> ExpectedMin(tokens)]
        /\ req' = [messages |-> messages, tokens |-> tokens, stream |-> stream]
        /\ pc' = "connect" /\ contract.turn < MaxTurns /\ pc = "idle"
        /\ UNCHANGED <<disk, contract, raw, rows, completed, row, cut, promoted>>
    BY <1>3 DEF Prepare
  <2>2. pending' \in PendingSet /\ req' \in ReqSet
    BY <1>1, <2>1, Floor DEF PendingSet, ReqSet
  <2>3. TypeOK'
    BY <2>1, <2>2 DEF TInv, TypeOK, PendingSet, ReqSet
  <2>4. Positions'
    BY <1>1, <2>1 DEF TInv, Positions
  <2> QED BY <2>3, <2>4 DEF TInv
<1> QED BY <1>2, <1>3

\* A commit or a promotion of a boundary.
LEMMA TypeAdvance ==
    ASSUME TInv, pc \in {"infer", "idle"},
           NEW tokens \in Prompts, NEW messages \in BoundedSeq(Message, MaxMessages + 1),
           disk' \in {disk, contract'},
           UNCHANGED <<raw, rows, req>>, pending' \in PendingSet,
           completed' \in BoundedSeq(Message, MaxMessages + 1), row' \in Row,
           cut' \in {"no", "named", "escaped"},
           \/ /\ contract.turn < MaxTurns
              /\ contract' = [contract EXCEPT !.turn = @ + 1, !.tokens = tokens, !.messages = messages]
              /\ pc' = "handler" \/ (pc' = "record" /\ row'.turn = contract'.turn)
              /\ UNCHANGED promoted
           \/ /\ contract' = [contract EXCEPT !.tokens = tokens, !.messages = messages]
              /\ contract.turn > 0 /\ promoted' = promoted \cup {contract.turn}
              /\ pc' \in {"answer", "handler"}
    PROVE  TInv'
<1>1. contract \in Session /\ contract.turn \in 0..MaxTurns
  BY DEF TInv, TypeOK, Session
<1>2. ASSUME contract.turn < MaxTurns, UNCHANGED promoted,
             contract' = [contract EXCEPT !.turn = @ + 1, !.tokens = tokens, !.messages = messages]
      PROVE  contract' \in Session /\ contract'.turn \in 1..MaxTurns /\ promoted' \subseteq 1..MaxTurns
  <2>1. contract' \in Session
    BY <1>1, <1>2, Updates
  <2>2. contract'.turn = contract.turn + 1
    BY <1>1, <1>2 DEF Session
  <2>3. contract'.turn \in 1..MaxTurns /\ promoted' \subseteq 1..MaxTurns
    BY SMTT(30), <1>1, <1>2, <2>2, Sets DEF TInv, TypeOK
  <2> QED BY <2>1, <2>3
<1>3. ASSUME contract' = [contract EXCEPT !.tokens = tokens, !.messages = messages],
             contract.turn > 0, promoted' = promoted \cup {contract.turn}
      PROVE  contract' \in Session /\ contract'.turn \in 1..MaxTurns /\ promoted' \subseteq 1..MaxTurns
  <2>1. contract' \in Session
    BY <1>1, <1>3, Updates
  <2>2. contract'.turn = contract.turn
    BY <1>1, <1>3 DEF Session
  <2>3. contract'.turn \in 1..MaxTurns /\ promoted' \subseteq 1..MaxTurns
    BY <1>1, <1>3, <2>2, Sets DEF TInv, TypeOK
  <2> QED BY <2>1, <2>3
<1>4. contract' \in Session /\ contract'.turn \in 1..MaxTurns /\ promoted' \subseteq 1..MaxTurns
  BY <1>2, <1>3
<1>5. TypeOK'
  BY <1>4 DEF TInv, TypeOK, PendingSet
<1>6. Positions'
  BY <1>4 DEF TInv, Positions
<1> QED BY <1>5, <1>6 DEF TInv

LEMMA TypeCommitRefuses ==
    ASSUME TInv, NEW cache \in Counts, NEW prompt \in Counts, CommitRefuses(cache, prompt)
    PROVE  TInv'
<1>1. contract' = [contract EXCEPT !.failed = TRUE] /\ disk' \in {disk, contract'}
      /\ pc' = "handler" /\ cut' = "named"
      /\ UNCHANGED <<raw, rows, pending, completed, req, row, promoted>>
  BY DEF CommitRefuses, Saved, SaveFails
<1>2. contract' \in Session /\ contract'.turn = contract.turn
  BY <1>1, Updates DEF TInv, TypeOK, Session
<1>3. TypeOK'
  BY <1>1, <1>2 DEF TInv, TypeOK
<1>4. Positions'
  BY <1>1, <1>2 DEF TInv, Positions
<1> QED BY <1>3, <1>4 DEF TInv

LEMMA TypeCommit ==
    ASSUME TInv, NEW cache \in Counts, NEW prompt \in Counts, NEW reply \in Replies,
           Commit(cache, prompt, reply)
    PROVE  TInv'
<1>1. pc = "infer" /\ contract.turn < MaxTurns /\ req.tokens \in Prompts
  BY DEF Commit, TInv, Positions, TypeOK
<1>2. pending.messages \in Conversations /\ req.messages \in Conversations
  BY DEF TInv, TypeOK
<1>3. pending.messages \in BoundedSeq(Message, MaxMessages + 1)
  BY <1>2, Sets
<1>4. req.messages \o reply \in BoundedSeq(Message, MaxMessages + 1)
  <2>1. req.messages \in Seq(Message) /\ reply \in Seq(Message)
        /\ Len(req.messages) <= MaxMessages /\ Len(reply) <= 1
    BY <1>2, Sets
  <2>2. req.messages \o reply \in Seq(Message)
        /\ Len(req.messages \o reply) <= MaxMessages + 1
    BY <2>1, Sets
  <2> QED BY <2>2, Sets
<1>5. /\ contract' = [contract EXCEPT !.turn = @ + 1, !.tokens = req.tokens,
                                      !.messages = pending.messages]
      /\ pending' = NoPending /\ disk' \in {disk, contract'}
      /\ UNCHANGED <<raw, rows, req, promoted>>
  BY DEF Commit, Saved, SaveFails
<1>6. contract'.turn \in 0..MaxTurns /\ Len(req.tokens) \in Counts /\ Len(contract.tokens) \in Counts
  <2>1. contract' \in Session
    BY <1>1, <1>3, <1>5, Updates DEF TInv, TypeOK
  <2>2. contract.tokens \in Prompts \cup {<<>>}
    BY DEF TInv, TypeOK, Session
  <2>3. \A s \in Prompts : Len(s) \in Counts
    BY Sets DEF Counts
  <2>4. Len(<<>>) \in Counts
    BY Sets DEF Counts
  <2> QED BY <1>1, <2>1, <2>2, <2>3, <2>4 DEF Session
<1>7. /\ completed' \in BoundedSeq(Message, MaxMessages + 1) /\ row' \in Row
      /\ cut' \in {"no", "named", "escaped"}
      /\ pc' = "handler" \/ (pc' = "record" /\ row'.turn = contract'.turn)
  <2>1. CASE pc' = "record"
    <3>1. /\ completed' = (IF reply = <<>> THEN <<>> ELSE req.messages \o reply)
          /\ row' = [turn |-> contract'.turn, previous |-> Len(contract.tokens),
                     tokens |-> Len(req.tokens), cache |-> cache, prompt |-> prompt]
          /\ cut' = cut
      BY <2>1 DEF Commit
    <3> QED BY <1>4, <1>6, <2>1, <3>1, Blanks DEF TInv, TypeOK, Row
  <2>2. CASE pc' # "record"
    BY <2>2 DEF Commit, TInv, TypeOK
  <2> QED BY <2>1, <2>2
<1> QED BY <1>1, <1>3, <1>5, <1>7, Blanks, TypeAdvance

LEMMA TypePromote ==
    ASSUME TInv, NEW tokens \in Prompts, NEW cache \in Counts, NEW prompt \in Counts,
           Promote(tokens, cache, prompt)
    PROVE  TInv'
<1>1. /\ pc = "idle" /\ contract.turn > 0
      /\ contract' = [contract EXCEPT !.tokens = tokens, !.messages = completed]
      /\ promoted' = promoted \cup {contract.turn} /\ pc' \in {"answer", "handler"}
      /\ disk' \in {disk, contract'}
      /\ UNCHANGED <<raw, rows, pending, completed, req, row, cut>>
  BY DEF Promote, Saved, SaveFails, TInv, Positions
<1>2. completed \in BoundedSeq(Message, MaxMessages + 1) /\ row \in Row /\ pending \in PendingSet
  BY DEF TInv, TypeOK, PendingSet
<1> QED BY <1>1, <1>2, TypeAdvance DEF TInv, TypeOK

LEMMA TypeRecordRaw == TInv /\ RecordRaw => TInv'
<1> SUFFICES ASSUME TInv, RecordRaw PROVE TInv'
  OBVIOUS
<1>1. row.turn \in 1..MaxTurns /\ pc' \in {"append", "handler"} /\ pc = "record"
      /\ raw' \in {raw, raw \cup {row.turn}}
      /\ UNCHANGED <<disk, rows, contract, pending, completed, req, row, cut, promoted>>
  BY DEF RecordRaw, TInv, Positions
<1>2. TypeOK'
  BY <1>1 DEF TInv, TypeOK
<1>3. Positions'
  BY <1>1 DEF TInv, Positions
<1> QED BY <1>2, <1>3 DEF TInv

LEMMA TypeRecordRow == TInv /\ RecordRow => TInv'
<1> SUFFICES ASSUME TInv, RecordRow PROVE TInv'
  OBVIOUS
<1>1. /\ rows' \in {rows, Append(rows, row)}
      /\ UNCHANGED <<disk, raw, contract, pending, completed, cut, promoted>>
      /\ Return \/ (pc' \in {"send", "handler"} /\ UNCHANGED <<req, row>>)
  BY DEF RecordRow
<1>2. rows' \in Seq(Row)
  BY <1>1 DEF TInv, TypeOK
<1>3. TypeOK'
  BY <1>1, <1>2, Blanks DEF TInv, TypeOK, Return, ReqSet
<1>4. Positions'
  BY <1>1 DEF TInv, Positions, Return
<1> QED BY <1>3, <1>4 DEF TInv

LEMMA TypeHandler == TInv /\ Handler => TInv'
<1> SUFFICES ASSUME TInv, Handler PROVE TInv'
  OBVIOUS
<1>1. contract' = [contract EXCEPT !.failed = TRUE] /\ disk' \in {disk, contract'} /\ Return
      /\ UNCHANGED <<raw, rows, pending, completed, cut, promoted>>
  BY DEF Handler, Saved, SaveFails
<1>2. contract' \in Session /\ contract'.turn = contract.turn
  BY <1>1, Updates DEF TInv, TypeOK, Session
<1>3. TypeOK'
  BY <1>1, <1>2, Blanks DEF TInv, TypeOK, Return, ReqSet
<1>4. Positions'
  BY <1>1, <1>2 DEF TInv, Positions, Return
<1> QED BY <1>3, <1>4 DEF TInv

\* The steps of a request that TypeQuiet covers.
Quiet == Connect \/ InferFails \/ InferEscapes \/ Send \/ AlignFails \/ AlignAnswer

LEMMA TypeOfQuiet == TInv /\ Quiet => TInv'
<1> SUFFICES ASSUME TInv, Quiet PROVE TInv'
  OBVIOUS
<1>1. UNCHANGED <<durable, contract, pending, completed, promoted>>
  BY DEF Quiet, Connect, InferFails, InferEscapes, Send, AlignFails, AlignAnswer
<1>2. cut' \in {"no", "named", "escaped"} /\ pc' \in PcSet
  BY DEF Quiet, Connect, InferFails, InferEscapes, Send, AlignFails, AlignAnswer, Return,
         TInv, TypeOK, PcSet
<1>3. \/ UNCHANGED <<req, row>> /\ pc' # "down"
         /\ (pc' \in {"connect", "infer"} => pc \in {"connect", "infer"})
         /\ (pc' \in {"record", "append"} => pc \in {"record", "append"})
      \/ Return
  BY DEF Quiet, Connect, InferFails, InferEscapes, Send, AlignFails, AlignAnswer, Return
<1> QED BY <1>1, <1>2, <1>3, TypeQuiet

\* The actions that remain behind the quiet ones.
LEMMA Steps ==
    ASSUME [Next]_vars
    PROVE  \/ UNCHANGED vars \/ Start \/ Crash \/ Quiet
           \/ RecordRaw \/ RecordRow \/ Handler
           \/ \E messages \in Histories, tokens \in Prompts, stream \in BOOLEAN :
                 Prepare(messages, tokens, stream)
           \/ \E cache, prompt \in Counts :
                 CommitRefuses(cache, prompt) \/ \E reply \in Replies : Commit(cache, prompt, reply)
           \/ \E tokens \in Prompts, cache, prompt \in Counts : Promote(tokens, cache, prompt)
BY DEF Next, Chat, Align, Quiet

LEMMA TypeNext == TInv /\ [Next]_vars => TInv'
<1> SUFFICES ASSUME TInv, [Next]_vars PROVE TInv'
  OBVIOUS
<1>1. CASE UNCHANGED vars
  BY <1>1 DEF TInv, TypeOK, Positions, vars
<1> QED BY <1>1, Steps, TypeStart, TypeCrash, TypeOfQuiet, TypePrepare, TypeCommitRefuses,
           TypeCommit, TypePromote, TypeRecordRaw, TypeRecordRow, TypeHandler

LEMMA TypeInvariant == Spec => []TInv
BY TypeInit, TypeNext, PTL DEF Spec

\* The types of the gateway's variables, in every reachable state.
THEOREM TypeCorrect == Spec => []TypeOK
<1>1. TInv => TypeOK
  BY DEF TInv
<1> QED BY <1>1, TypeInvariant, PTL

-----------------------------------------------------------------------------
(* The session in memory and on disk *)

Serving == {"connect", "infer", "record", "append", "send", "answer"}

\* Memory and file differ only on the way to the except clause, or sealed.
InStep == pc \notin {"down", "handler"} => (contract.failed \/ contract = disk)
\* No request is served on a sealed session.
Open == pc \in Serving => ~contract.failed
\* A sealed file is what memory holds.
SealedForGood == pc # "down" /\ disk.failed => contract = disk
\* Memory is never behind the file.
Ahead == pc # "down" => /\ IsPrefix(disk.messages, contract.messages)
                        /\ contract.turn \in {disk.turn, disk.turn + 1}
CutKnown == /\ pc = "down" => cut = "no"
            /\ cut = "named" => (pc = "handler" \/ contract.failed)
\* A request that was let through extends the conversation.
Extends == pc \in {"connect", "infer"} => IsPrefix(contract.messages, pending.messages)

SInv == TInv /\ InStep /\ Open /\ SealedForGood /\ Ahead /\ CutKnown /\ Extends

LEMMA Chats ==
    ASSUME TInv
    PROVE  /\ contract.messages \in Seq(Message) /\ disk.messages \in Seq(Message)
           /\ pending.messages \in Seq(Message) /\ completed \in Seq(Message)
           /\ contract.turn \in Nat /\ disk.turn \in Nat
           /\ contract.failed \in BOOLEAN /\ disk.failed \in BOOLEAN
<1>1. /\ contract \in Session /\ disk \in Session
      /\ pending.messages \in Conversations /\ completed \in BoundedSeq(Message, MaxMessages + 1)
  BY DEF TInv, TypeOK
<1>2. /\ contract.messages \in BoundedSeq(Message, MaxMessages + 1)
      /\ disk.messages \in BoundedSeq(Message, MaxMessages + 1)
      /\ contract.turn \in 0..MaxTurns /\ disk.turn \in 0..MaxTurns
      /\ contract.failed \in BOOLEAN /\ disk.failed \in BOOLEAN
  BY <1>1 DEF Session
<1> HIDE DEF Conversations
<1> QED BY <1>1, <1>2, Sets

LEMMA Reflexive == ASSUME NEW m \in Seq(Message) PROVE IsPrefix(m, m)
BY PrefixFacts

LEMMA SessionInit == Init => SInv
<1> SUFFICES ASSUME Init PROVE SInv
  OBVIOUS
<1>1. InStep /\ Open /\ SealedForGood /\ Ahead /\ CutKnown /\ Extends
  BY DEF Init, InStep, Open, SealedForGood, Ahead, CutKnown, Extends, Serving
<1> QED BY <1>1, TypeInit DEF SInv

\* The handler moves, and neither memory nor file changes.
LEMMA SessionQuiet ==
    ASSUME SInv, UNCHANGED <<disk, contract, pending>>, pc # "down", pc' # "down",
           (pc = "handler" => pc' = "handler"),
           (pc' \in Serving => pc \in Serving),
           (pc' \in {"connect", "infer"} => pc \in {"connect", "infer"}),
           (cut' = cut \/ cut' = "escaped" \/ (cut' = "named" /\ pc' = "handler")),
           (cut' = "named" /\ pc = "handler" => contract.failed \/ pc' = "handler")
    PROVE  InStep' /\ Open' /\ SealedForGood' /\ Ahead' /\ CutKnown' /\ Extends'
BY DEF SInv, InStep, Open, SealedForGood, Ahead, CutKnown, Extends

\* The session is sealed in memory, and in the file if it can be written.
LEMMA SessionSeal ==
    ASSUME SInv, TInv', pc # "down", contract' = [contract EXCEPT !.failed = TRUE],
           disk' \in {disk, contract'}, pc' \in {"idle", "handler"}
    PROVE  InStep' /\ Open' /\ SealedForGood' /\ Ahead' /\ CutKnown' /\ Extends'
<1>1. contract \in Session /\ disk \in Session
  BY DEF SInv, TInv, TypeOK
<1>2. /\ contract'.failed /\ contract'.messages = contract.messages
      /\ contract'.turn = contract.turn /\ (contract.failed => contract' = contract)
  BY <1>1 DEF Session
<1>3. IsPrefix(contract.messages, contract.messages)
  BY Chats, Reflexive DEF SInv
<1>4. InStep' /\ Open' /\ CutKnown' /\ Extends'
  BY <1>2 DEF InStep, Open, CutKnown, Extends, Serving
<1>5. SealedForGood'
  BY <1>2 DEF SInv, SealedForGood
<1>6. Ahead'
  BY <1>2, <1>3 DEF SInv, Ahead
<1> QED BY <1>4, <1>5, <1>6

\* A turn or a boundary: from an open session in step, to one in step or to
\* the except clause.
LEMMA SessionAdvance ==
    ASSUME SInv, TInv', pc \in {"infer", "idle"}, ~contract.failed, ~contract'.failed,
           IsPrefix(contract.messages, contract'.messages),
           contract'.turn \in {contract.turn, contract.turn + 1},
           \/ disk' = contract' /\ pc' \in {"record", "answer"} /\ UNCHANGED cut
           \/ disk' = disk /\ pc' = "handler"
    PROVE  InStep' /\ Open' /\ SealedForGood' /\ Ahead' /\ CutKnown' /\ Extends'
<1>1. contract = disk
  BY DEF SInv, InStep
<1>2. IsPrefix(contract'.messages, contract'.messages)
  <2>1. contract'.messages \in Seq(Message)
    <3>1. contract' \in Session
      BY DEF TInv, TypeOK
    <3>2. contract'.messages \in BoundedSeq(Message, MaxMessages + 1)
      BY <3>1 DEF Session
    <3> QED BY <3>2, Sets
  <2> QED BY <2>1, Reflexive
<1>3. InStep' /\ Open' /\ Extends'
  BY DEF InStep, Open, Extends, Serving
<1>4. CutKnown'
  BY DEF SInv, CutKnown
<1>5. SealedForGood'
  BY <1>1 DEF SealedForGood
<1>6. Ahead'
  BY <1>1, <1>2 DEF Ahead
<1> QED BY <1>3, <1>4, <1>5, <1>6

LEMMA SessionStart == SInv /\ Start => SInv'
<1> SUFFICES ASSUME SInv, Start PROVE SInv'
  OBVIOUS
<1>1. IsPrefix(disk.messages, disk.messages)
  BY Chats, Reflexive DEF SInv
<1>2. InStep' /\ Open' /\ SealedForGood' /\ Ahead' /\ CutKnown' /\ Extends'
  BY <1>1 DEF SInv, Start, durable, InStep, Open, SealedForGood, Ahead, CutKnown, Extends, Serving
<1> QED BY <1>2, TypeStart DEF SInv

LEMMA SessionCrash == SInv /\ Crash => SInv'
<1> SUFFICES ASSUME SInv, Crash PROVE SInv'
  OBVIOUS
<1>1. InStep' /\ Open' /\ SealedForGood' /\ Ahead' /\ CutKnown' /\ Extends'
  BY DEF Crash, InStep, Open, SealedForGood, Ahead, CutKnown, Extends, Serving
<1> QED BY <1>1, TypeCrash DEF SInv

LEMMA SessionOfQuiet == SInv /\ Quiet => SInv'
<1> SUFFICES ASSUME SInv, Quiet PROVE SInv'
  OBVIOUS
<1>1. UNCHANGED <<disk, contract, pending>> /\ pc # "down" /\ pc' # "down" /\ pc # "handler"
  BY DEF Quiet, Connect, InferFails, InferEscapes, Send, AlignFails, AlignAnswer, Return, durable
<1>2. /\ pc' \in Serving => pc \in Serving
      /\ pc' \in {"connect", "infer"} => pc \in {"connect", "infer"}
      /\ cut' = cut \/ cut' = "escaped" \/ (cut' = "named" /\ pc' = "handler")
  BY DEF Quiet, Connect, InferFails, InferEscapes, Send, AlignFails, AlignAnswer, Return, Serving
<1> QED BY <1>1, <1>2, SessionQuiet, TypeOfQuiet DEF SInv

LEMMA SessionRecord == SInv /\ (RecordRaw \/ RecordRow) => SInv'
<1> SUFFICES ASSUME SInv, RecordRaw \/ RecordRow PROVE SInv'
  OBVIOUS
<1>1. UNCHANGED <<disk, contract, pending, cut>> /\ pc \in {"record", "append"}
      /\ pc' \in {"append", "handler", "idle", "send"}
  BY DEF RecordRaw, RecordRow, Return
<1>2. InStep' /\ Open' /\ SealedForGood' /\ Ahead' /\ CutKnown' /\ Extends'
  BY <1>1, SessionQuiet DEF Serving
<1> QED BY <1>2, TypeRecordRaw, TypeRecordRow DEF SInv

LEMMA SessionHandler == SInv /\ Handler => SInv'
<1> SUFFICES ASSUME SInv, Handler PROVE SInv'
  OBVIOUS
<1>1. TInv'
  BY TypeHandler DEF SInv
<1>2. /\ contract' = [contract EXCEPT !.failed = TRUE] /\ disk' \in {disk, contract'}
      /\ pc = "handler" /\ pc' = "idle"
  BY DEF Handler, Return, Saved, SaveFails
<1> QED BY <1>1, <1>2, SessionSeal DEF SInv

LEMMA SessionCommitRefuses ==
    ASSUME SInv, NEW cache \in Counts, NEW prompt \in Counts, CommitRefuses(cache, prompt)
    PROVE  SInv'
<1>1. TInv'
  BY TypeCommitRefuses DEF SInv
<1>2. /\ contract' = [contract EXCEPT !.failed = TRUE] /\ disk' \in {disk, contract'}
      /\ pc = "infer" /\ pc' = "handler"
  BY DEF CommitRefuses, Saved, SaveFails
<1> QED BY <1>1, <1>2, SessionSeal DEF SInv

LEMMA SessionPrepare ==
    ASSUME SInv, NEW messages \in Histories, NEW tokens \in Prompts, NEW stream \in BOOLEAN,
           Prepare(messages, tokens, stream)
    PROVE  SInv'
<1>1. TInv'
  BY TypePrepare DEF SInv
<1>2. CASE Rewrites(messages) \/ TooEarly(tokens)
  <2>1. contract' = [contract EXCEPT !.failed = TRUE] /\ disk' \in {disk, contract'}
        /\ pc = "idle" /\ pc' = "idle"
    BY <1>2 DEF Prepare, Saved, SaveFails
  <2> QED BY <1>1, <2>1, SessionSeal DEF SInv
<1>3. CASE ~(Rewrites(messages) \/ TooEarly(tokens))
  <2>1. /\ pending' = [messages |-> messages, floor |-> ExpectedMin(tokens)]
        /\ IsPrefix(contract.messages, messages)
        /\ pc' = "connect" /\ pc = "idle" /\ ~contract.failed
        /\ UNCHANGED <<disk, contract, cut>>
    BY <1>3 DEF Prepare, Rewrites
  <2>2. InStep' /\ Open' /\ SealedForGood' /\ Ahead' /\ CutKnown' /\ Extends'
    BY <2>1 DEF SInv, InStep, Open, SealedForGood, Ahead, CutKnown, Extends, Serving
  <2> QED BY <1>1, <2>2 DEF SInv
<1> QED BY <1>2, <1>3

LEMMA SessionCommit ==
    ASSUME SInv, NEW cache \in Counts, NEW prompt \in Counts, NEW reply \in Replies,
           Commit(cache, prompt, reply)
    PROVE  SInv'
<1>1. TInv'
  BY TypeCommit DEF SInv
<1>2. /\ pc = "infer"
      /\ contract' = [contract EXCEPT !.turn = @ + 1, !.tokens = req.tokens,
                                      !.messages = pending.messages]
      /\ \/ disk' = contract' /\ pc' \in {"record", "answer"} /\ UNCHANGED cut
         \/ disk' = disk /\ pc' = "handler"
  BY DEF Commit, Saved, SaveFails
<1>3. contract \in Session /\ ~contract.failed /\ IsPrefix(contract.messages, pending.messages)
  BY <1>2 DEF SInv, TInv, TypeOK, Open, Extends, Serving
<1>4. contract'.turn = contract.turn + 1 /\ contract'.messages = pending.messages
      /\ ~contract'.failed
  BY <1>2, <1>3 DEF Session
<1> QED BY <1>1, <1>2, <1>3, <1>4, SessionAdvance DEF SInv

LEMMA SessionPromote ==
    ASSUME SInv, NEW tokens \in Prompts, NEW cache \in Counts, NEW prompt \in Counts,
           Promote(tokens, cache, prompt)
    PROVE  SInv'
<1>1. TInv'
  BY TypePromote DEF SInv
<1>2. /\ pc = "idle" /\ ~contract.failed /\ IsPrefix(contract.messages, completed)
      /\ contract' = [contract EXCEPT !.tokens = tokens, !.messages = completed]
      /\ \/ disk' = contract' /\ pc' \in {"record", "answer"} /\ UNCHANGED cut
         \/ disk' = disk /\ pc' = "handler"
  BY DEF Promote, BoundaryHolds, Saved, SaveFails
<1>3. contract \in Session
  BY DEF SInv, TInv, TypeOK
<1>4. contract'.turn = contract.turn /\ contract'.messages = completed /\ ~contract'.failed
  BY <1>2, <1>3 DEF Session
<1> QED BY <1>1, <1>2, <1>4, SessionAdvance DEF SInv

LEMMA SessionNext == SInv /\ [Next]_vars => SInv'
<1> SUFFICES ASSUME SInv, [Next]_vars PROVE SInv'
  OBVIOUS
<1>1. CASE UNCHANGED vars
  <2>1. TInv'
    BY TypeNext DEF SInv
  <2>2. InStep' /\ Open' /\ SealedForGood' /\ Ahead' /\ CutKnown' /\ Extends'
    BY <1>1 DEF SInv, vars, InStep, Open, SealedForGood, Ahead, CutKnown, Extends
  <2> QED BY <2>1, <2>2 DEF SInv
<1> QED BY <1>1, Steps, SessionStart, SessionCrash, SessionOfQuiet, SessionPrepare,
           SessionCommitRefuses, SessionCommit, SessionPromote, SessionRecord, SessionHandler

LEMMA SessionInvariant == Spec => []SInv
BY SessionInit, SessionNext, PTL DEF Spec

\* Between two requests an open session holds in memory what session.json holds.
THEOREM MemoryIsDurableHolds == Spec => []MemoryIsDurable
<1>1. SInv => MemoryIsDurable
  BY DEF SInv, InStep, MemoryIsDurable
<1> QED BY <1>1, SessionInvariant, PTL

\* A process that lost an inference to a failure that the handler names serves
\* no further turn.
THEOREM NamedCutMeansSealedHolds == Spec => []NamedCutMeansSealed
<1>1. SInv => NamedCutMeansSealed
  BY DEF SInv, CutKnown, NamedCutMeansSealed
<1> QED BY <1>1, SessionInvariant, PTL

-----------------------------------------------------------------------------
(* The evidence *)

\* Steps by what they do to the files: those that only move the handler, ...
Moving == /\ UNCHANGED <<durable, contract, pending, promoted>>
          /\ pc # "down" /\ pc' \notin {"down", "record", "append"}
          /\ pc' \in {"connect", "infer"} => pc \in {"connect", "infer"} /\ UNCHANGED req
\* ... those that let a request through, ...
Admitting(tokens) ==
    /\ UNCHANGED <<durable, contract, promoted>>
    /\ pc = "idle" /\ pc' = "connect" /\ ~TooEarly(tokens)
    /\ pending'.floor = ExpectedMin(tokens) /\ req'.tokens = tokens
\* ... and those that seal the session.
Sealing == /\ contract' = [contract EXCEPT !.failed = TRUE] /\ disk' \in {disk, contract'}
           /\ pc # "down" /\ pc' \in {"idle", "handler"}
           /\ UNCHANGED <<raw, rows, promoted>>

LEMMA Kinds ==
    ASSUME [Next]_vars
    PROVE  \/ UNCHANGED vars \/ Start \/ Crash \/ Moving \/ Sealing
           \/ RecordRaw \/ RecordRow
           \/ \E tokens \in Prompts : Admitting(tokens)
           \/ \E cache, prompt \in Counts, reply \in Replies : Commit(cache, prompt, reply)
           \/ \E tokens \in Prompts, cache, prompt \in Counts : Promote(tokens, cache, prompt)
<1>1. Quiet => Moving
  BY DEF Quiet, Connect, InferFails, InferEscapes, Send, AlignFails, AlignAnswer, Return, Moving
<1>2. Handler => Sealing
  BY DEF Handler, Return, Saved, SaveFails, Sealing
<1>3. ASSUME NEW cache \in Counts, NEW prompt \in Counts, CommitRefuses(cache, prompt)
      PROVE  Sealing
  BY <1>3 DEF CommitRefuses, Saved, SaveFails, Sealing
<1>4. ASSUME NEW messages \in Histories, NEW tokens \in Prompts, NEW stream \in BOOLEAN,
             Prepare(messages, tokens, stream)
      PROVE  Sealing \/ Admitting(tokens)
  <2>1. CASE Rewrites(messages) \/ TooEarly(tokens)
    BY <1>4, <2>1 DEF Prepare, Saved, SaveFails, Sealing
  <2>2. CASE ~(Rewrites(messages) \/ TooEarly(tokens))
    BY <1>4, <2>2 DEF Prepare, Admitting, durable
  <2> QED BY <2>1, <2>2
<1> QED BY <1>1, <1>2, <1>3, <1>4, Steps

\* What a commit does when its turn is saved, and when it is not.
LEMMA CommitEffects ==
    ASSUME SInv, NEW cache \in Counts, NEW prompt \in Counts, NEW reply \in Replies,
           Commit(cache, prompt, reply)
    PROVE  /\ pc = "infer" /\ contract = disk /\ CountsHold(req.tokens, cache, prompt)
           /\ contract'.turn = disk.turn + 1 /\ contract'.tokens = req.tokens
           /\ contract'.messages = pending.messages /\ contract'.failed = FALSE
           /\ UNCHANGED <<raw, rows, promoted>>
           /\ \/ /\ disk' = contract' /\ pc' = "record"
                 /\ row' = [turn |-> contract'.turn, previous |-> Len(contract.tokens),
                            tokens |-> Len(req.tokens), cache |-> cache, prompt |-> prompt]
              \/ disk' = disk /\ pc' = "handler"
<1>1. /\ pc = "infer" /\ CountsHold(req.tokens, cache, prompt)
      /\ contract' = [contract EXCEPT !.turn = @ + 1, !.tokens = req.tokens,
                                      !.messages = pending.messages]
      /\ UNCHANGED <<raw, rows, promoted>>
      /\ \/ /\ disk' = contract' /\ pc' = "record"
            /\ row' = [turn |-> contract'.turn, previous |-> Len(contract.tokens),
                       tokens |-> Len(req.tokens), cache |-> cache, prompt |-> prompt]
         \/ disk' = disk /\ pc' = "handler"
  BY DEF Commit, Saved, SaveFails
<1>2. contract \in Session /\ ~contract.failed /\ contract = disk
  BY <1>1 DEF SInv, TInv, TypeOK, Open, InStep, Serving
<1>3. /\ contract'.turn = contract.turn + 1 /\ contract'.tokens = req.tokens
      /\ contract'.messages = pending.messages /\ contract'.failed = FALSE
  BY <1>1, <1>2 DEF Session
<1> QED BY <1>1, <1>2, <1>3

LEMMA PromoteEffects ==
    ASSUME SInv, NEW tokens \in Prompts, NEW cache \in Counts, NEW prompt \in Counts,
           Promote(tokens, cache, prompt)
    PROVE  /\ pc = "idle" /\ contract = disk
           /\ contract'.turn = disk.turn /\ contract'.tokens = tokens
           /\ contract'.messages = completed /\ contract'.failed = FALSE
           /\ IsPrefix(contract.messages, completed)
           /\ promoted' = promoted \cup {disk.turn} /\ UNCHANGED <<raw, rows>>
           /\ pc' \in {"answer", "handler"} /\ disk' \in {disk, contract'}
<1>1. /\ pc = "idle" /\ ~contract.failed /\ IsPrefix(contract.messages, completed)
      /\ contract' = [contract EXCEPT !.tokens = tokens, !.messages = completed]
      /\ promoted' = promoted \cup {contract.turn} /\ UNCHANGED <<raw, rows>>
      /\ pc' \in {"answer", "handler"} /\ disk' \in {disk, contract'}
  BY DEF Promote, BoundaryHolds, Saved, SaveFails
<1>2. contract \in Session /\ contract = disk
  BY <1>1 DEF SInv, TInv, TypeOK, InStep
<1>3. /\ contract'.turn = contract.turn /\ contract'.tokens = tokens
      /\ contract'.messages = completed /\ contract'.failed = FALSE
  BY <1>1, <1>2 DEF Session
<1> QED BY <1>1, <1>2, <1>3

LEMMA SealEffects ==
    ASSUME SInv, Sealing
    PROVE  /\ contract'.turn = contract.turn /\ contract'.tokens = contract.tokens
           /\ contract'.messages = contract.messages /\ contract'.failed = TRUE
           /\ (contract.failed => contract' = contract)
           /\ contract.turn \in {disk.turn, disk.turn + 1}
           /\ IsPrefix(disk.messages, contract.messages)
<1>1. contract \in Session
  BY DEF SInv, TInv, TypeOK
<1> QED BY <1>1 DEF SInv, Ahead, Sealing, Session

\* Raw files and rows are of turns that the file counts.
Counted == /\ \A t \in raw : t <= disk.turn
           /\ \A i \in DOMAIN rows : rows[i].turn \in raw
\* The row on its way is the first of the turn that was counted last.
Newest ==
    /\ pc \in {"record", "append"} =>
          row.turn = disk.turn /\ \A i \in DOMAIN rows : rows[i].turn < row.turn
    /\ pc = "record" => row.turn \notin raw
    /\ pc = "append" => row.turn \in raw

EInv == SInv /\ Counted /\ Newest

LEMMA EvidenceInit == Init => EInv
<1> SUFFICES ASSUME Init PROVE EInv
  OBVIOUS
<1>1. Counted /\ Newest
  BY DEF Init, Counted, Newest
<1> QED BY <1>1, SessionInit DEF EInv

\* No evidence is written, and the file's count does not fall.
LEMMA EvidenceKept ==
    ASSUME EInv, UNCHANGED <<raw, rows>>, disk'.turn \in {disk.turn, disk.turn + 1},
           pc' \notin {"record", "append"}
    PROVE  Counted' /\ Newest'
<1>1. raw \subseteq Nat /\ disk.turn \in Nat
  BY Chats DEF EInv, SInv, TInv, TypeOK
<1>2. Counted'
  BY <1>1 DEF EInv, Counted
<1>3. Newest'
  BY DEF Newest
<1> QED BY <1>2, <1>3

LEMMA EvidenceCommit ==
    ASSUME EInv, NEW cache \in Counts, NEW prompt \in Counts, NEW reply \in Replies,
           Commit(cache, prompt, reply)
    PROVE  Counted' /\ Newest'
<1>1. raw \subseteq Nat /\ disk.turn \in Nat
  BY Chats DEF EInv, SInv, TInv, TypeOK
<1>2. CASE disk' = disk /\ pc' = "handler"
  BY <1>1, <1>2, CommitEffects, EvidenceKept DEF EInv
<1>3. CASE disk' = contract' /\ pc' = "record"
  <2>1. disk'.turn = disk.turn + 1 /\ row'.turn = disk.turn + 1 /\ UNCHANGED <<raw, rows>>
    <3>1. contract'.turn = disk.turn + 1 /\ UNCHANGED <<raw, rows>>
      BY CommitEffects DEF EInv
    <3>2. row' = [turn |-> contract'.turn, previous |-> Len(contract.tokens),
                  tokens |-> Len(req.tokens), cache |-> cache, prompt |-> prompt]
      BY <1>3, CommitEffects DEF EInv
    <3>3. row'.turn = contract'.turn
      BY <3>2
    <3> QED BY <1>3, <3>1, <3>3
  <2>2. \A t \in raw : t < row'.turn /\ t <= disk'.turn
    BY <1>1, <2>1 DEF EInv, Counted
  <2>3. Counted'
    BY <2>1, <2>2 DEF EInv, Counted
  <2>4. row'.turn \notin raw
    <3>1. row'.turn \in Nat
      BY <1>1, <2>1
    <3> QED BY <2>2, <3>1
  <2>5. \A i \in DOMAIN rows : rows[i].turn < row'.turn
    BY <2>2 DEF EInv, Counted
  <2>6. Newest'
    BY <1>3, <2>1, <2>4, <2>5 DEF Newest
  <2> QED BY <2>3, <2>6
<1> QED BY <1>2, <1>3, CommitEffects DEF EInv

LEMMA EvidenceRaw == EInv /\ RecordRaw => Counted' /\ Newest'
<1> SUFFICES ASSUME EInv, RecordRaw PROVE Counted' /\ Newest'
  OBVIOUS
<1>1. /\ pc = "record" /\ row.turn = disk.turn /\ disk.turn \in Nat
      /\ \A i \in DOMAIN rows : rows[i].turn < row.turn
  BY Chats DEF RecordRaw, EInv, SInv, Newest
<1>2. /\ raw' \in {raw, raw \cup {row.turn}} /\ UNCHANGED <<disk, rows, row>>
      /\ \/ pc' = "append" /\ raw' = raw \cup {row.turn}
         \/ pc' = "handler"
  BY DEF RecordRaw
<1>3. Counted'
  BY <1>1, <1>2 DEF EInv, Counted
<1>4. Newest'
  BY <1>1, <1>2 DEF Newest
<1> QED BY <1>3, <1>4

\* What RecordRow does to the rows.
LEMMA Appended ==
    ASSUME TInv, rows' = Append(rows, row)
    PROVE  /\ Len(rows') = Len(rows) + 1 /\ Len(rows) \in Nat
           /\ DOMAIN rows' = 1..(Len(rows) + 1) /\ DOMAIN rows = 1..Len(rows)
           /\ rows'[Len(rows) + 1] = row
           /\ \A i \in 1..Len(rows) : rows'[i] = rows[i]
BY DEF TInv, TypeOK

LEMMA EvidenceRow == EInv /\ RecordRow => Counted' /\ Newest'
<1> SUFFICES ASSUME EInv, RecordRow PROVE Counted' /\ Newest'
  OBVIOUS
<1>1. /\ pc = "append" /\ row.turn \in raw /\ pc' \in {"idle", "send", "handler"}
      /\ rows' = rows \/ rows' = Append(rows, row)
      /\ UNCHANGED <<disk, raw>>
  BY DEF RecordRow, Return, EInv, Newest
<1>2. Newest'
  BY <1>1 DEF Newest
<1>3. CASE rows' = rows
  BY <1>1, <1>2, <1>3 DEF EInv, Counted
<1>4. CASE rows' = Append(rows, row)
  <2>1. \A i \in DOMAIN rows' : rows'[i].turn \in raw
    BY <1>1, <1>4, Appended DEF EInv, SInv, Counted
  <2> QED BY <1>1, <1>2, <2>1 DEF EInv, Counted
<1> QED BY <1>1, <1>3, <1>4

LEMMA EvidenceNext == EInv /\ [Next]_vars => EInv'
<1> SUFFICES ASSUME EInv, [Next]_vars PROVE EInv'
  OBVIOUS
<1> USE DEF EInv
<1>1. SInv'
  BY SessionNext
<1>2. CASE UNCHANGED vars
  BY <1>1, <1>2 DEF Counted, Newest, vars
<1>3. CASE Start \/ Crash \/ Moving \/ \E tokens \in Prompts : Admitting(tokens)
  <2>1. UNCHANGED durable /\ pc' \notin {"record", "append"}
    BY <1>3 DEF Start, Crash, Moving, Admitting
  <2> QED BY <1>1, <2>1, EvidenceKept DEF durable
<1>4. CASE Sealing
  <2>1. disk'.turn \in {disk.turn, disk.turn + 1}
    BY <1>4, SealEffects DEF Sealing
  <2> QED BY <1>1, <1>4, <2>1, EvidenceKept DEF Sealing
<1>5. ASSUME NEW tokens \in Prompts, NEW cache \in Counts, NEW prompt \in Counts,
             Promote(tokens, cache, prompt)
      PROVE  EInv'
  BY <1>1, <1>5, PromoteEffects, EvidenceKept
<1> QED BY <1>1, <1>2, <1>3, <1>4, <1>5, Kinds, EvidenceCommit, EvidenceRaw, EvidenceRow

LEMMA EvidenceInvariant == Spec => []EInv
BY EvidenceInit, EvidenceNext, PTL DEF Spec

\* Raw files are never in the way of a turn.
THEOREM EvidenceFitsHolds == Spec => []EvidenceFits
<1>1. EInv => EvidenceFits
  BY DEF EInv, Newest, EvidenceFits
<1> QED BY <1>1, EvidenceInvariant, PTL

\* A row stands on raw files and on a turn that session.json counts.
THEOREM EvidenceGroundedHolds == Spec => []EvidenceGrounded
<1>1. EInv => EvidenceGrounded
  BY DEF EInv, Counted, EvidenceGrounded
<1> QED BY <1>1, EvidenceInvariant, PTL

-----------------------------------------------------------------------------
(* Reuse of the earlier prompt *)

\* The floor of the request under way leaves the replay and the tail only.
FloorKept == pc \in {"connect", "infer"} =>
                pending.floor + Replay + Tolerance >= Len(contract.tokens)
\* Who has the count of a row has its prompt, unless a boundary came behind.
Bears(session) == \A i \in DOMAIN rows : rows[i].turn = session.turn =>
                     rows[i].tokens = Len(session.tokens) \/ session.turn \in promoted
\* The row on its way is what AdjacentRowsReuse asks of it.
RowReady == pc \in {"record", "append"} =>
    /\ row.cache + Replay + Tolerance >= row.previous
    /\ row.tokens = Len(disk.tokens)
    /\ \A i \in DOMAIN rows : rows[i].turn + 1 = row.turn =>
          row.previous = rows[i].tokens \/ rows[i].turn \in promoted

RInv == /\ EInv /\ AdjacentRowsReuse /\ FloorKept /\ RowReady
        /\ Bears(disk) /\ (pc # "down" => Bears(contract))

LEMMA RowTypes ==
    ASSUME TInv
    PROVE  /\ \A i \in DOMAIN rows : rows[i].turn \in Nat
           /\ disk.turn \in Nat /\ contract.turn \in Nat /\ row.turn \in Nat
           /\ Len(contract.tokens) \in Nat /\ pending.floor \in Nat
<1>1. rows \in Seq(Row) /\ row \in Row /\ pending \in PendingSet
      /\ contract \in Session /\ disk \in Session
  BY DEF TInv, TypeOK, PendingSet
<1>2. \A i \in DOMAIN rows : rows[i] \in Row
  BY <1>1
<1>3. 0..MaxTurns \subseteq Nat
  BY Sets
<1>4. row.turn \in Nat /\ \A i \in DOMAIN rows : rows[i].turn \in Nat
  BY <1>1, <1>2, <1>3 DEF Row
<1>5. Len(contract.tokens) \in Nat
  <2>1. contract.tokens \in Prompts \cup {<<>>}
    BY <1>1 DEF Session
  <2>2. \A s \in Prompts : Len(s) \in Nat
    BY Sets
  <2>3. Len(<<>>) \in Nat
    OBVIOUS
  <2> QED BY <2>1, <2>2, <2>3
<1>6. disk.turn \in Nat /\ contract.turn \in Nat
  BY <1>1, <1>3 DEF Session
<1>7. pending.floor \in Nat
  BY <1>1, Sets DEF PendingSet
<1> QED BY <1>4, <1>5, <1>6, <1>7

LEMMA ReuseInit == Init => RInv
<1> SUFFICES ASSUME Init PROVE RInv
  OBVIOUS
<1>1. AdjacentRowsReuse /\ FloorKept /\ RowReady /\ Bears(disk) /\ pc = "down"
  BY DEF Init, AdjacentRowsReuse, FloorKept, RowReady, Bears
<1> QED BY <1>1, EvidenceInit DEF RInv

\* Nothing is written, and the handler does not come to a row or a request.
LEMMA ReuseKept ==
    ASSUME RInv, UNCHANGED <<durable, promoted>>, pc' \notin {"record", "append"},
           (pc' # "down" => (Bears(contract))'), FloorKept'
    PROVE  /\ AdjacentRowsReuse' /\ FloorKept' /\ RowReady'
           /\ (Bears(disk))' /\ (pc' # "down" => (Bears(contract))')
<1>1. AdjacentRowsReuse' /\ (Bears(disk))'
  BY DEF RInv, durable, AdjacentRowsReuse, Bears
<1>2. RowReady'
  BY DEF RowReady
<1> QED BY <1>1, <1>2

LEMMA ReuseMoves ==
    ASSUME RInv, Start \/ Crash \/ Moving \/ \E tokens \in Prompts : Admitting(tokens)
    PROVE  /\ AdjacentRowsReuse' /\ FloorKept' /\ RowReady'
           /\ (Bears(disk))' /\ (pc' # "down" => (Bears(contract))')
<1>1. UNCHANGED <<durable, promoted>> /\ pc' \notin {"record", "append"}
  BY DEF Start, Crash, Moving, Admitting
<1>2. pc' # "down" => (Bears(contract))'
  BY DEF RInv, Start, Crash, Moving, Admitting, durable, Bears
<1>3. FloorKept'
  <2>1. CASE Start \/ Crash \/ Moving
    BY <2>1 DEF RInv, Start, Crash, Moving, FloorKept
  <2>2. ASSUME NEW tokens \in Prompts, Admitting(tokens) PROVE FloorKept'
    <3>1. ExpectedMin(tokens) + Replay + Tolerance >= Len(contract.tokens)
      BY <2>2, Floor DEF Admitting, RInv, EInv, SInv
    <3> QED BY <2>2, <3>1 DEF Admitting, FloorKept
  <2> QED BY <2>1, <2>2
<1> QED BY <1>1, <1>2, <1>3, ReuseKept

LEMMA ReuseSeal ==
    ASSUME RInv, Sealing
    PROVE  /\ AdjacentRowsReuse' /\ FloorKept' /\ RowReady'
           /\ (Bears(disk))' /\ (pc' # "down" => (Bears(contract))')
<1>1. contract'.turn = contract.turn /\ contract'.tokens = contract.tokens
  BY SealEffects DEF RInv, EInv
<1>2. UNCHANGED <<rows, promoted>> /\ pc' \in {"idle", "handler"} /\ pc # "down"
      /\ disk' \in {disk, contract'}
  BY DEF Sealing
<1>3. AdjacentRowsReuse' /\ FloorKept' /\ RowReady'
  BY <1>2 DEF RInv, AdjacentRowsReuse, FloorKept, RowReady
<1>4. (Bears(contract))'
  BY <1>1, <1>2 DEF RInv, Bears
<1>5. (Bears(disk))'
  BY <1>2, <1>4 DEF RInv, Bears
<1> QED BY <1>3, <1>4, <1>5

LEMMA ReuseCommit ==
    ASSUME RInv, NEW cache \in Counts, NEW prompt \in Counts, NEW reply \in Replies,
           Commit(cache, prompt, reply)
    PROVE  /\ AdjacentRowsReuse' /\ FloorKept' /\ RowReady'
           /\ (Bears(disk))' /\ (pc' # "down" => (Bears(contract))')
<1>1. /\ pc = "infer" /\ contract = disk /\ CountsHold(req.tokens, cache, prompt)
      /\ contract'.turn = disk.turn + 1 /\ contract'.tokens = req.tokens
      /\ UNCHANGED <<raw, rows, promoted>> /\ pc' \in {"record", "handler"}
      /\ disk' \in {disk, contract'}
  BY CommitEffects DEF RInv, EInv
<1>2. \A i \in DOMAIN rows : rows[i].turn \in Nat /\ rows[i].turn <= disk.turn
  BY RowTypes DEF RInv, EInv, SInv, Counted
<1>3. disk.turn \in Nat /\ Len(contract.tokens) \in Nat /\ pending.floor \in Nat /\ cache \in Nat
  BY RowTypes, Sets DEF RInv, EInv, SInv
<1>4. AdjacentRowsReuse' /\ FloorKept'
  BY <1>1 DEF RInv, AdjacentRowsReuse, FloorKept
<1>5. (Bears(contract))'
  BY <1>1, <1>2, <1>3 DEF Bears
<1>6. (Bears(disk))'
  BY <1>1, <1>5 DEF RInv, Bears
<1>7. RowReady'
  <2>1. SUFFICES ASSUME pc' = "record" PROVE RowReady'
    BY <1>1 DEF RowReady
  <2>2. /\ disk' = contract'
        /\ row' = [turn |-> contract'.turn, previous |-> Len(contract.tokens),
                   tokens |-> Len(req.tokens), cache |-> cache, prompt |-> prompt]
    BY <2>1, CommitEffects DEF RInv, EInv
  <2>3. /\ row'.turn = disk.turn + 1 /\ row'.previous = Len(disk.tokens)
        /\ row'.tokens = Len(disk'.tokens) /\ row'.cache = cache
    BY <1>1, <2>2
  <2>4. cache + Replay + Tolerance >= Len(contract.tokens)
    <3>1. contract.tokens # <<>> => cache >= pending.floor
      BY <1>1 DEF CountsHold
    <3>2. pending.floor + Replay + Tolerance >= Len(contract.tokens)
      BY <1>1 DEF RInv, FloorKept
    <3>3. contract.tokens = <<>> => Len(contract.tokens) = 0
      OBVIOUS
    <3> QED BY <1>3, <3>1, <3>2, <3>3, WindowAssumption
  <2>5. \A i \in DOMAIN rows : rows[i].turn + 1 = row'.turn =>
           row'.previous = rows[i].tokens \/ rows[i].turn \in promoted
    BY <1>2, <1>3, <2>3 DEF RInv, Bears
  <2> QED BY <1>1, <2>3, <2>4, <2>5 DEF RowReady
<1> QED BY <1>4, <1>5, <1>6, <1>7

LEMMA ReusePromote ==
    ASSUME RInv, NEW tokens \in Prompts, NEW cache \in Counts, NEW prompt \in Counts,
           Promote(tokens, cache, prompt)
    PROVE  /\ AdjacentRowsReuse' /\ FloorKept' /\ RowReady'
           /\ (Bears(disk))' /\ (pc' # "down" => (Bears(contract))')
<1>1. /\ contract'.turn = disk.turn /\ promoted' = promoted \cup {disk.turn} /\ UNCHANGED rows
      /\ pc' \in {"answer", "handler"} /\ disk' \in {disk, contract'}
  BY PromoteEffects DEF RInv, EInv
<1>2. AdjacentRowsReuse'
  BY <1>1 DEF RInv, AdjacentRowsReuse
<1>3. FloorKept' /\ RowReady'
  BY <1>1 DEF FloorKept, RowReady
<1>4. (Bears(contract))' /\ (Bears(disk))'
  BY <1>1 DEF Bears
<1> QED BY <1>2, <1>3, <1>4

LEMMA ReuseRaw ==
    ASSUME RInv, RecordRaw
    PROVE  /\ AdjacentRowsReuse' /\ FloorKept' /\ RowReady'
           /\ (Bears(disk))' /\ (pc' # "down" => (Bears(contract))')
<1>1. pc = "record" /\ pc' \in {"append", "handler"}
      /\ UNCHANGED <<disk, rows, contract, row, promoted>>
  BY DEF RecordRaw
<1> QED BY <1>1 DEF RInv, AdjacentRowsReuse, FloorKept, RowReady, Bears

LEMMA ReuseRow ==
    ASSUME RInv, RecordRow
    PROVE  /\ AdjacentRowsReuse' /\ FloorKept' /\ RowReady'
           /\ (Bears(disk))' /\ (pc' # "down" => (Bears(contract))')
<1>1. /\ pc = "append" /\ pc' \in {"idle", "send", "handler"}
      /\ rows' = rows \/ rows' = Append(rows, row)
      /\ UNCHANGED <<disk, contract, promoted>>
  BY DEF RecordRow, Return
<1>2. FloorKept' /\ RowReady'
  BY <1>1 DEF FloorKept, RowReady
<1>3. CASE rows' = rows
  BY <1>1, <1>2, <1>3 DEF RInv, AdjacentRowsReuse, Bears
<1>4. CASE rows' = Append(rows, row)
  <2>1. /\ row.cache + Replay + Tolerance >= row.previous /\ row.tokens = Len(disk.tokens)
        /\ \A i \in DOMAIN rows : rows[i].turn + 1 = row.turn =>
              row.previous = rows[i].tokens \/ rows[i].turn \in promoted
    BY <1>1 DEF RInv, RowReady
  <2>2. contract = disk
    BY <1>1 DEF RInv, EInv, SInv, InStep, Open, Serving
  <2>3. /\ Len(rows) \in Nat /\ DOMAIN rows' = 1..(Len(rows) + 1) /\ DOMAIN rows = 1..Len(rows)
        /\ rows'[Len(rows) + 1] = row /\ \A i \in 1..Len(rows) : rows'[i] = rows[i]
    BY <1>4, Appended DEF RInv, EInv, SInv
  <2>4. (Bears(disk))'
    BY <1>1, <2>1, <2>3 DEF RInv, Bears
  <2>5. (Bears(contract))'
    BY <1>1, <2>2, <2>4 DEF Bears
  <2>6. ASSUME NEW i \in DOMAIN rows'
        PROVE  /\ rows'[i].cache + Replay + Tolerance >= rows'[i].previous
               /\ (i > 1 /\ rows'[i].turn = rows'[i - 1].turn + 1) =>
                     \/ rows'[i].previous = rows'[i - 1].tokens
                     \/ rows'[i - 1].turn \in promoted
    <3>1. CASE i \in DOMAIN rows
      BY <2>3, <3>1 DEF RInv, AdjacentRowsReuse
    <3>2. CASE i = Len(rows) + 1
      <4>1. i > 1 => i - 1 \in 1..Len(rows) /\ rows'[i - 1] = rows[i - 1]
        BY <2>3, <3>2
      <4>2. rows'[i] = row
        BY <2>3, <3>2
      <4> QED BY <2>1, <2>3, <4>1, <4>2
    <3> QED BY <2>3, <3>1, <3>2
  <2>7. AdjacentRowsReuse'
    BY <1>1, <2>6 DEF AdjacentRowsReuse
  <2> QED BY <1>2, <2>4, <2>5, <2>7
<1> QED BY <1>1, <1>3, <1>4

LEMMA ReuseNext == RInv /\ [Next]_vars => RInv'
<1> SUFFICES ASSUME RInv, [Next]_vars PROVE RInv'
  OBVIOUS
<1>1. EInv'
  BY EvidenceNext DEF RInv
<1>2. SUFFICES /\ AdjacentRowsReuse' /\ FloorKept' /\ RowReady'
               /\ (Bears(disk))' /\ (pc' # "down" => (Bears(contract))')
  BY <1>1 DEF RInv
<1>3. CASE UNCHANGED vars
  BY <1>3 DEF RInv, vars, AdjacentRowsReuse, FloorKept, RowReady, Bears
<1> QED BY <1>3, Kinds, ReuseMoves, ReuseSeal, ReuseCommit, ReusePromote, ReuseRaw, ReuseRow

\* Two adjacent rows prove that the later turn took the earlier prompt from
\* the cache but for the replay and the tail, across crashes and restarts.
THEOREM AdjacentRowsReuseHolds == Spec => []AdjacentRowsReuse
<1>1. RInv => AdjacentRowsReuse
  BY DEF RInv
<1> QED BY <1>1, ReuseInit, ReuseNext, PTL DEF Spec

-----------------------------------------------------------------------------
(* The conversation log *)

Recorded == [i \in DOMAIN rows |-> rows[i].turn]

\* The file is left alone, or extended as the log allows.
LEMMA LogAdvance ==
    ASSUME SInv, UNCHANGED rows,
           \/ disk' = disk
           \/ /\ ~disk.failed
              /\ disk'.turn \in {disk.turn, disk.turn + 1}
              /\ disk'.messages \in Seq(Message) /\ IsPrefix(disk.messages, disk'.messages)
              /\ disk'.failed \in BOOLEAN
    PROVE  [Log!LogNext]_(Log!logVars)
<1>1. Recorded' = Recorded
  BY DEF Recorded
<1>2. CASE disk' = disk
  BY <1>1, <1>2 DEF Log!logVars, Recorded
<1>3. CASE disk' # disk
  <2>1. Log!Advance
    BY <1>1, <1>3 DEF Log!Advance, Recorded, IsPrefix, Log!IsPrefix
  <2> QED BY <2>1 DEF Log!LogNext
<1> QED BY <1>2, <1>3

LEMMA LogRecord ==
    ASSUME EInv, RecordRow
    PROVE  [Log!LogNext]_(Log!logVars)
<1>1. pc = "append" /\ disk' = disk /\ (rows' = rows \/ rows' = Append(rows, row))
  BY DEF RecordRow
<1>2. ~disk.failed
  BY <1>1 DEF EInv, SInv, InStep, Open, Serving
<1>3. row.turn = disk.turn /\ \A i \in DOMAIN rows : rows[i].turn < disk.turn
  BY <1>1 DEF EInv, Newest
<1>4. CASE rows' = rows
  BY <1>1, <1>2, <1>4, LogAdvance DEF EInv
<1>5. CASE rows' = Append(rows, row)
  <2>1. /\ DOMAIN rows' = 1..(Len(rows) + 1) /\ DOMAIN rows = 1..Len(rows) /\ Len(rows) \in Nat
        /\ rows'[Len(rows) + 1] = row /\ \A i \in 1..Len(rows) : rows'[i] = rows[i]
    BY <1>5, Appended DEF EInv, SInv
  <2>2. Recorded = [i \in 1..Len(rows) |-> rows[i].turn]
        /\ Recorded' = [i \in 1..(Len(rows) + 1) |-> rows'[i].turn]
    BY <2>1 DEF Recorded
  <2>3. \A i \in 1..Len(rows) : rows[i].turn \in Nat
    BY <2>1, RowTypes DEF EInv, SInv
  <2>4. Recorded' = Append(Recorded, disk.turn)
    <3>1. Recorded \in Seq(Nat) /\ Len(Recorded) = Len(rows)
      BY <2>1, <2>2, <2>3
    <3>2. Append(Recorded, disk.turn) =
             [i \in 1..(Len(rows) + 1) |-> IF i = Len(rows) + 1 THEN disk.turn ELSE Recorded[i]]
      BY <2>1, <3>1
    <3>3. \A i \in 1..(Len(rows) + 1) :
             rows'[i].turn = IF i = Len(rows) + 1 THEN disk.turn ELSE Recorded[i]
      BY <1>3, <2>1, <2>2
    <3> QED BY <2>2, <3>2, <3>3
  <2>5. \A i \in DOMAIN Recorded : Recorded[i] < disk.turn
    BY <1>3, <2>1, <2>2
  <2>6. Log!Record
    BY <1>1, <1>2, <2>4, <2>5 DEF Log!Record, Recorded
  <2> QED BY <2>6 DEF Log!LogNext
<1> QED BY <1>1, <1>4, <1>5

LEMMA LogSteps == EInv /\ [Next]_vars => [Log!LogNext]_(Log!logVars)
<1> SUFFICES ASSUME EInv, [Next]_vars PROVE [Log!LogNext]_(Log!logVars)
  OBVIOUS
<1>1. SInv
  BY DEF EInv
<1>2. CASE UNCHANGED <<disk, rows>>
  BY <1>1, <1>2, LogAdvance
<1>3. CASE Sealing
  <2>1. UNCHANGED rows /\ disk' \in {disk, contract'} /\ pc # "down"
    BY <1>3 DEF Sealing
  <2>2. CASE disk.failed
    <3>1. contract' = contract /\ contract = disk
      BY <1>1, <1>3, <2>1, <2>2, SealEffects DEF SInv, SealedForGood
    <3> QED BY <1>1, <2>1, <3>1, LogAdvance
  <2>3. CASE ~disk.failed
    <3>1. contract.messages \in Seq(Message)
      BY <1>1, Chats DEF SInv
    <3>2. /\ contract'.turn \in {disk.turn, disk.turn + 1} /\ contract'.messages \in Seq(Message)
          /\ IsPrefix(disk.messages, contract'.messages) /\ contract'.failed \in BOOLEAN
      BY <1>1, <1>3, <3>1, SealEffects
    <3> QED BY <1>1, <2>1, <2>3, <3>2, LogAdvance
  <2> QED BY <2>2, <2>3
<1>4. ASSUME NEW cache \in Counts, NEW prompt \in Counts, NEW reply \in Replies,
             Commit(cache, prompt, reply)
      PROVE  [Log!LogNext]_(Log!logVars)
  <2>1. /\ pc = "infer" /\ contract = disk /\ contract'.turn = disk.turn + 1
        /\ contract'.messages = pending.messages /\ contract'.failed = FALSE
        /\ UNCHANGED rows /\ disk' \in {disk, contract'}
    BY <1>1, <1>4, CommitEffects
  <2>2. ~disk.failed /\ IsPrefix(disk.messages, pending.messages)
    BY <1>1, <2>1 DEF SInv, Open, Extends, Serving
  <2>3. pending.messages \in Seq(Message)
    BY <1>1, Chats DEF SInv
  <2> QED BY <1>1, <2>1, <2>2, <2>3, LogAdvance
<1>5. ASSUME NEW tokens \in Prompts, NEW cache \in Counts, NEW prompt \in Counts,
             Promote(tokens, cache, prompt)
      PROVE  [Log!LogNext]_(Log!logVars)
  <2>1. /\ contract = disk /\ contract'.turn = disk.turn
        /\ contract'.messages = completed /\ contract'.failed = FALSE
        /\ IsPrefix(disk.messages, completed)
        /\ UNCHANGED rows /\ disk' \in {disk, contract'}
    BY <1>1, <1>5, PromoteEffects
  <2>2. ~disk.failed
    BY <1>5, <2>1 DEF Promote, BoundaryHolds
  <2>3. completed \in Seq(Message)
    BY <1>1, Chats DEF SInv
  <2> QED BY <1>1, <2>1, <2>2, <2>3, LogAdvance
<1>6. RecordRaw => UNCHANGED <<disk, rows>>
  BY DEF RecordRaw
<1>7. UNCHANGED vars \/ Start \/ Crash \/ Moving \/ (\E tokens \in Prompts : Admitting(tokens))
         => UNCHANGED <<disk, rows>>
  BY DEF vars, Start, Crash, Moving, Admitting, durable
<1> QED BY <1>2, <1>3, <1>4, <1>5, <1>6, <1>7, Kinds, LogRecord

\* The gateway's durable files behave like a conversation log: crashes, failed
\* writes and restarts are steps of the log or change nothing in it.
THEOREM ImplementsLog == Spec => Refinement
<1>1. Init => Log!LogInit
  <2>1. SUFFICES ASSUME Init PROVE Log!LogInit
    OBVIOUS
  <2>2. Recorded = <<>>
    BY <2>1 DEF Init, Recorded
  <2> QED BY <2>1, <2>2 DEF Init, Fresh, Log!LogInit, Recorded
<1>2. EInv /\ [Next]_vars => [Log!LogNext]_(Log!logVars)
  BY LogSteps
<1> QED BY <1>1, <1>2, EvidenceInvariant, PTL DEF Spec, Refinement, Log!LogSpec
=============================================================================
