----------------------- MODULE OwnedSession_proofs -----------------------
(* Lemmas about OwnedSession: what its contents are, how much of a prompt a *)
(* slot holds, and what each of its steps makes of the slot.                *)
EXTENDS OwnedSession, FiniteSetTheorems, WellFoundedInduction, TLAPS

-----------------------------------------------------------------------------
(* The largest element of a bounded set *)

LEMMA Largest ==
    ASSUME NEW n \in Nat, NEW N \in SUBSET (0..n), N # {}
    PROVE  \E m \in N : \A x \in N : x <= m
<1> DEFINE Above == {k \in 0..n : \A x \in N : x <= k}
           Downs == {0..k : k \in Above}
<1>1. n \in Above
  OBVIOUS
<1>2. Downs \subseteq FiniteSubsetsOf(Nat) /\ Downs # {}
  <2>1. \A k \in Above : IsFiniteSet(0..k) /\ 0..k \subseteq Nat
    BY FS_Interval
  <2> QED BY <1>1, <2>1 DEF FiniteSubsetsOf
<1>3. PICK low \in Downs : \A d \in Downs : <<d, low>> \notin StrictSubsetOrdering(Nat)
  BY <1>2, FS_StrictSubsetOrderingWellFounded, WFMin
<1>4. PICK k \in Above : low = 0..k
  OBVIOUS
<1>5. ASSUME NEW j \in Above, j < k PROVE FALSE
  <2>1. 0..j \in Downs /\ 0..j \subseteq 0..k /\ 0..k \subseteq Nat
    BY <1>5
  <2>2. k \in 0..k /\ k \notin 0..j
    BY <1>5
  <2> QED BY <1>3, <1>4, <2>1, <2>2 DEF StrictSubsetOrdering
<1>6. k \in N
  <2> SUFFICES ASSUME k \notin N PROVE FALSE
    OBVIOUS
  <2>1. PICK x \in N : TRUE
    OBVIOUS
  <2>2. k # 0 /\ k - 1 \in Above
    BY <2>1
  <2> QED BY <1>5, <2>2
<1> QED BY <1>6

-----------------------------------------------------------------------------
(* Contents *)

LEMMA ContentParts ==
    ASSUME NEW content \in Content
    PROVE  /\ content.held \in Seq(Piece) /\ content.other \in BOOLEAN
           /\ Len(content.held) \in Nat /\ DOMAIN content.held = 1 .. Len(content.held)
           /\ \A i \in DOMAIN content.held : content.held[i] \in Piece
           /\ content = [held |-> content.held, other |-> content.other]
BY DEF Content

LEMMA NoPieces == Empty \in Content /\ Absent \in Content
BY DEF Empty, Absent, Content

LEMMA TextsParts ==
    ASSUME NEW content \in Content
    PROVE  /\ Texts(content) \in Seq(Nat) /\ Len(Texts(content)) = Len(content.held)
           /\ DOMAIN Texts(content) = 1 .. Len(content.held)
           /\ \A i \in 1 .. Len(content.held) : Texts(content)[i] = content.held[i].text
<1>1. \A i \in 1 .. Len(content.held) : content.held[i].text \in Nat
  BY ContentParts DEF Piece
<1> QED BY <1>1, ContentParts DEF Texts

\* Two contents with the same pieces and the same end are one.
LEMMA SameContent ==
    ASSUME NEW a \in Content, NEW b \in Content, a.other = b.other,
           Len(a.held) = Len(b.held), \A i \in 1 .. Len(a.held) : a.held[i] = b.held[i]
    PROVE  a = b
<1>1. a.held = b.held
  BY ContentParts
<1> QED BY <1>1, ContentParts

\* What is spoilt holds the same texts.
LEMMA SpoilParts ==
    ASSUME NEW content \in Content
    PROVE  /\ Spoil(content) \in Content /\ Spoil(content).other = content.other
           /\ Len(Spoil(content).held) = Len(content.held)
           /\ \A i \in 1 .. Len(content.held) : Spoil(content).held[i].text = content.held[i].text
           /\ Texts(Spoil(content)) = Texts(content)
<1> DEFINE piece(i) == [content.held[i] EXCEPT !.by = Unknown]
           held == [i \in DOMAIN content.held |-> piece(i)]
<1>1. Spoil(content) = [held |-> held, other |-> content.other]
  <2>1. content \in [held : Seq(Piece), other : BOOLEAN]
    BY DEF Content
  <2>2. Spoil(content) = [content EXCEPT !.held = held]
    BY DEF Spoil
  <2> HIDE DEF held
  <2> QED BY <2>1, <2>2
<1>2. \A i \in 1 .. Len(content.held) :
         piece(i) \in Piece /\ piece(i).text = content.held[i].text
  BY ContentParts DEF Piece
<1> HIDE DEF piece
<1>3. held \in Seq(Piece) /\ Len(held) = Len(content.held)
      /\ \A i \in 1 .. Len(content.held) : held[i].text = content.held[i].text
  <2>1. Len(content.held) \in Nat /\ held = [i \in 1 .. Len(content.held) |-> piece(i)]
    BY ContentParts
  <2>2. \A n \in Nat : (\A i \in 1 .. n : piece(i) \in Piece)
                        => /\ [i \in 1 .. n |-> piece(i)] \in Seq(Piece)
                           /\ Len([i \in 1 .. n |-> piece(i)]) = n
    OBVIOUS
  <2> QED BY <1>2, <2>1, <2>2
<1> HIDE DEF held
<1>4. Spoil(content) \in Content /\ Spoil(content).held = held /\ Spoil(content).other = content.other
  BY <1>1, <1>3, ContentParts DEF Content
<1>5. Texts(Spoil(content)) = Texts(content)
  BY <1>3, <1>4, ContentParts, TextsParts DEF Texts
<1> QED BY <1>3, <1>4, <1>5

\* A slot shares a longest beginning with a prompt.
LEMMA PrefixParts ==
    ASSUME NEW content \in Content, NEW prompt \in Seq(Nat)
    PROVE  /\ CommonPrefix(content, prompt) \in 0 .. Len(prompt)
           /\ CommonPrefix(content, prompt) <= Len(content.held)
           /\ \A i \in 1 .. CommonPrefix(content, prompt) : content.held[i].text = prompt[i]
<1> DEFINE S == {k \in 0 .. Len(prompt) :
                   k <= Len(content.held) /\ \A i \in 1 .. k : content.held[i].text = prompt[i]}
<1>1. Len(prompt) \in Nat /\ Len(content.held) \in Nat
  BY ContentParts
<1>2. 0 \in S /\ S \in SUBSET (0 .. Len(prompt))
  BY <1>1
<1>3. PICK m \in S : \A x \in S : x <= m
  BY <1>1, <1>2, Largest
<1>4. m < Len(prompt) /\ m < Len(content.held) => content.held[m + 1].text # prompt[m + 1]
  <2> SUFFICES ASSUME m < Len(prompt), m < Len(content.held), content.held[m + 1].text = prompt[m + 1]
               PROVE  FALSE
    OBVIOUS
  <2>1. m + 1 \in S
    BY <1>1
  <2> QED BY <1>1, <1>3, <2>1
<1> QED BY <1>3, <1>4 DEF CommonPrefix

\* What an answered prompt leaves in the slot.
LEMMA EvaluatedParts ==
    ASSUME NEW content \in Content, NEW prompt \in Seq(Nat), NEW c \in Nat,
           c <= CommonPrefix(content, prompt), NEW by \in Servers \cup {Foreign, Unknown}
    PROVE  /\ Evaluated(content, prompt, c, by) \in Content
           /\ ~Evaluated(content, prompt, c, by).other
           /\ Len(Evaluated(content, prompt, c, by).held) = Len(prompt)
           /\ c <= Len(content.held) /\ c <= Len(prompt)
           /\ \A i \in 1 .. Len(prompt) :
                 /\ Evaluated(content, prompt, c, by).held[i].text = prompt[i]
                 /\ Evaluated(content, prompt, c, by).held[i]
                       = IF i <= c THEN content.held[i] ELSE [text |-> prompt[i], by |-> by]
<1> DEFINE held == [i \in DOMAIN prompt |-> IF i <= c THEN content.held[i]
                                            ELSE [text |-> prompt[i], by |-> by]]
<1>1. Len(prompt) \in Nat /\ DOMAIN prompt = 1 .. Len(prompt) /\ \A i \in 1 .. Len(prompt) : prompt[i] \in Nat
  OBVIOUS
<1>2. c <= Len(content.held) /\ c <= Len(prompt) /\ \A i \in 1 .. c : content.held[i].text = prompt[i]
  BY PrefixParts, ContentParts, <1>1
<1>3. \A i \in 1 .. Len(prompt) : held[i] \in Piece /\ held[i].text = prompt[i]
  BY <1>1, <1>2, ContentParts DEF Piece
<1>4. held \in Seq(Piece) /\ Len(held) = Len(prompt)
  BY <1>1, <1>3
<1>5. Evaluated(content, prompt, c, by) = [held |-> held, other |-> FALSE]
  BY DEF Evaluated
<1> HIDE DEF held
<1>6. Evaluated(content, prompt, c, by) \in Content /\ Evaluated(content, prompt, c, by).held = held
      /\ ~Evaluated(content, prompt, c, by).other
  BY <1>4, <1>5 DEF Content
<1> QED BY <1>1, <1>2, <1>3, <1>4, <1>6 DEF held

\* The beginning of a slot that another client's tokens follow.
LEMMA CutParts ==
    ASSUME NEW content \in Content, NEW k \in 0 .. Len(content.held)
    PROVE  /\ [held |-> SubSeq(content.held, 1, k), other |-> TRUE] \in Content
           /\ Len(SubSeq(content.held, 1, k)) = k
           /\ \A i \in 1 .. k : SubSeq(content.held, 1, k)[i] = content.held[i]
<1>1. \A i \in 1 .. k : content.held[i] \in Piece
  BY ContentParts
<1>2. SubSeq(content.held, 1, k) \in Seq(Piece) /\ Len(SubSeq(content.held, 1, k)) = k
      /\ \A i \in 1 .. k : SubSeq(content.held, 1, k)[i] = content.held[i]
  BY <1>1, ContentParts
<1> QED BY <1>2 DEF Content

-----------------------------------------------------------------------------
(* The steps *)

LEMMA Numbered ==
    /\ MaxServer \in Nat \ {0} /\ NoOne \notin Servers /\ Foreign \notin Servers
    /\ Servers \cup {NoOne, Foreign} \subseteq Nat
BY SessionAssumption DEF Servers, NoOne, Foreign

\* The slot stays as it is, behind the same port, or it is a new one.
SlotStays == (slot' = slot /\ port' = port) \/ slot' = Empty
\* Another client has left a beginning of it.
SlotCut ==
    /\ port' = port
    /\ \E k \in 0 .. Len(slot.held) : slot' = [held |-> SubSeq(slot.held, 1, k), other |-> TRUE]

LEMMA EnvironmentStep ==
    ASSUME OwnTypeOK, Environment
    PROVE  OwnTypeOK' /\ (SlotStays \/ SlotCut) /\ session' = session
<1>1. CASE OtherRequest
  <2>1. SlotCut /\ UNCHANGED <<session, process, port, watched, violated, late>>
    BY <1>1 DEF OtherRequest, SlotCut
  <2>2. slot' \in Content
    BY <1>1, CutParts DEF OtherRequest, OwnTypeOK
  <2> QED BY <2>1, <2>2 DEF OwnTypeOK
<1>2. CASE ForeignServer
  BY <1>2, NoPieces DEF OwnTypeOK, ForeignServer, SlotStays
<1>3. ASSUME NEW s \in Servers, ServerBinds(s) \/ ServerEnds(s) \/ Violation(s)
      PROVE  OwnTypeOK' /\ SlotStays /\ session' = session
  BY <1>3, NoPieces DEF OwnTypeOK, ServerBinds, ServerEnds, Violation, SlotStays
<1> QED BY <1>1, <1>2, <1>3 DEF Environment

LEMMA LaunchStep ==
    ASSUME OwnTypeOK, NEW s \in Servers, LaunchServer(s) \/ LaunchLeaks(s)
    PROVE  OwnTypeOK' /\ UNCHANGED <<slot, port>> /\ session' \in {session, s}
BY DEF OwnTypeOK, LaunchServer, LaunchLeaks

LEMMA CloseStep ==
    ASSUME OwnTypeOK, Close \/ CloseRaises
    PROVE  OwnTypeOK' /\ SlotStays /\ session' \in {session, NoOne}
<1>1. session \in Servers
  BY DEF Close, CloseRaises, OwnTypeOK
<1>2. OwnTypeOK'
  BY <1>1, NoPieces DEF OwnTypeOK, Close, CloseRaises, StopOwned, StopTimesOut
<1>3. SlotStays
  BY DEF SlotStays, Close, CloseRaises, StopOwned, StopTimesOut
<1> QED BY <1>2, <1>3 DEF Close, CloseRaises

\* An answered prompt is what the slot holds then; what was reused stays.
LEMMA PrefixStep ==
    ASSUME OwnTypeOK, NEW prompt \in Seq(Nat), NEW c \in Nat, CompletePrefix(prompt, c)
    PROVE  /\ OwnTypeOK' /\ UNCHANGED <<session, process, port, watched, violated, late>>
           /\ ~slot'.other /\ Len(slot'.held) = Len(prompt)
           /\ c <= Len(slot.held) /\ c < Len(prompt)
           /\ \A i \in 1 .. Len(prompt) :
                 /\ slot'.held[i].text = prompt[i]
                 /\ slot'.held[i] = IF i <= c THEN slot.held[i] ELSE [text |-> prompt[i], by |-> port]
<1>1. slot \in Content /\ port \in Servers \cup {Foreign, Unknown} /\ c <= CommonPrefix(slot, prompt)
  BY DEF OwnTypeOK, CompletePrefix, PortFree
<1>2. slot' = Evaluated(slot, prompt, c, port)
  BY DEF CompletePrefix
<1> QED BY <1>1, <1>2, EvaluatedParts DEF OwnTypeOK, CompletePrefix

LEMMA QueryStep ==
    ASSUME OwnTypeOK, NEW prompt \in Seq(Nat), NEW c \in Nat, CompleteQuery(prompt, c)
    PROVE  /\ OwnTypeOK' /\ UNCHANGED <<session, process, port, watched, violated, late>>
           /\ c <= Len(slot.held)
<1>1. slot \in Content /\ port \in Servers \cup {Foreign, Unknown} /\ c <= CommonPrefix(slot, prompt)
  BY DEF OwnTypeOK, CompleteQuery, PortFree
<1>2. /\ Evaluated(slot, prompt, c, port) \in Content
      /\ c <= Len(slot.held)
  BY <1>1, EvaluatedParts
<1>3. slot' = [Evaluated(slot, prompt, c, port) EXCEPT !.other = TRUE]
  BY DEF CompleteQuery
<1>4. slot' \in Content
  BY <1>2, <1>3 DEF Content
<1> QED BY <1>2, <1>4 DEF OwnTypeOK, CompleteQuery

LEMMA RestoreStep ==
    ASSUME OwnTypeOK, NEW file \in Content, RestoreFrom(file)
    PROVE  /\ OwnTypeOK' /\ slot' = file /\ session # NoOne /\ port = session
           /\ UNCHANGED <<session, process, port, watched, violated, late>>
BY DEF OwnTypeOK, RestoreFrom
=============================================================================
