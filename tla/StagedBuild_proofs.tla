------------------------ MODULE StagedBuild_proofs ------------------------
(* Theorems about StagedBuild, for any boundaries of the stages. *)
EXTENDS StagedBuild, SequenceTheorems, TLAPS

LEMMA Numbers ==
    /\ Last \in Nat /\ Last >= 1 /\ Total \in Nat /\ Total >= 1
    /\ Restart = Last + 1 /\ Restart \in Servers /\ Restart \notin 1 .. Last
    /\ 0 \in Servers /\ 0 \notin 1 .. Last /\ 1 \in 1 .. Last /\ Last \in 1 .. Last
    /\ 1 .. Last \subseteq Servers /\ Restart # 0 /\ Servers \subseteq Nat
    /\ \A i \in 1 .. Last : i + 1 \in Servers /\ i - 1 \in Servers /\ i \in Nat
    /\ \A i \in 1 .. Last : i # Last => i + 1 \in 1 .. Last
    /\ \A i \in Servers : i # 0 /\ i # Restart => i \in 1 .. Last
    /\ \A i \in Servers : i \in Int /\ (i # 0 /\ i # 1 => i - 1 \in 1 .. Last /\ i - 1 < i)
BY BoundsAssumption DEF Last, Restart, Servers, Total
LEMMA Ends ==
    /\ \A i \in 1 .. Last : /\ Bounds[i] \in Nat /\ Bounds[i] >= 1 /\ Bounds[i] <= Total
                            /\ Start(i) \in Nat /\ Start(i) < Bounds[i]
    /\ \A i \in 1 .. Last : i # 1 => Start(i) = Bounds[i - 1]
    /\ Start(Restart) = Total /\ Start(1) = 0
<1>1. \A i \in 1 .. Last : Bounds[i] \in Nat /\ Bounds[i] >= 1
  <2>1. \A i \in 1 .. Last : Bounds[i] \in Nat \ {0}
    BY BoundsAssumption, ElementOfSeq DEF Last
  <2>2. \A k \in Nat \ {0} : k \in Nat /\ k >= 1
    OBVIOUS
  <2> QED BY <2>1, <2>2
<1>2. \A i, j \in 1 .. Last : i < j => Bounds[i] < Bounds[j]
  BY BoundsAssumption DEF Last
<1>3. ASSUME NEW i \in 1 .. Last PROVE Bounds[i] <= Total
  <2>1. Last \in 1 .. Last /\ (i = Last \/ i < Last)
    BY Numbers
  <2>2. Bounds[i] \in Nat /\ Bounds[Last] \in Nat
    BY <1>1, <2>1
  <2>3. i < Last => Bounds[i] < Bounds[Last]
    BY <1>2, <2>1
  <2> QED BY <2>1, <2>2, <2>3 DEF Total
<1>4. \A i \in 1 .. Last : i # 1 => i - 1 \in 1 .. Last /\ i - 1 < i
  BY Numbers
<1>5. ASSUME NEW i \in 1 .. Last PROVE Start(i) \in Nat /\ Start(i) < Bounds[i]
  <2>1. CASE i = 1
    <3>1. Start(i) = 0
      BY <2>1 DEF Start
    <3> QED BY <1>1, <3>1
  <2>2. CASE i # 1
    <3>1. Start(i) = Bounds[i - 1]
      BY <2>2 DEF Start
    <3>2. i - 1 \in 1 .. Last /\ i - 1 < i
      BY <1>4, <2>2
    <3>3. Bounds[i - 1] \in Nat /\ Bounds[i - 1] < Bounds[i]
      BY <1>1, <1>2, <3>2
    <3> QED BY <3>1, <3>3
  <2> QED BY <2>1, <2>2
<1>6. Start(Restart) = Total
  BY Numbers DEF Start, Total
<1> QED BY <1>1, <1>3, <1>4, <1>5, <1>6 DEF Start

LEMMA Names ==
    /\ Foreign \notin Servers /\ NoOne \notin Servers /\ Foreign # NoOne
    /\ Unknown \notin Servers /\ Unknown \in 0 .. Unknown
    /\ Servers \subseteq 0 .. Unknown
BY Numbers DEF Foreign, NoOne, Unknown, Servers, Restart

---------------------------------------------------------------------------
(* Contents *)

LEMMA Built ==
    ASSUME NEW S, NEW k \in Nat, NEW f \in [1 .. k -> S]
    PROVE  f \in Seq(S) /\ Len(f) = k
OBVIOUS

LEMMA Cut ==
    ASSUME NEW S, NEW s \in Seq(S), NEW k \in 0 .. Len(s)
    PROVE  /\ SubSeq(s, 1, k) \in Seq(S) /\ Len(SubSeq(s, 1, k)) = k
           /\ \A p \in 1 .. k : SubSeq(s, 1, k)[p] = s[p]
<1>1. k \in Int /\ 1 \in Int /\ k - 1 + 1 = k
  OBVIOUS
<1>2. \A p \in 1 .. k : s[p] \in S
  BY ElementOfSeq
<1>3. \A p \in 1 .. k : 1 + p - 1 = p
  OBVIOUS
<1>4. 1 <= k \/ k = 0
  OBVIOUS
<1>5. /\ SubSeq(s, 1, k) \in Seq(S) /\ Len(SubSeq(s, 1, k)) = k
      /\ \A p \in 1 .. k - 1 + 1 : SubSeq(s, 1, k)[p] = s[1 + p - 1]
  BY <1>1, <1>2, <1>4, SubSeqProperties
<1> QED BY <1>1, <1>3, <1>5

LEMMA Made ==
    ASSUME NEW content \in Contents
    PROVE  /\ content.made \in Seq(0 .. Unknown) /\ Len(content.made) \in Nat
           /\ content.other \in BOOLEAN
           /\ \A p \in 1 .. Len(content.made) : content.made[p] \in 0 .. Unknown
<1>1. content.made \in Seq(0 .. Unknown) /\ content.other \in BOOLEAN
  BY DEF Contents
<1> QED BY <1>1, ElementOfSeq, LenProperties

LEMMA Fixed ==
    /\ Empty \in Contents /\ Empty.made = <<>> /\ ~Empty.other
    /\ Absent \in Contents /\ Absent.made = <<>> /\ Len(Absent.made) = 0
    /\ Len(Empty.made) = 0
BY DEF Empty, Absent, Contents

\* What a server holds after a prompt of which it had c chunks.
LEMMA AfterPrompt ==
    ASSUME NEW content \in Contents, NEW e \in Nat, NEW c \in Reusable(content, e),
           NEW s \in Servers
    PROVE  /\ Evaluated(content, e, c, s) \in Contents
           /\ Len(Evaluated(content, e, c, s).made) = e
           /\ ~Evaluated(content, e, c, s).other
           /\ c <= Len(content.made) /\ c \in Nat
           /\ \A p \in 1 .. e : Evaluated(content, e, c, s).made[p] =
                                   IF p <= c THEN content.made[p] ELSE s
<1> DEFINE f == [p \in 1 .. e |-> IF p <= c THEN content.made[p] ELSE s]
<1>1. Evaluated(content, e, c, s) = [made |-> f, other |-> FALSE]
  BY DEF Evaluated
<1>2. c \in Nat /\ c <= Len(content.made)
  BY Made DEF Reusable
<1>3. \A p \in 1 .. e : (IF p <= c THEN content.made[p] ELSE s) \in 0 .. Unknown
  <2> SUFFICES ASSUME NEW p \in 1 .. e, p <= c PROVE content.made[p] \in 0 .. Unknown
    BY Names
  <2>1. p \in 1 .. Len(content.made)
    BY <1>2, Made
  <2> QED BY <2>1, Made
<1>4. f \in [1 .. e -> 0 .. Unknown]
  BY <1>3
<1>5. f \in Seq(0 .. Unknown) /\ Len(f) = e
  BY <1>4, Built
<1> HIDE DEF f
<1>6. [made |-> f, other |-> FALSE] \in Contents
  BY <1>5 DEF Contents
<1> QED BY <1>1, <1>2, <1>5, <1>6 DEF f

LEMMA AfterOther ==
    ASSUME NEW content \in Contents, NEW k \in 0 .. Len(content.made)
    PROVE  /\ [made |-> SubSeq(content.made, 1, k), other |-> TRUE] \in Contents
           /\ Len(SubSeq(content.made, 1, k)) = k
           /\ \A p \in 1 .. k : SubSeq(content.made, 1, k)[p] = content.made[p]
<1>1. content.made \in Seq(0 .. Unknown)
  BY Made
<1>2. /\ SubSeq(content.made, 1, k) \in Seq(0 .. Unknown)
      /\ Len(SubSeq(content.made, 1, k)) = k
      /\ \A p \in 1 .. k : SubSeq(content.made, 1, k)[p] = content.made[p]
  BY <1>1, Cut
<1> QED BY <1>2 DEF Contents

LEMMA AfterDamage ==
    ASSUME NEW content \in Contents
    PROVE  /\ Spoil(content) \in Contents
           /\ Len(Spoil(content).made) = Len(content.made)
           /\ \A p \in 1 .. Len(content.made) : Spoil(content).made[p] = Unknown
<1> DEFINE f == [p \in 1 .. Len(content.made) |-> Unknown]
<1>1. f \in [1 .. Len(content.made) -> 0 .. Unknown] /\ Len(content.made) \in Nat
  BY Names, Made
<1>2. f \in Seq(0 .. Unknown) /\ Len(f) = Len(content.made)
  BY <1>1, Built
<1>3. Spoil(content) = [content EXCEPT !.made = f]
  BY DEF Spoil
<1>4. \A p \in 1 .. Len(content.made) : f[p] = Unknown
  OBVIOUS
<1> HIDE DEF f
<1>5. [content EXCEPT !.made = f] \in Contents /\ [content EXCEPT !.made = f].made = f
  BY <1>2 DEF Contents
<1> QED BY <1>2, <1>3, <1>4, <1>5

---------------------------------------------------------------------------
(* Type correctness *)

\* Which servers each position is about.
Position ==
    /\ pc \in {"chunk", "save", "gate", "record"} => n \in 1 .. Last
    /\ pc = "restore" => n # 0 /\ n # 1
    /\ pc \in {"proof", "rehash", "restored", "finish", "result"} => n = Restart
    /\ pc \in {"allocate", "probe", "probed", "select"} => n = 0
    /\ pc = "seal" => n = Last

TInv == TypeOK /\ Position

LEMMA PointFacts ==
    /\ ServerBody = {"start", "monitor", "ready", "probe", "restore", "chunk",
                     "save", "gate", "proof", "rehash", "restored"}
    /\ BuildBody = {"probed", "select", "record", "seal", "finish", "result"}
    /\ ServerBody \subseteq Points /\ BuildBody \subseteq Points
    /\ {"allocate", "close", "teardown", "handler", "report", "end", "dead"}
          \subseteq Points
BY DEF ServerBody, BuildBody, Points

LEMMA RecordFacts ==
    /\ NoRecord \in Record /\ <<>> \in Seq(Record) /\ 0 \in 0 .. Total
    /\ \A r \in Record : r.pass \in BOOLEAN
    /\ \A r \in Record, k \in Nat : /\ [r EXCEPT !.restored = k] \in Record
                                  /\ [r EXCEPT !.first = k] \in Record
                                  /\ [r EXCEPT !.upto = k] \in Record
    /\ \A r \in Record, b \in BOOLEAN : /\ [r EXCEPT !.pass = b] \in Record
                                      /\ [r EXCEPT !.pass = b].pass = b
<1>1. NoRecord \in Record /\ 0 \in 0 .. Total
  BY Numbers DEF NoRecord, Record
<1>2. <<>> \in Seq(Record)
  BY EmptySeq
<1>3. \A r \in Record, k \in Nat : /\ [r EXCEPT !.restored = k] \in Record
                               /\ [r EXCEPT !.first = k] \in Record
                               /\ [r EXCEPT !.upto = k] \in Record
  BY DEF Record
<1>4. \A r \in Record, b \in BOOLEAN : /\ [r EXCEPT !.pass = b] \in Record
                                   /\ [r EXCEPT !.pass = b].pass = b
  BY DEF Record
<1>5. \A r \in Record : r.pass \in BOOLEAN
  BY DEF Record
<1> QED BY <1>1, <1>2, <1>3, <1>4, <1>5

LEMMA Appended ==
    ASSUME NEW r \in Record, NEW rs \in Seq(Record) PROVE Append(rs, r) \in Seq(Record)
OBVIOUS

LEMMA TypeInit == Init => TInv
<1> SUFFICES ASSUME Init PROVE TInv
  OBVIOUS
<1>1. MainType
  BY Numbers, PointFacts, RecordFacts DEF Init, MainType
<1>2. OsType /\ WatchType
  BY Fixed DEF Init, OsType, WatchType
<1>3. DiskType
  BY Fixed DEF Init, DiskType
<1>4. ProofType
  BY Fixed DEF Init, ProofType, Phases
<1>5. Position
  BY DEF Init, Position
<1> QED BY <1>1, <1>2, <1>3, <1>4, <1>5 DEF TInv, TypeOK

LEMMA SameOs == OsType /\ UNCHANGED os => OsType'
BY DEF OsType, os
LEMMA SameWatch == WatchType /\ UNCHANGED watch => WatchType'
BY DEF WatchType, watch
LEMMA SameDisk == DiskType /\ UNCHANGED disk => DiskType'
BY DEF DiskType, disk
LEMMA SameProof == ProofType /\ UNCHANGED <<proof, revived>> => ProofType'
BY DEF ProofType, proof
LEMMA SameMain == MainType /\ Position /\ UNCHANGED main => MainType' /\ Position'
BY DEF MainType, Position, main

LEMMA GotoType ==
    ASSUME TInv, NEW to \in Points, Goto(to),
           to \in {"chunk", "save", "gate", "record"} => n \in 1 .. Last,
           to = "restore" => n # 0 /\ n # 1,
           to \in {"proof", "rehash", "restored", "finish", "result"} => n = Restart,
           to \in {"allocate", "probe", "probed", "select"} => n = 0,
           to = "seal" => n = Last
    PROVE  MainType' /\ Position'
BY DEF TInv, TypeOK, MainType, Position, Goto

\* Positions that say nothing of n.
LEMMA AwayType ==
    ASSUME TInv, pc' \in {"start", "monitor", "ready", "close", "teardown", "handler",
                          "report", "end", "dead"},
           n' \in Servers, at' \in 0 .. Total, failing' \in BOOLEAN, UNCHANGED freed,
           where' \in {"here", "elsewhere"}, records' \in Seq(Record), partial' \in Record
    PROVE  MainType' /\ Position'
BY PointFacts DEF TInv, TypeOK, MainType, Position

LEMMA CkptType ==
    ASSUME TInv, NEW phase \in Phases, NEW rs \in Seq(Record), WriteCheckpoint(phase, rs),
           UNCHANGED <<result, failure, revived>>
    PROVE  ProofType'
BY DEF TInv, TypeOK, ProofType, WriteCheckpoint

LEMMA BuildType == TInv /\ Build => TInv'
<1> SUFFICES ASSUME TInv, Build PROVE TInv'
  OBVIOUS
<1> USE DEF TInv, TypeOK
<1>m. /\ pc \in Points /\ n \in Servers /\ at \in 0 .. Total /\ failing \in BOOLEAN
      /\ where \in {"here", "elsewhere"} /\ records \in Seq(Record)
      /\ partial \in Record /\ ckpt.phase \in Phases /\ ckpt.records \in Seq(Record)
      /\ 0 \in 0 .. Total
  BY Numbers DEF MainType, ProofType
<1>p. {"allocated", "boundaries_selected", "sealed", "complete", "failed",
       "restart_restored"} \subseteq Phases
  BY DEF Phases
<1>1. CASE Allocate
  <2>1. MainType' /\ Position'
    BY <1>1, <1>m, AwayType DEF Allocate
  <2>2. ProofType'
    BY <1>1, <1>p, RecordFacts, CkptType DEF Allocate
  <2> QED BY <1>1, <2>1, <2>2, SameOs, SameWatch, SameDisk DEF Allocate
<1>2. CASE AllocateFails
  <2>1. MainType' /\ Position'
    BY <1>2, GotoType, PointFacts DEF AllocateFails
  <2> QED BY <1>2, <2>1, SameOs, SameWatch, SameDisk, SameProof DEF AllocateFails
<1>3. CASE Probed
  <2>1. MainType' /\ Position'
    BY <1>3, PointFacts DEF Probed, MainType, Position
  <2>2. ProofType'
    BY <1>3, <1>m, CkptType DEF Probed
  <2> QED BY <1>3, <2>1, <2>2, SameOs, SameWatch, SameDisk DEF Probed
<1>4. CASE Select
  <2>1. MainType' /\ Position'
    BY <1>4, <1>m, AwayType, Numbers DEF Select
  <2>2. ProofType'
    BY <1>4, <1>m, <1>p, CkptType DEF Select
  <2> QED BY <1>4, <2>1, <2>2, SameOs, SameWatch, SameDisk DEF Select
<1>5. CASE RecordStage
  <2>1. records' \in Seq(Record)
    BY <1>5, <1>m, Appended DEF RecordStage
  <2>2. n \in 1 .. Last
    BY <1>5 DEF RecordStage, Position
  <2>3. MainType' /\ Position'
    <3>1. CASE pc' = "seal"
      BY <1>5, <1>m, <2>1, <3>1, PointFacts DEF RecordStage, MainType, Position
    <3>2. CASE pc' # "seal"
      BY <1>5, <1>m, <2>1, <2>2, <3>2, Numbers, RecordFacts, AwayType DEF RecordStage
    <3> QED BY <3>1, <3>2
  <2>4. ProofType'
    BY <1>5, <1>m, <2>1, CkptType DEF RecordStage
  <2> QED BY <1>5, <2>3, <2>4, SameOs, SameWatch, SameDisk DEF RecordStage
<1>6. CASE Seal
  <2>1. MainType' /\ Position'
    BY <1>6, <1>m, AwayType, Numbers DEF Seal
  <2>2. ProofType'
    BY <1>6, <1>m, <1>p, CkptType DEF Seal
  <2> QED BY <1>6, <2>1, <2>2, SameOs, SameWatch, SameDisk DEF Seal
<1>7. CASE Finish
  <2>1. MainType' /\ Position'
    BY <1>7, GotoType, PointFacts DEF Finish, Position
  <2>2. ProofType'
    BY <1>7, <1>m, <1>p, CkptType DEF Finish
  <2> QED BY <1>7, <2>1, <2>2, SameOs, SameWatch, SameDisk DEF Finish
<1>8. CASE WriteResult
  <2>1. MainType' /\ Position'
    BY <1>8, GotoType, PointFacts DEF WriteResult
  <2>2. ProofType'
    BY <1>8 DEF WriteResult, ProofType
  <2> QED BY <1>8, <2>1, <2>2, SameOs, SameWatch, SameDisk DEF WriteResult
<1>9. CASE BuildRaise
  <2>1. records' \in Seq(Record)
    BY <1>9, <1>m, Appended DEF BuildRaise
  <2>2. MainType' /\ Position'
    BY <1>9, <1>m, <2>1, AwayType DEF BuildRaise
  <2> QED BY <1>9, <2>2, SameOs, SameWatch, SameDisk, SameProof DEF BuildRaise
<1>10. CASE Handle
  <2>1. MainType' /\ Position'
    BY <1>10, <1>m, AwayType DEF Handle
  <2>2. ProofType'
    BY <1>10, <1>m, <1>p, CkptType DEF Handle, ProofType
  <2> QED BY <1>10, <2>1, <2>2, SameOs, SameWatch, SameDisk DEF Handle
<1>11. CASE Report
  <2>1. MainType' /\ Position'
    BY <1>11, GotoType, PointFacts DEF Report
  <2>2. ProofType'
    BY <1>11, <1>m, <1>p DEF Report, ProofType, WriteCheckpoint
  <2> QED BY <1>11, <2>1, <2>2, SameOs, SameWatch, SameDisk DEF Report
<1> QED BY <1>1, <1>2, <1>3, <1>4, <1>5, <1>6, <1>7, <1>8, <1>9, <1>10, <1>11 DEF Build

\* The steps of a server that only move on.
LEMMA ServerGoto ==
    ASSUME TInv, StartMonitor \/ Ready \/ Probe \/ AllSubmitted \/ Rehash
    PROVE  TInv'
<1>1. MainType' /\ Position'
  <2>1. CASE StartMonitor
    BY <2>1, GotoType, PointFacts DEF StartMonitor
  <2>2. CASE Ready
    <3>1. n = 0 \/ n = 1 \/ (n # 0 /\ n # 1)
      OBVIOUS
    <3> QED BY <2>2, <3>1, GotoType, PointFacts, Numbers DEF Ready
  <2>3. CASE Probe
    BY <2>3, GotoType, PointFacts DEF Probe
  <2>4. CASE AllSubmitted
    BY <2>4, GotoType, PointFacts DEF AllSubmitted, TInv, Position
  <2>5. CASE Rehash
    BY <2>5, GotoType, PointFacts DEF Rehash, TInv, Position
  <2> QED BY <2>1, <2>2, <2>3, <2>4, <2>5
<1>2. WatchType'
  BY DEF StartMonitor, Ready, Probe, AllSubmitted, Rehash, TInv, TypeOK, WatchType, watch
<1>3. OsType' /\ DiskType' /\ ProofType'
  BY SameOs, SameDisk, SameProof
     DEF StartMonitor, Ready, Probe, AllSubmitted, Rehash, TInv, TypeOK
<1> QED BY <1>1, <1>2, <1>3 DEF TInv, TypeOK

LEMMA ServerType == TInv /\ Server => TInv'
<1> SUFFICES ASSUME TInv, Server PROVE TInv'
  OBVIOUS
<1> USE DEF TInv, TypeOK
<1>m. /\ pc \in Points /\ n \in Servers /\ at \in 0 .. Total /\ failing \in BOOLEAN
      /\ where \in {"here", "elsewhere"} /\ records \in Seq(Record)
      /\ partial \in Record
  BY DEF MainType
<1>o. /\ process \in [Servers -> {"none", "up", "dying", "gone"}]
      /\ port \in Servers \cup {Foreign, NoOne} /\ slot \in Contents
  BY DEF OsType
<1>d. /\ files \in [1 .. Last -> Contents] /\ sealed \in [1 .. Last -> Contents]
      /\ spoilt \subseteq 1 .. Last
  BY DEF DiskType
<1>1. CASE StartServer
  <2>1. at' \in 0 .. Total /\ partial' \in Record
    <3>1. CASE n \in 1 .. Last
      <4>1. Start(n) \in 0 .. Total /\ Bounds[n] \in Nat
        BY <3>1, Ends, Numbers
      <4>2. [NoRecord EXCEPT !.upto = Bounds[n]] \in Record
        BY <4>1, RecordFacts
      <4> QED BY <1>1, <3>1, <4>1, <4>2 DEF StartServer
    <3>2. CASE n \notin 1 .. Last
      BY <1>1, <1>m, <3>2, RecordFacts DEF StartServer
    <3> QED BY <3>1, <3>2
  <2>2. MainType' /\ Position'
    BY <1>1, <1>m, <2>1, AwayType DEF StartServer
  <2>3. OsType'
    BY <1>1, <1>m, <1>o DEF StartServer, OsType
  <2> QED BY <1>1, <2>2, <2>3, SameWatch, SameDisk, SameProof DEF StartServer
<1>2. CASE StartMonitor \/ Ready \/ Probe \/ AllSubmitted \/ Rehash
  BY <1>2, ServerGoto
<1>3. CASE RestoreSlot
  <2>1. n # 0 /\ n # 1
    BY <1>3 DEF RestoreSlot, Position
  <2>2. n - 1 \in 1 .. Last
    BY <2>1, <1>m, Numbers
  <2>3. slot' \in Contents
    BY <1>3, <1>d, <2>2 DEF RestoreSlot
  <2>4. Len(slot'.made) \in Nat
    BY <2>3, Made
  <2>5. partial' \in Record
    BY <1>3, <1>m, <2>4, RecordFacts DEF RestoreSlot
  <2>6. n # Restart => n \in 1 .. Last
    BY <2>1, <1>m, Numbers
  <2>7. MainType' /\ Position'
    BY <1>3, <2>5, <2>6, PointFacts DEF RestoreSlot, MainType, Position
  <2>8. OsType'
    BY <1>3, <1>o, <2>3 DEF RestoreSlot, OsType
  <2>9. ProofType'
    BY <1>3, <2>3 DEF RestoreSlot, ProofType, proof
  <2> QED BY <1>3, <2>7, <2>8, <2>9, SameWatch, SameDisk DEF RestoreSlot
<1>4. CASE SubmitChunk
  <2>1. n \in 1 .. Last
    BY <1>4 DEF SubmitChunk, Position
  <2>2. at \in Nat /\ at + 1 \in 0 .. Total /\ at + 1 \in Nat
    BY SMTT(30), <1>4, <1>m, <2>1, Ends, Numbers DEF SubmitChunk
  <2>3. PICK c \in Reusable(slot, at + 1) :
            /\ slot' = Evaluated(slot, at + 1, c, n)
            /\ IF c = at
               THEN /\ at' = at + 1 /\ pc' = pc /\ UNCHANGED failing
                    /\ partial' = IF at = Start(n)
                                  THEN [partial EXCEPT !.first = at] ELSE partial
               ELSE pc' = "close" /\ failing' = TRUE /\ UNCHANGED <<at, partial>>
    BY <1>4 DEF SubmitChunk
  <2>4. slot' \in Contents
    BY <2>2, <2>3, <1>m, <1>o, AfterPrompt
  <2>5. partial' \in Record /\ at' \in 0 .. Total
    <3>1. /\ partial' = partial \/ partial' = [partial EXCEPT !.first = at]
          /\ at' = at \/ at' = at + 1
      BY <2>3
    <3>2. [partial EXCEPT !.first = at] \in Record
      BY <2>2, <1>m, RecordFacts
    <3> QED BY <3>1, <3>2, <2>2, <1>m
  <2>6. MainType' /\ Position'
    BY <1>4, <2>1, <2>3, <2>5, PointFacts DEF SubmitChunk, MainType, Position
  <2>7. OsType'
    BY <1>4, <1>o, <2>4 DEF SubmitChunk, OsType
  <2> QED BY <1>4, <2>6, <2>7, SameWatch, SameDisk, SameProof DEF SubmitChunk
<1>5. CASE SubmitElsewhere
  <2>1. n \in 1 .. Last
    BY <1>5 DEF SubmitElsewhere, Position
  <2>2. at \in Nat /\ at + 1 \in 0 .. Total
    BY SMTT(30), <1>5, <1>m, <2>1, Ends, Numbers DEF SubmitElsewhere
  <2>3. partial' \in Record
    BY <1>5, <1>m, <2>2, RecordFacts DEF SubmitElsewhere
  <2>4. MainType' /\ Position'
    BY <1>5, <2>2, <2>3 DEF SubmitElsewhere, MainType, Position
  <2> QED BY <1>5, <2>4, SameOs, SameWatch, SameDisk, SameProof DEF SubmitElsewhere
<1>6. CASE SaveSlot
  <2>1. MainType' /\ Position'
    BY <1>6, GotoType, PointFacts DEF SaveSlot, Position
  <2>2. DiskType'
    BY <1>6, <1>o, <1>d, Fixed DEF SaveSlot, DiskType
  <2> QED BY <1>6, <2>1, <2>2, SameOs, SameWatch, SameProof DEF SaveSlot
<1>7. CASE SaveDrifts
  <2>1. MainType' /\ Position'
    BY <1>7, <1>m, AwayType DEF SaveDrifts, Abort
  <2>2. DiskType'
    BY <1>7, <1>o, <1>d DEF SaveDrifts, DiskType
  <2> QED BY <1>7, <2>1, <2>2, SameOs, SameWatch, SameProof DEF SaveDrifts
<1>8. CASE PairGate
  <2>1. MainType' /\ Position'
    BY <1>8, GotoType, PointFacts DEF PairGate
  <2>2. n \in 1 .. Last
    BY <1>8 DEF PairGate, Position
  <2>3. DiskType'
    BY <1>8, <1>d, <2>2 DEF PairGate, DiskType
  <2> QED BY <1>8, <2>1, <2>3, SameOs, SameWatch, SameProof DEF PairGate
<1>9. CASE RestartProof
  <2>1. MainType' /\ Position'
    BY <1>9, GotoType, PointFacts DEF RestartProof, Position
  <2>2. [slot EXCEPT !.other = TRUE] \in Contents
    BY <1>o DEF Contents
  <2>3. OsType'
    BY <1>9, <1>o, <2>2 DEF RestartProof, OsType
  <2> QED BY <1>9, <2>1, <2>3, SameWatch, SameDisk, SameProof DEF RestartProof
<1>10. CASE Restored
  <2>1. MainType' /\ Position'
    BY <1>10, GotoType, PointFacts DEF Restored
  <2>2. ProofType'
    BY <1>10, <1>m, CkptType DEF Restored, Phases
  <2> QED BY <1>10, <2>1, <2>2, SameOs, SameWatch, SameDisk DEF Restored
<1>11. CASE ServerRaise
  <2>1. MainType' /\ Position'
    BY <1>11, <1>m, AwayType DEF ServerRaise, Abort
  <2> QED BY <1>11, <2>1, SameOs, SameWatch, SameDisk, SameProof DEF ServerRaise
<1>12. CASE Close
  <2>1. MainType' /\ Position'
    BY <1>12, GotoType, PointFacts DEF Close
  <2>2. OsType'
    BY <1>12, <1>m, <1>o DEF Close, OsType
  <2> QED BY <1>12, <2>1, <2>2, SameWatch, SameDisk, SameProof DEF Close
<1>13. CASE CloseTimesOut
  <2>1. MainType' /\ Position'
    BY <1>13, GotoType, PointFacts DEF CloseTimesOut
  <2>2. OsType'
    BY <1>13, <1>m, <1>o DEF CloseTimesOut, OsType
  <2>3. WatchType'
    BY <1>13 DEF CloseTimesOut, WatchType
  <2> QED BY <1>13, <2>1, <2>2, <2>3, SameDisk, SameProof DEF CloseTimesOut
<1>14. CASE TearDown
  <2>1. freed' \in BOOLEAN /\ WatchType'
    BY <1>14 DEF TearDown, WatchType
  <2>2. CASE n = 0
    BY <1>14, <2>1, <2>2, PointFacts, SameOs, SameDisk, SameProof, Numbers
       DEF TearDown, MainType, Position
  <2>3. CASE n # 0 /\ n = Restart
    BY <1>14, <2>1, <2>3, PointFacts, SameOs, SameDisk, SameProof
       DEF TearDown, MainType, Position
  <2>4. CASE n # 0 /\ n # Restart
    <3>1. n \in 1 .. Last
      BY <2>4, <1>m, Numbers
    <3> DEFINE passed == ~failing /\ Healthy({n}) /\ freed'
    <3>a. partial' = [partial EXCEPT !.pass = passed]
      BY <1>14, <2>4 DEF TearDown
    <3>b. passed \in BOOLEAN
      OBVIOUS
    <3> HIDE DEF passed
    <3>3. partial' \in Record
      BY <1>m, <3>a, <3>b, RecordFacts
    <3>4. MainType' /\ Position'
      BY <1>14, <2>1, <2>4, <3>1, <3>3, PointFacts DEF TearDown, MainType, Position
    <3> QED BY <1>14, <2>1, <3>4, SameOs, SameDisk, SameProof DEF TearDown
  <2> QED BY <2>2, <2>3, <2>4
<1> QED BY <1>1, <1>2, <1>3, <1>4, <1>5, <1>6, <1>7, <1>8, <1>9, <1>10, <1>11,
           <1>12, <1>13, <1>14 DEF Server

LEMMA MonitorType == TInv /\ Monitor => TInv'
<1> SUFFICES ASSUME TInv, Monitor PROVE TInv'
  OBVIOUS
<1> USE DEF TInv, TypeOK
<1>1. n \in Servers
  BY DEF MainType
<1>2. CASE Sample \/ Violate \/ SampleLost
  <2>1. WatchType'
    BY <1>1, <1>2 DEF Sample, Violate, SampleLost, WatchType
  <2> QED BY <1>2, <2>1, SameMain, SameOs, SameDisk, SameProof
          DEF Sample, Violate, SampleLost
<1>3. CASE MonitorStop
  <2>1. WatchType'
    BY <1>3 DEF MonitorStop, WatchType
  <2>2. OsType'
    BY <1>1, <1>3 DEF MonitorStop, OsType
  <2> QED BY <1>3, <2>1, <2>2, SameMain, SameDisk, SameProof DEF MonitorStop
<1> QED BY <1>2, <1>3 DEF Monitor

LEMMA OthersType == TInv /\ Others => TInv'
<1> SUFFICES ASSUME TInv, Others PROVE TInv'
  OBVIOUS
<1> USE DEF TInv, TypeOK
<1>1. ASSUME NEW s \in Servers, Bind(s) \/ Exit(s) PROVE TInv'
  <2>1. OsType'
    BY <1>1, Fixed DEF Bind, Exit, OsType
  <2> QED BY <1>1, <2>1, SameMain, SameWatch, SameDisk, SameProof DEF Bind, Exit
<1>2. CASE OtherServer
  <2>1. OsType'
    BY <1>2 DEF OtherServer, OsType
  <2> QED BY <1>2, <2>1, SameMain, SameWatch, SameDisk, SameProof DEF OtherServer
<1>3. CASE OtherRequest
  <2>1. slot' \in Contents
    BY <1>3, AfterOther DEF OtherRequest, OsType
  <2>2. OsType'
    BY <1>3, <2>1 DEF OtherRequest, OsType
  <2> QED BY <1>3, <2>2, SameMain, SameWatch, SameDisk, SameProof DEF OtherRequest
<1>4. ASSUME NEW i \in 1 .. Last, Damage(i) PROVE TInv'
  <2>1. Spoil(files[i]) \in Contents
    BY AfterDamage DEF DiskType
  <2>2. DiskType'
    BY <1>4, <2>1 DEF Damage, DiskType
  <2> QED BY <1>4, <2>2, SameMain, SameOs, SameWatch, SameProof DEF Damage
<1>5. CASE Crash
  <2>1. MainType' /\ Position'
    BY <1>5, AwayType DEF Crash, MainType
  <2>2. WatchType'
    BY <1>5 DEF Crash, WatchType
  <2> QED BY <1>5, <2>1, <2>2, SameOs, SameDisk, SameProof DEF Crash
<1> QED BY <1>1, <1>2, <1>3, <1>4, <1>5 DEF Others

LEMMA TypeStep == TInv /\ [Next]_vars => TInv'
<1>1. TInv /\ UNCHANGED vars => TInv'
  BY SameMain, SameOs, SameWatch, SameDisk, SameProof DEF TInv, TypeOK, vars
<1> QED BY <1>1, BuildType, ServerType, MonitorType, OthersType DEF Next, Ended

LEMMA Typed == Spec => []TInv
BY TypeInit, TypeStep, PTL DEF Spec

\* Every value the build keeps has its type, and a violation is found in a
\* sample that is kept.
THEOREM TypeCorrect == Spec => []TypeOK
<1>1. TInv => TypeOK
  BY DEF TInv
<1> QED BY <1>1, Typed, PTL

---------------------------------------------------------------------------
(* One server at a time *)

Alive(s) == process[s] \in {"up", "dying"}

\* Positions at which the server of the position is not running.
OverPc == {"allocate", "start", "teardown", "probed", "select", "record", "seal",
           "finish", "result"}
\* Positions at which a monitor may run.
WatchedPc == {"ready", "probe", "restore", "chunk", "save", "gate", "proof", "rehash",
              "restored", "close", "teardown"}

Alone == \A s \in Servers : Alive(s) => s = n
Over  == pc \in OverPc => ~Alive(n)
Owner == port \in Servers => Alive(port)
Watch == mon # "off" => pc \in WatchedPc

PInv == Alone /\ Over /\ Owner /\ Watch

LEMMA ProcInit == Init => PInv
BY Numbers, Names DEF Init, PInv, Alone, Over, Owner, Watch, Alive

\* Steps that touch no process, no port and no monitor.
LEMMA ProcSame ==
    ASSUME PInv, UNCHANGED <<n, process, port, mon>>,
           pc' \in OverPc => pc \in OverPc, pc \in WatchedPc => pc' \in WatchedPc
    PROVE  PInv'
BY DEF PInv, Alone, Over, Owner, Watch, Alive

\* No server runs, and the build may turn to another one.
LEMMA ProcTurn ==
    ASSUME TInv, PInv, pc \in OverPc, n' \in Servers, mon' = "off",
           UNCHANGED <<process, port>>
    PROVE  PInv'
<1>1. n \in Servers
  BY DEF TInv, TypeOK, MainType
<1>2. \A s \in Servers : ~Alive(s)
  BY <1>1 DEF PInv, Alone, Over
<1>3. port \notin Servers
  BY <1>2 DEF PInv, Owner
<1> QED BY <1>2, <1>3 DEF PInv, Alone, Over, Owner, Watch, Alive

LEMMA BuildProc == TInv /\ TInv' /\ PInv /\ Build => PInv'
<1> SUFFICES ASSUME TInv, TInv', PInv, Build PROVE PInv'
  OBVIOUS
<1>1. n \in Servers /\ n' \in Servers
  BY DEF TInv, TypeOK, MainType
<1>2. pc \in OverPc /\ pc \notin WatchedPc \cup {"teardown"} => mon = "off"
  BY DEF PInv, Watch
<1>3. CASE Probed \/ Select \/ RecordStage \/ Seal \/ Finish \/ WriteResult \/ Allocate
  <2>1. /\ pc \in OverPc /\ pc \notin WatchedPc \cup {"teardown"}
        /\ UNCHANGED <<process, port, mon>>
    BY <1>3 DEF Probed, Select, RecordStage, Seal, Finish, WriteResult, Allocate, Goto, os,
                watch, OverPc, WatchedPc
  <2> QED BY <1>1, <1>2, <2>1, ProcTurn
<1>4. CASE AllocateFails \/ Handle \/ Report
  <2>1. /\ pc' \notin OverPc /\ pc \notin WatchedPc
        /\ UNCHANGED <<n, process, port, mon>>
    BY <1>4 DEF AllocateFails, Handle, Report, Goto, os, watch, OverPc, WatchedPc
  <2> QED BY <2>1, ProcSame
<1>5. CASE BuildRaise
  <2>1. /\ pc' \notin OverPc /\ pc \notin WatchedPc
        /\ UNCHANGED <<n, process, port, mon>>
    BY <1>5, PointFacts DEF BuildRaise, os, watch, OverPc, WatchedPc
  <2> QED BY <2>1, ProcSame
<1> QED BY <1>3, <1>4, <1>5 DEF Build

LEMMA ServerProc == TInv /\ TInv' /\ PInv /\ Server => PInv'
<1> SUFFICES ASSUME TInv, TInv', PInv, Server PROVE PInv'
  OBVIOUS
<1>1. n \in Servers /\ n' \in Servers /\ process \in [Servers -> {"none", "up", "dying", "gone"}]
  BY DEF TInv, TypeOK, MainType, OsType
<1>2. CASE StartServer
  <2>1. \A s \in Servers : Alive(s)' => s = n'
    BY <1>1, <1>2 DEF StartServer, PInv, Alone, Alive
  <2>2. mon' = "off" /\ pc' = "monitor" /\ port' = NoOne
    BY <1>2 DEF StartServer, PInv, Watch, WatchedPc, watch
  <2> QED BY <2>1, <2>2, Names DEF PInv, Alone, Over, Owner, Watch, OverPc
<1>3. CASE StartMonitor
  BY <1>3 DEF StartMonitor, Goto, os, PInv, Alone, Over, Owner, Watch, Alive, OverPc, WatchedPc
<1>4. CASE Ready \/ Probe \/ AllSubmitted \/ Rehash \/ RestoreSlot \/ SubmitElsewhere
           \/ SaveSlot \/ SaveDrifts \/ PairGate \/ RestartProof \/ Restored
  <2>1. /\ pc' \notin OverPc /\ pc' \in WatchedPc
        /\ UNCHANGED <<n, process, port, mon>>
    BY <1>4 DEF Ready, Probe, AllSubmitted, Rehash, RestoreSlot, SubmitElsewhere, SaveSlot,
                SaveDrifts, PairGate, RestartProof, Restored, Goto, Abort, os, watch,
                OverPc, WatchedPc
  <2> QED BY <2>1, ProcSame
<1>5. CASE SubmitChunk
  <2>1. /\ pc' \in {"chunk", "close"} /\ UNCHANGED <<n, process, port, mon>>
    BY <1>5 DEF SubmitChunk, watch
  <2> QED BY <2>1, ProcSame DEF OverPc, WatchedPc
<1>6. CASE ServerRaise
  <2>1. pc' = "close" /\ UNCHANGED <<n, process, port, mon>>
    BY <1>6 DEF ServerRaise, Abort, os, watch
  <2> QED BY <2>1, ProcSame DEF OverPc, WatchedPc
<1>7. CASE Close
  <2>1. \A s \in Servers : ~Alive(s)'
    BY <1>1, <1>7 DEF Close, PInv, Alone, Alive
  <2>2. port' \notin Servers
    BY <1>1, <1>7, Names DEF Close, PInv, Alone, Owner
  <2>3. pc' = "teardown" /\ UNCHANGED <<n, mon>>
    BY <1>7 DEF Close, Goto, watch
  <2> QED BY <1>1, <2>1, <2>2, <2>3 DEF PInv, Alone, Over, Owner, Watch, WatchedPc
<1>8. CASE CloseTimesOut
  <2>1. \A s \in Servers : (Alive(s)' <=> Alive(s))
    BY <1>1, <1>8 DEF CloseTimesOut, Alive
  <2>2. pc' = "handler" /\ mon' = "off" /\ UNCHANGED <<n, port>>
    BY <1>8 DEF CloseTimesOut, Goto
  <2> QED BY <2>1, <2>2 DEF PInv, Alone, Over, Owner, Watch, OverPc
<1>9. CASE TearDown
  <2>1. pc \in OverPc /\ mon' = "off" /\ UNCHANGED <<process, port>>
    BY <1>9 DEF TearDown, OverPc, os
  <2> QED BY <1>1, <2>1, ProcTurn
<1> QED BY <1>2, <1>3, <1>4, <1>5, <1>6, <1>7, <1>8, <1>9 DEF Server

LEMMA MonitorProc == TInv /\ PInv /\ Monitor => PInv'
<1> SUFFICES ASSUME TInv, PInv, Monitor PROVE PInv'
  OBVIOUS
<1>1. n \in Servers /\ process \in [Servers -> {"none", "up", "dying", "gone"}]
  BY DEF TInv, TypeOK, MainType, OsType
<1>2. CASE Sample \/ Violate \/ SampleLost
  BY <1>2 DEF Sample, Violate, SampleLost, main, os, PInv, Alone, Over, Owner, Watch, Alive
<1>3. CASE MonitorStop
  <2>1. \A s \in Servers : process'[s] \in {"up", "dying"} => process[s] \in {"up", "dying"}
    BY <1>1, <1>3 DEF MonitorStop
  <2>2. port' \in Servers => process'[port'] \in {"up", "dying"}
    BY <1>1, <1>3, Names DEF MonitorStop, PInv, Alone, Owner, Alive
  <2>3. UNCHANGED <<pc, n>> /\ mon' = "off"
    BY <1>3 DEF MonitorStop, main
  <2> QED BY <1>1, <2>1, <2>2, <2>3 DEF PInv, Alone, Over, Owner, Watch, Alive
<1> QED BY <1>2, <1>3 DEF Monitor

LEMMA OthersProc == TInv /\ PInv /\ Others => PInv'
<1> SUFFICES ASSUME TInv, PInv, Others PROVE PInv'
  OBVIOUS
<1>1. n \in Servers /\ process \in [Servers -> {"none", "up", "dying", "gone"}]
  BY DEF TInv, TypeOK, MainType, OsType
<1>2. ASSUME NEW s \in Servers, Bind(s) PROVE PInv'
  BY <1>1, <1>2 DEF Bind, main, watch, PInv, Alone, Over, Owner, Watch, Alive
<1>3. ASSUME NEW s \in Servers, Exit(s) PROVE PInv'
  <2>1. \A t \in Servers : process'[t] \in {"up", "dying"} => process[t] \in {"up", "dying"}
    BY <1>1, <1>3 DEF Exit
  <2>2. port' \in Servers => process'[port'] \in {"up", "dying"}
    BY <1>1, <1>3, Names DEF Exit, PInv, Owner, Alive
  <2>3. UNCHANGED <<pc, n, mon>>
    BY <1>3 DEF Exit, main, watch
  <2> QED BY <1>1, <2>1, <2>2, <2>3 DEF PInv, Alone, Over, Owner, Watch, Alive
<1>4. CASE OtherServer
  BY <1>4, Names DEF OtherServer, main, watch, PInv, Alone, Over, Owner, Watch, Alive
<1>5. CASE OtherRequest
  <2>1. UNCHANGED <<pc, n, process, port, mon>>
    BY <1>5 DEF OtherRequest, main, watch
  <2> QED BY <2>1, ProcSame
<1>6. ASSUME NEW i \in 1 .. Last, Damage(i) PROVE PInv'
  <2>1. UNCHANGED <<pc, n, process, port, mon>>
    BY <1>6 DEF Damage, main, os, watch
  <2> QED BY <2>1, ProcSame
<1>7. CASE Crash
  <2>1. pc' = "dead" /\ mon' = "off" /\ UNCHANGED <<n, process, port>>
    BY <1>7 DEF Crash, os
  <2> QED BY <2>1 DEF PInv, Alone, Over, Owner, Watch, Alive, OverPc
<1> QED BY <1>2, <1>3, <1>4, <1>5, <1>6, <1>7 DEF Others

LEMMA ProcStep == TInv /\ TInv' /\ PInv /\ [Next]_vars => PInv'
<1>1. PInv /\ UNCHANGED vars => PInv'
  <2>1. UNCHANGED vars => UNCHANGED <<pc, n, process, port, mon>>
    BY DEF vars, main, os, watch
  <2> QED BY <2>1, ProcSame
<1> QED BY <1>1, BuildProc, ServerProc, MonitorProc, OthersProc DEF Next, Ended

LEMMA Processes == Spec => []PInv
<1>1. TInv /\ PInv /\ TInv' /\ [Next]_vars => PInv'
  BY ProcStep
<1> QED BY <1>1, ProcInit, Typed, PTL DEF Spec

\* The servers of the build never overlap, whatever others do on the port.
THEOREM OneServerHolds == Spec => []OneServer
<1>1. PInv => OneServer
  BY DEF PInv, Alone, Alive, OneServer
<1> QED BY <1>1, Processes, PTL

---------------------------------------------------------------------------
(* Which stages are sealed *)

OpenPc == {"start", "monitor", "ready", "restore", "chunk", "save", "gate"}

Behind == \A i \in 1 .. Last : i < n => Sealed(i)
Ahead  == \A i \in 1 .. Last : i > n => ~Sealed(i)
Open   == pc \in OpenPc /\ n \in 1 .. Last => ~Sealed(n)
Shut   == n \in 1 .. Last =>
             /\ pc \in {"close", "teardown"} /\ ~failing => Sealed(n)
             /\ pc = "record" /\ partial.pass => Sealed(n)
             /\ pc = "seal" => Sealed(n)

SInv == Behind /\ Ahead /\ Open /\ Shut

LEMMA OrderInit == Init => SInv
<1> SUFFICES ASSUME Init PROVE SInv
  OBVIOUS
<1>1. \A i \in 1 .. Last : ~Sealed(i) /\ i \in Nat
  BY Fixed, Numbers DEF Init, Sealed
<1>2. n = 0
  BY DEF Init
<1> QED BY <1>1, <1>2, Numbers DEF SInv, Behind, Ahead, Open, Shut

\* A step that seals nothing and stays with its server.
LEMMA OrderSame ==
    ASSUME SInv, UNCHANGED <<n, sealed>>, pc' \in OpenPc => pc \in OpenPc,
           \/ pc' \notin {"close", "teardown", "record", "seal"}
           \/ pc' \in {"close", "teardown"} /\ failing' = TRUE
           \/ n \notin 1 .. Last
    PROVE  SInv'
BY DEF SInv, Behind, Ahead, Open, Shut, Sealed

LEMMA OrderStay ==
    ASSUME SInv, UNCHANGED <<pc, n, failing, partial, sealed>> PROVE SInv'
BY DEF SInv, Behind, Ahead, Open, Shut, Sealed

LEMMA BuildOrder == TInv /\ SInv /\ Build => SInv'
<1> SUFFICES ASSUME TInv, SInv, Build PROVE SInv'
  OBVIOUS
<1>1. n \in Servers /\ partial \in Record
  BY DEF TInv, TypeOK, MainType
<1>2. CASE Allocate
  <2>1. n = 0 /\ UNCHANGED <<n, sealed>>
    BY <1>2 DEF Allocate, TInv, Position, disk
  <2>2. n \notin 1 .. Last
    BY <2>1, Numbers
  <2> QED BY <2>1, <2>2 DEF SInv, Behind, Ahead, Open, Shut, Sealed
<1>3. CASE AllocateFails \/ Probed \/ Finish \/ WriteResult \/ BuildRaise \/ Handle \/ Report
  <2>1. UNCHANGED <<n, sealed>> /\ pc' \in {"report", "select", "handler", "result", "end"}
    BY <1>3 DEF AllocateFails, Probed, Finish, WriteResult, BuildRaise, Handle, Report,
                Goto, disk
  <2> QED BY <2>1, OrderSame DEF OpenPc
<1>4. CASE Select
  <2>1. n = 0 /\ n' = 1 /\ pc' = "start" /\ UNCHANGED sealed
    BY <1>4 DEF Select, TInv, Position, disk
  <2>2. \A i \in 1 .. Last : i > 0 /\ ~(i < 1)
    BY Numbers
  <2> QED BY <2>1, <2>2 DEF SInv, Behind, Ahead, Open, Shut, Sealed
<1>5. CASE RecordStage
  <2>1. n \in 1 .. Last /\ UNCHANGED sealed
    BY <1>5 DEF RecordStage, TInv, Position, disk
  <2>2. CASE pc' = "handler"
    <3>1. n' = n
      BY <1>5, <2>2 DEF RecordStage
    <3> QED BY <2>1, <2>2, <3>1, OrderSame DEF OpenPc
  <2>3. CASE pc' # "handler"
    <3>1. Sealed(n)
      BY <1>5, <2>1, <2>3 DEF RecordStage, SInv, Shut
    <3>2. CASE n = Last
      BY <1>5, <2>1, <2>3, <3>1, <3>2 DEF RecordStage, SInv, Behind, Ahead, Open, Shut,
                                           Sealed, OpenPc
    <3>3. CASE n # Last
      <4>1. n' = n + 1 /\ pc' = "start"
        BY <1>5, <2>3, <3>3 DEF RecordStage
      <4>2. \A i \in 1 .. Last : /\ i < n + 1 => i < n \/ i = n
                                 /\ i > n + 1 => i > n
        BY <2>1, Numbers
      <4>3. n + 1 \in 1 .. Last /\ n + 1 > n
        BY <2>1, <3>3, Numbers
      <4> QED BY <2>1, <3>1, <4>1, <4>2, <4>3 DEF SInv, Behind, Ahead, Open, Shut, Sealed
    <3> QED BY <3>2, <3>3
  <2> QED BY <2>2, <2>3
<1>6. CASE Seal
  <2>1. n = Last /\ n' = Restart /\ pc' = "start" /\ UNCHANGED sealed
    BY <1>6 DEF Seal, TInv, Position, disk
  <2>2. Sealed(Last)
    BY <1>6, <2>1, Numbers DEF Seal, SInv, Shut
  <2>3. \A i \in 1 .. Last : (i < Last \/ i = Last) /\ ~(i > Restart)
    BY Numbers
  <2>4. Restart \notin 1 .. Last
    BY Numbers
  <2> QED BY <2>1, <2>2, <2>3, <2>4 DEF SInv, Behind, Ahead, Open, Shut, Sealed
<1> QED BY <1>2, <1>3, <1>4, <1>5, <1>6 DEF Build

LEMMA ServerOrder == TInv /\ SInv /\ Server => SInv'
<1> SUFFICES ASSUME TInv, SInv, Server PROVE SInv'
  OBVIOUS
<1>1. n \in Servers /\ partial \in Record
  BY DEF TInv, TypeOK, MainType
<1>2. CASE StartServer \/ StartMonitor \/ Ready \/ RestoreSlot \/ SubmitElsewhere
           \/ AllSubmitted \/ SaveSlot \/ RestartProof \/ Rehash
  <2>1. /\ UNCHANGED <<n, sealed>>
        /\ pc' \in OpenPc => pc \in OpenPc
        /\ pc' \notin {"close", "teardown", "record", "seal"}
    BY <1>2 DEF StartServer, StartMonitor, Ready, RestoreSlot, SubmitElsewhere, AllSubmitted,
                SaveSlot, RestartProof, Rehash, Goto, disk, OpenPc
  <2> QED BY <2>1, OrderSame
<1>3. CASE SubmitChunk
  <2>1. /\ UNCHANGED <<n, sealed>> /\ pc = "chunk"
        /\ pc' = "chunk" \/ (pc' = "close" /\ failing' = TRUE)
    BY <1>3 DEF SubmitChunk, disk
  <2> QED BY <2>1, OrderSame DEF OpenPc
<1>4. CASE SaveDrifts \/ ServerRaise
  <2>1. UNCHANGED <<n, sealed>> /\ pc' = "close" /\ failing' = TRUE
    BY <1>4 DEF SaveDrifts, ServerRaise, Abort, disk
  <2> QED BY <2>1, OrderSame DEF OpenPc
<1>5. CASE Probe
  <2>1. UNCHANGED <<n, sealed>> /\ pc' = "close" /\ n = 0
    BY <1>5 DEF Probe, Goto, disk, TInv, Position
  <2> QED BY <2>1, OrderSame, Numbers DEF OpenPc
<1>6. CASE Restored
  <2>1. UNCHANGED <<n, sealed>> /\ pc' = "close" /\ n = Restart
    BY <1>6 DEF Restored, Goto, disk, TInv, Position
  <2> QED BY <2>1, OrderSame, Numbers DEF OpenPc
<1>7. CASE PairGate
  <2>1. n \in 1 .. Last /\ n' = n /\ pc' = "close"
    BY <1>7 DEF PairGate, Goto, TInv, Position
  <2>2. sealed \in [1 .. Last -> Contents]
    BY DEF TInv, TypeOK, DiskType
  <2>3. Sealed(n)' /\ \A i \in 1 .. Last : i # n => (Sealed(i)' <=> Sealed(i))
    BY <1>7, <2>1, <2>2, Ends DEF PairGate, Sealed
  <2>4. \A i \in 1 .. Last : (i < n => i # n) /\ (i > n => i # n)
    BY <2>1, Numbers
  <2> QED BY <2>1, <2>3, <2>4 DEF SInv, Behind, Ahead, Open, Shut, Sealed, OpenPc
<1>8. CASE Close
  BY <1>8 DEF Close, Goto, disk, SInv, Behind, Ahead, Open, Shut, Sealed, OpenPc
<1>9. CASE CloseTimesOut
  <2>1. UNCHANGED <<n, sealed>> /\ pc' = "handler"
    BY <1>9 DEF CloseTimesOut, Goto, disk
  <2> QED BY <2>1, OrderSame DEF OpenPc
<1>10. CASE TearDown
  <2>1. UNCHANGED <<n, sealed>> /\ pc = "teardown"
    BY <1>10 DEF TearDown, disk
  <2>2. CASE n \notin 1 .. Last
    <3>1. pc' \in {"probed", "handler", "finish"}
      BY <1>10, <1>1, <2>2, Numbers DEF TearDown
    <3> QED BY <2>1, <2>2, <3>1, OrderSame DEF OpenPc
  <2>3. CASE n \in 1 .. Last
    <3> DEFINE passed == ~failing /\ Healthy({n}) /\ freed'
    <3>1. pc' = "record" /\ partial' = [partial EXCEPT !.pass = passed]
      BY <1>10, <2>3, Numbers DEF TearDown
    <3>2. passed \in BOOLEAN /\ (passed => ~failing)
      OBVIOUS
    <3> HIDE DEF passed
    <3>3. partial'.pass => ~failing
      BY <1>1, <3>1, <3>2, RecordFacts
    <3> QED BY <2>1, <2>3, <3>1, <3>3 DEF SInv, Behind, Ahead, Open, Shut, Sealed, OpenPc
  <2> QED BY <2>2, <2>3
<1> QED BY <1>2, <1>3, <1>4, <1>5, <1>6, <1>7, <1>8, <1>9, <1>10 DEF Server

LEMMA OrderStep == TInv /\ SInv /\ [Next]_vars => SInv'
<1> SUFFICES ASSUME TInv, SInv, [Next]_vars PROVE SInv'
  OBVIOUS
<1>1. CASE Monitor
  <2>1. UNCHANGED <<pc, n, failing, partial, sealed>>
    BY <1>1 DEF Monitor, Sample, Violate, SampleLost, MonitorStop, main, disk
  <2> QED BY <2>1, OrderStay
<1>2. CASE Others
  <2>1. CASE Crash
    <3>1. UNCHANGED <<n, sealed>> /\ pc' = "dead"
      BY <2>1 DEF Crash, disk
    <3> QED BY <3>1, OrderSame DEF OpenPc
  <2>2. CASE ~Crash
    <3>1. UNCHANGED <<pc, n, failing, partial, sealed>>
      BY <1>2, <2>2 DEF Others, Bind, Exit, OtherServer, OtherRequest, Damage, main, disk
    <3> QED BY <3>1, OrderStay
  <2> QED BY <2>1, <2>2
<1>3. CASE UNCHANGED vars
  <2>1. UNCHANGED <<pc, n, failing, partial, sealed>>
    BY <1>3 DEF vars, main, disk
  <2> QED BY <2>1, OrderStay
<1> QED BY <1>1, <1>2, <1>3, BuildOrder, ServerOrder DEF Next, Ended

LEMMA Orders == Spec => []SInv
BY OrderInit, OrderStep, Typed, PTL DEF Spec

---------------------------------------------------------------------------
(* What the stages hold *)

\* Positions at which the slot of a stage's server will still be used.
SlotPc == {"monitor", "ready", "restore", "chunk", "save"}

\* What server k may hold, given the sealed pairs and the bad ones.
From(k, made, pairs, bad) ==
    \A p \in 1 .. Len(made) :
        /\ p > Start(k) => made[p] = k
        /\ p <= Start(k) /\ k - 1 \notin bad => made[p] = pairs[k - 1].made[p]

Files == \A i \in 1 .. Last :
    /\ i \in spoilt => Sealed(i) /\ files[i].made[Bounds[i]] = Unknown
    /\ Sealed(i) => Len(sealed[i].made) = Bounds[i]
    /\ Sealed(i) /\ i \notin spoilt => files[i] = sealed[i]
Links    == \A i \in 1 .. Last : Sealed(i) => From(i, sealed[i].made, sealed, spoilt)
SlotFrom == port = n /\ n \in 1 .. Last /\ pc \in SlotPc =>
                From(n, slot.made, sealed, spoilt)
FileFrom == pc = "gate" => From(n, files[n].made, sealed, spoilt)
Reached  == pc \in {"monitor", "ready", "restore", "chunk"} /\ n \in 1 .. Last =>
                at >= Start(n)

CInv == Files /\ Links /\ SlotFrom /\ FileFrom /\ Reached

LEMMA ChainInit == Init => CInv
<1> SUFFICES ASSUME Init PROVE CInv
  OBVIOUS
<1>1. \A i \in 1 .. Last : ~Sealed(i)
  BY Fixed, Numbers DEF Init, Sealed
<1>2. pc = "allocate" /\ spoilt = {}
  BY DEF Init
<1> QED BY <1>1, <1>2 DEF CInv, Files, Links, SlotFrom, FileFrom, Reached, SlotPc

\* Steps that leave the disk alone and neither the slot nor the position
\* moves to where they matter.
LEMMA ChainSame ==
    ASSUME CInv, UNCHANGED <<files, sealed, spoilt>>,
           pc' # "gate" \/ UNCHANGED <<pc, n>>,
           \/ pc' \notin SlotPc
           \/ n' \notin 1 .. Last
           \/ port' # n'
           \/ pc \in SlotPc /\ UNCHANGED <<n, port, slot>>,
           \/ pc' \notin {"monitor", "ready", "restore", "chunk"}
           \/ n' \notin 1 .. Last
           \/ pc \in {"monitor", "ready", "restore", "chunk"} /\ UNCHANGED <<n, at>>
    PROVE  CInv'
<1>1. Files' /\ Links'
  BY DEF CInv, Files, Links, Sealed
<1>2. SlotFrom'
  BY DEF CInv, SlotFrom
<1>3. FileFrom'
  BY DEF CInv, FileFrom
<1>4. Reached'
  BY DEF CInv, Reached
<1> QED BY <1>1, <1>2, <1>3, <1>4 DEF CInv

LEMMA BuildChain == TInv /\ CInv /\ Build => CInv'
<1> SUFFICES ASSUME TInv, CInv, Build PROVE CInv'
  OBVIOUS
<1>1. /\ UNCHANGED <<files, sealed, spoilt>>
      /\ pc' \notin {"gate", "monitor", "ready", "restore", "chunk", "save"}
  BY DEF Build, Allocate, AllocateFails, Probed, Select, RecordStage, Seal, Finish,
         WriteResult, BuildRaise, Handle, Report, Goto, disk
<1> QED BY <1>1, ChainSame DEF SlotPc

\* A prompt whose answer says that all chunks before were reused.
LEMMA ChunkFrom ==
    ASSUME TInv, SlotFrom, Reached, pc = "chunk", port = n, n \in 1 .. Last,
           at \in Reusable(slot, at + 1)
    PROVE  From(n, Evaluated(slot, at + 1, at, n).made, sealed, spoilt)
<1>1. slot \in Contents /\ at \in Nat /\ at + 1 \in Nat /\ n \in Servers
  BY Numbers DEF TInv, TypeOK, OsType, MainType
<1>2. /\ Len(Evaluated(slot, at + 1, at, n).made) = at + 1 /\ at <= Len(slot.made)
      /\ \A p \in 1 .. at + 1 : Evaluated(slot, at + 1, at, n).made[p] =
                                    IF p <= at THEN slot.made[p] ELSE n
  BY <1>1, AfterPrompt
<1>3. From(n, slot.made, sealed, spoilt) /\ at >= Start(n) /\ Start(n) \in Nat
  BY Ends DEF SlotFrom, Reached, SlotPc
<1>4. Len(slot.made) \in Nat
  BY <1>1, Made
<1> DEFINE made == Evaluated(slot, at + 1, at, n).made
<1>5. ASSUME NEW p \in 1 .. at + 1
      PROVE  /\ p > Start(n) => made[p] = n
             /\ p <= Start(n) /\ n - 1 \notin spoilt => made[p] = sealed[n - 1].made[p]
  <2>1. CASE p <= at
    <3>1. p \in 1 .. Len(slot.made) /\ made[p] = slot.made[p]
      BY <1>1, <1>2, <1>4, <2>1
    <3> QED BY <1>3, <3>1 DEF From
  <2>2. CASE ~(p <= at)
    <3>1. made[p] = n /\ ~(p <= Start(n))
      BY <1>1, <1>2, <1>3, <2>2
    <3> QED BY <3>1
  <2> QED BY <2>1, <2>2
<1> QED BY <1>2, <1>5 DEF From

\* An open stage may write its own file.
LEMMA FileWritten ==
    ASSUME TInv, SInv, CInv, pc = "save", NEW content \in Contents,
           files' = [files EXCEPT ![n] = content], UNCHANGED <<sealed, spoilt>>
    PROVE  Files' /\ Links'
<1>1. n \in 1 .. Last /\ ~Sealed(n)
  BY DEF TInv, Position, SInv, Open, OpenPc
<1>2. files \in [1 .. Last -> Contents]
  BY DEF TInv, TypeOK, DiskType
<1>3. \A i \in 1 .. Last : i # n => files'[i] = files[i]
  BY <1>2
<1>4. n \notin spoilt
  BY <1>1 DEF CInv, Files
<1>5. \A i \in 1 .. Last : Sealed(i)' <=> Sealed(i)
  BY DEF Sealed
<1>6. Files'
  BY <1>1, <1>3, <1>4, <1>5 DEF CInv, Files
<1>7. Links'
  BY <1>5 DEF CInv, Links
<1> QED BY <1>6, <1>7

LEMMA GateChain == TInv /\ SInv /\ CInv /\ PairGate => CInv'
<1> SUFFICES ASSUME TInv, SInv, CInv, PairGate PROVE CInv'
  OBVIOUS
<1>1. /\ pc = "gate" /\ pc' = "close" /\ n' = n /\ UNCHANGED <<files, spoilt>>
      /\ sealed' = [sealed EXCEPT ![n] = files[n]]
      /\ Len(files[n].made) = Bounds[n]
  BY DEF PairGate, Goto
<1>2. n \in 1 .. Last /\ ~Sealed(n) /\ sealed \in [1 .. Last -> Contents]
  BY <1>1 DEF TInv, TypeOK, DiskType, Position, SInv, Open, OpenPc
<1>3. n \notin spoilt /\ \A i \in 1 .. Last : i > n => ~Sealed(i)
  BY <1>2 DEF CInv, Files, SInv, Ahead
<1>4. sealed'[n] = files[n] /\ \A i \in 1 .. Last : i # n => sealed'[i] = sealed[i]
  BY <1>1, <1>2
<1>5. Files'
  BY <1>1, <1>2, <1>3, <1>4 DEF CInv, Files, Sealed
<1>6. \A i \in 1 .. Last : i # n /\ i - 1 = n => i > n
  BY Numbers
<1>7. ASSUME NEW i \in 1 .. Last, Sealed(i)' PROVE From(i, sealed'[i].made, sealed', spoilt)
  <2>1. \A p \in 1 .. Len(sealed'[i].made) : p <= Start(i) => i - 1 \in 1 .. Last
    <3>1. i # 1 => i - 1 \in 1 .. Last
      BY Numbers
    <3>2. \A p \in 1 .. Len(sealed'[i].made) : ~(p <= 0)
      OBVIOUS
    <3> QED BY <3>1, <3>2, Ends
  <2>2. CASE i = n
    <3>1. From(n, files[n].made, sealed, spoilt)
      BY <1>1 DEF CInv, FileFrom
    <3>2. n - 1 # n
      BY Numbers, <1>2
    <3> QED BY <1>4, <2>1, <2>2, <3>1, <3>2 DEF From
  <2>3. CASE i # n
    <3>1. Sealed(i)
      BY <1>4, <1>7, <2>3 DEF Sealed
    <3>2. i - 1 # n
      BY <1>3, <1>6, <2>3, <3>1
    <3>3. From(i, sealed[i].made, sealed, spoilt)
      BY <3>1 DEF CInv, Links
    <3> QED BY <1>4, <2>1, <2>3, <3>2, <3>3 DEF From
  <2> QED BY <2>2, <2>3
<1>8. Links'
  BY <1>1, <1>7 DEF Links
<1> QED BY <1>1, <1>5, <1>8 DEF CInv, SlotFrom, FileFrom, Reached, SlotPc

LEMMA ServerChain == TInv /\ SInv /\ CInv /\ Server => CInv'
<1> SUFFICES ASSUME TInv, SInv, CInv, Server PROVE CInv'
  OBVIOUS
<1>1. n \in Servers /\ at \in Nat /\ slot \in Contents /\ files \in [1 .. Last -> Contents]
  BY Numbers DEF TInv, TypeOK, MainType, OsType, DiskType
<1>2. CASE StartServer
  <2>1. /\ UNCHANGED <<files, sealed, spoilt, n>> /\ pc' = "monitor" /\ port' = NoOne
        /\ at' = IF n \in 1 .. Last THEN Start(n) ELSE 0
    BY <1>2 DEF StartServer, disk
  <2>2. Files' /\ Links'
    BY <2>1 DEF CInv, Files, Links, Sealed
  <2>3. Reached'
    BY <2>1, Ends DEF Reached
  <2>4. port' # n'
    BY <1>1, <2>1, Names
  <2> QED BY <2>1, <2>2, <2>3, <2>4 DEF CInv, SlotFrom, FileFrom
<1>3. CASE StartMonitor \/ Ready
  <2>1. /\ UNCHANGED <<files, sealed, spoilt, n, port, slot, at>> /\ pc' # "gate"
        /\ pc \in {"monitor", "ready"}
    BY <1>3 DEF StartMonitor, Ready, Goto, disk, os
  <2> QED BY <2>1, ChainSame DEF SlotPc
<1>4. CASE Probe \/ RestartProof \/ Rehash \/ Restored \/ ServerRaise \/ Close
           \/ CloseTimesOut \/ TearDown
  <2>1. /\ UNCHANGED <<files, sealed, spoilt, n>>
        /\ pc' \notin {"gate", "monitor", "ready", "restore", "chunk", "save"}
    BY <1>4 DEF Probe, RestartProof, Rehash, Restored, ServerRaise, Close,
                CloseTimesOut, TearDown, Goto, Abort, disk
  <2> QED BY <2>1, ChainSame DEF SlotPc
<1>10. CASE AllSubmitted
  <2>1. /\ UNCHANGED <<files, sealed, spoilt, n, port, slot>> /\ pc = "chunk" /\ pc' = "save"
    BY <1>10 DEF AllSubmitted, Goto, disk, os
  <2> QED BY <2>1, ChainSame DEF SlotPc
<1>5. CASE RestoreSlot
  <2>1. /\ UNCHANGED <<files, sealed, spoilt, n, port, at>> /\ pc = "restore"
        /\ pc' = (IF n = Restart THEN "proof" ELSE "chunk")
        /\ slot' = files[n - 1] /\ Len(slot'.made) = Start(n) /\ port = n
    BY <1>5 DEF RestoreSlot, disk
  <2>2. Files' /\ Links' /\ FileFrom' /\ Reached'
    BY <2>1 DEF CInv, Files, Links, FileFrom, Reached, Sealed
  <2>3. SlotFrom'
    <3> SUFFICES ASSUME n \in 1 .. Last PROVE From(n, slot'.made, sealed, spoilt)
      BY <2>1 DEF SlotFrom
    <3>1. n - 1 \in 1 .. Last /\ n - 1 < n
      BY <1>1, <2>1, Numbers DEF TInv, Position
    <3>2. Sealed(n - 1)
      BY <3>1 DEF SInv, Behind
    <3>3. n - 1 \notin spoilt => slot' = sealed[n - 1]
      BY <2>1, <3>1, <3>2 DEF CInv, Files
    <3>4. \A p \in 1 .. Len(slot'.made) : ~(p > Start(n))
      BY <2>1, Ends
    <3> QED BY <3>3, <3>4 DEF From
  <2> QED BY <2>2, <2>3 DEF CInv
<1>6. CASE SubmitChunk
  <2>1. /\ pc = "chunk" /\ port = n /\ n \in 1 .. Last
        /\ UNCHANGED <<files, sealed, spoilt, n, port>>
    BY <1>6 DEF SubmitChunk, disk, TInv, Position
  <2>2. CASE pc' = "close"
    BY <2>1, <2>2, ChainSame DEF SlotPc
  <2>3. CASE pc' # "close"
    <3>1. /\ at \in Reusable(slot, at + 1) /\ slot' = Evaluated(slot, at + 1, at, n)
          /\ at' = at + 1 /\ pc' = pc
      BY <1>6, <2>3 DEF SubmitChunk
    <3>2. From(n, slot'.made, sealed, spoilt)
      BY <2>1, <3>1, ChunkFrom DEF CInv
    <3>3. Files' /\ Links' /\ FileFrom' /\ SlotFrom'
      BY <2>1, <3>1, <3>2 DEF CInv, Files, Links, FileFrom, SlotFrom, Sealed
    <3>4. at >= Start(n) /\ Start(n) \in Nat
      BY <2>1, Ends DEF CInv, Reached
    <3>5. at' >= Start(n)
      BY <1>1, <3>1, <3>4
    <3> QED BY <2>1, <3>3, <3>5 DEF CInv, Reached
  <2> QED BY <2>2, <2>3
<1>7. CASE SubmitElsewhere
  <2>1. /\ pc = "chunk" /\ port = Foreign /\ pc' = pc /\ at' = at + 1
        /\ UNCHANGED <<files, sealed, spoilt, n, port>> /\ n \in 1 .. Last
    BY <1>7 DEF SubmitElsewhere, disk, os, TInv, Position
  <2>2. port' # n'
    BY <1>1, <2>1, Names
  <2>3. at >= Start(n) /\ Start(n) \in Nat
    BY <2>1, Ends DEF CInv, Reached
  <2>4. at' >= Start(n)
    BY <1>1, <2>1, <2>3
  <2> QED BY <2>1, <2>2, <2>4 DEF CInv, Files, Links, SlotFrom, FileFrom, Reached, Sealed
<1>8. CASE SaveSlot
  <2>1. /\ pc = "save" /\ pc' = "gate" /\ port = n
        /\ UNCHANGED <<sealed, spoilt, n>>
    BY <1>8 DEF SaveSlot, Goto
  <2>2. n \in 1 .. Last
    BY <2>1 DEF TInv, Position
  <2>3. PICK content \in {slot, Absent} : files' = [files EXCEPT ![n] = content]
    BY <1>8 DEF SaveSlot
  <2>4. content \in Contents
    BY <1>1, <2>3, Fixed
  <2>5. Files' /\ Links'
    BY <2>1, <2>3, <2>4, FileWritten
  <2>6. From(n, slot.made, sealed, spoilt)
    BY <2>1, <2>2 DEF CInv, SlotFrom, SlotPc
  <2>7. From(n, Absent.made, sealed, spoilt)
    BY Fixed DEF From
  <2>8. files'[n] = content
    BY <1>1, <2>2, <2>3
  <2>9. From(n, files'[n].made, sealed, spoilt)
    BY <2>3, <2>6, <2>7, <2>8
  <2> QED BY <2>1, <2>5, <2>9 DEF CInv, SlotFrom, FileFrom, Reached, SlotPc
<1>9. CASE SaveDrifts
  <2>1. /\ pc = "save" /\ pc' = "close" /\ files' = [files EXCEPT ![n] = slot]
        /\ UNCHANGED <<sealed, spoilt>>
    BY <1>9 DEF SaveDrifts, Abort
  <2>2. Files' /\ Links'
    BY <1>1, <2>1, FileWritten
  <2> QED BY <2>1, <2>2 DEF CInv, SlotFrom, FileFrom, Reached, SlotPc
<1> QED BY <1>2, <1>3, <1>4, <1>5, <1>6, <1>7, <1>8, <1>9, <1>10,
          GateChain DEF Server

LEMMA DamageChain ==
    ASSUME TInv, SInv, CInv, NEW i \in 1 .. Last, Damage(i) PROVE CInv'
<1>1. /\ Sealed(i) /\ i \notin spoilt /\ spoilt' = spoilt \cup {i}
      /\ files' = [files EXCEPT ![i] = Spoil(files[i])]
      /\ UNCHANGED <<pc, n, at, port, slot, sealed>>
  BY DEF Damage, main, os
<1>2. files \in [1 .. Last -> Contents]
  BY DEF TInv, TypeOK, DiskType
<1>3. files[i] = sealed[i] /\ Len(files[i].made) = Bounds[i]
  BY <1>1 DEF CInv, Files
<1>4. files'[i].made[Bounds[i]] = Unknown
  BY <1>1, <1>2, <1>3, AfterDamage, Ends
<1>5. \A j \in 1 .. Last : j # i => files'[j] = files[j]
  BY <1>1, <1>2
<1>6. Files'
  BY <1>1, <1>4, <1>5 DEF CInv, Files, Sealed
<1>7. \A k, made : From(k, made, sealed, spoilt) => From(k, made, sealed, spoilt')
  BY <1>1 DEF From
<1>8. Links' /\ SlotFrom'
  BY <1>1, <1>7 DEF CInv, Links, SlotFrom, Sealed
<1>9. FileFrom'
  <2> SUFFICES ASSUME pc = "gate" PROVE From(n, files'[n].made, sealed, spoilt')
    BY <1>1 DEF FileFrom
  <2>1. n \in 1 .. Last /\ ~Sealed(n)
    BY DEF TInv, Position, SInv, Open, OpenPc
  <2>2. files'[n] = files[n]
    BY <1>1, <1>5, <2>1
  <2> QED BY <1>7, <2>2 DEF CInv, FileFrom
<1> QED BY <1>1, <1>6, <1>8, <1>9 DEF CInv, Reached

LEMMA OthersChain == TInv /\ SInv /\ CInv /\ Others => CInv'
<1> SUFFICES ASSUME TInv, SInv, CInv, Others PROVE CInv'
  OBVIOUS
<1>1. n \in Servers /\ slot \in Contents
  BY DEF TInv, TypeOK, MainType, OsType
<1>2. ASSUME NEW s \in Servers, Bind(s) PROVE CInv'
  <2>1. UNCHANGED <<pc, n, at, files, sealed, spoilt>> /\ slot' = Empty
    BY <1>2 DEF Bind, main, disk
  <2>2. From(n, slot'.made, sealed, spoilt)
    BY <2>1, Fixed DEF From
  <2> QED BY <2>1, <2>2 DEF CInv, Files, Links, SlotFrom, FileFrom, Reached, Sealed
<1>3. ASSUME NEW s \in Servers, Exit(s) PROVE CInv'
  <2>1. /\ UNCHANGED <<pc, n, at, slot, files, sealed, spoilt>> /\ port' \in {port, NoOne}
    BY <1>3 DEF Exit, main, disk
  <2>2. port' # n' \/ port' = port
    BY <1>1, <2>1, Names
  <2> QED BY <2>1, <2>2 DEF CInv, Files, Links, SlotFrom, FileFrom, Reached, Sealed
<1>4. CASE OtherServer
  <2>1. /\ UNCHANGED <<pc, n, at, files, sealed, spoilt>> /\ port' \in {Foreign, NoOne}
    BY <1>4 DEF OtherServer, main, disk
  <2>2. port' # n'
    BY <1>1, <2>1, Names
  <2> QED BY <2>1, <2>2 DEF CInv, Files, Links, SlotFrom, FileFrom, Reached, Sealed
<1>5. CASE OtherRequest
  <2>1. UNCHANGED <<pc, n, at, port, files, sealed, spoilt>>
    BY <1>5 DEF OtherRequest, main, disk
  <2>2. PICK k \in 0 .. Len(slot.made) :
            slot' = [made |-> SubSeq(slot.made, 1, k), other |-> TRUE]
    BY <1>5 DEF OtherRequest
  <2>3. /\ Len(slot'.made) = k /\ \A p \in 1 .. k : slot'.made[p] = slot.made[p]
    BY <1>1, <2>2, AfterOther
  <2>4. \A p \in 1 .. k : p \in 1 .. Len(slot.made)
    BY <1>1, Made
  <2>5. From(n, slot.made, sealed, spoilt) => From(n, slot'.made, sealed, spoilt)
    BY <2>3, <2>4 DEF From
  <2> QED BY <2>1, <2>5 DEF CInv, Files, Links, SlotFrom, FileFrom, Reached, Sealed
<1>6. CASE Crash
  <2>1. UNCHANGED <<files, sealed, spoilt>> /\ pc' = "dead"
    BY <1>6 DEF Crash, disk
  <2> QED BY <2>1, ChainSame DEF SlotPc
<1> QED BY <1>2, <1>3, <1>4, <1>5, <1>6, DamageChain DEF Others

LEMMA MonitorChain == TInv /\ CInv /\ Monitor => CInv'
<1> SUFFICES ASSUME TInv, CInv, Monitor PROVE CInv'
  OBVIOUS
<1>1. n \in Servers
  BY DEF TInv, TypeOK, MainType
<1>2. UNCHANGED <<pc, n, at, slot, files, sealed, spoilt>>
  BY DEF Monitor, Sample, Violate, SampleLost, MonitorStop, main, os, disk
<1>3. port' = port \/ port' = NoOne
  BY DEF Monitor, Sample, Violate, SampleLost, MonitorStop, os
<1>4. port' # n' \/ port' = port
  BY <1>1, <1>2, <1>3, Names
<1> QED BY <1>2, <1>4 DEF CInv, Files, Links, SlotFrom, FileFrom, Reached, Sealed

LEMMA ChainStep == TInv /\ SInv /\ CInv /\ [Next]_vars => CInv'
<1> SUFFICES ASSUME TInv, SInv, CInv, [Next]_vars PROVE CInv'
  OBVIOUS
<1>1. CASE UNCHANGED vars
  <2>1. UNCHANGED <<pc, n, at, port, slot, files, sealed, spoilt>>
    BY <1>1 DEF vars, main, os, disk
  <2> QED BY <2>1 DEF CInv, Files, Links, SlotFrom, FileFrom, Reached, Sealed
<1> QED BY <1>1, BuildChain, ServerChain, MonitorChain, OthersChain DEF Next, Ended

LEMMA Chained == Spec => []CInv
BY ChainInit, ChainStep, Typed, Orders, PTL DEF Spec

\* A sealed stage holds what the stage before sealed, and its own chunks
\* behind it, unless the stage before was damaged on the disk.
THEOREM StageContinuesHolds == Spec => []StageContinues
<1>1. CInv => StageContinues
  <2> SUFFICES ASSUME CInv, NEW i \in 1 .. Last, Sealed(i), i - 1 \notin spoilt
               PROVE  /\ Len(sealed[i].made) = Bounds[i]
                      /\ \A p \in 1 .. Bounds[i] :
                            sealed[i].made[p] =
                               IF p <= Start(i) THEN sealed[i - 1].made[p] ELSE i
    BY DEF StageContinues
  <2>1. Len(sealed[i].made) = Bounds[i] /\ From(i, sealed[i].made, sealed, spoilt)
    BY DEF CInv, Files, Links
  <2>2. Start(i) \in Nat
    BY Ends
  <2>3. \A p \in 1 .. Bounds[i] : p <= Start(i) \/ p > Start(i)
    BY <2>2, Ends
  <2> QED BY <2>1, <2>3 DEF From
<1> QED BY <1>1, Chained, PTL

---------------------------------------------------------------------------
(* What a result says *)

Proving == pc \in {"proof", "rehash"} /\ Last \notin spoilt => revived = sealed[Last]
Proved  == /\ pc \in {"restored", "finish", "result"} => revived = sealed[Last]
           /\ pc \in {"close", "teardown"} /\ n = Restart /\ ~failing =>
                  revived = sealed[Last]
Kept    == result # "none" => pc = "end"
Passed  == result = "PASS" => revived = sealed[Last] /\ Sealed(Last) /\ violated = {}

RInv == Proving /\ Proved /\ Kept /\ Passed

LEMMA ResultInit == Init => RInv
BY DEF Init, RInv, Proving, Proved, Kept, Passed

\* Steps that touch neither results nor what was restored.
LEMMA ResultSame ==
    ASSUME RInv, UNCHANGED <<sealed, revived, result>>, violated' = violated,
           \/ UNCHANGED <<pc, n, failing>> /\ spoilt \subseteq spoilt'
           \/ /\ pc # "end"
              /\ pc' \notin {"proof", "rehash", "restored", "finish", "result"}
              /\ pc' \in {"close", "teardown"} => n' # Restart \/ failing'
    PROVE  RInv'
<1>1. CASE UNCHANGED <<pc, n, failing>> /\ spoilt \subseteq spoilt'
  BY <1>1 DEF RInv, Proving, Proved, Kept, Passed, Sealed
<1>2. CASE /\ pc # "end"
           /\ pc' \notin {"proof", "rehash", "restored", "finish", "result"}
           /\ pc' \in {"close", "teardown"} => n' # Restart \/ failing'
  <2>1. result = "none"
    BY <1>2 DEF RInv, Kept
  <2> QED BY <1>2, <2>1 DEF RInv, Proving, Proved, Kept, Passed
<1> QED BY <1>1, <1>2

LEMMA BuildResult == TInv /\ SInv /\ RInv /\ Build => RInv'
<1> SUFFICES ASSUME TInv, SInv, RInv, Build PROVE RInv'
  OBVIOUS
<1>1. CASE Allocate \/ AllocateFails \/ Probed \/ Select \/ RecordStage \/ Seal
           \/ BuildRaise \/ Handle \/ Report
  <2>1. /\ UNCHANGED <<sealed, revived, result>> /\ violated' = violated
        /\ pc' \in {"start", "report", "select", "handler", "seal", "end"}
    BY <1>1 DEF Allocate, AllocateFails, Probed, Select, RecordStage, Seal, BuildRaise,
                Handle, Report, Goto, disk, watch, proof
  <2>2. pc # "end"
    BY <1>1, PointFacts DEF Allocate, AllocateFails, Probed, Select, RecordStage, Seal,
                            BuildRaise, Handle, Report
  <2> QED BY <2>1, <2>2, ResultSame
<1>2. CASE Finish
  BY <1>2 DEF Finish, Goto, disk, watch, RInv, Proving, Proved, Kept, Passed
<1>3. CASE WriteResult
  <2>1. /\ pc = "result" /\ pc' = "end" /\ UNCHANGED <<n, sealed, revived, violated>>
        /\ result' = "PASS" => Healthy(Servers)
    BY <1>3 DEF WriteResult, Goto, disk, watch
  <2>2. n = Restart /\ Last \in 1 .. Last /\ Last < Restart
    BY <2>1, Numbers DEF TInv, Position
  <2>3. Sealed(Last)
    BY <2>2 DEF SInv, Behind
  <2>4. revived = sealed[Last]
    BY <2>1 DEF RInv, Proved
  <2>5. Healthy(Servers) => violated = {}
    BY DEF Healthy, TInv, TypeOK, WatchType
  <2> QED BY <2>1, <2>3, <2>4, <2>5 DEF RInv, Proving, Proved, Kept, Passed, Sealed
<1> QED BY <1>1, <1>2, <1>3 DEF Build

LEMMA ServerResult == TInv /\ SInv /\ CInv /\ RInv /\ Server => RInv'
<1> SUFFICES ASSUME TInv, SInv, CInv, RInv, Server PROVE RInv'
  OBVIOUS
<1>1. CASE StartServer \/ StartMonitor \/ Ready \/ SubmitElsewhere \/ AllSubmitted
           \/ SaveSlot \/ SaveDrifts
  <2>1. /\ UNCHANGED <<sealed, revived, result>> /\ violated' = violated /\ pc # "end"
        /\ pc' \notin {"proof", "rehash", "restored", "finish", "result"}
    BY <1>1 DEF StartServer, StartMonitor, Ready, SubmitElsewhere, AllSubmitted, SaveSlot,
                SaveDrifts, Goto, Abort, disk, watch, proof
  <2>2. pc' \in {"close", "teardown"} => failing'
    BY <1>1 DEF StartServer, StartMonitor, Ready, SubmitElsewhere, AllSubmitted, SaveSlot,
                SaveDrifts, Goto, Abort
  <2> QED BY <2>1, <2>2, ResultSame
<1>2. CASE SubmitChunk \/ ServerRaise
  <2>1. /\ UNCHANGED <<sealed, revived, result>> /\ violated' = violated /\ pc # "end"
        /\ pc' = "chunk" \/ (pc' = "close" /\ failing' = TRUE)
    BY <1>2, PointFacts DEF SubmitChunk, ServerRaise, Abort, disk, watch, proof
  <2> QED BY <2>1, ResultSame
<1>3. CASE Probe \/ CloseTimesOut
  <2>1. /\ UNCHANGED <<sealed, revived, result, n>> /\ violated' = violated /\ pc # "end"
        /\ pc' = "handler" \/ (pc' = "close" /\ n = 0)
    BY <1>3 DEF Probe, CloseTimesOut, Goto, disk, watch, proof, TInv, Position
  <2> QED BY <2>1, ResultSame, Numbers
<1>4. CASE RestoreSlot
  <2>1. /\ UNCHANGED <<sealed, result, n, spoilt>> /\ pc = "restore"
        /\ n = Restart => slot' = files[n - 1] /\ revived' = slot'
        /\ pc' = (IF n = Restart THEN "proof" ELSE "chunk")
    BY <1>4 DEF RestoreSlot, disk, proof
  <2>2. result = "none"
    BY <2>1 DEF RInv, Kept
  <2>3. Restart - 1 = Last /\ Last \in 1 .. Last /\ Last < Restart
    BY Numbers
  <2>4. n = Restart => Sealed(Last)
    BY <2>3 DEF SInv, Behind
  <2>5. n = Restart /\ Last \notin spoilt => revived' = sealed[Last]
    BY <2>1, <2>3, <2>4 DEF CInv, Files
  <2> QED BY <2>1, <2>2, <2>5 DEF RInv, Proving, Proved, Kept, Passed
<1>5. CASE PairGate
  <2>1. /\ UNCHANGED <<revived, result, n>> /\ pc = "gate" /\ pc' = "close"
    BY <1>5 DEF PairGate, Goto, proof
  <2>2. n # Restart
    BY <2>1, Numbers DEF TInv, Position
  <2>3. result = "none"
    BY <2>1 DEF RInv, Kept
  <2> QED BY <2>1, <2>2, <2>3 DEF RInv, Proving, Proved, Kept, Passed
<1>6. CASE RestartProof
  BY <1>6 DEF RestartProof, Goto, disk, proof, RInv, Proving, Proved, Kept, Passed
<1>7. CASE Rehash
  <2>1. /\ pc = "rehash" /\ pc' = "restored" /\ files[Last] = sealed[Last]
        /\ UNCHANGED <<sealed, revived, result>>
    BY <1>7 DEF Rehash, Goto, disk, proof
  <2>2. n = Restart /\ Last \in 1 .. Last /\ Last < Restart
    BY <2>1, Numbers DEF TInv, Position
  <2>3. Sealed(Last)
    BY <2>2 DEF SInv, Behind
  <2>4. Len(sealed[Last].made) = Bounds[Last] /\ From(Last, sealed[Last].made, sealed, spoilt)
    BY <2>2, <2>3 DEF CInv, Files, Links
  <2>5. sealed[Last].made[Bounds[Last]] = Last
    BY <2>2, <2>4, Ends DEF From
  <2>6. Last # Unknown
    BY <2>2, Numbers, Names
  <2>7. Last \notin spoilt
    BY <2>1, <2>2, <2>5, <2>6 DEF CInv, Files
  <2>8. result = "none"
    BY <2>1 DEF RInv, Kept
  <2> QED BY <2>1, <2>7, <2>8 DEF RInv, Proving, Proved, Kept, Passed
<1>8. CASE Restored
  BY <1>8 DEF Restored, Goto, disk, RInv, Proving, Proved, Kept, Passed
<1>9. CASE Close
  BY <1>9 DEF Close, Goto, disk, proof, RInv, Proving, Proved, Kept, Passed
<1>10. CASE TearDown
  <2>1. /\ pc = "teardown" /\ UNCHANGED <<sealed, revived, result, n>>
        /\ pc' \in {"probed", "handler", "record", "finish"}
        /\ pc' = "finish" => n = Restart /\ ~failing
    BY <1>10 DEF TearDown, disk, proof
  <2>2. result = "none"
    BY <2>1 DEF RInv, Kept
  <2> QED BY <2>1, <2>2 DEF RInv, Proving, Proved, Kept, Passed
<1> QED BY <1>1, <1>2, <1>3, <1>4, <1>5, <1>6, <1>7, <1>8, <1>9, <1>10 DEF Server

LEMMA MonitorResult == PInv /\ RInv /\ Monitor => RInv'
<1> SUFFICES ASSUME PInv, RInv, Monitor PROVE RInv'
  OBVIOUS
<1>1. /\ UNCHANGED <<pc, n, failing, sealed, spoilt, revived, result>> /\ mon # "off"
  BY DEF Monitor, Sample, Violate, SampleLost, MonitorStop, main, disk, proof
<1>2. pc # "end"
  BY <1>1 DEF PInv, Watch, WatchedPc
<1>3. result = "none"
  BY <1>2 DEF RInv, Kept
<1> QED BY <1>1, <1>3 DEF RInv, Proving, Proved, Kept, Passed

LEMMA OthersResult == RInv /\ Others => RInv'
<1> SUFFICES ASSUME RInv, Others PROVE RInv'
  OBVIOUS
<1>1. CASE Crash
  <2>1. /\ UNCHANGED <<sealed, revived, result>> /\ violated' = violated
        /\ pc' = "dead" /\ pc # "end"
    BY <1>1 DEF Crash, disk, proof
  <2> QED BY <2>1, ResultSame
<1>2. CASE ~Crash
  <2>1. /\ UNCHANGED <<pc, n, failing, sealed, revived, result>> /\ violated' = violated
        /\ spoilt \subseteq spoilt'
    BY <1>2 DEF Others, Bind, Exit, OtherServer, OtherRequest, Damage, main, watch, disk, proof
  <2> QED BY <2>1, ResultSame
<1> QED BY <1>1, <1>2

LEMMA ResultStep == TInv /\ PInv /\ SInv /\ CInv /\ RInv /\ [Next]_vars => RInv'
<1> SUFFICES ASSUME TInv, PInv, SInv, CInv, RInv, [Next]_vars PROVE RInv'
  OBVIOUS
<1>1. CASE UNCHANGED vars
  <2>1. UNCHANGED <<pc, n, failing, sealed, spoilt, revived, result>> /\ violated' = violated
    BY <1>1 DEF vars, main, disk, proof, watch
  <2> QED BY <2>1, ResultSame
<1> QED BY <1>1, BuildResult, ServerResult, MonitorResult, OthersResult DEF Next, Ended

LEMMA Results == Spec => []RInv
BY ResultInit, ResultStep, Typed, Processes, Orders, Chained, PTL DEF Spec

\* A build that can be loaded was restored by the last server exactly as its
\* last stage was sealed, and completely.
THEOREM LoadableWasRestoredHolds == Spec => []LoadableWasRestored
<1>1. CInv /\ RInv => LoadableWasRestored
  <2> SUFFICES ASSUME CInv, RInv, Loadable
               PROVE  revived = sealed[Last] /\ Len(revived.made) = Total
    BY DEF LoadableWasRestored
  <2>1. revived = sealed[Last] /\ Sealed(Last)
    BY DEF Loadable, RInv, Passed
  <2> QED BY <2>1, Numbers DEF CInv, Files, Total
<1> QED BY <1>1, Chained, Results, PTL

\* A build that can be loaded has no recorded violation.
THEOREM LoadableWasQuietHolds == Spec => []LoadableWasQuiet
<1>1. RInv => LoadableWasQuiet
  BY DEF RInv, Passed, Loadable, LoadableWasQuiet
<1> QED BY <1>1, Results, PTL
===========================================================================
