-------------------------- MODULE SlotChain_proofs --------------------------
(* Theorems about SlotChain, for any number of extensions, any corpus and any *)
(* runs whose pairs may change on the disk.                                   *)
EXTENDS SlotChain, OwnedSession_proofs

-----------------------------------------------------------------------------
(* Parameters, and what is written *)

LEMMA Numbers ==
    /\ MaxRun \in Nat /\ BaseTexts \in Nat \ {0} /\ Corpus \in Nat /\ BaseTexts <= Corpus
    /\ MaxGrow \in Nat /\ 0 \in Runs /\ Runs \subseteq Nat
    /\ \A r \in Runs : First(r) \in Servers /\ Second(r) \in Servers /\ First(r) # Second(r)
BY ChainAssumption, Numbered DEF Runs, First, Second, Servers

OutcomeType == [status : Statuses, source : Runs, texts : Seq(Nat), offset : Nat,
                pin : Content, revived : Content]

ScriptOK ==
    /\ run \in Runs /\ pc \in Points /\ second \in BOOLEAN /\ source \in Runs
    /\ goal \in Seq(Nat) /\ offset \in Nat /\ at \in Nat /\ exact \in BOOLEAN
DiskOK ==
    /\ results \in [Runs -> OutcomeType] /\ files \in [Runs -> Content]
    /\ spoilt \subseteq Runs /\ reporting \subseteq Runs
Held == session # NoOne => session = Here

\* The types, but for the bounds that the corpus sets.
TInv == OwnTypeOK /\ ScriptOK /\ DiskOK /\ Held

LEMMA OutcomeParts ==
    ASSUME NEW result \in OutcomeType
    PROVE  /\ result.status \in Statuses /\ result.source \in Runs /\ result.texts \in Seq(Nat)
           /\ result.offset \in Nat /\ result.pin \in Content /\ result.revived \in Content
BY DEF OutcomeType

LEMMA NoResultParts ==
    /\ NoResult \in OutcomeType /\ NoResult.status = "none" /\ NoResult.pin = Absent
    /\ NoResult.texts = <<>> /\ NoResult.offset = 0
    /\ \A status \in Statuses : [NoResult EXCEPT !.status = status] \in OutcomeType
    /\ \A status : /\ [NoResult EXCEPT !.status = status].status = status
                   /\ [NoResult EXCEPT !.status = status].pin = Absent
                   /\ [NoResult EXCEPT !.status = status].texts = <<>>
                   /\ [NoResult EXCEPT !.status = status].offset = 0
<1> DEFINE given(status) == [NoResult EXCEPT !.status = status]
<1>1. \A status : given(status) = [status |-> status, source |-> 0, texts |-> <<>>, offset |-> 0,
                                  pin |-> Absent, revived |-> Absent]
  BY DEF NoResult
<1>2. NoResult = given("none")
  BY <1>1 DEF NoResult
<1> HIDE DEF given
<1>3. \A status \in Statuses : given(status) \in OutcomeType
  <2>1. <<>> \in Seq(Nat) /\ 0 \in Runs /\ Absent \in Content
    BY Numbers, NoPieces
  <2> QED BY <1>1, <2>1 DEF OutcomeType
<1>4. "none" \in Statuses
  BY DEF Statuses
<1> QED BY <1>1, <1>2, <1>3, <1>4 DEF given

LEMMA DiskParts ==
    ASSUME DiskOK, NEW r \in Runs
    PROVE  results[r] \in OutcomeType /\ files[r] \in Content
BY DEF DiskOK

\* What a verdict leaves in its run's result.
LEMMA VerdictParts ==
    ASSUME ScriptOK, DiskOK, NEW status \in Statuses, Verdict(status)
    PROVE  /\ results' \in [Runs -> OutcomeType]
           /\ \A r \in Runs : r # run => results'[r] = results[r]
           /\ results'[run].status = status
           /\ status = "PASS" =>
                 /\ results'[run].texts = goal /\ results'[run].source = source
                 /\ results'[run].offset = offset /\ results'[run].pin = results[run].pin
                 /\ results'[run].revived = results[run].revived
           /\ status # "PASS" =>
                 /\ results'[run].pin = Absent /\ results'[run].texts = <<>>
                 /\ results'[run].offset = 0
<1>1. run \in Runs /\ results[run] \in OutcomeType
  BY DEF ScriptOK, DiskOK
<1>2. CASE status = "PASS"
  <2> DEFINE new == [results[run] EXCEPT !.status = status, !.texts = goal, !.source = source,
                                         !.offset = offset]
  <2>1. results' = [results EXCEPT ![run] = new]
    BY <1>2 DEF Verdict
  <2>2. /\ new \in OutcomeType /\ new.status = status /\ new.texts = goal /\ new.source = source
        /\ new.offset = offset /\ new.pin = results[run].pin /\ new.revived = results[run].revived
    BY <1>1 DEF OutcomeType, ScriptOK
  <2> HIDE DEF new
  <2> QED BY <1>1, <1>2, <2>1, <2>2 DEF DiskOK
<1>3. CASE status # "PASS"
  <2>1. results' = [results EXCEPT ![run] = [NoResult EXCEPT !.status = status]]
    BY <1>3 DEF Verdict
  <2> QED BY <1>1, <1>3, <2>1, NoResultParts DEF DiskOK
<1> QED BY <1>2, <1>3

LEMMA NoVerdictParts ==
    ASSUME ScriptOK, DiskOK, NoVerdict
    PROVE  /\ results' \in [Runs -> OutcomeType]
           /\ \A r \in Runs : r # run => results'[r] = results[r]
           /\ results'[run] = IF results[run].status = "none" THEN NoResult ELSE results[run]
BY NoResultParts DEF NoVerdict, ScriptOK, DiskOK

\* What the steps that write into a result leave as it was.
LEMMA PinBaseParts ==
    ASSUME ScriptOK, DiskOK, PinBase
    PROVE  /\ results' \in [Runs -> OutcomeType] /\ 0 \in Runs
           /\ \A r \in Runs : r # 0 => results'[r] = results[r]
           /\ results'[0].status = results[0].status /\ results'[0].texts = results[0].texts
           /\ results'[0].source = results[0].source /\ results'[0].offset = results[0].offset
           /\ results'[0].pin = files[0] /\ results'[0].revived = results[0].revived
<1> DEFINE new == [results[0] EXCEPT !.pin = files[0]]
<1>1. 0 \in Runs /\ results \in [Runs -> OutcomeType] /\ results[0] \in OutcomeType /\ files[0] \in Content
  BY Numbers DEF DiskOK
<1>2. results' = [results EXCEPT ![0] = new]
  BY DEF PinBase
<1>3. /\ new \in OutcomeType /\ new.source = results[0].source /\ new.offset = results[0].offset
      /\ new.status = results[0].status /\ new.texts = results[0].texts
      /\ new.pin = files[0] /\ new.revived = results[0].revived
  BY <1>1 DEF OutcomeType
<1> HIDE DEF new
<1> QED BY <1>1, <1>2, <1>3

LEMMA ParseSavedParts ==
    ASSUME ScriptOK, DiskOK, ParseSaved
    PROVE  /\ results' \in [Runs -> OutcomeType]
           /\ \A r \in Runs : r # run => results'[r] = results[r]
           /\ results'[run].status = results[run].status /\ results'[run].texts = goal
           /\ results'[run].source = results[run].source
           /\ results'[run].offset = results[run].offset
           /\ results'[run].pin = files[run] /\ results'[run].revived = results[run].revived
<1> DEFINE new == [results[run] EXCEPT !.pin = files[run], !.texts = goal]
<1>1. /\ run \in Runs /\ results \in [Runs -> OutcomeType] /\ results[run] \in OutcomeType
      /\ files[run] \in Content /\ goal \in Seq(Nat)
  BY DEF ScriptOK, DiskOK
<1>2. results' = [results EXCEPT ![run] = new]
  BY <1>1 DEF ParseSaved
<1>3. /\ new \in OutcomeType /\ new.source = results[run].source /\ new.offset = results[run].offset
      /\ new.status = results[run].status /\ new.texts = goal
      /\ new.pin = files[run] /\ new.revived = results[run].revived
  BY <1>1 DEF OutcomeType
<1> HIDE DEF new
<1> QED BY <1>1, <1>2, <1>3

LEMMA RestoreAgainParts ==
    ASSUME ScriptOK, DiskOK, slot' \in Content, RestoreAgain
    PROVE  /\ results' \in [Runs -> OutcomeType]
           /\ \A r \in Runs : r # run => results'[r] = results[r]
           /\ results'[run].status = results[run].status /\ results'[run].texts = results[run].texts
           /\ results'[run].source = results[run].source
           /\ results'[run].offset = results[run].offset
           /\ results'[run].pin = results[run].pin /\ results'[run].revived = slot'
<1> DEFINE new == [results[run] EXCEPT !.revived = slot']
<1>1. run \in Runs /\ results \in [Runs -> OutcomeType] /\ results[run] \in OutcomeType
  BY DEF ScriptOK, DiskOK
<1>2. results' = [results EXCEPT ![run] = new]
  BY DEF RestoreAgain
<1>3. /\ new \in OutcomeType /\ new.source = results[run].source /\ new.offset = results[run].offset
      /\ new.status = results[run].status /\ new.texts = results[run].texts
      /\ new.pin = results[run].pin /\ new.revived = slot'
  BY <1>1 DEF OutcomeType
<1> HIDE DEF new
<1> QED BY <1>1, <1>2, <1>3

LEMMA ReportRaisesParts ==
    ASSUME DiskOK, NEW r \in Runs, ReportRaises(r)
    PROVE  /\ results' \in [Runs -> OutcomeType]
           /\ \A q \in Runs : q # r => results'[q] = results[q]
           /\ results'[r].status = "FAILED" /\ results'[r].texts = results[r].texts
           /\ results'[r].source = results[r].source /\ results'[r].offset = results[r].offset
           /\ results'[r].pin = results[r].pin /\ results'[r].revived = results[r].revived
<1> DEFINE new == [results[r] EXCEPT !.status = "FAILED"]
<1>1. results \in [Runs -> OutcomeType] /\ results[r] \in OutcomeType
  BY DEF DiskOK
<1>2. results' = [results EXCEPT ![r] = new]
  BY DEF ReportRaises
<1>3. /\ new \in OutcomeType /\ new.source = results[r].source /\ new.offset = results[r].offset
      /\ new.status = "FAILED" /\ new.texts = results[r].texts
      /\ new.pin = results[r].pin /\ new.revived = results[r].revived
  BY <1>1 DEF OutcomeType, Statuses
<1> HIDE DEF new
<1> QED BY <1>1, <1>2, <1>3

-----------------------------------------------------------------------------
(* The vectors a script works on *)

LEMMA SourceContentParts ==
    /\ SourceContent \in Seq(Nat) /\ Len(SourceContent) = BaseTexts
    /\ \A i \in 1 .. BaseTexts : SourceContent[i] = i
BY Numbers DEF SourceContent

LEMMA PrefixOfGoal ==
    ASSUME ScriptOK, NEW n \in 0 .. Len(goal)
    PROVE  /\ Prefix(n) \in Seq(Nat) /\ Len(Prefix(n)) = n
           /\ \A i \in 1 .. n : Prefix(n)[i] = goal[i]
BY DEF Prefix, ScriptOK

LEMMA Joined ==
    ASSUME NEW s \in Seq(Nat), NEW t \in Seq(Nat)
    PROVE  /\ s \o t \in Seq(Nat) /\ Len(s \o t) = Len(s) + Len(t)
           /\ \A i \in 1 .. Len(s) : (s \o t)[i] = s[i]
           /\ \A i \in 1 .. Len(t) : (s \o t)[Len(s) + i] = t[i]
<1>1. s \o t \in Seq(Nat) /\ Len(s \o t) = Len(s) + Len(t) /\ Len(s) \in Nat /\ Len(t) \in Nat
  OBVIOUS
<1>2. \A i \in 1 .. Len(s) + Len(t) : (s \o t)[i] = IF i <= Len(s) THEN s[i] ELSE t[i - Len(s)]
  OBVIOUS
<1>3. \A i \in 1 .. Len(t) : /\ Len(s) + i \in 1 .. Len(s) + Len(t) /\ ~(Len(s) + i <= Len(s))
                             /\ (Len(s) + i) - Len(s) = i
  BY <1>1
<1> QED BY <1>1, <1>2, <1>3

LEMMA ExtensionParts ==
    ASSUME ScriptOK, DiskOK, NEW n \in Nat
    PROVE  /\ LiteralExtension(n) \in Seq(Nat)
           /\ Len(LiteralExtension(n)) = Len(results[source].pin.held) + n
           /\ \A i \in 1 .. Len(results[source].pin.held) :
                 LiteralExtension(n)[i] = results[source].pin.held[i].text
           /\ \A i \in 1 .. n :
                 LiteralExtension(n)[Len(results[source].pin.held) + i] = offset + i
<1> DEFINE old == Texts(results[source].pin)
           new == [i \in 1 .. n |-> offset + i]
<1>1. results[source].pin \in Content
  BY OutcomeParts DEF ScriptOK, DiskOK
<1>2. /\ old \in Seq(Nat) /\ Len(old) = Len(results[source].pin.held) /\ Len(old) \in Nat
      /\ \A i \in 1 .. Len(old) : old[i] = results[source].pin.held[i].text
  BY <1>1, TextsParts
<1>3. offset \in Nat
  BY DEF ScriptOK
<1>4. new \in Seq(Nat) /\ Len(new) = n /\ \A i \in 1 .. n : new[i] = offset + i
  BY <1>3
<1>5. LiteralExtension(n) = old \o new
  BY DEF LiteralExtension
<1> HIDE DEF old, new
<1>6. /\ old \o new \in Seq(Nat) /\ Len(old \o new) = Len(old) + n
      /\ \A i \in 1 .. Len(old) : (old \o new)[i] = old[i]
      /\ \A i \in 1 .. n : (old \o new)[Len(old) + i] = new[i]
  BY <1>2, <1>4, Joined
<1> QED BY <1>2, <1>4, <1>5, <1>6

-----------------------------------------------------------------------------
(* Types *)

LEMMA HereParts == ASSUME ScriptOK PROVE Here \in Servers /\ Here # NoOne
BY Numbers, Numbered DEF Here, ScriptOK

LEMMA TypeInit == Init => TInv
<1> SUFFICES ASSUME Init PROVE TInv
  OBVIOUS
<1>1. OwnTypeOK
  BY NoPieces, Numbered DEF Init, OwnInit, OwnTypeOK
<1>2. ScriptOK
  BY Numbers DEF Init, ScriptOK, Points
<1>3. DiskOK
  BY NoPieces, NoResultParts DEF Init, DiskOK
<1> QED BY <1>1, <1>2, <1>3 DEF TInv, Held, Init, OwnInit

\* A step of the script that leaves its server and the disk alone.
LEMMA TypeScript ==
    ASSUME TInv, UNCHANGED <<disk, reporting, own>>,
           \/ ProbeBegin \/ OfflineCheck \/ ExtendPreflight \/ Ready \/ ProbePlan \/ StepsDone
           \/ ProbeReport \/ Raise
           \/ \E r \in Runs : ReadSource(r)
           \/ \E n, m \in 1 .. MaxGrow + 1 : n <= MaxGrow /\ ExtendPlan(n, m)
    PROVE  TInv'
<1>1. OwnTypeOK' /\ DiskOK'
  BY DEF TInv, own, OwnTypeOK, disk, DiskOK
<1>2. Held'
  <2>1. UNCHANGED <<session, run, second>>
    BY DEF own, ProbeBegin, OfflineCheck, ExtendPreflight, Ready, ProbePlan, StepsDone, ProbeReport,
           Raise, ReadSource, ExtendPlan, Goto
  <2> QED BY <2>1 DEF TInv, Held, Here
<1>3. ASSUME NEW n \in 1 .. MaxGrow + 1, NEW m \in 1 .. MaxGrow + 1, ExtendPlan(n, m)
      PROVE  ScriptOK'
  <2>1. /\ results[source].pin \in Content
        /\ Len(results[source].pin.held) \in Nat /\ LiteralExtension(n) \in Seq(Nat)
    BY ExtensionParts, OutcomeParts, ContentParts DEF TInv, ScriptOK, DiskOK
  <2> QED BY <1>3, <2>1 DEF TInv, ScriptOK, ExtendPlan, Points
<1>4. ASSUME OfflineCheck PROVE ScriptOK'
  <2>1. SourceOffset(source) \in Nat
    BY Numbers, OutcomeParts DEF TInv, ScriptOK, DiskOK, SourceOffset
  <2> QED BY <1>4, <2>1 DEF TInv, ScriptOK, OfflineCheck, Points
<1>5. ASSUME \/ ProbeBegin \/ ExtendPreflight \/ Ready \/ ProbePlan \/ StepsDone \/ ProbeReport
             \/ Raise \/ \E r \in Runs : ReadSource(r)
      PROVE  ScriptOK'
  BY <1>5, SourceContentParts
     DEF TInv, ScriptOK, Goto, ProbeBegin, ExtendPreflight, Ready, ProbePlan, StepsDone, ProbeReport,
         Raise, ReadSource, Points
<1>6. ScriptOK'
  BY <1>3, <1>4, <1>5
<1> QED BY <1>1, <1>2, <1>6 DEF TInv

\* A step of a server's life, or of its answers.
LEMMA TypeServer ==
    ASSUME TInv, UNCHANGED disk, UNCHANGED reporting,
           \/ Launch \/ LaunchFails \/ ProbeClose \/ ExtendClose \/ RaiseInClose \/ ProbeFinally
           \/ ExtendRestore \/ ProbeStep \/ ExtendStep \/ Query
    PROVE  TInv'
<1>1. DiskOK'
  BY DEF TInv, disk, DiskOK
<1>2. CASE Launch \/ LaunchFails
  <2>1. OwnTypeOK' /\ session' \in {session, Here}
    BY <1>2, HereParts, LaunchStep DEF TInv, Launch, LaunchFails
  <2>2. ScriptOK' /\ UNCHANGED <<run, second>>
    BY <1>2 DEF TInv, ScriptOK, Launch, LaunchFails, Goto, Points
  <2> QED BY <1>1, <2>1, <2>2 DEF TInv, Held, Here
<1>3. CASE ProbeClose \/ ExtendClose
  <2>1. OwnTypeOK' /\ session' = NoOne
    BY <1>3, CloseStep DEF TInv, ProbeClose, ExtendClose, Close
  <2>2. ScriptOK'
    BY <1>3 DEF TInv, ScriptOK, ProbeClose, ExtendClose, Points
  <2> QED BY <1>1, <2>1, <2>2 DEF TInv, Held
<1>4. CASE RaiseInClose \/ ProbeFinally
  <2>1. OwnTypeOK' /\ session' \in {session, NoOne}
    BY <1>4, CloseStep DEF TInv, RaiseInClose, ProbeFinally, own, OwnTypeOK
  <2>2. ScriptOK' /\ UNCHANGED <<run, second>>
    BY <1>4 DEF TInv, ScriptOK, RaiseInClose, ProbeFinally, Goto, Points
  <2> QED BY <1>1, <2>1, <2>2 DEF TInv, Held, Here
<1>5. CASE ExtendRestore
  <2>1. OwnTypeOK' /\ session' = session
    BY <1>5, RestoreStep, DiskParts DEF TInv, ExtendRestore, ScriptOK
  <2>2. ScriptOK' /\ UNCHANGED <<run, second>>
    BY <1>5 DEF TInv, ScriptOK, ExtendRestore, Goto, Points
  <2> QED BY <1>1, <2>1, <2>2 DEF TInv, Held, Here
<1>6. CASE ProbeStep \/ ExtendStep
  <2>1. at \in Nat /\ Len(goal) \in Nat /\ at < Len(goal)
    BY <1>6 DEF TInv, ScriptOK, ProbeStep, ExtendStep
  <2>2. Prefix(at + 1) \in Seq(Nat)
    BY <2>1, PrefixOfGoal DEF TInv
  <2>3. PICK c \in 0 .. at + 1 : CompletePrefix(Prefix(at + 1), c)
    BY <1>6 DEF ProbeStep, ExtendStep
  <2>4. OwnTypeOK' /\ session' = session
    BY <2>1, <2>2, <2>3, PrefixStep DEF TInv
  <2>5. exact' \in BOOLEAN
    BY <1>6 DEF TInv, ScriptOK, ProbeStep, ExtendStep
  <2>6. pc' \in Points /\ at' \in Nat /\ UNCHANGED <<run, second, source, goal, offset>>
    BY <1>6, <2>1 DEF TInv, ScriptOK, ProbeStep, ExtendStep, Points
  <2>7. ScriptOK' /\ UNCHANGED <<run, second>>
    BY <2>5, <2>6 DEF TInv, ScriptOK
  <2> QED BY <1>1, <2>4, <2>7 DEF TInv, Held, Here
<1>7. CASE Query
  <2>1. goal \in Seq(Nat) /\ Len(goal) \in Nat
    BY DEF TInv, ScriptOK
  <2>2. PICK c \in 0 .. Len(goal) : CompleteQuery(goal, c)
    BY <1>7 DEF Query
  <2>3. OwnTypeOK' /\ session' = session
    BY <2>1, <2>2, QueryStep DEF TInv
  <2>4. ScriptOK' /\ UNCHANGED <<run, second>>
    BY <1>7, <2>1 DEF TInv, ScriptOK, Query, Points
  <2> QED BY <1>1, <2>3, <2>4 DEF TInv, Held, Here
<1> QED BY <1>2, <1>3, <1>4, <1>5, <1>6, <1>7

\* A step that writes a pair or a result.
LEMMA TypeDisk ==
    ASSUME TInv,
           \/ PinBase \/ CopyPair \/ ProbeSave \/ ExtendSave \/ ParseSaved \/ RestoreAgain
           \/ ProbeGate \/ ExtendGate \/ ProbeHandler \/ ExtendHandler
           \/ \E r \in Runs : ReportDone(r) \/ ReportRaises(r) \/ Damage(r)
    PROVE  TInv'
<1>1. /\ run \in Runs /\ source \in Runs /\ 0 \in Runs /\ goal \in Seq(Nat) /\ slot \in Content
      /\ files \in [Runs -> Content] /\ results \in [Runs -> OutcomeType]
      /\ spoilt \subseteq Runs /\ reporting \subseteq Runs
  BY Numbers DEF TInv, ScriptOK, DiskOK, OwnTypeOK
<1>2. CASE CopyPair
  <2>1. ScriptOK' /\ UNCHANGED <<run, second, own>>
    BY <1>2 DEF TInv, ScriptOK, CopyPair, Goto, Points
  <2>2. DiskOK'
    BY <1>1, <1>2 DEF CopyPair, DiskOK
  <2> QED BY <2>1, <2>2 DEF TInv, Held, Here, own, OwnTypeOK
<1>3. CASE ProbeSave \/ ExtendSave
  <2>1. UNCHANGED <<run, second, own, source, goal, offset, at>>
    BY <1>3 DEF ProbeSave, ExtendSave, SavesFile, Goto
  <2>2. exact' \in BOOLEAN
    BY <1>3 DEF TInv, ScriptOK, ProbeSave, ExtendSave, Goto
  <2>3. pc' \in Points
    BY <1>3 DEF ProbeSave, ExtendSave, Goto, Points
  <2>4. DiskOK'
    BY <1>1, <1>3 DEF ProbeSave, ExtendSave, SavesFile, DiskOK
  <2> QED BY <2>1, <2>2, <2>3, <2>4 DEF TInv, Held, Here, own, OwnTypeOK, ScriptOK
<1>4. CASE ParseSaved \/ PinBase
  <2>1. ScriptOK' /\ UNCHANGED <<run, second, own>>
    BY <1>4 DEF TInv, ScriptOK, ParseSaved, PinBase, script, Goto, Points
  <2>2. results' \in [Runs -> OutcomeType]
    BY <1>4, ParseSavedParts, PinBaseParts DEF TInv
  <2> QED BY <1>1, <1>4, <2>1, <2>2 DEF TInv, Held, Here, own, OwnTypeOK, DiskOK, ParseSaved, PinBase
<1>5. CASE RestoreAgain
  <2>1. OwnTypeOK' /\ session' = session
    BY <1>1, <1>5, RestoreStep DEF TInv, RestoreAgain
  <2>2. results' \in [Runs -> OutcomeType]
    <3>1. slot' \in Content
      BY <2>1 DEF OwnTypeOK
    <3> QED BY <1>5, <3>1, RestoreAgainParts DEF TInv
  <2>3. exact' \in BOOLEAN
    BY <1>5 DEF TInv, ScriptOK, RestoreAgain
  <2>4. UNCHANGED <<run, second, source, goal, offset, at>> /\ pc' \in Points
    BY <1>5 DEF RestoreAgain, Points
  <2>5. DiskOK'
    BY <1>1, <1>5, <2>2 DEF RestoreAgain, DiskOK
  <2> QED BY <2>1, <2>3, <2>4, <2>5 DEF TInv, Held, Here, ScriptOK
<1>6. CASE ProbeGate \/ ExtendGate \/ ProbeHandler \/ ExtendHandler
  <2>1. {"PASS", "BLOCKED", "FAILED"} \subseteq Statuses
    BY DEF Statuses
  <2>2. results' \in [Runs -> OutcomeType]
    BY <1>6, <2>1, VerdictParts, NoVerdictParts
       DEF TInv, ProbeGate, ExtendGate, ProbeHandler, ExtendHandler
  <2>3. UNCHANGED <<run, second>> /\ ScriptOK'
    BY <1>6 DEF TInv, ScriptOK, ProbeGate, ExtendGate, ProbeHandler, ExtendHandler, Goto, Points
  <2>4. OwnTypeOK' /\ session' \in {session, NoOne}
    BY <1>6, CloseStep DEF TInv, ProbeGate, ExtendGate, ProbeHandler, ExtendHandler, own, OwnTypeOK
  <2>5. DiskOK'
    BY <1>1, <1>6, <2>2 DEF DiskOK, ProbeGate, ExtendGate, ProbeHandler, ExtendHandler
  <2> QED BY <2>3, <2>4, <2>5 DEF TInv, Held, Here
<1>7. ASSUME NEW r \in Runs, ReportDone(r) \/ ReportRaises(r) \/ Damage(r)
      PROVE  TInv'
  <2>1. ScriptOK' /\ UNCHANGED <<run, second, own>>
    BY <1>7 DEF TInv, ScriptOK, ReportDone, ReportRaises, Damage, script
  <2>2. CASE ReportDone(r)
    BY <1>1, <2>1, <2>2 DEF TInv, Held, Here, own, OwnTypeOK, DiskOK, ReportDone, disk
  <2>3. CASE ReportRaises(r)
    <3>1. results' \in [Runs -> OutcomeType]
      BY <2>3, ReportRaisesParts DEF TInv
    <3> QED BY <1>1, <2>1, <2>3, <3>1 DEF TInv, Held, Here, own, OwnTypeOK, DiskOK, ReportRaises
  <2>4. CASE Damage(r)
    <3>1. Spoil(files[r]) \in Content
      BY <1>1, SpoilParts
    <3> QED BY <1>1, <2>1, <2>4, <3>1 DEF TInv, Held, Here, own, OwnTypeOK, DiskOK, Damage
  <2> QED BY <1>7, <2>2, <2>3, <2>4
<1> QED BY <1>2, <1>3, <1>4, <1>5, <1>6, <1>7

LEMMA TypeAround ==
    ASSUME TInv, NextRun \/ (Environment /\ UNCHANGED <<script, disk, reporting>>) \/ UNCHANGED vars
    PROVE  TInv'
<1>1. CASE NextRun
  <2>1. run' \in Runs
    BY <1>1, Numbers DEF NextRun, TInv, ScriptOK, Runs
  <2>2. 0 \in Runs /\ 0 \in Nat /\ <<>> \in Seq(Nat) /\ "begin" \in Points
    BY Numbers DEF Points
  <2>3. ScriptOK'
    BY <1>1, <2>1, <2>2 DEF NextRun, ScriptOK
  <2> QED BY <1>1, <2>3 DEF NextRun, TInv, Held, OwnTypeOK, DiskOK, disk
<1>2. CASE Environment /\ UNCHANGED <<script, disk, reporting>>
  <2>1. OwnTypeOK' /\ session' = session
    BY <1>2, EnvironmentStep DEF TInv
  <2> QED BY <1>2, <2>1 DEF TInv, ScriptOK, DiskOK, Held, Here, script, disk
<1>3. CASE UNCHANGED vars
  BY <1>3 DEF TInv, OwnTypeOK, ScriptOK, DiskOK, Held, Here, vars, script, disk, own
<1> QED BY <1>1, <1>2, <1>3

\* The same steps, in the groups that the proofs take them by.
LEMMA Steps ==
    ASSUME [Next]_vars
    PROVE  \/ /\ UNCHANGED <<disk, reporting, own>>
              /\ \/ ProbeBegin \/ OfflineCheck \/ ExtendPreflight \/ Ready \/ ProbePlan \/ StepsDone
                 \/ ProbeReport \/ Raise
                 \/ \E r \in Runs : ReadSource(r)
                 \/ \E n, m \in 1 .. MaxGrow + 1 : n <= MaxGrow /\ ExtendPlan(n, m)
           \/ /\ UNCHANGED disk /\ UNCHANGED reporting
              /\ \/ Launch \/ LaunchFails \/ ProbeClose \/ ExtendClose \/ RaiseInClose
                 \/ ProbeFinally \/ ExtendRestore \/ ProbeStep \/ ExtendStep \/ Query
           \/ PinBase \/ CopyPair \/ ProbeSave \/ ExtendSave \/ ParseSaved \/ RestoreAgain
           \/ ProbeGate \/ ExtendGate \/ ProbeHandler \/ ExtendHandler
           \/ \E r \in Runs : ReportDone(r) \/ ReportRaises(r) \/ Damage(r)
           \/ NextRun
           \/ Environment /\ UNCHANGED <<script, disk, reporting>>
           \/ UNCHANGED vars
<1>1. CASE Script
  BY <1>1 DEF Script, ProbeBegin, OfflineCheck, ExtendPreflight, Ready, ProbePlan, StepsDone,
       ProbeReport, Raise, ReadSource, ExtendPlan, Launch, LaunchFails, ProbeClose, ExtendClose,
       RaiseInClose, ProbeFinally, ExtendRestore, ProbeStep, ExtendStep, Query
<1>2. CASE AllDone
  BY <1>2 DEF AllDone
<1> QED BY <1>1, <1>2 DEF Next

LEMMA TypeStep == TInv /\ [Next]_vars => TInv'
BY Steps, TypeScript, TypeServer, TypeDisk, TypeAround


-----------------------------------------------------------------------------
(* Who writes which result and which pair *)

\* A result that keeps what it says, but that the base is pinned and that a
\* report may still fail.
Kept(r) ==
    /\ results'[r].texts = results[r].texts /\ results'[r].source = results[r].source
    /\ results'[r].offset = results[r].offset /\ results'[r].revived = results[r].revived
    /\ results'[r].pin = results[r].pin \/ (r = 0 /\ PinBase /\ results'[r].pin = files[0])
    /\ results'[r].status = results[r].status
          \/ (r \in reporting /\ r \notin reporting' /\ results'[r].status = "FAILED")

Writes == ParseSaved \/ RestoreAgain \/ ProbeGate \/ ExtendGate \/ ProbeHandler \/ ExtendHandler

LEMMA ResultsKept ==
    ASSUME TInv, TInv', [Next]_vars, NEW r \in Runs, r # run \/ ~Writes
    PROVE  Kept(r)
<1>1. CASE UNCHANGED results
  BY <1>1 DEF Kept
<1>2. CASE PinBase
  BY <1>2, PinBaseParts DEF TInv, Kept
<1>3. CASE \E q \in Runs : ReportRaises(q)
  <2>1. PICK q \in Runs : ReportRaises(q)
    BY <1>3
  <2>2. q \in reporting /\ q \notin reporting'
    BY <2>1 DEF ReportRaises
  <2> QED BY <2>1, <2>2, ReportRaisesParts DEF TInv, Kept
<1>4. CASE Writes /\ r # run
  <2>1. results'[r] = results[r]
    <3>1. slot' \in Content
      BY DEF TInv, OwnTypeOK
    <3>2. {"PASS", "BLOCKED", "FAILED"} \subseteq Statuses
      BY DEF Statuses
    <3>3. CASE ParseSaved
      BY <1>4, <3>3, ParseSavedParts DEF TInv
    <3>4. CASE RestoreAgain
      BY <1>4, <3>1, <3>4, RestoreAgainParts DEF TInv
    <3>5. CASE NoVerdict
      BY <1>4, <3>5, NoVerdictParts DEF TInv
    <3>6. ASSUME NEW status \in {"PASS", "BLOCKED", "FAILED"}, Verdict(status)
          PROVE  results'[r] = results[r]
      BY <1>4, <3>2, <3>6, VerdictParts DEF TInv
    <3> QED BY <1>4, <3>3, <3>4, <3>5, <3>6
            DEF Writes, ProbeGate, ExtendGate, ProbeHandler, ExtendHandler
  <2> QED BY <2>1 DEF Kept
<1>5. UNCHANGED results \/ PinBase \/ Writes \/ \E q \in Runs : ReportRaises(q)
  BY Steps DEF Writes, disk, CopyPair, ProbeSave, ExtendSave, SavesFile, ReportDone, Damage, NextRun, vars
<1> QED BY <1>1, <1>2, <1>3, <1>4, <1>5

LEMMA FilesKept ==
    ASSUME TInv, [Next]_vars, NEW r \in Runs
    PROVE  /\ spoilt \subseteq spoilt'
           /\ \/ files'[r] = files[r]
              \/ r = run /\ (CopyPair \/ ProbeSave \/ ExtendSave)
              \/ Damage(r) /\ r \in spoilt' /\ files'[r] = Spoil(files[r])
<1>1. CASE UNCHANGED <<files, spoilt>>
  BY <1>1
<1>2. CASE \E q \in Runs : Damage(q)
  <2>1. PICK q \in Runs : Damage(q)
    BY <1>2
  <2> QED BY <2>1 DEF Damage, TInv, DiskOK
<1>3. CASE CopyPair \/ ProbeSave \/ ExtendSave
  BY <1>3 DEF CopyPair, ProbeSave, ExtendSave, SavesFile, TInv, ScriptOK, DiskOK
<1>4. \/ UNCHANGED <<files, spoilt>> \/ CopyPair \/ ProbeSave \/ ExtendSave \/ \E q \in Runs : Damage(q)
  BY Steps DEF disk, PinBase, ParseSaved, RestoreAgain, ProbeGate, ExtendGate, ProbeHandler,
               ExtendHandler, ReportDone, ReportRaises, NextRun, vars
<1> QED BY <1>1, <1>2, <1>3, <1>4

-----------------------------------------------------------------------------
(* The order of a run, and what is written once *)

\* Where the script is, told by its server: still without a vector to save,
\* with one, with its file saved, and behind the restore of that file.
Bare      == ~second /\ pc \in {"preflight", "launch", "ready", "plan"}
AfterSave == pc \in {"query", "close", "gate"} \/ (second /\ pc \in {"launch", "ready", "restore"})
HasGoal   == AfterSave \/ pc \in {"restore", "step", "save", "parse"}
Revived   == second /\ pc \in {"query", "close", "gate"}

\* A result that a later run may resume: written, and with its pair pinned.
Whole(r) == results[r].status # "none" /\ results[r].pin # Absent

Turns ==
    /\ second => pc \in {"launch", "ready", "restore", "query", "close", "gate", "report",
                         "handler", "finally", "end"}
    /\ ~second => pc \notin {"gate", "report"}
    /\ run = 0 => pc \notin {"offline", "copy", "preflight", "parse"}
    /\ run = 0 /\ pc = "restore" => second
    /\ run > 0 => pc \notin {"report", "finally"} /\ results[0].status = "PASS" /\ source < run
Written ==
    /\ pc \in Body \ {"report"} => results[run].status = "none"
    /\ run > 0 /\ pc # "end" => results[run].status = "none"
    /\ run > 0 /\ AfterSave => results[run].pin # Absent
    /\ \A r \in Runs : r > run => results[r] = NoResult
    /\ \A r \in reporting : 0 < r /\ r <= run /\ results[r].status # "none"
    /\ results[0].pin # Absent => Passed(0)
Resumes ==
    /\ run > 0 /\ pc = "offline" => source = 0 \/ Whole(source)
    /\ run > 0 /\ (pc = "copy" \/ Bare \/ HasGoal) => Whole(source)
    /\ run > 0 /\ (pc = "copy" \/ Bare) => offset = SourceOffset(source)
    /\ \A r \in Runs \ {0} : Passed(r) => Whole(r)
    /\ \A r \in Runs \ {0} : Whole(r) => results[r].source < r /\ Whole(results[r].source)

WInv == TInv /\ Turns /\ Written /\ Resumes

LEMMA OrderInit == Init => WInv
<1> SUFFICES ASSUME Init PROVE WInv
  OBVIOUS
<1>1. TInv
  BY TypeInit
<1>2. \A r \in Runs : results[r] = NoResult
  BY DEF Init
<1>3. run = 0 /\ pc = "begin" /\ ~second /\ reporting = {} /\ 0 \in Runs
  BY Numbers DEF Init
<1>4. \A r \in Runs : ~Whole(r) /\ ~Passed(r)
  BY <1>2, NoResultParts DEF Whole, Passed
<1>5. Turns
  BY <1>3 DEF Turns
<1>6. Written
  BY <1>2, <1>3, NoResultParts DEF Written, AfterSave
<1>7. Resumes
  BY <1>3, <1>4 DEF Resumes
<1> QED BY <1>1, <1>5, <1>6, <1>7 DEF WInv

\* The base that a later run stands on has passed, and stays so.
LEMMA BaseStays ==
    ASSUME WInv, TInv', [Next]_vars, run > 0
    PROVE  results'[0].status = results[0].status
<1>1. 0 \in Runs /\ 0 # run /\ 0 \notin reporting
  BY Numbers DEF WInv, Written
<1> QED BY <1>1, ResultsKept DEF WInv, Kept

LEMMA RunStays == ASSUME [Next]_vars, ~NextRun PROVE run' = run
BY Steps DEF vars, script, ProbeBegin, OfflineCheck, ExtendPreflight, Ready, ProbePlan,
   StepsDone, ProbeReport, Raise, ReadSource, ExtendPlan, Launch, LaunchFails, ProbeClose,
   ExtendClose, RaiseInClose, ProbeFinally, ExtendRestore, ProbeStep, ExtendStep, Query,
   PinBase, CopyPair, ProbeSave, ExtendSave, ParseSaved, RestoreAgain, ProbeGate, ExtendGate,
   ProbeHandler, ExtendHandler, ReportDone, ReportRaises, Damage, Goto

\* How a script comes to where it is.
LEMMA Arrivals ==
    ASSUME [Next]_vars, ~NextRun
    PROVE  /\ pc' \in Body \ {"report"} => pc \in Body \ {"report"}
           /\ pc' # "end" => pc # "end"
           /\ second => second'
<1>1. UNCHANGED <<pc, second>> \/ (pc # "end" /\ pc' \in {"handler", "finally", "end"} /\ second' = second)
      \/ (pc \in Body \ {"report"} /\ pc' # "end" /\ (second => second'))
  <2>1. CASE \E r \in Runs : ReadSource(r)
    BY <2>1 DEF ReadSource, Body, Points
  <2>2. CASE \E n, m \in 1 .. MaxGrow + 1 : ExtendPlan(n, m)
    BY <2>2 DEF ExtendPlan, Body, Points
  <2>3. CASE ProbeBegin \/ OfflineCheck \/ ExtendPreflight \/ Ready \/ ProbePlan \/ StepsDone
             \/ ProbeReport \/ Raise
    BY <2>3 DEF ProbeBegin, OfflineCheck, ExtendPreflight, Ready, ProbePlan, StepsDone, ProbeReport,
         Raise, Goto, Body, Points
  <2>4. CASE Launch \/ LaunchFails \/ ProbeClose \/ ExtendClose \/ RaiseInClose
             \/ ProbeFinally \/ ExtendRestore \/ ProbeStep \/ ExtendStep \/ Query
    BY <2>4 DEF Launch, LaunchFails, ProbeClose, ExtendClose,
         RaiseInClose, ProbeFinally, ExtendRestore, ProbeStep, ExtendStep, Query, Goto, Body, Points
  <2>5. CASE CopyPair \/ ProbeSave \/ ExtendSave \/ ParseSaved \/ RestoreAgain
             \/ ProbeGate \/ ExtendGate \/ ProbeHandler \/ ExtendHandler
    BY <2>5 DEF CopyPair, ProbeSave, ExtendSave, ParseSaved,
         RestoreAgain, ProbeGate, ExtendGate, ProbeHandler, ExtendHandler, Goto, Body, Points
  <2> QED BY <2>1, <2>2, <2>3, <2>4, <2>5, Steps
          DEF PinBase, ReportDone, ReportRaises, Damage, vars, script
<1> QED BY <1>1 DEF Body

LEMMA TurnsStep == WInv /\ TInv' /\ [Next]_vars => Turns'
<1> SUFFICES ASSUME WInv, TInv', [Next]_vars PROVE Turns'
  OBVIOUS
<1>1. run \in Nat /\ run' \in Nat /\ source \in Nat /\ second \in BOOLEAN /\ second' \in BOOLEAN
  BY Numbers DEF WInv, TInv, ScriptOK
<1>2. CASE NextRun
  <2>1. results[0].status = "PASS" /\ results' = results /\ run' > 0 /\ source' = 0
        /\ pc' = "begin" /\ second' = FALSE
    BY <1>1, <1>2 DEF NextRun, disk
  <2> QED BY <2>1 DEF Turns
<1>3. CASE UNCHANGED <<run, pc, second, source>>
  BY <1>3, BaseStays DEF WInv, Turns
<1>4. CASE ~UNCHANGED <<run, pc, second, source>> /\ ~NextRun
  <2>1. run' = run /\ (run > 0 => results'[0].status = "PASS")
    BY <1>4, RunStays, BaseStays DEF WInv, Turns
  <2>2. CASE \E r \in Runs : ReadSource(r)
    BY <1>1, <2>1, <2>2 DEF ReadSource, WInv, Turns, Probing
  <2>3. CASE \E n, m \in 1 .. MaxGrow + 1 : ExtendPlan(n, m)
    BY <1>1, <2>1, <2>3 DEF ExtendPlan, WInv, Turns, Probing
  <2>4. CASE ProbeBegin \/ OfflineCheck \/ ExtendPreflight \/ Ready \/ ProbePlan \/ StepsDone
             \/ ProbeReport \/ Raise
    BY <1>1, <2>1, <2>4 DEF WInv, Turns, Probing, ProbeBegin, OfflineCheck, ExtendPreflight, Ready,
         ProbePlan, StepsDone, ProbeReport, Raise, Goto, Body, Points
  <2>5. CASE Launch \/ LaunchFails \/ ProbeClose \/ ExtendClose \/ RaiseInClose
             \/ ProbeFinally \/ ExtendRestore \/ ProbeStep \/ ExtendStep \/ Query
    BY <1>1, <2>1, <2>5 DEF WInv, Turns, Probing, Launch, LaunchFails, ProbeClose, ExtendClose,
         RaiseInClose, ProbeFinally, ExtendRestore, ProbeStep, ExtendStep, Query, Goto
  <2>6. CASE CopyPair \/ ProbeSave \/ ExtendSave \/ ParseSaved \/ RestoreAgain
             \/ ProbeGate \/ ExtendGate \/ ProbeHandler \/ ExtendHandler
    BY <1>1, <2>1, <2>6 DEF WInv, Turns, Probing, CopyPair, ProbeSave, ExtendSave, ParseSaved,
         RestoreAgain, ProbeGate, ExtendGate, ProbeHandler, ExtendHandler, Goto
  <2> QED BY <1>4, <2>2, <2>3, <2>4, <2>5, <2>6, Steps
          DEF PinBase, ReportDone, ReportRaises, Damage, vars, script
<1> QED BY <1>2, <1>3, <1>4

\* How a script comes behind its save.
LEMMA AfterSaveArrivals ==
    ASSUME ScriptOK, ScriptOK', Turns, [Next]_vars, ~NextRun, AfterSave'
    PROVE  AfterSave \/ ParseSaved \/ ProbeSave
<1> run' = run /\ run \in Nat /\ second \in BOOLEAN /\ second' \in BOOLEAN
  BY RunStays, Numbers DEF ScriptOK
<1>1. CASE \E r \in Runs : ReadSource(r)
  BY <1>1 DEF ReadSource, AfterSave
<1>2. CASE \E n, m \in 1 .. MaxGrow + 1 : ExtendPlan(n, m)
  BY <1>2 DEF ExtendPlan, AfterSave, Turns
<1>3. CASE ProbeBegin \/ OfflineCheck \/ ExtendPreflight \/ Ready \/ ProbePlan \/ StepsDone
           \/ ProbeReport \/ Raise
  BY <1>3 DEF ProbeBegin, OfflineCheck, ExtendPreflight, Ready, ProbePlan, StepsDone, ProbeReport,
       Raise, Goto, AfterSave, Probing, Turns
<1>4. CASE Launch \/ LaunchFails \/ ProbeClose \/ ExtendClose \/ RaiseInClose
           \/ ProbeFinally \/ ExtendRestore \/ ProbeStep \/ ExtendStep \/ Query
  BY <1>4 DEF Launch, LaunchFails, ProbeClose, ExtendClose,
       RaiseInClose, ProbeFinally, ExtendRestore, ProbeStep, ExtendStep, Query, Goto, AfterSave, Probing, Turns
<1>5. CASE CopyPair \/ ProbeSave \/ ExtendSave \/ ParseSaved \/ RestoreAgain
           \/ ProbeGate \/ ExtendGate \/ ProbeHandler \/ ExtendHandler
  BY <1>5 DEF CopyPair, ExtendSave,
       RestoreAgain, ProbeGate, ExtendGate, ProbeHandler, ExtendHandler, Goto, AfterSave, Probing
<1> QED BY <1>1, <1>2, <1>3, <1>4, <1>5, Steps
        DEF PinBase, ReportDone, ReportRaises, Damage, vars, script, AfterSave

\* A step that leaves what a result says leaves the result.
LEMMA SameResult ==
    ASSUME TInv, TInv', [Next]_vars, NEW r \in Runs, Kept(r), r # 0, r \notin reporting
    PROVE  results'[r] = results[r]
<1>1. results[r] \in OutcomeType /\ results'[r] \in OutcomeType
  BY DEF TInv, DiskOK
<1>2. \A a, b \in OutcomeType :
         /\ a.status = b.status /\ a.source = b.source /\ a.texts = b.texts
         /\ a.offset = b.offset /\ a.pin = b.pin /\ a.revived = b.revived
         => a = b
  BY DEF OutcomeType
<1>3. /\ results'[r].status = results[r].status /\ results'[r].source = results[r].source
      /\ results'[r].texts = results[r].texts /\ results'[r].offset = results[r].offset
      /\ results'[r].pin = results[r].pin /\ results'[r].revived = results[r].revived
  BY DEF Kept
<1> QED BY <1>1, <1>2, <1>3

\* What a write changes in the result of the run.
LEMMA WritesParts ==
    ASSUME TInv, TInv', Writes
    PROVE  \/ /\ ParseSaved /\ results'[run].status = results[run].status
              /\ results'[run].texts = goal /\ results'[run].source = results[run].source
              /\ results'[run].offset = results[run].offset
              /\ results'[run].pin = files[run] /\ results'[run].revived = results[run].revived
           \/ /\ RestoreAgain /\ results'[run].status = results[run].status
              /\ results'[run].texts = results[run].texts /\ results'[run].source = results[run].source
              /\ results'[run].offset = results[run].offset
              /\ results'[run].pin = results[run].pin /\ results'[run].revived = slot'
           \/ /\ ProbeGate \/ ExtendGate
              /\ results'[run].status = "PASS" /\ exact /\ (Probing => SafetyClear)
              /\ results'[run].texts = goal /\ results'[run].source = source
              /\ results'[run].offset = offset /\ results'[run].pin = results[run].pin
              /\ results'[run].revived = results[run].revived
           \/ /\ ProbeGate \/ ExtendHandler \/ (ProbeHandler /\ results[run].status = "none")
              /\ results'[run].status \in {"BLOCKED", "FAILED"}
              /\ results'[run].pin = Absent /\ results'[run].texts = <<>> /\ results'[run].offset = 0
           \/ /\ ProbeHandler \/ ExtendHandler
              /\ results'[run] = IF results[run].status = "none" THEN NoResult ELSE results[run]
<1>1. {"PASS", "BLOCKED", "FAILED"} \subseteq Statuses /\ slot' \in Content
  BY DEF Statuses, TInv, OwnTypeOK
<1>2. CASE ParseSaved
  BY <1>2, ParseSavedParts DEF TInv
<1>3. CASE RestoreAgain
  BY <1>1, <1>3, RestoreAgainParts DEF TInv
<1>4. CASE (ProbeGate \/ ExtendGate) /\ Verdict("PASS") /\ exact /\ (Probing => SafetyClear)
  BY <1>1, <1>4, VerdictParts DEF TInv
<1>5. CASE /\ Verdict("BLOCKED") \/ Verdict("FAILED")
           /\ ProbeGate \/ ExtendHandler \/ (ProbeHandler /\ results[run].status = "none")
  BY <1>1, <1>5, VerdictParts DEF TInv
<1>6. CASE (ProbeHandler \/ ExtendHandler) /\ NoVerdict
  BY <1>6, NoVerdictParts DEF TInv
<1> QED BY <1>2, <1>3, <1>4, <1>5, <1>6
        DEF Writes, ProbeGate, ExtendGate, ProbeHandler, ExtendHandler, Probing

LEMMA WrittenStep == WInv /\ TInv' /\ Turns' /\ [Next]_vars => Written'
<1> SUFFICES ASSUME WInv, TInv', Turns', [Next]_vars PROVE Written'
  OBVIOUS
<1>1. /\ run \in Runs /\ run' \in Runs /\ Runs \subseteq Nat /\ 0 \in Runs
      /\ reporting \subseteq Runs /\ reporting' \subseteq Runs
  BY Numbers DEF WInv, TInv, ScriptOK, DiskOK
<1>2. TInv /\ Turns /\ Written
  BY DEF WInv
<1>3. CASE NextRun
  <2>1. /\ results' = results /\ reporting' = reporting /\ run' = run + 1 /\ pc' = "begin"
        /\ results[0].status = "PASS"
    BY <1>3 DEF NextRun, disk
  <2>2. results[run'] = NoResult /\ \A r \in Runs : r > run' => r > run
    BY <1>1, <1>2, <2>1 DEF Written
  <2> QED BY <1>1, <1>2, <2>1, <2>2, NoResultParts DEF Written, AfterSave, Passed
<1>4. CASE ~NextRun
  <2>1. run' = run
    BY <1>4, RunStays
  <2>2. \A r \in Runs : r # run \/ ~Writes => Kept(r)
    BY <1>2, ResultsKept
  <2>3. run \in reporting => run > 0 /\ pc = "end"
    BY <1>1, <1>2 DEF Written, Turns
  <2>4. pc = "end" => ~Writes
    BY DEF Writes, ParseSaved, RestoreAgain, ProbeGate, ExtendGate, ProbeHandler, ExtendHandler
  <2>5. pc' \in Body \ {"report"} => results'[run].status = "none"
    <3>1. SUFFICES ASSUME pc' \in Body \ {"report"} PROVE results'[run].status = "none"
      OBVIOUS
    <3>2. pc \in Body \ {"report"} /\ results[run].status = "none"
      BY <1>2, <1>4, <3>1, Arrivals DEF Written
    <3>3. CASE ~Writes
      BY <1>1, <2>2, <2>3, <3>2, <3>3 DEF Kept, Body
    <3>4. CASE Writes
      BY <1>2, <3>1, <3>2, <3>4, WritesParts
         DEF ProbeGate, ExtendGate, ProbeHandler, ExtendHandler, Goto, Body
    <3> QED BY <3>3, <3>4
  <2>6. run > 0 /\ pc' # "end" => results'[run].status = "none"
    <3>1. SUFFICES ASSUME run > 0, pc' # "end" PROVE results'[run].status = "none"
      OBVIOUS
    <3>2. pc # "end" /\ results[run].status = "none"
      BY <1>2, <1>4, <3>1, Arrivals DEF Written
    <3>3. CASE ~Writes
      BY <1>1, <2>2, <2>3, <3>2, <3>3 DEF Kept
    <3>4. CASE Writes
      BY <1>1, <1>2, <3>1, <3>2, <3>4, WritesParts
         DEF ProbeGate, ProbeHandler, ExtendGate, ExtendHandler, Goto, Probing
    <3> QED BY <3>3, <3>4
  <2>7. run > 0 /\ AfterSave' => results'[run].pin # Absent
    <3>1. SUFFICES ASSUME run > 0, AfterSave' PROVE results'[run].pin # Absent
      OBVIOUS
    <3>2. CASE ParseSaved
      <4>1. ~files[run].other /\ Absent.other
        BY <3>2 DEF ParseSaved, Absent
      <4> QED BY <1>2, <3>2, <4>1, ParseSavedParts DEF TInv
    <3>3. CASE ~ParseSaved
      <4>1. AfterSave
        BY <1>2, <1>4, <2>1, <3>1, <3>3, AfterSaveArrivals DEF TInv, ProbeSave, Probing
      <4>2. results[run].pin # Absent
        BY <1>2, <3>1, <4>1 DEF Written
      <4>3. CASE ~Writes
        BY <1>1, <2>2, <3>1, <4>2, <4>3 DEF Kept
      <4>4. CASE Writes
        BY <1>1, <1>2, <3>1, <3>3, <4>2, <4>4, WritesParts
           DEF ProbeGate, ExtendGate, ProbeHandler, ExtendHandler, Goto, AfterSave
      <4> QED BY <4>3, <4>4
    <3> QED BY <3>2, <3>3
  <2>8. \A r \in Runs : r > run => results'[r] = NoResult
    <3>1. SUFFICES ASSUME NEW r \in Runs, r > run PROVE results'[r] = NoResult
      OBVIOUS
    <3>2. r # 0 /\ r # run /\ r \notin reporting /\ results[r] = NoResult
      BY <1>1, <1>2, <3>1 DEF Written
    <3> QED BY <1>2, <2>2, <3>2, SameResult
  <2>9. \A r \in reporting' : 0 < r /\ r <= run /\ results'[r].status # "none"
    <3>1. SUFFICES ASSUME NEW r \in reporting' PROVE 0 < r /\ r <= run /\ results'[r].status # "none"
      OBVIOUS
    <3>2. CASE r \in reporting
      <4>1. r \in Runs /\ (r = run => ~Writes)
        BY <1>1, <2>3, <2>4, <3>2
      <4> QED BY <1>2, <2>2, <3>1, <3>2, <4>1 DEF Written, Kept
    <3>3. CASE r \notin reporting
      <4>1. ExtendGate /\ r = run
        BY <3>1, <3>3, Steps DEF disk, PinBase, CopyPair, ProbeSave, ExtendSave, SavesFile, ParseSaved,
           RestoreAgain, ProbeGate, ExtendGate, ProbeHandler, ExtendHandler, ReportDone, ReportRaises,
           Damage, NextRun, vars
      <4>2. results'[run].status # "none" /\ 0 < run
        <5>1. Verdict("PASS") /\ "PASS" \in Statuses /\ run # 0
          BY <4>1 DEF ExtendGate, Statuses, Probing
        <5> QED BY <1>1, <1>2, <5>1, VerdictParts DEF TInv
      <4> QED BY <1>1, <4>1, <4>2
    <3> QED BY <3>2, <3>3
  <2>10. results'[0].pin # Absent => Passed(0)'
    <3>1. SUFFICES ASSUME results'[0].pin # Absent PROVE results'[0].status = "PASS"
      BY DEF Passed
    <3>2. 0 \notin reporting
      BY <1>2 DEF Written
    <3>3. CASE run # 0 \/ ~Writes
      BY <1>1, <1>2, <2>2, <3>1, <3>2, <3>3 DEF Kept, Written, PinBase, Passed
    <3>4. CASE run = 0 /\ Writes
      <4>1. ~ParseSaved
        BY <1>2, <3>4 DEF Turns, ParseSaved
      <4> QED BY <1>2, <3>1, <3>4, <4>1, WritesParts, NoResultParts DEF Written, Passed
    <3> QED BY <3>3, <3>4
  <2> QED BY <2>1, <2>5, <2>6, <2>7, <2>8, <2>9, <2>10 DEF Written
<1> QED BY <1>3, <1>4

\* A result that may be resumed stays so.
LEMMA WholeStays ==
    ASSUME WInv, TInv', [Next]_vars, NEW r \in Runs, Whole(r), r # run \/ ~Writes
    PROVE  Whole(r)' /\ results'[r].source = results[r].source
<1>1. Kept(r)
  BY ResultsKept DEF WInv
<1> QED BY <1>1 DEF Whole, Kept, PinBase

LEMMA ResumesStep == WInv /\ TInv' /\ Turns' /\ [Next]_vars => Resumes'
<1> SUFFICES ASSUME WInv, TInv', Turns', [Next]_vars PROVE Resumes'
  OBVIOUS
<1>1. /\ run \in Runs /\ run' \in Runs /\ Runs \subseteq Nat /\ 0 \in Runs /\ source \in Runs
      /\ second \in BOOLEAN /\ second' \in BOOLEAN
  BY Numbers DEF WInv, TInv, ScriptOK
<1>2. TInv /\ Turns /\ Written /\ Resumes
  BY DEF WInv
<1>3. CASE NextRun
  <2>1. /\ results' = results /\ pc' = "begin"
    BY <1>3 DEF NextRun, disk
  <2>2. \A r : (Whole(r)' <=> Whole(r)) /\ (Passed(r)' <=> Passed(r))
    BY <2>1 DEF Whole, Passed
  <2> QED BY <1>2, <2>1, <2>2 DEF Resumes, Bare, HasGoal, AfterSave
<1>4. CASE ~NextRun
  <2>1. run' = run
    BY <1>4, RunStays
  <2>2. \A r \in Runs : r # run \/ ~Writes => Kept(r)
    BY <1>2, ResultsKept
  <2>3. \A r \in Runs : Whole(r) => (r # run \/ ~Writes) \/ run = 0
    <3>1. Writes => pc # "end"
      BY DEF Writes, ParseSaved, RestoreAgain, ProbeGate, ExtendGate, ProbeHandler, ExtendHandler
    <3> QED BY <1>1, <1>2, <3>1 DEF Written, Whole
  <2>4. \A r \in Runs : Whole(r) /\ (r # run \/ ~Writes) =>
           Whole(r)' /\ results'[r].source = results[r].source
    BY WholeStays
  <2>5. Whole(0) => Whole(0)'
    <3>1. CASE run = 0 /\ Writes
      <4>1. ~ParseSaved /\ ~(ExtendGate \/ ExtendHandler)
        BY <1>2, <3>1 DEF Turns, ParseSaved, ExtendGate, ExtendHandler, Probing
      <4>2. Whole(0) => results[run].status # "none" /\ ~ProbeGate
        BY <1>1, <1>2, <3>1 DEF Whole, Written, ProbeGate, Body, Points
      <4>3. CASE Whole(0)
        BY <1>2, <3>1, <4>1, <4>2, <4>3, WritesParts DEF Whole
      <4> QED BY <4>3
    <3> QED BY <1>1, <2>4, <3>1
  <2>6. \A r \in Runs : r < run \/ r = 0 => (Whole(r) => Whole(r)')
    BY <1>1, <2>4, <2>5
  <2>7. run > 0 /\ pc' = "offline" => source' = 0 \/ Whole(source)'
    <3>1. SUFFICES ASSUME run > 0, pc' = "offline" PROVE source' = 0 \/ Whole(source)'
      OBVIOUS
    <3>2. UNCHANGED <<pc, source>> \/ \E r \in Runs : ReadSource(r) /\ source' = r
      <4>1. CASE \E r \in Runs : ReadSource(r)
        BY <4>1 DEF ReadSource
      <4>2. CASE \E n, m \in 1 .. MaxGrow + 1 : ExtendPlan(n, m)
        BY <3>1, <4>2 DEF ExtendPlan
      <4> QED BY <3>1, <4>1, <4>2, Steps DEF ProbeBegin, OfflineCheck, ExtendPreflight, Ready,
              ProbePlan, StepsDone, ProbeReport, Raise, Launch, LaunchFails, ProbeClose, ExtendClose,
              RaiseInClose, ProbeFinally, ExtendRestore, ProbeStep, ExtendStep, Query, PinBase,
              CopyPair, ProbeSave, ExtendSave, ParseSaved, RestoreAgain, ProbeGate, ExtendGate,
              ProbeHandler, ExtendHandler, ReportDone, ReportRaises, Damage, NextRun, Goto, vars, script
    <3>3. CASE UNCHANGED <<pc, source>>
      <4>1. source = 0 \/ Whole(source)
        BY <1>2, <3>1, <3>3 DEF Resumes
      <4>2. source < run
        BY <1>2, <3>1 DEF Turns
      <4>3. Whole(source) => Whole(source)'
        <5>1. Whole(source) => (results'[source].status # "none" /\ results'[source].pin # Absent)
          BY <1>1, <2>6, <4>2 DEF Whole
        <5> QED BY <3>3, <5>1 DEF Whole
      <4> QED BY <3>3, <4>1, <4>3
    <3>4. ASSUME NEW r \in Runs, ReadSource(r), source' = r PROVE source' = 0 \/ Whole(source)'
      <4>1. Passed(r) /\ results' = results
        BY <3>4 DEF ReadSource, Passed, disk
      <4>2. r = 0 \/ Whole(r)
        BY <1>2, <4>1 DEF Resumes
      <4> QED BY <3>4, <4>1, <4>2 DEF Whole
    <3> QED BY <3>2, <3>3, <3>4
  <2>8. run > 0 /\ (pc' = "copy" \/ Bare' \/ HasGoal') =>
           /\ source' = source
           /\ \/ pc = "copy" \/ Bare \/ HasGoal
              \/ pc = "offline" /\ results[source].pin # Absent
           /\ pc' = "copy" \/ Bare' =>
                 \/ (pc = "copy" \/ Bare) /\ UNCHANGED offset
                 \/ OfflineCheck
    <3>1. SUFFICES ASSUME run > 0, pc' = "copy" \/ Bare' \/ HasGoal'
                   PROVE  /\ source' = source
                          /\ \/ pc = "copy" \/ Bare \/ HasGoal
                             \/ pc = "offline" /\ results[source].pin # Absent
                          /\ pc' = "copy" \/ Bare' =>
                                \/ (pc = "copy" \/ Bare) /\ UNCHANGED offset
                                \/ OfflineCheck
      OBVIOUS
    <3>2. ~(run = 0)
      BY <3>1
    <3>3. CASE \E r \in Runs : ReadSource(r)
      BY <3>1, <3>3 DEF ReadSource, Bare, HasGoal, AfterSave
    <3>4. CASE \E n, m \in 1 .. MaxGrow + 1 : ExtendPlan(n, m)
      BY <1>1, <1>2, <3>1, <3>4 DEF ExtendPlan, Bare, HasGoal, AfterSave, Turns
    <3>5. CASE OfflineCheck
      BY <1>1, <1>2, <3>1, <3>5 DEF OfflineCheck, Bare, HasGoal, AfterSave
    <3>6. CASE ProbeBegin \/ ExtendPreflight \/ Ready \/ ProbePlan \/ StepsDone
               \/ ProbeReport \/ Raise
      BY <1>1, <1>2, <3>1, <3>2, <3>6 DEF ProbeBegin, ExtendPreflight, Ready, ProbePlan, StepsDone,
           ProbeReport, Raise, Goto, Bare, HasGoal, AfterSave, Probing, Turns
    <3>7. CASE Launch \/ LaunchFails \/ ProbeClose \/ ExtendClose \/ RaiseInClose
               \/ ProbeFinally \/ ExtendRestore \/ ProbeStep \/ ExtendStep \/ Query
      BY <1>1, <1>2, <3>1, <3>2, <3>7 DEF Launch, LaunchFails, ProbeClose, ExtendClose, RaiseInClose,
           ProbeFinally, ExtendRestore, ProbeStep, ExtendStep, Query, Goto, Bare, HasGoal, AfterSave,
           Probing, Turns
    <3>8. CASE CopyPair \/ ProbeSave \/ ExtendSave \/ ParseSaved \/ RestoreAgain
               \/ ProbeGate \/ ExtendGate \/ ProbeHandler \/ ExtendHandler
      BY <1>1, <1>2, <3>1, <3>2, <3>8 DEF CopyPair, ProbeSave, ExtendSave, ParseSaved, RestoreAgain,
           ProbeGate, ExtendGate, ProbeHandler, ExtendHandler, Goto, Bare, HasGoal, AfterSave,
           Probing, Turns
    <3>9. CASE UNCHANGED script
      BY <3>1, <3>9 DEF script, Bare, HasGoal, AfterSave
    <3> QED BY <1>4, <3>3, <3>4, <3>5, <3>6, <3>7, <3>8, <3>9, Steps
            DEF PinBase, ReportDone, ReportRaises, Damage, vars
  <2>9. run > 0 /\ (pc' = "copy" \/ Bare' \/ HasGoal') => Whole(source)'
    <3>1. SUFFICES ASSUME run > 0, pc' = "copy" \/ Bare' \/ HasGoal' PROVE Whole(source)'
      OBVIOUS
    <3>2. source' = source /\ source < run
      BY <1>2, <2>8, <3>1 DEF Turns
    <3>3. Whole(source)
      <4>1. CASE pc = "copy" \/ Bare \/ HasGoal
        BY <1>2, <3>1, <4>1 DEF Resumes
      <4>2. CASE pc = "offline" /\ results[source].pin # Absent
        BY <1>2, <3>1, <4>2 DEF Resumes, Turns, Whole
      <4> QED BY <2>8, <3>1, <4>1, <4>2
    <3>4. results'[source].status # "none" /\ results'[source].pin # Absent
      BY <1>1, <2>6, <3>2, <3>3 DEF Whole
    <3> QED BY <3>2, <3>4 DEF Whole
  <2>10. run > 0 /\ (pc' = "copy" \/ Bare') => (offset = SourceOffset(source))'
    <3>1. SUFFICES ASSUME run > 0, pc' = "copy" \/ Bare' PROVE (offset = SourceOffset(source))'
      OBVIOUS
    <3>2. source' = source /\ source < run
      BY <1>2, <2>8, <3>1 DEF Turns
    <3>3. results'[source].offset = results[source].offset
      BY <1>1, <2>2, <3>2 DEF Kept
    <3>4. offset' = SourceOffset(source)
      BY <1>2, <2>8, <3>1 DEF Resumes, OfflineCheck
    <3> QED BY <3>2, <3>3, <3>4 DEF SourceOffset
  <2>11. \A r \in Runs \ {0} : /\ Passed(r)' => Whole(r)'
                               /\ (Whole(r) => results[r].source < r /\ Whole(results[r].source))'
    <3>1. SUFFICES ASSUME NEW r \in Runs, r # 0
                   PROVE  /\ Passed(r)' => Whole(r)'
                          /\ (Whole(r) => results[r].source < r /\ Whole(results[r].source))'
      OBVIOUS
    <3>2. CASE r # run \/ ~Writes
      <4>1. Kept(r)
        BY <2>2, <3>2
      <4>2. /\ Passed(r)' => Passed(r)
            /\ Whole(r)' => Whole(r)
        BY <1>2, <3>1, <4>1 DEF Kept, Passed, Whole, Written
      <4>3. Passed(r)' => Whole(r)'
        BY <1>2, <3>1, <3>2, <4>2, <2>4 DEF Resumes
      <4>4. CASE Whole(r)'
        <5>1. Whole(r) /\ results[r].source < r /\ Whole(results[r].source)
              /\ results'[r].source = results[r].source /\ results[r].source \in Runs
          BY <1>2, <3>1, <4>1, <4>2, <4>4, OutcomeParts DEF Resumes, Kept, TInv, DiskOK
        <5>2. r <= run
          BY <1>1, <1>2, <5>1, NoResultParts DEF Written, Whole
        <5>3. results'[results[r].source].status # "none" /\ results'[results[r].source].pin # Absent
          BY <1>1, <2>6, <3>1, <5>1, <5>2 DEF Whole
        <5> QED BY <4>3, <5>1, <5>3 DEF Whole
      <4> QED BY <4>3, <4>4
    <3>3. CASE r = run /\ Writes
      <4>1. pc # "end" /\ results[run].status = "none" /\ run > 0
        <5>1. pc # "end"
          BY <3>3 DEF Writes, ParseSaved, RestoreAgain, ProbeGate, ExtendGate, ProbeHandler, ExtendHandler
        <5> QED BY <1>1, <1>2, <3>1, <3>3, <5>1 DEF Written
      <4>2. CASE ExtendGate
        <5>1. pc = "gate" /\ HasGoal /\ AfterSave
          BY <4>2 DEF ExtendGate, HasGoal, AfterSave
        <5>2. Whole(source) /\ source < run /\ results[run].pin # Absent
          BY <1>2, <4>1, <5>1 DEF Resumes, Turns, Written
        <5>3. results'[run].status = "PASS" /\ results'[run].source = source
              /\ results'[run].pin = results[run].pin
          <6>1. Verdict("PASS") /\ "PASS" \in Statuses
            BY <4>2 DEF ExtendGate, Statuses
          <6> QED BY <1>2, <6>1, VerdictParts DEF TInv
        <5>4. results'[source].status # "none" /\ results'[source].pin # Absent
          BY <1>1, <2>6, <5>2 DEF Whole
        <5> QED BY <3>3, <5>2, <5>3, <5>4 DEF Whole, Passed
      <4>3. CASE ~ExtendGate
        <5>1. ~Whole(r)' /\ ~Passed(r)'
          <6>1. ~ProbeGate /\ ~ProbeHandler
            BY <4>1 DEF ProbeGate, ProbeHandler, Probing
          <6> QED BY <1>2, <3>3, <4>1, <4>3, <6>1, WritesParts, NoResultParts DEF Whole, Passed
        <5> QED BY <5>1
      <4> QED BY <4>2, <4>3
    <3> QED BY <3>2, <3>3
  <2> QED BY <2>1, <2>7, <2>9, <2>10, <2>11 DEF Resumes
<1> QED BY <1>3, <1>4

LEMMA OrderStep == WInv /\ [Next]_vars => WInv'
<1> SUFFICES ASSUME WInv, [Next]_vars PROVE WInv'
  OBVIOUS
<1>1. TInv'
  BY TypeStep DEF WInv
<1>2. Turns'
  BY <1>1, TurnsStep
<1> QED BY <1>1, <1>2, WrittenStep, ResumesStep DEF WInv

LEMMA Order == Spec => []WInv
BY OrderInit, OrderStep, PTL DEF Spec

\* The probe's result is written once: neither its handler nor a later run
\* puts another in its place.
THEOREM ProbeResultIsFinal == Spec => ProbeResultFinal
<1>1. ASSUME WInv, WInv', [Next]_vars
      PROVE  [results[0].status # "none" => results'[0].status = results[0].status]_vars
  <2>1. SUFFICES ASSUME results[0].status # "none" PROVE results'[0].status = results[0].status
    BY DEF vars
  <2>2. 0 \in Runs /\ 0 \notin reporting /\ TInv /\ TInv' /\ Turns /\ Written
    BY <1>1, Numbers DEF WInv, Written
  <2>3. CASE run # 0 \/ ~Writes
    BY <1>1, <2>2, <2>3, ResultsKept DEF Kept
  <2>4. CASE run = 0 /\ Writes
    <3>1. ~ParseSaved /\ ~ExtendGate /\ ~ExtendHandler
      BY <2>2, <2>4 DEF Turns, ParseSaved, ExtendGate, ExtendHandler, Probing
    <3>2. ~ProbeGate
      BY <2>1, <2>2, <2>4 DEF Written, ProbeGate, Body, Points
    <3> QED BY <2>1, <2>2, <2>4, <3>1, <3>2, WritesParts
  <2> QED BY <2>3, <2>4
<1> QED BY <1>1, Order, PTL DEF Spec, ProbeResultFinal

-----------------------------------------------------------------------------
(* The monitors *)

\* Only the server that is held is watched by a monitor that close() has not
\* given up; an extension goes on only while no violation is known of another.
Monitors ==
    /\ watched \subseteq late \cup {session}
    /\ pc = "gate" \/ Passed(run) => session = NoOne
    /\ run > 0 /\ pc \notin {"handler", "end"} => violated \subseteq late \cup {session}

QInv == WInv /\ Monitors /\ PassWasQuiet

\* What a step of a run does to its monitors.
LEMMA OwnSteps ==
    ASSUME [Next]_vars, ~NextRun
    PROVE  \/ UNCHANGED <<session, watched, violated, late>>
           \/ (\E s \in Servers : Violation(s)) /\ UNCHANGED <<script, disk>>
           \/ Launch \/ ProbeClose \/ ExtendClose
           \/ (Close \/ CloseRaises) /\ (RaiseInClose \/ ProbeFinally \/ ExtendHandler)
<1>1. CASE Environment /\ UNCHANGED <<script, disk, reporting>>
  BY <1>1 DEF Environment, ServerBinds, ServerEnds, ForeignServer, OtherRequest
<1>2. CASE Launch \/ LaunchFails \/ ProbeClose \/ ExtendClose \/ RaiseInClose
           \/ ProbeFinally \/ ExtendRestore \/ ProbeStep \/ ExtendStep \/ Query
  BY <1>2 DEF LaunchFails, LaunchLeaks, RaiseInClose, ProbeFinally, ExtendRestore, RestoreFrom,
     ProbeStep, ExtendStep, CompletePrefix, Query, CompleteQuery, own
<1> QED BY <1>1, <1>2, Steps
        DEF own, vars, PinBase, CopyPair, ProbeSave, ExtendSave, SavesFile, ParseSaved, RestoreAgain,
            RestoreFrom, ProbeGate, ExtendGate, ProbeHandler, ExtendHandler, ReportDone, ReportRaises,
            Damage

\* Who comes to the gate, and who passes there.
LEMMA GateArrivals ==
    ASSUME WInv, TInv', [Next]_vars, ~NextRun
    PROVE  /\ pc' = "gate" => pc = "gate" \/ ProbeClose \/ ExtendClose
           /\ Passed(run)' => \/ Passed(run)
                              \/ pc = "gate" /\ (ProbeGate \/ ExtendGate) /\ (Probing => SafetyClear)
           /\ run > 0 /\ pc = "handler" => pc' \in {"handler", "end"}
<1> TInv /\ Turns /\ Written /\ run' = run /\ run \in Runs
  BY RunStays DEF WInv, TInv, ScriptOK
<1>1. pc' = "gate" => pc = "gate" \/ ProbeClose \/ ExtendClose
  BY Steps DEF ProbeBegin, OfflineCheck, ExtendPreflight, Ready, ProbePlan,
       StepsDone, ProbeReport, Raise, ReadSource, ExtendPlan, Launch, LaunchFails,
       RaiseInClose, ProbeFinally, ExtendRestore, ProbeStep, ExtendStep, Query,
       PinBase, CopyPair, ProbeSave, ExtendSave, ParseSaved, RestoreAgain, ProbeGate, ExtendGate,
       ProbeHandler, ExtendHandler, ReportDone, ReportRaises, Damage, Goto, vars, script
<1>2. ASSUME Passed(run)'
      PROVE  Passed(run) \/ (pc = "gate" /\ (ProbeGate \/ ExtendGate) /\ (Probing => SafetyClear))
  <2>1. results'[run].status = "PASS"
    BY <1>2 DEF Passed
  <2>2. CASE Writes
    BY <2>1, <2>2, WritesParts, NoResultParts DEF Passed, ProbeGate, ExtendGate
  <2>3. CASE ~Writes
    BY <2>1, <2>3, ResultsKept DEF Passed, Kept
  <2> QED BY <2>2, <2>3
<1>3. ASSUME run > 0, pc = "handler" PROVE pc' \in {"handler", "end"}
  BY <1>3, Steps DEF ProbeBegin, OfflineCheck, ExtendPreflight, Ready, ProbePlan,
       StepsDone, ProbeReport, Raise, ReadSource, ExtendPlan, Launch, LaunchFails, ProbeClose,
       ExtendClose, RaiseInClose, ProbeFinally, ExtendRestore, ProbeStep, ExtendStep, Query,
       PinBase, CopyPair, ProbeSave, ExtendSave, ParseSaved, RestoreAgain, ProbeGate, ExtendGate,
       ProbeHandler, ExtendHandler, ReportDone, ReportRaises, Damage, Goto, vars, script, Body,
       Probing, Points
<1> QED BY <1>1, <1>2, <1>3

LEMMA QuietInit == Init => QInv
<1> SUFFICES ASSUME Init PROVE QInv
  OBVIOUS
<1>1. 0 \in Runs /\ ~Passed(run) /\ run = 0
  BY Numbers DEF Init, Passed, NoResult
<1>2. Monitors /\ PassWasQuiet
  BY <1>1 DEF Monitors, PassWasQuiet, Init, OwnInit
<1> QED BY <1>2, OrderInit DEF QInv

LEMMA QuietStep == QInv /\ [Next]_vars => QInv'
<1> SUFFICES ASSUME QInv, [Next]_vars PROVE QInv'
  OBVIOUS
<1>1. WInv /\ WInv' /\ TInv /\ TInv' /\ Turns /\ Written /\ Written'
  BY OrderStep DEF QInv, WInv
<1>2. /\ run \in Runs /\ Runs \subseteq Nat /\ violated \subseteq Servers /\ NoOne \notin Servers
      /\ Here \in Servers /\ session \in Servers \cup {NoOne} /\ watched \subseteq Servers
  BY <1>1, Numbers, Numbered, HereParts DEF TInv, ScriptOK, OwnTypeOK
<1>3. CASE NextRun
  <2>1. session' = NoOne /\ watched' = {} /\ violated' = {}
    BY <1>3 DEF NextRun
  <2> QED BY <1>1, <2>1 DEF QInv, Monitors, PassWasQuiet
<1>4. CASE ~NextRun
  <2>1. run' = run
    BY <1>4, RunStays
  <2>2. Monitors /\ PassWasQuiet
    BY DEF QInv
  <2>3. pc = "launch" => ~Passed(run)
    BY <1>1 DEF Written, Passed, Body, Points
  <2>4. /\ pc' = "gate" => pc = "gate" \/ ProbeClose \/ ExtendClose
        /\ Passed(run)' => \/ Passed(run)
                           \/ pc = "gate" /\ (ProbeGate \/ ExtendGate) /\ (Probing => SafetyClear)
        /\ run > 0 /\ pc' \notin {"handler", "end"} => pc \notin {"handler", "end"}
    BY <1>1, <1>4, GateArrivals, Arrivals
  <2>5. (watched \subseteq late \cup {session})'
    BY <1>2, <1>4, <2>2, OwnSteps DEF Monitors, Violation, Launch, LaunchServer, ProbeClose, ExtendClose,
       Close, CloseRaises
  <2>6. ASSUME (pc = "gate" \/ Passed(run))' PROVE session' = NoOne
    <3>1. CASE ProbeClose \/ ExtendClose
      BY <3>1 DEF ProbeClose, ExtendClose, Close
    <3>2. CASE (pc = "gate" \/ Passed(run)) /\ ~ProbeClose /\ ~ExtendClose
      <4>1. session = NoOne
        BY <2>2, <3>2 DEF Monitors
      <4>2. ~Launch
        BY <2>3, <3>2 DEF Launch
      <4> QED BY <1>4, <3>2, <4>1, <4>2, OwnSteps DEF Violation, Close, CloseRaises
    <3> QED BY <2>1, <2>4, <2>6, <3>1, <3>2
  <2>7. ASSUME run > 0, pc' \notin {"handler", "end"} PROVE (violated \subseteq late \cup {session})'
    <3>1. violated \subseteq late \cup {session} /\ ~Probing
      BY <1>2, <2>2, <2>4, <2>7 DEF Monitors, Probing
    <3>2. CASE Launch
      BY <1>2, <3>1, <3>2 DEF Launch, LaunchServer
    <3>3. CASE \E s \in Servers : Violation(s)
      BY <2>2, <3>1, <3>3 DEF Violation, Monitors
    <3>4. CASE ExtendClose
      BY <3>1, <3>4 DEF ExtendClose, Close
    <3>5. ~(RaiseInClose \/ ExtendHandler \/ ProbeFinally \/ ProbeClose)
      BY <2>7, <3>1 DEF RaiseInClose, ExtendHandler, ProbeFinally, ProbeClose, Goto
    <3> QED BY <1>4, <3>1, <3>2, <3>3, <3>4, <3>5, OwnSteps
  <2>8. PassWasQuiet'
    <3>1. SUFFICES ASSUME Passed(run)' PROVE ({First(run), Second(run)} \cap violated \subseteq late)'
      BY <2>1 DEF PassWasQuiet, First, Second
    <3>2. CASE Passed(run)
      <4>1. session = NoOne /\ {First(run), Second(run)} \cap violated \subseteq late
        BY <2>2, <3>2 DEF Monitors, PassWasQuiet
      <4>2. ~Launch /\ ~Close /\ ~CloseRaises /\ ~ProbeClose /\ ~ExtendClose
        BY <2>3, <3>2, <4>1 DEF Launch, Close, CloseRaises, ProbeClose, ExtendClose
      <4>3. CASE \E s \in Servers : Violation(s)
        BY <1>2, <2>1, <2>2, <4>1, <4>3 DEF Monitors, Violation, First, Second
      <4>4. CASE UNCHANGED <<session, watched, violated, late>>
        BY <2>1, <4>1, <4>4 DEF First, Second
      <4> QED BY <1>4, <4>2, <4>3, <4>4, OwnSteps
    <3>3. CASE pc = "gate" /\ (ProbeGate \/ ExtendGate) /\ (Probing => SafetyClear)
      <4>1. UNCHANGED <<violated, late>>
        BY <3>3 DEF ProbeGate, ExtendGate, own
      <4>2. CASE Probing
        BY <2>1, <3>3, <4>1, <4>2 DEF SafetyClear, First, Second
      <4>3. CASE ~Probing
        <5>1. run > 0 /\ session = NoOne
          BY <1>2, <2>2, <3>3, <4>3 DEF Monitors, Probing
        <5>2. violated \subseteq late
          BY <1>2, <2>2, <3>3, <5>1 DEF Monitors
        <5> QED BY <4>1, <5>2
      <4> QED BY <4>2, <4>3
    <3> QED BY <2>1, <2>4, <3>1, <3>2, <3>3
  <2> QED BY <1>1, <2>1, <2>5, <2>6, <2>7, <2>8 DEF QInv, Monitors
<1> QED BY <1>3, <1>4

\* A run passes only with every violation known that was recorded while it
\* held the session: SafetyClear at the gate and the monitors that close() joins.
THEOREM PassWasQuietHolds == Spec => []PassWasQuiet
<1>1. QInv => PassWasQuiet
  BY DEF QInv
<1> QED BY <1>1, QuietInit, QuietStep, PTL DEF Spec

-----------------------------------------------------------------------------
(* What a step leaves of the script and of the slot *)

LEMMA ScriptKept ==
    ASSUME TInv, Turns, [Next]_vars, ~NextRun
    PROVE  /\ run' = run
           /\ goal' = goal \/ ProbePlan \/ \E n, m \in 1 .. MaxGrow + 1 : ExtendPlan(n, m)
           /\ source' = source \/ \E r \in Runs : ReadSource(r)
           /\ offset' = offset \/ OfflineCheck \/ \E n, m \in 1 .. MaxGrow + 1 : ExtendPlan(n, m)
           /\ \/ at' = at \/ ProbeStep \/ ExtendStep
              \/ \E n, m \in 1 .. MaxGrow + 1 : ExtendPlan(n, m)
           /\ exact' => exact
<1>1. run' = run
  BY RunStays
<1>2. exact' => exact
  <2>1. CASE ProbeStep \/ Query \/ RestoreAgain \/ ProbeSave
    BY <2>1 DEF ProbeStep, Query, RestoreAgain, ProbeSave
  <2>2. CASE exact' = exact
    BY <2>2
  <2>3. exact' = exact \/ ProbeStep \/ Query \/ RestoreAgain \/ ProbeSave
    BY Steps DEF ProbeBegin, OfflineCheck, ExtendPreflight, Ready, ProbePlan,
       StepsDone, ProbeReport, Raise, ReadSource, ExtendPlan, Launch, LaunchFails, ProbeClose,
       ExtendClose, RaiseInClose, ProbeFinally, ExtendRestore, ExtendStep,
       PinBase, CopyPair, ExtendSave, ParseSaved, ProbeGate, ExtendGate,
       ProbeHandler, ExtendHandler, ReportDone, ReportRaises, Damage, Goto, vars, script
  <2> QED BY <2>1, <2>2, <2>3
<1>3. /\ goal' = goal \/ ProbePlan \/ \E n, m \in 1 .. MaxGrow + 1 : ExtendPlan(n, m)
      /\ source' = source \/ \E r \in Runs : ReadSource(r)
      /\ offset' = offset \/ OfflineCheck \/ \E n, m \in 1 .. MaxGrow + 1 : ExtendPlan(n, m)
  BY Steps DEF ProbeBegin, ExtendPreflight, Ready, ProbePlan, OfflineCheck,
     StepsDone, ProbeReport, Raise, ReadSource, ExtendPlan, Launch, LaunchFails, ProbeClose,
     ExtendClose, RaiseInClose, ProbeFinally, ExtendRestore, ProbeStep, ExtendStep, Query,
     PinBase, CopyPair, ProbeSave, ExtendSave, ParseSaved, RestoreAgain, ProbeGate, ExtendGate,
     ProbeHandler, ExtendHandler, ReportDone, ReportRaises, Damage, Goto, vars, script
<1>4. at' = at \/ ProbeStep \/ ExtendStep \/ \E n, m \in 1 .. MaxGrow + 1 : ExtendPlan(n, m)
  BY Steps DEF ProbeBegin, ExtendPreflight, Ready, ProbePlan, OfflineCheck,
     StepsDone, ProbeReport, Raise, ReadSource, Launch, LaunchFails, ProbeClose,
     ExtendClose, RaiseInClose, ProbeFinally, ExtendRestore, Query,
     PinBase, CopyPair, ProbeSave, ExtendSave, ParseSaved, RestoreAgain, ProbeGate, ExtendGate,
     ProbeHandler, ExtendHandler, ReportDone, ReportRaises, Damage, Goto, vars, script
<1> QED BY <1>1, <1>2, <1>3, <1>4

LEMMA SlotKept ==
    ASSUME TInv, [Next]_vars
    PROVE  SlotStays \/ SlotCut \/ ProbeStep \/ ExtendStep \/ Query \/ ExtendRestore \/ RestoreAgain
<1>1. CASE Environment
  BY <1>1, EnvironmentStep DEF TInv
<1>2. CASE Launch \/ LaunchFails
  BY <1>2, LaunchStep, HereParts DEF TInv, Launch, LaunchFails, SlotStays
<1>3. CASE Close \/ CloseRaises
  BY <1>3, CloseStep DEF TInv
<1>4. CASE UNCHANGED <<port, slot>>
  BY <1>4 DEF SlotStays
<1> QED BY <1>1, <1>2, <1>3, <1>4, Steps
        DEF own, vars, NextRun, ProbeClose, ExtendClose, RaiseInClose, ProbeFinally, PinBase, CopyPair,
            ProbeSave, ExtendSave, SavesFile, ParseSaved, ProbeGate, ExtendGate, ProbeHandler,
            ExtendHandler, ReportDone, ReportRaises, Damage

\* How a script comes to a vector, to its steps, and behind its last restore.
LEMMA OtherArrivals ==
    ASSUME TInv, TInv', Turns, [Next]_vars, ~NextRun
    PROVE  /\ HasGoal' => \/ HasGoal \/ ProbePlan
                          \/ \E n, m \in 1 .. MaxGrow + 1 : n <= MaxGrow /\ ExtendPlan(n, m)
           /\ pc' \in {"step", "save"} => pc \in {"step", "save"} \/ ProbePlan \/ ExtendRestore
           /\ Revived' => Revived \/ RestoreAgain
           /\ ~second' /\ pc' \in {"begin", "launch", "ready", "plan"} /\ run = 0 =>
                 ~second /\ pc \in {"begin", "launch", "ready", "plan"}
           /\ ~second' /\ (pc' = "query") => (~second /\ pc = "query") \/ ProbeSave \/ ParseSaved
<1> second \in BOOLEAN /\ second' \in BOOLEAN /\ run' = run /\ run \in Nat
  BY RunStays, Numbers DEF TInv, ScriptOK
<1>1. CASE \E r \in Runs : ReadSource(r)
  BY <1>1 DEF ReadSource, HasGoal, AfterSave, Revived, Probing, Turns
<1>2. CASE \E n, m \in 1 .. MaxGrow + 1 : n <= MaxGrow /\ ExtendPlan(n, m)
  BY <1>2 DEF ExtendPlan, HasGoal, AfterSave, Revived, Turns
<1>3. CASE ProbeBegin \/ OfflineCheck \/ ExtendPreflight \/ Ready \/ ProbePlan \/ StepsDone
           \/ ProbeReport \/ Raise
  BY <1>3 DEF ProbeBegin, OfflineCheck, ExtendPreflight, Ready, ProbePlan, StepsDone, ProbeReport,
       Raise, Goto, HasGoal, AfterSave, Revived, Probing, Turns
<1>4. CASE Launch \/ LaunchFails \/ ProbeClose \/ ExtendClose \/ RaiseInClose
           \/ ProbeFinally \/ ExtendRestore \/ ProbeStep \/ ExtendStep \/ Query
  BY <1>4 DEF Launch, LaunchFails, ProbeClose, ExtendClose,
       RaiseInClose, ProbeFinally, ExtendRestore, ProbeStep, ExtendStep, Query, Goto, HasGoal,
       AfterSave, Revived, Probing, Turns
<1>5. CASE CopyPair \/ ProbeSave \/ ExtendSave \/ ParseSaved \/ RestoreAgain
           \/ ProbeGate \/ ExtendGate \/ ProbeHandler \/ ExtendHandler
  BY <1>5 DEF CopyPair, ProbeSave, ExtendSave, ParseSaved,
       RestoreAgain, ProbeGate, ExtendGate, ProbeHandler, ExtendHandler, Goto, HasGoal, AfterSave,
       Revived, Probing, Turns
<1>6. CASE UNCHANGED script
  BY <1>6 DEF script, HasGoal, AfterSave, Revived
<1> QED BY <1>1, <1>2, <1>3, <1>4, <1>5, <1>6, Steps
        DEF PinBase, ReportDone, ReportRaises, Damage, vars

-----------------------------------------------------------------------------
(* The token vectors *)

\* Pieces of the first n of the corpus, none of them twice.
Within(v, n) ==
    /\ Len(v) <= n
    /\ \A i \in 1 .. Len(v) : v[i] \in 1 .. n
    /\ \A i, j \in 1 .. Len(v) : i # j => v[i] # v[j]
Holds(content, v) == Texts(content) = v /\ ~content.other
\* A content that holds the first pieces of a vector.
Begins(content, v) ==
    /\ Len(content.held) <= Len(v)
    /\ \A i \in 1 .. Len(content.held) : content.held[i].text = v[i]

Vectors ==
    \A r \in Runs : Whole(r) =>
        /\ Holds(results[r].pin, results[r].texts)
        /\ Within(results[r].texts, SourceOffset(r)) /\ SourceOffset(r) <= Corpus
        /\ Len(results[r].pin.held) > 0
Goal ==
    /\ offset <= Corpus /\ at <= Corpus /\ Len(goal) <= Corpus
    /\ \A i \in 1 .. Len(goal) : goal[i] \in 1 .. Corpus
    /\ HasGoal => at <= Len(goal)
    /\ run = 0 /\ HasGoal => goal = SourceContent
    /\ run > 0 /\ HasGoal =>
          /\ Within(goal, offset)
          /\ Len(results[source].pin.held) < Len(goal)
          /\ \A i \in 1 .. Len(results[source].pin.held) : goal[i] = results[source].pin.held[i].text
\* The texts that results ever hold are of the corpus.
Recorded ==
    /\ \A r \in Runs : results[r].texts \in Seq(1 .. Corpus) /\ results[r].offset <= Corpus
    /\ \A r \in Runs : Passed(r) => Holds(results[r].revived, results[r].texts)
    /\ Passed(0) => results[0].texts = SourceContent /\ Holds(files[0], SourceContent)
\* What an extension has saved is its vector.
Extension ==
    run > 0 =>
        /\ AfterSave => Holds(results[run].pin, goal) /\ Holds(files[run], goal)
        /\ Revived => Holds(results[run].revived, goal)
\* What the probe has saved is its vector, if every count was exact.
Probe ==
    run = 0 =>
        /\ ~second /\ pc \in {"begin", "launch", "ready", "plan"} => at = 0 /\ slot.held = <<>>
        /\ pc \in {"step", "save"} => Begins(slot, goal) /\ Len(slot.held) <= at
        /\ AfterSave => Begins(files[0], goal) /\ (exact => Saved(files[0], Len(goal)))
        /\ pc = "query" /\ ~second => Len(slot.held) <= Len(files[0].held)
        /\ AfterSave /\ (second \/ pc # "query") /\ exact => Holds(files[0], goal)
        /\ Revived /\ exact => Holds(results[0].revived, goal)

Texted == Vectors /\ Goal /\ Recorded /\ Extension /\ Probe
VInv == WInv /\ Texted

LEMMA HoldsParts ==
    ASSUME NEW content \in Content, NEW v \in Seq(Nat)
    PROVE  /\ Texts(content) = v <=> /\ Len(content.held) = Len(v)
                                     /\ \A i \in 1 .. Len(v) : content.held[i].text = v[i]
           /\ Holds(content, v) => Holds(Spoil(content), v)
           /\ Begins(content, v) => Begins(Spoil(content), v)
           /\ \A n \in Nat : Saved(content, n) => Saved(Spoil(content), n)
<1>1. /\ Texts(content) \in Seq(Nat) /\ Len(Texts(content)) = Len(content.held)
      /\ \A i \in 1 .. Len(content.held) : Texts(content)[i] = content.held[i].text
  BY TextsParts
<1>2. \A s, t \in Seq(Nat) : s = t <=> Len(s) = Len(t) /\ \A i \in 1 .. Len(t) : s[i] = t[i]
  <2>1. \A s \in Seq(Nat) : DOMAIN s = 1 .. Len(s) /\ s = [i \in 1 .. Len(s) |-> s[i]]
    OBVIOUS
  <2> QED BY <2>1
<1>3. Texts(content) = v <=> /\ Len(content.held) = Len(v)
                             /\ \A i \in 1 .. Len(v) : content.held[i].text = v[i]
  <2>1. Texts(content) = v => Len(content.held) = Len(v)
    BY <1>1
  <2>2. Texts(content) = v => \A i \in 1 .. Len(v) : content.held[i].text = v[i]
    BY <1>1
  <2>3. ASSUME Len(content.held) = Len(v), \A i \in 1 .. Len(v) : content.held[i].text = v[i]
        PROVE  Texts(content) = v
    <3>1. Len(Texts(content)) = Len(v) /\ \A i \in 1 .. Len(v) : Texts(content)[i] = v[i]
      BY <1>1, <2>3
    <3>2. Texts(content) \in Seq(Nat)
      BY <1>1
    <3> HIDE DEF Texts
    <3> QED BY <1>2, <3>1, <3>2
  <2> QED BY <2>1, <2>2, <2>3
<1>4. Holds(content, v) => Holds(Spoil(content), v)
  BY SpoilParts DEF Holds
<1>5. Begins(content, v) => Begins(Spoil(content), v)
  BY SpoilParts DEF Begins
<1>6. \A n \in Nat : Saved(content, n) => Saved(Spoil(content), n)
  BY SpoilParts DEF Saved
<1> QED BY <1>3, <1>4, <1>5, <1>6

\* What may happen to the slot behind the script's back leaves a beginning.
LEMMA BeginsStays ==
    ASSUME OwnTypeOK, NEW v \in Seq(Nat), SlotStays \/ SlotCut
    PROVE  /\ Len(slot'.held) <= Len(slot.held)
           /\ \A i \in 1 .. Len(slot'.held) : slot'.held[i] = slot.held[i]
           /\ Begins(slot, v) => Begins(slot', v)
<1>1. slot \in Content /\ Len(slot.held) \in Nat /\ Len(v) \in Nat
  BY ContentParts DEF OwnTypeOK
<1>2. CASE slot' = slot
  BY <1>1, <1>2
<1>3. CASE slot' = Empty
  <2>1. slot'.held = <<>> /\ Len(slot'.held) = 0
    BY <1>3 DEF Empty
  <2> QED BY <1>1, <2>1 DEF Begins
<1>4. CASE SlotCut
  <2>1. PICK k \in 0 .. Len(slot.held) : slot' = [held |-> SubSeq(slot.held, 1, k), other |-> TRUE]
    BY <1>4 DEF SlotCut
  <2>2. /\ Len(slot'.held) = k /\ k <= Len(slot.held) /\ k \in Nat
        /\ \A i \in 1 .. k : slot'.held[i] = slot.held[i]
    BY <1>1, <2>1, CutParts
  <2> QED BY SMTT(30), <1>1, <2>2 DEF Begins
<1> QED BY <1>2, <1>3, <1>4 DEF SlotStays

LEMMA WithinContent == Within(SourceContent, BaseTexts)
BY SourceContentParts, Numbers DEF Within

LEMMA CorpusTexts ==
    ASSUME ScriptOK, Goal
    PROVE  goal \in Seq(1 .. Corpus)
<1>1. /\ goal \in Seq(Nat) /\ Len(goal) \in Nat
      /\ goal = [i \in 1 .. Len(goal) |-> goal[i]]
      /\ \A i \in 1 .. Len(goal) : goal[i] \in 1 .. Corpus
  BY DEF ScriptOK, Goal
<1>2. goal \in [1 .. Len(goal) -> 1 .. Corpus]
  BY <1>1
<1>3. \A S : \A n \in Nat : [1 .. n -> S] \subseteq Seq(S)
  OBVIOUS
<1> QED BY <1>1, <1>2, <1>3

LEMMA TextsInit == Init => VInv
<1> SUFFICES ASSUME Init PROVE VInv
  OBVIOUS
<1>1. WInv /\ TInv
  BY OrderInit DEF WInv
<1>2. \A r \in Runs : results[r] = NoResult
  BY DEF Init
<1>3. /\ run = 0 /\ pc = "begin" /\ ~second /\ goal = <<>> /\ offset = 0 /\ at = 0
      /\ slot.held = <<>> /\ 0 \in Runs
  BY Numbers DEF Init, OwnInit, Empty
<1>4. ~HasGoal /\ ~AfterSave /\ ~Revived
  BY <1>3 DEF HasGoal, AfterSave, Revived
<1>5. Vectors /\ Recorded
  <2>1. <<>> \in Seq(1 .. Corpus) /\ 0 <= Corpus
    BY Numbers
  <2> QED BY <1>2, <1>3, <2>1, NoResultParts DEF Vectors, Recorded, Whole, Passed
<1>6. Goal /\ Extension /\ Probe
  BY <1>3, <1>4, Numbers DEF Goal, Extension, Probe
<1> QED BY <1>1, <1>5, <1>6 DEF VInv, Texted

\* A pair that is pinned is pinned for good.
LEMMA PinStays ==
    ASSUME WInv, TInv', [Next]_vars, NEW r \in Runs, Whole(r), r # run \/ ~Writes
    PROVE  /\ Whole(r)' /\ results'[r].pin = results[r].pin /\ results'[r].texts = results[r].texts
           /\ results'[r].source = results[r].source /\ results'[r].offset = results[r].offset
           /\ results'[r].revived = results[r].revived /\ SourceOffset(r)' = SourceOffset(r)
<1>1. Kept(r) /\ Whole(r)'
  BY ResultsKept, WholeStays DEF WInv
<1> QED BY <1>1 DEF Whole, Kept, PinBase, SourceOffset

\* New pieces behind pieces of the first n keep them apart.
LEMMA Appended ==
    ASSUME NEW old \in Seq(Nat), NEW new \in Seq(Nat), NEW o \in Nat, NEW n \in Nat,
           Within(old, o), Len(new) = Len(old) + n,
           \A i \in 1 .. Len(old) : new[i] = old[i],
           \A i \in 1 .. n : new[Len(old) + i] = o + i
    PROVE  Within(new, o + n)
<1> DEFINE k == Len(old)
<1>1. /\ k \in Nat /\ k <= o /\ \A i \in 1 .. k : old[i] \in 1 .. o
      /\ \A i, j \in 1 .. k : i # j => old[i] # old[j]
  BY DEF Within
<1>2. ASSUME NEW i \in 1 .. k + n
      PROVE  \/ i \in 1 .. k /\ new[i] = old[i] /\ new[i] \in 1 .. o
             \/ i > k /\ new[i] = o + (i - k) /\ new[i] > o /\ new[i] \in 1 .. o + n
  <2>1. CASE i <= k
    BY <1>1, <2>1
  <2>2. CASE i > k
    <3>1. i - k \in 1 .. n /\ k + (i - k) = i
      BY <1>1, <2>2
    <3>2. new[i] = o + (i - k)
      BY <3>1
    <3> QED BY <1>1, <2>2, <3>1, <3>2
  <2> QED BY <1>1, <2>1, <2>2
<1>3. \A i \in 1 .. k + n : new[i] \in 1 .. o + n
  BY <1>1, <1>2
<1>4. ASSUME NEW i \in 1 .. k + n, NEW j \in 1 .. k + n, i < j PROVE new[i] # new[j]
  <2>1. CASE j <= k
    <3>1. i \in 1 .. k /\ j \in 1 .. k /\ i # j
      BY <1>1, <1>4, <2>1
    <3> QED BY <1>1, <3>1
  <2>2. CASE j > k
    <3>1. new[j] = o + (j - k) /\ new[j] > o
      BY <1>1, <1>2, <2>2
    <3>2. CASE i <= k
      <4>1. i \in 1 .. k /\ new[i] = old[i]
        BY <1>1, <3>2
      <4>2. new[i] \in 1 .. o
        BY <1>1, <4>1
      <4> QED BY <3>1, <4>2
    <3>3. CASE i > k
      <4>1. new[i] = o + (i - k)
        BY <1>1, <1>2, <3>3
      <4> QED BY <1>1, <1>4, <3>1, <4>1
    <3> QED BY <1>1, <3>2, <3>3
  <2> QED BY <1>1, <2>1, <2>2
<1>5. \A i, j \in 1 .. k + n : i # j => new[i] # new[j]
  <2>1. \A i, j \in 1 .. k + n : i # j => i < j \/ j < i
    BY <1>1
  <2> QED BY <1>4, <2>1
<1>6. k + n <= o + n /\ Len(new) = k + n
  BY <1>1
<1> QED BY <1>3, <1>5, <1>6 DEF Within

\* A new vector is the source's and unused pieces behind it.
LEMMA PlanParts ==
    ASSUME WInv, Texted, NEW n \in 1 .. MaxGrow + 1, NEW m \in 1 .. MaxGrow + 1, ExtendPlan(n, m)
    PROVE  /\ run > 0 /\ Whole(source) /\ source \in Runs /\ source < run
           /\ offset' <= Corpus /\ Within(goal', offset') /\ Len(goal') <= Corpus
           /\ \A i \in 1 .. Len(goal') : goal'[i] \in 1 .. Corpus
           /\ Len(results[source].pin.held) < Len(goal') /\ at' = Len(results[source].pin.held)
           /\ \A i \in 1 .. Len(results[source].pin.held) :
                 goal'[i] = results[source].pin.held[i].text
<1>1. /\ run > 0 /\ ~second /\ pc = "plan" /\ n <= m /\ offset + m <= Corpus
      /\ goal' = LiteralExtension(n) /\ offset' = offset + m
      /\ at' = Len(results[source].pin.held)
  BY Numbers DEF ExtendPlan, WInv, TInv, ScriptOK, Turns, Probing
<1>2. Whole(source) /\ offset = SourceOffset(source) /\ source < run /\ source \in Runs
  BY <1>1 DEF WInv, Resumes, Bare, Turns, TInv, ScriptOK
<1> DEFINE old == results[source].pin
           texts == results[source].texts
<1>3. Holds(old, texts) /\ Within(texts, offset)
  BY <1>2 DEF Texted, Vectors
<1>4. old \in Content /\ texts \in Seq(Nat) /\ Len(texts) \in Nat
  BY <1>2, OutcomeParts DEF WInv, TInv, DiskOK
<1>5. offset \in Nat /\ n \in Nat /\ m \in Nat /\ n > 0 /\ Corpus \in Nat
  BY Numbers DEF WInv, TInv, ScriptOK
<1>6. Len(old.held) = Len(texts) /\ \A i \in 1 .. Len(texts) : old.held[i].text = texts[i]
  BY <1>3, <1>4, HoldsParts DEF Holds
<1>7. /\ goal' \in Seq(Nat) /\ Len(goal') = Len(old.held) + n
      /\ \A i \in 1 .. Len(old.held) : goal'[i] = old.held[i].text
      /\ \A i \in 1 .. n : goal'[Len(old.held) + i] = offset + i
  BY <1>1, <1>5, ExtensionParts DEF WInv, TInv
<1> HIDE DEF old, texts
<1>8. Within(goal', offset + n)
  BY <1>3, <1>4, <1>5, <1>6, <1>7, Appended
<1>9. /\ Len(goal') \in Nat /\ Len(goal') <= offset + n /\ offset + n <= offset'
      /\ offset' \in Nat /\ offset' <= Corpus /\ offset + n \in Nat
  BY <1>1, <1>5, <1>7, <1>8 DEF Within
<1>10. \A i \in 1 .. Len(goal') : goal'[i] \in 1 .. offset' /\ goal'[i] \in 1 .. Corpus
  <2> SUFFICES ASSUME NEW i \in 1 .. Len(goal')
               PROVE  goal'[i] \in 1 .. offset' /\ goal'[i] \in 1 .. Corpus
    OBVIOUS
  <2>1. goal'[i] \in 1 .. offset + n
    BY <1>8 DEF Within
  <2> QED BY <1>5, <1>9, <2>1
<1>11. Within(goal', offset') /\ Len(goal') <= Corpus
  BY <1>5, <1>8, <1>9, <1>10 DEF Within
<1>12. Len(old.held) < Len(goal')
  BY <1>4, <1>5, <1>6, <1>7
<1> QED BY <1>1, <1>2, <1>7, <1>9, <1>10, <1>11, <1>12 DEF old

LEMMA GoalStep == VInv /\ WInv' /\ [Next]_vars => Goal'
<1> SUFFICES ASSUME VInv, WInv', [Next]_vars PROVE Goal'
  OBVIOUS
<1>1. /\ WInv /\ TInv /\ TInv' /\ Turns /\ Written /\ Resumes
      /\ Goal /\ Recorded /\ Probe /\ Vectors /\ Texted
  BY DEF VInv, WInv, Texted
<1>2. /\ run \in Runs /\ Runs \subseteq Nat /\ at \in Nat /\ offset \in Nat /\ goal \in Seq(Nat)
      /\ Corpus \in Nat /\ BaseTexts \in Nat /\ BaseTexts <= Corpus /\ Len(goal) \in Nat
      /\ source \in Runs
  BY <1>1, Numbers DEF TInv, ScriptOK
<1>3. CASE NextRun
  <2>1. goal' = <<>> /\ Len(goal') = 0 /\ offset' = 0 /\ at' = 0 /\ ~HasGoal'
    BY <1>3 DEF NextRun, HasGoal, AfterSave
  <2> QED BY <1>2, <2>1 DEF Goal
<1>4. CASE ProbePlan
  <2>1. /\ run = 0 /\ run' = run /\ goal' = SourceContent /\ UNCHANGED <<offset, at>> /\ at = 0
    BY <1>1, <1>4 DEF ProbePlan, Probing, Turns, Probe
  <2>2. /\ Len(goal') = BaseTexts /\ \A i \in 1 .. Len(goal') : goal'[i] \in 1 .. Corpus
    BY <1>2, <2>1, SourceContentParts
  <2> QED BY <1>1, <1>2, <2>1, <2>2 DEF Goal
<1>5. CASE \E n, m \in 1 .. MaxGrow + 1 : ExtendPlan(n, m)
  <2>1. PICK n \in 1 .. MaxGrow + 1, m \in 1 .. MaxGrow + 1 : ExtendPlan(n, m)
    BY <1>5
  <2>2. /\ run > 0 /\ offset' <= Corpus /\ Within(goal', offset') /\ Len(goal') <= Corpus
        /\ \A i \in 1 .. Len(goal') : goal'[i] \in 1 .. Corpus
        /\ Len(results[source].pin.held) < Len(goal') /\ at' = Len(results[source].pin.held)
        /\ \A i \in 1 .. Len(results[source].pin.held) :
                 goal'[i] = results[source].pin.held[i].text
    BY <1>1, <2>1, PlanParts
  <2>3. results' = results /\ source' = source /\ run' = run
    BY <2>1 DEF ExtendPlan, disk
  <2>4. at' <= Len(goal') /\ at' <= Corpus
    <3>1. at' \in Nat /\ Len(goal') \in Nat
      BY <1>1 DEF TInv, ScriptOK
    <3> QED BY <1>2, <2>2, <3>1
  <2> QED BY <1>2, <2>2, <2>3, <2>4 DEF Goal
<1>6. CASE ~NextRun /\ ~ProbePlan /\ ~\E n, m \in 1 .. MaxGrow + 1 : ExtendPlan(n, m)
  <2>1. /\ run' = run /\ goal' = goal /\ (HasGoal' => HasGoal)
        /\ source' = source \/ \E r \in Runs : ReadSource(r)
        /\ offset' = offset \/ OfflineCheck
        /\ at' = at \/ ProbeStep \/ ExtendStep
    BY <1>1, <1>6, ScriptKept, OtherArrivals
  <2>2. offset' <= Corpus /\ (offset' = offset \/ ~HasGoal')
    <3>1. CASE OfflineCheck
      BY <1>1, <1>2, <3>1 DEF OfflineCheck, SourceOffset, Recorded, HasGoal, AfterSave, Turns
    <3> QED BY <1>1, <2>1, <3>1 DEF Goal
  <2>3. at' <= Corpus /\ (HasGoal' => at' <= Len(goal))
    <3>1. CASE ProbeStep \/ ExtendStep
      <4>1. at' = at + 1 /\ at < Len(goal)
        BY <3>1 DEF ProbeStep, ExtendStep
      <4> QED BY <1>1, <1>2, <4>1 DEF Goal
    <3> QED BY <1>1, <2>1, <3>1 DEF Goal
  <2>4. run > 0 /\ HasGoal' =>
           /\ source' = source /\ results'[source].pin = results[source].pin
    <3>1. SUFFICES ASSUME run > 0, HasGoal'
                   PROVE  source' = source /\ results'[source].pin = results[source].pin
      OBVIOUS
    <3>2. source' = source
      BY <2>1, <3>1 DEF ReadSource, HasGoal, AfterSave
    <3>3. Whole(source) /\ source < run
      BY <1>1, <2>1, <3>1 DEF Resumes, Turns
    <3>4. source # run
      BY <1>2, <3>3
    <3> QED BY <1>1, <1>2, <3>2, <3>3, <3>4, PinStays
  <2> QED BY <1>1, <2>1, <2>2, <2>3, <2>4 DEF Goal
<1> QED BY <1>3, <1>4, <1>5, <1>6

\* Where a result that may be resumed comes from.
LEMMA WholeOrigin ==
    ASSUME WInv, TInv', [Next]_vars, NEW r \in Runs, Whole(r)'
    PROVE  \/ /\ Whole(r) /\ results'[r].pin = results[r].pin /\ results'[r].texts = results[r].texts
              /\ results'[r].source = results[r].source /\ results'[r].offset = results[r].offset
              /\ results'[r].revived = results[r].revived
           \/ r = 0 /\ PinBase
           \/ r = run /\ ExtendGate
<1>1. TInv /\ Turns /\ Written /\ run \in Runs /\ 0 \in Runs /\ Runs \subseteq Nat
  BY Numbers DEF WInv, TInv, ScriptOK
<1>2. CASE r # run \/ ~Writes
  <2>1. Kept(r)
    BY <1>1, <1>2, ResultsKept
  <2>2. results[r].status # "none"
    BY <1>1, <2>1 DEF Kept, Whole, Written
  <2> QED BY <2>1, <2>2 DEF Kept, Whole
<1>3. CASE r = run /\ Writes /\ ~ExtendGate
  <2>1. pc # "end"
    BY <1>3 DEF Writes, ParseSaved, RestoreAgain, ProbeGate, ExtendGate, ProbeHandler, ExtendHandler
  <2>2. CASE run > 0
    <3>1. results[run].status = "none" /\ ~ProbeGate /\ ~ProbeHandler
      BY <1>1, <2>1, <2>2 DEF Written, ProbeGate, ProbeHandler, Probing
    <3> QED BY <1>1, <1>3, <3>1, WritesParts, NoResultParts DEF Whole
  <2>3. CASE run = 0
    <3>1. ~ParseSaved /\ ~ExtendHandler /\ (ProbeGate \/ RestoreAgain => results[run].status = "none")
      BY <1>1, <2>3 DEF Turns, Written, ParseSaved, ExtendHandler, Probing, ProbeGate, RestoreAgain,
                        Body, Points
    <3>2. ProbeGate => results[run].pin = Absent
      BY <1>1, <2>3, <3>1 DEF Written, Passed
    <3> QED BY <1>1, <1>3, <2>3, <3>1, <3>2, WritesParts, NoResultParts DEF Whole
  <2> QED BY <1>1, <2>2, <2>3
<1> QED BY <1>2, <1>3

\* What the gate writes when a run passes.
LEMMA PassParts ==
    ASSUME WInv, TInv', [Next]_vars, Passed(run)', ~Passed(run), ~NextRun
    PROVE  /\ pc = "gate" /\ second /\ exact /\ AfterSave /\ Revived /\ HasGoal
           /\ results'[run].texts = goal /\ results'[run].source = source
           /\ results'[run].offset = offset /\ results'[run].pin = results[run].pin
           /\ results'[run].revived = results[run].revived
           /\ run' = run /\ UNCHANGED <<files, spoilt>>
<1>1. TInv /\ Turns /\ Written /\ run \in Runs /\ run' = run
  BY RunStays DEF WInv, TInv, ScriptOK
<1>2. results'[run].status = "PASS" /\ results[run].status # "PASS"
  BY <1>1 DEF Passed
<1>3. Writes
  BY <1>1, <1>2, ResultsKept DEF Kept
<1>4. /\ ProbeGate \/ ExtendGate
      /\ exact /\ results'[run].texts = goal /\ results'[run].source = source
      /\ results'[run].offset = offset /\ results'[run].pin = results[run].pin
      /\ results'[run].revived = results[run].revived
  BY <1>1, <1>2, <1>3, WritesParts, NoResultParts
<1>5. pc = "gate" /\ UNCHANGED <<files, spoilt>>
  BY <1>4 DEF ProbeGate, ExtendGate
<1> QED BY <1>1, <1>4, <1>5 DEF Turns, AfterSave, Revived, HasGoal

LEMMA GatePasses ==
    ASSUME WInv, TInv', ExtendGate
    PROVE  Passed(run)' /\ ~Passed(run) /\ run > 0
<1>1. run \in Nat /\ run # 0 /\ run' = run /\ pc = "gate"
  BY Numbers DEF WInv, TInv, ScriptOK, ExtendGate, Goto, Probing
<1>2. Verdict("PASS") /\ "PASS" \in Statuses
  BY DEF ExtendGate, Statuses
<1>3. results'[run].status = "PASS"
  BY <1>2, VerdictParts DEF WInv, TInv
<1>4. results[run].status = "none"
  BY <1>1 DEF WInv, Written, Body, Points
<1> QED BY <1>1, <1>3, <1>4 DEF Passed

LEMMA VectorsStep == VInv /\ WInv' /\ [Next]_vars => Vectors'
<1> SUFFICES ASSUME VInv, WInv', [Next]_vars PROVE Vectors'
  OBVIOUS
<1>1. /\ WInv /\ TInv /\ TInv' /\ Turns /\ Written /\ Resumes
      /\ Vectors /\ Goal /\ Recorded /\ Extension
  BY DEF VInv, WInv, Texted
<1>2. SUFFICES ASSUME NEW r \in Runs, Whole(r)'
               PROVE  /\ Holds(results'[r].pin, results'[r].texts)
                      /\ Within(results'[r].texts, SourceOffset(r)') /\ SourceOffset(r)' <= Corpus
                      /\ Len(results'[r].pin.held) > 0
  BY DEF Vectors, Holds, Within
<1>3. CASE /\ Whole(r) /\ results'[r].pin = results[r].pin /\ results'[r].texts = results[r].texts
           /\ results'[r].offset = results[r].offset
  <2>1. SourceOffset(r)' = SourceOffset(r)
    BY <1>3 DEF SourceOffset
  <2> QED BY <1>1, <1>3, <2>1 DEF Vectors
<1>4. CASE r = 0 /\ PinBase
  <2>1. Passed(0) /\ results'[0].pin = files[0] /\ results'[0].texts = results[0].texts
    BY <1>1, <1>4, PinBaseParts DEF TInv, PinBase, Passed
  <2>2. results[0].texts = SourceContent /\ Holds(files[0], SourceContent)
    BY <1>1, <2>1 DEF Recorded
  <2>3. Len(files[0].held) = BaseTexts
    BY <1>1, <1>4, <2>2, HoldsParts, SourceContentParts, DiskParts DEF Holds, TInv
  <2> QED BY <1>4, <2>1, <2>2, <2>3, WithinContent, Numbers DEF SourceOffset
<1>5. CASE r = run /\ ExtendGate
  <2>1. Passed(run)' /\ ~Passed(run) /\ run > 0
    BY <1>1, <1>5, GatePasses
  <2>2. ~NextRun
    BY <1>5 DEF ExtendGate, NextRun
  <2>3. /\ AfterSave /\ HasGoal
        /\ results'[run].texts = goal /\ results'[run].offset = offset
        /\ results'[run].pin = results[run].pin
    BY <1>1, <2>1, <2>2, PassParts
  <2>4. Holds(results[run].pin, goal) /\ Within(goal, offset) /\ offset <= Corpus
        /\ Len(results[source].pin.held) < Len(goal)
    BY <1>1, <2>1, <2>3 DEF Extension, Goal
  <2>5. /\ goal \in Seq(Nat) /\ Len(goal) \in Nat /\ results[run].pin \in Content
        /\ Len(results[source].pin.held) \in Nat
    BY SMTT(30), <1>1, OutcomeParts, ContentParts DEF TInv, ScriptOK, DiskOK
  <2>6. Len(results[run].pin.held) > 0
    BY <2>4, <2>5, HoldsParts DEF Holds
  <2>7. SourceOffset(r)' = offset
    BY <1>5, <2>1, <2>3 DEF SourceOffset
  <2> QED BY <1>5, <2>3, <2>4, <2>6, <2>7
<1> QED BY <1>1, <1>2, <1>3, <1>4, <1>5, WholeOrigin

LEMMA RecordedStep == VInv /\ WInv' /\ [Next]_vars => Recorded'
<1> SUFFICES ASSUME VInv, WInv', [Next]_vars PROVE Recorded'
  OBVIOUS
<1>1. /\ WInv /\ TInv /\ TInv' /\ Turns /\ Written /\ Goal /\ Recorded /\ Extension /\ Probe
  BY DEF VInv, WInv, Texted
<1>2. /\ run \in Runs /\ 0 \in Runs /\ Runs \subseteq Nat
      /\ \A r \in Runs : results[r] \in OutcomeType /\ files[r] \in Content
  BY <1>1, Numbers DEF TInv, ScriptOK, DiskOK
<1>3. \A r \in Runs : results'[r].texts \in Seq(1 .. Corpus) /\ results'[r].offset <= Corpus
  <2>1. SUFFICES ASSUME NEW r \in Runs
                 PROVE  results'[r].texts \in Seq(1 .. Corpus) /\ results'[r].offset <= Corpus
    OBVIOUS
  <2>2. results[r].texts \in Seq(1 .. Corpus) /\ results[r].offset <= Corpus
    BY <1>1 DEF Recorded
  <2>3. CASE r # run \/ ~Writes
    BY <1>1, <2>2, <2>3, ResultsKept DEF Kept
  <2>4. CASE r = run /\ Writes
    <3>1. goal \in Seq(1 .. Corpus) /\ offset <= Corpus /\ <<>> \in Seq(1 .. Corpus) /\ 0 <= Corpus
      BY <1>1, CorpusTexts, Numbers DEF TInv, Goal
    <3> QED BY <1>1, <2>2, <2>4, <3>1, WritesParts, NoResultParts
  <2> QED BY <2>3, <2>4
<1>4. CASE NextRun
  <2>1. UNCHANGED <<results, files>>
    BY <1>4 DEF NextRun, disk
  <2>2. \A r \in Runs : Passed(r)' <=> Passed(r)
    BY <2>1 DEF Passed
  <2> QED BY <1>1, <1>3, <2>1, <2>2, <1>2 DEF Recorded, Passed
<1>5. CASE ~NextRun
  <2>1. ASSUME NEW r \in Runs, Passed(r)', Passed(r)
        PROVE  results'[r].texts = results[r].texts /\ results'[r].revived = results[r].revived
    <3>1. CASE r # run \/ ~Writes
      BY <1>1, <3>1, ResultsKept DEF Kept
    <3>2. CASE r = run /\ Writes
      <4>1. ~ParseSaved /\ ~RestoreAgain /\ ~ProbeGate /\ ~ExtendGate
        BY <1>1, <2>1, <3>2 DEF Written, Passed, ParseSaved, RestoreAgain, ProbeGate, ExtendGate,
                                Body, Points
      <4>2. results[run].status = "PASS" /\ results'[run].status = "PASS"
        BY <2>1, <3>2 DEF Passed
      <4> QED BY <1>1, <3>2, <4>1, <4>2, WritesParts, NoResultParts
    <3> QED BY <3>1, <3>2
  <2>2. ASSUME NEW r \in Runs, Passed(r)', ~Passed(r) PROVE r = run
    <3>1. SUFFICES ASSUME r # run PROVE FALSE
      OBVIOUS
    <3> QED BY <1>1, <2>2, <3>1, ResultsKept DEF Kept, Passed
  <2>3. ASSUME Passed(run)', ~Passed(run)
        PROVE  /\ Holds(results'[run].revived, results'[run].texts)
               /\ run = 0 => results'[run].texts = SourceContent /\ Holds(files[0], SourceContent)
    <3>1. /\ pc = "gate" /\ exact /\ AfterSave /\ Revived /\ HasGoal
          /\ results'[run].texts = goal /\ results'[run].revived = results[run].revived
      BY <1>1, <1>5, <2>3, PassParts
    <3>2. run = 0 \/ run > 0
      BY <1>2
    <3> QED BY <1>1, <3>1, <3>2 DEF Extension, Probe, Goal
  <2>4. \A r \in Runs : Passed(r)' => Holds(results'[r].revived, results'[r].texts)
    <3>1. SUFFICES ASSUME NEW r \in Runs, Passed(r)'
                   PROVE  Holds(results'[r].revived, results'[r].texts)
      OBVIOUS
    <3>2. CASE Passed(r)
      BY <1>1, <2>1, <3>1, <3>2 DEF Recorded
    <3>3. CASE ~Passed(r)
      <4>1. r = run /\ run' = run
        BY <1>5, <2>2, <3>1, <3>3, RunStays
      <4>2. Passed(run)' /\ ~Passed(run)
        BY <3>1, <3>3, <4>1 DEF Passed
      <4> QED BY <2>3, <4>1, <4>2
    <3> QED BY <3>2, <3>3
  <2>5. Passed(0)' => results'[0].texts = SourceContent /\ Holds(files'[0], SourceContent)
    <3>1. SUFFICES ASSUME Passed(0)'
                   PROVE  results'[0].texts = SourceContent /\ Holds(files'[0], SourceContent)
      OBVIOUS
    <3>2. CASE Passed(0)
      <4>1. results[0].texts = SourceContent /\ Holds(files[0], SourceContent)
        BY <1>1, <3>2 DEF Recorded
      <4>2. results'[0].texts = results[0].texts
        BY <1>2, <2>1, <3>1, <3>2
      <4>3. ~(0 = run /\ (CopyPair \/ ProbeSave \/ ExtendSave))
        BY <1>1, <3>2 DEF Turns, Written, Passed, CopyPair, ProbeSave, ExtendSave, Probing, Body, Points
      <4>4. files'[0] = files[0] \/ files'[0] = Spoil(files[0])
        BY <1>1, <1>2, <4>3, FilesKept
      <4> QED BY <1>2, <4>1, <4>2, <4>4, HoldsParts, SourceContentParts
    <3>3. CASE ~Passed(0)
      <4>1. run = 0 /\ run' = run
        BY <1>2, <1>5, <2>2, <3>1, <3>3, RunStays
      <4>2. Passed(run)' /\ ~Passed(run)
        BY <3>1, <3>3, <4>1 DEF Passed
      <4>3. files' = files
        BY <1>1, <1>5, <4>2, PassParts
      <4> QED BY <2>3, <4>1, <4>2, <4>3
    <3> QED BY <3>2, <3>3
  <2>6. \A r \in Runs : Holds(results[r].revived, results[r].texts)'
                          <=> Holds(results'[r].revived, results'[r].texts)
    BY DEF Holds
  <2>7. (Holds(files[0], SourceContent))' <=> Holds(files'[0], SourceContent)
    BY DEF Holds
  <2> QED BY <1>3, <2>4, <2>5, <2>6, <2>7 DEF Recorded
<1> QED BY <1>4, <1>5

LEMMA ExtensionStep == VInv /\ WInv' /\ [Next]_vars => Extension'
<1> SUFFICES ASSUME VInv, WInv', [Next]_vars, run' > 0
             PROVE  /\ AfterSave' => Holds(results'[run'].pin, goal') /\ Holds(files'[run'], goal')
                    /\ Revived' => Holds(results'[run'].revived, goal')
  BY DEF Extension, Holds
<1>1. /\ WInv /\ TInv /\ TInv' /\ Turns /\ Written /\ Extension
      /\ run \in Runs /\ goal \in Seq(Nat) /\ files[run] \in Content /\ Runs \subseteq Nat
  BY Numbers DEF VInv, WInv, Texted, TInv, ScriptOK, DiskOK
<1>2. CASE NextRun
  BY <1>2 DEF NextRun, AfterSave, Revived
<1>3. CASE ~NextRun
  <2>1. run' = run /\ run > 0
    BY <1>3, RunStays
  <2>2. CASE AfterSave'
    <3>1. AfterSave \/ ParseSaved
      BY <1>1, <1>3, <2>1, <2>2, AfterSaveArrivals DEF TInv, ProbeSave, Probing
    <3>2. goal' = goal
      BY <1>1, <1>3, <3>1, ScriptKept DEF AfterSave, ProbePlan, ExtendPlan, ParseSaved, Turns
    <3>3. CASE ParseSaved
      <4>1. results'[run].pin = files[run] /\ files' = files /\ Holds(files[run], goal)
        BY <1>1, <3>3, ParseSavedParts DEF TInv, ParseSaved, Holds
      <4>2. ~Revived'
        BY <1>1, <2>1, <3>3 DEF ParseSaved, Goto, Revived, Turns
      <4> QED BY <2>1, <3>2, <4>1, <4>2
    <3>4. CASE AfterSave /\ ~ParseSaved
      <4>1. Holds(results[run].pin, goal) /\ Holds(files[run], goal)
            /\ (Revived => Holds(results[run].revived, goal))
        BY <1>1, <2>1, <3>4 DEF Extension
      <4>2. files'[run] = files[run] \/ files'[run] = Spoil(files[run])
        BY <1>1, <3>4, FilesKept DEF CopyPair, ProbeSave, ExtendSave, AfterSave
      <4>3. Holds(files'[run], goal)
        BY <1>1, <4>1, <4>2, HoldsParts
      <4>4. CASE RestoreAgain
        <5>1. results'[run].pin = results[run].pin /\ results'[run].revived = slot'
          BY <1>1, <4>4, RestoreAgainParts DEF TInv, OwnTypeOK
        <5>2. slot' = files[run]
          BY <4>4 DEF RestoreAgain, RestoreFrom
        <5> QED BY <2>1, <3>2, <4>1, <4>3, <5>1, <5>2
      <4>5. CASE ~RestoreAgain
        <5>1. ~Writes
          BY <2>2, <3>4, <4>5 DEF Writes, ProbeGate, ExtendGate, ProbeHandler, ExtendHandler,
             AfterSave, Goto
        <5>2. results'[run].pin = results[run].pin /\ results'[run].revived = results[run].revived
          BY <1>1, <2>1, <5>1, ResultsKept DEF Kept
        <5>3. Revived' => Revived
          BY <1>1, <1>3, <4>5, OtherArrivals
        <5> QED BY <2>1, <3>2, <4>1, <4>3, <5>2, <5>3
      <4> QED BY <4>4, <4>5
    <3> QED BY <3>1, <3>3, <3>4
  <2>3. Revived' => AfterSave'
    BY DEF Revived, AfterSave
  <2> QED BY <2>2, <2>3
<1> QED BY <1>2, <1>3

\* Before its vector, and while it works on it.
LEMMA ProbeSlot ==
    ASSUME VInv, WInv', [Next]_vars, run' = 0
    PROVE  /\ ~second' /\ pc' \in {"begin", "launch", "ready", "plan"} => at' = 0 /\ slot'.held = <<>>
           /\ pc' \in {"step", "save"} => Begins(slot', goal') /\ Len(slot'.held) <= at'
<1>1. /\ WInv /\ TInv /\ TInv' /\ Turns /\ Probe /\ Goal
      /\ run \in Nat /\ goal \in Seq(Nat) /\ slot \in Content /\ at \in Nat /\ Len(goal) \in Nat
  BY Numbers DEF VInv, WInv, Texted, TInv, ScriptOK, OwnTypeOK
<1>2. ~NextRun
  BY <1>1 DEF NextRun
<1>3. run = 0
  BY <1>2, RunStays
<1>4. ASSUME ~second', pc' \in {"begin", "launch", "ready", "plan"}
      PROVE  at' = 0 /\ slot'.held = <<>>
  <2>1. ~second /\ pc \in {"begin", "launch", "ready", "plan"}
    BY <1>1, <1>2, <1>3, <1>4, OtherArrivals
  <2>2. at = 0 /\ slot.held = <<>>
    BY <1>1, <1>3, <2>1 DEF Probe
  <2>3. at' = at
    BY <1>1, <1>2, <1>3, <2>1, ScriptKept DEF ProbeStep, ExtendStep, ExtendPlan, Probing
  <2>4. SlotStays \/ SlotCut
    BY <1>1, <2>1, SlotKept DEF ProbeStep, ExtendStep, Query, ExtendRestore, RestoreAgain
  <2>5. Len(slot'.held) <= Len(slot.held) /\ slot'.held \in Seq(Piece)
    BY <1>1, <2>4, BeginsStays, ContentParts DEF TInv, OwnTypeOK
  <2>6. Len(slot'.held) = 0
    BY <2>2, <2>5
  <2> QED BY <2>2, <2>3, <2>5, <2>6
<1>5. ASSUME pc' \in {"step", "save"} PROVE Begins(slot', goal') /\ Len(slot'.held) <= at'
  <2>1. CASE ProbePlan
    <3>1. at = 0 /\ slot.held = <<>> /\ UNCHANGED <<at, slot>> /\ Len(slot.held) = 0
      BY <1>1, <1>3, <2>1 DEF ProbePlan, own, Probe, Turns
    <3>2. Len(goal') \in Nat
      BY <1>1 DEF TInv, ScriptOK
    <3> QED BY <3>1, <3>2 DEF Begins
  <2>2. CASE ProbeStep
    <3>1. /\ at + 1 \in 0 .. Len(goal) /\ at' = at + 1 /\ goal' = goal
          /\ \E c \in 0 .. at + 1 : CompletePrefix(Prefix(at + 1), c)
      BY <1>1, <2>2 DEF ProbeStep
    <3>2. PICK c \in 0 .. at + 1 : CompletePrefix(Prefix(at + 1), c)
      BY <3>1
    <3>3. /\ Prefix(at + 1) \in Seq(Nat) /\ Len(Prefix(at + 1)) = at + 1
          /\ \A i \in 1 .. at + 1 : Prefix(at + 1)[i] = goal[i]
      BY <1>1, <3>1, PrefixOfGoal DEF TInv
    <3>4. /\ Len(slot'.held) = at + 1
          /\ \A i \in 1 .. at + 1 : slot'.held[i].text = Prefix(at + 1)[i]
      <4>1. c \in Nat /\ OwnTypeOK
        BY <1>1 DEF TInv
      <4> QED BY <3>2, <3>3, <4>1, PrefixStep
    <3> QED BY <1>1, <3>1, <3>3, <3>4 DEF Begins
  <2>3. CASE ~ProbePlan /\ ~ProbeStep
    <3>1. pc \in {"step", "save"}
      BY <1>1, <1>2, <1>3, <1>5, <2>3, OtherArrivals DEF ExtendRestore, Turns
    <3>2. Begins(slot, goal) /\ Len(slot.held) <= at
      BY <1>1, <1>3, <3>1 DEF Probe
    <3>3. goal' = goal /\ at' = at
      BY <1>1, <1>2, <1>3, <2>3, <3>1, ScriptKept DEF ExtendStep, ExtendPlan, Probing
    <3>4. SlotStays \/ SlotCut
      BY <1>1, <1>3, <2>3, <3>1, SlotKept DEF ExtendStep, Query, ExtendRestore, RestoreAgain, Probing
    <3>5. Begins(slot', goal) /\ Len(slot'.held) <= Len(slot.held)
      BY <1>1, <3>2, <3>4, BeginsStays DEF TInv
    <3>6. Len(slot'.held) \in Nat /\ Len(slot.held) \in Nat
      BY <1>1, ContentParts DEF TInv, OwnTypeOK
    <3> QED BY <1>1, <3>2, <3>3, <3>5, <3>6
  <2> QED BY <2>1, <2>2, <2>3
<1> QED BY <1>4, <1>5

\* Behind its save: what the exact counts show of the file.
LEMMA ProbeFile ==
    ASSUME VInv, WInv', [Next]_vars, run' = 0, AfterSave'
    PROVE  /\ Begins(files'[0], goal') /\ (exact' => Saved(files'[0], Len(goal')))
           /\ pc' = "query" /\ ~second' => Len(slot'.held) <= Len(files'[0].held)
           /\ (second' \/ pc' # "query") /\ exact' => Holds(files'[0], goal')
           /\ Revived' /\ exact' => Holds(results'[0].revived, goal')
<1>1. /\ WInv /\ TInv /\ TInv' /\ Turns /\ Probe /\ Goal /\ 0 \in Runs
      /\ run \in Nat /\ goal \in Seq(Nat) /\ slot \in Content /\ at \in Nat /\ Len(goal) \in Nat
      /\ files[0] \in Content /\ second \in BOOLEAN /\ second' \in BOOLEAN
  <2>1. WInv /\ TInv /\ TInv' /\ Turns /\ Probe /\ Goal
    BY DEF VInv, WInv, Texted
  <2>2. ScriptOK /\ ScriptOK' /\ DiskOK /\ OwnTypeOK
    BY <2>1 DEF TInv
  <2>3. 0 \in Runs /\ run \in Nat /\ goal \in Seq(Nat) /\ at \in Nat
        /\ second \in BOOLEAN /\ second' \in BOOLEAN
    BY <2>2, Numbers DEF ScriptOK
  <2>4. slot \in Content /\ files[0] \in Content
    BY <2>2, <2>3, DiskParts DEF OwnTypeOK
  <2> QED BY <2>1, <2>3, <2>4
<1>2. ~NextRun
  BY <1>1 DEF NextRun
<1>3. run = 0 /\ (exact' => exact)
  BY <1>1, <1>2, RunStays, ScriptKept
<1>4. AfterSave \/ ProbeSave
  BY <1>1, <1>2, <1>3, AfterSaveArrivals DEF TInv, ParseSaved, Turns
<1>5. goal' = goal
  BY <1>1, <1>2, <1>4, ScriptKept DEF AfterSave, ProbePlan, ExtendPlan, ProbeSave, Turns
<1>6. CASE ProbeSave
  <2>1. /\ pc = "save" /\ pc' = "query" /\ second' = second /\ ~second
        /\ files' = [files EXCEPT ![run] = slot] /\ slot' = slot
    BY <1>1, <1>6 DEF ProbeSave, SavesFile, own, Turns
  <2>2. files'[0] = slot
    BY <1>1, <1>3, <2>1 DEF TInv, DiskOK
  <2>3. Begins(slot, goal)
    BY <1>1, <1>3, <2>1 DEF Probe
  <2>4. exact' => Saved(slot, Len(goal))
    BY <1>6 DEF ProbeSave
  <2>5. Len(slot.held) <= Len(slot.held)
    BY <1>1, ContentParts
  <2> QED BY <1>5, <2>1, <2>2, <2>3, <2>4, <2>5 DEF Revived
<1>7. CASE AfterSave /\ ~ProbeSave
  <2>1. files'[0] = files[0] \/ files'[0] = Spoil(files[0])
    BY <1>1, <1>7, FilesKept DEF CopyPair, ProbeSave, ExtendSave, AfterSave
  <2>2. /\ Begins(files[0], goal)
        /\ exact => Saved(files[0], Len(goal))
        /\ pc = "query" /\ ~second => Len(slot.held) <= Len(files[0].held)
        /\ (second \/ pc # "query") /\ exact => Holds(files[0], goal)
        /\ Revived /\ exact => Holds(results[0].revived, goal)
    BY <1>1, <1>3, <1>7 DEF Probe
  <2>3. /\ Begins(files'[0], goal)
        /\ exact => Saved(files'[0], Len(goal))
        /\ Len(files'[0].held) = Len(files[0].held)
        /\ Holds(files[0], goal) => Holds(files'[0], goal)
    BY <1>1, <2>1, <2>2, HoldsParts, SpoilParts
  <2>4. ASSUME pc' = "query", ~second' PROVE Len(slot'.held) <= Len(files'[0].held)
    <3>1. pc = "query" /\ ~second
      BY <1>1, <1>2, <1>7, <2>4, OtherArrivals DEF ParseSaved, AfterSave
    <3>2. SlotStays \/ SlotCut
      BY <1>1, <2>4, <3>1, SlotKept DEF ProbeStep, ExtendStep, Query, ExtendRestore, RestoreAgain
    <3>3. Len(slot'.held) <= Len(slot.held)
      BY <1>1, <3>2, BeginsStays DEF TInv
    <3>4. Len(slot'.held) \in Nat /\ Len(slot.held) \in Nat /\ Len(files[0].held) \in Nat
      BY <1>1, ContentParts DEF TInv, OwnTypeOK
    <3> QED BY <2>2, <2>3, <3>1, <3>3, <3>4
  <2>5. ASSUME second' \/ pc' # "query", exact' PROVE Holds(files[0], goal)
    <3>1. CASE second \/ pc # "query"
      BY <1>3, <2>2, <2>5, <3>1
    <3>2. CASE ~second /\ pc = "query"
      <4>1. Query
        <5>1. pc' # "query"
          BY <1>1, <2>5, <3>2, Steps DEF ProbeBegin, OfflineCheck, ExtendPreflight, Ready, ProbePlan,
             StepsDone, ProbeReport, Raise, ReadSource, ExtendPlan, Launch, LaunchFails, ProbeClose,
             ExtendClose, RaiseInClose, ProbeFinally, ExtendRestore, ProbeStep, ExtendStep, Query,
             PinBase, CopyPair, ProbeSave, ExtendSave, ParseSaved, RestoreAgain, ProbeGate, ExtendGate,
             ProbeHandler, ExtendHandler, ReportDone, ReportRaises, Damage, NextRun, Goto, vars, script
        <5>2. pc' # "handler"
          BY <5>1 DEF AfterSave
        <5> QED BY <3>2, <5>1, <5>2, Steps DEF ProbeBegin, OfflineCheck, ExtendPreflight, Ready,
             ProbePlan, StepsDone, ProbeReport, Raise, ReadSource, ExtendPlan, Launch, LaunchFails,
             ProbeClose, ExtendClose, RaiseInClose, ProbeFinally, ExtendRestore, ProbeStep, ExtendStep,
             PinBase, CopyPair, ProbeSave, ExtendSave, ParseSaved, RestoreAgain, ProbeGate, ExtendGate,
             ProbeHandler, ExtendHandler, ReportDone, ReportRaises, Damage, NextRun, Goto, vars, script
      <4>2. PICK c \in 0 .. Len(goal) : CompleteQuery(goal, c) /\ exact' = (exact /\ c = Len(goal))
        BY <4>1 DEF Query
      <4>3. c = Len(goal) /\ exact
        BY <2>5, <4>2
      <4>4. c <= Len(slot.held)
        BY <1>1, <4>2, QueryStep DEF TInv
      <4>5. Len(files[0].held) \in Nat /\ Len(slot.held) \in Nat
        BY <1>1, ContentParts
      <4>6. Len(files[0].held) = Len(goal)
        BY <1>1, <2>2, <3>2, <4>3, <4>4, <4>5 DEF Begins
      <4>7. ~files[0].other
        BY <1>1, <2>2, <4>3, <4>6 DEF Saved
      <4> QED BY SMTT(30), <1>1, <2>2, <4>6, <4>7, HoldsParts DEF Holds, Begins
    <3> QED BY <1>1, <3>1, <3>2
  <2>6. ASSUME Revived', exact' PROVE Holds(results'[0].revived, goal)
    <3>1. CASE RestoreAgain
      <4>1. results'[0].revived = files[0]
        BY <1>1, <1>3, <3>1, RestoreAgainParts DEF TInv, OwnTypeOK, RestoreAgain, RestoreFrom
      <4>2. pc = "restore"
        BY <3>1 DEF RestoreAgain
      <4> QED BY <1>3, <2>2, <2>6, <4>1, <4>2
    <3>2. CASE ~RestoreAgain
      <4>1. Revived
        BY <1>1, <1>2, <2>6, <3>2, OtherArrivals
      <4>2. ~Writes
        BY <1>1, <1>3, <2>6, <3>2, <4>1 DEF Writes, ParseSaved, ProbeGate, ExtendGate, ProbeHandler,
           ExtendHandler, Revived, Goto
      <4>3. results'[0].revived = results[0].revived
        BY <1>1, <4>2, ResultsKept DEF Kept
      <4> QED BY <1>3, <2>2, <2>6, <4>1, <4>3
    <3> QED BY <3>1, <3>2
  <2>7. exact' => Saved(files'[0], Len(goal))
    BY <1>3, <2>3
  <2> QED BY <1>5, <2>3, <2>4, <2>5, <2>6, <2>7
<1> QED BY <1>4, <1>6, <1>7

LEMMA TextsStep == VInv /\ [Next]_vars => VInv'
<1> SUFFICES ASSUME VInv, [Next]_vars PROVE VInv'
  OBVIOUS
<1>1. WInv'
  BY OrderStep DEF VInv
<1>2. Vectors' /\ Goal' /\ Recorded' /\ Extension'
  BY <1>1, VectorsStep, GoalStep, RecordedStep, ExtensionStep
<1>3. Probe'
  <2>1. Revived' => AfterSave'
    BY DEF Revived, AfterSave
  <2>2. pc' = "query" => AfterSave'
    BY DEF AfterSave
  <2> QED BY <1>1, <2>1, <2>2, ProbeSlot, ProbeFile DEF Probe, Begins, Saved, Holds
<1> QED BY <1>1, <1>2, <1>3 DEF VInv, Texted

LEMMA TextsAlways == Spec => []VInv
BY TextsInit, TextsStep, PTL DEF Spec

\* Each variable has its type, the pieces and counts being of the corpus.
THEOREM TypeCorrect == Spec => []TypeOK
<1>1. ASSUME VInv PROVE TypeOK
  <2>1. /\ OwnTypeOK /\ ScriptOK /\ DiskOK /\ Held /\ Goal /\ Recorded
    BY <1>1 DEF VInv, WInv, TInv, Texted
  <2>2. goal \in Seq(1 .. Corpus) /\ offset \in 0 .. Corpus /\ at \in 0 .. Corpus
    <3>1. offset \in Nat /\ at \in Nat /\ offset <= Corpus /\ at <= Corpus
      BY <2>1 DEF Goal, ScriptOK
    <3>2. goal \in Seq(1 .. Corpus)
      BY <2>1, CorpusTexts
    <3> QED BY <3>1, <3>2, Numbers
  <2>3. results \in [Runs -> [status : Statuses, source : Runs,
                              texts : Seq(1 .. Corpus), offset : 0 .. Corpus,
                              pin : Content, revived : Content]]
    <3> DEFINE T == [status : Statuses, source : Runs, texts : Seq(1 .. Corpus),
                     offset : 0 .. Corpus, pin : Content, revived : Content]
    <3>1. SUFFICES ASSUME NEW r \in Runs PROVE results[r] \in T
      BY <2>1 DEF DiskOK
    <3>2. results[r] \in OutcomeType /\ results[r].texts \in Seq(1 .. Corpus)
          /\ results[r].offset <= Corpus
      BY <2>1 DEF DiskOK, Recorded
    <3>3. results[r].offset \in 0 .. Corpus
      BY <3>2, OutcomeParts, Numbers
    <3> QED BY <3>2, <3>3 DEF OutcomeType
  <2> QED BY <2>1, <2>2, <2>3 DEF TypeOK, ScriptOK, DiskOK, Held
<1> QED BY <1>1, TextsAlways, PTL

\* No run that passed has a piece of the corpus twice in its slot: offset is
\* behind everything that was tokenized, used or not.
THEOREM NoTextTwiceHolds == Spec => []NoTextTwice
<1>1. ASSUME VInv PROVE NoTextTwice
  <2>1. SUFFICES ASSUME NEW r \in Runs, Passed(r),
                        NEW i \in DOMAIN results[r].texts, NEW j \in DOMAIN results[r].texts, i # j
                 PROVE  results[r].texts[i] # results[r].texts[j]
    BY DEF NoTextTwice
  <2>2. \E n : Within(results[r].texts, n)
    <3>1. CASE r = 0
      BY <1>1, <2>1, <3>1, WithinContent DEF VInv, Texted, Recorded
    <3>2. CASE r # 0
      BY <1>1, <2>1, <3>2 DEF VInv, WInv, Texted, Resumes, Vectors
    <3> QED BY <3>1, <3>2
  <2>3. DOMAIN results[r].texts = 1 .. Len(results[r].texts)
    BY <1>1, OutcomeParts DEF VInv, WInv, TInv, DiskOK
  <2> QED BY <2>1, <2>2, <2>3 DEF Within
<1> QED BY <1>1, TextsAlways, PTL

-----------------------------------------------------------------------------
(* Whose work a pair is *)

\* A content and the work of one server behind it.
Grown(old, v, s) ==
    [i \in DOMAIN v |-> IF i <= Len(old) THEN old[i] ELSE [text |-> v[i], by |-> s]]
Starts(content, held) ==
    /\ Len(content.held) <= Len(held)
    /\ \A i \in 1 .. Len(content.held) : content.held[i] = held[i]
Own == Grown(results[source].pin.held, goal, First(run))

BaseOwn ==
    /\ run = 0 /\ pc \in {"step", "save"} =>
          \A i \in 1 .. Len(slot.held) : slot.held[i].by = port
    /\ 0 \notin spoilt /\ ((run = 0 /\ AfterSave) \/ Passed(0)) =>
          \A i \in 1 .. Len(files[0].held) : files[0].held[i].by = First(0)
ExtensionOwn ==
    run > 0 /\ run \notin spoilt =>
        /\ Bare \/ (pc = "restore" /\ ~second) => files[run] = results[source].pin
        /\ pc = "restore" /\ ~second => at = Len(results[source].pin.held)
        /\ pc \in {"step", "save"} =>
              /\ Starts(slot, Own) /\ Len(results[source].pin.held) <= at
              /\ Len(slot.held) <= at /\ (slot.held # <<>> => port = First(run))
        /\ pc = "parse" => Starts(files[run], Own)
        /\ AfterSave => results[run].pin.held = Own /\ files[run] = results[run].pin
        /\ Revived => results[run].revived = results[run].pin
ResultsOwn ==
    \A r \in Runs : Whole(r) /\ r \notin spoilt =>
        /\ files[r] = results[r].pin
        /\ r > 0 => /\ results[r].revived = results[r].pin
                    /\ results[r].pin.held =
                          Grown(results[results[r].source].pin.held, results[r].texts, First(r))
                    /\ Len(results[results[r].source].pin.held) < Len(results[r].texts)

OInv == VInv /\ BaseOwn /\ ExtensionOwn /\ ResultsOwn

LEMMA GrownParts ==
    ASSUME NEW old, NEW v \in Seq(Nat), NEW s
    PROVE  /\ DOMAIN Grown(old, v, s) = 1 .. Len(v) /\ Len(Grown(old, v, s)) = Len(v)
           /\ \A i \in 1 .. Len(v) :
                 Grown(old, v, s)[i] = IF i <= Len(old) THEN old[i] ELSE [text |-> v[i], by |-> s]
<1>1. DOMAIN v = 1 .. Len(v) /\ Len(v) \in Nat
  OBVIOUS
<1> QED BY <1>1 DEF Grown

LEMMA OwnParts ==
    ASSUME goal \in Seq(Nat)
    PROVE  /\ DOMAIN Own = 1 .. Len(goal) /\ Len(Own) = Len(goal)
           /\ Own = [i \in 1 .. Len(goal) |-> Own[i]]
           /\ \A i \in 1 .. Len(goal) :
                 Own[i] = IF i <= Len(results[source].pin.held) THEN results[source].pin.held[i]
                          ELSE [text |-> goal[i], by |-> First(run)]
<1> DEFINE old == results[source].pin.held
<1>1. Own = Grown(old, goal, First(run))
  BY DEF Own
<1>2. /\ DOMAIN Grown(old, goal, First(run)) = 1 .. Len(goal)
      /\ Len(Grown(old, goal, First(run))) = Len(goal)
      /\ \A i \in 1 .. Len(goal) :
            Grown(old, goal, First(run))[i]
               = IF i <= Len(old) THEN old[i] ELSE [text |-> goal[i], by |-> First(run)]
  BY GrownParts
<1>3. Own = [i \in DOMAIN Own |-> Own[i]]
  BY DEF Own, Grown
<1> QED BY <1>1, <1>2, <1>3

LEMMA OwnInitially == Init => OInv
<1> SUFFICES ASSUME Init PROVE OInv
  OBVIOUS
<1>1. VInv
  BY TextsInit
<1>2. \A r \in Runs : ~Whole(r) /\ ~Passed(r)
  BY NoResultParts DEF Init, Whole, Passed
<1>3. run = 0 /\ pc = "begin" /\ 0 \in Runs /\ ~AfterSave
  BY Numbers DEF Init, AfterSave
<1> QED BY <1>1, <1>2, <1>3 DEF OInv, BaseOwn, ExtensionOwn, ResultsOwn

LEMMA BaseOwnStep == OInv /\ WInv' /\ [Next]_vars => BaseOwn'
<1> SUFFICES ASSUME OInv, WInv', [Next]_vars PROVE BaseOwn'
  OBVIOUS
<1>1. VInv /\ WInv /\ BaseOwn
  BY DEF OInv, VInv
<1>2. TInv /\ TInv' /\ Turns /\ Written /\ Held /\ OwnTypeOK /\ ScriptOK /\ DiskOK
  BY <1>1 DEF WInv, TInv
<1>3. /\ 0 \in Runs /\ run \in Nat /\ goal \in Seq(Nat) /\ at \in Nat /\ Len(goal) \in Nat
      /\ second \in BOOLEAN /\ slot \in Content /\ files[0] \in Content
  BY <1>2, Numbers, DiskParts DEF ScriptOK, OwnTypeOK
<1>4. ASSUME run' = 0, pc' \in {"step", "save"}
      PROVE  \A i \in 1 .. Len(slot'.held) : slot'.held[i].by = port'
  <2>1. ~NextRun
    BY <1>3, <1>4 DEF NextRun
  <2>2. run = 0
    BY <1>4, <2>1, RunStays
  <2>3. CASE ProbePlan
    <3>1. slot' = slot /\ slot.held = <<>> /\ Len(slot.held) = 0
      BY <1>1, <1>2, <2>2, <2>3 DEF ProbePlan, own, VInv, Texted, Probe, Turns
    <3> QED BY <3>1
  <2>4. CASE ~ProbePlan
    <3>1. pc \in {"step", "save"}
      BY <1>2, <1>4, <2>1, <2>2, <2>4, OtherArrivals DEF ExtendRestore, Turns
    <3>2. \A i \in 1 .. Len(slot.held) : slot.held[i].by = port
      BY <1>1, <2>2, <3>1 DEF BaseOwn
    <3>3. CASE ProbeStep
      <4>1. /\ at + 1 \in 0 .. Len(goal)
            /\ \E c \in 0 .. at + 1 : CompletePrefix(Prefix(at + 1), c)
        BY <1>3, <3>3 DEF ProbeStep
      <4>2. PICK c \in 0 .. at + 1 : CompletePrefix(Prefix(at + 1), c)
        BY <4>1
      <4>3. Prefix(at + 1) \in Seq(Nat) /\ Len(Prefix(at + 1)) = at + 1 /\ c \in Nat
        BY <1>2, <1>3, <4>1, PrefixOfGoal
      <4>4. /\ port' = port /\ Len(slot'.held) = at + 1 /\ c <= Len(slot.held)
            /\ \A i \in 1 .. at + 1 :
                  slot'.held[i] = IF i <= c THEN slot.held[i]
                                  ELSE [text |-> Prefix(at + 1)[i], by |-> port]
        BY <1>2, <4>2, <4>3, PrefixStep
      <4>5. Len(slot.held) \in Nat
        BY <1>3, ContentParts
      <4>6. ASSUME NEW i \in 1 .. at + 1 PROVE slot'.held[i].by = port
        <5>1. CASE i <= c
          <6>1. i \in 1 .. Len(slot.held)
            BY <1>3, <4>3, <4>4, <4>5, <5>1
          <6>2. slot'.held[i] = slot.held[i]
            BY <4>4, <5>1
          <6> QED BY <3>2, <4>4, <6>1, <6>2
        <5>2. CASE ~(i <= c)
          <6>1. slot'.held[i] = [text |-> Prefix(at + 1)[i], by |-> port]
            BY <4>4, <5>2
          <6> QED BY <6>1
        <5> QED BY <5>1, <5>2
      <4> QED BY <4>4, <4>6
    <3>4. CASE ~ProbeStep
      <4>1. SlotStays \/ SlotCut
        BY <1>2, <2>2, <3>1, <3>4, SlotKept DEF ExtendStep, Query, ExtendRestore, RestoreAgain, Probing
      <4>2. CASE slot' = Empty
        <5>1. Len(slot'.held) = 0
          BY <4>2 DEF Empty
        <5> QED BY <5>1
      <4>3. CASE slot' # Empty
        <5>1. port' = port
          BY <4>1, <4>3 DEF SlotStays, SlotCut
        <5>2. Len(slot'.held) <= Len(slot.held) /\ \A i \in 1 .. Len(slot'.held) : slot'.held[i] = slot.held[i]
          BY <1>2, <1>3, <4>1, BeginsStays
        <5>3. Len(slot'.held) \in Nat /\ Len(slot.held) \in Nat
          BY <1>2, <1>3, ContentParts DEF TInv, OwnTypeOK
        <5> QED BY <3>2, <5>1, <5>2, <5>3
      <4> QED BY <4>2, <4>3
    <3> QED BY <3>3, <3>4
  <2> QED BY <2>3, <2>4
<1>5. ASSUME 0 \notin spoilt', (run' = 0 /\ AfterSave') \/ Passed(0)'
      PROVE  \A i \in 1 .. Len(files'[0].held) : files'[0].held[i].by = First(0)
  <2>1. 0 \notin spoilt
    BY <1>2, <1>3, <1>5, FilesKept
  <2>2. CASE ProbeSave
    <3>1. run = 0 /\ pc = "save" /\ files' = [files EXCEPT ![run] = slot] /\ port = session
          /\ session # NoOne /\ ~second
      BY <1>2, <2>2 DEF ProbeSave, SavesFile, Probing, Turns
    <3>2. files'[0] = slot /\ port = First(0)
      BY <1>2, <1>3, <3>1 DEF DiskOK, Held, Here
    <3> QED BY <1>1, <3>1, <3>2 DEF BaseOwn
  <2>3. CASE ~ProbeSave
    <3>1. (run = 0 /\ AfterSave) \/ Passed(0)
      <4>1. CASE NextRun
        BY <1>3, <1>5, <4>1 DEF NextRun, Passed, disk
      <4>2. CASE ~NextRun /\ run' = 0 /\ AfterSave'
        <5>1. run = 0
          BY <4>2, RunStays
        <5> QED BY <1>2, <2>3, <4>2, <5>1, AfterSaveArrivals DEF TInv, ParseSaved, Turns
      <4>3. CASE ~NextRun /\ Passed(0)' /\ ~Passed(0)
        <5>1. run' = run /\ 0 = run
          <6>1. SUFFICES ASSUME 0 # run PROVE FALSE
            BY <4>3, RunStays
          <6> QED BY <1>2, <1>3, <4>3, <6>1, ResultsKept DEF Kept, Passed
        <5>2. Passed(run)' /\ ~Passed(run)
          BY <4>3, <5>1 DEF Passed
        <5> QED BY <1>1, <1>2, <4>3, <5>1, <5>2, PassParts
      <4> QED BY <1>5, <4>1, <4>2, <4>3
    <3>2. \A i \in 1 .. Len(files[0].held) : files[0].held[i].by = First(0)
      BY <1>1, <2>1, <3>1 DEF BaseOwn
    <3>3. ~(0 = run /\ (CopyPair \/ ProbeSave \/ ExtendSave))
      BY <1>2, <2>3 DEF Turns, CopyPair, ExtendSave, Probing
    <3>4. files'[0] = files[0]
      BY <1>2, <1>3, <1>5, <3>3, FilesKept
    <3> QED BY <3>2, <3>4
  <2> QED BY <2>2, <2>3
<1> QED BY <1>4, <1>5 DEF BaseOwn, First

\* The first pieces of a grown pair are the old pair's; one step more of its
\* own server is the next piece.
LEMMA ExtensionStepParts ==
    ASSUME OInv, ExtendStep, pc' = "step", run \notin spoilt
    PROVE  /\ Starts(slot', Own) /\ Len(results[source].pin.held) <= at'
           /\ Len(slot'.held) <= at' /\ port' = First(run)
<1>1. VInv /\ WInv /\ TInv /\ OwnTypeOK /\ ScriptOK /\ DiskOK /\ Goal /\ Vectors
  BY DEF OInv, VInv, WInv, TInv, Texted
<1>2. /\ pc = "step" /\ run > 0 /\ run \in Runs /\ source \in Runs /\ at < Len(goal) /\ at' = at + 1
      /\ at \in Nat /\ goal \in Seq(Nat) /\ Len(goal) \in Nat /\ slot \in Content
  BY <1>1, Numbers DEF ExtendStep, Probing, ScriptOK, OwnTypeOK
<1> DEFINE old == results[source].pin.held
<1>3. /\ Starts(slot, Own) /\ Len(old) <= at /\ Len(slot.held) <= at
      /\ slot.held # <<>> => port = First(run)
  BY <1>2 DEF OInv, ExtensionOwn
<1>4. Len(old) > 0 /\ Len(old) \in Nat /\ Len(slot.held) \in Nat
  <2>1. Whole(source)
    BY <1>1, <1>2 DEF WInv, Resumes, HasGoal
  <2> QED BY <1>1, <1>2, <2>1, OutcomeParts, ContentParts DEF Vectors, DiskOK
<1>5. PICK c \in 0 .. at + 1 : CompletePrefix(Prefix(at + 1), c) /\ c = at
  <2>1. PICK c \in 0 .. at + 1 : /\ CompletePrefix(Prefix(at + 1), c)
                                 /\ pc' = IF c = at THEN "step" ELSE "handler"
    BY DEF ExtendStep
  <2>2. c = at
    BY <2>1
  <2> QED BY <2>1, <2>2
<1>6. /\ Prefix(at + 1) \in Seq(Nat) /\ Len(Prefix(at + 1)) = at + 1
      /\ \A i \in 1 .. at + 1 : Prefix(at + 1)[i] = goal[i]
  BY <1>1, <1>2, PrefixOfGoal
<1>7. /\ port' = port /\ Len(slot'.held) = at + 1 /\ at <= Len(slot.held)
      /\ \A i \in 1 .. at + 1 : slot'.held[i] = IF i <= at THEN slot.held[i]
                                                ELSE [text |-> Prefix(at + 1)[i], by |-> port]
  <2>1. c \in Nat
    BY <1>2
  <2> QED BY <1>1, <1>5, <1>6, <2>1, PrefixStep
<1>8. port = First(run)
  <2>1. Len(slot.held) # 0
    BY <1>2, <1>3, <1>4, <1>7
  <2> QED BY <1>3, <2>1
<1>9. /\ Len(Own) = Len(goal)
      /\ \A i \in 1 .. Len(goal) : Own[i] = IF i <= Len(old) THEN old[i]
                                            ELSE [text |-> goal[i], by |-> First(run)]
  BY <1>2, OwnParts
<1>10. \A i \in 1 .. at + 1 : slot'.held[i] = Own[i]
  <2> SUFFICES ASSUME NEW i \in 1 .. at + 1 PROVE slot'.held[i] = Own[i]
    OBVIOUS
  <2>1. CASE i <= at
    <3>1. slot'.held[i] = slot.held[i]
      BY <1>7, <2>1
    <3>2. at \in Nat /\ Len(slot.held) \in Nat /\ at <= Len(slot.held) /\ i \in 1 .. at + 1
      BY <1>2, <1>4, <1>7
    <3>3. i \in 1 .. Len(slot.held)
      BY <2>1, <3>2
    <3> QED BY <1>3, <3>1, <3>3 DEF Starts
  <2>2. CASE ~(i <= at)
    <3>1. i = at + 1 /\ ~(i <= Len(old)) /\ i \in 1 .. Len(goal)
      BY <1>2, <1>3, <1>4, <2>2
    <3>2. slot'.held[i] = [text |-> goal[i], by |-> First(run)]
      BY <1>6, <1>7, <1>8, <2>2
    <3> QED BY <1>9, <3>1, <3>2
  <2> QED BY <2>1, <2>2
<1> QED BY <1>2, <1>3, <1>4, <1>7, <1>8, <1>9, <1>10 DEF Starts

LEMMA ExtensionOwnStep == OInv /\ WInv' /\ [Next]_vars => ExtensionOwn'
<1> SUFFICES ASSUME OInv, WInv', [Next]_vars, run' > 0, run' \notin spoilt'
             PROVE  ( /\ Bare \/ (pc = "restore" /\ ~second) => files[run] = results[source].pin
                      /\ pc = "restore" /\ ~second => at = Len(results[source].pin.held)
                      /\ pc \in {"step", "save"} =>
                            /\ Starts(slot, Own) /\ Len(results[source].pin.held) <= at
                            /\ Len(slot.held) <= at /\ (slot.held # <<>> => port = First(run))
                      /\ pc = "parse" => Starts(files[run], Own)
                      /\ AfterSave => results[run].pin.held = Own /\ files[run] = results[run].pin
                      /\ Revived => results[run].revived = results[run].pin )'
  BY DEF ExtensionOwn
<1>1. VInv /\ WInv /\ ExtensionOwn /\ TInv /\ TInv' /\ Turns /\ Turns' /\ Resumes /\ Written
      /\ OwnTypeOK /\ ScriptOK /\ DiskOK /\ Held /\ Goal /\ Vectors /\ Extension
  BY DEF OInv, VInv, WInv, TInv, Texted
<1>2. /\ run \in Runs /\ source \in Runs /\ Runs \subseteq Nat /\ at \in Nat /\ goal \in Seq(Nat)
      /\ Len(goal) \in Nat /\ second \in BOOLEAN /\ second' \in BOOLEAN /\ slot \in Content
      /\ files[run] \in Content
  <2>1. run \in Runs /\ source \in Runs /\ goal \in Seq(Nat) /\ at \in Nat
        /\ second \in BOOLEAN /\ second' \in BOOLEAN
    BY <1>1 DEF ScriptOK, TInv
  <2> QED BY <1>1, <2>1, Numbers, DiskParts DEF OwnTypeOK
<1>3. CASE NextRun
  BY <1>3 DEF NextRun, Bare, AfterSave, Revived
<1>4. CASE ~NextRun
  <2>1. run' = run /\ run > 0 /\ run \notin spoilt
    BY <1>1, <1>2, <1>4, RunStays, FilesKept
  <2>2. files'[run] = files[run] \/ CopyPair \/ ExtendSave
    BY <1>1, <1>2, <2>1, FilesKept DEF ProbeSave, Probing
  <2>3. source' = source \/ pc' = "offline"
    BY <1>1, <1>4, ScriptKept DEF ReadSource
  <2>4. Whole(source) /\ source' = source => results'[source].pin = results[source].pin
    <3>1. CASE source < run
      <4>1. source # run
        BY <1>2, <3>1
      <4> QED BY <1>1, <1>2, <4>1, PinStays
    <3> QED BY <1>1, <2>1, <3>1 DEF Turns
  <2>5. CASE pc' \in {"begin", "offline", "copy", "report", "handler", "finally", "end"}
    BY <2>5 DEF Bare, AfterSave, Revived
  <2>6. CASE Bare'
    <3>1. ~AfterSave' /\ ~Revived' /\ pc' \notin {"restore", "step", "save", "parse"}
      BY <1>2, <2>6 DEF Bare, AfterSave, Revived
    <3>2. CASE CopyPair
      <4>1. files'[run] = results[source].pin /\ source' = source /\ results' = results
        BY <1>1, <1>2, <2>6, <3>2 DEF CopyPair, Goto, DiskOK, Bare
      <4> QED BY <2>1, <3>1, <4>1
    <3>3. CASE ~CopyPair
      <4>1. Bare /\ files' [run] = files[run]
        <5>1. CASE \E r \in Runs : ReadSource(r)
          BY <2>6, <5>1 DEF ReadSource, Bare
        <5>2. CASE \E n, m \in 1 .. MaxGrow + 1 : n <= MaxGrow /\ ExtendPlan(n, m)
          BY <2>6, <5>2 DEF ExtendPlan, Bare
        <5>3. CASE ProbeBegin \/ OfflineCheck \/ ExtendPreflight \/ Ready \/ ProbePlan \/ StepsDone
                   \/ ProbeReport \/ Raise
          BY <1>2, <2>1, <2>2, <2>6, <3>3, <5>3 DEF ProbeBegin, OfflineCheck, ExtendPreflight, Ready,
             ProbePlan, StepsDone, ProbeReport, Raise, Goto, Bare, Probing, ExtendSave, disk
        <5>4. CASE Launch \/ LaunchFails \/ ProbeClose \/ ExtendClose \/ RaiseInClose
                   \/ ProbeFinally \/ ExtendRestore \/ ProbeStep \/ ExtendStep \/ Query
          BY <1>2, <2>1, <2>2, <2>6, <3>3, <5>4 DEF Launch, LaunchFails, ProbeClose, ExtendClose,
             RaiseInClose, ProbeFinally, ExtendRestore, ProbeStep, ExtendStep, Query, Goto, Bare,
             Probing, ExtendSave, disk
        <5>5. CASE ProbeSave \/ ExtendSave \/ ParseSaved \/ RestoreAgain
                   \/ ProbeGate \/ ExtendGate \/ ProbeHandler \/ ExtendHandler
          BY <1>2, <2>6, <5>5 DEF ProbeSave, ExtendSave, ParseSaved, RestoreAgain,
             ProbeGate, ExtendGate, ProbeHandler, ExtendHandler, Goto, Bare
        <5>6. CASE UNCHANGED script
          BY <2>2, <2>6, <3>3, <5>6 DEF script, Bare, ExtendSave, Goto
        <5> QED BY <1>4, <3>3, <5>1, <5>2, <5>3, <5>4, <5>5, <5>6, Steps
                DEF PinBase, ReportDone, ReportRaises, Damage, vars
      <4>2. source' = source /\ Whole(source)
        BY <1>1, <2>1, <2>3, <2>6, <4>1 DEF Bare, Resumes
      <4>3. files[run] = results[source].pin
        BY <1>1, <2>1, <4>1 DEF ExtensionOwn
      <4> QED BY <2>1, <2>4, <3>1, <4>1, <4>2, <4>3
    <3> QED BY <3>2, <3>3
  <2>7. CASE HasGoal'
    <3>1. ~Bare' /\ source' = source
      BY <1>2, <2>3, <2>7 DEF HasGoal, AfterSave, Bare
    <3>2. CASE \E n, m \in 1 .. MaxGrow + 1 : ExtendPlan(n, m)
      <4>1. /\ Bare /\ pc' = "restore" /\ ~second' /\ at' = Len(results[source].pin.held)
            /\ files' = files /\ results' = results
        BY <1>1, <1>2, <3>2 DEF ExtendPlan, Bare, disk, Turns
      <4>2. files[run] = results[source].pin
        BY <1>1, <2>1, <4>1 DEF ExtensionOwn
      <4>3. ~AfterSave' /\ ~Revived'
        BY <4>1 DEF AfterSave, Revived
      <4> QED BY <2>1, <3>1, <4>1, <4>2, <4>3
    <3>3. CASE ~\E n, m \in 1 .. MaxGrow + 1 : ExtendPlan(n, m)
      <4>1. /\ HasGoal /\ goal' = goal /\ (at' = at \/ ExtendStep)
            /\ (pc' \in {"step", "save"} => pc \in {"step", "save"} \/ ExtendRestore)
            /\ (AfterSave' => AfterSave \/ ParseSaved)
            /\ (Revived' => Revived \/ RestoreAgain)
        <5>1. ~ProbePlan /\ ~ProbeStep /\ ~ProbeSave
          BY <1>2, <2>1 DEF ProbePlan, ProbeStep, ProbeSave, Probing
        <5>2. goal' = goal
          BY <1>1, <1>4, <3>3, <5>1, ScriptKept
        <5>3. at' = at \/ ExtendStep
          BY <1>1, <1>4, <3>3, <5>1, ScriptKept
        <5>4. HasGoal
          BY <1>1, <1>4, <2>7, <3>3, <5>1, OtherArrivals
        <5>5. pc' \in {"step", "save"} => pc \in {"step", "save"} \/ ExtendRestore
          BY <1>1, <1>4, <5>1, OtherArrivals
        <5>6. AfterSave' => AfterSave \/ ParseSaved
          BY <1>1, <1>4, <5>1, AfterSaveArrivals DEF TInv
        <5>7. Revived' => Revived \/ RestoreAgain
          BY <1>1, <1>4, OtherArrivals
        <5> QED BY <5>2, <5>3, <5>4, <5>5, <5>6, <5>7
      <4>2. Whole(source) /\ results'[source].pin = results[source].pin
        BY <1>1, <2>1, <2>4, <3>1, <4>1 DEF Resumes
      <4>3. Own' = Own
        BY <2>1, <3>1, <4>1, <4>2 DEF Own, First
      <4>4. ASSUME pc' = "restore", ~second'
            PROVE  files'[run] = results[source].pin /\ at' = Len(results[source].pin.held)
        <5>1. pc = "restore" /\ ~second
          BY <1>2, <1>4, <2>1, <3>3, <4>4, Steps DEF ProbeBegin, OfflineCheck, ExtendPreflight, Ready,
             ProbePlan, StepsDone, ProbeReport, Raise, ReadSource, ExtendPlan, Launch, LaunchFails,
             ProbeClose, ExtendClose, RaiseInClose, ProbeFinally, ExtendRestore, ProbeStep, ExtendStep,
             Query, PinBase, CopyPair, ProbeSave, ExtendSave, ParseSaved, RestoreAgain, ProbeGate,
             ExtendGate, ProbeHandler, ExtendHandler, ReportDone, ReportRaises, Damage, Goto, vars,
             script, Probing
        <5>2. files[run] = results[source].pin /\ at = Len(results[source].pin.held)
          BY <1>1, <2>1, <5>1 DEF ExtensionOwn
        <5>3. at' = at /\ files'[run] = files[run]
          BY <2>2, <4>1, <5>1 DEF ExtendStep, CopyPair, ExtendSave
        <5> QED BY <5>2, <5>3
      <4>5. ASSUME pc' \in {"step", "save"}
            PROVE  /\ Starts(slot', Own) /\ Len(results[source].pin.held) <= at'
                   /\ Len(slot'.held) <= at' /\ (slot'.held # <<>> => port' = First(run))
        <5>1. CASE ExtendRestore
          <6>1. /\ pc = "restore" /\ ~second /\ slot' = files[run] /\ port = session /\ session # NoOne
                /\ port' = port /\ at' = at /\ Len(slot'.held) = at
            BY <5>1 DEF ExtendRestore, RestoreFrom, Goto
          <6>2. slot' = results[source].pin
            BY <1>1, <2>1, <6>1 DEF ExtensionOwn
          <6>3. /\ results[source].pin \in Content /\ Len(results[source].pin.held) \in Nat
                /\ Len(results[source].pin.held) < Len(goal)
            <7>1. results[source] \in OutcomeType
              BY <1>1, <1>2, DiskParts
            <7>2. Len(results[source].pin.held) < Len(goal)
              BY <1>1, <2>1, <4>1 DEF Goal
            <7> QED BY <7>1, <7>2, OutcomeParts, ContentParts
          <6>4. /\ Len(Own) = Len(goal)
                /\ \A i \in 1 .. Len(goal) :
                      i <= Len(results[source].pin.held) => Own[i] = results[source].pin.held[i]
            BY <1>2, OwnParts
          <6>5. Starts(slot', Own)
            BY <1>2, <6>2, <6>3, <6>4 DEF Starts
          <6>6. port' = First(run)
            BY <1>1, <6>1 DEF Held, Here
          <6> QED BY <1>2, <6>1, <6>2, <6>5, <6>6
        <5>2. CASE ExtendStep
          <6>1. pc' = "step"
            BY <4>5, <5>2 DEF ExtendStep
          <6> QED BY <2>1, <5>2, <6>1, ExtensionStepParts
        <5>3. CASE ~ExtendRestore /\ ~ExtendStep
          <6>1. pc \in {"step", "save"} /\ at' = at
            BY <4>1, <4>5, <5>3
          <6>2. /\ Starts(slot, Own) /\ Len(results[source].pin.held) <= at
                /\ Len(slot.held) <= at /\ (slot.held # <<>> => port = First(run))
            BY <1>1, <2>1, <6>1 DEF ExtensionOwn
          <6>3. SlotStays \/ SlotCut
            BY <1>1, <2>1, <5>3, <6>1, SlotKept DEF ProbeStep, Query, RestoreAgain, Probing
          <6>4. /\ Len(slot'.held) <= Len(slot.held)
                /\ \A i \in 1 .. Len(slot'.held) : slot'.held[i] = slot.held[i]
            BY <1>1, <1>2, <6>3, BeginsStays
          <6>5. Len(slot'.held) \in Nat /\ Len(slot.held) \in Nat
            BY <1>1, <1>2, ContentParts DEF TInv, OwnTypeOK
          <6>6. slot'.held # <<>> => slot.held # <<>> /\ port' = port
            <7>1. SUFFICES ASSUME slot'.held # <<>> PROVE slot.held # <<>> /\ port' = port
              OBVIOUS
            <7>2. Len(slot'.held) # 0
              <8>1. slot'.held \in Seq(Piece)
                BY <1>1, ContentParts DEF TInv, OwnTypeOK
              <8> QED BY <7>1, <8>1
            <7>3. slot.held # <<>>
              BY <6>4, <6>5, <7>2
            <7>4. slot' # Empty
              BY <7>1 DEF Empty
            <7> QED BY <6>3, <7>3, <7>4 DEF SlotStays, SlotCut
          <6>7. Len(Own) = Len(goal)
            BY <1>2, OwnParts
          <6> QED BY <1>2, <6>1, <6>2, <6>4, <6>5, <6>6, <6>7 DEF Starts
        <5> QED BY <5>1, <5>2, <5>3
      <4>6. ASSUME pc' = "parse" PROVE Starts(files'[run], Own)
        <5>1. CASE ExtendSave
          <6>1. pc = "save" /\ files'[run] = slot
            BY <1>1, <1>2, <5>1 DEF ExtendSave, SavesFile, DiskOK
          <6> QED BY <1>1, <2>1, <6>1 DEF ExtensionOwn
        <5>2. CASE ~ExtendSave
          <6>1. pc = "parse"
            BY <1>4, <2>1, <4>6, <5>2, Steps DEF ProbeBegin, OfflineCheck, ExtendPreflight, Ready,
             ProbePlan, StepsDone, ProbeReport, Raise, ReadSource, ExtendPlan, Launch, LaunchFails,
             ProbeClose, ExtendClose, RaiseInClose, ProbeFinally, ExtendRestore, ProbeStep, ExtendStep,
             Query, PinBase, CopyPair, ProbeSave, ParseSaved, RestoreAgain, ProbeGate,
             ExtendGate, ProbeHandler, ExtendHandler, ReportDone, ReportRaises, Damage, Goto, vars,
             script
          <6>2. files'[run] = files[run]
            BY <2>2, <5>2, <6>1 DEF CopyPair
          <6> QED BY <1>1, <2>1, <6>1, <6>2 DEF ExtensionOwn
        <5> QED BY <5>1, <5>2
      <4>7. ASSUME AfterSave'
            PROVE  /\ results'[run].pin.held = Own /\ files'[run] = results'[run].pin
                   /\ Revived' => results'[run].revived = results'[run].pin
        <5>1. CASE ParseSaved
          <6>1. results'[run].pin = files[run] /\ files' = files /\ pc = "parse" /\ ~Revived'
            BY <1>1, <1>2, <2>1, <5>1, ParseSavedParts DEF ParseSaved, Goto, Revived, Turns
          <6>2. Starts(files[run], Own)
            BY <1>1, <2>1, <6>1 DEF ExtensionOwn
          <6>3. Texts(files[run]) = goal
            BY <5>1 DEF ParseSaved
          <6>4. Len(files[run].held) = Len(goal)
            BY <1>2, <6>3, HoldsParts
          <6>5. Len(Own) = Len(goal) /\ Own = [i \in 1 .. Len(goal) |-> Own[i]]
            BY <1>2, OwnParts
          <6>6. \A i \in 1 .. Len(goal) : files[run].held[i] = Own[i]
            BY <6>2, <6>4 DEF Starts
          <6>7. files[run].held \in Seq(Piece)
            BY <1>2, ContentParts
          <6>8. files[run].held = [i \in 1 .. Len(goal) |-> files[run].held[i]]
            BY <6>4, <6>7
          <6>9. files[run].held = Own
            BY <6>5, <6>6, <6>8
          <6> QED BY <6>1, <6>9
        <5>2. CASE AfterSave /\ ~ParseSaved
          <6>1. /\ results[run].pin.held = Own /\ files[run] = results[run].pin
                /\ Revived => results[run].revived = results[run].pin
            BY <1>1, <2>1, <5>2 DEF ExtensionOwn
          <6>2. files'[run] = files[run]
            BY <2>2, <5>2 DEF CopyPair, ExtendSave, AfterSave
          <6>3. CASE RestoreAgain
            <7>1. results'[run].pin = results[run].pin /\ results'[run].revived = slot'
              BY <1>1, <6>3, RestoreAgainParts DEF TInv, OwnTypeOK
            <7>2. slot' = files[run]
              BY <6>3 DEF RestoreAgain, RestoreFrom
            <7> QED BY <6>1, <6>2, <7>1, <7>2
          <6>4. CASE ~RestoreAgain
            <7>1. ~Writes
              BY <4>7, <5>2, <6>4 DEF Writes, ProbeGate, ExtendGate, ProbeHandler, ExtendHandler,
                 AfterSave, Goto
            <7>2. results'[run].pin = results[run].pin /\ results'[run].revived = results[run].revived
              BY <1>1, <1>2, <2>1, <7>1, ResultsKept DEF Kept
            <7> QED BY <4>1, <6>1, <6>2, <6>4, <7>2
          <6> QED BY <6>3, <6>4
        <5> QED BY <4>1, <4>7, <5>1, <5>2
      <4>8. Revived' => AfterSave'
        BY DEF Revived, AfterSave
      <4>9. (Starts(slot, Own))' <=> Starts(slot', Own)
        BY <4>3 DEF Starts
      <4>10. (Starts(files[run], Own))' <=> Starts(files'[run], Own)
        BY <2>1, <4>3 DEF Starts
      <4>11. results'[source'].pin = results[source].pin /\ First(run') = First(run)
        BY <2>1, <3>1, <4>2 DEF First
      <4>12. (Bare \/ (pc = "restore" /\ ~second) => files[run] = results[source].pin)'
        BY <2>1, <3>1, <4>4, <4>11
      <4>13. (pc = "restore" /\ ~second => at = Len(results[source].pin.held))'
        BY <4>4, <4>11
      <4>14. ( pc \in {"step", "save"} =>
                 /\ Starts(slot, Own) /\ Len(results[source].pin.held) <= at
                 /\ Len(slot.held) <= at /\ (slot.held # <<>> => port = First(run)) )'
        BY <4>5, <4>9, <4>11
      <4>15. (pc = "parse" => Starts(files[run], Own))'
        BY <4>6, <4>10
      <4>16. ( /\ AfterSave => results[run].pin.held = Own /\ files[run] = results[run].pin
               /\ Revived => results[run].revived = results[run].pin )'
        BY <2>1, <4>3, <4>7, <4>8
      <4> QED BY <4>12, <4>13, <4>14, <4>15, <4>16
    <3> QED BY <3>2, <3>3
  <2>8. pc' \in {"begin", "offline", "copy", "report", "handler", "finally", "end"} \/ Bare' \/ HasGoal'
    <3>1. pc' \in Points
      BY <1>1 DEF TInv, ScriptOK
    <3>2. CASE second'
      BY <1>1, <3>1, <3>2 DEF Turns, HasGoal, AfterSave
    <3>3. CASE ~second'
      BY <3>1, <3>3 DEF Points, Bare, HasGoal, AfterSave
    <3> QED BY <3>2, <3>3
  <2> QED BY <2>5, <2>6, <2>7, <2>8
<1> QED BY <1>3, <1>4

\* A pair that may be resumed stays as it was pinned, and what was grown on it
\* with it.
LEMMA ResultsOwnStep == OInv /\ WInv' /\ [Next]_vars => ResultsOwn'
<1> SUFFICES ASSUME OInv, WInv', [Next]_vars PROVE ResultsOwn'
  OBVIOUS
<1>1. VInv /\ WInv /\ TInv /\ TInv' /\ Turns /\ Written /\ Resumes /\ ScriptOK /\ DiskOK /\ Goal
      /\ ExtensionOwn /\ ResultsOwn
  BY DEF OInv, VInv, WInv, TInv, Texted
<1>2. run \in Runs /\ source \in Runs /\ Runs \subseteq Nat /\ 0 \in Runs
  BY <1>1, Numbers DEF ScriptOK
<1> SUFFICES ASSUME NEW r \in Runs, Whole(r)', r \notin spoilt'
             PROVE  /\ files'[r] = results'[r].pin
                    /\ r > 0 =>
                          /\ results'[r].revived = results'[r].pin
                          /\ results'[r].pin.held =
                                Grown(results'[results'[r].source].pin.held, results'[r].texts, First(r))
                          /\ Len(results'[results'[r].source].pin.held) < Len(results'[r].texts)
  BY DEF ResultsOwn, Grown, First
<1>3. r \notin spoilt /\ (files'[r] = files[r] \/ (r = run /\ (CopyPair \/ ProbeSave \/ ExtendSave)))
  BY <1>1, FilesKept
<1>4. CASE ExtendGate /\ r = run
  <2>1. Passed(run)' /\ ~Passed(run) /\ run > 0 /\ ~NextRun
    BY <1>1, <1>4, GatePasses DEF ExtendGate, NextRun, Goto
  <2>2. /\ AfterSave /\ Revived /\ HasGoal
        /\ results'[run].texts = goal /\ results'[run].source = source
        /\ results'[run].pin = results[run].pin /\ results'[run].revived = results[run].revived
        /\ files' = files
    BY <1>1, <2>1, PassParts
  <2>3. /\ results[run].pin.held = Own /\ files[run] = results[run].pin
        /\ results[run].revived = results[run].pin
    BY <1>1, <1>3, <1>4, <2>1, <2>2 DEF ExtensionOwn
  <2>4. Whole(source) /\ source # run
    BY <1>1, <1>2, <2>1, <2>2 DEF Resumes, Turns
  <2>5. results'[source].pin = results[source].pin
    BY <1>1, <1>2, <2>4, PinStays
  <2>6. Len(results[source].pin.held) < Len(goal)
    BY <1>1, <2>1, <2>2 DEF Goal
  <2> QED BY <1>4, <2>2, <2>3, <2>5, <2>6 DEF Own
<1>5. CASE r = 0 /\ PinBase
  <2>1. results'[0].pin = files[0] /\ files' = files
    BY <1>1, <1>5, PinBaseParts DEF PinBase
  <2> QED BY <1>5, <2>1
<1>6. CASE ~(ExtendGate /\ r = run) /\ ~(r = 0 /\ PinBase)
  <2>1. /\ Whole(r) /\ results'[r].pin = results[r].pin /\ results'[r].texts = results[r].texts
        /\ results'[r].source = results[r].source /\ results'[r].revived = results[r].revived
    BY <1>1, <1>6, WholeOrigin
  <2>2. /\ files[r] = results[r].pin
        /\ r > 0 => /\ results[r].revived = results[r].pin
                    /\ results[r].pin.held =
                          Grown(results[results[r].source].pin.held, results[r].texts, First(r))
                    /\ Len(results[results[r].source].pin.held) < Len(results[r].texts)
    BY <1>1, <1>3, <2>1 DEF ResultsOwn
  <2>3. files'[r] = files[r]
    <3>1. r = run => pc \notin Body \ {"report"}
      BY <1>1, <2>1 DEF Written, Whole
    <3>2. CopyPair \/ ProbeSave \/ ExtendSave => pc \in Body \ {"report"}
      BY DEF CopyPair, ProbeSave, ExtendSave, Body, Points
    <3> QED BY <1>3, <3>1, <3>2
  <2>4. CASE r > 0
    <3> DEFINE q == results[r].source
    <3>1. q < r /\ Whole(q) /\ q \in Runs
      BY <1>1, <1>2, <2>1, <2>4, DiskParts, OutcomeParts DEF Resumes
    <3>2. q # run \/ ~Writes
      <4>1. SUFFICES ASSUME q = run, Writes PROVE FALSE
        OBVIOUS
      <4>2. r > run
        BY <1>2, <3>1, <4>1
      <4>3. results[r] = NoResult
        BY <1>1, <4>2 DEF Written
      <4> QED BY <2>1, <4>3, NoResultParts DEF Whole
    <3>3. results'[q].pin = results[q].pin
      BY <1>1, <3>1, <3>2, PinStays
    <3> QED BY <2>1, <2>2, <2>3, <2>4, <3>3
  <2> QED BY <2>1, <2>2, <2>3, <2>4
<1> QED BY <1>4, <1>5, <1>6

LEMMA OwnStep == OInv /\ [Next]_vars => OInv'
<1> SUFFICES ASSUME OInv, [Next]_vars PROVE OInv'
  OBVIOUS
<1>1. VInv'
  BY TextsStep DEF OInv
<1>2. WInv'
  BY <1>1 DEF VInv
<1> QED BY <1>1, <1>2, BaseOwnStep, ExtensionOwnStep, ResultsOwnStep DEF OInv

LEMMA OwnAlways == Spec => []OInv
BY OwnInitially, OwnStep, PTL DEF Spec

\* What a passed extension pins is what its source pinned and, behind it, the
\* work of its own first server: the counts of reused tokens, the restore and
\* the parse of the saved pair leave room for nothing else.
THEOREM PassContinuesHolds == Spec => []PassContinues
<1>1. ASSUME OInv PROVE PassContinues
  <2>1. WInv /\ Resumes /\ DiskOK /\ ResultsOwn
    BY <1>1 DEF OInv, VInv, WInv, TInv
  <2> DEFINE old(r) == results[results[r].source].pin.held
             new(r) == results[r].pin.held
  <2>2. SUFFICES ASSUME NEW r \in Runs \ {0}, Passed(r), r \notin spoilt
                 PROVE  /\ Len(new(r)) > Len(old(r))
                        /\ \A i \in DOMAIN new(r) :
                              new(r)[i] = IF i <= Len(old(r)) THEN old(r)[i]
                                          ELSE [text |-> results[r].texts[i], by |-> First(r)]
    BY DEF PassContinues
  <2>3. Whole(r) /\ r > 0
    BY <2>1, <2>2, Numbers DEF Resumes
  <2>4. /\ new(r) = Grown(old(r), results[r].texts, First(r))
        /\ Len(old(r)) < Len(results[r].texts)
    BY <2>1, <2>2, <2>3 DEF ResultsOwn
  <2>5. results[r].texts \in Seq(Nat) /\ Len(results[r].texts) \in Nat
    BY <2>1, <2>2, DiskParts, OutcomeParts
  <2>6. Len(old(r)) \in Nat
    <3>1. results[r].source \in Runs
      BY <2>1, <2>2, DiskParts, OutcomeParts
    <3>2. results[results[r].source].pin \in Content
      BY <2>1, <3>1, DiskParts, OutcomeParts
    <3> QED BY <3>2, ContentParts
  <2>7. /\ DOMAIN new(r) = 1 .. Len(results[r].texts) /\ Len(new(r)) = Len(results[r].texts)
        /\ \A i \in 1 .. Len(results[r].texts) :
              new(r)[i] = IF i <= Len(old(r)) THEN old(r)[i]
                          ELSE [text |-> results[r].texts[i], by |-> First(r)]
    <3>1. /\ DOMAIN Grown(old(r), results[r].texts, First(r)) = 1 .. Len(results[r].texts)
          /\ Len(Grown(old(r), results[r].texts, First(r))) = Len(results[r].texts)
          /\ \A i \in 1 .. Len(results[r].texts) :
                Grown(old(r), results[r].texts, First(r))[i] =
                    IF i <= Len(old(r)) THEN old(r)[i]
                    ELSE [text |-> results[r].texts[i], by |-> First(r)]
      <4>1. DOMAIN results[r].texts = 1 .. Len(results[r].texts)
        BY <2>5
      <4> QED BY <2>5, <4>1 DEF Grown
    <3> QED BY <2>4, <3>1
  <2> QED BY <2>4, <2>5, <2>6, <2>7
<1> QED BY <1>1, OwnAlways, PTL

\* The pair that is pinned as the base holds the probe's prompt and nothing
\* behind it, every piece evaluated by the probe's first server.
THEOREM BaseIsOwnHolds == Spec => []BaseIsOwn
<1>1. ASSUME OInv PROVE BaseIsOwn
  <2>1. SUFFICES ASSUME results[0].pin # Absent, 0 \notin spoilt
                 PROVE  /\ Texts(results[0].pin) = results[0].texts
                        /\ ~results[0].pin.other
                        /\ \A i \in DOMAIN results[0].pin.held : results[0].pin.held[i].by = First(0)
    BY DEF BaseIsOwn
  <2>2. WInv /\ Written /\ DiskOK /\ Vectors /\ ResultsOwn /\ BaseOwn /\ 0 \in Runs
    BY <1>1, Numbers DEF OInv, VInv, WInv, TInv, Texted
  <2>3. Passed(0) /\ Whole(0)
    BY <2>1, <2>2 DEF Written, Passed, Whole
  <2>4. Holds(results[0].pin, results[0].texts) /\ files[0] = results[0].pin
    BY <2>1, <2>2, <2>3 DEF Vectors, ResultsOwn
  <2>5. \A i \in 1 .. Len(files[0].held) : files[0].held[i].by = First(0)
    BY <2>1, <2>2, <2>3 DEF BaseOwn
  <2>6. DOMAIN files[0].held = 1 .. Len(files[0].held)
    BY <2>2, DiskParts, ContentParts
  <2> QED BY <2>4, <2>5, <2>6 DEF Holds
<1> QED BY <1>1, OwnAlways, PTL

\* What passed was restored by a second server with all its tokens in place,
\* and for an extension that is the pair it pins.
THEOREM PassWasRevivedHolds == Spec => []PassWasRevived
<1>1. ASSUME OInv PROVE PassWasRevived
  <2>1. SUFFICES ASSUME NEW r \in Runs, Passed(r)
                 PROVE  /\ Texts(results[r].revived) = results[r].texts /\ ~results[r].revived.other
                        /\ r > 0 /\ r \notin spoilt => results[r].revived = results[r].pin
    BY DEF PassWasRevived
  <2>2. WInv /\ Resumes /\ Recorded /\ ResultsOwn
    BY <1>1 DEF OInv, VInv, WInv, Texted
  <2>3. Holds(results[r].revived, results[r].texts)
    BY <2>1, <2>2 DEF Recorded
  <2>4. ASSUME r > 0, r \notin spoilt PROVE results[r].revived = results[r].pin
    BY <2>1, <2>2, <2>4, Numbers DEF Resumes, ResultsOwn
  <2> QED BY <2>3, <2>4 DEF Holds
<1> QED BY <1>1, OwnAlways, PTL

\* The pair of a passed result stays the pinned one: later runs copy it, and
\* write into directories of their own.
THEOREM PinnedStaysHolds == Spec => []PinnedStays
<1>1. ASSUME OInv PROVE PinnedStays
  <2>1. ASSUME NEW r \in Runs, Passed(r), results[r].pin # Absent PROVE Whole(r)
    BY <2>1 DEF Passed, Whole
  <2> QED BY <1>1, <2>1 DEF OInv, ResultsOwn, PinnedStays
<1> QED BY <1>1, OwnAlways, PTL
=============================================================================
