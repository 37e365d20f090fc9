------------------------- MODULE StagePlan_proofs -------------------------
(* Theorems about StagePlan, for any conversation, targets, canonical range *)
(* and chunk size.                                                          *)
(*                                                                          *)
(* The functions of StagePlan are recursive, so that they have the values   *)
(* their equations give only if there is a function that solves these: that *)
(* is proved first, with the least number for which there is none.          *)
EXTENDS MCStagedBuild, SequenceTheorems, FiniteSetTheorems, WellFoundedInduction, TLAPS

\* A set of numbers has a least one.
LEMMA Least ==
    ASSUME NEW T, T \subseteq Nat, T # {}
    PROVE  \E x \in T : \A y \in T : x <= y
<1>1. PICK x \in T : \A y \in T : <<y, x>> \notin OpToRel(<, Nat)
  BY NatLessThanWellFounded, WFMin
<1>2. \A y \in T : ~(y < x)
  BY <1>1 DEF OpToRel
<1> QED BY <1>2

\* A bounded set of numbers has the maximum that Max chooses.
LEMMA Largest ==
    ASSUME NEW S, S \subseteq Nat, S # {}, NEW b \in Nat, \A x \in S : x <= b
    PROVE  Max(S) \in S /\ \A x \in S : x <= Max(S)
<1> DEFINE U == {u \in Nat : \A x \in S : x <= u}
<1>1. PICK u \in U : \A v \in U : u <= v
  <2>1. U \subseteq Nat /\ U # {}
    OBVIOUS
  <2> HIDE DEF U
  <2> QED BY <2>1, Least
<1>2. u \in Nat /\ \A x \in S : x <= u
  OBVIOUS
<1>3. u \in S
  <2> SUFFICES ASSUME u \notin S PROVE FALSE
    OBVIOUS
  <2>1. \A x \in S : x \in Nat /\ x < u
    BY <1>2
  <2>2. u - 1 \in Nat
    <3>1. PICK x \in S : TRUE
      OBVIOUS
    <3> QED BY <1>2, <2>1, <3>1
  <2>3. \A x \in S : x <= u - 1
    BY <1>2, <2>1
  <2>4. u <= u - 1
    BY <1>1, <2>2, <2>3
  <2> QED BY <1>2, <2>4
<1>4. \E x \in S : \A y \in S : x >= y
  BY <1>2, <1>3
<1>5. Max(S) \in S /\ \A y \in S : Max(S) >= y
  BY <1>4 DEF Max
<1> QED BY <1>5

\* A function that is computed step by step exists.
LEMMA StepByStep ==
    ASSUME NEW len \in Nat, NEW G \in [1 .. len -> [Nat -> Nat]]
    PROVE  \E f \in [0 .. len -> Nat] :
              f[0] = 0 /\ \A i \in 1 .. len : f[i] = G[i][f[i - 1]]
<1> DEFINE Upto(m) == \E f \in [0 .. m -> Nat] :
                         f[0] = 0 /\ \A i \in 1 .. m : f[i] = G[i][f[i - 1]]
           Bad == {m \in 0 .. len : ~Upto(m)}
<1> HIDE DEF Upto, Bad
<1>1. Upto(0)
  <2>1. [i \in 0 .. 0 |-> 0] \in [0 .. 0 -> Nat] /\ [i \in 0 .. 0 |-> 0][0] = 0
        /\ 1 .. 0 = {}
    OBVIOUS
  <2> QED BY <2>1 DEF Upto
<1>2. ASSUME NEW m \in 1 .. len, Upto(m - 1) PROVE Upto(m)
  <2>1. PICK f \in [0 .. m - 1 -> Nat] :
           f[0] = 0 /\ \A i \in 1 .. m - 1 : f[i] = G[i][f[i - 1]]
    BY <1>2 DEF Upto
  <2> DEFINE g == [i \in 0 .. m |-> IF i = m THEN G[m][f[m - 1]] ELSE f[i]]
  <2>2. \A i \in 0 .. m : g[i] = IF i = m THEN G[m][f[m - 1]] ELSE f[i]
    OBVIOUS
  <2>3. g \in [0 .. m -> Nat]
    <3>1. f[m - 1] \in Nat /\ G[m] \in [Nat -> Nat]
      OBVIOUS
    <3>2. G[m][f[m - 1]] \in Nat
      BY <3>1
    <3>3. \A i \in 0 .. m : i # m => i \in 0 .. m - 1
      OBVIOUS
    <3> QED BY <3>2, <3>3
  <2> HIDE DEF g
  <2>4. g[0] = 0
    <3>1. 0 \in 0 .. m /\ 0 # m
      OBVIOUS
    <3> QED BY <2>1, <2>2, <3>1
  <2>5. ASSUME NEW i \in 1 .. m PROVE g[i] = G[i][g[i - 1]]
    <3>1. i \in 0 .. m /\ i - 1 \in 0 .. m /\ i - 1 # m
      OBVIOUS
    <3>2. g[i - 1] = f[i - 1]
      BY <2>2, <3>1
    <3>3. CASE i = m
      BY <2>2, <3>1, <3>2, <3>3
    <3>4. CASE i # m
      <4>1. i \in 1 .. m - 1
        BY <3>4
      <4> QED BY <2>1, <2>2, <3>1, <3>2, <3>4, <4>1
    <3> QED BY <3>3, <3>4
  <2> QED BY <2>3, <2>4, <2>5 DEF Upto
<1>3. Bad = {}
  <2> SUFFICES ASSUME Bad # {} PROVE FALSE
    OBVIOUS
  <2>1. PICK m \in Bad : \A k \in Bad : m <= k
    <3>1. Bad \subseteq Nat
      BY DEF Bad
    <3> QED BY <3>1, Least
  <2>2. m \in 0 .. len /\ ~Upto(m)
    BY DEF Bad
  <2>3. m \in 1 .. len
    BY <1>1, <2>2
  <2>4. m - 1 \notin Bad /\ m - 1 \in 0 .. len
    BY <2>1, <2>3
  <2> QED BY <1>2, <2>2, <2>3, <2>4 DEF Bad
<1>4. Upto(len)
  <2>1. len \in 0 .. len
    OBVIOUS
  <2> QED BY <1>3, <2>1 DEF Bad
<1> QED BY <1>4 DEF Upto

\* What one step of select_stage_boundaries picks behind an earlier end.
Nearest(counts, behind, bound) ==
    LET candidates == {c \in counts : behind < c /\ c <= bound}
    IN  IF candidates = {} THEN 0 ELSE Max(candidates)

\* It is the largest boundary there is between the two, if there is one.
LEMMA NearestIs ==
    ASSUME NEW counts \in SUBSET Nat, NEW behind, NEW bound \in Nat
    PROVE  LET x == Nearest(counts, behind, bound)
           IN  /\ x \in Nat /\ x <= bound
               /\ x # 0 => /\ x \in counts /\ behind < x
                           /\ \A c \in counts : behind < c /\ c <= bound => c <= x
               /\ (\E c \in counts : 0 < c /\ behind < c /\ c <= bound) => x # 0
<1> DEFINE candidates == {c \in counts : behind < c /\ c <= bound}
           x == Nearest(counts, behind, bound)
<1>1. x = IF candidates = {} THEN 0 ELSE Max(candidates)
  BY DEF Nearest
<1>2. CASE candidates = {}
  <2>1. x = 0 /\ \A c \in counts : ~(behind < c /\ c <= bound)
    BY <1>1, <1>2
  <2> QED BY <2>1
<1>3. CASE candidates # {}
  <2>1. candidates \subseteq Nat /\ \A c \in candidates : c <= bound
    OBVIOUS
  <2>2. x \in candidates /\ \A c \in candidates : c <= x
    <3> HIDE DEF candidates
    <3> QED BY <1>1, <1>3, <2>1, Largest
  <2>3. x \in counts /\ behind < x /\ x <= bound /\ x \in Nat
    BY <2>2
  <2>4. \A c \in counts : behind < c /\ c <= bound => c <= x
    BY <2>2
  <2> HIDE DEF x, candidates
  <2> QED BY <2>3, <2>4 DEF x
<1> QED BY <1>2, <1>3

\* The equation of the loop over the targets has a solution.
LEMMA PickedExists ==
    ASSUME NEW counts \in SUBSET Nat, NEW targets \in Seq(Nat)
    PROVE  \E picked :
              picked = [i \in 0 .. Len(targets) |->
                           IF i = 0 THEN 0 ELSE Nearest(counts, picked[i - 1], targets[i])]
<1> DEFINE len == Len(targets)
           G == [i \in 1 .. len |-> [v \in Nat |-> Nearest(counts, v, targets[i])]]
<1>1. len \in Nat /\ \A i \in 1 .. len : targets[i] \in Nat
  BY LenProperties
<1>2. \A i \in 1 .. len, v \in Nat : /\ G[i][v] = Nearest(counts, v, targets[i])
                                   /\ G[i][v] \in Nat
  <2>1. \A i \in 1 .. len, v \in Nat : G[i][v] = Nearest(counts, v, targets[i])
    OBVIOUS
  <2>2. \A i \in 1 .. len, v \in Nat : Nearest(counts, v, targets[i]) \in Nat
    BY <1>1, NearestIs
  <2> QED BY <2>1, <2>2
<1>3. PICK f \in [0 .. len -> Nat] : f[0] = 0 /\ \A i \in 1 .. len : f[i] = G[i][f[i - 1]]
  <2>1. len \in Nat /\ G \in [1 .. len -> [Nat -> Nat]]
    BY <1>1, <1>2
  <2> HIDE DEF G, len
  <2> QED BY <2>1, StepByStep
<1>4. \A i \in 0 .. len : f[i] = IF i = 0 THEN 0 ELSE Nearest(counts, f[i - 1], targets[i])
  <2> TAKE i \in 0 .. len
  <2>1. CASE i = 0
    BY <1>3, <2>1
  <2>2. CASE i # 0
    <3> HIDE DEF G, len
    <3>1. i \in 1 .. len /\ i - 1 \in 0 .. len
      BY <1>1, <2>2
    <3>2. f[i - 1] \in Nat
      BY <1>3, <3>1
    <3> QED BY <1>2, <1>3, <2>2, <3>1, <3>2
  <2> QED BY <2>1, <2>2
<1>5. f = [i \in 0 .. len |-> IF i = 0 THEN 0 ELSE Nearest(counts, f[i - 1], targets[i])]
  <2> HIDE DEF len
  <2> QED BY <1>3, <1>4
<1> QED BY <1>5

\* The ends that select_stage_boundaries picks, as a function of the stage.
IsPicked(picked, counts, targets) ==
    picked = [i \in 0 .. Len(targets) |->
                 IF i = 0 THEN 0 ELSE Nearest(counts, picked[i - 1], targets[i])]

\* The boundaries in the canonical range, and the one that is chosen, if it is
\* behind an earlier end.
InRange(counts, minimum, maximum) == {c \in counts : minimum <= c /\ c <= maximum}
Final(counts, minimum, maximum, behind) ==
    {c \in select_canonical_boundary(counts, minimum, maximum) : c > behind}

\* The plan that these ends make.
PlanOf(picked, counts, targets, minimum, maximum) ==
    LET final == Final(counts, minimum, maximum, picked[Len(targets)])
    IN  IF (\E i \in DOMAIN targets : picked[i] = 0) \/ final = {}
        THEN Raised
        ELSE [i \in 1 .. Len(targets) + 1 |->
                IF i <= Len(targets) THEN picked[i] ELSE Max(final)]

\* select_stage_boundaries is made of such ends.
LEMMA PlanIs ==
    ASSUME NEW counts \in SUBSET Nat, NEW targets \in Seq(Nat), NEW minimum, NEW maximum
    PROVE  \E picked : /\ IsPicked(picked, counts, targets)
                       /\ select_stage_boundaries(counts, targets, minimum, maximum) =
                            PlanOf(picked, counts, targets, minimum, maximum)
<1> DEFINE picked[i \in 0 .. Len(targets)] ==
              IF i = 0 THEN 0
              ELSE LET candidates == {c \in counts : picked[i - 1] < c /\ c <= targets[i]}
                   IN  IF candidates = {} THEN 0 ELSE Max(candidates)
<1>1. IsPicked(picked, counts, targets)
  <2>1. \E f : f = [i \in 0 .. Len(targets) |->
                       IF i = 0 THEN 0
                       ELSE LET candidates == {c \in counts : f[i - 1] < c /\ c <= targets[i]}
                            IN  IF candidates = {} THEN 0 ELSE Max(candidates)]
    BY PickedExists DEF Nearest
  <2> QED BY <2>1 DEF IsPicked, Nearest
<1>2. select_stage_boundaries(counts, targets, minimum, maximum) =
        PlanOf(picked, counts, targets, minimum, maximum)
  BY DEF select_stage_boundaries, Final, PlanOf
<1> HIDE DEF picked
<1> QED BY <1>1, <1>2

\* Numbers that ascend one by one ascend altogether.
LEMMA Ascending ==
    ASSUME NEW len \in Nat, NEW t, \A i \in 1 .. len : t[i] \in Nat,
           \A i \in 1 .. len - 1 : t[i] < t[i + 1]
    PROVE  \A i, j \in 1 .. len : i < j => t[i] < t[j]
<1> DEFINE Bad == {j \in 1 .. len : \E i \in 1 .. len : i < j /\ ~(t[i] < t[j])}
<1> HIDE DEF Bad
<1>1. Bad = {}
  <2> SUFFICES ASSUME Bad # {} PROVE FALSE
    OBVIOUS
  <2>1. PICK j \in Bad : \A k \in Bad : j <= k
    <3>1. Bad \subseteq Nat
      BY DEF Bad
    <3> QED BY <3>1, Least
  <2>2. j \in 1 .. len
    BY DEF Bad
  <2>3. PICK i \in 1 .. len : i < j /\ ~(t[i] < t[j])
    BY DEF Bad
  <2>4. j - 1 \in 1 .. len - 1 /\ j - 1 \in 1 .. len /\ j - 1 < j /\ (j - 1) + 1 = j
    BY <2>2, <2>3
  <2>5. t[j - 1] < t[j]
    BY <2>4
  <2>6. i = j - 1 \/ i < j - 1
    BY <2>2, <2>3
  <2>7. CASE i = j - 1
    BY <2>3, <2>5, <2>7
  <2>8. CASE i < j - 1
    <3>1. j - 1 \notin Bad
      BY <2>1, <2>2, <2>4
    <3>2. t[i] < t[j - 1]
      BY <2>4, <2>8, <3>1 DEF Bad
    <3>3. t[i] \in Nat /\ t[j - 1] \in Nat /\ t[j] \in Nat
      BY <2>2, <2>3, <2>4
    <3> QED BY <2>3, <2>5, <3>2, <3>3
  <2> QED BY <2>6, <2>7, <2>8
<1> QED BY <1>1 DEF Bad

Behind(targets, i) == IF i = 1 THEN 0 ELSE targets[i - 1]

\* What the loop carries along does not matter: where every stage has an end,
\* it lies behind the target before.
LEMMA PickedIs ==
    ASSUME NEW counts \in SUBSET (Nat \ {0}), NEW targets \in Seq(Nat \ {0}),
           AcceptedTargets(targets), NEW picked, IsPicked(picked, counts, targets)
    PROVE  /\ \A i \in 0 .. Len(targets) : picked[i] \in Nat
           /\ \A i \in DOMAIN targets :
                 /\ picked[i] <= targets[i]
                 /\ picked[i] # 0 => /\ picked[i] \in counts /\ picked[i - 1] < picked[i]
                                     /\ \A c \in counts : picked[i - 1] < c /\ c <= targets[i]
                                                             => c <= picked[i]
                 /\ (\E c \in counts : Behind(targets, i) < c /\ c <= targets[i])
                       => picked[i] # 0
           /\ (\A i \in DOMAIN targets : picked[i] # 0) =>
                 \A i \in DOMAIN targets : Behind(targets, i) < picked[i]
<1> DEFINE len == Len(targets)
<1>1. len \in Nat /\ DOMAIN targets = 1 .. len /\ \A i \in 1 .. len : targets[i] \in Nat
  BY LenProperties
<1>2. counts \in SUBSET Nat /\ 0 \notin counts
  OBVIOUS
<1> HIDE DEF len
<1>3. picked[0] = 0 /\ \A i \in 1 .. len : picked[i] = Nearest(counts, picked[i - 1], targets[i])
  <2>1. \A i \in 0 .. len : picked[i] = IF i = 0 THEN 0
                                      ELSE Nearest(counts, picked[i - 1], targets[i])
    BY DEF IsPicked, len
  <2>2. 0 \in 0 .. len /\ \A i \in 1 .. len : i \in 0 .. len /\ i # 0
    BY <1>1
  <2> QED BY <2>1, <2>2
<1>4. ASSUME NEW i \in 1 .. len
      PROVE  /\ picked[i] \in Nat /\ picked[i] <= targets[i]
             /\ picked[i] # 0 => /\ picked[i] \in counts /\ picked[i - 1] < picked[i]
                                 /\ \A c \in counts : picked[i - 1] < c /\ c <= targets[i]
                                                         => c <= picked[i]
             /\ (\E c \in counts : 0 < c /\ picked[i - 1] < c /\ c <= targets[i])
                   => picked[i] # 0
  <2> DEFINE x == Nearest(counts, picked[i - 1], targets[i])
  <2>1. /\ x \in Nat /\ x <= targets[i]
        /\ x # 0 => /\ x \in counts /\ picked[i - 1] < x
                    /\ \A c \in counts : picked[i - 1] < c /\ c <= targets[i] => c <= x
        /\ (\E c \in counts : 0 < c /\ picked[i - 1] < c /\ c <= targets[i]) => x # 0
    BY <1>1, <1>2, NearestIs
  <2>2. picked[i] = x
    BY <1>3
  <2> HIDE DEF x
  <2> QED BY <2>1, <2>2
<1>5. \A i \in 0 .. len : picked[i] \in Nat
  <2>1. \A i \in 0 .. len : i = 0 \/ i \in 1 .. len
    BY <1>1
  <2> QED BY <1>3, <1>4, <2>1
<1>6. \A i \in 1 .. len : i # 1 => i - 1 \in 1 .. len
  BY <1>1
<1>7. \A i \in 1 .. len : picked[i - 1] <= Behind(targets, i) /\ picked[i - 1] \in Nat
  <2> TAKE i \in 1 .. len
  <2>1. CASE i = 1
    BY <1>3, <2>1 DEF Behind
  <2>2. CASE i # 1
    BY <1>4, <1>6, <2>2 DEF Behind
  <2> QED BY <2>1, <2>2
<1>8. ASSUME NEW i \in 1 .. len, \E c \in counts : Behind(targets, i) < c /\ c <= targets[i]
      PROVE  picked[i] # 0
  <2>1. Behind(targets, i) \in Nat
    BY <1>1, <1>6 DEF Behind
  <2>2. PICK c \in counts : Behind(targets, i) < c /\ c <= targets[i]
    BY <1>8
  <2>3. c \in Nat /\ 0 < c /\ picked[i - 1] < c
    BY <1>2, <1>7, <2>1, <2>2
  <2> QED BY <1>4, <2>2, <2>3
<1>9. ASSUME \A i \in 1 .. len : picked[i] # 0, NEW i \in 1 .. len
      PROVE  Behind(targets, i) < picked[i]
  <2>1. picked[i] \in counts /\ picked[i] \in Nat /\ picked[i - 1] < picked[i] /\ 0 < picked[i]
    BY <1>4, <1>9
  <2>2. CASE i = 1
    BY <2>1, <2>2 DEF Behind
  <2>3. CASE i # 1
    <3> DEFINE j == i - 1
    <3>1. j \in 1 .. len /\ Behind(targets, i) = targets[j]
      BY <1>6, <2>3 DEF Behind
    <3>2. picked[j - 1] < picked[j] /\ picked[j] < picked[i]
          /\ \A c \in counts : picked[j - 1] < c /\ c <= targets[j] => c <= picked[j]
      BY <1>4, <1>9, <2>1, <3>1
    <3>3. picked[j - 1] \in Nat /\ picked[j] \in Nat /\ targets[j] \in Nat
      BY <1>1, <1>4, <1>7, <3>1
    <3> HIDE DEF j
    <3>4. picked[j - 1] < picked[i] /\ ~(picked[i] <= picked[j])
      BY <2>1, <3>2, <3>3
    <3>5. ~(picked[i] <= targets[j])
      BY <2>1, <3>2, <3>4
    <3> QED BY <2>1, <3>1, <3>3, <3>5
  <2> QED BY <2>2, <2>3
<1> QED BY <1>1, <1>4, <1>5, <1>8, <1>9 DEF len

\* The canonical boundary, when it is behind an earlier end.
LEMMA FinalIs ==
    ASSUME NEW counts \in SUBSET Nat, NEW minimum \in Nat, NEW maximum \in Nat, NEW behind \in Nat
    PROVE  /\ (\E c \in InRange(counts, minimum, maximum) : c > behind)
                 => Final(counts, minimum, maximum, behind) # {}
           /\ Final(counts, minimum, maximum, behind) # {} =>
                 /\ Max(Final(counts, minimum, maximum, behind))
                       \in InRange(counts, minimum, maximum)
                 /\ Max(Final(counts, minimum, maximum, behind)) > behind
                 /\ \A c \in InRange(counts, minimum, maximum) :
                       c <= Max(Final(counts, minimum, maximum, behind))
<1> DEFINE range == InRange(counts, minimum, maximum)
           canonical == select_canonical_boundary(counts, minimum, maximum)
           final == Final(counts, minimum, maximum, behind)
<1>1. canonical = IF range = {} THEN {} ELSE {Max(range)}
  BY DEF select_canonical_boundary, InRange
<1>2. range \subseteq Nat /\ \A c \in range : c <= maximum
  BY DEF InRange
<1>3. final = {c \in canonical : c > behind}
  BY DEF Final
<1> HIDE DEF range, canonical, final
<1>4. CASE range = {}
  <2>1. final = {}
    BY <1>1, <1>3, <1>4
  <2> QED BY <1>4, <2>1 DEF range, final
<1>5. CASE range # {}
  <2> DEFINE m == Max(range)
  <2>1. m \in range /\ m \in Nat /\ \A c \in range : c <= m
    BY <1>2, <1>5, Largest
  <2>2. final = IF m > behind THEN {m} ELSE {}
    BY <1>1, <1>3, <1>5
  <2> HIDE DEF m
  <2>3. (\E c \in range : c > behind) => m > behind
    BY <1>2, <2>1
  <2>4. m > behind => Max(final) = m
    BY <2>1, <2>2 DEF Max
  <2>5. m > behind <=> final # {}
    BY <2>2
  <2>6. /\ (\E c \in range : c > behind) => final # {}
        /\ final # {} => /\ Max(final) \in range /\ Max(final) > behind
                         /\ \A c \in range : c <= Max(final)
    BY <2>1, <2>3, <2>4, <2>5
  <2> QED BY <2>6 DEF range, final
<1> QED BY <1>4, <1>5

\* Whatever the boundaries, the targets and the canonical range: there is a
\* plan exactly where the boundaries allow one, and it is sound.
THEOREM EveryPlanIsSound ==
    ASSUME NEW counts \in SUBSET (Nat \ {0}), NEW targets \in Seq(Nat \ {0}),
           NEW minimum \in Nat, NEW maximum \in Nat,
           AcceptedTargets(targets), AcceptedRange(minimum, maximum)
    PROVE  SoundPlan(counts, targets, minimum, maximum)
<1> DEFINE len == Len(targets)
           plan == select_stage_boundaries(counts, targets, minimum, maximum)
           range == InRange(counts, minimum, maximum)
           final(b) == Final(counts, minimum, maximum, b)
<1>1. len \in Nat /\ len \in 1 .. len /\ DOMAIN targets = 1 .. len
      /\ \A i \in 1 .. len : targets[i] \in Nat
  <2>1. len \in Nat /\ DOMAIN targets = 1 .. len /\ \A i \in 1 .. len : targets[i] \in Nat
    BY LenProperties
  <2>2. targets # <<>>
    BY DEF AcceptedTargets
  <2>3. len # 0
    BY <2>2, EmptySeq
  <2> QED BY <2>1, <2>3
<1>2. counts \in SUBSET Nat /\ range \subseteq counts /\ targets \in Seq(Nat)
  <2>1. Nat \ {0} \subseteq Nat
    OBVIOUS
  <2> QED BY <2>1, SeqMonotonic DEF InRange
<1>3. PICK picked : /\ IsPicked(picked, counts, targets)
                    /\ plan = PlanOf(picked, counts, targets, minimum, maximum)
  BY <1>2, PlanIs
<1> DEFINE last == picked[len]
           m == Max(final(last))
<1>4. /\ \A i \in 0 .. len : picked[i] \in Nat
      /\ \A i \in 1 .. len :
            /\ picked[i] <= targets[i]
            /\ picked[i] # 0 => /\ picked[i] \in counts /\ picked[i - 1] < picked[i]
                                /\ \A c \in counts : picked[i - 1] < c /\ c <= targets[i]
                                                        => c <= picked[i]
            /\ (\E c \in counts : Behind(targets, i) < c /\ c <= targets[i])
                  => picked[i] # 0
      /\ (\A i \in 1 .. len : picked[i] # 0) =>
            \A i \in 1 .. len : Behind(targets, i) < picked[i]
  <2> HIDE DEF len
  <2> QED BY <1>1, <1>3, PickedIs DEF len
<1>5. last \in Nat /\ last <= targets[len] /\ targets[len] \in Nat
  BY <1>1, <1>4
<1>6. /\ (\E c \in range : c > last) => final(last) # {}
      /\ final(last) # {} => m \in range /\ m > last /\ \A c \in range : c <= m
  <2> HIDE DEF last, range
  <2> QED BY <1>2, <1>5, FinalIs DEF range
<1> HIDE DEF plan, range, final, len, last, m
<1>7. plan = IF (\E i \in 1 .. len : picked[i] = 0) \/ final(last) = {}
             THEN Raised ELSE [i \in 1 .. len + 1 |-> IF i <= len THEN picked[i] ELSE m]
  BY <1>1, <1>3 DEF PlanOf, last, m, final, len
<1>8. (\A i \in 1 .. len : picked[i] # 0) /\ final(last) # {} => m > targets[len]
  <2> SUFFICES ASSUME \A i \in 1 .. len : picked[i] # 0, final(last) # {}, m <= targets[len]
               PROVE  FALSE
    <3>1. final(last) # {} => m \in Nat
      BY <1>2, <1>6
    <3> QED BY <1>5, <3>1
  <2>1. m \in counts /\ m \in Nat /\ last < m
    BY <1>2, <1>5, <1>6
  <2>2. picked[len - 1] < last /\ picked[len - 1] \in Nat
    <3>1. len - 1 \in 0 .. len
      BY <1>1
    <3> QED BY <1>1, <1>4, <3>1 DEF last
  <2>3. m <= last
    <3>1. picked[len - 1] < m
      BY <1>5, <2>1, <2>2
    <3> QED BY <1>1, <1>4, <2>1, <3>1 DEF last
  <2> QED BY <1>5, <2>1, <2>3
<1>9. (\A i \in 1 .. len : \E c \in counts : Behind(targets, i) < c /\ c <= targets[i])
      /\ (\E c \in range : c > targets[len])
      <=> (\A i \in 1 .. len : picked[i] # 0) /\ final(last) # {}
  <2>1. ASSUME \A i \in 1 .. len : \E c \in counts : Behind(targets, i) < c /\ c <= targets[i],
               \E c \in range : c > targets[len]
        PROVE  (\A i \in 1 .. len : picked[i] # 0) /\ final(last) # {}
    <3>1. \E c \in range : c > last
      <4>1. PICK c \in range : c > targets[len]
        BY <2>1
      <4>2. c \in Nat
        BY <1>2
      <4> QED BY <1>5, <4>1, <4>2
    <3> QED BY <1>4, <1>6, <2>1, <3>1
  <2>2. ASSUME \A i \in 1 .. len : picked[i] # 0, final(last) # {}
        PROVE  /\ \A i \in 1 .. len : \E c \in counts : Behind(targets, i) < c /\ c <= targets[i]
               /\ \E c \in range : c > targets[len]
    <3>1. \A i \in 1 .. len : /\ picked[i] \in counts /\ Behind(targets, i) < picked[i]
                            /\ picked[i] <= targets[i]
      BY <1>4, <2>2
    <3> QED BY <1>6, <1>8, <2>2, <3>1
  <2> QED BY <2>1, <2>2
<1>10. ASSUME \A i \in 1 .. len : picked[i] # 0, final(last) # {}
       PROVE  /\ plan = [i \in 1 .. len + 1 |-> IF i <= len THEN picked[i] ELSE m]
              /\ plan # Raised /\ Len(plan) = len + 1 /\ DOMAIN plan = 1 .. len + 1
              /\ \A i \in 1 .. len : plan[i] = picked[i]
              /\ plan[len + 1] = m
  <2>1. plan = [i \in 1 .. len + 1 |-> IF i <= len THEN picked[i] ELSE m]
    BY <1>7, <1>10
  <2>2. DOMAIN plan = 1 .. len + 1 /\ len + 1 \in Nat
    BY <1>1, <2>1
  <2>3. Len(plan) = len + 1
    BY <2>1, <2>2
  <2>4. plan # Raised
    BY <1>1, <2>3 DEF Raised
  <2>5. \A i \in 1 .. len : i \in 1 .. len + 1 /\ i <= len
    BY <1>1
  <2>6. len + 1 \in 1 .. len + 1 /\ ~(len + 1 <= len)
    BY <1>1
  <2> QED BY <2>1, <2>2, <2>3, <2>4, <2>5, <2>6
<1>11. ASSUME plan # Raised
       PROVE  (\A i \in 1 .. len : picked[i] # 0) /\ final(last) # {}
  BY <1>7, <1>11
<1>12. ASSUME plan # Raised, NEW i \in 1 .. len
       PROVE  counts \cap (plan[i] + 1) .. targets[i] = {}
  <2>1. plan[i] = picked[i] /\ picked[i] # 0 /\ picked[i] \in Nat
    <3>1. i \in 0 .. len
      BY <1>1
    <3> QED BY <1>4, <1>10, <1>11, <1>12, <3>1
  <2>2. picked[i - 1] < picked[i] /\ picked[i - 1] \in Nat
    <3>1. i - 1 \in 0 .. len
      BY <1>1
    <3> QED BY <1>4, <2>1, <3>1
  <2>3. \A c \in counts : picked[i - 1] < c /\ c <= targets[i] => c <= picked[i]
    BY <1>4, <2>1
  <2> SUFFICES ASSUME NEW c \in counts, c \in (plan[i] + 1) .. targets[i] PROVE FALSE
    OBVIOUS
  <2>4. c \in Nat /\ targets[i] \in Nat
    BY <1>1, <1>2
  <2>5. picked[i] < c /\ c <= targets[i]
    BY <2>1, <2>4
  <2>6. picked[i - 1] < c
    BY <2>1, <2>2, <2>4, <2>5
  <2>7. c <= picked[i]
    BY <2>3, <2>5, <2>6
  <2> QED BY <2>1, <2>4, <2>5, <2>7
<1>13. ASSUME plan # Raised, NEW i \in 1 .. len + 1, NEW j \in 1 .. len + 1, i < j
       PROVE  plan[i] < plan[j]
  <2>1. (\A k \in 1 .. len : picked[k] # 0) /\ final(last) # {}
    BY <1>11, <1>13
  <2>2. i \in 1 .. len /\ i \in 0 .. len
    BY <1>1, <1>13
  <2>3. plan[i] = picked[i] /\ picked[i] \in Nat /\ picked[i] <= targets[i] /\ targets[i] \in Nat
    BY <1>1, <1>4, <1>10, <2>1, <2>2
  <2>4. \A k, l \in 1 .. len : k < l => targets[k] < targets[l]
    BY <1>1, Ascending DEF AcceptedTargets, len
  <2>5. CASE j = len + 1
    <3>1. plan[j] = m /\ m > targets[len] /\ m \in Nat
      BY <1>2, <1>6, <1>8, <1>10, <2>1, <2>5
    <3>2. targets[i] <= targets[len]
      <4>1. i = len \/ i < len
        BY <1>1, <2>2
      <4> QED BY <1>1, <1>5, <2>2, <2>3, <2>4, <4>1
    <3> QED BY <1>5, <2>3, <3>1, <3>2
  <2>6. CASE j # len + 1
    <3>1. /\ j \in 1 .. len /\ j \in 0 .. len /\ j # 1 /\ j - 1 \in 1 .. len
          /\ i = j - 1 \/ i < j - 1
      BY <1>1, <1>13, <2>2, <2>6
    <3>2. plan[j] = picked[j] /\ picked[j] \in Nat /\ targets[j - 1] < picked[j]
      BY <1>4, <1>10, <2>1, <3>1 DEF Behind
    <3>3. targets[i] <= targets[j - 1] /\ targets[j - 1] \in Nat
      BY <1>1, <2>2, <2>3, <2>4, <3>1
    <3> QED BY <2>3, <3>2, <3>3
  <2> QED BY <2>5, <2>6
<1>14. plan # Raised <=>
         /\ \A i \in DOMAIN targets :
               \E c \in counts : Behind(targets, i) < c /\ c <= targets[i]
         /\ \E c \in range : c > targets[Len(targets)]
  BY <1>1, <1>9, <1>10, <1>11 DEF len
<1>15. ASSUME plan # Raised
       PROVE  /\ Len(plan) = Len(targets) + 1
              /\ \A i \in DOMAIN targets : /\ plan[i] \in counts /\ plan[i] <= targets[i]
                                           /\ counts \cap (plan[i] + 1) .. targets[i] = {}
              /\ plan[Len(plan)] \in range
              /\ \A i, j \in DOMAIN plan : i < j => plan[i] < plan[j]
  <2>1. (\A i \in 1 .. len : picked[i] # 0) /\ final(last) # {}
    BY <1>11, <1>15
  <2>2. /\ Len(plan) = len + 1 /\ DOMAIN plan = 1 .. len + 1 /\ plan[len + 1] = m
        /\ \A i \in 1 .. len : plan[i] = picked[i]
    BY <1>10, <2>1
  <2>3. \A i \in 1 .. len : plan[i] \in counts /\ plan[i] <= targets[i]
    BY <1>4, <2>1, <2>2
  <2>4. \A i \in 1 .. len : counts \cap (plan[i] + 1) .. targets[i] = {}
    BY <1>12, <1>15
  <2>5. plan[Len(plan)] \in range
    BY <1>6, <2>1, <2>2
  <2>6. \A i, j \in DOMAIN plan : i < j => plan[i] < plan[j]
    BY <1>13, <1>15, <2>2
  <2> QED BY <1>1, <2>2, <2>3, <2>4, <2>5, <2>6 DEF len
<1> QED BY <1>14, <1>15 DEF SoundPlan, Behind, plan, range, InRange

(***************************************************************************)
(* The chunks of a stage.                                                  *)
(***************************************************************************)
Piece == [start : Nat, end : Nat]
EndOf(start, target, size) == Min({target, start + size})

\* R cuts the tokens behind s up to the target into pieces of that size.
Cuts(R, s, target, size) ==
    /\ R \in Seq(Piece) /\ (s < target => Len(R) >= 1)
    /\ \A k \in DOMAIN R : /\ s <= R[k].start /\ R[k].end <= target
                           /\ R[k].end - R[k].start \in 1 .. size
    /\ \A k, l \in DOMAIN R : k < l => R[k].end <= R[l].start
    /\ \A token \in s + 1 .. target : \E k \in DOMAIN R : R[k].start < token /\ token <= R[k].end

\* A chunk is not empty and not too large.
LEMMA EndIs ==
    ASSUME NEW size \in Nat \ {0}, NEW target \in Nat, NEW s \in Nat, s < target
    PROVE  LET e == EndOf(s, target, size)
           IN  e \in s + 1 .. target /\ e \in Nat /\ e - s \in 1 .. size
<1> DEFINE e == EndOf(s, target, size)
<1>1. e = IF target <= s + size THEN target ELSE s + size
  <2>1. CASE target <= s + size
    <3>1. \A x \in {target, s + size} : (\A y \in {target, s + size} : x <= y) <=> x = target
      BY <2>1
    <3> QED BY <2>1, <3>1 DEF EndOf, Min
  <2>2. CASE ~(target <= s + size)
    <3>1. \A x \in {target, s + size} : (\A y \in {target, s + size} : x <= y) <=> x = s + size
      BY <2>2
    <3> QED BY <2>2, <3>1 DEF EndOf, Min
  <2> QED BY <2>1, <2>2
<1> HIDE DEF e
<1>2. e \in s + 1 .. target /\ e \in Nat /\ e - s \in 1 .. size
  BY <1>1
<1> QED BY <1>2 DEF e

\* Behind the target there is nothing to cut.
LEMMA NothingIsCut ==
    ASSUME NEW size \in Nat \ {0}, NEW target \in Nat
    PROVE  Cuts(<<>>, target, target, size)
<1>1. <<>> \in Seq(Piece) /\ DOMAIN <<>> = {} /\ ~(target < target) /\ target + 1 .. target = {}
  BY EmptySeq
<1> QED BY <1>1 DEF Cuts

\* One chunk more in front of a cut is a cut.
LEMMA OneMorePiece ==
    ASSUME NEW size \in Nat \ {0}, NEW target \in Nat, NEW s \in Nat, s < target,
           NEW R, Cuts(R, EndOf(s, target, size), target, size)
    PROVE  Cuts(<<[start |-> s, end |-> EndOf(s, target, size)]>> \o R, s, target, size)
<1> DEFINE e == EndOf(s, target, size)
           piece == [start |-> s, end |-> e]
           T == <<piece>> \o R
<1>1. e \in s + 1 .. target /\ e \in Nat /\ e - s \in 1 .. size /\ s < e
  <2>1. e \in s + 1 .. target /\ e \in Nat /\ e - s \in 1 .. size
    BY EndIs
  <2> HIDE DEF e
  <2> QED BY <2>1
<1> HIDE DEF e
<1>2. piece \in Piece /\ <<piece>> \in Seq(Piece) /\ Len(<<piece>>) = 1
      /\ piece.start = s /\ piece.end = e
  BY <1>1 DEF Piece
<1>3. R \in Seq(Piece) /\ Len(R) \in Nat /\ DOMAIN R = 1 .. Len(R)
  BY LenProperties DEF Cuts, e
<1> HIDE DEF piece
<1>4. T \in Seq(Piece) /\ Len(T) = 1 + Len(R) /\ DOMAIN T = 1 .. Len(T)
      /\ T[1] = piece /\ \A k \in 2 .. Len(T) : T[k] = R[k - 1] /\ k - 1 \in DOMAIN R
  <2>1. T \in Seq(Piece) /\ Len(T) = 1 + Len(R)
        /\ \A k \in 1 .. 1 + Len(R) : T[k] = IF k <= 1 THEN <<piece>>[k] ELSE R[k - 1]
    BY <1>2, <1>3, ConcatProperties
  <2>2. DOMAIN T = 1 .. Len(T)
    BY <2>1, LenProperties
  <2> HIDE DEF T
  <2>3. T[1] = piece
    <3>1. 1 \in 1 .. 1 + Len(R)
      BY <1>3
    <3> QED BY <2>1, <3>1
  <2>4. \A k \in 2 .. Len(T) : T[k] = R[k - 1] /\ k - 1 \in DOMAIN R
    BY <1>3, <2>1
  <2> QED BY <2>1, <2>2, <2>3, <2>4
<1> HIDE DEF T
<1>5. \A k \in DOMAIN T : k = 1 \/ k \in 2 .. Len(T)
  BY <1>3, <1>4
<1>6. \A k \in DOMAIN R : /\ e <= R[k].start /\ R[k].end <= target
                          /\ R[k].end - R[k].start \in 1 .. size
                          /\ R[k].start \in Nat /\ R[k].end \in Nat
  <2>1. \A k \in DOMAIN R : R[k] \in Piece
    BY <1>3, ElementOfSeq
  <2> QED BY <2>1 DEF Cuts, Piece, e
<1>7. ASSUME NEW k \in DOMAIN T
      PROVE  s <= T[k].start /\ T[k].end <= target /\ T[k].end - T[k].start \in 1 .. size
  <2>1. CASE k = 1
    BY <1>1, <1>2, <1>4, <2>1
  <2>2. CASE k \in 2 .. Len(T)
    <3>1. T[k] = R[k - 1] /\ k - 1 \in DOMAIN R
      BY <1>4, <2>2
    <3>2. e <= R[k - 1].start /\ R[k - 1].start \in Nat
      BY <1>6, <3>1
    <3>3. s <= R[k - 1].start
      BY <1>1, <3>2
    <3> QED BY <1>6, <3>1, <3>3
  <2> QED BY <1>5, <2>1, <2>2
<1>8. ASSUME NEW k \in DOMAIN T, NEW l \in DOMAIN T, k < l
      PROVE  T[k].end <= T[l].start
  <2>1. l \in 2 .. Len(T) /\ T[l] = R[l - 1] /\ l - 1 \in DOMAIN R
    BY <1>3, <1>4, <1>8
  <2>2. CASE k = 1
    BY <1>2, <1>4, <1>6, <2>1, <2>2
  <2>3. CASE k \in 2 .. Len(T)
    <3>1. T[k] = R[k - 1] /\ k - 1 \in DOMAIN R /\ k - 1 < l - 1
      BY <1>3, <1>4, <1>8, <2>1, <2>3
    <3> QED BY <2>1, <3>1 DEF Cuts
  <2> QED BY <1>5, <2>2, <2>3
<1>9. ASSUME NEW token \in s + 1 .. target
      PROVE  \E k \in DOMAIN T : T[k].start < token /\ token <= T[k].end
  <2>1. CASE token <= e
    <3>1. 1 \in DOMAIN T
      BY <1>3, <1>4
    <3> QED BY <1>2, <1>4, <2>1, <3>1
  <2>2. CASE ~(token <= e)
    <3>1. token \in e + 1 .. target
      BY <1>1, <2>2
    <3>2. PICK k \in DOMAIN R : R[k].start < token /\ token <= R[k].end
      BY <3>1 DEF Cuts, e
    <3>3. k + 1 \in 2 .. Len(T) /\ k + 1 \in DOMAIN T /\ (k + 1) - 1 = k
      BY <1>3, <1>4
    <3>4. T[k + 1] = R[k]
      BY <1>4, <3>3
    <3> QED BY <3>2, <3>3, <3>4
  <2> QED BY <2>1, <2>2
<1>10. Len(T) >= 1
  BY <1>3, <1>4
<1>11. Cuts(T, s, target, size)
  BY <1>4, <1>7, <1>8, <1>9, <1>10 DEF Cuts
<1> QED BY <1>11 DEF T, piece, e

\* f is the function of suffix_chunk_ranges from p on.
IsCutting(f, p, target, size) ==
    f = [start \in p .. target |->
            IF start = target THEN <<>>
            ELSE <<[start |-> start, end |-> EndOf(start, target, size)]>>
                   \o f[EndOf(start, target, size)]]

\* The equation of suffix_chunk_ranges has a solution.
LEMMA CuttingExists ==
    ASSUME NEW size \in Nat \ {0}, NEW target \in Nat, NEW previous \in Nat, previous <= target
    PROVE  \E f : IsCutting(f, previous, target, size)
<1> DEFINE From(d) == \E f : IsCutting(f, target - d, target, size)
           Bad == {d \in 0 .. target - previous : ~From(d)}
<1> HIDE DEF From, Bad
<1>1. From(0)
  <2> DEFINE f == [start \in target .. target |-> <<>>]
  <2>1. IsCutting(f, target, target, size)
    <3>1. \A start \in target .. target : start = target
      OBVIOUS
    <3> QED BY <3>1 DEF IsCutting
  <2>2. target - 0 = target
    OBVIOUS
  <2> HIDE DEF f
  <2> QED BY <2>1, <2>2 DEF From
<1>2. ASSUME NEW d \in 1 .. target - previous, From(d - 1) PROVE From(d)
  <2> DEFINE p == target - d
  <2>1. /\ p \in Nat /\ p < target /\ target - (d - 1) = p + 1
        /\ \A s \in p .. target : s \in Nat /\ (s # p => s \in p + 1 .. target)
        /\ p + 1 .. target \subseteq p .. target /\ p \in p .. target
    OBVIOUS
  <2> HIDE DEF p
  <2>2. PICK f : IsCutting(f, p + 1, target, size)
    BY <1>2, <2>1 DEF From
  <2> DEFINE Value(h, s) == IF s = target THEN <<>>
                            ELSE <<[start |-> s, end |-> EndOf(s, target, size)]>>
                                   \o h[EndOf(s, target, size)]
             g == [s \in p .. target |-> IF s = p THEN Value(f, p) ELSE f[s]]
  <2>3. \A s \in p + 1 .. target : f[s] = Value(f, s)
    BY <2>2 DEF IsCutting
  <2>4. \A s \in p .. target : s # target => EndOf(s, target, size) \in p + 1 .. target
    <3> TAKE s \in p .. target
    <3> HAVE s # target
    <3>1. s \in Nat /\ s < target
      BY <2>1
    <3>2. EndOf(s, target, size) \in s + 1 .. target
      BY <3>1, EndIs
    <3> QED BY <2>1, <3>2
  <2>5. \A s \in p + 1 .. target : s \in p .. target /\ s # p /\ g[s] = f[s]
    BY <2>1
  <2>6. \A s \in p .. target : Value(g, s) = Value(f, s)
    <3> HIDE DEF g
    <3> QED BY <2>4, <2>5
  <2>7. \A s \in p .. target : g[s] = Value(g, s)
    <3> TAKE s \in p .. target
    <3>1. CASE s = p
      <4>1. g[s] = Value(f, s)
        BY <3>1
      <4> HIDE DEF g, Value
      <4> QED BY <2>6, <4>1
    <3>2. CASE s # p
      <4>1. g[s] = f[s] /\ s \in p + 1 .. target
        BY <2>1, <3>2
      <4> HIDE DEF g, Value
      <4> QED BY <2>3, <2>6, <4>1
    <3> QED BY <3>1, <3>2
  <2>8. g = [s \in p .. target |-> g[s]]
    OBVIOUS
  <2>9. g = [s \in p .. target |-> Value(g, s)]
    <3> HIDE DEF g, Value
    <3> QED BY <2>7, <2>8
  <2> HIDE DEF g
  <2>10. IsCutting(g, p, target, size)
    BY <2>9 DEF IsCutting
  <2> QED BY <2>10 DEF From, p
<1>3. Bad = {}
  <2> SUFFICES ASSUME Bad # {} PROVE FALSE
    OBVIOUS
  <2>1. PICK d \in Bad : \A k \in Bad : d <= k
    <3>1. Bad \subseteq Nat
      BY DEF Bad
    <3> QED BY <3>1, Least
  <2>2. d \in 0 .. target - previous /\ ~From(d)
    BY DEF Bad
  <2>3. d \in 1 .. target - previous
    BY <1>1, <2>2
  <2>4. d - 1 \notin Bad /\ d - 1 \in 0 .. target - previous
    BY <2>1, <2>3
  <2> QED BY <1>2, <2>2, <2>3, <2>4 DEF Bad
<1>4. From(target - previous)
  <2>1. target - previous \in 0 .. target - previous
    OBVIOUS
  <2> QED BY <1>3, <2>1 DEF Bad
<1>5. target - (target - previous) = previous
  OBVIOUS
<1> QED BY <1>4, <1>5 DEF From

\* And every solution cuts.
LEMMA CuttingCuts ==
    ASSUME NEW size \in Nat \ {0}, NEW target \in Nat, NEW previous \in Nat, previous <= target,
           NEW f, IsCutting(f, previous, target, size)
    PROVE  \A s \in previous .. target : Cuts(f[s], s, target, size)
<1> DEFINE Bad == {d \in 0 .. target - previous : ~Cuts(f[target - d], target - d, target, size)}
<1> HIDE DEF Bad
<1>1. \A s \in previous .. target :
         f[s] = IF s = target THEN <<>>
                ELSE <<[start |-> s, end |-> EndOf(s, target, size)]>>
                       \o f[EndOf(s, target, size)]
  BY DEF IsCutting
<1>2. Bad = {}
  <2> SUFFICES ASSUME Bad # {} PROVE FALSE
    OBVIOUS
  <2>1. PICK d \in Bad : \A k \in Bad : d <= k
    <3>1. Bad \subseteq Nat
      BY DEF Bad
    <3> QED BY <3>1, Least
  <2> DEFINE s == target - d
  <2>2. d \in 0 .. target - previous /\ ~Cuts(f[s], s, target, size)
    BY DEF Bad
  <2>3. s \in previous .. target /\ s \in Nat /\ d = target - s
    BY <2>2
  <2> HIDE DEF s
  <2>4. CASE s = target
    <3>1. f[s] = <<>>
      BY <1>1, <2>3, <2>4
    <3> QED BY <2>2, <2>4, <3>1, NothingIsCut
  <2>5. CASE s # target
    <3> DEFINE e == EndOf(s, target, size)
    <3>1. s < target
      BY <2>3, <2>5
    <3>2. e \in s + 1 .. target /\ e \in Nat
      BY <2>3, <3>1, EndIs
    <3>3. f[s] = <<[start |-> s, end |-> e]>> \o f[e]
      BY <1>1, <2>3, <2>5
    <3> HIDE DEF e
    <3>4. target - e \in 0 .. target - previous /\ target - e < d /\ target - (target - e) = e
      BY <2>3, <3>2
    <3>5. target - e \notin Bad
      BY <2>1, <2>2, <3>4
    <3>6. Cuts(f[e], e, target, size)
      BY <3>4, <3>5 DEF Bad
    <3>7. Cuts(f[s], s, target, size)
      BY <2>3, <3>1, <3>3, <3>6, OneMorePiece DEF e
    <3> QED BY <2>2, <3>7
  <2> QED BY <2>4, <2>5
<1>3. ASSUME NEW s \in previous .. target PROVE Cuts(f[s], s, target, size)
  <2>1. target - s \in 0 .. target - previous /\ target - (target - s) = s
    OBVIOUS
  <2> QED BY <1>2, <2>1 DEF Bad
<1> QED BY <1>3

\* What suffix_chunk_ranges returns, for any stage and any size.
LEMMA ChunksCut ==
    ASSUME NEW size \in Nat \ {0}, NEW target \in Nat, NEW previous \in Nat, previous <= target
    PROVE  Cuts(suffix_chunk_ranges(previous, target, size), previous, target, size)
<1> DEFINE from[start \in previous .. target] ==
              IF start = target THEN <<>>
              ELSE LET end == Min({target, start + size})
                   IN  <<[start |-> start, end |-> end]>> \o from[end]
<1>1. IsCutting(from, previous, target, size)
  <2>1. \E f : f = [start \in previous .. target |->
                       IF start = target THEN <<>>
                       ELSE LET end == Min({target, start + size})
                            IN  <<[start |-> start, end |-> end]>> \o f[end]]
    BY CuttingExists DEF IsCutting, EndOf
  <2> QED BY <2>1 DEF IsCutting, EndOf
<1>2. suffix_chunk_ranges(previous, target, size) = from[previous]
  BY DEF suffix_chunk_ranges
<1>3. previous \in previous .. target
  OBVIOUS
<1> HIDE DEF from
<1> QED BY <1>1, <1>2, <1>3, CuttingCuts

\* Stages of at least one chunk each end one behind the other.
LEMMA EndsAre ==
    ASSUME NEW plan, NEW len \in Nat, Len(plan) = len, DOMAIN plan = 1 .. len, NEW size,
           \A i \in 1 .. len : /\ Len(Chunks(plan, i, size)) \in Nat
                             /\ Len(Chunks(plan, i, size)) >= 1
    PROVE  /\ StageEnds(plan, size) \in Seq(Nat \ {0}) /\ Len(StageEnds(plan, size)) = len
           /\ \A i, j \in DOMAIN StageEnds(plan, size) :
                 i < j => StageEnds(plan, size)[i] < StageEnds(plan, size)[j]
<1> DEFINE end[i \in 0 .. Len(plan)] ==
              IF i = 0 THEN 0 ELSE end[i - 1] + Len(Chunks(plan, i, size))
           ends == [i \in DOMAIN plan |-> end[i]]
<1>1. \A i \in 0 .. len : end[i] = IF i = 0 THEN 0 ELSE end[i - 1] + Len(Chunks(plan, i, size))
  <2> DEFINE G == [i \in 1 .. len |-> [v \in Nat |-> v + Len(Chunks(plan, i, size))]]
  <2>1. G \in [1 .. len -> [Nat -> Nat]]
        /\ \A i \in 1 .. len, v \in Nat : G[i][v] = v + Len(Chunks(plan, i, size))
    OBVIOUS
  <2> HIDE DEF G
  <2>2. PICK f \in [0 .. len -> Nat] : f[0] = 0 /\ \A i \in 1 .. len : f[i] = G[i][f[i - 1]]
    BY <2>1, StepByStep
  <2>3. ASSUME NEW i \in 0 .. len
        PROVE  f[i] = IF i = 0 THEN 0 ELSE f[i - 1] + Len(Chunks(plan, i, size))
    <3>1. CASE i = 0
      BY <2>2, <3>1
    <3>2. CASE i # 0
      <4>1. i \in 1 .. len /\ i - 1 \in 0 .. len
        BY <3>2
      <4>2. f[i - 1] \in Nat
        BY <4>1
      <4> QED BY <2>1, <2>2, <3>2, <4>1, <4>2
    <3> QED BY <3>1, <3>2
  <2>4. f = [i \in 0 .. len |-> IF i = 0 THEN 0 ELSE f[i - 1] + Len(Chunks(plan, i, size))]
    BY <2>3
  <2>5. \E g : g = [i \in 0 .. Len(plan) |->
                       IF i = 0 THEN 0 ELSE g[i - 1] + Len(Chunks(plan, i, size))]
    BY <2>4
  <2>6. end = [i \in 0 .. Len(plan) |->
                  IF i = 0 THEN 0 ELSE end[i - 1] + Len(Chunks(plan, i, size))]
    BY <2>5
  <2> HIDE DEF end
  <2> QED BY <2>6
<1>2. StageEnds(plan, size) = ends
  BY DEF StageEnds
<1> HIDE DEF end
<1> DEFINE Bad == {i \in 0 .. len : end[i] \notin Nat}
<1> HIDE DEF Bad
<1>3. Bad = {}
  <2> SUFFICES ASSUME Bad # {} PROVE FALSE
    OBVIOUS
  <2>1. PICK i \in Bad : \A k \in Bad : i <= k
    <3>1. Bad \subseteq Nat
      BY DEF Bad
    <3> QED BY <3>1, Least
  <2>2. i \in 0 .. len /\ end[i] \notin Nat
    BY DEF Bad
  <2>3. i # 0
    BY <1>1, <2>2
  <2>4. i \in 1 .. len /\ i - 1 \in 0 .. len /\ i - 1 \notin Bad
    BY <2>1, <2>2, <2>3
  <2>5. end[i - 1] \in Nat
    BY <2>4 DEF Bad
  <2>6. end[i] = end[i - 1] + Len(Chunks(plan, i, size))
    BY <1>1, <2>2, <2>3
  <2> QED BY <2>2, <2>4, <2>5, <2>6
<1>4. ASSUME NEW i \in 1 .. len
      PROVE  end[i] \in Nat /\ end[i - 1] \in Nat /\ end[i - 1] < end[i]
  <2>1. i \in 0 .. len /\ i # 0 /\ i - 1 \in 0 .. len
    OBVIOUS
  <2>2. end[i] \in Nat /\ end[i - 1] \in Nat
    BY <1>3, <2>1 DEF Bad
  <2>3. end[i] = end[i - 1] + Len(Chunks(plan, i, size))
    BY <1>1, <2>1
  <2> QED BY <2>2, <2>3
<1>5. \A i \in 1 .. len : end[i] \in Nat \ {0}
  <2>1. \A a, b \in Nat : a < b => b \in Nat \ {0}
    OBVIOUS
  <2> QED BY <1>4, <2>1
<1>6. \A i, j \in 1 .. len : i < j => end[i] < end[j]
  <2>1. \A i \in 1 .. len - 1 : i + 1 \in 1 .. len /\ (i + 1) - 1 = i
    OBVIOUS
  <2>2. \A i \in 1 .. len - 1 : end[i] < end[i + 1]
    <3> TAKE i \in 1 .. len - 1
    <3>1. end[(i + 1) - 1] < end[i + 1]
      BY <1>4, <2>1
    <3> QED BY <2>1, <3>1
  <2>3. \A i \in 1 .. len : end[i] \in Nat
    BY <1>4
  <2> QED BY <2>2, <2>3, Ascending
<1>7. ends \in Seq(Nat \ {0}) /\ Len(ends) = len /\ DOMAIN ends = 1 .. len
      /\ \A i \in 1 .. len : ends[i] = end[i]
  BY <1>5
<1> HIDE DEF ends
<1> QED BY <1>2, <1>6, <1>7

\* Whatever the plan and the size of a chunk: the chunks of all its stages
\* together submit every token as new exactly once.
THEOREM EveryPlanIsCut ==
    ASSUME NEW plan \in Seq(Nat \ {0}), plan # <<>>, NEW size \in Nat \ {0},
           \A i, j \in DOMAIN plan : i < j => plan[i] < plan[j]
    PROVE  CompleteCut(plan, size)
<1> DEFINE len == Len(plan)
           R(i) == Chunks(plan, i, size)
           before(i) == IF i = 1 THEN 0 ELSE plan[i - 1]
           cut == UNION {{<<i, k>> : k \in DOMAIN R(i)} : i \in DOMAIN plan}
           Chunk(c) == R(c[1])[c[2]]
           Holding(token) == {c \in cut : Chunk(c).start < token /\ token <= Chunk(c).end}
<1>1. len \in Nat /\ len \in 1 .. len /\ DOMAIN plan = 1 .. len
      /\ \A i \in 1 .. len : plan[i] \in Nat /\ 0 < plan[i]
  <2>1. len \in Nat /\ DOMAIN plan = 1 .. len /\ \A i \in 1 .. len : plan[i] \in Nat \ {0}
    BY LenProperties
  <2>2. len # 0
    BY EmptySeq
  <2> QED BY <2>1, <2>2
<1> HIDE DEF len
<1>2. ASSUME NEW i \in 1 .. len
      PROVE  before(i) \in Nat /\ before(i) < plan[i] /\ (i # 1 => i - 1 \in 1 .. len)
  <2>1. i # 1 => i - 1 \in 1 .. len /\ i - 1 < i
    BY <1>1
  <2> QED BY <1>1, <2>1
<1>3. ASSUME NEW i \in 1 .. len
      PROVE  /\ Cuts(R(i), before(i), plan[i], size)
             /\ R(i) \in Seq(Piece) /\ Len(R(i)) \in Nat /\ Len(R(i)) >= 1
             /\ \A k \in DOMAIN R(i) : /\ R(i)[k].start \in Nat /\ R(i)[k].end \in Nat
                                       /\ before(i) <= R(i)[k].start /\ R(i)[k].end <= plan[i]
                                       /\ R(i)[k].end - R(i)[k].start \in 1 .. size
  <2>1. Cuts(R(i), before(i), plan[i], size)
    <3>1. before(i) \in Nat /\ plan[i] \in Nat /\ before(i) <= plan[i]
      BY <1>1, <1>2
    <3>2. R(i) = suffix_chunk_ranges(before(i), plan[i], size)
      BY DEF Chunks
    <3> HIDE DEF R, before
    <3> QED BY <3>1, <3>2, ChunksCut
  <2> HIDE DEF R, before
  <2>2. R(i) \in Seq(Piece) /\ Len(R(i)) >= 1
    BY <1>2, <2>1 DEF Cuts
  <2>3. Len(R(i)) \in Nat /\ DOMAIN R(i) = 1 .. Len(R(i))
    BY <2>2, LenProperties
  <2>4. \A k \in DOMAIN R(i) : R(i)[k] \in Piece
    BY <2>2, <2>3, ElementOfSeq
  <2> QED BY <2>1, <2>2, <2>3, <2>4 DEF Cuts, Piece
<1> HIDE DEF R, before
<1>4. \A c \in cut : \E i \in 1 .. len : \E k \in DOMAIN R(i) : c = <<i, k>> /\ Chunk(c) = R(i)[k]
  BY <1>1
<1>5. \A i \in 1 .. len : \A k \in DOMAIN R(i) : <<i, k>> \in cut /\ Chunk(<<i, k>>) = R(i)[k]
  BY <1>1
<1> HIDE DEF cut, Chunk
<1>6. ASSUME NEW token \in 1 .. plan[len]
      PROVE  \E c \in cut : Chunk(c).start < token /\ token <= Chunk(c).end
  <2>1. PICK i \in 1 .. len : token <= plan[i] /\ \A j \in 1 .. len : token <= plan[j] => i <= j
    <3> DEFINE T == {i \in 1 .. len : token <= plan[i]}
    <3>1. T \subseteq Nat /\ len \in T
      BY <1>1
    <3>2. PICK i \in T : \A j \in T : i <= j
      <4> HIDE DEF T
      <4> QED BY <3>1, Least
    <3> QED BY <3>2
  <2>2. before(i) < token
    <3>1. CASE i = 1
      BY <1>1, <3>1 DEF before
    <3>2. CASE i # 1
      <4>1. i - 1 \in 1 .. len /\ before(i) = plan[i - 1] /\ ~(i <= i - 1)
        BY <1>1, <1>2, <3>2 DEF before
      <4>2. ~(token <= plan[i - 1])
        BY <2>1, <4>1
      <4> QED BY <1>1, <4>1, <4>2
    <3> QED BY <3>1, <3>2
  <2>3. token \in before(i) + 1 .. plan[i]
    BY <1>1, <1>2, <2>1, <2>2
  <2>4. PICK k \in DOMAIN R(i) : R(i)[k].start < token /\ token <= R(i)[k].end
    BY <1>3, <2>3 DEF Cuts
  <2> QED BY <1>5, <2>4
<1>7. ASSUME NEW token \in 1 .. plan[len], NEW i \in 1 .. len, NEW j \in 1 .. len,
             NEW k \in DOMAIN R(i), NEW l \in DOMAIN R(j),
             R(i)[k].start < token, token <= R(i)[k].end,
             R(j)[l].start < token, token <= R(j)[l].end
      PROVE  ~(i < j) /\ (i = j => ~(k < l))
  <2>1. /\ R(i)[k].end \in Nat /\ R(j)[l].start \in Nat
        /\ R(i)[k].end <= plan[i] /\ before(j) <= R(j)[l].start
    BY <1>3
  <2>2. ~(R(i)[k].end <= R(j)[l].start)
    BY <1>1, <1>7, <2>1
  <2>3. ~(i < j)
    <3> SUFFICES ASSUME i < j PROVE FALSE
      OBVIOUS
    <3>1. j # 1 /\ j - 1 \in 1 .. len /\ (i = j - 1 \/ i < j - 1)
      BY <1>1
    <3>2. plan[i] <= plan[j - 1]
      <4>1. CASE i = j - 1
        BY <1>1, <4>1
      <4>2. CASE i < j - 1
        <5>1. plan[i] < plan[j - 1]
          BY <1>1, <3>1, <4>2
        <5> QED BY <1>1, <3>1, <5>1
      <4> QED BY <3>1, <4>1, <4>2
    <3>3. before(j) = plan[j - 1]
      BY <3>1 DEF before
    <3> QED BY <1>1, <2>1, <2>2, <3>1, <3>2, <3>3
  <2>4. ASSUME i = j, k < l PROVE FALSE
    BY <1>3, <2>2, <2>4 DEF Cuts
  <2> QED BY <2>3, <2>4
<1>8. ASSUME NEW token \in 1 .. plan[len], NEW c \in cut, NEW d \in cut,
             Chunk(c).start < token, token <= Chunk(c).end,
             Chunk(d).start < token, token <= Chunk(d).end
      PROVE  c = d
  <2>21. PICK i \in 1 .. len : \E k \in DOMAIN R(i) : c = <<i, k>> /\ Chunk(c) = R(i)[k]
    BY <1>4
  <2>1. PICK k \in DOMAIN R(i) : c = <<i, k>> /\ Chunk(c) = R(i)[k]
    BY <2>21
  <2>22. PICK j \in 1 .. len : \E l \in DOMAIN R(j) : d = <<j, l>> /\ Chunk(d) = R(j)[l]
    BY <1>4
  <2>2. PICK l \in DOMAIN R(j) : d = <<j, l>> /\ Chunk(d) = R(j)[l]
    BY <2>22
  <2>3. ~(i < j) /\ ~(j < i) /\ (i = j => ~(k < l)) /\ (j = i => ~(l < k))
    BY <1>7, <1>8, <2>1, <2>2
  <2>4. i = j
    BY <2>3
  <2>5. DOMAIN R(i) = 1 .. Len(R(i)) /\ Len(R(i)) \in Nat
    BY <1>3, LenProperties
  <2>6. k = l
    BY <2>3, <2>4, <2>5
  <2> QED BY <2>1, <2>2, <2>4, <2>6
<1>9. ASSUME NEW token \in 1 .. plan[len] PROVE Cardinality(Holding(token)) = 1
  <2>1. PICK c \in cut : Chunk(c).start < token /\ token <= Chunk(c).end
    BY <1>6
  <2>2. Holding(token) = {c}
    BY <1>8, <2>1
  <2> HIDE DEF Holding
  <2> QED BY <2>2, FS_Singleton
<1>10. ASSUME NEW c \in cut
       PROVE  Chunk(c).end <= plan[c[1]] /\ Chunk(c).end - Chunk(c).start \in 1 .. size
  <2>1. PICK i \in 1 .. len : \E k \in DOMAIN R(i) : c = <<i, k>> /\ Chunk(c) = R(i)[k]
    BY <1>4
  <2> QED BY <1>3, <2>1
<1>11. /\ StageEnds(plan, size) \in Seq(Nat \ {0}) /\ Len(StageEnds(plan, size)) = len
       /\ \A i, j \in DOMAIN StageEnds(plan, size) :
             i < j => StageEnds(plan, size)[i] < StageEnds(plan, size)[j]
  <2>1. \A i \in 1 .. len : Len(Chunks(plan, i, size)) \in Nat /\ Len(Chunks(plan, i, size)) >= 1
    BY <1>3 DEF R
  <2> QED BY <1>1, <2>1, EndsAre DEF len
<1> QED BY <1>9, <1>10, <1>11 DEF CompleteCut, len, R, cut, Chunk

(***************************************************************************)
(* The properties of the run.                                              *)
(***************************************************************************)
\* The plans of the run are among those the theorems are about.
LEMMA PlansAre ==
    ASSUME NEW p \in Plans
    PROVE  /\ p.counts \in SUBSET (Nat \ {0}) /\ p.targets \in Seq(Nat \ {0})
           /\ p.minimum \in Nat /\ p.maximum \in Nat
           /\ AcceptedTargets(p.targets) /\ AcceptedRange(p.minimum, p.maximum)
<1>1. p \in [counts : SUBSET (1 .. MaxTokens), targets : TargetLists,
             minimum : 1 .. MaxTokens, maximum : 1 .. MaxTokens]
      /\ AcceptedTargets(p.targets) /\ AcceptedRange(p.minimum, p.maximum)
  BY DEF Plans
<1>2. 1 .. MaxTokens \subseteq Nat \ {0}
  BY DEF MaxTokens
<1>3. PICK k \in 1 .. 3 : p.targets \in [1 .. k -> 1 .. MaxTokens]
  BY <1>1 DEF TargetLists
<1>4. p.targets \in Seq(Nat \ {0})
  <2>1. p.targets \in [1 .. k -> Nat \ {0}] /\ k \in Nat
    BY <1>2, <1>3
  <2> QED BY <2>1
<1> QED BY <1>1, <1>2, <1>4

\* A plan as EveryPlanIsCut wants it.
LEMMA PlanShape ==
    ASSUME NEW counts \in SUBSET (Nat \ {0}), NEW targets \in Seq(Nat \ {0}),
           NEW minimum, NEW maximum, SoundPlan(counts, targets, minimum, maximum),
           NEW plan, plan = select_stage_boundaries(counts, targets, minimum, maximum),
           plan # Raised
    PROVE  /\ plan \in Seq(Nat \ {0}) /\ plan # <<>>
           /\ \A i, j \in DOMAIN plan : i < j => plan[i] < plan[j]
<1>1. Len(targets) \in Nat /\ DOMAIN targets = 1 .. Len(targets)
  BY LenProperties
<1>2. /\ Len(plan) = Len(targets) + 1
      /\ \A i \in DOMAIN targets : plan[i] \in counts
      /\ plan[Len(plan)] \in counts
      /\ \A i, j \in DOMAIN plan : i < j => plan[i] < plan[j]
  BY DEF SoundPlan
<1>3. PICK picked : plan = PlanOf(picked, counts, targets, minimum, maximum)
  <2>1. Nat \ {0} \subseteq Nat
    OBVIOUS
  <2>2. counts \in SUBSET Nat /\ targets \in Seq(Nat)
    BY <2>1, SeqMonotonic
  <2> QED BY <2>2, PlanIs
<1>4. DOMAIN plan = 1 .. Len(targets) + 1 /\ plan = [i \in 1 .. Len(targets) + 1 |-> plan[i]]
  BY <1>3 DEF PlanOf
<1>5. \A i \in 1 .. Len(targets) + 1 : plan[i] \in Nat \ {0}
  <2>1. \A i \in 1 .. Len(targets) + 1 : i \in 1 .. Len(targets) \/ i = Len(targets) + 1
    BY <1>1
  <2> QED BY <1>1, <1>2, <2>1
<1>6. plan \in Seq(Nat \ {0})
  <2>1. plan \in [1 .. Len(targets) + 1 -> Nat \ {0}] /\ Len(targets) + 1 \in Nat
    BY <1>1, <1>4, <1>5
  <2> QED BY <2>1
<1>7. plan # <<>>
  BY DEF Raised
<1> QED BY <1>2, <1>6, <1>7

\* The plan of a build is sound, whatever its boundaries are
\* (select_stage_boundaries).
THEOREM PlanIsSoundHolds == Spec => []PlanIsSound
<1>1. SoundPlans
  BY PlansAre, EveryPlanIsSound DEF SoundPlans
<1>2. PlanIsSound
  BY <1>1 DEF PlanIsSound
<1> QED BY <1>2, PTL

\* Its chunks submit every token as new exactly once (suffix_chunk_ranges).
THEOREM EveryTokenOnceHolds == Spec => []EveryTokenOnce
<1>1. ASSUME NEW p \in Plans, NEW size \in 1 .. 4,
             select_stage_boundaries(p.counts, p.targets, p.minimum, p.maximum) # Raised
      PROVE  CompleteCut(select_stage_boundaries(p.counts, p.targets, p.minimum, p.maximum), size)
  <2> DEFINE plan == select_stage_boundaries(p.counts, p.targets, p.minimum, p.maximum)
  <2>1. SoundPlan(p.counts, p.targets, p.minimum, p.maximum)
    BY PlansAre, EveryPlanIsSound
  <2>2. /\ plan \in Seq(Nat \ {0}) /\ plan # <<>>
        /\ \A i, j \in DOMAIN plan : i < j => plan[i] < plan[j]
    <3>1. p.counts \in SUBSET (Nat \ {0}) /\ p.targets \in Seq(Nat \ {0})
      BY PlansAre
    <3> QED BY <1>1, <2>1, <3>1, PlanShape
  <2>3. size \in Nat \ {0}
    OBVIOUS
  <2> HIDE DEF plan
  <2>4. CompleteCut(plan, size)
    BY <2>2, <2>3, EveryPlanIsCut
  <2> QED BY <2>4 DEF plan
<1>2. CompleteCuts
  BY <1>1 DEF CompleteCuts
<1>3. EveryTokenOnce
  BY <1>2 DEF EveryTokenOnce
<1> QED BY <1>3, PTL
===========================================================================
