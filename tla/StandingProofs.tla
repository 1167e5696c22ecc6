---------------------------- MODULE StandingProofs ----------------------------
(***************************************************************************)
(* Proofs about Settings and Standing: however the updates of the two      *)
(* weights cross or fail, one that runs by itself settles them; the views  *)
(* of a scholar agree; and doing better never looks worse.                 *)
(***************************************************************************)
EXTENDS Standing, FiniteSetTheorems, TLAPS

UpdatesOK ==
    /\ call \in [Calls -> Updates \union {Idle}]
    /\ \A c \in Updating : call[c].keys # {} /\ call[c].keys \subseteq DOMAIN call[c].body

\* The weights as they are, and as update c will leave them.
AddUp == NearWhole(Weight(AssignmentWeight) + Weight(AttendanceWeight))
Pending(c, key) == IF key \in call[c].keys THEN call[c].body[key] ELSE Weight(key)
WillAddUp(c) == NearWhole(Pending(c, AssignmentWeight) + Pending(c, AttendanceWeight))
Untouched(c) == call[c].keys = DOMAIN call[c].body

AloneInv ==
    \A c \in alone :
        /\ Updating = {c}
        /\ WillAddUp(c)
        /\ ~torn /\ Untouched(c) => AddUp
TornInv ==
    ~torn => Updating \subseteq alone /\ (Updating = {} => AddUp)

SettingsInv == SettingsTypeOK /\ UpdatesOK /\ AloneInv /\ TornInv

LEMMA BodyFacts ==
    ASSUME NEW body \in Bodies
    PROVE  /\ DOMAIN body \in (SUBSET Keys) \ {{}}
           /\ \A key \in DOMAIN body : body[key] \in Weights
  BY DEF Bodies

LEMMA UpdateFacts ==
    ASSUME NEW body \in Bodies, NEW keys \in SUBSET Keys
    PROVE  /\ Update(body, keys) \in Updates
           /\ Update(body, keys).at = "settings"
           /\ Update(body, keys).body = body
           /\ Update(body, keys).keys = keys
  BY DEF Update, Updates

LEMMA UpdatingCall ==
    ASSUME UpdatesOK, NEW c \in Updating
    PROVE  c \in Calls /\ call[c].body \in Bodies /\ call[c].keys \in SUBSET Keys
  BY DEF UpdatesOK, Updating, Updates, Idle

LEMMA UpdateSettingsInv ==
    ASSUME SettingsInv, NEW c \in Calls, NEW body \in Bodies, UpdateSettings(c, body)
    PROVE  SettingsInv'
  <1> DEFINE next == Update(body, DOMAIN body)
  <1>1. /\ next \in Updates /\ next.at = "settings" /\ next.body = body
        /\ next.keys = DOMAIN body /\ DOMAIN body # {}
    BY BodyFacts, UpdateFacts
  <1>2. Goes(c, next)
    BY DEF UpdateSettings
  <1> HIDE DEF next
  <1>3. /\ call'[c] = next /\ \A d \in Calls \ {c} : call'[d] = call[d]
        /\ c \notin Updating
    BY <1>2 DEF Goes, SettingsInv, UpdatesOK, UpdateSettings, Updating, Idle
  <1>4. Updating' = Updating \union {c}
    BY <1>1, <1>3 DEF Updating
  <1>5. SettingsTypeOK'
    BY DEF SettingsInv, SettingsTypeOK, UpdateSettings, Updating
  <1>6. UpdatesOK'
    <2>1. call' \in [Calls -> Updates \union {Idle}]
      BY <1>1, <1>2 DEF Goes, SettingsInv, UpdatesOK
    <2> QED
      BY <1>1, <1>3, <1>4, <2>1 DEF SettingsInv, UpdatesOK, Updating
  <1>7. CASE Updating = {}
    <2>1. torn' = torn /\ alone' = {c} /\ Updating' = {c} /\ UNCHANGED setting
      BY <1>4, <1>7 DEF UpdateSettings, SettingsInv, SettingsTypeOK
    <2>2. ~torn => AddUp
      BY <1>7 DEF SettingsInv, TornInv
    <2>3. \A key : Pending(c, key)' = Asked(body, key)
      BY <1>1, <1>3, <2>1 DEF Pending, Asked, Weight
    <2>4. WillAddUp(c)'
      BY <2>3 DEF WillAddUp, UpdateSettings
    <2>5. AddUp' <=> AddUp
      BY <2>1 DEF AddUp, Weight
    <2> QED
      BY <1>5, <1>6, <2>1, <2>2, <2>4, <2>5 DEF SettingsInv, AloneInv, TornInv
  <1>8. CASE Updating # {}
    <2>1. torn' = TRUE /\ alone' = {}
      BY <1>8 DEF UpdateSettings
    <2> QED
      BY <1>5, <1>6, <2>1 DEF SettingsInv, AloneInv, TornInv
  <1> QED
    BY <1>7, <1>8

LEMMA WriteSettingInv ==
    ASSUME SettingsInv, NEW c \in Calls, NEW key \in Keys, WriteSetting(c, key)
    PROVE  SettingsInv'
  <1>1. PICK body \in Bodies, keys \in SUBSET Keys :
           /\ body = call[c].body /\ keys = call[c].keys
           /\ key \in keys /\ keys \subseteq DOMAIN body
    BY UpdatingCall DEF WriteSetting, Updating, SettingsInv, UpdatesOK
  <1>2. body[key] \in Weights /\ DOMAIN body \subseteq Keys
    BY <1>1, BodyFacts
  <1>3. c \in Updating /\ setting' = [setting EXCEPT ![key] = body[key]]
    BY <1>1 DEF WriteSetting, Updating
  <1>4. SettingsTypeOK'
    BY <1>2, <1>3 DEF WriteSetting, SettingsInv, SettingsTypeOK
  <1>5. alone \subseteq {c}
    BY <1>3 DEF SettingsInv, AloneInv
  <1>6. \A k \in Keys : Weight(k)' = IF k = key THEN body[key] ELSE Weight(k)
    BY <1>2, <1>3, WeightsAssumption DEF Weight, SettingsInv, SettingsTypeOK, Unset, Whole
  <1>7. CASE keys = {key}
    <2>1. Goes(c, Idle) /\ torn' = (torn /\ c \notin alone) /\ alone' = {}
      BY <1>1, <1>5, <1>7 DEF WriteSetting
    <2>2. /\ call'[c] = Idle /\ \A d \in Calls \ {c} : call'[d] = call[d]
          /\ call' \in [Calls -> Updates \union {Idle}]
      BY <2>1 DEF Goes, SettingsInv, UpdatesOK
    <2>3. Updating' = Updating \ {c}
      BY <2>2 DEF Updating, Idle
    <2>4. UpdatesOK'
      BY <2>2, <2>3 DEF SettingsInv, UpdatesOK, Updating
    <2>5. ASSUME c \in alone PROVE AddUp' /\ Updating' = {}
      <3>1. WillAddUp(c) /\ Updating = {c}
        BY <2>5 DEF SettingsInv, AloneInv
      <3>2. \A k \in Keys : Weight(k)' = Pending(c, k)
        BY <1>1, <1>6, <1>7 DEF Pending
      <3> QED
        BY <2>3, <3>1, <3>2 DEF WillAddUp, AddUp, Keys
    <2>6. c \notin alone => torn
      BY <1>3 DEF SettingsInv, TornInv
    <2>7. TornInv'
      BY <2>1, <2>5, <2>6 DEF TornInv
    <2> QED
      BY <1>4, <2>1, <2>4, <2>7 DEF SettingsInv, AloneInv
  <1>8. CASE keys # {key}
    <2> DEFINE next == Update(body, keys \ {key})
    <2>1. Goes(c, next) /\ UNCHANGED <<torn, alone>>
      BY <1>1, <1>8 DEF WriteSetting
    <2>2. /\ next \in Updates /\ next.at = "settings" /\ next.body = body
          /\ next.keys = keys \ {key} /\ keys \ {key} # {}
      BY <1>1, <1>8, UpdateFacts
    <2> HIDE DEF next
    <2>3. /\ call'[c] = next /\ \A d \in Calls \ {c} : call'[d] = call[d]
          /\ call' \in [Calls -> Updates \union {Idle}]
      BY <2>1, <2>2 DEF Goes, SettingsInv, UpdatesOK
    <2>4. Updating' = Updating
      BY <1>3, <2>2, <2>3 DEF Updating
    <2>5. UpdatesOK'
      BY <1>1, <2>2, <2>3, <2>4 DEF SettingsInv, UpdatesOK, Updating
    <2>6. ~Untouched(c)'
      BY <1>1, <2>2, <2>3 DEF Untouched
    <2>7. \A k \in Keys : Pending(c, k)' = Pending(c, k)
      BY <1>1, <1>6, <2>2, <2>3 DEF Pending
    <2>8. WillAddUp(c)' <=> WillAddUp(c)
      BY <2>7 DEF WillAddUp, Keys
    <2>9. AloneInv'
      BY <1>5, <2>1, <2>4, <2>6, <2>8 DEF SettingsInv, AloneInv
    <2>10. TornInv'
      BY <1>3, <2>1, <2>4 DEF SettingsInv, TornInv
    <2> QED
      BY <1>4, <2>5, <2>9, <2>10 DEF SettingsInv
  <1> QED
    BY <1>7, <1>8

LEMMA UpdateFailsInv ==
    ASSUME SettingsInv, NEW c \in Calls, UpdateFails(c)
    PROVE  SettingsInv'
  <1>1. c \in Updating /\ UNCHANGED setting
    BY DEF UpdateFails, Updating
  <1>2. alone \subseteq {c} /\ alone' = {}
    BY <1>1 DEF SettingsInv, AloneInv, UpdateFails
  <1>3. /\ call'[c] = Idle /\ \A d \in Calls \ {c} : call'[d] = call[d]
        /\ call' \in [Calls -> Updates \union {Idle}]
    BY DEF UpdateFails, Goes, SettingsInv, UpdatesOK
  <1>4. Updating' = Updating \ {c}
    BY <1>3 DEF Updating, Idle
  <1>5. UpdatesOK'
    BY <1>3, <1>4 DEF SettingsInv, UpdatesOK, Updating
  <1>6. SettingsTypeOK'
    BY <1>1, <1>2 DEF UpdateFails, SettingsInv, SettingsTypeOK
  <1>7. ~torn' => ~torn /\ Untouched(c)
    BY DEF UpdateFails, Untouched
  <1>8. ~torn => c \in alone /\ Updating = {c}
    BY <1>1 DEF SettingsInv, TornInv, AloneInv
  <1>9. ~torn' => AddUp /\ Updating' = {}
    BY <1>4, <1>7, <1>8 DEF SettingsInv, AloneInv
  <1>10. AddUp' <=> AddUp
    BY <1>1 DEF AddUp, Weight
  <1> QED
    BY <1>2, <1>5, <1>6, <1>9, <1>10 DEF SettingsInv, AloneInv, TornInv

LEMMA SettingsNextInv ==
    ASSUME SettingsInv, SettingsNext
    PROVE  SettingsInv'
  BY UpdateSettingsInv, WriteSettingInv, UpdateFailsInv DEF SettingsNext

LEMMA WeightsKnown ==
    ASSUME SettingsTypeOK, NEW key \in Keys
    PROVE  Weight(key) \in 0 .. Whole
  <1>1. Default[key] \in 0 .. 10000
    BY DEF Default
  <1>2. setting[key] \in Weights \union {Unset}
    BY DEF SettingsTypeOK
  <1>3. CASE setting[key] = Unset
    BY <1>1, <1>3 DEF Weight, Whole
  <1>4. CASE setting[key] # Unset
    <2>1. Weight(key) = setting[key] /\ setting[key] \in Weights
      BY <1>2, <1>4 DEF Weight
    <2> QED
      BY <2>1, WeightsAssumption
  <1> QED
    BY <1>3, <1>4

\* Weights whose sum is off by a tolerance leave full marks off by as much.
LEMMA AddUpSettles ==
    ASSUME SettingsTypeOK, AddUp
    PROVE  NearWhole(OverallProgress(10000, 10000)) /\ OverallProgress(0, 0) = 0
  <1> DEFINE w == Weight(AssignmentWeight)
             v == Weight(AttendanceWeight)
  <1>1. w \in 0 .. 10000 /\ v \in 0 .. 10000
    BY WeightsKnown DEF Keys, Whole
  <1>2. w + v \in 9999 .. 10001
    BY DEF AddUp, NearWhole, Whole, Tolerance
  <1>3. /\ OverallProgress(10000, 10000) = (2 * (10000 * w + 10000 * v) + 10000) \div (2 * 10000)
        /\ OverallProgress(0, 0) = (2 * (0 * w + 0 * v) + 10000) \div (2 * 10000)
    BY DEF OverallProgress, RoundDiv, Null, Whole
  <1> HIDE DEF w, v
  <1>4. 0 * w + 0 * v = 0 /\ (2 * 0 + 10000) \div (2 * 10000) = 0
    BY <1>1
  <1>5. PICK t \in 9999 .. 10001 : 10000 * w + 10000 * v = 10000 * t
    BY <1>1, <1>2
  <1>6. (2 * (10000 * t) + 10000) \div (2 * 10000) = t
    <2>1. CASE t = 9999
      BY <2>1
    <2>2. CASE t = 10000
      BY <2>2
    <2>3. CASE t = 10001
      BY <2>3
    <2> QED
      BY <2>1, <2>2, <2>3
  <1> QED
    BY <1>3, <1>4, <1>5, <1>6 DEF NearWhole, Whole, Tolerance

LEMMA SettingsInvHolds ==
    ASSUME SettingsInv
    PROVE  WeightsSettle
  BY AddUpSettles DEF SettingsInv, TornInv, WeightsSettle
-----------------------------------------------------------------------------
(* Counting and rounding.                                                  *)

LEMMA FiniteUsers == IsFiniteSet(Users)
  BY FiniteTables, FS_Singleton, FS_Union DEF Users

\* Rounding to whole hundredths respects the order of quotients.
LEMMA QuotientBounds ==
    ASSUME NEW n \in Nat, NEW d \in Nat \ {0}
    PROVE  /\ n \div d \in Nat
           /\ d * (n \div d) <= n
           /\ n < d * (n \div d) + d
  OBVIOUS

LEMMA RoundDivNat ==
    ASSUME NEW a \in Nat, NEW b \in Nat \ {0}
    PROVE  RoundDiv(a, b) \in Nat
  <1>1. 2 * a + b \in Nat /\ 2 * b \in Nat \ {0}
    OBVIOUS
  <1> QED
    BY <1>1, QuotientBounds DEF RoundDiv

LEMMA RoundDivGrows ==
    ASSUME NEW a \in Nat, NEW b \in Nat \ {0}, NEW c \in Nat, NEW d \in Nat \ {0},
           a * d <= c * b
    PROVE  RoundDiv(a, b) <= RoundDiv(c, d)
  <1> DEFINE p == RoundDiv(a, b)
             q == RoundDiv(c, d)
  <1>1. 2 * a + b \in Nat /\ 2 * b \in Nat \ {0} /\ 2 * c + d \in Nat /\ 2 * d \in Nat \ {0}
    OBVIOUS
  <1>2. p \in Nat /\ q \in Nat
    BY RoundDivNat
  <1>3. (2 * b) * p <= 2 * a + b /\ 2 * c + d < (2 * d) * q + 2 * d
    BY <1>1, QuotientBounds DEF RoundDiv
  <1> HIDE DEF p, q
  <1>4. SUFFICES ASSUME p >= q + 1 PROVE FALSE
    BY <1>2 DEF p, q
  <1>5. (2 * b) * (q + 1) <= 2 * a + b
    BY <1>2, <1>3, <1>4
  <1>6. 2 * c + d < (2 * d) * (q + 1)
    BY <1>2, <1>3
  <1>7. d * ((2 * b) * (q + 1)) <= d * (2 * a + b)
    BY <1>1, <1>2, <1>5
  <1>8. b * (2 * c + d) < b * ((2 * d) * (q + 1))
    BY <1>1, <1>2, <1>6
  <1>9. d * ((2 * b) * (q + 1)) = b * ((2 * d) * (q + 1))
    BY <1>2
  <1>10. d * (2 * a + b) = 2 * (a * d) + b * d /\ b * (2 * c + d) = 2 * (c * b) + b * d
    OBVIOUS
  <1> QED
    BY <1>2, <1>7, <1>8, <1>9, <1>10

LEMMA PairsCount ==
    ASSUME NEW T, IsFiniteSet(T), NEW x
    PROVE  Cardinality(T \X {x}) = Cardinality(T)
  <1>1. IsFiniteSet({x}) /\ Cardinality({x}) = 1
    BY FS_Singleton
  <1>2. Cardinality(T \X {x}) = Cardinality(T) * Cardinality({x})
    BY <1>1, FS_Product
  <1>3. Cardinality(T) \in Nat
    BY FS_CardinalityType
  <1> QED
    BY <1>1, <1>2, <1>3

LEMMA PairsWith ==
    ASSUME NEW S, NEW x, NEW T \in SUBSET (S \X {x}), NEW R \in SUBSET S,
           \A m \in S : <<m, x>> \in T <=> m \in R
    PROVE  T = R \X {x}
  <1>1. ASSUME NEW p \in T PROVE p \in R \X {x}
    <2>1. PICK m \in S : p = <<m, x>>
      OBVIOUS
    <2> QED
      BY <1>1, <2>1
  <1>2. ASSUME NEW p \in R \X {x} PROVE p \in T
    <2>1. PICK m \in R : p = <<m, x>>
      OBVIOUS
    <2> QED
      BY <2>1
  <1> QED
    BY <1>1, <1>2

\* A part of a finite set has no more elements than the set.
LEMMA Fewer ==
    ASSUME NEW S, IsFiniteSet(S), NEW T \in SUBSET S
    PROVE  Cardinality(T) \in Nat /\ Cardinality(T) <= Cardinality(S)
  BY FS_Subset, FS_CardinalityType

LEMMA DisjointUnion ==
    ASSUME NEW S, NEW T, IsFiniteSet(S), IsFiniteSet(T), S \cap T = {}
    PROVE  Cardinality(S \union T) = Cardinality(S) + Cardinality(T)
  <1>1. Cardinality(S \cap T) = 0
    BY FS_EmptySet
  <1>2. Cardinality(S) \in Nat /\ Cardinality(T) \in Nat
    BY FS_CardinalityType
  <1>3. Cardinality(S \union T) = Cardinality(S) + Cardinality(T) - Cardinality(S \cap T)
    BY FS_Union
  <1> QED
    BY <1>1, <1>2, <1>3

LEMMA OneMore ==
    ASSUME NEW S, IsFiniteSet(S), NEW x
    PROVE  /\ Cardinality(S \union {x}) >= Cardinality(S)
           /\ x \notin S => Cardinality(S \union {x}) = Cardinality(S) + 1
           /\ Cardinality(S \ {x}) >= Cardinality(S) - 1
  <1>1. Cardinality(S) \in Nat
    BY FS_CardinalityType
  <1>2. Cardinality(S \union {x}) = IF x \in S THEN Cardinality(S) ELSE Cardinality(S) + 1
    BY FS_AddElement
  <1>3. Cardinality(S \ {x}) = IF x \in S THEN Cardinality(S) - 1 ELSE Cardinality(S)
    BY FS_RemoveElement
  <1> QED
    BY <1>1, <1>2, <1>3

LEMMA RateGrows ==
    ASSUME NEW p \in Nat, NEW d \in Nat \ {0}, NEW p2 \in Nat, NEW d2 \in Nat \ {0},
           p <= p2, d2 <= d
    PROVE  /\ RoundDiv(10000 * p, d) <= RoundDiv(10000 * p2, d2)
           /\ RoundDiv(10000 * p, d) \in Nat /\ RoundDiv(10000 * p2, d2) \in Nat
  <1>1. p * d2 <= p2 * d2 /\ p2 * d2 <= p2 * d
    OBVIOUS
  <1>2. (10000 * p) * d2 <= (10000 * p2) * d
    BY <1>1
  <1>3. 10000 * p \in Nat /\ 10000 * p2 \in Nat
    OBVIOUS
  <1> QED
    BY <1>2, <1>3, RoundDivGrows, RoundDivNat

-----------------------------------------------------------------------------
(* The views of a scholar.                                                 *)

\* A meeting is of a course, and a record of a meeting there is.
TablesOK ==
    /\ record \in [Meetings \X Users -> Marks \union {None}]
    /\ row \in [Assignments \X Users -> Rows \union {None}]
    /\ courseOf \in [Assignments -> Courses]
    /\ \A m \in Meetings : Exists(m) => meeting[m].course \in Courses
RecordsHeld == \A m \in Meetings, s \in Users : record[m, s] # None => Exists(m)

LEMMA OfScholar ==
    ASSUME TablesOK, RecordsHeld, NEW s \in Users
    PROVE  /\ RecordsOf(s, Courses) = {m \in Meetings : record[m, s] # None}
           /\ RowsOf(s, Courses) = {a \in Assignments : row[a, s] # None}
  BY DEF TablesOK, RecordsHeld, RecordsOf, RowsOf

LEMMA Finite ==
    ASSUME NEW s, NEW K
    PROVE  /\ IsFiniteSet(RecordsOf(s, K)) /\ IsFiniteSet(RowsOf(s, K))
           /\ \A M \in SUBSET RecordsOf(s, K) : IsFiniteSet(M) /\ Cardinality(M) \in Nat
           /\ \A A \in SUBSET RowsOf(s, K) : IsFiniteSet(A) /\ Cardinality(A) \in Nat
  <1>1. RecordsOf(s, K) \subseteq Meetings /\ RowsOf(s, K) \subseteq Assignments
    BY DEF RecordsOf, RowsOf
  <1>2. IsFiniteSet(RecordsOf(s, K)) /\ IsFiniteSet(RowsOf(s, K))
    BY <1>1, FiniteTables, FS_Subset
  <1> QED
    BY <1>2, FS_Subset, FS_CardinalityType

\* The completion of a scholar's assignments, and his rate, in whole numbers.
LEMMA SummariesHold ==
    ASSUME TablesOK, RecordsHeld
    PROVE  SummariesAgree
  <1> SUFFICES ASSUME NEW s \in Scholars
               PROVE  /\ (IF ScholarMetrics(s).rate = Null THEN 0 ELSE ScholarMetrics(s).rate)
                            \in ProgressSummary(s).rate
                      /\ ProgramProgress({s}).rate = ProgressSummary(s).rate
                      /\ ProgramProgress({s}).completion =
                            ToFixed(ProgressSummary(s).completed, ProgressSummary(s).total)
    BY DEF SummariesAgree
  <1>0. s \in Users
    BY DEF Users
  <1> DEFINE M == RecordsOf(s, Courses)
             A == RowsOf(s, Courses)
             held == {m \in M : record[m, s] # "EXCUSED"}
             present == With(s, M, {"PRESENT"})
             completed == {a \in A : row[a, s] \in Submitted}
             rate == ToFixed(Cardinality(present), Cardinality(held))
  <1>1. /\ M = {m \in Meetings : record[m, s] # None} /\ A = {a \in Assignments : row[a, s] # None}
        /\ \A m \in M : record[m, s] \in Marks
    BY <1>0, OfScholar DEF TablesOK
  <1>2. /\ IsFiniteSet(held) /\ IsFiniteSet(present) /\ IsFiniteSet(A) /\ IsFiniteSet(completed)
        /\ Cardinality(held) \in Nat /\ Cardinality(present) \in Nat
        /\ Cardinality(A) \in Nat /\ Cardinality(completed) \in Nat
    <2>1. held \subseteq M /\ present \subseteq M /\ completed \subseteq A
      BY DEF With
    <2> HIDE DEF held, present, completed
    <2> QED
      BY <2>1, Finite
  <1>3. With(s, M, Marks \ {"EXCUSED"}) = held
    BY <1>1 DEF With
  <1>4. ProgressSummary(s).rate = rate
    BY DEF ProgressSummary
  <1>5. ProgressSummary(s).total = Cardinality(A) /\ ProgressSummary(s).completed = Cardinality(completed)
    BY DEF ProgressSummary
  <1>6. ScholarMetrics(s).rate =
            IF held = {} THEN Null ELSE RoundDiv(10000 * Cardinality(present), Cardinality(held))
    <2>1. ScholarMetrics(s).rate = AttendanceRate(s, M)
      BY DEF ScholarMetrics, Metrics
    <2>2. present = With(s, M, {"PRESENT"})
      OBVIOUS
    <2> HIDE DEF held, present, M
    <2> QED
      BY <1>3, <2>1, <2>2 DEF AttendanceRate
  <1>7. (IF ScholarMetrics(s).rate = Null THEN 0 ELSE ScholarMetrics(s).rate) \in rate
    <2> HIDE DEF held, present
    <2>1. Cardinality(held) = 0 <=> held = {}
      BY <1>2, FS_EmptySet
    <2>2. CASE held = {}
      BY <1>6, <2>1, <2>2 DEF ToFixed
    <2>3. CASE held # {}
      <3>1. Cardinality(held) \in Nat \ {0} /\ 10000 * Cardinality(present) \in Nat /\ Cardinality(held) > 0
        <4> HIDE DEF rate, A, completed
        <4> QED
          BY <1>2, <2>1, <2>3
      <3>2. RoundDiv(10000 * Cardinality(present), Cardinality(held)) \in Nat
        BY <3>1, RoundDivNat
      <3> QED
        BY <1>6, <2>3, <3>1, <3>2 DEF Null, ToFixed, Nearest
    <2> QED
      BY <2>2, <2>3
  <1> DEFINE records == {x \in Meetings \X {s} : record[x] # None}
             rows == {x \in Assignments \X {s} : row[x] # None}
             theirs == {x \in records : record[x] = "PRESENT"}
             all == {x \in records : record[x] # "EXCUSED"}
             done == {x \in rows : row[x] \in Submitted}
  <1>8. /\ \A m \in Meetings : /\ <<m, s>> \in theirs <=> m \in present
                               /\ <<m, s>> \in all <=> m \in held
        /\ \A a \in Assignments : /\ <<a, s>> \in rows <=> a \in A
                                  /\ <<a, s>> \in done <=> a \in completed
    BY <1>1 DEF With
  <1>9. /\ theirs \in SUBSET (Meetings \X {s}) /\ all \in SUBSET (Meetings \X {s})
        /\ rows \in SUBSET (Assignments \X {s}) /\ done \in SUBSET (Assignments \X {s})
        /\ present \in SUBSET Meetings /\ held \in SUBSET Meetings
        /\ A \in SUBSET Assignments /\ completed \in SUBSET Assignments
    BY <1>1 DEF With
  <1>10. /\ ProgramProgress({s}).rate = ToFixed(Cardinality(theirs), Cardinality(all))
         /\ ProgramProgress({s}).completion = ToFixed(Cardinality(done), Cardinality(rows))
    BY DEF ProgramProgress
  <1> HIDE DEF M, A, held, present, completed, records, rows, theirs, all, done
  <1>14. theirs = present \X {s} /\ all = held \X {s} /\ rows = A \X {s} /\ done = completed \X {s}
    BY <1>8, <1>9, PairsWith
  <1>11. /\ Cardinality(present \X {s}) = Cardinality(present) /\ Cardinality(held \X {s}) = Cardinality(held)
         /\ Cardinality(completed \X {s}) = Cardinality(completed) /\ Cardinality(A \X {s}) = Cardinality(A)
    BY <1>2, PairsCount
  <1>12. ProgramProgress({s}).rate = rate
    BY <1>10, <1>11, <1>14
  <1>13. ProgramProgress({s}).completion = ToFixed(Cardinality(completed), Cardinality(A))
    BY <1>10, <1>11, <1>14
  <1> HIDE DEF rate
  <1> QED
    BY <1>4, <1>5, <1>7, <1>12, <1>13

LEMMA RosterHolds == RosterAgrees
  <1> SUFFICES ASSUME NEW s \in Scholars \ archived, NEW k \in DOMAIN PerCourse(s)
               PROVE  PerCourse(s)[k] = [score |-> Roster(k)[s].score, rate |-> Roster(k)[s].rate,
                                         progress |-> Roster(k)[s].progress]
    BY DEF RosterAgrees
  <1>1. k \in Courses /\ s \in CourseMembers(k)
    BY DEF PerCourse, CourseMembers, Users
  <1>2. Roster(k)[s] = Metrics(s, RecordsOf(s, {k}), RowsOf(s, {k}))
    BY <1>1 DEF Roster
  <1>3. /\ {a \in RowsOf(s, Courses) : courseOf[a] = k} = RowsOf(s, {k})
        /\ {m \in RecordsOf(s, Courses) : meeting[m].course = k} = RecordsOf(s, {k})
    BY <1>1 DEF RowsOf, RecordsOf
  <1>4. PerCourse(s)[k] =
            [score |-> AssignmentScore(s, RowsOf(s, {k})), rate |-> AttendanceRate(s, RecordsOf(s, {k})),
             progress |-> OverallProgress(AssignmentScore(s, RowsOf(s, {k})),
                                          AttendanceRate(s, RecordsOf(s, {k})))]
    BY <1>3 DEF PerCourse
  <1> QED
    BY <1>2, <1>4 DEF Metrics

LEMMA ScopesHold == ScopesAgree
  <1> SUFFICES ASSUME NEW u \in Users
               PROVE  LET readable == {s \in Scholars : MayReadScholar(u, s)}
                          risky == {s \in Scholars : ScholarMetrics(s).atRisk = "yes"}
                      IN  /\ Scope(u) \ archived = readable
                          /\ Scope(u) = readable => Dashboard(u).atRisk = Cardinality(risky \cap readable)
                          /\ Dashboard(u).overdue <= Dashboard(Admin).overdue
                          /\ Dashboard(u).pending <= Dashboard(Admin).pending
                          /\ Dashboard(u).active <= Dashboard(u).total
    BY DEF ScopesAgree
  <1> DEFINE readable == {s \in Scholars : MayReadScholar(u, s)}
             risky == {s \in Scholars : ScholarMetrics(s).atRisk = "yes"}
             Counted(v, status) ==
                 {x \in Assignments \X Users : (v = Admin \/ x[2] \in Scope(v)) /\ row[x] = status}
  <1>1. Scope(u) \subseteq Scholars /\ Scope(u) \ archived = readable
    BY UserRoles DEF Scope, MayReadScholar, Users
  <1>2. ASSUME Scope(u) = readable PROVE Dashboard(u).atRisk = Cardinality(risky \cap readable)
    <2> DEFINE mine == {s \in Scope(u) : [v \in Scope(u) |-> ScholarMetrics(v)][s].atRisk = "yes"}
    <2>1. mine = risky \cap readable
      BY <1>1, <1>2
    <2>2. Dashboard(u).atRisk = Cardinality(mine)
      BY DEF Dashboard
    <2> HIDE DEF mine, risky, readable
    <2> QED
      BY <2>1, <2>2
  <1>3. ASSUME NEW status PROVE Cardinality(Counted(u, status)) <= Cardinality(Counted(Admin, status))
    <2>1. Counted(u, status) \subseteq Counted(Admin, status) /\ Counted(Admin, status) \subseteq Assignments \X Users
      OBVIOUS
    <2>2. IsFiniteSet(Assignments \X Users)
      BY FiniteTables, FiniteUsers, FS_Product
    <2> HIDE DEF Counted
    <2>3. IsFiniteSet(Counted(Admin, status))
      BY <2>1, <2>2, FS_Subset
    <2> QED
      BY <2>1, <2>3, Fewer
  <1>4. \A v : /\ Dashboard(v).pending = Cardinality(Counted(v, "PENDING_VERIFICATION"))
               /\ Dashboard(v).overdue = Cardinality(Counted(v, "OVERDUE"))
    BY DEF Dashboard
  <1>5. Dashboard(u).active <= Dashboard(u).total
    <2> DEFINE active == {s \in Scope(u) \ archived : \E k \in Courses : <<k, s>> \in members}
    <2>1. Dashboard(u).active = Cardinality(active) /\ Dashboard(u).total = Cardinality(Scope(u))
      BY DEF Dashboard
    <2>2. active \in SUBSET Scope(u)
      OBVIOUS
    <2>3. IsFiniteSet(Scope(u))
      BY <1>1, FiniteTables, FS_Subset
    <2> HIDE DEF active
    <2> QED
      BY <2>1, <2>2, <2>3, Fewer
  <1> HIDE DEF Counted
  <1> QED
    BY <1>1, <1>2, <1>3, <1>4, <1>5

\* The average depends on what is known alone.
LEMMA AverageOfKnown ==
    ASSUME NEW f, NEW g,
           \A x : x \in DOMAIN f /\ f[x] # Null <=> x \in DOMAIN g /\ g[x] # Null,
           \A x \in DOMAIN f : f[x] # Null => f[x] = g[x]
    PROVE  Average(f) = Average(g)
  <1> DEFINE known(h) == Restrict(h, {x \in DOMAIN h : h[x] # Null})
  <1>1. known(f) = known(g)
    BY DEF Restrict
  <1>2. \A h : Average(h) = IF DOMAIN known(h) = {} THEN {Null}
                            ELSE Nearest(SumFunction(known(h)), Cardinality(DOMAIN known(h)))
    BY DEF Average
  <1> HIDE DEF known
  <1> QED
    BY <1>1, <1>2

\* Who has a row of an assignment and is no member of its course any more.
Departed(a) == {v \in Users : row[a, v] # None} \ CourseMembers(courseOf[a])

\* A course with all there is of the scholars has the averages of the dashboard, as long
\* as nobody else in it has a rate.
LEMMA CourseOfAll ==
    ASSUME NEW k \in Courses,
           CourseMembers(k) \cap Scholars = Scholars \ archived,
           \A s \in CourseMembers(k) \cap Scholars :
               RecordsOf(s, {k}) = RecordsOf(s, Courses) /\ RowsOf(s, {k}) = RowsOf(s, Courses)
    PROVE  LET others == CourseMembers(k) \ Scholars
               ours == CourseMembers(k) \cap Scholars
           IN  /\ Average([s \in ours |-> Roster(k)[s].progress]) = Dashboard(Admin).progress
               /\ Average([s \in ours |-> Roster(k)[s].rate]) = Dashboard(Admin).rate
               /\ (\A u \in others : Roster(k)[u].rate = Null) =>
                      /\ CourseMetrics(k).progress = Dashboard(Admin).progress
                      /\ CourseMetrics(k).rate = Dashboard(Admin).rate
               /\ CourseMetrics(k).atRisk = Dashboard(Admin).atRisk
                    + Cardinality({u \in others : Roster(k)[u].atRisk = "yes"})
               /\ CourseMetrics(k).total = Dashboard(Admin).total + Cardinality(others)
  <1> DEFINE S == Scholars \ archived
             C == CourseMembers(k)
             others == C \ Scholars
             roster == Roster(k)
             metrics == [s \in S |-> ScholarMetrics(s)]
  <1>1. C = S \union others /\ S \cap others = {} /\ DOMAIN roster = C /\ S \subseteq C
    BY DEF Roster
  <1>2. \A s \in S : roster[s] = metrics[s]
    BY DEF Roster, ScholarMetrics
  <1>3. \A v \in others : roster[v].rate = Null => roster[v].progress = Null
    BY DEF Roster, Metrics, OverallProgress
  <1>4. IsFiniteSet(S) /\ IsFiniteSet(others)
    <2>1. S \subseteq Scholars /\ others \subseteq Users
      BY DEF CourseMembers
    <2> QED
      BY <2>1, FiniteTables, FiniteUsers, FS_Subset
  <1>5. Scope(Admin) = S
    BY DEF Scope
  <1>6. /\ Dashboard(Admin).progress = Average([s \in S |-> metrics[s].progress])
        /\ Dashboard(Admin).rate = Average([s \in S |-> metrics[s].rate])
        /\ Dashboard(Admin).atRisk = Cardinality({s \in S : metrics[s].atRisk = "yes"})
        /\ Dashboard(Admin).total = Cardinality(S)
    BY <1>5 DEF Dashboard
  <1>7. /\ CourseMetrics(k).progress = Average([s \in C |-> roster[s].progress])
        /\ CourseMetrics(k).rate = Average([s \in C |-> roster[s].rate])
        /\ CourseMetrics(k).atRisk = Cardinality({s \in C : roster[s].atRisk = "yes"})
        /\ CourseMetrics(k).total = Cardinality(C)
    BY <1>1 DEF CourseMetrics
  <1> HIDE DEF S, C, others, roster, metrics
  <1>8. /\ [s \in S |-> roster[s].progress] = [s \in S |-> metrics[s].progress]
        /\ [s \in S |-> roster[s].rate] = [s \in S |-> metrics[s].rate]
    BY <1>2
  <1>9. ASSUME \A v \in others : roster[v].rate = Null
        PROVE  /\ Average([s \in C |-> roster[s].progress]) = Average([s \in S |-> metrics[s].progress])
               /\ Average([s \in C |-> roster[s].rate]) = Average([s \in S |-> metrics[s].rate])
    <2> DEFINE f == [s \in C |-> roster[s].progress]
               g == [s \in S |-> metrics[s].progress]
               h == [s \in C |-> roster[s].rate]
               i == [s \in S |-> metrics[s].rate]
    <2>1. /\ \A x : x \in DOMAIN f /\ f[x] # Null <=> x \in DOMAIN g /\ g[x] # Null
          /\ \A x \in DOMAIN f : f[x] # Null => f[x] = g[x]
      BY <1>1, <1>2, <1>3, <1>9
    <2>2. /\ \A x : x \in DOMAIN h /\ h[x] # Null <=> x \in DOMAIN i /\ i[x] # Null
          /\ \A x \in DOMAIN h : h[x] # Null => h[x] = i[x]
      BY <1>1, <1>2, <1>9
    <2> HIDE DEF f, g, h, i
    <2>3. Average(f) = Average(g) /\ Average(h) = Average(i)
      BY <2>1, <2>2, AverageOfKnown
    <2> QED
      BY <2>3 DEF f, g, h, i
  <1>10. Cardinality(C) = Cardinality(S) + Cardinality(others)
    BY <1>1, <1>4, DisjointUnion
  <1>11. Cardinality({s \in C : roster[s].atRisk = "yes"}) =
             Cardinality({s \in S : metrics[s].atRisk = "yes"})
             + Cardinality({u \in others : roster[u].atRisk = "yes"})
    <2> DEFINE all == {s \in C : roster[s].atRisk = "yes"}
               mine == {s \in S : metrics[s].atRisk = "yes"}
               theirs == {u \in others : roster[u].atRisk = "yes"}
    <2>1. all = mine \union theirs /\ mine \cap theirs = {} /\ mine \subseteq S /\ theirs \subseteq others
      BY <1>1, <1>2
    <2> HIDE DEF all, mine, theirs
    <2>2. IsFiniteSet(mine) /\ IsFiniteSet(theirs)
      BY <1>4, <2>1, FS_Subset
    <2>3. Cardinality(all) = Cardinality(mine) + Cardinality(theirs)
      BY <2>1, <2>2, DisjointUnion
    <2> QED
      BY <2>3 DEF all, mine, theirs
  <1> QED
    BY <1>6, <1>7, <1>8, <1>9, <1>10, <1>11 DEF S, roster, others, C

LEMMA CoursesHold ==
    ASSUME upheavals \in Nat,
           \A a \in Assignments : a \notin moved => Cardinality(Departed(a)) <= upheavals
    PROVE  CoursesAddUp
  <1>1. ASSUME NEW a \in Assignments
        PROVE  /\ Completion(a).verified <= Completion(a).submitted
               /\ a \notin moved => Completion(a).submitted <= Completion(a).total + upheavals
    <2> DEFINE submitted == {v \in Users : row[a, v] \in Submitted}
               verified == {v \in Users : row[a, v] \in Verified}
               current == CourseMembers(courseOf[a])
    <2>1. verified \subseteq submitted /\ submitted \subseteq current \union Departed(a)
          /\ submitted \subseteq Users /\ current \subseteq Users /\ Departed(a) \subseteq Users
      BY DEF Departed, CourseMembers, Submitted, Verified, None
    <2>2. /\ Completion(a).verified = Cardinality(verified)
          /\ Completion(a).submitted = Cardinality(submitted)
          /\ Completion(a).total = Cardinality(current)
      BY DEF Completion
    <2>3. current \cap Departed(a) = {}
      BY DEF Departed
    <2> HIDE DEF submitted, verified, current
    <2>4. IsFiniteSet(submitted) /\ IsFiniteSet(current) /\ IsFiniteSet(Departed(a))
      BY <2>1, FiniteUsers, FS_Subset
    <2>5. IsFiniteSet(current \union Departed(a))
      BY <2>4, FS_Union
    <2>6. Cardinality(current \union Departed(a)) = Cardinality(current) + Cardinality(Departed(a))
      BY <2>3, <2>4, DisjointUnion
    <2>7. /\ Cardinality(verified) <= Cardinality(submitted)
          /\ Cardinality(submitted) <= Cardinality(current \union Departed(a))
      BY <2>1, <2>4, <2>5, Fewer
    <2>8. /\ Cardinality(current) \in Nat /\ Cardinality(Departed(a)) \in Nat
          /\ Cardinality(submitted) \in Nat
      BY <2>4, FS_CardinalityType
    <2> QED
      BY <2>2, <2>6, <2>7, <2>8
  <1> QED
    BY <1>1, CourseOfAll DEF CoursesAddUp

-----------------------------------------------------------------------------
(* Changes for the better.                                                 *)

\* What a step does for scholar s.
Helped(s) ==
    LET before == ScholarMetrics(s)
        after == ScholarMetrics(s)'
    IN  /\ before.progress <= after.progress \/ after.progress = Null
        /\ after.atRisk = "yes" => before.atRisk = "yes"

LEMMA ProgressGrows ==
    ASSUME NEW w \in 0 .. Whole, NEW v \in 0 .. Whole,
           NEW score \in Nat, NEW rate \in Nat, NEW score2 \in Nat, NEW rate2 \in Nat,
           score <= score2, rate <= rate2
    PROVE  /\ RoundDiv(score * w + rate * v, Whole) <= RoundDiv(score2 * w + rate2 * v, Whole)
           /\ RoundDiv(score * w + rate * v, Whole) \in Nat
           /\ RoundDiv(score2 * w + rate2 * v, Whole) \in Nat
  <1>0. w \in Nat /\ v \in Nat
    BY DEF Whole
  <1>1. /\ score * w \in Nat /\ score2 * w \in Nat /\ rate * v \in Nat /\ rate2 * v \in Nat
        /\ score * w <= score2 * w /\ rate * v <= rate2 * v
    BY <1>0
  <1> DEFINE b == score * w + rate * v
             a == score2 * w + rate2 * v
  <1>2. b \in Nat /\ a \in Nat /\ b * 10000 <= a * 10000
    BY <1>1
  <1> HIDE DEF a, b
  <1>3. RoundDiv(b, 10000) <= RoundDiv(a, 10000) /\ RoundDiv(b, 10000) \in Nat /\ RoundDiv(a, 10000) \in Nat
    BY <1>2, RoundDivGrows, RoundDivNat
  <1> QED
    BY <1>3 DEF a, b, Whole

\* Nobody is at risk for figures that are no worse.
LEMMA RiskFalls ==
    ASSUME NEW score \in Nat \union {Null}, NEW rate \in Nat \union {Null}, NEW overdue \in Nat,
           NEW score2 \in Nat \union {Null}, NEW rate2 \in Nat \union {Null}, NEW overdue2 \in Nat,
           score # Null \/ rate # Null,
           score2 # Null => score # Null /\ score <= score2,
           rate2 # Null => rate # Null /\ rate <= rate2,
           overdue2 <= overdue,
           AtRisk(score2, rate2, overdue2) = "yes"
    PROVE  AtRisk(score, rate, overdue) = "yes"
  BY DEF AtRisk, Null, NoMetric, AtRiskAttendance, AtRiskAssignment, AtRiskOverdue

\* A step that makes no figure of a scholar worse, and takes at most his rate away.
LEMMA BetterFigures ==
    ASSUME SettingsTypeOK, UNCHANGED setting, NEW s,
           NEW score \in Nat \union {Null}, NEW rate \in Nat \union {Null}, NEW overdue \in Nat,
           NEW score2 \in Nat \union {Null}, NEW rate2 \in Nat \union {Null}, NEW overdue2 \in Nat,
           ScholarMetrics(s).score = score, ScholarMetrics(s).rate = rate,
           ScholarMetrics(s).overdue = overdue,
           ScholarMetrics(s)'.score = score2, ScholarMetrics(s)'.rate = rate2,
           ScholarMetrics(s)'.overdue = overdue2,
           score # Null \/ rate # Null,
           score2 # Null <=> score # Null, score <= score2,
           rate2 # Null => rate # Null /\ rate <= rate2,
           overdue2 <= overdue
    PROVE  Helped(s)
  <1> DEFINE w == Weight(AssignmentWeight)
             v == Weight(AttendanceWeight)
             Progress(x, y) == IF x = Null \/ y = Null THEN Null ELSE RoundDiv(x * w + y * v, Whole)
  <1>1. w \in 0 .. Whole /\ v \in 0 .. Whole
    BY WeightsKnown DEF Keys
  <1>2. ScholarMetrics(s).progress = Progress(score, rate)
        /\ ScholarMetrics(s).atRisk = AtRisk(score, rate, overdue)
    BY DEF ScholarMetrics, Metrics, OverallProgress
  <1>3. ScholarMetrics(s)'.progress = Progress(score2, rate2)
        /\ ScholarMetrics(s)'.atRisk = AtRisk(score2, rate2, overdue2)
    BY DEF ScholarMetrics, Metrics, OverallProgress, Weight
  <1> HIDE DEF w, v
  <1>4. Progress(score, rate) <= Progress(score2, rate2) \/ Progress(score2, rate2) = Null
    <2>1. CASE score = Null \/ rate2 = Null
      BY <2>1
    <2>2. CASE score # Null /\ rate2 # Null
      BY <1>1, <2>2, ProgressGrows
    <2> QED
      BY <2>1, <2>2
  <1>5. AtRisk(score2, rate2, overdue2) = "yes" => AtRisk(score, rate, overdue) = "yes"
    BY RiskFalls
  <1> QED
    BY <1>2, <1>3, <1>4, <1>5 DEF Helped

\* A step that changes no figure of a scholar.
LEMMA SameFigures ==
    ASSUME SettingsTypeOK, UNCHANGED setting, NEW s,
           ScholarMetrics(s)'.score = ScholarMetrics(s).score,
           ScholarMetrics(s)'.rate = ScholarMetrics(s).rate,
           ScholarMetrics(s)'.overdue = ScholarMetrics(s).overdue,
           ScholarMetrics(s).score \in Nat \union {Null}, ScholarMetrics(s).rate \in Nat \union {Null}
    PROVE  Helped(s)
  <1> DEFINE score == ScholarMetrics(s).score
             rate == ScholarMetrics(s).rate
             overdue == ScholarMetrics(s).overdue
             w == Weight(AssignmentWeight)
             v == Weight(AttendanceWeight)
             progress == IF score = Null \/ rate = Null THEN Null ELSE RoundDiv(score * w + rate * v, Whole)
  <1>1. w \in 0 .. Whole /\ v \in 0 .. Whole
    BY WeightsKnown DEF Keys
  <1>2. ScholarMetrics(s).progress = progress /\ ScholarMetrics(s).atRisk = AtRisk(score, rate, overdue)
    BY DEF ScholarMetrics, Metrics, OverallProgress
  <1>3. ScholarMetrics(s)'.progress = progress /\ ScholarMetrics(s)'.atRisk = AtRisk(score, rate, overdue)
    BY DEF ScholarMetrics, Metrics, OverallProgress, Weight
  <1> HIDE DEF w, v, score, rate, overdue
  <1>4. score # Null /\ rate # Null => progress \in Nat
    <2>1. (score \in Nat \/ score = Null) /\ (rate \in Nat \/ rate = Null)
      BY DEF score, rate
    <2>2. score \in Nat /\ rate \in Nat => score <= score /\ rate <= rate
      OBVIOUS
    <2> QED
      BY <1>1, <2>1, <2>2, ProgressGrows
  <1>5. progress <= progress
    BY <1>4 DEF Null
  <1> QED
    BY <1>2, <1>3, <1>5 DEF Helped

LEMMA FigureTypes ==
    ASSUME NEW s
    PROVE  /\ ScholarMetrics(s).score \in Nat \union {Null}
           /\ ScholarMetrics(s).rate \in Nat \union {Null}
           /\ ScholarMetrics(s).overdue \in Nat
           /\ RowsOf(s, Courses) # {} => ScholarMetrics(s).score # Null
  <1> DEFINE M == RecordsOf(s, Courses)
             A == RowsOf(s, Courses)
             verified == {a \in A : row[a, s] = "VERIFIED"}
             late == {a \in A : row[a, s] = "VERIFIED_LATE"}
             present == With(s, M, {"PRESENT"})
             applicable == With(s, M, Marks \ {"EXCUSED"})
  <1>1. /\ ScholarMetrics(s).score = AssignmentScore(s, A) /\ ScholarMetrics(s).rate = AttendanceRate(s, M)
        /\ ScholarMetrics(s).overdue = Cardinality(Overdue(s, A))
    BY DEF ScholarMetrics, Metrics
  <1>2. /\ verified \in SUBSET A /\ late \in SUBSET A /\ Overdue(s, A) \in SUBSET A
        /\ present \in SUBSET M /\ applicable \in SUBSET M
    BY DEF Overdue, With
  <1>3. Earned(s, A) = 100 * Cardinality(verified) + 80 * Cardinality(late)
    BY DEF Earned, Credit
  <1>4. AttendanceRate(s, M) = IF applicable = {} THEN Null
                               ELSE RoundDiv(10000 * Cardinality(present), Cardinality(applicable))
    BY DEF AttendanceRate
  <1> HIDE DEF M, A, verified, late, present, applicable
  <1>5. /\ IsFiniteSet(A) /\ IsFiniteSet(applicable)
        /\ Cardinality(A) \in Nat /\ Cardinality(verified) \in Nat /\ Cardinality(late) \in Nat
        /\ Cardinality(Overdue(s, A)) \in Nat
        /\ Cardinality(present) \in Nat /\ Cardinality(applicable) \in Nat
    BY <1>2, Finite DEF M, A
  <1>6. (Cardinality(A) = 0 <=> A = {}) /\ (Cardinality(applicable) = 0 <=> applicable = {})
    BY <1>5, FS_EmptySet
  <1>7. 100 * Earned(s, A) \in Nat /\ 10000 * Cardinality(present) \in Nat
    BY <1>3, <1>5
  <1>8. A # {} => RoundDiv(100 * Earned(s, A), Cardinality(A)) \in Nat
    BY <1>5, <1>6, <1>7, RoundDivNat
  <1>9. applicable # {} => RoundDiv(10000 * Cardinality(present), Cardinality(applicable)) \in Nat
    BY <1>5, <1>6, <1>7, RoundDivNat
  <1>10. (A # {} => AssignmentScore(s, A) \in Nat) /\ (A = {} => AssignmentScore(s, A) = Null)
    BY <1>8 DEF AssignmentScore
  <1> QED
    BY <1>1, <1>4, <1>5, <1>9, <1>10 DEF Null, A

\* A record changes, for the better.
LEMMA RecordHelps ==
    ASSUME TablesOK, SettingsTypeOK, NEW m \in Meetings, NEW v \in Users, NEW status \in Marks,
           record' = [record EXCEPT ![<<m, v>>] = status],
           UNCHANGED <<meeting, row, courseOf, setting>>,
           NEW s \in Scholars, Favourable(s)
    PROVE  Helped(s)
  <1> DEFINE M == RecordsOf(s, Courses)
             A == RowsOf(s, Courses)
             present == With(s, M, {"PRESENT"})
             applicable == With(s, M, Marks \ {"EXCUSED"})
  <1>1. v = s /\ record[<<m, s>>] = "ABSENT" /\ status \in {"PRESENT", "EXCUSED"}
    BY DEF Favourable, TablesOK, Marks, Users
  <1>2. /\ record'[<<m, s>>] = status
        /\ \A x \in Meetings \ {m} : record'[<<x, s>>] = record[<<x, s>>]
    BY <1>1 DEF TablesOK
  <1>3. M' = M /\ A' = A /\ M \subseteq Meetings
    BY <1>1, <1>2 DEF RecordsOf, RowsOf, Exists, TablesOK, None, Marks
  <1>4. /\ ScholarMetrics(s).rate = IF applicable = {} THEN Null
               ELSE RoundDiv(10000 * Cardinality(present), Cardinality(applicable))
        /\ ScholarMetrics(s)'.rate = IF applicable' = {} THEN Null
               ELSE RoundDiv(10000 * Cardinality(present'), Cardinality(applicable'))
    BY DEF ScholarMetrics, Metrics, AttendanceRate
  <1>5. /\ ScholarMetrics(s)'.score = ScholarMetrics(s).score
        /\ ScholarMetrics(s)'.overdue = ScholarMetrics(s).overdue
    <2>1. /\ ScholarMetrics(s).score = AssignmentScore(s, A)
          /\ ScholarMetrics(s).overdue = Cardinality(Overdue(s, A))
          /\ ScholarMetrics(s)'.score = AssignmentScore(s, A)'
          /\ ScholarMetrics(s)'.overdue = Cardinality(Overdue(s, A)')
      BY DEF ScholarMetrics, Metrics
    <2> HIDE DEF A
    <2> QED
      BY <1>3, <2>1 DEF AssignmentScore, Earned, Overdue
  <1>6. /\ ScholarMetrics(s).score \in Nat \union {Null} /\ ScholarMetrics(s).overdue \in Nat
        /\ ScholarMetrics(s).rate \in Nat \union {Null}
    BY FigureTypes
  \* The record of a meeting that does not count for him.
  <1>7. ASSUME m \notin M PROVE Helped(s)
    <2>1. present' = present /\ applicable' = applicable
      BY <1>2, <1>3, <1>7 DEF With
    <2>2. ScholarMetrics(s)'.rate = ScholarMetrics(s).rate
      BY <1>4, <2>1
    <2> QED
      BY <1>5, <1>6, <2>2, SameFigures
  <1>8. SUFFICES ASSUME m \in M PROVE Helped(s)
    BY <1>7
  <1>9. m \in applicable /\ m \notin present
    BY <1>1, <1>8 DEF With, Marks
  <1>10. \/ present' = present \union {m} /\ applicable' = applicable
         \/ present' = present /\ applicable' = applicable \ {m}
    <2>1. CASE status = "PRESENT"
      BY <1>1, <1>2, <1>3, <1>8, <2>1 DEF With, Marks
    <2>2. CASE status = "EXCUSED"
      BY <1>1, <1>2, <1>3, <1>8, <2>2 DEF With, Marks
    <2> QED
      BY <1>1, <2>1, <2>2
  <1>11. /\ present \in SUBSET M /\ applicable \in SUBSET M
         /\ present' \in SUBSET M /\ applicable' \in SUBSET M
    BY <1>3 DEF With
  <1> HIDE DEF A, present, applicable
  <1> DEFINE p == Cardinality(present)
             d == Cardinality(applicable)
             rate == ScholarMetrics(s).rate
             rate2 == ScholarMetrics(s)'.rate
  <1>12. /\ p \in Nat /\ d \in Nat /\ p' \in Nat /\ d' \in Nat
         /\ IsFiniteSet(present) /\ IsFiniteSet(applicable) /\ IsFiniteSet(applicable')
    BY <1>11, Finite
  <1>13. p <= p' /\ d' <= d
    <2> DEFINE added == Cardinality(present \union {m})
               fewer == Cardinality(applicable \ {m})
    <2>1. added >= p /\ fewer <= d
      BY <1>12, OneMore, Fewer
    <2>2. (p' = p \/ p' = added) /\ (d' = d \/ d' = fewer)
      BY <1>10
    <2> HIDE DEF p, d, added, fewer
    <2> QED
      BY <1>12, <2>1, <2>2 DEF p, d
  <1>14. (d = 0 <=> applicable = {}) /\ (d' = 0 <=> applicable' = {})
    BY <1>12, FS_EmptySet
  <1> HIDE DEF p, d, M
  <1>15. d # 0 /\ rate = RoundDiv(10000 * p, d)
    BY <1>4, <1>9, <1>14 DEF p, d
  <1>16. rate2 = IF d' = 0 THEN Null ELSE RoundDiv(10000 * p', d')
    BY <1>4, <1>14 DEF p, d
  <1>17. rate \in Nat /\ (d' # 0 => rate2 \in Nat /\ rate <= rate2)
    BY <1>12, <1>13, <1>15, <1>16, RateGrows
  <1> HIDE DEF rate, rate2
  <1>18. rate2 \in Nat \union {Null} /\ rate # Null /\ (rate2 # Null => rate <= rate2)
    BY <1>16, <1>17 DEF Null
  <1> DEFINE score == ScholarMetrics(s).score
             overdue == ScholarMetrics(s).overdue
  <1>19. /\ ScholarMetrics(s).score = score /\ ScholarMetrics(s)'.score = score
         /\ ScholarMetrics(s).overdue = overdue /\ ScholarMetrics(s)'.overdue = overdue
         /\ ScholarMetrics(s).rate = rate /\ ScholarMetrics(s)'.rate = rate2
         /\ score \in Nat \union {Null} /\ overdue \in Nat
    BY <1>5, <1>6 DEF rate, rate2
  <1>20. score <= score /\ overdue <= overdue /\ rate \in Nat \union {Null}
    BY <1>17, <1>19 DEF Null
  <1> HIDE DEF score, overdue
  <1> QED
    BY <1>18, <1>19, <1>20, BetterFigures


\* A row changes, for the better.
LEMMA RowHelps ==
    ASSUME TablesOK, SettingsTypeOK, NEW b \in Assignments, NEW v \in Users, NEW status \in Rows,
           row[<<b, v>>] # None, row' = [row EXCEPT ![<<b, v>>] = status],
           UNCHANGED <<meeting, record, courseOf, setting>>,
           NEW s \in Scholars, Favourable(s)
    PROVE  Helped(s)
  <1> DEFINE A == RowsOf(s, Courses)
             verified == {a \in A : row[a, s] = "VERIFIED"}
             late == {a \in A : row[a, s] = "VERIFIED_LATE"}
             overdue == Overdue(s, A)
             old == row[<<b, s>>]
  <1>1. v = s /\ old # status /\ Credit(status) >= Credit(old) /\ status # "OVERDUE"
    <2> HIDE DEF A, verified, late, overdue
    <2>1. PICK a \in Assignments :
             row[<<a, s>>] # row'[<<a, s>>] /\ Credit(row'[<<a, s>>]) >= Credit(row[<<a, s>>])
             /\ row'[<<a, s>>] # "OVERDUE"
      BY DEF Favourable
    <2>2. a = b /\ v = s /\ row'[<<a, s>>] = status
      BY <2>1 DEF TablesOK, Users
    <2> QED
      BY <2>1, <2>2
  <1>2. /\ row'[<<b, s>>] = status /\ s \in Users
        /\ \A x \in Assignments \ {b} : row'[<<x, s>>] = row[<<x, s>>]
    BY <1>1 DEF TablesOK
  <1>3. A' = A /\ b \in A
    BY <1>1, <1>2 DEF TablesOK, RowsOf, None, Rows
  <1>4. /\ ScholarMetrics(s).score =
              IF A = {} THEN Null
              ELSE RoundDiv(100 * (100 * Cardinality(verified) + 80 * Cardinality(late)), Cardinality(A))
        /\ ScholarMetrics(s)'.score =
              IF A' = {} THEN Null
              ELSE RoundDiv(100 * (100 * Cardinality(verified') + 80 * Cardinality(late')), Cardinality(A'))
        /\ ScholarMetrics(s).overdue = Cardinality(overdue)
        /\ ScholarMetrics(s)'.overdue = Cardinality(overdue')
    <2>1. /\ ScholarMetrics(s).score = AssignmentScore(s, A) /\ ScholarMetrics(s).overdue = Cardinality(overdue)
          /\ ScholarMetrics(s)'.score = AssignmentScore(s, A)'
          /\ ScholarMetrics(s)'.overdue = Cardinality(overdue')
      BY DEF ScholarMetrics, Metrics
    <2> HIDE DEF A
    <2>2. Credit("VERIFIED") = 100 /\ Credit("VERIFIED_LATE") = 80
      BY DEF Credit
    <2>3. /\ Earned(s, A) = 100 * Cardinality(verified) + 80 * Cardinality(late)
          /\ Earned(s, A)' = 100 * Cardinality(verified') + 80 * Cardinality(late')
      BY <2>2 DEF Earned
    <2> HIDE DEF verified, late
    <2> QED
      BY <2>1, <2>3 DEF AssignmentScore
  <1>5. /\ verified \in SUBSET A /\ late \in SUBSET A /\ overdue \in SUBSET A
        /\ verified' \in SUBSET A /\ late' \in SUBSET A /\ overdue' \in SUBSET overdue
    <2> HIDE DEF A
    <2>1. A \subseteq Assignments
      BY DEF RowsOf, A
    <2> QED
      BY <1>1, <1>2, <1>3, <2>1 DEF Overdue
  <1>6. \/ verified' = verified /\ late' = late
        \/ verified' = verified /\ late' = late \union {b}
        \/ verified' = verified \union {b} /\ late' = late /\ b \notin verified
        \/ verified' = verified \union {b} /\ late' = late \ {b} /\ b \notin verified
    <2>0. A \subseteq Assignments
      BY DEF RowsOf
    <2> HIDE DEF A
    <2>1. CASE status = "VERIFIED"
      BY <1>1, <1>2, <1>3, <2>0, <2>1
    <2>2. CASE status = "VERIFIED_LATE"
      <3>1. old # "VERIFIED" /\ old # "VERIFIED_LATE"
        BY <1>1, <2>2 DEF Credit
      <3> QED
        BY <1>2, <1>3, <2>0, <2>2, <3>1
    <2>3. CASE status \notin {"VERIFIED", "VERIFIED_LATE"}
      <3>1. old # "VERIFIED" /\ old # "VERIFIED_LATE"
        BY <1>1, <2>3 DEF Credit
      <3> QED
        BY <1>2, <1>3, <2>0, <2>3, <3>1
    <2> QED
      BY <2>1, <2>2, <2>3
  <1>7. /\ IsFiniteSet(verified) /\ IsFiniteSet(late) /\ IsFiniteSet(overdue)
        /\ Cardinality(verified) \in Nat /\ Cardinality(late) \in Nat /\ Cardinality(overdue) \in Nat
        /\ Cardinality(verified') \in Nat /\ Cardinality(late') \in Nat
        /\ IsFiniteSet(A) /\ Cardinality(A) \in Nat
    <2> HIDE DEF A, verified, late, overdue
    <2> QED
      BY <1>5, Finite DEF A
  <1> HIDE DEF A, verified, late, overdue, old
  <1> DEFINE n == Cardinality(verified)
             l == Cardinality(late)
             o == Cardinality(overdue)
             e == 100 * (100 * n + 80 * l)
             d == Cardinality(A)
             score == ScholarMetrics(s).score
             score2 == ScholarMetrics(s)'.score
             rate == ScholarMetrics(s).rate
  <1>8. \/ n' = n /\ l' = l
        \/ n' = n /\ l' >= l
        \/ n' = n + 1 /\ l' >= l - 1
    <2>1. Cardinality(late \union {b}) >= l /\ Cardinality(late \ {b}) >= l - 1
      BY <1>7, OneMore
    <2>2. b \notin verified => Cardinality(verified \union {b}) = n + 1
      BY <1>7, OneMore
    <2>3. l >= l
      BY <1>7
    <2>4. n' = Cardinality(verified') /\ l' = Cardinality(late')
      OBVIOUS
    <2> HIDE DEF n, l, o, e, d, score, score2, rate
    <2>5. CASE verified' = verified
      <3>1. n' = n
        BY <2>4, <2>5 DEF n
      <3>2. l' >= l
        BY <1>6, <2>1, <2>2, <2>3, <2>4, <2>5 DEF l
      <3> QED
        BY <3>1, <3>2
    <2>6. CASE verified' = verified \union {b} /\ b \notin verified
      <3>1. n' = n + 1
        BY <2>2, <2>4, <2>6 DEF n
      <3>2. l' = l \/ l' = Cardinality(late \union {b}) \/ l' = Cardinality(late \ {b})
        BY <1>6, <2>4 DEF l
      <3>3. l' >= l - 1
        BY <1>7, <2>1, <3>2 DEF l
      <3> QED
        BY <3>1, <3>3
    <2> QED
      BY <1>6, <2>5, <2>6
  <1>9. e \in Nat /\ e' \in Nat /\ e <= e'
    BY <1>7, <1>8
  <1>10. d \in Nat /\ d # 0 /\ A # {}
    BY <1>3, <1>7, FS_EmptySet
  <1>11. score = RoundDiv(e, d) /\ score2 = RoundDiv(e', d)
    BY <1>3, <1>4, <1>10
  <1>12. o' \in Nat /\ o' <= o
    BY <1>5, <1>7, Fewer
  <1>13. /\ ScholarMetrics(s).overdue = o /\ ScholarMetrics(s)'.overdue = o' /\ o \in Nat
    BY <1>4, <1>7
  <1>14. ScholarMetrics(s)'.rate = rate
    <2>1. /\ ScholarMetrics(s).rate = AttendanceRate(s, RecordsOf(s, Courses))
          /\ ScholarMetrics(s)'.rate = AttendanceRate(s, RecordsOf(s, Courses))'
      BY DEF ScholarMetrics, Metrics
    <2>2. RecordsOf(s, Courses)' = RecordsOf(s, Courses)
      BY DEF RecordsOf, Exists
    <2> HIDE DEF rate
    <2>3. AttendanceRate(s, RecordsOf(s, Courses))' = AttendanceRate(s, RecordsOf(s, Courses))
      BY <2>2 DEF AttendanceRate, With
    <2> QED
      BY <2>1, <2>3 DEF rate
  <1>15. rate \in Nat \union {Null}
    BY FigureTypes
  <1> HIDE DEF n, l, o, e, d
  <1>16. score \in Nat /\ score2 \in Nat /\ score <= score2
    <2>0. \A x, y \in Nat : x <= y => x * d <= y * d
      BY <1>10
    <2>1. d \in Nat \ {0} /\ e * d <= e' * d
      BY <1>9, <1>10, <2>0
    <2> QED
      BY <1>9, <1>11, <2>1, RoundDivGrows, RoundDivNat
  <1>17. ScholarMetrics(s).score = score /\ ScholarMetrics(s)'.score = score2 /\ ScholarMetrics(s).rate = rate
    OBVIOUS
  <1> HIDE DEF score, score2, rate
  <1>18. /\ score \in Nat \union {Null} /\ score2 \in Nat \union {Null}
         /\ score # Null /\ score2 # Null /\ (rate # Null => rate <= rate)
    BY <1>15, <1>16 DEF Null
  <1> QED
    BY <1>12, <1>13, <1>14, <1>15, <1>16, <1>17, <1>18, BetterFigures
=============================================================================
