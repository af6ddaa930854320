------------------------- MODULE FeatureViewProofs -------------------------
(***************************************************************************)
(* Theorems about the feature view for every calendar, every window, lag   *)
(* and period, any set of series and any number of writes.                 *)
(*                                                                         *)
(* The recurrences have a closed form: after a day, an average is over the *)
(* run of valid rows that ends there.  Everything else follows from the    *)
(* closed form: two tables that show the same rows up to a day yield the   *)
(* same values up to that day, so the rows of other series and later rows  *)
(* do not matter.                                                          *)
(***************************************************************************)
EXTENDS FeatureView, FiniteSetTheorems, WellFoundedInduction, TLAPS

-----------------------------------------------------------------------------
(* Days.                                                                   *)

\* A non-empty set of naturals has a least element.
LEMMA LeastDay ==
    ASSUME NEW S \in SUBSET Nat, S # {}
    PROVE  Min(S) \in S /\ \A e \in S : Min(S) <= e
<1> DEFINE Less == OpToRel(<, Nat)
<1>1. PICK m \in S : \A e \in S : <<e, m>> \notin Less
  <2> HIDE DEF Less
  <2>1. IsWellFoundedOn(Less, Nat)
    BY NatLessThanWellFounded DEF Less
  <2> QED
    BY <2>1, WFMin
<1>2. ASSUME NEW e \in S PROVE m <= e
  <2>1. <<e, m>> \in Nat \X Nat /\ <<e, m>> \notin Less
    BY <1>1
  <2>2. ~(e < m)
    BY <2>1 DEF OpToRel, Less
  <2> QED
    BY <2>2
<1> QED
  BY <1>2 DEF Min

\* A non-empty set of days, 0 among them or not, has a last one.
LEMMA NewestDay ==
    ASSUME NEW n \in Nat, NEW S \in SUBSET (0 .. n), S # {}
    PROVE  Max(S) \in S /\ \A e \in S : e <= Max(S)
<1> DEFINE R == {n - e : e \in S}
<1>1. R \in SUBSET Nat /\ R # {}
  <2>1. ASSUME NEW e \in S PROVE n - e \in Nat
    OBVIOUS
  <2> QED
    BY <2>1
<1>2. PICK m \in S : Min(R) = n - m
  BY <1>1, LeastDay
<1>3. \A e \in S : m >= e
  <2> TAKE e \in S
  <2>1. n - m <= n - e
    BY <1>1, <1>2, LeastDay
  <2> QED
    BY <2>1
<1> QED
  BY <1>3 DEF Max

\* Sets of days are finite.
LEMMA DaysFinite ==
    ASSUME NEW S \in SUBSET Days
    PROVE  S \subseteq Nat /\ IsFiniteSet(S) /\ Cardinality(S) \in Nat
<1>1. LastDay \in Nat /\ Days \subseteq Nat
  BY TransformAssumption DEF Days
<1>2. IsFiniteSet(Days)
  BY <1>1, FS_Interval DEF Days
<1> QED
  BY <1>1, <1>2, FS_Subset, FS_CardinalityType

-----------------------------------------------------------------------------
(* The closed form of the recurrences.                                     *)

\* The rows of S in succession up to d that are all valid.
ValidRun(S, valid, d) ==
    {e \in S : e <= d /\ \A g \in S : e <= g /\ g <= d => g \in valid}

\* What a day makes of the state f before it.
Advanced(f, d, S, valid, n) ==
    IF d = 0 THEN [count |-> 0, seed |-> {}, mean |-> {}]
    ELSE IF d \notin S THEN f[d - 1]
    ELSE IF d \notin valid THEN [count |-> 0, seed |-> {}, mean |-> {}]
    ELSE IF f[d - 1].mean # {}
         THEN [count |-> n, seed |-> {}, mean |-> f[d - 1].mean \cup {d}]
    ELSE [count |-> f[d - 1].count + 1,
          seed  |-> f[d - 1].seed \cup {d},
          mean  |-> Of(f[d - 1].count + 1 >= n, f[d - 1].seed \cup {d})]

\* The state after a run R.
StateOf(R, n) ==
    [count |-> IF Cardinality(R) < n THEN Cardinality(R) ELSE n,
     seed  |-> IF Cardinality(R) <= n THEN R ELSE {},
     mean  |-> IF Cardinality(R) < n THEN {} ELSE R]

\* How a run grows from one day to the next: it does not where the series has
\* no row, it ends at an invalid row, and a valid row joins it.
LEMMA RunStep ==
    ASSUME NEW S \in SUBSET Days, NEW valid, NEW d \in Days
    PROVE  /\ ValidRun(S, valid, d) \subseteq Days
           /\ d \notin S => ValidRun(S, valid, d) = ValidRun(S, valid, d - 1)
           /\ d \in S \ valid => ValidRun(S, valid, d) = {}
           /\ d \in S \cap valid =>
                /\ ValidRun(S, valid, d) = ValidRun(S, valid, d - 1) \cup {d}
                /\ Cardinality(ValidRun(S, valid, d))
                     = Cardinality(ValidRun(S, valid, d - 1)) + 1
<1>1. S \subseteq Int /\ d \in Int
  BY DaysFinite DEF Days
<1>2. \A e \in S : e <= d <=> e <= d - 1 \/ e = d
  BY <1>1
<1>3. ValidRun(S, valid, d) \subseteq Days /\ ValidRun(S, valid, d - 1) \subseteq Days
  BY DEF ValidRun
<1>4. ASSUME d \notin S
      PROVE  ValidRun(S, valid, d) = ValidRun(S, valid, d - 1)
  BY <1>2, <1>4 DEF ValidRun
<1>5. ASSUME d \in S \ valid
      PROVE  ValidRun(S, valid, d) = {}
  BY <1>1, <1>5 DEF ValidRun
<1>6. ASSUME d \in S \cap valid
      PROVE  /\ ValidRun(S, valid, d) = ValidRun(S, valid, d - 1) \cup {d}
             /\ Cardinality(ValidRun(S, valid, d))
                  = Cardinality(ValidRun(S, valid, d - 1)) + 1
  <2>1. ASSUME NEW e \in ValidRun(S, valid, d - 1)
        PROVE  e \in ValidRun(S, valid, d)
    BY <1>2, <1>6, <2>1 DEF ValidRun
  <2>2. d \in ValidRun(S, valid, d)
    BY <1>1, <1>6 DEF ValidRun
  <2>3. ASSUME NEW e \in ValidRun(S, valid, d), e # d
        PROVE  e \in ValidRun(S, valid, d - 1)
    BY <1>2, <2>3 DEF ValidRun
  <2>4. d \notin ValidRun(S, valid, d - 1)
    BY <1>1 DEF ValidRun
  <2>5. ValidRun(S, valid, d) = ValidRun(S, valid, d - 1) \cup {d}
    BY <2>1, <2>2, <2>3
  <2> QED
    BY <1>3, <2>4, <2>5, DaysFinite, FS_AddElement
<1> QED
  BY <1>3, <1>4, <1>5, <1>6

\* One step of the recurrence, on states in closed form.
LEMMA AdvanceRun ==
    ASSUME NEW S \in SUBSET Days, NEW valid, NEW n \in Nat \ {0},
           NEW d \in 0 .. LastDay, NEW f,
           d # 0 => f[d - 1] = StateOf(ValidRun(S, valid, d - 1), n)
    PROVE  Advanced(f, d, S, valid, n) = StateOf(ValidRun(S, valid, d), n)
<1>0. StateOf({}, n) = [count |-> 0, seed |-> {}, mean |-> {}]
  <2>1. Cardinality({}) = 0 /\ 0 < n /\ 0 <= n
    BY FS_EmptySet
  <2> QED
    BY <2>1 DEF StateOf
<1>1. CASE d = 0
  <2>1. \A e \in S : ~(e <= 0)
    BY TransformAssumption DEF Days
  <2>2. ValidRun(S, valid, 0) = {}
    BY <2>1 DEF ValidRun
  <2> QED
    BY <1>0, <1>1, <2>2 DEF Advanced
<1>2. CASE d # 0
  <2> DEFINE R == ValidRun(S, valid, d)
             Q == ValidRun(S, valid, d - 1)
  <2>1. d \in Days
    BY <1>2, TransformAssumption DEF Days
  <2>2. Q \subseteq Days /\ Cardinality(Q) \in Nat
    BY DaysFinite DEF ValidRun
  <2>3. f[d - 1] = StateOf(Q, n)
    BY <1>2
  <2>4. CASE d \notin S
    BY <1>2, <2>1, <2>3, <2>4, RunStep DEF Advanced
  <2>5. CASE d \in S /\ d \notin valid
    BY <1>0, <1>2, <2>1, <2>5, RunStep DEF Advanced
  <2>6. CASE d \in S /\ d \in valid
    <3>1. R = Q \cup {d} /\ Cardinality(R) = Cardinality(Q) + 1
      BY <2>1, <2>6, RunStep
    <3> HIDE DEF R, Q
    <3>2. CASE Cardinality(Q) < n
      <4>1. f[d - 1].mean = {} /\ f[d - 1].count = Cardinality(Q) /\ f[d - 1].seed = Q
        BY <2>2, <2>3, <3>2 DEF StateOf
      <4>2. Advanced(f, d, S, valid, n) =
              [count |-> Cardinality(R), seed |-> R, mean |-> Of(Cardinality(R) >= n, R)]
        BY <1>2, <2>6, <3>1, <4>1 DEF Advanced
      <4>3. /\ Cardinality(R) <= n
            /\ Cardinality(R) < n \/ Cardinality(R) = n
            /\ Cardinality(R) >= n <=> ~(Cardinality(R) < n)
        BY <2>2, <3>1, <3>2
      <4> QED
        BY <4>2, <4>3 DEF StateOf, Of, R
    <3>3. CASE ~(Cardinality(Q) < n)
      <4>1. Q # {}
        BY <3>3, FS_EmptySet
      <4>2. f[d - 1].mean = Q
        BY <2>3, <3>3 DEF StateOf
      <4>3. Advanced(f, d, S, valid, n) = [count |-> n, seed |-> {}, mean |-> R]
        BY <1>2, <2>6, <3>1, <4>1, <4>2 DEF Advanced
      <4>4. ~(Cardinality(R) <= n) /\ ~(Cardinality(R) < n)
        BY <2>2, <3>1, <3>3
      <4> QED
        BY <4>3, <4>4 DEF StateOf, R
    <3> QED
      BY <3>2, <3>3
  <2> QED
    BY <2>4, <2>5, <2>6
<1> QED
  BY <1>1, <1>2

\* The recursive definition and the closed form are one function.
LEMMA StatesAreRuns ==
    ASSUME NEW S \in SUBSET Days, NEW valid, NEW n \in Nat \ {0}
    PROVE  SmoothedState(S, valid, n)
             = [d \in 0 .. LastDay |-> StateOf(ValidRun(S, valid, d), n)]
<1> DEFINE closed == [d \in 0 .. LastDay |-> StateOf(ValidRun(S, valid, d), n)]
           IsState(f) == f = [d \in 0 .. LastDay |-> Advanced(f, d, S, valid, n)]
           state == SmoothedState(S, valid, n)
<1>0. LastDay \in Nat /\ \A d \in 0 .. LastDay : d # 0 => d - 1 \in 0 .. LastDay
  BY TransformAssumption
<1>1. IsState(closed)
  <2>1. ASSUME NEW d \in 0 .. LastDay
        PROVE  Advanced(closed, d, S, valid, n) = closed[d]
    <3>1. d # 0 => closed[d - 1] = StateOf(ValidRun(S, valid, d - 1), n)
      BY <1>0
    <3> HIDE DEF closed
    <3>2. Advanced(closed, d, S, valid, n) = StateOf(ValidRun(S, valid, d), n)
      BY <3>1, AdvanceRun
    <3> QED
      BY <3>2 DEF closed
  <2> QED
    BY <2>1
<1>2. state = CHOOSE f : IsState(f)
  BY Zenon DEF SmoothedState, Advanced
<1>3. IsState(state)
  <2> HIDE DEF IsState, closed, state
  <2> QED
    BY <1>1, <1>2
<1>4. \A d \in 0 .. LastDay : state[d] = StateOf(ValidRun(S, valid, d), n)
  <2> HIDE DEF state
  <2> DEFINE Wrong == {d \in 0 .. LastDay : state[d] # StateOf(ValidRun(S, valid, d), n)}
  <2> SUFFICES ASSUME Wrong # {} PROVE FALSE
    OBVIOUS
  <2>1. Wrong \subseteq Nat
    BY <1>0
  <2>2. Min(Wrong) \in Wrong /\ \A e \in Wrong : Min(Wrong) <= e
    BY <2>1, LeastDay
  <2>3. PICK d \in Wrong : \A e \in Wrong : d <= e
    BY <2>2
  <2>4. d # 0 => d - 1 \in 0 .. LastDay /\ d - 1 \notin Wrong
    BY <1>0, <2>1, <2>3
  <2>5. d # 0 => state[d - 1] = StateOf(ValidRun(S, valid, d - 1), n)
    BY <2>4
  <2>6. state[d] = Advanced(state, d, S, valid, n)
    BY <1>3
  <2> QED
    BY <2>5, <2>6, AdvanceRun
<1> QED
  BY <1>3, <1>4

\* An average has a value at a row exactly when the run of valid rows that
\* ends there is long enough to seed it, and depends on that run alone.
LEMMA SmoothedIsRun ==
    ASSUME NEW S \in SUBSET Days, NEW valid, NEW n \in Nat \ {0}, NEW d \in Days
    PROVE  Smoothed(S, valid, n)[d]
             = IF d \in S /\ Cardinality(ValidRun(S, valid, d)) >= n
               THEN ValidRun(S, valid, d) ELSE {}
<1> DEFINE R == ValidRun(S, valid, d)
<1>1. d \in 0 .. LastDay /\ Cardinality(R) \in Nat
  BY DaysFinite, TransformAssumption DEF Days, ValidRun
<1>2. SmoothedState(S, valid, n)[d].mean = IF Cardinality(R) < n THEN {} ELSE R
  <2>1. SmoothedState(S, valid, n)
          = [e \in 0 .. LastDay |-> StateOf(ValidRun(S, valid, e), n)]
    BY StatesAreRuns
  <2>2. SmoothedState(S, valid, n)[d] = StateOf(R, n)
    BY <1>1, <2>1, Zenon
  <2> QED
    BY <2>2 DEF StateOf
<1>3. Smoothed(S, valid, n)[d] = Of(d \in S, SmoothedState(S, valid, n)[d].mean)
  BY DEF Smoothed
<1>4. Cardinality(R) < n <=> ~(Cardinality(R) >= n)
  BY <1>1
<1> QED
  BY <1>2, <1>3, <1>4 DEF Of

-----------------------------------------------------------------------------
(* What a value can depend on.                                             *)

\* Rows that show something: a level, or bar prices without a close.
Seen(t) == Source(t) \cup Opens(t)

SameUpto(A, B, D) ==
    A \subseteq Days /\ B \subseteq Days /\ \A e \in 1 .. D : e \in A <=> e \in B

\* Two tables that show the same up to a day.
Alike(t, u, D) ==
    /\ Seen(t) \subseteq Days /\ Seen(u) \subseteq Days
    /\ \A e \in 1 .. D : /\ e \in Seen(t) <=> e \in Seen(u)
                         /\ e \in Seen(t) => t[e] = u[e]

\* Two transformations of such tables that agree up to the day, on values that
\* are of rows seen by then.
Local(x, y, t, D) ==
    \A d \in 1 .. D : /\ x[d] = y[d]
                      /\ x[d] \subseteq Seen(t)
                      /\ x[d] \subseteq 1 .. d

LEMMA UptoDays ==
    ASSUME NEW D \in Days
    PROVE  /\ D \in Nat /\ 1 .. D \subseteq Days /\ D \in 1 .. D
           /\ \A d \in 1 .. D : d \in Days /\ d \in Nat /\ 1 .. d \subseteq 1 .. D
BY TransformAssumption DEF Days

\* The sets of rows that the formulas run over.
LEMMA AlikeRows ==
    ASSUME NEW t, NEW u, NEW D \in Days, Alike(t, u, D)
    PROVE  /\ SameUpto(Source(t), Source(u), D)
           /\ SameUpto(Positive(t), Positive(u), D)
           /\ SameUpto(Opens(t), Opens(u), D)
           /\ SameUpto(Bars(t), Bars(u), D)
           /\ SameUpto(BarMetrics(t), BarMetrics(u), D)
           /\ \A e \in Seen(t) \cap (1 .. D) : t[e] = u[e]
           /\ Positive(t) \subseteq Source(t)
<1>1. ASSUME NEW e \in 1 .. D
      PROVE  (e \in Source(t) <=> e \in Source(u)) /\ (e \in Opens(t) <=> e \in Opens(u))
  <2>1. CASE e \in Seen(t)
    BY <2>1 DEF Alike, Seen, Source, Levels, Opens, Rows
  <2>2. CASE e \notin Seen(t)
    BY <2>2 DEF Alike, Seen
  <2> QED
    BY <2>1, <2>2
<1>2. \A e \in Seen(t) \cap (1 .. D) : t[e] = u[e]
  BY DEF Alike
<1>3. /\ Source(t) \subseteq Days /\ Source(u) \subseteq Days
      /\ Opens(t) \subseteq Days /\ Opens(u) \subseteq Days
      /\ Source(t) \subseteq Seen(t)
  BY DEF Alike, Seen
<1>4. ASSUME NEW e \in 1 .. D
      PROVE  e \in Positive(t) <=> e \in Positive(u)
  BY <1>1, <1>2, <1>3 DEF Positive
<1>5. Positive(t) \subseteq Source(t) /\ Positive(u) \subseteq Source(u)
  BY DEF Positive
<1> QED
  BY <1>1, <1>2, <1>3, <1>4, <1>5 DEF SameUpto, Bars, BarMetrics

\* Frames and lags look back.
LEMMA FrameUpto ==
    ASSUME NEW A, NEW B, NEW D \in Days, SameUpto(A, B, D), NEW d \in 1 .. D, NEW n
    PROVE  /\ Frame(A, d, n) = Frame(B, d, n)
           /\ Frame(A, d, n) \subseteq A \cap (1 .. d)
           /\ SameUpto(Before(A, d), Before(B, d), D)
           /\ Before(A, d) = Before(B, d)
<1>1. A \subseteq Nat \ {0} /\ B \subseteq Nat \ {0} /\ d \in Nat /\ D \in Nat
  BY TransformAssumption DEF SameUpto, Days
<1>2. \A e \in A \cup B : e <= d => e \in 1 .. D /\ e \in 1 .. d
  BY <1>1
<1>3. \A e \in A \cup B : e < d => e <= d
  BY <1>1
<1>4. \A e : (e \in A /\ e <= d) <=> (e \in B /\ e <= d)
  BY <1>2 DEF SameUpto
<1>5. ASSUME NEW e
      PROVE  {f \in A : e < f /\ f <= d} = {f \in B : e < f /\ f <= d}
  BY <1>4
<1>6. Frame(A, d, n) = Frame(B, d, n)
  BY <1>4, <1>5 DEF Frame
<1>7. Before(A, d) = Before(B, d)
  BY <1>3, <1>4 DEF Before
<1>8. Before(A, d) \subseteq Days /\ Before(B, d) \subseteq Days
  BY DEF Before, SameUpto
<1> QED
  BY <1>2, <1>6, <1>7, <1>8 DEF Frame, SameUpto

LEMMA LagUpto ==
    ASSUME NEW A, NEW B, NEW D \in Days, SameUpto(A, B, D), NEW d \in 1 .. D,
           NEW n \in Nat \ {0}
    PROVE  /\ Lag(A, d, n) = Lag(B, d, n)
           /\ Lag(A, d, n) # 0 => /\ Lag(A, d, n) \in A /\ Lag(A, d, n) < d
                                  /\ Lag(A, d, n) \in 1 .. D /\ Lag(A, d, n) \in 1 .. d
<1> DEFINE F == Frame(Before(A, d), d, n)
<1>1. F = Frame(Before(B, d), d, n) /\ F \subseteq Before(A, d) /\ F \subseteq 1 .. d
  BY FrameUpto
<1>2. Lag(A, d, n) = IF Cardinality(F) < n THEN 0 ELSE Min(F)
  BY DEF Lag
<1>3. Lag(B, d, n) = IF Cardinality(F) < n THEN 0 ELSE Min(F)
  BY <1>1 DEF Lag
<1> HIDE DEF F
<1>4. ASSUME Lag(A, d, n) # 0
      PROVE  Lag(A, d, n) \in F
  <2>1. ~(Cardinality(F) < n)
    BY <1>2, <1>4
  <2>2. F # {}
    BY <2>1, FS_EmptySet
  <2>3. F \in SUBSET Nat
    BY <1>1
  <2> QED
    BY <1>2, <2>1, <2>2, <2>3, LeastDay
<1>5. \A e \in F : e \in A /\ e < d /\ e \in 1 .. d
  BY <1>1 DEF Before
<1> QED
  BY <1>2, <1>3, <1>4, <1>5, UptoDays

LEMMA RollingUpto ==
    ASSUME NEW A, NEW B, NEW D \in Days, SameUpto(A, B, D), NEW n, NEW d \in 1 .. D
    PROVE  /\ Rolling(A, n)[d] = Rolling(B, n)[d]
           /\ Rolling(A, n)[d] \subseteq A \cap (1 .. d)
           /\ Rolling(A, n)[d] \subseteq 1 .. D
<1>1. d \in Days /\ 1 .. d \subseteq 1 .. D /\ (d \in A <=> d \in B)
  BY UptoDays DEF SameUpto
<1>2. /\ Frame(A, d, n) = Frame(B, d, n)
      /\ Frame(A, d, n) \subseteq A \cap (1 .. d)
  BY FrameUpto
<1>3. /\ Rolling(A, n)[d] = Of(d \in A /\ Cardinality(Frame(A, d, n)) = n, Frame(A, d, n))
      /\ Rolling(B, n)[d] = Of(d \in B /\ Cardinality(Frame(B, d, n)) = n, Frame(B, d, n))
  BY <1>1 DEF Rolling
<1> QED
  BY <1>1, <1>2, <1>3 DEF Of

\* Averages look back, and only at valid rows.
LEMMA SmoothedUpto ==
    ASSUME NEW A, NEW B, NEW V, NEW W, NEW D \in Days, SameUpto(A, B, D),
           SameUpto(V, W, D), NEW n \in Nat \ {0}, NEW d \in 1 .. D
    PROVE  /\ Smoothed(A, V, n)[d] = Smoothed(B, W, n)[d]
           /\ Smoothed(A, V, n)[d] \subseteq V \cap (1 .. d)
<1>1. d \in Days /\ A \in SUBSET Days /\ B \in SUBSET Days /\ (d \in A <=> d \in B)
  BY UptoDays DEF SameUpto
<1>2. A \subseteq Nat \ {0} /\ B \subseteq Nat \ {0} /\ d \in Nat /\ D \in Nat
  BY TransformAssumption DEF SameUpto, Days
<1>3. \A e \in A \cup B : e <= d => e \in 1 .. D /\ e \in 1 .. d /\ e <= e
  BY <1>2
<1>4. \A e : (e \in A /\ e <= d) <=> (e \in B /\ e <= d)
  BY <1>3 DEF SameUpto
<1>5. \A e \in A : e <= d => (e \in V <=> e \in W)
  BY <1>3 DEF SameUpto
<1>6. ValidRun(A, V, d) = ValidRun(B, W, d)
  BY <1>4, <1>5 DEF ValidRun
<1>7. ValidRun(A, V, d) \subseteq V \cap (1 .. d)
  BY <1>3 DEF ValidRun
<1>8. /\ Smoothed(A, V, n)[d]
           = IF d \in A /\ Cardinality(ValidRun(A, V, d)) >= n THEN ValidRun(A, V, d) ELSE {}
      /\ Smoothed(B, W, n)[d]
           = IF d \in B /\ Cardinality(ValidRun(B, W, d)) >= n THEN ValidRun(B, W, d) ELSE {}
  BY <1>1, SmoothedIsRun
<1> QED
  BY <1>1, <1>6, <1>7, <1>8

\* Where transformations agree, so do their bases and the days they are
\* defined on, and the differences of their values.
LEMMA BasisUpto ==
    ASSUME NEW t, NEW x, NEW y, NEW D \in Days, Local(x, y, t, D),
           NEW d \in 1 .. D, NEW W \in SUBSET (1 .. d)
    PROVE  /\ Basis(x, W) = Basis(y, W)
           /\ Basis(x, W) \subseteq Seen(t) /\ Basis(x, W) \subseteq 1 .. d
<1>1. \A e \in W : e \in 1 .. D /\ 1 .. e \subseteq 1 .. d
  BY UptoDays
<1>2. \A e \in W : x[e] = y[e] /\ x[e] \subseteq Seen(t) /\ x[e] \subseteq 1 .. d
  BY <1>1 DEF Local
<1> QED
  BY <1>2 DEF Basis

LEMMA DefinedUpto ==
    ASSUME NEW t, NEW x, NEW y, NEW D \in Days, Local(x, y, t, D)
    PROVE  SameUpto(Defined(x), Defined(y), D)
BY UptoDays DEF SameUpto, Defined, Local

LEMMA DifferenceUpto ==
    ASSUME NEW t, NEW x, NEW y, NEW A, NEW B, NEW D \in Days, Local(x, y, t, D),
           SameUpto(A, B, D), NEW n \in Nat \ {0}
    PROVE  Local(Difference(x, A, n), Difference(y, B, n), t, D)
<1> SUFFICES ASSUME NEW d \in 1 .. D
             PROVE  /\ Difference(x, A, n)[d] = Difference(y, B, n)[d]
                    /\ Difference(x, A, n)[d] \subseteq Seen(t)
                    /\ Difference(x, A, n)[d] \subseteq 1 .. d
  BY DEF Local
<1> DEFINE e == Lag(A, d, n)
<1>1. /\ d \in Days /\ (d \in A <=> d \in B)
      /\ x[d] = y[d] /\ x[d] \subseteq Seen(t) /\ x[d] \subseteq 1 .. d
  BY UptoDays DEF SameUpto, Local
<1>2. e = Lag(B, d, n) /\ (e # 0 => e \in 1 .. D /\ e \in 1 .. d)
  BY LagUpto
<1>3. /\ Difference(x, A, n)[d]
           = Of(d \in A /\ x[d] # {} /\ e # 0 /\ x[e] # {},
                x[d] \cup (IF e = 0 THEN {} ELSE x[e]))
      /\ Difference(y, B, n)[d]
           = Of(d \in B /\ y[d] # {} /\ e # 0 /\ y[e] # {},
                y[d] \cup (IF e = 0 THEN {} ELSE y[e]))
  BY <1>1, <1>2 DEF Difference
<1> HIDE DEF e
<1>4. CASE e = 0
  BY <1>3, <1>4 DEF Of
<1>5. CASE e # 0
  <2>1. e \in 1 .. D /\ 1 .. e \subseteq 1 .. d
    BY <1>2, <1>5, UptoDays
  <2>2. x[e] = y[e] /\ x[e] \subseteq Seen(t) /\ x[e] \subseteq 1 .. d
    BY <2>1 DEF Local
  <2> QED
    BY <1>1, <1>3, <1>5, <2>2 DEF Of
<1> QED
  BY <1>4, <1>5

LEMMA VariesUpto ==
    ASSUME NEW t, NEW u, NEW D \in Days, Alike(t, u, D),
           NEW W, W \subseteq Source(t), W \subseteq 1 .. D
    PROVE  Varies(LevelOf(t), W) <=> Varies(LevelOf(u), W)
<1>1. \A e \in W : /\ e \in Source(t) /\ e \in Source(u) /\ e \in Seen(t)
                   /\ t[e] = u[e]
  BY AlikeRows DEF SameUpto, Seen
<1>2. \A e \in W : LevelOf(t)[e] = LevelOf(u)[e]
  BY <1>1 DEF LevelOf
<1> QED
  BY <1>2 DEF Varies

-----------------------------------------------------------------------------
(* The transformations one by one: tables that look alike up to a day      *)
(* yield the same values up to that day.                                   *)

LEMMA Parameters ==
    /\ Window \in Nat \ {0} /\ Far \in Nat \ {0} /\ Fast \in Nat \ {0}
    /\ Slow \in Nat \ {0} /\ Signal \in Nat \ {0} /\ Wilder \in Nat \ {0}
    /\ 1 \in Nat \ {0}
BY TransformAssumption

LEMMA ChangeLocal ==
    ASSUME NEW t, NEW u, NEW D \in Days, Alike(t, u, D)
    PROVE  /\ Local(Change(t), Change(u), t, D)
           /\ \A d \in 1 .. D : d \in Defined(Change(t)) => d \in Change(t)[d]
<1> SUFFICES ASSUME NEW d \in 1 .. D
             PROVE  /\ Change(t)[d] = Change(u)[d]
                    /\ Change(t)[d] \subseteq Seen(t)
                    /\ Change(t)[d] \subseteq 1 .. d
                    /\ d \in Defined(Change(t)) => d \in Change(t)[d]
  BY DEF Local
<1> DEFINE e == Lag(Source(t), d, 1)
<1>1. SameUpto(Source(t), Source(u), D) /\ Source(t) \subseteq Seen(t)
  BY AlikeRows DEF Seen
<1>2. /\ d \in Days /\ d \in 1 .. d /\ (d \in Source(t) <=> d \in Source(u))
      /\ e = Lag(Source(u), d, 1)
      /\ e # 0 => e \in Source(t) /\ e \in 1 .. d
  BY <1>1, UptoDays, LagUpto, Parameters DEF SameUpto
<1>3. /\ Change(t)[d] = Of(d \in Source(t) /\ e # 0, {d, e})
      /\ Change(u)[d] = Of(d \in Source(u) /\ e # 0, {d, e})
  BY <1>2 DEF Change
<1> HIDE DEF e
<1> QED
  BY <1>1, <1>2, <1>3 DEF Of, Defined

LEMMA ReturnLocal ==
    ASSUME NEW t, NEW u, NEW D \in Days, Alike(t, u, D), NEW n \in Nat \ {0}
    PROVE  /\ Local(Return(t, n), Return(u, n), t, D)
           /\ \A d \in 1 .. D : /\ d \in Defined(Return(t, n)) => d \in Return(t, n)[d]
                                /\ Return(t, n)[d] \subseteq Source(t)
<1> SUFFICES ASSUME NEW d \in 1 .. D
             PROVE  /\ Return(t, n)[d] = Return(u, n)[d]
                    /\ Return(t, n)[d] \subseteq Source(t)
                    /\ Return(t, n)[d] \subseteq 1 .. d
                    /\ d \in Defined(Return(t, n)) => d \in Return(t, n)[d]
  BY DEF Local, Seen
<1> DEFINE e == Lag(Source(t), d, n)
<1>1. /\ SameUpto(Source(t), Source(u), D) /\ SameUpto(Positive(t), Positive(u), D)
      /\ Positive(t) \subseteq Source(t)
  BY AlikeRows
<1>2. /\ d \in Days /\ d \in 1 .. d /\ (d \in Positive(t) <=> d \in Positive(u))
      /\ e = Lag(Source(u), d, n)
      /\ e # 0 => e \in 1 .. D /\ e \in 1 .. d
  <2>1. e = Lag(Source(u), d, n) /\ (e # 0 => e \in 1 .. D /\ e \in 1 .. d)
    BY <1>1, LagUpto
  <2> HIDE DEF e
  <2> QED
    BY <1>1, <2>1, UptoDays DEF SameUpto
<1>3. /\ Return(t, n)[d] = Of(d \in Positive(t) /\ e \in Positive(t), {d, e})
      /\ Return(u, n)[d] = Of(d \in Positive(u) /\ e \in Positive(u), {d, e})
  BY <1>2 DEF Return
<1>4. (e \in Positive(t) <=> e \in Positive(u)) /\ (e \in Positive(t) => e \in 1 .. d)
  <2>1. 0 \notin Positive(t) /\ 0 \notin Positive(u)
    BY <1>1, TransformAssumption DEF SameUpto, Days
  <2> QED
    BY <1>1, <1>2, <2>1 DEF SameUpto
<1> HIDE DEF e
<1> QED
  BY <1>1, <1>2, <1>3, <1>4 DEF Of, Defined

LEMMA OverReturnsLocal ==
    ASSUME NEW t, NEW u, NEW D \in Days, Alike(t, u, D)
    PROVE  Local(OverReturns(t), OverReturns(u), t, D)
<1> DEFINE x == Return(t, 1)
           y == Return(u, 1)
           w == Rolling(Source(t), Window)
           v == Rolling(Source(u), Window)
<1>1. Local(x, y, t, D) /\ SameUpto(Defined(x), Defined(y), D)
  BY ReturnLocal, DefinedUpto, Parameters
<1>2. SameUpto(Source(t), Source(u), D)
  BY AlikeRows
<1> SUFFICES ASSUME NEW d \in 1 .. D
             PROVE  /\ OverReturns(t)[d] = OverReturns(u)[d]
                    /\ OverReturns(t)[d] \subseteq Seen(t)
                    /\ OverReturns(t)[d] \subseteq 1 .. d
  BY DEF Local
<1>3. d \in Days /\ w[d] = v[d] /\ w[d] \subseteq 1 .. d /\ w[d] \subseteq 1 .. D
  BY <1>2, UptoDays, RollingUpto
<1>4. /\ OverReturns(t)[d] = Of(w[d] # {} /\ w[d] \subseteq Defined(x), Basis(x, w[d]))
      /\ OverReturns(u)[d] = Of(v[d] # {} /\ v[d] \subseteq Defined(y), Basis(y, v[d]))
  BY <1>3 DEF OverReturns
<1> HIDE DEF w, v, x, y
<1>5. /\ Basis(x, w[d]) = Basis(y, w[d])
      /\ Basis(x, w[d]) \subseteq Seen(t) /\ Basis(x, w[d]) \subseteq 1 .. d
  BY <1>1, <1>3, BasisUpto
<1>6. w[d] \subseteq Defined(x) <=> w[d] \subseteq Defined(y)
  BY <1>1, <1>3 DEF SameUpto
<1> QED
  BY <1>3, <1>4, <1>5, <1>6 DEF Of

LEMMA OverLevelsLocal ==
    ASSUME NEW t, NEW u, NEW D \in Days, Alike(t, u, D)
    PROVE  Local(OverLevels(t), OverLevels(u), t, D)
<1> DEFINE w == Rolling(Source(t), Window)
           v == Rolling(Source(u), Window)
<1>1. SameUpto(Source(t), Source(u), D) /\ SameUpto(Positive(t), Positive(u), D)
  BY AlikeRows
<1> SUFFICES ASSUME NEW d \in 1 .. D
             PROVE  /\ OverLevels(t)[d] = OverLevels(u)[d]
                    /\ OverLevels(t)[d] \subseteq Seen(t)
                    /\ OverLevels(t)[d] \subseteq 1 .. d
  BY DEF Local
<1>2. /\ d \in Days /\ w[d] = v[d] /\ w[d] \subseteq 1 .. d /\ w[d] \subseteq 1 .. D
      /\ w[d] \subseteq Source(t)
  BY <1>1, UptoDays, RollingUpto
<1>3. /\ OverLevels(t)[d] = Of(w[d] \cap Positive(t) # {}, w[d])
      /\ OverLevels(u)[d] = Of(v[d] \cap Positive(u) # {}, v[d])
  BY <1>2 DEF OverLevels
<1> HIDE DEF w, v
<1>4. w[d] \cap Positive(t) = v[d] \cap Positive(u)
  BY <1>1, <1>2 DEF SameUpto
<1> QED
  BY <1>2, <1>3, <1>4 DEF Of, Seen

\* A window of levels in which something moved.
LEMMA VaryingLocal ==
    ASSUME NEW t, NEW u, NEW D \in Days, Alike(t, u, D), NEW A, NEW B,
           SameUpto(A, B, D), A \subseteq Source(t), NEW n, NEW d \in 1 .. D
    PROVE  /\ Of(Varies(LevelOf(t), Rolling(A, n)[d]), Rolling(A, n)[d])
                = Of(Varies(LevelOf(u), Rolling(B, n)[d]), Rolling(B, n)[d])
           /\ Of(Varies(LevelOf(t), Rolling(A, n)[d]), Rolling(A, n)[d])
                \subseteq Seen(t) \cap (1 .. d)
<1> DEFINE W == Rolling(A, n)[d]
<1>1. W = Rolling(B, n)[d] /\ W \subseteq A \cap (1 .. d) /\ W \subseteq 1 .. D
  BY RollingUpto
<1> HIDE DEF W
<1>2. W \subseteq Source(t)
  BY <1>1
<1>3. Varies(LevelOf(t), W) <=> Varies(LevelOf(u), W)
  BY <1>1, <1>2, VariesUpto
<1> QED
  BY <1>1, <1>2, <1>3 DEF Of, Seen, W

LEMMA ZScoresLocal ==
    ASSUME NEW t, NEW u, NEW D \in Days, Alike(t, u, D)
    PROVE  /\ Local(LevelZScore(t), LevelZScore(u), t, D)
           /\ Local(SourceZScore(t), SourceZScore(u), t, D)
           /\ Local(StochasticK(t), StochasticK(u), t, D)
<1>1. /\ SameUpto(Source(t), Source(u), D) /\ SameUpto(Positive(t), Positive(u), D)
      /\ SameUpto(Bars(t), Bars(u), D)
      /\ Positive(t) \subseteq Source(t) /\ Bars(t) \subseteq Source(t)
  BY AlikeRows DEF Bars
<1>2. ASSUME NEW d \in 1 .. D, NEW A, NEW B, SameUpto(A, B, D), A \subseteq Source(t)
      PROVE  /\ Of(Varies(LevelOf(t), Rolling(A, Window)[d]), Rolling(A, Window)[d])
                  = Of(Varies(LevelOf(u), Rolling(B, Window)[d]), Rolling(B, Window)[d])
             /\ Of(Varies(LevelOf(t), Rolling(A, Window)[d]), Rolling(A, Window)[d])
                  \subseteq Seen(t) \cap (1 .. d)
  BY <1>2, VaryingLocal
<1>3. Local(LevelZScore(t), LevelZScore(u), t, D)
  BY <1>1, <1>2, UptoDays DEF Local, LevelZScore
<1>4. Local(SourceZScore(t), SourceZScore(u), t, D)
  BY <1>1, <1>2, UptoDays DEF Local, SourceZScore
<1>5. Local(StochasticK(t), StochasticK(u), t, D)
  BY <1>1, <1>2, UptoDays DEF Local, StochasticK
<1> QED
  BY <1>3, <1>4, <1>5

\* Autocorrelations: the pairs, and both sides of them, are the same.
LEMMA AutocorrelationLocal ==
    ASSUME NEW t, NEW u, NEW D \in Days, Alike(t, u, D), NEW x, NEW y,
           Local(x, y, t, D),
           \A d \in 1 .. D : d \in Defined(x) => d \in x[d]
    PROVE  /\ SameUpto(Paired(x, Source(t)), Paired(y, Source(u)), D)
           /\ Local(Autocorrelation(t, x, Source(t), Paired(x, Source(t)), Window),
                    Autocorrelation(u, y, Source(u), Paired(y, Source(u)), Window), t, D)
<1> DEFINE P == Paired(x, Source(t))
           Q == Paired(y, Source(u))
           w == Rolling(P, Window)
           v == Rolling(Q, Window)
           step == [d \in Defined(x) |-> t[d].level - t[Min(x[d])].level]
           tread == [d \in Defined(y) |-> u[d].level - u[Min(y[d])].level]
<1>1. SameUpto(Source(t), Source(u), D) /\ SameUpto(Defined(x), Defined(y), D)
  BY AlikeRows, DefinedUpto
<1>2. \A e \in 1 .. D : Lag(Source(t), e, 1) = Lag(Source(u), e, 1)
  BY <1>1, LagUpto, Parameters
<1>3. /\ Defined(x) \subseteq Days \ {0} /\ Defined(y) \subseteq Days \ {0}
      /\ \A e \in 1 .. D : Lag(Source(t), e, 1) # 0 =>
                              /\ Lag(Source(t), e, 1) \in 1 .. D
                              /\ Lag(Source(t), e, 1) \in 1 .. e
  <2>1. Defined(x) \subseteq Days \ {0} /\ Defined(y) \subseteq Days \ {0}
    BY TransformAssumption DEF Defined, Days
  <2> QED
    BY <1>1, <2>1, LagUpto, Parameters
<1>4. \A e \in 1 .. D : Lag(Source(t), e, 1) \in Defined(x)
                            <=> Lag(Source(u), e, 1) \in Defined(y)
  BY <1>1, <1>2, <1>3 DEF SameUpto
<1>5. SameUpto(P, Q, D)
  BY <1>1, <1>4 DEF SameUpto, Paired
<1>6. ASSUME NEW e \in Defined(x) \cap (1 .. D)
      PROVE  e \in Defined(y) /\ step[e] = tread[e]
  <2>1. /\ e \in Defined(y) /\ x[e] = y[e] /\ e \in x[e]
        /\ x[e] \subseteq Seen(t) /\ x[e] \subseteq 1 .. e /\ 1 .. e \subseteq 1 .. D
    BY <1>1, UptoDays DEF SameUpto, Local
  <2>2. Min(x[e]) \in x[e]
    <3>1. x[e] \in SUBSET Nat /\ x[e] # {}
      BY <2>1
    <3> QED
      BY <3>1, LeastDay
  <2>3. \A g \in x[e] : t[g] = u[g]
    BY <2>1, AlikeRows
  <2> QED
    BY <2>1, <2>2, <2>3
<1> HIDE DEF step, tread
<1> SUFFICES ASSUME NEW d \in 1 .. D
             PROVE  /\ Autocorrelation(t, x, Source(t), P, Window)[d]
                         = Autocorrelation(u, y, Source(u), Q, Window)[d]
                    /\ Autocorrelation(t, x, Source(t), P, Window)[d]
                         \subseteq Seen(t) \cap (1 .. d)
  BY <1>5 DEF Local
<1> DEFINE W == w[d]
           L == {Lag(Source(t), e, 1) : e \in W}
           M == {Lag(Source(u), e, 1) : e \in v[d]}
<1>7. d \in Days /\ W = v[d] /\ W \subseteq P /\ W \subseteq 1 .. d /\ W \subseteq 1 .. D
  BY <1>5, UptoDays, RollingUpto
<1>8. /\ Autocorrelation(t, x, Source(t), P, Window)[d]
           = Of(Varies(step, W) /\ Varies(step, L), Basis(x, W \cup L))
      /\ Autocorrelation(u, y, Source(u), Q, Window)[d]
           = Of(Varies(tread, v[d]) /\ Varies(tread, M), Basis(y, v[d] \cup M))
  BY <1>7 DEF Autocorrelation, step, tread
<1>9. L = M
  BY <1>2, <1>7
<1>10. /\ W \subseteq Defined(x) /\ L \subseteq Defined(x)
       /\ L \subseteq 1 .. d /\ L \subseteq 1 .. D
  <2>1. \A e \in P : e \in Defined(x) /\ Lag(Source(t), e, 1) \in Defined(x)
    BY DEF Paired
  <2>2. \A e \in W : e \in 1 .. D /\ 1 .. e \subseteq 1 .. d
    BY <1>7, UptoDays
  <2>3. \A e \in W : /\ Lag(Source(t), e, 1) \in Defined(x)
                      /\ Lag(Source(t), e, 1) \in 1 .. d /\ Lag(Source(t), e, 1) \in 1 .. D
    <3> TAKE e \in W
    <3> HIDE DEF W, P
    <3>1. Lag(Source(t), e, 1) \in Defined(x) /\ Lag(Source(t), e, 1) # 0
      BY <1>3, <1>7, <2>1
    <3> QED
      BY <1>3, <2>2, <3>1
  <2> QED
    BY <1>7, <2>1, <2>3
<1> HIDE DEF W, L, M, w, v, P, Q
<1>11. /\ Basis(x, W \cup L) = Basis(y, W \cup L)
       /\ Basis(x, W \cup L) \subseteq Seen(t) /\ Basis(x, W \cup L) \subseteq 1 .. d
  <2>1. W \cup L \in SUBSET (1 .. d)
    BY <1>7, <1>10
  <2> QED
    BY <2>1, BasisUpto
<1>12. /\ Varies(step, W) <=> Varies(tread, W)
       /\ Varies(step, L) <=> Varies(tread, L)
  <2>1. \A e \in W \cup L : step[e] = tread[e]
    BY <1>6, <1>7, <1>10
  <2> QED
    BY <2>1 DEF Varies
<1> QED
  BY <1>7, <1>8, <1>9, <1>11, <1>12 DEF Of

LEMMA AutocorrelationsLocal ==
    ASSUME NEW t, NEW u, NEW D \in Days, Alike(t, u, D)
    PROVE  /\ Local(ReturnAutocorrelation(t), ReturnAutocorrelation(u), t, D)
           /\ Local(ChangeAutocorrelation(t), ChangeAutocorrelation(u), t, D)
<1>1. Local(ReturnAutocorrelation(t), ReturnAutocorrelation(u), t, D)
  <2>1. /\ Local(Return(t, 1), Return(u, 1), t, D)
        /\ \A d \in 1 .. D : d \in Defined(Return(t, 1)) => d \in Return(t, 1)[d]
    BY ReturnLocal, Parameters
  <2> QED
    BY <2>1, AutocorrelationLocal DEF ReturnAutocorrelation
<1>2. Local(ChangeAutocorrelation(t), ChangeAutocorrelation(u), t, D)
  <2> DEFINE P == Paired(Change(t), Source(t))
             Q == Paired(Change(u), Source(u))
             a == Autocorrelation(t, Change(t), Source(t), P, Window)
             b == Autocorrelation(u, Change(u), Source(u), Q, Window)
             w == Rolling(Source(t), Window)
             v == Rolling(Source(u), Window)
             full == {d \in Days : w[d] # {} /\ w[d] \subseteq P}
             whole == {d \in Days : v[d] # {} /\ v[d] \subseteq Q}
  <2>1. SameUpto(P, Q, D) /\ Local(a, b, t, D)
    BY ChangeLocal, AutocorrelationLocal
  <2>2. SameUpto(Source(t), Source(u), D)
    BY AlikeRows
  <2>3. /\ ChangeAutocorrelation(t) = [d \in Days |-> Of(d \in full, a[d])]
        /\ ChangeAutocorrelation(u) = [d \in Days |-> Of(d \in whole, b[d])]
    BY DEF ChangeAutocorrelation
  <2>4. ASSUME NEW d \in 1 .. D
        PROVE  d \in Days /\ (d \in full <=> d \in whole)
    <3>1. d \in Days /\ w[d] = v[d] /\ w[d] \subseteq 1 .. D
      BY <2>2, UptoDays, RollingUpto
    <3> HIDE DEF w, v, P, Q
    <3>2. w[d] \subseteq P <=> w[d] \subseteq Q
      BY <2>1, <3>1 DEF SameUpto
    <3> QED
      BY <3>1, <3>2
  <2> HIDE DEF full, whole, a, b
  <2> QED
    BY <2>1, <2>3, <2>4 DEF Local, Of
<1> QED
  BY <1>1, <1>2

\* Both averages, or nothing.
Both(x, y) == [d \in Days |-> Of(x[d] # {} /\ y[d] # {}, x[d] \cup y[d])]

LEMMA RecurrencesLocal ==
    ASSUME NEW t, NEW u, NEW D \in Days, Alike(t, u, D), NEW S, NEW R, SameUpto(S, R, D)
    PROVE  /\ \A n \in Nat \ {0} : Local(Ema(S, t, n), Ema(R, u, n), t, D)
           /\ Local(MacdLine(S, t), MacdLine(R, u), t, D)
           /\ Local(MacdHistogram(S, t), MacdHistogram(R, u), t, D)
           /\ Local(EmaCross(S, t), EmaCross(R, u), t, D)
<1>1. ASSUME NEW n \in Nat \ {0}
      PROVE  Local(Ema(S, t, n), Ema(R, u, n), t, D)
  <2>1. SameUpto(S \cap Positive(t), R \cap Positive(u), D)
    BY AlikeRows DEF SameUpto
  <2>2. S \cap Positive(t) \subseteq Seen(t)
    BY DEF Seen, Positive
  <2>3. ASSUME NEW d \in 1 .. D
        PROVE  /\ Ema(S, t, n)[d] = Ema(R, u, n)[d]
               /\ Ema(S, t, n)[d] \subseteq S \cap Positive(t) \cap (1 .. d)
    BY <2>1, SmoothedUpto DEF Ema
  <2> QED
    BY <2>2, <2>3 DEF Local
<1>2. \A d \in 1 .. D : d \in Days /\ d \in 1 .. d
  BY UptoDays
<1>3. ASSUME NEW x1, NEW y1, NEW x2, NEW y2,
             Local(x1, y1, t, D), Local(x2, y2, t, D)
      PROVE  Local(Both(x1, x2), Both(y1, y2), t, D)
  BY <1>2, <1>3 DEF Local, Of, Both
<1>4. Local(MacdLine(S, t), MacdLine(R, u), t, D)
  <2>1. /\ Local(Ema(S, t, Fast), Ema(R, u, Fast), t, D)
        /\ Local(Ema(S, t, Slow), Ema(R, u, Slow), t, D)
    BY <1>1, Parameters
  <2>2. /\ MacdLine(S, t) = Both(Ema(S, t, Fast), Ema(S, t, Slow))
        /\ MacdLine(R, u) = Both(Ema(R, u, Fast), Ema(R, u, Slow))
    BY DEF MacdLine, Both
  <2> QED
    BY <1>3, <2>1, <2>2
<1>5. Local(EmaCross(S, t), EmaCross(R, u), t, D)
  <2>1. /\ Local(Ema(S, t, Fast), Ema(R, u, Fast), t, D)
        /\ Local(Ema(S, t, Slow), Ema(R, u, Slow), t, D)
        /\ SameUpto(Source(t), Source(u), D)
    BY <1>1, Parameters, AlikeRows
  <2>2. /\ Local(Difference(Ema(S, t, Fast), Source(t), 1),
                 Difference(Ema(R, u, Fast), Source(u), 1), t, D)
        /\ Local(Difference(Ema(S, t, Slow), Source(t), 1),
                 Difference(Ema(R, u, Slow), Source(u), 1), t, D)
    BY <2>1, DifferenceUpto, Parameters
  <2>3. /\ EmaCross(S, t) = Both(Difference(Ema(S, t, Fast), Source(t), 1),
                                Difference(Ema(S, t, Slow), Source(t), 1))
        /\ EmaCross(R, u) = Both(Difference(Ema(R, u, Fast), Source(u), 1),
                                Difference(Ema(R, u, Slow), Source(u), 1))
    BY DEF EmaCross, Both
  <2> QED
    BY <1>3, <2>2, <2>3
<1>6. Local(MacdHistogram(S, t), MacdHistogram(R, u), t, D)
  <2> DEFINE x == MacdLine(S, t)
             y == MacdLine(R, u)
             a == Smoothed(S, Defined(x), Signal)
             b == Smoothed(R, Defined(y), Signal)
  <2>1. SameUpto(Defined(x), Defined(y), D)
    BY <1>4, DefinedUpto
  <2> SUFFICES ASSUME NEW d \in 1 .. D
               PROVE  /\ MacdHistogram(S, t)[d] = MacdHistogram(R, u)[d]
                      /\ MacdHistogram(S, t)[d] \subseteq Seen(t)
                      /\ MacdHistogram(S, t)[d] \subseteq 1 .. d
    BY DEF Local
  <2>2. a[d] = b[d] /\ a[d] \subseteq 1 .. d
    BY <2>1, SmoothedUpto, Parameters
  <2>3. /\ MacdHistogram(S, t)[d] = Of(a[d] # {}, Basis(x, a[d] \cup {d}))
        /\ MacdHistogram(R, u)[d] = Of(b[d] # {}, Basis(y, b[d] \cup {d}))
    BY <1>2 DEF MacdHistogram
  <2> HIDE DEF a, b, x, y
  <2>4. a[d] \cup {d} \in SUBSET (1 .. d)
    BY <1>2, <2>2
  <2>5. Local(x, y, t, D)
    BY <1>4 DEF x, y
  <2>6. /\ Basis(x, a[d] \cup {d}) = Basis(y, a[d] \cup {d})
        /\ Basis(x, a[d] \cup {d}) \subseteq Seen(t)
        /\ Basis(x, a[d] \cup {d}) \subseteq 1 .. d
    BY <2>4, <2>5, BasisUpto
  <2> QED
    BY <2>2, <2>3, <2>6 DEF Of
<1> QED
  BY <1>1, <1>4, <1>5, <1>6

LEMMA RsiLocal ==
    ASSUME NEW t, NEW u, NEW D \in Days, Alike(t, u, D)
    PROVE  Local(Rsi(t), Rsi(u), t, D)
<1> DEFINE x == Return(t, 1)
           y == Return(u, 1)
           a == Smoothed(Source(t), Defined(x), Wilder)
           b == Smoothed(Source(u), Defined(y), Wilder)
<1>1. /\ Local(x, y, t, D) /\ SameUpto(Defined(x), Defined(y), D)
      /\ \A d \in 1 .. D : x[d] \subseteq Source(t)
  BY ReturnLocal, DefinedUpto, Parameters
<1>2. SameUpto(Source(t), Source(u), D)
  BY AlikeRows
<1> SUFFICES ASSUME NEW d \in 1 .. D
             PROVE  /\ Rsi(t)[d] = Rsi(u)[d]
                    /\ Rsi(t)[d] \subseteq Seen(t)
                    /\ Rsi(t)[d] \subseteq 1 .. d
  BY DEF Local
<1>3. a[d] = b[d] /\ a[d] \subseteq 1 .. d
  BY <1>1, <1>2, SmoothedUpto, Parameters
<1>4. d \in Days /\ 1 .. d \subseteq 1 .. D
  BY UptoDays
<1>5. /\ Rsi(t)[d] = Of(Varies(LevelOf(t), Basis(x, a[d])), Basis(x, a[d]))
      /\ Rsi(u)[d] = Of(Varies(LevelOf(u), Basis(y, b[d])), Basis(y, b[d]))
  BY <1>4 DEF Rsi
<1> HIDE DEF a, b, x, y
<1>6. /\ Basis(x, a[d]) = Basis(y, a[d])
      /\ Basis(x, a[d]) \subseteq Seen(t) /\ Basis(x, a[d]) \subseteq 1 .. d
  BY <1>1, <1>3, BasisUpto
<1>7. Basis(x, a[d]) \subseteq Source(t) /\ Basis(x, a[d]) \subseteq 1 .. D
  BY <1>1, <1>3, <1>4, <1>6 DEF Basis
<1>8. Varies(LevelOf(t), Basis(x, a[d])) <=> Varies(LevelOf(u), Basis(x, a[d]))
  BY <1>7, VariesUpto
<1> QED
  BY <1>3, <1>5, <1>6, <1>8 DEF Of

LEMMA BarsLocal ==
    ASSUME NEW t, NEW u, NEW D \in Days, Alike(t, u, D)
    PROVE  /\ Local(BarMetric(t), BarMetric(u), t, D)
           /\ Local(Rolling(BarMetrics(t), Window), Rolling(BarMetrics(u), Window), t, D)
           /\ Local(StochasticD(t), StochasticD(u), t, D)
           /\ Local(Donchian(t), Donchian(u), t, D)
<1>1. /\ SameUpto(BarMetrics(t), BarMetrics(u), D) /\ SameUpto(Bars(t), Bars(u), D)
      /\ BarMetrics(t) \subseteq Seen(t) /\ Bars(t) \subseteq Seen(t)
  BY AlikeRows DEF BarMetrics, Bars, Seen
<1>2. \A d \in 1 .. D : d \in Days /\ d \in 1 .. d
  BY UptoDays
<1>3. Local(BarMetric(t), BarMetric(u), t, D)
  BY <1>1, <1>2 DEF Local, BarMetric, Of, SameUpto
<1>4. Local(Rolling(BarMetrics(t), Window), Rolling(BarMetrics(u), Window), t, D)
  <2>1. ASSUME NEW d \in 1 .. D
        PROVE  /\ Rolling(BarMetrics(t), Window)[d] = Rolling(BarMetrics(u), Window)[d]
               /\ Rolling(BarMetrics(t), Window)[d] \subseteq BarMetrics(t) \cap (1 .. d)
    BY <1>1, RollingUpto
  <2> QED
    BY <1>1, <2>1 DEF Local
<1>5. Local(StochasticD(t), StochasticD(u), t, D)
  <2> DEFINE x == StochasticK(t)
             y == StochasticK(u)
             w == Rolling(Bars(t), Window)
             v == Rolling(Bars(u), Window)
  <2>1. Local(x, y, t, D) /\ SameUpto(Defined(x), Defined(y), D)
    BY ZScoresLocal, DefinedUpto
  <2> SUFFICES ASSUME NEW d \in 1 .. D
               PROVE  /\ StochasticD(t)[d] = StochasticD(u)[d]
                      /\ StochasticD(t)[d] \subseteq Seen(t)
                      /\ StochasticD(t)[d] \subseteq 1 .. d
    BY DEF Local
  <2>2. w[d] = v[d] /\ w[d] \subseteq 1 .. d /\ w[d] \subseteq 1 .. D
    BY <1>1, RollingUpto
  <2>3. /\ StochasticD(t)[d] = Of(w[d] # {} /\ w[d] \subseteq Defined(x), Basis(x, w[d]))
        /\ StochasticD(u)[d] = Of(v[d] # {} /\ v[d] \subseteq Defined(y), Basis(y, v[d]))
    BY <1>2 DEF StochasticD
  <2> HIDE DEF w, v, x, y
  <2>4. /\ Basis(x, w[d]) = Basis(y, w[d])
        /\ Basis(x, w[d]) \subseteq Seen(t) /\ Basis(x, w[d]) \subseteq 1 .. d
    BY <2>1, <2>2, BasisUpto
  <2>5. w[d] \subseteq Defined(x) <=> w[d] \subseteq Defined(y)
    BY <2>1, <2>2 DEF SameUpto
  <2> QED
    BY <2>2, <2>3, <2>4, <2>5 DEF Of
<1>6. Local(Donchian(t), Donchian(u), t, D)
  <2> SUFFICES ASSUME NEW d \in 1 .. D
               PROVE  /\ Donchian(t)[d] = Donchian(u)[d]
                      /\ Donchian(t)[d] \subseteq Seen(t)
                      /\ Donchian(t)[d] \subseteq 1 .. d
    BY DEF Local
  <2> DEFINE F == Frame(Before(Bars(t), d), d, Window)
             G == Frame(Before(Bars(u), d), d, Window)
  <2>1. Before(Bars(t), d) = Before(Bars(u), d)
    BY <1>1, FrameUpto
  <2>2. SameUpto(Before(Bars(t), d), Before(Bars(u), d), D)
    BY <1>1, FrameUpto
  <2>3. F = G /\ F \subseteq Before(Bars(t), d) /\ F \subseteq 1 .. d
    BY <2>2, FrameUpto
  <2>4. /\ Donchian(t)[d] = Of(d \in Bars(t) /\ Cardinality(F) = Window, F \cup {d})
        /\ Donchian(u)[d] = Of(d \in Bars(u) /\ Cardinality(G) = Window, G \cup {d})
    BY <1>2 DEF Donchian
  <2>5. Before(Bars(t), d) \subseteq Seen(t) /\ (d \in Bars(t) <=> d \in Bars(u))
    BY <1>1 DEF Before, SameUpto
  <2> HIDE DEF F, G
  <2> QED
    BY <1>1, <1>2, <2>3, <2>4, <2>5 DEF Of
<1> QED
  BY <1>3, <1>4, <1>5, <1>6

LEMMA GapsLocal ==
    ASSUME NEW t, NEW u, NEW D \in Days, Alike(t, u, D)
    PROVE  /\ Local(Gap(t), Gap(u), t, D)
           /\ Local(GapMean(t), GapMean(u), t, D)
<1>1. /\ SameUpto(Source(t), Source(u), D) /\ SameUpto(Positive(t), Positive(u), D)
      /\ SameUpto(Opens(t), Opens(u), D)
      /\ Positive(t) \subseteq Seen(t) /\ Opens(t) \subseteq Seen(t)
  BY AlikeRows DEF Seen, Positive
<1>2. Local(Gap(t), Gap(u), t, D)
  <2> SUFFICES ASSUME NEW d \in 1 .. D
               PROVE  /\ Gap(t)[d] = Gap(u)[d]
                      /\ Gap(t)[d] \subseteq Seen(t)
                      /\ Gap(t)[d] \subseteq 1 .. d
    BY DEF Local
  <2> DEFINE e == PreviousClose(t, d)
  <2>1. Before(Levels(t), d) = Before(Levels(u), d)
    BY <1>1, FrameUpto DEF Source
  <2>2. e = PreviousClose(u, d)
    BY <2>1 DEF PreviousClose
  <2>3. d \in Days /\ d \in Nat /\ d \in 1 .. d /\ 1 .. d \subseteq 1 .. D
    BY UptoDays
  <2>4. e \in 0 .. d /\ e \in Levels(t) \cup {0}
    <3> DEFINE B == Before(Levels(t), d) \cup {0}
    <3>1. Levels(t) \subseteq Nat
      BY <1>1, TransformAssumption DEF SameUpto, Source, Days
    <3>2. B \in SUBSET (0 .. d) /\ B # {} /\ B \subseteq Levels(t) \cup {0}
      BY <2>3, <3>1 DEF Before
    <3>3. e = Max(B)
      BY DEF PreviousClose
    <3> HIDE DEF B, e
    <3> QED
      BY <2>3, <3>2, <3>3, NewestDay
  <2>5. /\ Gap(t)[d] = Of(d \in Opens(t) /\ e \in Positive(t), {d, e})
        /\ Gap(u)[d] = Of(d \in Opens(u) /\ e \in Positive(u), {d, e})
    BY <2>2, <2>3 DEF Gap
  <2> HIDE DEF e
  <2>6. 0 \notin Positive(t) /\ 0 \notin Positive(u)
    BY <1>1, TransformAssumption DEF SameUpto, Days
  <2>7. (e \in Positive(t) <=> e \in Positive(u)) /\ (e \in Positive(t) => e \in 1 .. d)
    BY <1>1, <2>3, <2>4, <2>6 DEF SameUpto
  <2> QED
    BY <1>1, <2>3, <2>5, <2>7 DEF Of, SameUpto
<1>3. Local(GapMean(t), GapMean(u), t, D)
  <2> DEFINE w == Rolling(Defined(Gap(t)), Window)
             v == Rolling(Defined(Gap(u)), Window)
  <2>1. SameUpto(Defined(Gap(t)), Defined(Gap(u)), D)
    BY <1>2, DefinedUpto
  <2> SUFFICES ASSUME NEW d \in 1 .. D
               PROVE  /\ GapMean(t)[d] = GapMean(u)[d]
                      /\ GapMean(t)[d] \subseteq Seen(t)
                      /\ GapMean(t)[d] \subseteq 1 .. d
    BY DEF Local
  <2>2. d \in Days /\ w[d] = v[d] /\ w[d] \subseteq 1 .. d
    BY <2>1, RollingUpto, UptoDays
  <2>3. GapMean(t)[d] = Basis(Gap(t), w[d]) /\ GapMean(u)[d] = Basis(Gap(u), v[d])
    BY <2>2 DEF GapMean
  <2> HIDE DEF w, v
  <2> QED
    BY <1>2, <2>2, <2>3, BasisUpto
<1> QED
  BY <1>2, <1>3

\* All 24 of them.
LEMMA TransformsLocal ==
    ASSUME NEW t, NEW u, NEW D \in Days, Alike(t, u, D), NEW S, NEW R, SameUpto(S, R, D),
           NEW f \in Features
    PROVE  Local(Transforms(S, t)[f], Transforms(R, u)[f], t, D)
<1>1. SameUpto(Source(t), Source(u), D) /\ SameUpto(Bars(t), Bars(u), D)
  BY AlikeRows
<1>2. /\ Local(Change(t), Change(u), t, D)
      /\ Local(Return(t, Far), Return(u, Far), t, D)
      /\ Local(OverReturns(t), OverReturns(u), t, D)
      /\ Local(OverLevels(t), OverLevels(u), t, D)
  BY ChangeLocal, ReturnLocal, OverReturnsLocal, OverLevelsLocal, Parameters
<1>3. /\ Local(LevelZScore(t), LevelZScore(u), t, D)
      /\ Local(SourceZScore(t), SourceZScore(u), t, D)
      /\ Local(StochasticK(t), StochasticK(u), t, D)
      /\ Local(Difference(StochasticK(t), Bars(t), Far),
               Difference(StochasticK(u), Bars(u), Far), t, D)
  BY <1>1, ZScoresLocal, DifferenceUpto, Parameters
<1>4. /\ Local(ReturnAutocorrelation(t), ReturnAutocorrelation(u), t, D)
      /\ Local(ChangeAutocorrelation(t), ChangeAutocorrelation(u), t, D)
  BY AutocorrelationsLocal
<1>5. /\ Local(Rsi(t), Rsi(u), t, D)
      /\ Local(Difference(Rsi(t), Source(t), Far), Difference(Rsi(u), Source(u), Far), t, D)
  BY <1>1, RsiLocal, DifferenceUpto, Parameters
<1>6. /\ Local(Ema(S, t, Slow), Ema(R, u, Slow), t, D)
      /\ Local(EmaCross(S, t), EmaCross(R, u), t, D)
      /\ Local(MacdLine(S, t), MacdLine(R, u), t, D)
      /\ Local(MacdHistogram(S, t), MacdHistogram(R, u), t, D)
  BY RecurrencesLocal, Parameters
<1>7. /\ Local(Difference(Ema(S, t, Slow), Source(t), Far),
               Difference(Ema(R, u, Slow), Source(u), Far), t, D)
      /\ Local(Difference(MacdHistogram(S, t), S, Far),
               Difference(MacdHistogram(R, u), R, Far), t, D)
  BY <1>1, <1>6, DifferenceUpto, Parameters
<1>8. /\ Local(BarMetric(t), BarMetric(u), t, D)
      /\ Local(Rolling(BarMetrics(t), Window), Rolling(BarMetrics(u), Window), t, D)
      /\ Local(StochasticD(t), StochasticD(u), t, D)
      /\ Local(Donchian(t), Donchian(u), t, D)
      /\ Local(Gap(t), Gap(u), t, D)
      /\ Local(GapMean(t), GapMean(u), t, D)
  BY BarsLocal, GapsLocal
<1> QED
  BY <1>2, <1>3, <1>4, <1>5, <1>6, <1>7, <1>8 DEF Transforms, Features

\* What is published of a series, restricted to the days with a level.
LEMMA TransformedLocal ==
    ASSUME NEW t, NEW u, NEW D \in Days, Alike(t, u, D), NEW S, NEW R, SameUpto(S, R, D)
    PROVE  /\ DOMAIN Transformed(S, t) = Features /\ DOMAIN Transformed(R, u) = Features
           /\ \A f \in Features : Local(Transformed(S, t)[f], Transformed(R, u)[f], t, D)
<1>1. /\ DOMAIN Transforms(S, t) = Features
      /\ DOMAIN Transforms(R, u) = Features
  BY DEF Transforms, Features
<1>2. /\ Transformed(S, t) = [f \in Features |->
           [d \in Days |-> Of(d \in Source(t), Transforms(S, t)[f][d])]]
      /\ Transformed(R, u) = [f \in Features |->
           [d \in Days |-> Of(d \in Source(u), Transforms(R, u)[f][d])]]
  BY <1>1 DEF Transformed
<1>3. ASSUME NEW f \in Features
      PROVE  Local(Transformed(S, t)[f], Transformed(R, u)[f], t, D)
  <2>1. Local(Transforms(S, t)[f], Transforms(R, u)[f], t, D)
    BY TransformsLocal
  <2>2. \A d \in 1 .. D : d \in Days /\ (d \in Source(t) <=> d \in Source(u))
    BY AlikeRows, UptoDays DEF SameUpto
  <2> QED
    BY <1>2, <2>1, <2>2 DEF Local, Of
<1> QED
  BY <1>2, <1>3

-----------------------------------------------------------------------------
(* The view, one series at a time.                                         *)

\* A table of days for every series.
Tables(tables) ==
    /\ tables = [s \in Series |-> tables[s]]
    /\ \A s \in Series : Rows(tables[s]) \subseteq Days

\* What the view shows of a table, whatever the other tables hold.
SeriesValues(t) ==
    LET x == Transformed(Rows(t), t)
    IN  [f \in Features |-> [d \in Days |-> [e \in x[f][d] |-> t[e]]]]

\* The join shows of a series what its own table shows.
LEMMA ProjectedAlike ==
    ASSUME NEW tables, NEW group, NEW s \in group,
           \A u \in group : Rows(tables[u]) \subseteq Days
    PROVE  /\ Alike(Projected(tables, group, s), tables[s], LastDay)
           /\ Source(Projected(tables, group, s)) = Source(tables[s])
           /\ Source(tables[s]) \subseteq Rows(tables[s])
<1> DEFINE p == Projected(tables, group, s)
           t == tables[s]
<1>1. /\ Rows(p) = UNION {Rows(tables[u]) : u \in group}
      /\ \A e \in Rows(p) : p[e] = IF e \in Rows(t) THEN t[e] ELSE NullRow
  BY DEF Projected, Rows
<1>2. Rows(t) \subseteq Rows(p) /\ Rows(p) \subseteq Days
  BY <1>1
<1>3. NullRow.level = Null /\ ~NullRow.bar
  BY DEF NullRow
<1> HIDE DEF p, t
<1>4. Source(p) = Source(t) /\ Opens(p) = Opens(t)
  BY <1>1, <1>2, <1>3 DEF Source, Levels, Opens
<1>5. Source(t) \subseteq Rows(t) /\ Opens(t) \subseteq Rows(t)
  BY DEF Source, Levels, Opens
<1>6. Alike(p, t, LastDay)
  BY <1>1, <1>2, <1>4, <1>5 DEF Alike, Seen
<1> QED
  BY <1>4, <1>5, <1>6 DEF p, t

LEMMA LastDayIsDay ==
    LastDay \in Days /\ Days = 1 .. LastDay
BY TransformAssumption DEF Days

LEMMA PublishedBySeries ==
    ASSUME NEW tables, Tables(tables), NEW s \in Series
    PROVE  Published(tables).of[s] = SeriesValues(tables[s])
<1> DEFINE t == tables[s]
           p == Projected(tables, Group(s), s)
           x == Transformed(Rows(t), p)
           y == Transformed(Rows(t), t)
<1>1. s \in Group(s) /\ \A u \in Group(s) : Rows(tables[u]) \subseteq Days
  BY DEF Group, Tables
<1>2. Alike(p, t, LastDay)
  BY <1>1, ProjectedAlike
<1>3. SameUpto(Rows(t), Rows(t), LastDay)
  BY DEF SameUpto, Tables
<1>4. PublishedDays(tables, s) = x
  BY DEF PublishedDays, EmaRows
<1>5. Published(tables).of[s]
        = [f \in DOMAIN x |-> [d \in Days |-> [e \in x[f][d] |-> p[e]]]]
  BY <1>4 DEF Published, Values
<1>6. SeriesValues(t) = [f \in Features |-> [d \in Days |-> [e \in y[f][d] |-> t[e]]]]
  BY DEF SeriesValues
<1> HIDE DEF x, y, t, p
<1>7. DOMAIN x = Features /\ \A f \in Features : Local(x[f], y[f], p, LastDay)
  BY <1>2, <1>3, LastDayIsDay, TransformedLocal DEF x, y
<1>8. ASSUME NEW f \in Features, NEW d \in Days
      PROVE  [e \in x[f][d] |-> p[e]] = [e \in y[f][d] |-> t[e]]
  <2>1. /\ x[f][d] = y[f][d] /\ x[f][d] \subseteq Seen(p) /\ x[f][d] \subseteq 1 .. LastDay
    BY <1>7, LastDayIsDay, UptoDays DEF Local
  <2>2. \A e \in x[f][d] : p[e] = t[e]
    BY <1>2, <2>1 DEF Alike
  <2> QED
    BY <2>1, <2>2
<1> QED
  BY <1>5, <1>6, <1>7, <1>8 DEF t

-----------------------------------------------------------------------------
(* The inductive invariant.                                                *)

\* The view shows the tables of the last refresh, and unless rows were
\* written by hand since then these are the tables.
ViewInv ==
    /\ Tables(raw) /\ Tables(built)
    /\ view = Published(built)
    /\ ~byHand => built = raw

LEMMA ViewInvInit ==
    Init => ViewInv
<1> SUFFICES ASSUME Init PROVE Tables(raw)
  BY DEF Init, ViewInv
<1>1. raw = [s \in Series |-> raw[s]]
  BY DEF Init
<1>2. \A s \in Series : Rows(raw[s]) \subseteq Days
  BY ViewAssumption DEF Init, Rows
<1> QED
  BY <1>1, <1>2 DEF Tables

LEMMA AppliedTables ==
    ASSUME NEW tables, Tables(tables), NEW d \in Days, NEW rows
    PROVE  Tables(Applied(tables, d, rows))
<1>1. ASSUME NEW s \in Series
      PROVE  Rows(Applied(tables, d, rows)[s]) \subseteq Days
  <2>1. Rows(tables[s]) \subseteq Days
    BY DEF Tables
  <2>2. /\ Rows(With(tables[s], d, rows[s])) = Rows(tables[s]) \cup {d}
        /\ Rows(Without(tables[s], d)) = Rows(tables[s]) \ {d}
    BY DEF With, Without, Rows
  <2>3. Applied(tables, d, rows)[s]
          = IF s \in DOMAIN rows THEN With(tables[s], d, rows[s]) ELSE Without(tables[s], d)
    BY DEF Applied
  <2> QED
    BY <2>1, <2>2, <2>3
<1>2. Applied(tables, d, rows) = [s \in Series |-> Applied(tables, d, rows)[s]]
  BY DEF Applied
<1> QED
  BY <1>1, <1>2 DEF Tables

\* A step refreshes the view from tables that are the tables then, or leaves
\* the view and what it was built from alone.
Refreshes == \E tables : Tables(tables) /\ raw' = tables /\ Refreshed(tables)

LEMMA SyncRefreshes ==
    ASSUME ViewInv, Sync
    PROVE  Refreshes
<1>1. PICK d \in Touched, S \in SUBSET Series :
        \E rows \in [S -> UNION {Delivered(s) : s \in Series}] :
          raw' = Applied(raw, d, rows) /\ Refreshed(Applied(raw, d, rows))
  BY DEF Sync
<1>2. PICK rows : raw' = Applied(raw, d, rows) /\ Refreshed(Applied(raw, d, rows))
  BY <1>1
<1>3. Tables(Applied(raw, d, rows))
  BY AppliedTables, ViewAssumption DEF ViewInv
<1> QED
  BY <1>2, <1>3 DEF Refreshes

LEMMA StepKinds ==
    ASSUME ViewInv, [Next]_vars
    PROVE  Refreshes \/ UNCHANGED <<view, built>>
<1>1. ASSUME Sync PROVE Refreshes
  BY <1>1, SyncRefreshes
<1>2. ASSUME RefreshByHand PROVE Refreshes
  BY <1>2 DEF RefreshByHand, Refreshes, ViewInv
<1>3. ASSUME WriteByHand PROVE UNCHANGED <<view, built>>
  BY <1>3 DEF WriteByHand
<1>4. ASSUME Verify PROVE UNCHANGED <<view, built>>
  BY <1>4 DEF Verify
<1>5. ASSUME UNCHANGED vars PROVE UNCHANGED <<view, built>>
  BY <1>5 DEF vars
<1> QED
  BY <1>1, <1>2, <1>3, <1>4, <1>5 DEF Next

LEMMA ViewInvStep ==
    ViewInv /\ [Next]_vars => ViewInv'
<1> SUFFICES ASSUME ViewInv, [Next]_vars PROVE ViewInv'
  OBVIOUS
<1>1. ASSUME Refreshes PROVE ViewInv'
  BY <1>1 DEF Refreshes, Refreshed, ViewInv
<1>2. CASE Sync
  BY <1>1, <1>2, SyncRefreshes
<1>3. CASE WriteByHand
  <2>1. PICK s \in Series, d \in Touched :
          \/ raw' = [raw EXCEPT ![s] = Without(@, d)]
          \/ \E row \in Any(s) : raw' = [raw EXCEPT ![s] = With(@, d, row)]
    BY <1>3 DEF WriteByHand
  <2>2. PICK t : /\ raw' = [raw EXCEPT ![s] = t]
                 /\ Rows(t) \subseteq Rows(raw[s]) \cup {d}
    <3>1. Rows(Without(raw[s], d)) \subseteq Rows(raw[s]) \cup {d}
      BY DEF Rows, Without
    <3>2. \A row : Rows(With(raw[s], d, row)) \subseteq Rows(raw[s]) \cup {d}
      BY DEF Rows, With
    <3> QED
      BY <2>1, <3>1, <3>2
  <2>3. Rows(t) \subseteq Days
    BY <2>2, ViewAssumption DEF ViewInv, Tables
  <2>4. Tables(raw)'
    BY <2>2, <2>3 DEF ViewInv, Tables
  <2> QED
    BY <1>3, <2>4 DEF WriteByHand, ViewInv
<1>4. CASE RefreshByHand
  BY <1>1, <1>4 DEF RefreshByHand, Refreshes, ViewInv
<1>5. CASE Verify
  BY <1>5 DEF Verify, ViewInv
<1>6. CASE UNCHANGED vars
  BY <1>6 DEF vars, ViewInv
<1> QED
  BY <1>2, <1>3, <1>4, <1>5, <1>6 DEF Next

\* Whatever was written, by a sync or by hand, and whenever the view was
\* refreshed: it shows the tables of its last refresh, and those are the
\* current ones unless rows were written by hand since.
THEOREM ViewIsOfLastRefresh == Spec => []ViewInv
<1>1. Init => ViewInv
  BY ViewInvInit
<1>2. ViewInv /\ [Next]_vars => ViewInv'
  BY ViewInvStep
<1> QED
  BY <1>1, <1>2, PTL DEF Spec

-----------------------------------------------------------------------------
(* Independence and causality.                                             *)

\* In a refresh, the old and the new values of a series are of its old and
\* its new table.
LEMMA RefreshedValues ==
    ASSUME ViewInv, Refreshes, NEW s \in Series
    PROVE  /\ view.of[s] = SeriesValues(built[s])
           /\ view'.of[s] = SeriesValues(built'[s])
           /\ Rows(built[s]) \subseteq Days /\ Rows(built'[s]) \subseteq Days
<1>1. view.of[s] = SeriesValues(built[s])
  BY PublishedBySeries DEF ViewInv
<1>2. PICK tables : Tables(tables) /\ Refreshed(tables)
  BY DEF Refreshes
<1>3. view' = Published(tables) /\ built' = tables
  BY <1>2 DEF Refreshed
<1>4. view'.of[s] = SeriesValues(tables[s])
  BY <1>2, <1>3, PublishedBySeries
<1> QED
  BY <1>1, <1>2, <1>3, <1>4 DEF ViewInv, Tables

\* No date that only other series have alters the values of a series, though
\* the query of the primary series reads the join of all tables.
THEOREM SeriesAreIndependent == Spec => SeriesIndependent
<1>1. ASSUME ViewInv, [Next]_vars
      PROVE  [\A s \in Series : built'[s] = built[s] => view'.of[s] = view.of[s]]_vars
  <2>1. CASE UNCHANGED <<view, built>>
    BY <2>1
  <2>2. CASE Refreshes
    BY <1>1, <2>2, RefreshedValues
  <2> QED
    BY <1>1, <2>1, <2>2, StepKinds
<1> QED
  BY <1>1, ViewIsOfLastRefresh, PTL DEF Spec, SeriesIndependent

\* Tables that have the same rows up to a day show the same values there.
LEMMA ValuesCausal ==
    ASSUME NEW t, NEW u, Rows(t) \subseteq Days, Rows(u) \subseteq Days, NEW D \in Days,
           \A e \in 1 .. D : /\ e \in Rows(t) <=> e \in Rows(u)
                             /\ e \in Rows(t) => t[e] = u[e],
           NEW f \in Features
    PROVE  SeriesValues(t)[f][D] = SeriesValues(u)[f][D]
<1> DEFINE x == Transformed(Rows(t), t)
           y == Transformed(Rows(u), u)
<1>1. SameUpto(Rows(t), Rows(u), D)
  BY DEF SameUpto
<1>2. Alike(t, u, D)
  <2>1. /\ Seen(t) = {e \in Rows(t) : t[e].level # Null \/ t[e].bar}
        /\ Seen(u) = {e \in Rows(u) : u[e].level # Null \/ u[e].bar}
    BY DEF Seen, Source, Levels, Opens
  <2> QED
    BY <2>1 DEF Alike
<1>3. \A g \in Features : Local(x[g], y[g], t, D)
  BY <1>1, <1>2, TransformedLocal
<1>4. /\ SeriesValues(t)[f][D] = [e \in x[f][D] |-> t[e]]
      /\ SeriesValues(u)[f][D] = [e \in y[f][D] |-> u[e]]
  BY DEF SeriesValues
<1> HIDE DEF x, y
<1>5. /\ x[f][D] = y[f][D] /\ x[f][D] \subseteq Seen(t) /\ x[f][D] \subseteq 1 .. D
  BY <1>3, UptoDays DEF Local
<1>6. \A e \in x[f][D] : t[e] = u[e]
  BY <1>2, <1>5 DEF Alike
<1> QED
  BY <1>4, <1>5, <1>6

\* No value of a day depends on a later row: windows, lags, recurrences and
\* what is built of them only look back.
THEOREM ValuesAreCausal == Spec => Causal
<1>1. ASSUME ViewInv, [Next]_vars, NEW s \in Series, NEW d \in Days, NEW f \in Features,
             \A e \in 1 .. d : RowAt(built, s, e) = RowAt(built', s, e)
      PROVE  Value(view', s, f, d) = Value(view, s, f, d)
  <2>1. CASE UNCHANGED <<view, built>>
    BY <2>1 DEF Value
  <2>2. CASE Refreshes
    <3>1. /\ view.of[s] = SeriesValues(built[s])
          /\ view'.of[s] = SeriesValues(built'[s])
          /\ Rows(built[s]) \subseteq Days /\ Rows(built'[s]) \subseteq Days
      BY <1>1, <2>2, RefreshedValues
    <3>2. ASSUME NEW e \in 1 .. d
          PROVE  /\ e \in Rows(built[s]) <=> e \in Rows(built'[s])
                 /\ e \in Rows(built[s]) => built[s][e] = built'[s][e]
      <4>1. /\ RowAt(built, s, e) = IF e \in Rows(built[s]) THEN {<<e, built[s][e]>>} ELSE {}
            /\ RowAt(built', s, e) = IF e \in Rows(built'[s]) THEN {<<e, built'[s][e]>>} ELSE {}
        BY DEF RowAt
      <4>2. RowAt(built, s, e) = RowAt(built', s, e)
        BY <1>1
      <4>3. \A a, b : {<<e, a>>} = {<<e, b>>} => a = b
        <5> TAKE a, b
        <5>1. {<<e, a>>} = {<<e, b>>} => <<e, a>> = <<e, b>>
          BY Zenon
        <5> QED
          BY <5>1
      <4>4. \A a : {<<e, a>>} # {}
        OBVIOUS
      <4> QED
        BY <4>1, <4>2, <4>3, <4>4, Zenon
    <3>3. SeriesValues(built[s])[f][d] = SeriesValues(built'[s])[f][d]
      BY <3>1, <3>2, ValuesCausal
    <3> QED
      BY <3>1, <3>3 DEF Value
  <2> QED
    BY <1>1, <2>1, <2>2, StepKinds
<1>2. ASSUME ViewInv, [Next]_vars
      PROVE  [\A s \in Series, d \in Days :
                (\A e \in 1 .. d : RowAt(built, s, e) = RowAt(built', s, e)) =>
                   \A f \in Features : Value(view', s, f, d) = Value(view, s, f, d)]_vars
  BY <1>1, <1>2
<1> QED
  BY <1>2, ViewIsOfLastRefresh, PTL DEF Spec, Causal

-----------------------------------------------------------------------------
(* Verification.                                                           *)

\* With the view up to date and no explicit NULL in an extended table, the
\* recomputation of a series counts what the view holds.
LEMMA NoFalseAlarm ==
    ASSUME Tables(raw), view = Published(raw), NEW s \in Series,
           s \in Extended => Source(raw[s]) = Rows(raw[s])
    PROVE  Matches(s)
<1> DEFINE t == raw[s]
           p == Projected(raw, {s}, s)
           S == EmaRows(raw, s, s \in Primary)
           x == Transformed(S, p)
           y == Transformed(Rows(t), t)
<1>1. S = Rows(t)
  BY DEF EmaRows, Primary
<1>2. SameUpto(S, Rows(t), LastDay) /\ Alike(p, t, LastDay)
  BY <1>1, ProjectedAlike DEF SameUpto, Tables
<1>3. view.of[s] = SeriesValues(t)
  BY PublishedBySeries
<1>4. \A f \in Features, d \in Days : view.of[s][f][d] = [e \in y[f][d] |-> t[e]]
  BY <1>3 DEF SeriesValues
<1>5. ExpectedDays(s) = x
  BY DEF ExpectedDays
<1> HIDE DEF t, p, S, x, y
<1>6. DOMAIN x = Features /\ \A f \in Features : Local(x[f], y[f], p, LastDay)
  BY <1>2, LastDayIsDay, TransformedLocal DEF x, y
<1>7. ASSUME NEW f \in Features
      PROVE  Defined(x[f]) = {d \in Days : view.of[s][f][d] # <<>>}
  <2>1. ASSUME NEW d \in Days
        PROVE  x[f][d] # {} <=> view.of[s][f][d] # <<>>
    <3>1. x[f][d] = y[f][d]
      BY <1>6, LastDayIsDay DEF Local
    <3>2. view.of[s][f][d] = [e \in y[f][d] |-> t[e]]
      BY <1>4
    <3>3. DOMAIN <<>> = {} /\ [e \in {} |-> t[e]] = <<>>
      OBVIOUS
    <3>4. DOMAIN view.of[s][f][d] = y[f][d]
      BY <3>2
    <3> QED
      BY <3>1, <3>2, <3>3, <3>4
  <2> QED
    BY <2>1 DEF Defined
<1> QED
  BY <1>5, <1>6, <1>7 DEF Matches

\* Verification fails only when rows were written by hand and the view was
\* not refreshed since, or where an extended table holds an explicit NULL.
THEOREM AlarmsAreExplained == Spec => AlarmsExplained
<1>1. ASSUME ViewInv, [Next]_vars
      PROVE  [verdict' = "fail" =>
                \/ verdict = "fail"
                \/ byHand
                \/ \E s \in Extended : Source(raw[s]) # Rows(raw[s])]_vars
  <2>1. ASSUME Verify, ~byHand, \A s \in Extended : Source(raw[s]) = Rows(raw[s])
        PROVE  verdict' = "pass"
    <3>1. view = Published(raw) /\ Tables(raw)
      BY <1>1, <2>1 DEF ViewInv
    <3>2. \A s \in Series : Matches(s)
      BY <2>1, <3>1, NoFalseAlarm
    <3>3. DOMAIN view.ratio = RatioDays(raw)
      BY <3>1 DEF Published, Ratios
    <3> QED
      BY <2>1, <3>2, <3>3 DEF Verify
  <2>2. ASSUME Sync \/ WriteByHand \/ RefreshByHand \/ UNCHANGED vars
        PROVE  verdict' = verdict
    BY <2>2 DEF Sync, WriteByHand, RefreshByHand, vars
  <2>3. "pass" # "fail"
    OBVIOUS
  <2> QED
    BY <1>1, <2>1, <2>2, <2>3 DEF Next
<1> QED
  BY <1>1, ViewIsOfLastRefresh, PTL DEF Spec, AlarmsExplained

-----------------------------------------------------------------------------
(* Resets: counting in runs.                                               *)

\* The rows with fewer than n rows after them are n, if there are so many.
LEMMA LastRows ==
    ASSUME NEW B \in SUBSET Days, NEW n \in Nat \ {0},
           NEW F, F = {e \in B : Cardinality({f \in B : e < f}) < n}
    PROVE  /\ Cardinality(F) <= n
           /\ Cardinality(B) >= n => Cardinality(F) = n
<1> DEFINE After(e) == {f \in B : e < f}
<1>1. /\ B \subseteq Nat /\ F \subseteq B
      /\ IsFiniteSet(B) /\ Cardinality(B) \in Nat
      /\ IsFiniteSet(F) /\ Cardinality(F) \in Nat
  BY DaysFinite
<1>2. \A e : IsFiniteSet(After(e)) /\ Cardinality(After(e)) \in Nat
  <2> TAKE e
  <2>1. After(e) \in SUBSET Days
    OBVIOUS
  <2> HIDE DEF After
  <2> QED
    BY <2>1, DaysFinite
<1>3. Cardinality(F) <= n
  <2>1. CASE F = {}
    <3>1. Cardinality(F) = 0
      BY <2>1, FS_EmptySet
    <3> QED
      BY <3>1
  <2>2. CASE F # {}
    <3>1. PICK m \in F : \A e \in F : m <= e
      BY <1>1, <2>2, LeastDay
    <3>2. F \ {m} \subseteq After(m)
      <4>1. ASSUME NEW g \in F \ {m} PROVE g \in B /\ m < g
        <5>1. g \in Nat /\ m \in Nat /\ m <= g /\ g # m /\ g \in B
          BY <1>1, <3>1
        <5> QED
          BY <5>1
      <4> QED
        BY <4>1
    <3>3. Cardinality(After(m)) < n
      BY <3>1
    <3> HIDE DEF After
    <3>4. Cardinality(F \ {m}) <= Cardinality(After(m))
      BY <1>2, <3>2, FS_Subset
    <3>5. Cardinality(F \ {m}) = Cardinality(F) - 1
      BY <1>1, <3>1, FS_RemoveElement
    <3> QED
      BY <1>1, <1>2, <3>3, <3>4, <3>5
  <2> QED
    BY <2>1, <2>2
<1>4. ASSUME Cardinality(B) >= n
      PROVE  Cardinality(F) >= n
  <2>1. CASE B \ F = {}
    <3>1. F = B
      BY <1>1, <2>1
    <3> QED
      BY <1>4, <3>1
  <2>2. CASE B \ F # {}
    <3>1. B \ F \in SUBSET (0 .. LastDay)
      <4>1. Days \subseteq 0 .. LastDay
        BY TransformAssumption DEF Days
      <4> QED
        BY <4>1
    <3>2. PICK m \in B \ F : \A e \in B \ F : e <= m
      BY <2>2, <3>1, NewestDay, TransformAssumption
    <3>3. After(m) \subseteq F
      <4>1. ASSUME NEW g \in B, m < g PROVE g \in F
        <5>1. g \in Nat /\ m \in Nat /\ ~(g <= m)
          BY <1>1, <3>2, <4>1
        <5> QED
          BY <3>2, <5>1
      <4> QED
        BY <4>1
    <3>4. ~(Cardinality(After(m)) < n)
      BY <3>2
    <3> HIDE DEF After
    <3>5. Cardinality(After(m)) <= Cardinality(F)
      BY <1>1, <3>3, FS_Subset
    <3> QED
      BY <1>1, <1>2, <3>4, <3>5
  <2> QED
    BY <2>1, <2>2
<1> QED
  BY <1>1, <1>3, <1>4

\* A run is a suffix of the rows, and its parts are runs.
LEMMA RunParts ==
    ASSUME NEW S \in SUBSET Days, NEW valid, NEW d \in Days
    PROVE  /\ ValidRun(S, valid, d) \in SUBSET Days
           /\ ValidRun(S, valid, d) \subseteq S \cap valid
           /\ \A e \in ValidRun(S, valid, d) : e <= d
           /\ d \in S /\ ValidRun(S, valid, d) # {} => d \in ValidRun(S, valid, d)
           /\ \A e \in ValidRun(S, valid, d), g \in S :
                e <= g /\ g <= d => g \in ValidRun(S, valid, d)
           /\ \A e \in ValidRun(S, valid, d) :
                ValidRun(S, valid, e) = {g \in ValidRun(S, valid, d) : g <= e}
<1>1. S \subseteq Nat /\ d \in Nat
  BY DaysFinite DEF Days
<1>2. \A e, g, h \in S : e <= g /\ g <= h => e <= h
  BY <1>1
<1>3. \A e \in S : e <= e
  BY <1>1
<1>4. \A e, g \in S : e <= g \/ g <= e
  BY <1>1
<1>5. ASSUME NEW e \in ValidRun(S, valid, d)
      PROVE  ValidRun(S, valid, e) = {g \in ValidRun(S, valid, d) : g <= e}
  <2>0. e \in S /\ e <= d /\ \A g \in S : e <= g /\ g <= d => g \in valid
    BY DEF ValidRun
  <2>1. ASSUME NEW g \in ValidRun(S, valid, e)
        PROVE  g \in ValidRun(S, valid, d) /\ g <= e
    <3>1. g \in S /\ g <= e /\ \A h \in S : g <= h /\ h <= e => h \in valid
      BY <2>1 DEF ValidRun
    <3>2. g <= d
      BY <1>1, <2>0, <3>1
    <3>3. \A h \in S : g <= h /\ h <= d => h \in valid
      BY <1>4, <2>0, <3>1
    <3> QED
      BY <3>1, <3>2, <3>3 DEF ValidRun
  <2>2. ASSUME NEW g \in ValidRun(S, valid, d), g <= e
        PROVE  g \in ValidRun(S, valid, e)
    <3>1. \A h \in S : h <= e => h <= d
      BY <1>1, <2>0
    <3> QED
      BY <2>2, <3>1 DEF ValidRun
  <2> QED
    BY <2>1, <2>2
<1>6. ASSUME NEW e \in ValidRun(S, valid, d), NEW g \in S, e <= g, g <= d
      PROVE  g \in ValidRun(S, valid, d)
  <2>1. \A h \in S : g <= h => e <= h
    BY <1>1, <1>6 DEF ValidRun
  <2> QED
    BY <1>6, <2>1 DEF ValidRun
<1>7. ASSUME d \in S, ValidRun(S, valid, d) # {}
      PROVE  d \in ValidRun(S, valid, d)
  <2>1. PICK e \in ValidRun(S, valid, d) : TRUE
    BY <1>7
  <2>2. e <= d
    BY <2>1 DEF ValidRun
  <2> QED
    BY <1>3, <1>6, <1>7, <2>1, <2>2
<1>8. ValidRun(S, valid, d) \subseteq S \cap valid
  BY <1>3 DEF ValidRun
<1> QED
  BY <1>5, <1>6, <1>7, <1>8 DEF ValidRun

\* In a run of more than n rows, the n-th row before the last is of the run,
\* and its own run is n rows shorter.
LEMMA LagInRun ==
    ASSUME NEW S \in SUBSET Days, NEW valid, NEW d \in S, NEW n \in Nat \ {0},
           NEW A, S \cap valid \subseteq A, A \subseteq S,
           Cardinality(ValidRun(S, valid, d)) >= n + 1
    PROVE  /\ Lag(A, d, n) # 0
           /\ Lag(A, d, n) \in ValidRun(S, valid, d)
           /\ ValidRun(S, valid, Lag(A, d, n)) \subseteq ValidRun(S, valid, d)
           /\ Cardinality(ValidRun(S, valid, Lag(A, d, n)))
                = Cardinality(ValidRun(S, valid, d)) - n
<1> DEFINE R == ValidRun(S, valid, d)
           B == Before(A, d)
           Q == R \ {d}
           F == Frame(B, d, n)
<1>0. /\ S \subseteq Nat /\ d \in Nat /\ d \in Days
      /\ R \in SUBSET Days /\ R \subseteq S \cap valid /\ R \subseteq A
      /\ \A e \in R : e <= d
      /\ \A e \in R, g \in S : e <= g /\ g <= d => g \in R
      /\ R # {} => d \in R
      /\ \A e \in R : ValidRun(S, valid, e) = {g \in R : g <= e}
  BY RunParts, DaysFinite
<1>1. B = {e \in A : e < d}
  BY DEF Before
<1>2. R # {}
  BY FS_EmptySet
<1> HIDE DEF R, B
<1>3. F = {e \in B : Cardinality({f \in B : e < f}) < n}
  <2>1. \A e \in B : e <= d
    <3>1. \A e \in A : e \in Nat
      BY <1>0
    <3> QED
      BY <1>0, <1>1, <3>1
  <2> QED
    BY <2>1 DEF Frame
<1> HIDE DEF F
<1>4. /\ IsFiniteSet(R) /\ Cardinality(R) \in Nat
      /\ IsFiniteSet(Q) /\ Cardinality(Q) = Cardinality(R) - 1 /\ Q \in SUBSET Days
  BY <1>0, <1>2, DaysFinite, FS_RemoveElement
<1>5. B \in SUBSET Days /\ B \subseteq S /\ Q \subseteq B
  <2>1. \A e \in R : e \in Nat /\ e \in A /\ e <= d
    BY <1>0
  <2>2. \A e \in Q : e \in A /\ e < d
    BY <1>0, <2>1
  <2> QED
    BY <1>1, <2>2
<1>6. Cardinality(Q) >= n /\ Cardinality(Q) \in Nat
  <2>1. Cardinality(R) >= n + 1
    BY DEF R
  <2> QED
    BY <1>4, <2>1
<1>7. F \subseteq Q
  <2> SUFFICES ASSUME NEW x \in F, x \notin Q PROVE FALSE
    OBVIOUS
  <2>1. x \in B /\ Cardinality({f \in B : x < f}) < n
    BY <1>3
  <2>2. Q \subseteq {f \in B : x < f}
    <3>1. ASSUME NEW q \in Q PROVE x < q
      <4>1. x \in S /\ x < d /\ x # q /\ q \in R
        BY <1>1, <1>5, <2>1
      <4>2. ~(q <= x)
        BY <1>0, <4>1
      <4> QED
        BY <1>0, <1>4, <4>1, <4>2
    <3> QED
      BY <1>5, <3>1
  <2>3. {f \in B : x < f} \in SUBSET Days
    BY <1>5
  <2>4. Cardinality(Q) <= Cardinality({f \in B : x < f})
    BY <2>2, <2>3, DaysFinite, FS_Subset
  <2>5. Cardinality({f \in B : x < f}) \in Nat
    BY <2>3, DaysFinite
  <2> QED
    BY <1>6, <2>1, <2>4, <2>5
<1>8. Cardinality(F) = n
  <2>1. Cardinality(Q) <= Cardinality(B) /\ Cardinality(B) \in Nat
    BY <1>5, DaysFinite, FS_Subset
  <2>2. Cardinality(B) >= n
    BY <1>6, <2>1
  <2> QED
    BY <1>3, <1>5, <2>2, LastRows
<1> DEFINE e == Lag(A, d, n)
<1>9. e = Min(F) /\ e \in F /\ \A g \in F : e <= g
  <2>1. e = Min(F)
    BY <1>8 DEF Lag, F, B
  <2>2. F # {} /\ F \in SUBSET Nat
    BY <1>4, <1>7, <1>8, FS_EmptySet, DaysFinite
  <2> QED
    BY <2>1, <2>2, LeastDay
<1> HIDE DEF e
<1>10. e \in R /\ e # 0 /\ e < d
  <2>1. e \in Q /\ e \in B
    BY <1>3, <1>7, <1>9
  <2> QED
    BY <1>1, <1>5, <2>1, TransformAssumption DEF Days
<1> DEFINE P == ValidRun(S, valid, e)
<1>11. P = {g \in R : g <= e}
  BY <1>0, <1>10
<1>12. P \cup F \cup {d} = R /\ P \cap (F \ {e}) = {} /\ d \notin P /\ d \notin F
  <2>1. R \subseteq Nat /\ F \subseteq R /\ e \in Nat
    BY <1>0, <1>4, <1>7, <1>10, DaysFinite
  <2>2. ASSUME NEW g \in R, g # d, ~(g <= e)
        PROVE  g \in F
    <3>1. g \in B /\ e \in B /\ e < g
      BY <1>5, <1>9, <1>3, <2>1, <2>2
    <3>2. {f \in B : g < f} \subseteq {f \in B : e < f}
      <4>1. B \subseteq Nat
        BY <1>5, DaysFinite
      <4>2. \A f \in B : g < f => e < f
        BY <3>1, <4>1
      <4> QED
        BY <4>2
    <3>3. {f \in B : e < f} \in SUBSET Days /\ {f \in B : g < f} \in SUBSET Days
      BY <1>5
    <3>4. Cardinality({f \in B : g < f}) <= Cardinality({f \in B : e < f})
      BY <3>2, <3>3, DaysFinite, FS_Subset
    <3>5. Cardinality({f \in B : e < f}) < n
      BY <1>3, <1>9
    <3>6. Cardinality({f \in B : g < f}) \in Nat /\ Cardinality({f \in B : e < f}) \in Nat
      BY <3>3, DaysFinite
    <3>7. Cardinality({f \in B : g < f}) < n
      BY <3>4, <3>5, <3>6
    <3> QED
      BY <1>3, <3>1, <3>7
  <2>3. \A g \in F \ {e} : ~(g <= e)
    BY <1>9, <2>1
  <2>4. d \notin F /\ ~(d <= e)
    BY <1>0, <1>7, <1>10, <2>1
  <2>5. d \in R
    BY <1>0, <1>2 DEF R
  <2> QED
    BY <1>10, <1>11, <2>1, <2>2, <2>3, <2>4, <2>5
<1>13. Cardinality(P) = Cardinality(R) - n
  <2> DEFINE T == (F \ {e}) \cup {d}
  <2>1. P \cup T = R /\ P \cap T = {}
    <3>1. e \in P
      BY <1>10, <1>11, <1>0
    <3> QED
      BY <1>12, <3>1
  <2>2. P \in SUBSET Days /\ F \in SUBSET Days
    BY <1>0, <1>4, <1>7, <1>11
  <2>3. Cardinality(F \ {e}) = n - 1 /\ IsFiniteSet(F \ {e})
    BY <1>8, <1>9, <2>2, DaysFinite, FS_RemoveElement
  <2>4. IsFiniteSet(T) /\ Cardinality(T) = (n - 1) + 1
    <3>1. d \notin F \ {e}
      BY <1>12
    <3> QED
      BY <2>3, <3>1, FS_AddElement
  <2>5. IsFiniteSet(P) /\ Cardinality(P) \in Nat
    BY <2>2, DaysFinite
  <2> HIDE DEF T, P
  <2>6. Cardinality(P \cup T) = Cardinality(P) + Cardinality(T) - Cardinality(P \cap T)
    BY <2>4, <2>5, FS_Union
  <2>7. Cardinality(P \cap T) = 0
    BY <2>1, FS_EmptySet
  <2>8. Cardinality(P \cup T) = Cardinality(R)
    BY <2>1
  <2>9. Cardinality(T) = n
    BY <2>4
  <2> QED
    BY <2>5, <2>6, <2>7, <2>8, <2>9
<1>14. P \subseteq R
  BY <1>11
<1> QED
  BY <1>10, <1>13, <1>14 DEF e, R

\* A transformation that has a value where the run is long enough, of the run.
OfRuns(x, S, valid, n) ==
    \A d \in Days :
        x[d] = IF d \in S /\ Cardinality(ValidRun(S, valid, d)) >= n
               THEN ValidRun(S, valid, d) ELSE {}

\* A slope or delta needs its lag in addition, and sees no more than the run.
LEMMA DifferenceOfRuns ==
    ASSUME NEW S \in SUBSET Days, NEW valid, NEW A, S \cap valid \subseteq A, A \subseteq S,
           NEW n \in Nat \ {0}, NEW k \in Nat \ {0}, k < n,
           NEW x, OfRuns(x, S, valid, n)
    PROVE  OfRuns(Difference(x, A, k), S, valid, n + k)
<1> SUFFICES ASSUME NEW d \in Days
             PROVE  Difference(x, A, k)[d]
                      = IF d \in S /\ Cardinality(ValidRun(S, valid, d)) >= n + k
                        THEN ValidRun(S, valid, d) ELSE {}
  BY DEF OfRuns
<1> DEFINE R == ValidRun(S, valid, d)
           e == Lag(A, d, k)
           P == ValidRun(S, valid, e)
<1>1. /\ R \in SUBSET Days /\ R \subseteq S \cap valid /\ Cardinality(R) \in Nat
      /\ d \in S /\ R # {} => d \in R
  BY RunParts, DaysFinite
<1>2. Difference(x, A, k)[d]
        = Of(d \in A /\ x[d] # {} /\ e # 0 /\ x[e] # {},
             x[d] \cup (IF e = 0 THEN {} ELSE x[e]))
  BY DEF Difference
<1>3. x[d] = IF d \in S /\ Cardinality(R) >= n THEN R ELSE {}
  BY DEF OfRuns
<1>4. CASE d \notin S \/ ~(Cardinality(R) >= n)
  <2>1. x[d] = {} /\ ~(d \in S /\ Cardinality(R) >= n + k)
    BY <1>1, <1>3, <1>4
  <2> QED
    BY <1>2, <2>1 DEF Of
<1>5. CASE d \in S /\ Cardinality(R) >= n
  <2>1. Cardinality(R) >= k + 1 /\ x[d] = R
    BY <1>1, <1>3, <1>5
  <2>2. e # 0 /\ e \in R /\ P \subseteq R /\ Cardinality(P) = Cardinality(R) - k
    BY <1>5, <2>1, LagInRun
  <2>3. R # {} /\ d \in A /\ e \in S /\ e \in Days
    BY <1>1, <1>5, <2>2
  <2>4. x[e] = IF Cardinality(P) >= n THEN P ELSE {}
    BY <2>3 DEF OfRuns
  <2> HIDE DEF R, e, P
  <2>5. CASE Cardinality(R) >= n + k
    <3>1. Cardinality(P) >= n /\ ~(Cardinality(P) = 0)
      BY <1>1, <2>2, <2>5
    <3>2. x[e] = P /\ P # {}
      BY <2>4, <3>1, FS_EmptySet
    <3> QED
      BY <1>2, <1>5, <2>1, <2>2, <2>3, <2>5, <3>2 DEF Of, R
  <2>6. CASE ~(Cardinality(R) >= n + k)
    <3>1. ~(Cardinality(P) >= n)
      BY <1>1, <2>2, <2>6
    <3> QED
      BY <1>2, <2>4, <2>6, <3>1 DEF Of, R
  <2> QED
    BY <2>5, <2>6
<1> QED
  BY <1>4, <1>5

\* The rows of a run at which its own length has reached n.
LEMMA LongEnough ==
    ASSUME NEW S \in SUBSET Days, NEW valid, NEW d \in Days, NEW n \in Nat \ {0},
           Cardinality(ValidRun(S, valid, d)) >= n
    PROVE  Cardinality({e \in ValidRun(S, valid, d) :
                          Cardinality(ValidRun(S, valid, e)) >= n})
             = Cardinality(ValidRun(S, valid, d)) - n + 1
<1> DEFINE R == ValidRun(S, valid, d)
           m == Cardinality(R) - n + 1
           F == {e \in R : Cardinality({f \in R : e < f}) < m}
<1>1. /\ R \in SUBSET Days /\ IsFiniteSet(R) /\ Cardinality(R) \in Nat /\ R \subseteq Nat
      /\ \A e \in R : ValidRun(S, valid, e) = {g \in R : g <= e}
  BY RunParts, DaysFinite
<1>2. m \in Nat \ {0} /\ Cardinality(R) >= m
  <2>1. Cardinality(R) >= n
    OBVIOUS
  <2> HIDE DEF R
  <2> QED
    BY <1>1, <2>1
<1> HIDE DEF R
<1>3. ASSUME NEW e \in R
      PROVE  Cardinality({f \in R : e < f}) < m
               <=> Cardinality(ValidRun(S, valid, e)) >= n
  <2> DEFINE P == {g \in R : g <= e}
             Q == {f \in R : e < f}
  <2>1. P \cup Q = R /\ P \cap Q = {}
    <3>1. \A g \in R : (g <= e \/ e < g) /\ ~(g <= e /\ e < g)
      BY <1>1
    <3> QED
      BY <3>1
  <2>2. P \in SUBSET Days /\ Q \in SUBSET Days
    BY <1>1
  <2> HIDE DEF P, Q
  <2>3. /\ IsFiniteSet(P) /\ Cardinality(P) \in Nat
        /\ IsFiniteSet(Q) /\ Cardinality(Q) \in Nat
    BY <2>2, DaysFinite
  <2>4. Cardinality(P \cup Q) = Cardinality(P) + Cardinality(Q) - Cardinality(P \cap Q)
    BY <2>3, FS_Union
  <2>5. Cardinality(P \cap Q) = 0 /\ Cardinality(P \cup Q) = Cardinality(R)
    BY <2>1, FS_EmptySet
  <2>6. Cardinality(Q) < m <=> Cardinality(P) >= n
    BY <1>1, <2>3, <2>4, <2>5
  <2> QED
    BY <1>1, <2>6 DEF P, Q
<1>4. {e \in R : Cardinality(ValidRun(S, valid, e)) >= n} = F
  BY <1>3
<1>5. Cardinality(F) = m
  <2> HIDE DEF m
  <2> QED
    BY <1>1, <1>2, LastRows
<1> QED
  BY <1>4, <1>5 DEF R

\* An average over the values of a recurrence: its own seed in addition to
\* the first one, less the row on which both meet.
LEMMA SmoothedOfRuns ==
    ASSUME NEW S \in SUBSET Days, NEW valid, NEW n \in Nat \ {0}, NEW k \in Nat \ {0},
           NEW x, OfRuns(x, S, valid, n),
           NEW y, \A d \in Days : LET a == Smoothed(S, Defined(x), k)[d]
                                  IN  y[d] = Of(a # {}, Basis(x, a \cup {d}))
    PROVE  OfRuns(y, S, valid, n + k - 1)
<1> SUFFICES ASSUME NEW d \in Days
             PROVE  y[d] = IF d \in S /\ Cardinality(ValidRun(S, valid, d)) >= n + k - 1
                           THEN ValidRun(S, valid, d) ELSE {}
  BY DEF OfRuns
<1> DEFINE R == ValidRun(S, valid, d)
           Q == ValidRun(S, Defined(x), d)
           F == {e \in R : Cardinality(ValidRun(S, valid, e)) >= n}
           a == Smoothed(S, Defined(x), k)[d]
<1>1. /\ R \in SUBSET Days /\ R \subseteq S \cap valid /\ Cardinality(R) \in Nat
      /\ \A e \in R : e <= d
      /\ \A e \in R, g \in S : e <= g /\ g <= d => g \in R
      /\ d \in S /\ R # {} => d \in R
      /\ \A e \in R : ValidRun(S, valid, e) = {g \in R : g <= e}
  BY RunParts, DaysFinite
<1>2. S \subseteq Nat /\ R \subseteq Nat /\ d \in Nat
  BY <1>1, DaysFinite DEF Days
<1>3. a = IF d \in S /\ Cardinality(Q) >= k THEN Q ELSE {}
  BY SmoothedIsRun
<1>4. \A e \in S : e \in Defined(x) <=> Cardinality(ValidRun(S, valid, e)) >= n
  <2> TAKE e \in S
  <2>1. x[e] = IF Cardinality(ValidRun(S, valid, e)) >= n THEN ValidRun(S, valid, e) ELSE {}
    BY DEF OfRuns
  <2>2. Cardinality(ValidRun(S, valid, e)) >= n => ValidRun(S, valid, e) # {}
    <3>1. Cardinality({}) = 0 /\ ~(0 >= n)
      BY FS_EmptySet
    <3> QED
      BY <3>1
  <2> QED
    BY <2>1, <2>2 DEF Defined
<1>5. Q = IF d \in S THEN F ELSE Q
  <2> SUFFICES ASSUME d \in S PROVE Q = F
    OBVIOUS
  <2>1. ASSUME NEW e \in Q PROVE e \in F
    <3>1. e \in S /\ e <= d /\ \A g \in S : e <= g /\ g <= d => g \in Defined(x)
      BY <2>1 DEF ValidRun
    <3>2. \A g \in S : e <= g /\ g <= d => g \in valid
      <4> TAKE g \in S
      <4> HAVE e <= g /\ g <= d
      <4>1. Cardinality(ValidRun(S, valid, g)) >= n
        BY <1>4, <3>1
      <4>2. ValidRun(S, valid, g) # {}
        BY <4>1, FS_EmptySet
      <4>3. g \in ValidRun(S, valid, g) /\ ValidRun(S, valid, g) \subseteq S \cap valid
        BY <4>2, RunParts
      <4> QED
        BY <4>3
    <3>3. e \in R
      BY <3>1, <3>2 DEF ValidRun
    <3>4. e \in Defined(x)
      BY <1>2, <3>1
    <3> QED
      BY <1>4, <3>1, <3>3, <3>4
  <2>2. ASSUME NEW e \in F PROVE e \in Q
    <3>1. e \in R /\ e \in S /\ e <= d /\ Cardinality(ValidRun(S, valid, e)) >= n
      BY <1>1, <2>2
    <3>2. ASSUME NEW g \in S, e <= g, g <= d
          PROVE  g \in Defined(x)
      <4>1. g \in R
        BY <1>1, <3>1, <3>2
      <4>2. /\ ValidRun(S, valid, e) = {h \in R : h <= e}
            /\ ValidRun(S, valid, g) = {h \in R : h <= g}
        BY <1>1, <3>1, <4>1
      <4> HIDE DEF R
      <4>3. \A h \in R : h <= e => h <= g
        <5> TAKE h \in R
        <5>1. h \in Nat /\ e \in Nat /\ g \in Nat /\ e <= g
          BY <1>2, <3>1, <3>2
        <5> QED
          BY <5>1
      <4>4. ValidRun(S, valid, e) \subseteq ValidRun(S, valid, g)
        BY <4>2, <4>3
      <4>5. ValidRun(S, valid, e) \in SUBSET Days /\ ValidRun(S, valid, g) \in SUBSET Days
        BY <1>1, <4>2
      <4>6. /\ Cardinality(ValidRun(S, valid, e)) <= Cardinality(ValidRun(S, valid, g))
            /\ Cardinality(ValidRun(S, valid, e)) \in Nat
            /\ Cardinality(ValidRun(S, valid, g)) \in Nat
        BY <4>4, <4>5, DaysFinite, FS_Subset
      <4>7. Cardinality(ValidRun(S, valid, g)) >= n
        BY <3>1, <4>6
      <4> QED
        BY <1>4, <4>7
    <3> QED
      BY <3>1, <3>2 DEF ValidRun
  <2> QED
    BY <2>1, <2>2
<1>6. y[d] = Of(a # {}, Basis(x, a \cup {d}))
  OBVIOUS
<1> HIDE DEF a, Q
<1>7. CASE d \in S /\ Cardinality(R) >= n + k - 1
  <2>1. Cardinality(R) >= n /\ Cardinality(R) - n + 1 >= k
    BY <1>1, <1>7
  <2>2. Cardinality(F) = Cardinality(R) - n + 1
    BY <2>1, LongEnough
  <2> HIDE DEF R, F
  <2>3. a = F /\ F # {}
    <3>1. Cardinality(F) >= k /\ Cardinality(F) # 0
      BY <1>1, <2>1, <2>2
    <3> QED
      BY <1>3, <1>5, <1>7, <3>1, FS_EmptySet
  <2>4. d \in R /\ F \subseteq R
    BY <1>1, <1>7, <2>3 DEF F
  <2>5. \A e \in R : x[e] \subseteq R
    <3> TAKE e \in R
    <3>1. e \in Days /\ ValidRun(S, valid, e) \subseteq R
      BY <1>1
    <3> QED
      BY <3>1 DEF OfRuns
  <2>6. x[d] = R
    BY <1>7, <2>1 DEF OfRuns, R
  <2>7. Basis(x, a \cup {d}) = R
    BY <2>3, <2>4, <2>5, <2>6 DEF Basis
  <2> QED
    BY <1>6, <1>7, <2>3, <2>7 DEF Of, R
<1>8. CASE ~(d \in S /\ Cardinality(R) >= n + k - 1)
  <2>1. a = {}
    <3>1. CASE d \notin S
      BY <1>3, <3>1
    <3>2. CASE d \in S
      <4>1. CASE Cardinality(R) >= n
        <5>1. Cardinality(F) = Cardinality(R) - n + 1
          BY <4>1, LongEnough
        <5> HIDE DEF R, F
        <5>2. ~(Cardinality(F) >= k)
          BY <1>1, <1>8, <3>2, <5>1
        <5> QED
          BY <1>3, <1>5, <3>2, <5>2
      <4>2. CASE ~(Cardinality(R) >= n)
        <5>1. F = {}
          <6> SUFFICES ASSUME NEW e \in F PROVE FALSE
            OBVIOUS
          <6>1. /\ ValidRun(S, valid, e) \subseteq R
                /\ Cardinality(ValidRun(S, valid, e)) >= n
            BY <1>1
          <6>2. R \in SUBSET Days /\ ValidRun(S, valid, e) \in SUBSET Days
            BY <1>1, <6>1
          <6> HIDE DEF R, F
          <6>3. /\ Cardinality(ValidRun(S, valid, e)) <= Cardinality(R)
                /\ Cardinality(ValidRun(S, valid, e)) \in Nat
            BY <6>1, <6>2, DaysFinite, FS_Subset
          <6> QED
            BY <1>1, <4>2, <6>1, <6>3
        <5> HIDE DEF F, R
        <5> QED
          BY <1>3, <1>5, <5>1
      <4> QED
        BY <4>1, <4>2
    <3> QED
      BY <3>1, <3>2
  <2> QED
    BY <1>6, <1>8, <2>1 DEF Of
<1> QED
  BY <1>7, <1>8

\* The six recurrences over the rows of a table.
LEMMA RecurrencesOfRuns ==
    ASSUME NEW t, Rows(t) \subseteq Days, NEW f \in DOMAIN RunLength
    PROVE  /\ f \in Features
           /\ OfRuns(Transforms(Rows(t), t)[f], Rows(t), Positive(t), RunLength[f])
<1> DEFINE S == Rows(t)
           V == Positive(t)
<1>1. /\ S \in SUBSET Days /\ V \subseteq Source(t) /\ Source(t) \subseteq S
      /\ S \cap V \subseteq Source(t) /\ S \cap V \subseteq S /\ S \subseteq S
  BY DEF Positive, Source, Levels
<1>2. ASSUME NEW n \in Nat \ {0}
      PROVE  OfRuns(Ema(S, t, n), S, V, n)
  <2>1. ASSUME NEW d \in Days
        PROVE  ValidRun(S, S \cap V, d) = ValidRun(S, V, d)
    BY DEF ValidRun
  <2>2. \A d \in Days : Smoothed(S, S \cap V, n)[d]
             = IF d \in S /\ Cardinality(ValidRun(S, S \cap V, d)) >= n
               THEN ValidRun(S, S \cap V, d) ELSE {}
    BY SmoothedIsRun
  <2> QED
    BY <2>1, <2>2 DEF OfRuns, Ema
<1>3. ASSUME NEW x, NEW y, NEW m \in Nat \ {0}, NEW n \in Nat \ {0}, m < n,
             OfRuns(x, S, V, m), OfRuns(y, S, V, n)
      PROVE  OfRuns(Both(x, y), S, V, n)
  <2> SUFFICES ASSUME NEW d \in Days
               PROVE  Both(x, y)[d]
                        = IF d \in S /\ Cardinality(ValidRun(S, V, d)) >= n
                          THEN ValidRun(S, V, d) ELSE {}
    BY DEF OfRuns
  <2> DEFINE R == ValidRun(S, V, d)
  <2>1. Both(x, y)[d] = Of(x[d] # {} /\ y[d] # {}, x[d] \cup y[d])
    BY DEF Both
  <2>2. /\ x[d] = IF d \in S /\ Cardinality(R) >= m THEN R ELSE {}
        /\ y[d] = IF d \in S /\ Cardinality(R) >= n THEN R ELSE {}
    BY <1>3 DEF OfRuns
  <2>3. Cardinality(R) \in Nat
    BY RunParts, DaysFinite, <1>1
  <2> HIDE DEF R, S, V
  <2>4. Cardinality(R) >= n => Cardinality(R) >= m
    BY <1>3, <2>3
  <2> QED
    BY <2>1, <2>2, <2>4 DEF Of, R
<1>4. /\ Fast < Slow /\ Far < Slow /\ 1 < Fast /\ Far < Slow + Signal - 1
      /\ Fast + 1 \in Nat \ {0} /\ Slow + 1 \in Nat \ {0} /\ Fast + 1 < Slow + 1
      /\ Slow + Signal - 1 \in Nat \ {0} /\ 1 < Slow
  BY TransformAssumption
<1>5. OfRuns(Ema(S, t, Slow), S, V, Slow) /\ OfRuns(Ema(S, t, Fast), S, V, Fast)
  BY <1>2, Parameters
<1>6. OfRuns(Difference(Ema(S, t, Slow), Source(t), Far), S, V, Slow + Far)
  BY <1>1, <1>4, <1>5, DifferenceOfRuns, Parameters
<1>7. OfRuns(EmaCross(S, t), S, V, Slow + 1)
  <2>1. /\ OfRuns(Difference(Ema(S, t, Fast), Source(t), 1), S, V, Fast + 1)
        /\ OfRuns(Difference(Ema(S, t, Slow), Source(t), 1), S, V, Slow + 1)
    BY <1>1, <1>4, <1>5, DifferenceOfRuns, Parameters
  <2>2. EmaCross(S, t) = Both(Difference(Ema(S, t, Fast), Source(t), 1),
                              Difference(Ema(S, t, Slow), Source(t), 1))
    BY DEF EmaCross, Both
  <2> QED
    BY <1>3, <1>4, <2>1, <2>2
<1>8. OfRuns(MacdLine(S, t), S, V, Slow)
  <2>1. MacdLine(S, t) = Both(Ema(S, t, Fast), Ema(S, t, Slow))
    BY DEF MacdLine, Both
  <2> QED
    BY <1>3, <1>4, <1>5, <2>1, Parameters
<1>9. OfRuns(MacdHistogram(S, t), S, V, Slow + Signal - 1)
  <2>1. \A d \in Days :
          LET a == Smoothed(S, Defined(MacdLine(S, t)), Signal)[d]
          IN  MacdHistogram(S, t)[d] = Of(a # {}, Basis(MacdLine(S, t), a \cup {d}))
    BY DEF MacdHistogram
  <2> QED
    BY <1>1, <1>8, <2>1, SmoothedOfRuns, Parameters
<1>10. OfRuns(Difference(MacdHistogram(S, t), S, Far), S, V, Slow + Signal - 1 + Far)
  BY <1>1, <1>4, <1>9, DifferenceOfRuns, Parameters
<1> QED
  BY <1>5, <1>6, <1>7, <1>8, <1>9, <1>10 DEF RunLength, Features, Transforms

\* A recurrence has a value exactly where the run of positive rows is long
\* enough; the value is of the whole run, and of nothing before the last
\* reset, be it an explicit NULL or a level that is not positive.
THEOREM ResetsByNull == Spec => []ResetByNull
<1>1. ASSUME ViewInv, NEW s \in Series, NEW d \in Days, NEW f \in DOMAIN RunLength
      PROVE  DOMAIN Value(view, s, f, d)
               = IF d \in Rows(built[s]) /\ Cardinality(Run(built[s], d)) >= RunLength[f]
                 THEN Run(built[s], d) ELSE {}
  <2> DEFINE t == built[s]
             R == Run(t, d)
             x == Transforms(Rows(t), t)[f]
  <2>1. Rows(t) \in SUBSET Days
    BY <1>1 DEF ViewInv, Tables
  <2>2. f \in Features /\ OfRuns(x, Rows(t), Positive(t), RunLength[f])
    BY <2>1, RecurrencesOfRuns
  <2>3. Run(t, d) = ValidRun(Rows(t), Positive(t), d)
    BY DEF Run, ValidRun
  <2>4. x[d] = IF d \in Rows(t) /\ Cardinality(R) >= RunLength[f] THEN R ELSE {}
    BY <2>2, <2>3 DEF OfRuns
  <2>5. Transformed(Rows(t), t)[f][d] = Of(d \in Source(t), x[d])
    <3>1. DOMAIN Transforms(Rows(t), t) = Features
      BY DEF Transforms, Features
    <3> QED
      BY <2>2, <3>1 DEF Transformed
  <2>6. view.of[s] = SeriesValues(t)
    BY <1>1, PublishedBySeries DEF ViewInv
  <2>7. Value(view, s, f, d) = [e \in Transformed(Rows(t), t)[f][d] |-> t[e]]
    BY <2>2, <2>6 DEF Value, SeriesValues
  <2>8. ASSUME d \in Rows(t), R # {}
        PROVE  d \in Source(t)
    <3>1. d \in R /\ R \subseteq Positive(t)
      BY <2>1, <2>3, <2>8, RunParts
    <3> QED
      BY <3>1 DEF Positive
  <2> HIDE DEF t, R, x
  <2>9. DOMAIN Value(view, s, f, d) = Of(d \in Source(t), x[d])
    BY <2>5, <2>7
  <2>10. DOMAIN Value(view, s, f, d) = x[d]
    BY <2>4, <2>8, <2>9 DEF Of
  <2> QED
    BY <2>4, <2>10 DEF R, t
<1>2. ViewInv => ResetByNull
  BY <1>1 DEF ResetByNull
<1> QED
  BY <1>2, ViewIsOfLastRefresh, PTL

=============================================================================
