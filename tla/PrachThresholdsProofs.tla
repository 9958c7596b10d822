------------------------ MODULE PrachThresholdsProofs ------------------------
(***************************************************************************)
(* Proofs about PrachThresholds, for any false-alarm rates, any target and *)
(* any grid of thresholds: no search loses the threshold that it looks     *)
(* for, one that is given up has narrowed it down, and every step of a     *)
(* call brings it nearer to its end. And for any number of configurations  *)
(* and cyclic shifts: a table that calls extend, however they are          *)
(* interrupted, is the beginning of what one call would write.             *)
(*                                                                         *)
(* The argument about searches is arithmetic. The last threshold is always *)
(* within the bracket, because a weighted mean is and rounding keeps it    *)
(* there; the bracket then only shrinks. After an iteration one of its     *)
(* ends is the last threshold, so that the move to the centre is from an   *)
(* end.                                                                    *)
(***************************************************************************)
EXTENDS PrachThresholds, TLAPS, FiniteSetTheorems, WellFoundedInduction

Values == [num : Int, den : Nat \ {0}]

\* A search: the bracket is in order and holds the last threshold; the value at its
\* lower end is positive, that at its upper end is not.
IsSearch(s) ==
    /\ s \in [lower : Int, upper : Int, Flower : Values, Fupper : Values, oldF : Int,
              th : Int, pfa : Int, bootstrap : BOOLEAN]
    /\ s.lower <= s.th /\ s.th <= s.upper
    /\ s.Flower.num > 0 /\ s.Fupper.num <= 0

\* The rate last seen is that of the last threshold.
CurveOK ==
    /\ DOMAIN curve \subseteq Int /\ \A t \in DOMAIN curve : curve[t] \in Int
    /\ search.th \in DOMAIN curve => curve[search.th] = search.pfa

\* The inductive invariant.
Inv == IsSearch(search) /\ CurveOK /\ BracketHoldsTarget /\ NarrowsDown

-----------------------------------------------------------------------------
(***************************************************************************)
(* Arithmetic.                                                             *)
(***************************************************************************)
LEMMA Products ==
    ASSUME NEW b \in Nat, NEW x \in Int, NEW y \in Int, x <= y
    PROVE  b * x <= b * y
PROOF
<1>1. b * (y - x) >= 0
  OBVIOUS
<1>2. b * (y - x) = b * y - b * x
  OBVIOUS
<1>3. b * x \in Int /\ b * y \in Int
  OBVIOUS
<1> QED BY <1>1, <1>2, <1>3

\* Rounding a mean of lower and upper with weights that are not negative stays between.
LEMMA RoundedMean ==
    ASSUME NEW lower \in Int, NEW upper \in Int, lower <= upper,
           NEW up \in Nat, NEW low \in Nat, up + low > 0
    PROVE  /\ Round(lower * up + upper * low, up + low) \in Int
           /\ lower <= Round(lower * up + upper * low, up + low)
           /\ Round(lower * up + upper * low, up + low) <= upper
PROOF
<1> DEFINE n == lower * up + upper * low
           d == up + low
           q == (2 * n + d) \div (2 * d)
<1>1. n \in Int /\ d \in Nat \ {0}
  OBVIOUS
<1>2. d * lower <= n
  <2>1. low * lower <= low * upper
    BY Products
  <2>2. d * lower = up * lower + low * lower
    OBVIOUS
  <2> QED BY <2>1, <2>2
<1>3. n <= d * upper
  <2>1. up * lower <= up * upper
    BY Products
  <2>2. d * upper = up * upper + low * upper
    OBVIOUS
  <2> QED BY <2>1, <2>2
<1> HIDE DEF n, d
<1>4. q \in Int /\ (2 * d) * q <= 2 * n + d /\ 2 * n + d < (2 * d) * q + 2 * d
  BY <1>1
<1> HIDE DEF q
<1>5. lower <= q
  <2> SUFFICES ASSUME q + 1 <= lower PROVE FALSE
    BY <1>4
  <2>1. d * (q + 1) <= d * lower
    BY <1>1, <1>4, Products
  <2>2. 2 * (d * (q + 1)) = (2 * d) * q + 2 * d
    BY <1>1, <1>4
  <2> QED BY <1>1, <1>2, <1>4, <2>1, <2>2
<1>6. q <= upper
  <2> SUFFICES ASSUME upper + 1 <= q PROVE FALSE
    BY <1>4
  <2>1. d * (upper + 1) <= d * q
    BY <1>1, <1>4, Products
  <2>2. d * (upper + 1) = d * upper + d /\ 2 * (d * q) = (2 * d) * q
    BY <1>1, <1>4
  <2> QED BY <1>1, <1>3, <1>4, <2>1, <2>2
<1>7. Round(lower * up + upper * low, up + low) = q
  BY Zenon DEF Round, q, n, d
<1> QED BY <1>4, <1>5, <1>6, <1>7

\* The weights.
LEMMA NotNegative ==
    /\ \A x \in Int, y \in Nat \ {0} : x <= 0 => -x * y \in Nat
    /\ \A x \in Nat \ {0}, y \in Nat \ {0} : x * y \in Nat \ {0}
PROOF
<1>1. ASSUME NEW x \in Int, NEW y \in Nat \ {0}, x <= 0
      PROVE  -x * y \in Nat
  <2>1. (-x) * y >= 0
    BY <1>1
  <2> QED BY <1>1, <2>1
<1>2. ASSUME NEW x \in Nat \ {0}, NEW y \in Nat \ {0}
      PROVE  x * y \in Nat \ {0}
  OBVIOUS
<1> QED BY <1>1, <1>2

-----------------------------------------------------------------------------
(***************************************************************************)
(* estimateThreshold.                                                      *)
(***************************************************************************)

\* The last threshold becomes an end of the bracket, on its side of the target.
LEMMA BracketOK ==
    ASSUME NEW s, IsSearch(s)
    PROVE  /\ IsSearch(Bracket(s))
           /\ Bracket(s).th = s.th /\ Bracket(s).pfa = s.pfa
           /\ s.pfa > targetPFA => Bracket(s).lower = s.th /\ Bracket(s).upper = s.upper
           /\ s.pfa <= targetPFA => Bracket(s).upper = s.th /\ Bracket(s).lower = s.lower
PROOF
<1> DEFINE newF == s.pfa - targetPFA
<1>1. /\ s \in [lower : Int, upper : Int, Flower : Values, Fupper : Values, oldF : Int,
                th : Int, pfa : Int, bootstrap : BOOLEAN]
      /\ s.lower <= s.th /\ s.th <= s.upper
      /\ s.Flower.num > 0 /\ s.Fupper.num <= 0
  BY DEF IsSearch
<1>2. newF \in Int /\ targetPFA \in Int
  BY <1>1, TargetAssumption
<1>3. F(newF) \in Values /\ F(newF).num = newF
  BY <1>2 DEF F, Values
<1>4. \A f \in Values : Halved(f) \in Values /\ Halved(f).num = f.num
  BY DEF Halved, Values
<1>5. CASE s.bootstrap /\ newF < 0
  <2>1. Bracket(s) = [s EXCEPT !.upper = s.th]
    BY <1>5, Zenon DEF Bracket
  <2> QED BY <1>1, <1>2, <1>5, <2>1 DEF IsSearch
<1>6. CASE newF > 0
  <2> DEFINE fu == IF s.oldF > 0 THEN Halved(s.Fupper) ELSE s.Fupper
  <2>1. Bracket(s) = [s EXCEPT !.bootstrap = FALSE, !.lower = s.th, !.Flower = F(newF),
                          !.Fupper = fu]
    BY <1>2, <1>6 DEF Bracket
  <2>2. fu \in Values /\ fu.num <= 0
    BY <1>1, <1>4
  <2> HIDE DEF fu
  <2> DEFINE f == F(newF)
  <2>3. f \in Values /\ f.num > 0
    BY <1>3, <1>6
  <2> HIDE DEF f
  <2>4. Bracket(s) = [s EXCEPT !.bootstrap = FALSE, !.lower = s.th, !.Flower = f,
                          !.Fupper = fu]
    BY <2>1 DEF f
  <2>5. /\ Bracket(s) \in [lower : Int, upper : Int, Flower : Values, Fupper : Values, oldF : Int,
                            th : Int, pfa : Int, bootstrap : BOOLEAN]
        /\ Bracket(s).lower = s.th /\ Bracket(s).upper = s.upper
        /\ Bracket(s).Flower = f /\ Bracket(s).Fupper = fu
        /\ Bracket(s).th = s.th /\ Bracket(s).pfa = s.pfa
    BY <1>1, <2>2, <2>3, <2>4
  <2>6. s.pfa > targetPFA /\ ~(s.pfa <= targetPFA)
    BY <1>1, <1>2, <1>6
  <2>7. IsSearch(Bracket(s))
    BY <1>1, <2>2, <2>3, <2>5 DEF IsSearch
  <2> QED BY <2>5, <2>6, <2>7
<1>7. CASE ~(s.bootstrap /\ newF < 0) /\ ~(newF > 0)
  <2> DEFINE fl == IF s.oldF < 0 THEN Halved(s.Flower) ELSE s.Flower
  <2>1. Bracket(s) = [s EXCEPT !.bootstrap = FALSE, !.upper = s.th, !.Fupper = F(newF),
                          !.Flower = fl]
    BY <1>7 DEF Bracket
  <2>2. fl \in Values /\ fl.num > 0
    BY <1>1, <1>4
  <2> HIDE DEF fl
  <2> DEFINE f == F(newF)
  <2>3. f \in Values /\ f.num <= 0
    BY <1>2, <1>3, <1>7
  <2> HIDE DEF f
  <2>4. Bracket(s) = [s EXCEPT !.bootstrap = FALSE, !.upper = s.th, !.Fupper = f,
                          !.Flower = fl]
    BY <2>1 DEF f
  <2>5. /\ Bracket(s) \in [lower : Int, upper : Int, Flower : Values, Fupper : Values, oldF : Int,
                            th : Int, pfa : Int, bootstrap : BOOLEAN]
        /\ Bracket(s).lower = s.lower /\ Bracket(s).upper = s.th
        /\ Bracket(s).Flower = fl /\ Bracket(s).Fupper = f
        /\ Bracket(s).th = s.th /\ Bracket(s).pfa = s.pfa
    BY <1>1, <2>2, <2>3, <2>4
  <2>6. s.pfa <= targetPFA /\ ~(s.pfa > targetPFA)
    BY <1>1, <1>2, <1>7
  <2>7. IsSearch(Bracket(s))
    BY <1>1, <2>2, <2>3, <2>5 DEF IsSearch
  <2> QED BY <2>5, <2>6, <2>7
<1> QED BY <1>5, <1>6, <1>7

\* The bracket does not say where the last but one PFA was.
LEMMA BracketKeepsOldF == ASSUME NEW s, IsSearch(s) PROVE Bracket(s).oldF = s.oldF
PROOF
<1> DEFINE newF == s.pfa - targetPFA
<1> DEFINE all == [lower : Int, upper : Int, Flower : Values, Fupper : Values, oldF : Int,
                   th : Int, pfa : Int, bootstrap : BOOLEAN]
<1>1. s \in all
  BY DEF IsSearch
<1>2. \A x, y : /\ [s EXCEPT !.upper = x].oldF = s.oldF
                /\ [s EXCEPT !.bootstrap = FALSE, !.lower = x, !.Flower = y].oldF = s.oldF
  BY <1>1
<1>3. \A x, f, g :
        /\ [s EXCEPT !.bootstrap = FALSE, !.lower = x, !.Flower = f, !.Fupper = g].oldF = s.oldF
        /\ [s EXCEPT !.bootstrap = FALSE, !.upper = x, !.Fupper = f, !.Flower = g].oldF = s.oldF
  BY <1>1
<1>4. CASE s.bootstrap /\ newF < 0
  BY <1>2, <1>4 DEF Bracket
<1>5. CASE ~(s.bootstrap /\ newF < 0) /\ newF > 0
  BY <1>3, <1>5 DEF Bracket
<1>6. CASE ~(s.bootstrap /\ newF < 0) /\ ~(newF > 0)
  BY <1>3, <1>6 DEF Bracket
<1> QED BY <1>4, <1>5, <1>6

\* Bisection and false position stay in the bracket.
LEMMA BetweenOK ==
    ASSUME NEW s, IsSearch(s)
    PROVE  Between(s) \in Int /\ s.lower <= Between(s) /\ Between(s) <= s.upper
PROOF
<1>1. s.lower \in Int /\ s.upper \in Int /\ s.th \in Int /\ s.lower <= s.upper
  BY DEF IsSearch
<1>2. CASE s.bootstrap
  <2>1. Between(s) = (2 * (s.lower + s.upper) + 2) \div 4
    BY <1>2 DEF Between, Round
  <2> QED BY <1>1, <2>1
<1>3. CASE ~s.bootstrap
  <2> DEFINE up == -s.Fupper.num * s.Flower.den
             low == s.Flower.num * s.Fupper.den
  <2>1. /\ s.Flower.num \in Nat \ {0} /\ s.Fupper.num \in Int /\ s.Fupper.num <= 0
        /\ s.Flower.den \in Nat \ {0} /\ s.Fupper.den \in Nat \ {0}
    BY DEF IsSearch, Values
  <2>2. up \in Nat /\ low \in Nat \ {0}
    BY <2>1, NotNegative
  <2>3. Between(s) = Round(s.lower * up + s.upper * low, up + low)
    BY <1>3, Zenon DEF Between
  <2> HIDE DEF up, low
  <2>4. low \in Nat /\ up + low > 0
    BY <2>2
  <2>5. /\ Round(s.lower * up + s.upper * low, up + low) \in Int
        /\ s.lower <= Round(s.lower * up + s.upper * low, up + low)
        /\ Round(s.lower * up + s.upper * low, up + low) <= s.upper
    BY <1>1, <2>2, <2>4, RoundedMean
  <2> QED BY <2>3, <2>5
<1> QED BY <1>2, <1>3

\* The move to the centre stays in the bracket, and leaves an end of a wide one.
LEMMA CentredOK ==
    ASSUME NEW s, IsSearch(s), s.th = s.lower \/ s.th = s.upper
    PROVE  /\ \A th \in Centred(s, s.th) : th \in Int /\ s.lower <= th /\ th <= s.upper
           /\ s.th \in Centred(s, s.th) => s.upper - s.lower <= 4
PROOF
<1> DEFINE mTH == s.upper + s.lower - 2 * s.th
           r == Round(4 * s.th + mTH, 4)
<1>1. s.lower \in Int /\ s.upper \in Int /\ s.th \in Int /\ s.lower <= s.upper
  BY DEF IsSearch
<1>2. mTH \in Int /\ (mTH = s.upper - s.lower \/ mTH = s.lower - s.upper)
  BY <1>1
<1>3. Abs(mTH) = s.upper - s.lower
  BY <1>1, <1>2 DEF Abs
<1>4. Centred(s, s.th) = (IF Abs(mTH) >= 4 THEN {r} ELSE {})
                         \cup (IF Abs(mTH) <= 4 THEN {s.th} ELSE {})
  BY Zenon DEF Centred
<1>5. r = (2 * (4 * s.th + mTH) + 4) \div 8
  BY <1>1 DEF Round
<1>6. Abs(mTH) >= 4 => r \in Int /\ s.lower <= r /\ r <= s.upper /\ r # s.th
  BY <1>1, <1>2, <1>3, <1>5
<1> HIDE DEF mTH, r
<1> QED BY <1>1, <1>3, <1>4, <1>6

\* So do all new thresholds; the last one is kept only if the bracket is small.
LEMMA NewThresholdsOK ==
    ASSUME NEW s, IsSearch(s), s.th = s.lower \/ s.th = s.upper
    PROVE  /\ \A th \in NewThresholds(s) : th \in Int /\ s.lower <= th /\ th <= s.upper
           /\ s.th \in NewThresholds(s) => s.upper - s.lower <= 4
PROOF
<1>1. CASE Between(s) = s.th
  BY <1>1, CentredOK DEF NewThresholds
<1>2. CASE Between(s) # s.th
  BY <1>2, BetweenOK DEF NewThresholds
<1> QED BY <1>1, <1>2

-----------------------------------------------------------------------------
(***************************************************************************)
(* The search as a whole.                                                  *)
(***************************************************************************)

\* What an iteration, or the end of a search, finds after the bracket is updated.
LEMMA NarrowerOK ==
    ASSUME Inv
    PROVE  /\ IsSearch(Bracket(search))
           /\ Bracket(search).th = search.th /\ Bracket(search).pfa = search.pfa
           /\ \A th \in NewThresholds(Bracket(search)) :
                th \in Int /\ Bracket(search).lower <= th /\ th <= Bracket(search).upper
           /\ search.th \in NewThresholds(Bracket(search)) =>
                Bracket(search).upper - Bracket(search).lower <= 4
           /\ \A t \in DOMAIN curve :
                IF curve[t] > targetPFA THEN t <= Bracket(search).lower
                                        ELSE t >= Bracket(search).upper
PROOF
<1> DEFINE s == Bracket(search)
<1>1. IsSearch(search) /\ CurveOK /\ BracketHoldsTarget
  BY DEF Inv
<1>2. /\ search.lower \in Int /\ search.upper \in Int /\ search.th \in Int /\ search.pfa \in Int
      /\ search.lower <= search.th /\ search.th <= search.upper /\ targetPFA \in Int
  BY <1>1, TargetAssumption DEF IsSearch
<1>3. /\ IsSearch(s) /\ s.th = search.th /\ s.pfa = search.pfa
      /\ search.pfa > targetPFA => s.lower = search.th /\ s.upper = search.upper
      /\ search.pfa <= targetPFA => s.upper = search.th /\ s.lower = search.lower
  BY <1>1, BracketOK
<1> HIDE DEF s
<1>4. s.th = s.lower \/ s.th = s.upper
  BY <1>2, <1>3
<1>5. /\ \A th \in NewThresholds(s) : th \in Int /\ s.lower <= th /\ th <= s.upper
      /\ s.th \in NewThresholds(s) => s.upper - s.lower <= 4
  BY <1>3, <1>4, NewThresholdsOK
<1>6. ASSUME NEW t \in DOMAIN curve
      PROVE  IF curve[t] > targetPFA THEN t <= s.lower ELSE t >= s.upper
  <2>1. t \in Int /\ curve[t] \in Int
    BY <1>1 DEF CurveOK
  <2>2. CASE t = search.th
    <3>1. curve[t] = search.pfa
      BY <1>1, <2>2 DEF CurveOK
    <3> QED BY <1>2, <1>3, <2>2, <3>1
  <2>3. CASE t # search.th
    <3>1. IF curve[t] > targetPFA THEN t <= search.lower ELSE t >= search.upper
      BY <1>1, <2>3 DEF BracketHoldsTarget
    <3>2. search.lower <= s.lower /\ s.upper <= search.upper /\ s.lower \in Int /\ s.upper \in Int
      BY <1>2, <1>3
    <3> QED BY <1>2, <2>1, <3>1, <3>2
  <2> QED BY <2>2, <2>3
<1>7. \A t \in DOMAIN curve :
        IF curve[t] > targetPFA THEN t <= s.lower ELSE t >= s.upper
  BY <1>6
<1> QED BY <1>3, <1>5, <1>7, Zenon DEF s

\* A new search.
LEMMA NewSearchOK ==
    ASSUME NEW lower \in Int, NEW upper \in Int, lower <= upper,
           NEW Flower \in Values, NEW Fupper \in Values, Flower.num > 0, Fupper.num <= 0,
           NEW bootstrap \in BOOLEAN
    PROVE  IsSearch(NewSearch(lower, upper, Flower, Fupper, bootstrap))
BY DEF IsSearch, NewSearch

\* The rough search begins with a bracket that is in order.
LEMMA RoughSearchOK == IsSearch(RoughSearch)
PROOF
<1>1. F(roughHigh) \in Values /\ F(-targetPFA) \in Values
  BY TargetAssumption DEF F, Values
<1>2. F(roughHigh).num > 0 /\ F(-targetPFA).num <= 0
  BY TargetAssumption DEF F
<1>3. MaxTH \in Int /\ 0 <= MaxTH
  BY ThresholdsAssumption
<1> DEFINE fl == F(roughHigh)
           fu == F(-targetPFA)
<1> HIDE DEF fl, fu
<1>4. fl \in Values /\ fu \in Values /\ fl.num > 0 /\ fu.num <= 0
  BY <1>1, <1>2 DEF fl, fu
<1>5. 0 \in Int /\ TRUE \in BOOLEAN
  OBVIOUS
<1>6. IsSearch(NewSearch(0, MaxTH, fl, fu, TRUE))
  BY <1>3, <1>4, <1>5, NewSearchOK
<1> QED BY <1>6, Zenon DEF RoughSearch, fl, fu

\* No threshold has been simulated, and none is found.
Fresh == IsSearch(search) /\ curve = [t \in {} |-> 0] /\ pc # "found"

\* A search that begins has simulated nothing.
LEMMA FreshOK == ASSUME Fresh PROVE Inv
BY DEF Fresh, Inv, CurveOK, BracketHoldsTarget, NarrowsDown

\* At first, a search is fresh.
LEMMA InvInit == Init => Inv
PROOF
<1> SUFFICES ASSUME Init PROVE Fresh
  BY FreshOK
<1> QED BY RoughSearchOK DEF Init, Fresh

\* One iteration of the loop preserves the invariant.
LEMMA IterateOK == ASSUME Inv, Iterate PROVE Inv'
PROOF
<1> DEFINE s == Bracket(search)
<1>1. PICK th \in NewThresholds(s) : \E p \in Simulated(curve, th) :
        /\ search' = [s EXCEPT !.th = th, !.pfa = p, !.oldF = Sign(search.pfa - targetPFA)]
        /\ curve' = [t \in (DOMAIN curve \cup {th}) \cap s.lower..s.upper |->
                        IF t = th THEN p ELSE curve[t]]
  BY DEF Iterate
<1>2. PICK p \in Simulated(curve, th) :
        /\ search' = [s EXCEPT !.th = th, !.pfa = p, !.oldF = Sign(search.pfa - targetPFA)]
        /\ curve' = [t \in (DOMAIN curve \cup {th}) \cap s.lower..s.upper |->
                        IF t = th THEN p ELSE curve[t]]
  BY <1>1
<1>3. pc' = pc /\ pc # "found"
  BY DEF Iterate
<1>4. /\ IsSearch(s)
      /\ \A t \in NewThresholds(s) : t \in Int /\ s.lower <= t /\ t <= s.upper
      /\ \A t \in DOMAIN curve :
            IF curve[t] > targetPFA THEN t <= s.lower ELSE t >= s.upper
  BY NarrowerOK
<1> HIDE DEF s
<1>5. th \in Int /\ s.lower <= th /\ th <= s.upper
  BY <1>4
<1>6. p \in Int
  BY ThresholdsAssumption DEF Simulated
<1>7. Sign(search.pfa - targetPFA) \in Int
  BY DEF Sign
<1> DEFINE o == Sign(search.pfa - targetPFA)
<1> HIDE DEF o
<1>8. /\ search' = [s EXCEPT !.th = th, !.pfa = p, !.oldF = o] /\ o \in Int
  BY <1>2, <1>7 DEF o
<1>9. /\ IsSearch(search')
      /\ search'.th = th /\ search'.pfa = p
      /\ search'.lower = s.lower /\ search'.upper = s.upper
  BY <1>4, <1>5, <1>6, <1>8 DEF IsSearch
<1>10. /\ DOMAIN curve' = (DOMAIN curve \cup {th}) \cap s.lower..s.upper
      /\ \A t \in DOMAIN curve' : curve'[t] = IF t = th THEN p ELSE curve[t]
  BY <1>2
<1>11. CurveOK'
  <2>1. DOMAIN curve \subseteq Int /\ \A t \in DOMAIN curve : curve[t] \in Int
    BY DEF Inv, CurveOK
  <2> QED BY <1>5, <1>6, <1>9, <1>10, <2>1 DEF CurveOK
<1>12. BracketHoldsTarget'
  BY <1>4, <1>9, <1>10 DEF BracketHoldsTarget
<1>13. NarrowsDown'
  BY <1>3 DEF NarrowsDown
<1> QED BY <1>9, <1>11, <1>12, <1>13 DEF Inv

\* So does the end of the rough search, ...
LEMMA RoughEndsOK == ASSUME Inv, RoughEnds PROVE Inv'
PROOF
<1>1. PICK s \in {search, Bracket(search)} :
        search' = NewSearch(s.lower, s.upper, s.Flower, s.Fupper, FALSE)
  BY DEF RoughEnds
<1>2. IsSearch(s)
  BY NarrowerOK DEF Inv
<1>3. /\ s.lower \in Int /\ s.upper \in Int /\ s.lower <= s.upper
      /\ s.Flower \in Values /\ s.Fupper \in Values /\ s.Flower.num > 0 /\ s.Fupper.num <= 0
  BY <1>2 DEF IsSearch
<1>4. IsSearch(search')
  BY <1>1, <1>3, NewSearchOK
<1>5. curve' = [t \in {} |-> 0] /\ pc' # "found"
  BY DEF RoughEnds
<1>6. Fresh'
  BY <1>4, <1>5 DEF Fresh, IsSearch
<1> QED BY <1>5, <1>4 DEF IsSearch, Inv, CurveOK, BracketHoldsTarget, NarrowsDown

\* ... and that of the fine one.
LEMMA FineEndsOK == ASSUME Inv, FineEnds PROVE Inv'
PROOF
<1>1. PICK s \in {search, Bracket(search)} : Ended(s) /\ search' = s
  BY DEF FineEnds
<1>2. pc = "fine" /\ pc' = "found" /\ curve' = curve
  BY DEF FineEnds
<1>3. IsSearch(s) /\ s.th = search.th /\ s.pfa = search.pfa
  BY NarrowerOK DEF Inv
<1>4. CurveOK'
  BY <1>1, <1>2, <1>3 DEF Inv, CurveOK
<1>5. BracketHoldsTarget'
  <2>1. CASE s = search
    BY <1>1, <1>2, <2>1 DEF Inv, BracketHoldsTarget
  <2>2. CASE s = Bracket(search)
    BY <1>1, <1>2, <2>2, NarrowerOK DEF BracketHoldsTarget
  <2> QED BY <2>1, <2>2
<1>6. NarrowsDown'
  <2>1. CASE Accepted(search.pfa)
    BY <1>1, <1>2, <1>3, <2>1 DEF NarrowsDown, Accepted
  <2>2. CASE ~Accepted(search.pfa)
    BY <1>1, <1>2, <2>2, NarrowerOK DEF NarrowsDown, Ended
  <2> QED BY <2>1, <2>2
<1> QED BY <1>1, <1>3, <1>4, <1>5, <1>6 DEF Inv, IsSearch

\* The other steps leave the search as it is, or begin another.
LEMMA InvNext ==
    ASSUME Inv, [Next \/ \E r \in Requests : Call(r)]_vars
    PROVE  Inv'
PROOF
<1>1. ASSUME search' = search, curve' = curve, pc' # "found" \/ pc' = pc
      PROVE  Inv'
  BY <1>1 DEF Inv, IsSearch, CurveOK, BracketHoldsTarget, NarrowsDown, Accepted
<1>2. ASSUME search' = RoughSearch, curve' = [t \in {} |-> 0], pc' # "found"
      PROVE  Inv'
  BY <1>2, RoughSearchOK DEF Inv, IsSearch, CurveOK, BracketHoldsTarget, NarrowsDown
<1>3. CASE NextConf
  BY <1>1, <1>3 DEF NextConf
<1>4. CASE NextNCS
  BY <1>2, <1>4 DEF NextNCS
<1>5. CASE Iterate
  BY <1>5, IterateOK
<1>6. CASE RoughEnds
  BY <1>6, RoughEndsOK
<1>7. CASE FineEnds
  BY <1>7, FineEndsOK
<1>8. CASE SaveRow
  BY <1>1, <1>8 DEF SaveRow
<1>9. CASE Finish \/ Refused \/ Interrupt
  BY <1>2, <1>9 DEF Finish, Refused, Interrupt, Return
<1>10. ASSUME NEW r, Call(r)
       PROVE  Inv'
  BY <1>1, <1>10 DEF Call
<1>11. CASE UNCHANGED vars
  BY <1>1, <1>11 DEF vars
<1> QED BY <1>3, <1>4, <1>5, <1>6, <1>7, <1>8, <1>9, <1>10, <1>11 DEF Next, Run

-----------------------------------------------------------------------------
(***************************************************************************)
(* Theorems.                                                               *)
(***************************************************************************)

\* The inductive invariant holds when calls with different arguments share a file ...
THEOREM InvHoldsMixed == MixedSpec => []Inv
PROOF
<1>1. Init => Inv
  BY InvInit
<1>2. Inv /\ [Next \/ \E r \in Requests : Call(r)]_vars => Inv'
  BY InvNext
<1> QED BY <1>1, <1>2, PTL DEF MixedSpec

\* ... and when all have the same.
THEOREM InvHolds == Spec => []Inv
PROOF
<1>1. Init => Inv
  BY InvInit
<1>2. Inv /\ [Next]_vars => Inv'
  BY InvNext
<1> QED BY <1>1, <1>2, PTL DEF Spec

\* A search of estimateThreshold gives a PFA in bounds, or leaves the loop only when
\* the bracket is at most four units of the grid wide.
THEOREM SearchNarrowsDown == Spec => []NarrowsDown
PROOF
<1>1. Inv => NarrowsDown
  BY DEF Inv
<1> QED BY <1>1, InvHolds, PTL

\* The bracket of estimateThreshold holds the target: no threshold simulated in this
\* search is strictly inside it but the last one, on the wrong side of the target.
THEOREM TargetStaysInBracket == Spec => []BracketHoldsTarget
PROOF
<1>1. Inv => BracketHoldsTarget
  BY DEF Inv
<1> QED BY <1>1, InvHolds, PTL

-----------------------------------------------------------------------------
(***************************************************************************)
(* Types.                                                                  *)
(***************************************************************************)

\* What is simulated is on the grid of thresholds, and gives one of the rates.
OnTheGrid ==
    /\ 0 <= search.lower /\ search.upper <= MaxTH
    /\ search.oldF \in -1..1 /\ search.pfa \in PFAs
    /\ \A t \in DOMAIN curve : t \in 0..MaxTH /\ curve[t] \in PFAs

\* The loops: over the configurations of the request, and over the cyclic shifts that are
\* not in the table.
LoopsOK ==
    /\ pc \in {"idle", "conf", "ncs", "rough", "fine", "found"}
    /\ request \in Requests
    /\ NCSused \in NCSs \cup {-1} /\ NCSlist \subseteq NCSs
    /\ iConf \in 1..NConfs+1
    /\ pc = "conf" => iConf \in request.first..request.last+1
    /\ pc \in {"ncs", "rough", "fine", "found"} => iConf \in request.first..request.last /\ NCSused = -1
    /\ pc \in {"rough", "fine", "found"} => NCSlist # {}

\* What the steps of the loops keep.
Files == LoopsOK /\ file \in Seq(Rows)

\* A request is a range of configurations.
LEMMA RequestOK ==
    ASSUME NEW r \in Requests
    PROVE  /\ r.first \in 1..NConfs /\ r.last \in 1..NConfs /\ r.first <= r.last
           /\ NConfs \in Nat \ {0}
BY RequestsAssumption, ConfsAssumption

\* A new search starts on the grid.
LEMMA NewSearchOnGrid ==
    ASSUME NEW lower \in Int, NEW upper \in Int, 0 <= lower, upper <= MaxTH,
           NEW Flower, NEW Fupper, NEW bootstrap,
           search' = NewSearch(lower, upper, Flower, Fupper, bootstrap),
           curve' = [t \in {} |-> 0]
    PROVE  OnTheGrid'
BY ThresholdsAssumption DEF OnTheGrid, NewSearch

\* Iterations stay on the grid: the bracket only shrinks.
LEMMA IterateOnGrid == ASSUME Inv, OnTheGrid, Iterate PROVE OnTheGrid'
PROOF
<1> DEFINE s == Bracket(search)
<1>0. PICK th \in NewThresholds(s) : \E p \in Simulated(curve, th) :
        /\ search' = [s EXCEPT !.th = th, !.pfa = p, !.oldF = Sign(search.pfa - targetPFA)]
        /\ curve' = [t \in (DOMAIN curve \cup {th}) \cap s.lower..s.upper |->
                        IF t = th THEN p ELSE curve[t]]
  BY DEF Iterate
<1>1. PICK p \in Simulated(curve, th) :
        /\ search' = [s EXCEPT !.th = th, !.pfa = p, !.oldF = Sign(search.pfa - targetPFA)]
        /\ curve' = [t \in (DOMAIN curve \cup {th}) \cap s.lower..s.upper |->
                        IF t = th THEN p ELSE curve[t]]
  BY <1>0
<1>2. /\ IsSearch(s) /\ \A t \in NewThresholds(s) : t \in Int /\ s.lower <= t /\ t <= s.upper
  BY NarrowerOK
<1>3. 0 <= s.lower /\ s.upper <= MaxTH
  <2>1. IsSearch(search)
    BY DEF Inv
  <2>2. /\ search.pfa > targetPFA => s.lower = search.th /\ s.upper = search.upper
        /\ search.pfa <= targetPFA => s.upper = search.th /\ s.lower = search.lower
    BY <2>1, BracketOK
  <2>3. /\ search.lower \in Int /\ search.upper \in Int /\ search.th \in Int /\ search.pfa \in Int
        /\ search.lower <= search.th /\ search.th <= search.upper
        /\ targetPFA \in Int /\ MaxTH \in Int
    BY <2>1, TargetAssumption, ThresholdsAssumption DEF IsSearch
  <2> HIDE DEF s
  <2> QED BY <2>2, <2>3 DEF OnTheGrid
<1> HIDE DEF s
<1>4. th \in 0..MaxTH
  BY <1>2, <1>3, ThresholdsAssumption DEF IsSearch
<1>5. p \in PFAs
  BY DEF Simulated
<1> DEFINE o == Sign(search.pfa - targetPFA)
<1>6. o \in -1..1
  BY DEF Sign
<1> HIDE DEF o
<1>7. search' = [s EXCEPT !.th = th, !.pfa = p, !.oldF = o]
  BY <1>1 DEF o
<1>8. /\ search'.lower = s.lower /\ search'.upper = s.upper /\ search'.oldF = o /\ search'.pfa = p
  BY <1>2, <1>7 DEF IsSearch
<1>9. \A t \in DOMAIN curve' : t \in 0..MaxTH /\ curve'[t] \in PFAs
  <2>1. \A t \in DOMAIN curve : t \in 0..MaxTH /\ curve[t] \in PFAs
    BY DEF OnTheGrid
  <2> QED BY <1>1, <1>4, <1>5, <2>1
<1> QED BY <1>3, <1>5, <1>6, <1>8, <1>9 DEF OnTheGrid

\* So do the ends of searches.
LEMMA EndsOnGrid == ASSUME Inv, OnTheGrid, RoughEnds \/ FineEnds PROVE OnTheGrid'
PROOF
<1>1. IsSearch(search) /\ targetPFA \in Int /\ MaxTH \in Int
  BY TargetAssumption, ThresholdsAssumption DEF Inv
<1>2. ASSUME NEW s \in {search, Bracket(search)}
      PROVE  /\ s.lower \in Int /\ s.upper \in Int /\ 0 <= s.lower /\ s.upper <= MaxTH
             /\ s.oldF = search.oldF /\ s.pfa = search.pfa
  <2>1. search.lower \in Int /\ search.upper \in Int /\ search.th \in Int /\ search.pfa \in Int
        /\ search.lower <= search.th /\ search.th <= search.upper
    BY <1>1 DEF IsSearch
  <2>2. CASE s = search
    BY <2>1, <2>2 DEF OnTheGrid
  <2>3. CASE s = Bracket(search)
    <3>1. /\ s.pfa = search.pfa
          /\ search.pfa > targetPFA => s.lower = search.th /\ s.upper = search.upper
          /\ search.pfa <= targetPFA => s.upper = search.th /\ s.lower = search.lower
      BY <1>1, <2>3, BracketOK
    <3>2. s.oldF = search.oldF
      BY <1>1, <2>3, BracketKeepsOldF
    <3> QED BY <1>1, <2>1, <3>1, <3>2 DEF OnTheGrid
  <2> QED BY <2>2, <2>3
<1>3. CASE RoughEnds
  <2>1. PICK s \in {search, Bracket(search)} :
            search' = NewSearch(s.lower, s.upper, s.Flower, s.Fupper, FALSE)
    BY <1>3 DEF RoughEnds
  <2> QED BY <1>2, <1>3, <2>1, NewSearchOnGrid DEF RoughEnds
<1>4. CASE FineEnds
  <2>1. PICK s \in {search, Bracket(search)} : search' = s
    BY <1>4 DEF FineEnds
  <2> QED BY <1>2, <1>4, <2>1 DEF FineEnds, OnTheGrid
<1> QED BY <1>3, <1>4

\* All other steps start a search anew, or leave it alone.
LEMMA GridStep ==
    ASSUME Inv, OnTheGrid, [Next \/ \E r \in Requests : Call(r)]_vars
    PROVE  OnTheGrid'
PROOF
<1>1. CASE search' = search /\ curve' = curve
  BY <1>1 DEF OnTheGrid
<1>2. CASE search' = RoughSearch /\ curve' = [t \in {} |-> 0]
  <2>1. 0 \in Int /\ MaxTH \in Int /\ 0 <= 0 /\ 0 <= MaxTH /\ MaxTH <= MaxTH
    BY ThresholdsAssumption
  <2> QED BY <1>2, <2>1, NewSearchOnGrid DEF RoughSearch
<1>3. CASE Iterate
  BY <1>3, IterateOnGrid
<1>4. CASE RoughEnds \/ FineEnds
  BY <1>4, EndsOnGrid
<1>5. CASE NextConf \/ SaveRow \/ UNCHANGED vars
  BY <1>1, <1>5 DEF NextConf, SaveRow, vars
<1>6. CASE NextNCS \/ Finish \/ Refused \/ Interrupt
  BY <1>2, <1>6 DEF NextNCS, Finish, Refused, Interrupt, Return
<1>7. ASSUME NEW r, Call(r) PROVE OnTheGrid'
  BY <1>1, <1>7 DEF Call
<1> QED BY <1>3, <1>4, <1>5, <1>6, <1>7 DEF Next, Run

\* A finite set of integers has a least element: otherwise, a smallest set that has none
\* loses an element and has one.
LEMMA LeastOfFinite ==
    ASSUME NEW S \in SUBSET Int, IsFiniteSet(S), S # {}
    PROVE  \E n \in S : \A m \in S : n <= m
PROOF
<1> DEFINE HasLeast(T) == \E m \in T : \A x \in T : m <= x
           Lacking == {T \in SUBSET S : T # {} /\ ~HasLeast(T)}
<1>1. Lacking = {}
  <2> SUFFICES ASSUME Lacking # {} PROVE FALSE
    OBVIOUS
  <2>1. Lacking \subseteq FiniteSubsetsOf(S)
    BY FS_Subset DEF FiniteSubsetsOf
  <2> HIDE DEF Lacking
  <2>2. PICK T \in Lacking : \A U \in Lacking : ~(<<U, T>> \in StrictSubsetOrdering(S))
    BY <2>1, FS_StrictSubsetOrderingWellFounded, WFMin
  <2>3. T \in SUBSET S /\ T # {} /\ ~HasLeast(T)
    BY DEF Lacking
  <2>4. PICK x \in T : TRUE
    BY <2>3
  <2>5. T \ {x} \notin Lacking
    BY <2>2, <2>3, <2>4 DEF StrictSubsetOrdering
  <2>6. T \ {x} = {} \/ HasLeast(T \ {x})
    BY <2>3, <2>5 DEF Lacking
  <2>7. CASE T \ {x} = {}
    <3>1. \A y \in T : x <= y
      BY <2>3, <2>4, <2>7
    <3> QED BY <2>3, <2>4, <3>1
  <2>8. CASE HasLeast(T \ {x})
    <3>1. PICK m \in T \ {x} : \A y \in T \ {x} : m <= y
      BY <2>8
    <3>2. CASE m <= x
      <4>1. \A y \in T : m <= y
        BY <3>1, <3>2
      <4> QED BY <2>3, <3>1, <4>1
    <3>3. CASE ~(m <= x)
      <4>1. \A y \in T : x <= y
        BY <2>3, <2>4, <3>1, <3>3
      <4> QED BY <2>3, <2>4, <4>1
    <3> QED BY <3>2, <3>3
  <2> QED BY <2>6, <2>7, <2>8
<1> QED BY <1>1

\* The least of the cyclic shifts that are left.
Least == CHOOSE n \in NCSlist : \A m \in NCSlist : n <= m

\* The cyclic shift that comes next is the least of those left.
LEMMA LeastShift ==
    ASSUME LoopsOK, NCSlist # {}
    PROVE  Least \in NCSlist /\ \A m \in NCSlist : Least <= m
PROOF
<1>1. NCSlist \subseteq Nat
  BY ConfsAssumption DEF LoopsOK
<1>2. PICK first \in NCSlist : TRUE
  OBVIOUS
<1> DEFINE S == NCSlist \cap 0..first
<1>3. S \in SUBSET Int /\ IsFiniteSet(S) /\ first \in S
  <2>1. IsFiniteSet(0..first)
    BY <1>1, <1>2, FS_Interval
  <2>2. IsFiniteSet(S)
    BY <2>1, FS_Subset
  <2> QED BY <1>1, <1>2, <2>2
<1> HIDE DEF S
<1>4. PICK n \in S : \A m \in S : n <= m
  BY <1>3, LeastOfFinite
<1>5. \A m \in NCSlist : n <= m
  BY <1>1, <1>2, <1>4 DEF S
<1>6. \E k \in NCSlist : \A m \in NCSlist : k <= m
  BY <1>4, <1>5 DEF S
<1> QED BY <1>6, Zenon DEF Least

\* The loops and the table keep their types.
LEMMA FilesStep == ASSUME Files, [Next]_vars PROVE Files'
PROOF
<1>1. /\ request \in Requests /\ file \in Seq(Rows) /\ NCSs \subseteq Nat
      /\ request.first \in 1..NConfs /\ request.last \in 1..NConfs
      /\ request.first <= request.last /\ NConfs \in Nat \ {0}
  BY RequestOK, ConfsAssumption DEF Files, LoopsOK
<1>2. CASE Call(request)
  <2>1. file # NoFile => Last(file) \in Rows
    BY <1>1 DEF NoFile, Last
  <2>2. CASE file = NoFile \/ Last(file).conf \notin request.first..request.last
    BY <1>1, <1>2, <2>2 DEF Call, Files, LoopsOK
  <2>3. CASE file # NoFile /\ Last(file).conf \in request.first..request.last
    BY <1>1, <1>2, <2>1, <2>3 DEF Call, Files, LoopsOK, Rows
  <2> QED BY <2>2, <2>3
<1>3. CASE NextConf
  BY <1>1, <1>3 DEF NextConf, Files, LoopsOK
<1>4. CASE NextNCS
  BY <1>1, <1>4 DEF NextNCS, Files, LoopsOK
<1>5. CASE Iterate \/ RoughEnds \/ FineEnds
  BY <1>5 DEF Iterate, RoughEnds, FineEnds, table, Files, LoopsOK
<1>6. CASE SaveRow
  <2> DEFINE row == [conf |-> iConf, NCS |-> Least]
  <2>1. Least \in NCSlist
    BY <1>6, LeastShift DEF SaveRow, Files, LoopsOK
  <2>2. row \in Rows
    BY <1>1, <1>6, <2>1 DEF SaveRow, Files, LoopsOK, Rows
  <2>3. file' = Append(file, row) /\ NCSlist' = NCSlist \ {Least} /\ pc' = "ncs"
        /\ pc = "found" /\ UNCHANGED <<request, iConf, NCSused>>
    BY <1>6 DEF SaveRow, Least
  <2> HIDE DEF row
  <2>4. file' \in Seq(Rows)
    BY <1>1, <2>2, <2>3
  <2>5. LoopsOK'
    BY <2>3 DEF Files, LoopsOK
  <2> QED BY <2>4, <2>5 DEF Files
<1>7. CASE Finish \/ Refused \/ Interrupt
  BY <1>1, <1>7 DEF Finish, Refused, Interrupt, Return, Files, LoopsOK
<1>8. CASE UNCHANGED vars
  BY <1>8 DEF vars, table, Files, LoopsOK
<1> QED BY <1>2, <1>3, <1>4, <1>5, <1>6, <1>7, <1>8 DEF Next, Run

\* The parts are what TypeOK asks.
LEMMA TypesFollow == Inv /\ OnTheGrid /\ Files => TypeOK
PROOF
<1> SUFFICES ASSUME Inv, OnTheGrid, Files PROVE TypeOK
  OBVIOUS
<1>1. search \in Searches
  BY ThresholdsAssumption DEF Inv, IsSearch, OnTheGrid, Searches, Values
<1>2. DOMAIN curve \subseteq 0..MaxTH /\ \A t \in DOMAIN curve : curve[t] \in PFAs
  BY DEF OnTheGrid
<1> QED BY <1>1, <1>2 DEF TypeOK, Files, LoopsOK

-----------------------------------------------------------------------------
(***************************************************************************)
(* The table.                                                              *)
(***************************************************************************)

\* Between steps of the loops, the table has the rows of all configurations before the
\* one being simulated, and of its own those whose cyclic shifts are used or done.
Saved(row) ==
    \/ row.conf < iConf
    \/ row.conf = iConf /\ IF pc = "conf" THEN row.NCS <= NCSused ELSE row.NCS \notin NCSlist

\* The cyclic shifts are simulated in order.
InOrder == \A m \in NCSlist, n \in NCSs : m <= n => n \in NCSlist

\* The inductive invariant.
TableOK ==
    /\ ResumesWhereItStopped
    /\ pc # "idle" => \A row \in Wanted(request) : row \in ToSet(file) <=> Saved(row)
    /\ pc \in {"ncs", "rough", "fine", "found"} => InOrder

\* A row of the table that has no other behind it is the last.
LEMMA LastRow ==
    ASSUME Files, ResumesWhereItStopped, file # NoFile
    PROVE  /\ Last(file) \in Wanted(request)
           /\ \A row \in Wanted(request) :
                row \in ToSet(file) <=> Before(row, Last(file)) \/ row = Last(file)
PROOF
<1>1. file \in Seq(Rows) /\ Len(file) \in Nat \ {0} /\ DOMAIN file = 1..Len(file)
      /\ Last(file) = file[Len(file)] /\ Len(file) \in DOMAIN file
  BY DEF Files, NoFile, Last
<1>2. Last(file) \in ToSet(file)
  BY <1>1 DEF ToSet
<1>3. ASSUME NEW row \in ToSet(file)
      PROVE  Before(row, Last(file)) \/ row = Last(file)
  <2>1. PICK i \in DOMAIN file : file[i] = row
    BY DEF ToSet
  <2>2. i < Len(file) \/ i = Len(file)
    BY <1>1
  <2> QED BY <1>1, <2>1, <2>2 DEF ResumesWhereItStopped
<1>4. \A row \in Wanted(request) : Before(row, Last(file)) => row \in ToSet(file)
  BY <1>1 DEF ResumesWhereItStopped
<1> QED BY <1>2, <1>3, <1>4 DEF ResumesWhereItStopped

\* A call begins with the rows that come after the table's.
LEMMA CallResumes == ASSUME Files, TableOK, Call(request) PROVE TableOK'
PROOF
<1>1. /\ file' = file /\ request' = request /\ pc' = "conf" /\ ResumesWhereItStopped
  BY DEF Call, TableOK
<1>2. ResumesWhereItStopped'
  BY <1>1 DEF ResumesWhereItStopped, Wanted
<1>3. request.first \in Int /\ request.last \in Int /\ NCSs \subseteq Nat
  BY RequestOK, ConfsAssumption DEF Files, LoopsOK
<1>4. \A row \in Wanted(request) :
        row.conf \in request.first..request.last /\ row.NCS \in NCSs
        /\ row = [conf |-> row.conf, NCS |-> row.NCS]
  BY DEF Wanted
<1>5. ASSUME NEW row \in Wanted(request)
      PROVE  row \in ToSet(file) <=> Saved(row)'
  <2>1. Saved(row)' <=> row.conf < iConf' \/ (row.conf = iConf' /\ row.NCS <= NCSused')
    BY <1>1 DEF Saved
  <2>2. CASE file = NoFile
    <3>1. iConf' = request.first /\ NCSused' = -1
      BY <2>2 DEF Call
    <3>2. ToSet(file) = {}
      BY <2>2 DEF ToSet, NoFile
    <3> QED BY <1>3, <1>4, <2>1, <3>1, <3>2
  <2>3. CASE file # NoFile
    <3> DEFINE last == Last(file)
    <3>1. last \in Wanted(request) /\ (row \in ToSet(file) <=> Before(row, last) \/ row = last)
      BY <1>1, <2>3, LastRow
    <3>2. last.conf \in request.first..request.last
      BY <1>4, <3>1
    <3>3. iConf' = last.conf /\ NCSused' = last.NCS
      BY <2>3, <3>2 DEF Call
    <3> HIDE DEF last
    <3>4. row = last <=> row.conf = last.conf /\ row.NCS = last.NCS
      BY <1>4, <3>1
    <3> QED BY <1>3, <1>4, <2>1, <3>1, <3>3, <3>4 DEF Before
  <2> QED BY <2>2, <2>3
<1>6. ToSet(file)' = ToSet(file) /\ Wanted(request)' = Wanted(request)
  BY <1>1
<1> QED BY <1>1, <1>2, <1>5, <1>6 DEF TableOK

\* A row that is written is the next of those wanted.
LEMMA SaveRowResumes == ASSUME Files, TableOK, SaveRow PROVE TableOK'
PROOF
<1> DEFINE row == [conf |-> iConf, NCS |-> Least]
<1>1. /\ file' = Append(file, row) /\ NCSlist' = NCSlist \ {Least}
      /\ pc = "found" /\ pc' = "ncs" /\ UNCHANGED <<request, iConf>>
  BY DEF SaveRow, Least
<1>2. /\ NCSlist # {} /\ NCSlist \subseteq NCSs /\ NCSs \subseteq Nat
      /\ iConf \in request.first..request.last
      /\ request.first \in Int /\ request.last \in Int
  BY <1>1, RequestOK, ConfsAssumption DEF Files, LoopsOK
<1>3. Least \in NCSlist /\ \A m \in NCSlist : Least <= m
  BY <1>2, LeastShift DEF Files
<1>4. row \in Wanted(request) /\ row.conf = iConf /\ row.NCS = Least
  BY <1>2, <1>3 DEF Wanted
<1>5. \A r \in Wanted(request) :
        r.conf \in Int /\ r.NCS \in NCSs /\ r = [conf |-> r.conf, NCS |-> r.NCS]
  BY <1>2 DEF Wanted
<1>6. ResumesWhereItStopped /\ InOrder
      /\ \A r \in Wanted(request) : r \in ToSet(file) <=>
            r.conf < iConf \/ (r.conf = iConf /\ r.NCS \notin NCSlist)
  BY <1>1 DEF TableOK, Saved
<1>7. \A r \in Wanted(request) : r \in ToSet(file) <=> Before(r, row)
  <2> TAKE r \in Wanted(request)
  <2>1. r.NCS \in NCSs /\ r.NCS \in Nat /\ Least \in Nat
    BY <1>2, <1>3, <1>5
  <2>2. r.NCS \notin NCSlist <=> r.NCS < Least
    BY <1>3, <1>6, <2>1 DEF InOrder
  <2> HIDE DEF row
  <2> QED BY <1>4, <1>6, <2>2 DEF Before
<1>8. \A r \in Wanted(request) : r = row <=> r.conf = iConf /\ r.NCS = Least
  BY <1>4, <1>5
<1> HIDE DEF row
<1>9. /\ file \in Seq(Rows) /\ DOMAIN file = 1..Len(file) /\ Len(file) \in Nat
      /\ DOMAIN file' = 1..Len(file) + 1
      /\ \A i \in DOMAIN file : file'[i] = file[i]
      /\ file'[Len(file) + 1] = row
  BY <1>1 DEF Files
<1>10. ToSet(file') = ToSet(file) \cup {row}
  BY <1>9 DEF ToSet
<1>11. ToSet(file') \subseteq Wanted(request)
  BY <1>4, <1>6, <1>10 DEF ResumesWhereItStopped
<1>12. ASSUME NEW i \in DOMAIN file', NEW j \in DOMAIN file', i < j
       PROVE  Before(file'[i], file'[j])
  <2>1. i \in DOMAIN file
    BY <1>9, <1>12
  <2>2. CASE j \in DOMAIN file
    BY <1>6, <1>9, <1>12, <2>1, <2>2 DEF ResumesWhereItStopped
  <2>3. CASE j \notin DOMAIN file
    <3>1. file'[j] = row
      BY <1>9, <2>3
    <3>2. file[i] \in ToSet(file) /\ file[i] \in Wanted(request)
      BY <1>6, <2>1 DEF ToSet, ResumesWhereItStopped
    <3> QED BY <1>7, <1>9, <2>1, <3>1, <3>2
  <2> QED BY <2>2, <2>3
<1>13. ASSUME NEW i \in DOMAIN file', NEW r \in Wanted(request), Before(r, file'[i])
       PROVE  r \in ToSet(file')
  <2>1. CASE i \in DOMAIN file
    BY <1>6, <1>9, <1>10, <1>13, <2>1 DEF ResumesWhereItStopped
  <2>2. CASE i \notin DOMAIN file
    <3>1. file'[i] = row
      BY <1>9, <2>2
    <3> QED BY <1>7, <1>10, <1>13, <3>1
  <2> QED BY <2>1, <2>2
<1>14. ResumesWhereItStopped'
  <2>1. Wanted(request)' = Wanted(request) /\ ToSet(file)' = ToSet(file')
    BY <1>1
  <2> QED BY <1>11, <1>12, <1>13, <2>1 DEF ResumesWhereItStopped
<1>15. InOrder'
  <2>1. \A m \in NCSlist \ {Least}, n \in NCSs : m <= n => n \in NCSlist \ {Least}
    BY <1>2, <1>3, <1>6 DEF InOrder
  <2> QED BY <1>1, <2>1 DEF InOrder
<1>16. ASSUME NEW r \in Wanted(request)
       PROVE  r \in ToSet(file') <=> Saved(r)'
  <2>1. Saved(r)' <=> r.conf < iConf \/ (r.conf = iConf /\ r.NCS \notin NCSlist \ {Least})
    BY <1>1 DEF Saved
  <2> QED BY <1>6, <1>8, <1>10, <2>1
<1>17. ToSet(file)' = ToSet(file') /\ Wanted(request)' = Wanted(request)
  BY <1>1
<1> QED BY <1>1, <1>14, <1>15, <1>16, <1>17 DEF TableOK

\* The other steps leave the table alone; the loops go on to the next row.
LEMMA TableStep == ASSUME Files, TableOK, [Next]_vars PROVE TableOK'
PROOF
<1>1. /\ NCSs \subseteq Nat /\ NCSlist \subseteq NCSs /\ iConf \in Int
      /\ \A r \in Wanted(request) : r.conf \in Int /\ r.NCS \in NCSs
  BY RequestOK, ConfsAssumption DEF Files, LoopsOK, Wanted
<1>2. ASSUME UNCHANGED <<file, request>>,
             pc' # "idle" => \A r \in Wanted(request) : Saved(r)' <=> r \in ToSet(file),
             pc' \in {"ncs", "rough", "fine", "found"} => InOrder'
      PROVE  TableOK'
  <2>1. ToSet(file)' = ToSet(file) /\ Wanted(request)' = Wanted(request)
    BY <1>2
  <2>2. ResumesWhereItStopped'
    BY <1>2, <2>1 DEF TableOK, ResumesWhereItStopped
  <2> QED BY <1>2, <2>1, <2>2 DEF TableOK
<1>3. CASE Call(request)
  BY <1>3, CallResumes
<1>4. CASE NextConf
  <2>1. /\ pc = "conf" /\ pc' = "ncs" /\ NCSlist' = {n \in NCSs : n > NCSused}
        /\ UNCHANGED <<file, request, iConf>> /\ NCSused \in NCSs \cup {-1}
    BY <1>4 DEF NextConf, Files, LoopsOK
  <2>2. ASSUME NEW r \in Wanted(request)
        PROVE  Saved(r)' <=> Saved(r)
    <3>1. r.NCS \in Nat /\ r.NCS \in NCSs /\ NCSused \in Int
      <4>1. r.NCS \in NCSs /\ NCSs \subseteq Nat /\ NCSused \in NCSs \cup {-1}
        BY <1>1, <2>1
      <4>2. NCSused \in NCSs \/ NCSused = -1
        BY <4>1
      <4>3. \A n : n \in NCSs => n \in Int
        BY <4>1
      <4>4. NCSused \in Int
        BY <4>2, <4>3
      <4>5. r.NCS \in Nat
        BY <4>1
      <4> QED BY <4>1, <4>4, <4>5
    <3>2. r.NCS <= NCSused <=> r.NCS \notin NCSlist'
      BY <2>1, <3>1
    <3>3. Saved(r)' <=> r.conf < iConf \/ (r.conf = iConf /\ r.NCS \notin NCSlist')
      BY <2>1 DEF Saved
    <3>4. Saved(r) <=> r.conf < iConf \/ (r.conf = iConf /\ r.NCS <= NCSused)
      BY <2>1 DEF Saved
    <3> QED BY <3>2, <3>3, <3>4
  <2>3. InOrder'
    BY <1>1, <2>1 DEF InOrder
  <2> QED BY <1>2, <2>1, <2>2, <2>3 DEF TableOK
<1>5. CASE NextNCS
  <2>1. /\ pc = "ncs" /\ UNCHANGED <<file, request, NCSlist>> /\ NCSused' = -1 /\ InOrder
    BY <1>5 DEF NextNCS, Files, LoopsOK, TableOK
  <2>2. CASE NCSlist # {}
    <3>1. pc' = "rough" /\ iConf' = iConf
      BY <1>5, <2>2 DEF NextNCS
    <3> QED BY <1>2, <2>1, <3>1 DEF TableOK, Saved, InOrder
  <2>3. CASE NCSlist = {}
    <3>1. pc' = "conf" /\ iConf' = iConf + 1
      BY <1>5, <2>3 DEF NextNCS
    <3>2. ASSUME NEW r \in Wanted(request)
          PROVE  Saved(r)' <=> Saved(r)
      <4>1. Saved(r)' <=> r.conf < iConf + 1 \/ (r.conf = iConf + 1 /\ r.NCS <= -1)
        BY <2>1, <3>1 DEF Saved
      <4>2. Saved(r) <=> r.conf < iConf \/ r.conf = iConf
        BY <2>1, <2>3 DEF Saved
      <4>3. r.conf \in Int /\ r.NCS \in Nat
        BY <1>1
      <4> QED BY <1>1, <4>1, <4>2, <4>3
    <3> QED BY <1>2, <2>1, <3>1, <3>2 DEF TableOK
  <2> QED BY <2>2, <2>3
<1>6. CASE Iterate \/ RoughEnds \/ FineEnds
  <2>1. /\ pc \in {"rough", "fine"} /\ pc' \in {"rough", "fine", "found"}
        /\ UNCHANGED <<file, request, iConf, NCSlist>>
    BY <1>6 DEF Iterate, RoughEnds, FineEnds, table
  <2> QED BY <1>2, <2>1 DEF TableOK, Saved, InOrder
<1>7. CASE SaveRow
  BY <1>7, SaveRowResumes
<1>8. CASE Finish \/ Refused \/ Interrupt
  BY <1>2, <1>8 DEF Finish, Refused, Interrupt, Return
<1>9. CASE UNCHANGED vars
  BY <1>2, <1>9 DEF vars, table, TableOK, Saved, InOrder
<1> QED BY <1>3, <1>4, <1>5, <1>6, <1>7, <1>8, <1>9 DEF Next, Run

-----------------------------------------------------------------------------
\* There is no table at first.
LEMMA InitTable == Init => OnTheGrid /\ Files /\ TableOK
PROOF
<1> SUFFICES ASSUME Init PROVE OnTheGrid /\ Files /\ TableOK
  OBVIOUS
<1>1. OnTheGrid
  BY ThresholdsAssumption DEF Init, OnTheGrid, RoughSearch, NewSearch
<1>2. Files
  BY ConfsAssumption DEF Init, Files, LoopsOK, NoFile
<1>3. ToSet(file) = {} /\ DOMAIN file = {}
  BY DEF Init, NoFile, ToSet
<1>4. TableOK
  BY <1>3 DEF Init, TableOK, ResumesWhereItStopped
<1> QED BY <1>1, <1>2, <1>4

\* Types: of the loops, of the searches, for any grid, rates, configurations and shifts.
THEOREM TypesHold == Spec => []TypeOK
PROOF
<1>1. Init => OnTheGrid /\ Files
  BY InitTable
<1>2. (Inv /\ OnTheGrid /\ Files) /\ [Next]_vars => (OnTheGrid /\ Files)'
  BY GridStep, FilesStep
<1>3. Inv /\ OnTheGrid /\ Files => TypeOK
  BY TypesFollow
<1> QED BY <1>1, <1>2, <1>3, InvHolds, PTL DEF Spec

\* Wherever calls are interrupted, the table has the rows that one call would have written
\* so far, for any number of configurations and cyclic shifts.
THEOREM TableIsResumed == Spec => []ResumesWhereItStopped
PROOF
<1>1. Init => Files /\ TableOK
  BY InitTable
<1>2. Files /\ TableOK /\ [Next]_vars => (Files /\ TableOK)'
  BY FilesStep, TableStep
<1>3. TableOK => ResumesWhereItStopped
  BY DEF TableOK
<1> QED BY <1>1, <1>2, <1>3, PTL DEF Spec

-----------------------------------------------------------------------------
(***************************************************************************)
(* Every step of a call brings it nearer to its end.                       *)
(*                                                                         *)
(* In a search, an iteration narrows the bracket unless it goes from one   *)
(* end to the other.  It may do so once because the other end has not been *)
(* simulated, once because the value kept for it has been halved, and      *)
(* once more with the values of both.  The next false position is then the *)
(* last again, and the search goes towards the centre.                     *)
(***************************************************************************)

\* The end of the bracket that is not the last threshold, and the value kept for it.
OtherEnd(s) == IF s.th = s.lower THEN s.upper ELSE s.lower
OtherValue(s) == IF s.th = s.lower THEN s.Fupper ELSE s.Flower

\* How many times the search may go from one end of the bracket to the other, when PFAs
\* known have been simulated.
Turns(s, known) ==
    IF s.th \notin DOMAIN known THEN 3
    ELSE IF OtherEnd(s) \notin DOMAIN known THEN 2
    ELSE IF OtherValue(s) # F(known[OtherEnd(s)] - targetPFA) THEN 2
    ELSE IF Between(s) = OtherEnd(s) THEN 1 ELSE 0

Width(s) == s.upper - s.lower

\* No search goes on for more iterations than this.
Left == 4 * Width(Bracket(search)) + Turns(Bracket(search), curve)

\* Records that a search is updated to.
LEMMA Updates ==
    ASSUME NEW s, IsSearch(s), NEW x, NEW f, NEW g
    PROVE  /\ LET t == [s EXCEPT !.upper = x]
              IN  t.lower = s.lower /\ t.upper = x /\ t.th = s.th /\ t.pfa = s.pfa
                  /\ t.oldF = s.oldF /\ t.bootstrap = s.bootstrap
                  /\ t.Flower = s.Flower /\ t.Fupper = s.Fupper
           /\ LET t == [s EXCEPT !.bootstrap = FALSE, !.upper = x, !.Fupper = f, !.Flower = g]
              IN  t.lower = s.lower /\ t.upper = x /\ t.th = s.th /\ t.pfa = s.pfa
                  /\ t.oldF = s.oldF /\ ~t.bootstrap /\ t.Flower = g /\ t.Fupper = f
           /\ LET t == [s EXCEPT !.th = x, !.pfa = f, !.oldF = g]
              IN  t.lower = s.lower /\ t.upper = s.upper /\ t.th = x /\ t.pfa = f
                  /\ t.oldF = g /\ t.bootstrap = s.bootstrap
                  /\ t.Flower = s.Flower /\ t.Fupper = s.Fupper
BY DEF IsSearch

\* A PFA above the target makes the last threshold the lower end.
LEMMA BracketAbove ==
    ASSUME NEW s, IsSearch(s), s.pfa > targetPFA
    PROVE  LET b == Bracket(s)
           IN  /\ ~b.bootstrap /\ b.Flower = F(s.pfa - targetPFA)
               /\ ~(s.oldF > 0) => b.Fupper = s.Fupper
PROOF
<1>1. s.pfa \in Int /\ targetPFA \in Int /\ ~(s.pfa - targetPFA < 0) /\ s.pfa - targetPFA > 0
  BY TargetAssumption DEF IsSearch
<1> DEFINE f == F(s.pfa - targetPFA)
           g == IF s.oldF > 0 THEN Halved(s.Fupper) ELSE s.Fupper
<1>2. Bracket(s) = [s EXCEPT !.bootstrap = FALSE, !.lower = s.th, !.Flower = f, !.Fupper = g]
  BY <1>1 DEF Bracket
<1>3. ~(s.oldF > 0) => g = s.Fupper
  OBVIOUS
<1> HIDE DEF f, g
<1>4. ~Bracket(s).bootstrap /\ Bracket(s).Flower = f /\ Bracket(s).Fupper = g
  BY <1>2 DEF IsSearch
<1> QED BY <1>3, <1>4 DEF f

\* Another makes it the upper end.
LEMMA BracketBelow ==
    ASSUME NEW s, IsSearch(s), s.pfa <= targetPFA, ~(s.bootstrap /\ s.pfa < targetPFA)
    PROVE  LET b == Bracket(s)
           IN  /\ ~b.bootstrap /\ b.Fupper = F(s.pfa - targetPFA)
               /\ ~(s.oldF < 0) => b.Flower = s.Flower
PROOF
<1>1. /\ s.pfa \in Int /\ targetPFA \in Int
      /\ ~(s.bootstrap /\ s.pfa - targetPFA < 0) /\ ~(s.pfa - targetPFA > 0)
  BY TargetAssumption DEF IsSearch
<1> DEFINE f == F(s.pfa - targetPFA)
           g == IF s.oldF < 0 THEN Halved(s.Flower) ELSE s.Flower
<1>2. Bracket(s) = [s EXCEPT !.bootstrap = FALSE, !.upper = s.th, !.Fupper = f, !.Flower = g]
  BY <1>1 DEF Bracket
<1>3. ~(s.oldF < 0) => g = s.Flower
  OBVIOUS
<1> HIDE DEF f, g
<1>4. ~Bracket(s).bootstrap /\ Bracket(s).Fupper = f /\ Bracket(s).Flower = g
  BY <1>2, Updates
<1> QED BY <1>3, <1>4 DEF f

\* The bracket is still bisected.
LEMMA BracketBisected ==
    ASSUME NEW s, IsSearch(s), s.bootstrap, s.pfa < targetPFA
    PROVE  Bracket(s).bootstrap
PROOF
<1>1. s.pfa - targetPFA < 0
  BY TargetAssumption DEF IsSearch
<1>2. Bracket(s) = [s EXCEPT !.upper = s.th]
  BY <1>1, Zenon DEF Bracket
<1> QED BY <1>2, Updates

\* A move towards the centre goes inside.
LEMMA CentredInside ==
    ASSUME NEW s, IsSearch(s), s.th = s.lower \/ s.th = s.upper,
           NEW th \in Centred(s, s.th), th # s.th
    PROVE  s.lower < th /\ th < s.upper
PROOF
<1> DEFINE mTH == s.upper + s.lower - 2 * s.th
           r == Round(4 * s.th + mTH, 4)
<1>1. s.lower \in Int /\ s.upper \in Int /\ s.th \in Int /\ s.lower <= s.upper
  BY DEF IsSearch
<1>2. mTH \in Int /\ (mTH = s.upper - s.lower \/ mTH = s.lower - s.upper)
  BY <1>1
<1>3. Abs(mTH) = s.upper - s.lower
  BY <1>1, <1>2 DEF Abs
<1>4. Centred(s, s.th) = (IF Abs(mTH) >= 4 THEN {r} ELSE {})
                         \cup (IF Abs(mTH) <= 4 THEN {s.th} ELSE {})
  BY Zenon DEF Centred
<1>5. r = (2 * (4 * s.th + mTH) + 4) \div 8
  BY <1>1 DEF Round
<1>6. s.upper - s.lower >= 4 => s.lower < r /\ r < s.upper
  BY <1>1, <1>2, <1>5
<1> HIDE DEF mTH, r
<1>7. th = r /\ Abs(mTH) >= 4
  BY <1>4
<1> QED BY <1>3, <1>6, <1>7

\* A search goes from one end to the other only by false position.
LEMMA Turned ==
    ASSUME NEW s, IsSearch(s), s.th = s.lower \/ s.th = s.upper,
           s.bootstrap => s.th = s.upper,
           NEW th \in NewThresholds(s), th # s.th, th = s.lower \/ th = s.upper
    PROVE  ~s.bootstrap /\ th = Between(s)
PROOF
<1>1. s.lower \in Int /\ s.upper \in Int /\ s.th \in Int /\ s.lower <= s.upper
  BY DEF IsSearch
<1>2. th = Between(s)
  <2>1. CASE Between(s) = s.th
    <3>1. th \in Centred(s, s.th)
      BY <2>1 DEF NewThresholds
    <3> QED BY <1>1, <3>1, CentredInside
  <2>2. CASE Between(s) # s.th
    BY <2>2 DEF NewThresholds
  <2> QED BY <2>1, <2>2
<1>3. ASSUME s.bootstrap PROVE FALSE
  <2>1. Between(s) = (2 * (s.lower + s.upper) + 2) \div 4
    BY <1>3 DEF Between, Round
  <2> QED BY <1>1, <1>2, <1>3, <2>1
<1> QED BY <1>2, <1>3

\* An iteration of estimateThreshold narrows the bracket, or is one of the few that do not.
LEMMA IterateAdvances == ASSUME Inv, Iterate PROVE Left \in Nat /\ Left' \in Nat /\ Left' < Left
PROOF
<1> DEFINE s == Bracket(search)
           o == Sign(search.pfa - targetPFA)
           b == Bracket(search')
<1>1. PICK th \in NewThresholds(s) :
        /\ th # search.th
        /\ \E p \in Simulated(curve, th) :
            /\ search' = [s EXCEPT !.th = th, !.pfa = p, !.oldF = o]
            /\ curve' = [t \in (DOMAIN curve \cup {th}) \cap s.lower..s.upper |->
                            IF t = th THEN p ELSE curve[t]]
  BY DEF Iterate
<1>2. PICK p \in Simulated(curve, th) :
        /\ search' = [s EXCEPT !.th = th, !.pfa = p, !.oldF = o]
        /\ curve' = [t \in (DOMAIN curve \cup {th}) \cap s.lower..s.upper |->
                        IF t = th THEN p ELSE curve[t]]
  BY <1>1
<1>3. /\ IsSearch(search) /\ IsSearch(s) /\ s.th = search.th /\ s.pfa = search.pfa /\ CurveOK
      /\ \A t \in NewThresholds(s) : t \in Int /\ s.lower <= t /\ t <= s.upper
      /\ search.pfa > targetPFA => s.lower = search.th /\ s.upper = search.upper
      /\ search.pfa <= targetPFA => s.upper = search.th /\ s.lower = search.lower
  BY NarrowerOK, BracketOK DEF Inv
<1>4. /\ search'.lower = s.lower /\ search'.upper = s.upper /\ search'.th = th
      /\ search'.pfa = p /\ search'.oldF = o /\ search'.bootstrap = s.bootstrap
      /\ search'.Flower = s.Flower /\ search'.Fupper = s.Fupper
  BY <1>2, <1>3, Updates
<1>5. IsSearch(search')
  <2>1. Inv'
    BY IterateOK
  <2> QED BY <2>1 DEF Inv, IsSearch
<1>6. /\ IsSearch(b) /\ b.th = th /\ b.pfa = p
      /\ p > targetPFA => b.lower = th /\ b.upper = s.upper
      /\ p <= targetPFA => b.upper = th /\ b.lower = s.lower
  BY <1>4, <1>5, BracketOK
<1>7. /\ th \in Int /\ s.lower <= th /\ th <= s.upper /\ th # s.th /\ p \in Int
      /\ s.lower \in Int /\ s.upper \in Int /\ s.th \in Int /\ search.pfa \in Int /\ targetPFA \in Int
      /\ s.th = s.lower \/ s.th = s.upper
  <2>1. p \in Int
    BY ThresholdsAssumption DEF Simulated
  <2>2. search.pfa \in Int /\ targetPFA \in Int /\ (search.pfa > targetPFA \/ search.pfa <= targetPFA)
    BY <1>3, TargetAssumption DEF IsSearch
  <2>3. s.lower \in Int /\ s.upper \in Int /\ s.th \in Int
    BY <1>3 DEF IsSearch
  <2> HIDE DEF s, o, b
  <2> QED BY <1>1, <1>3, <2>1, <2>2, <2>3
<1>8. /\ DOMAIN curve' = (DOMAIN curve \cup {th}) \cap s.lower..s.upper
      /\ \A t \in DOMAIN curve' : curve'[t] = IF t = th THEN p ELSE curve[t]
      /\ th \in DOMAIN curve'
  BY <1>2, <1>7
<1>9. Width(s) \in Nat /\ Width(b) \in Nat /\ Width(b) <= Width(s)
  <2>1. p > targetPFA \/ p <= targetPFA
    BY <1>7
  <2> HIDE DEF s, o, b
  <2> QED BY <1>6, <1>7, <2>1 DEF Width
<1>10. Turns(s, curve) \in 0..3 /\ Turns(b, curve') \in 0..3
  BY DEF Turns
<1>11. ASSUME Width(b) = Width(s)
       PROVE  Turns(b, curve') < Turns(s, curve)
  <2>1. \/ s.th = s.upper /\ th = s.lower /\ p > targetPFA /\ search.pfa <= targetPFA
        \/ s.th = s.lower /\ th = s.upper /\ p <= targetPFA /\ search.pfa > targetPFA
    <3>1. (p > targetPFA \/ p <= targetPFA) /\ (search.pfa > targetPFA \/ search.pfa <= targetPFA)
      BY <1>7
    <3> HIDE DEF s, o, b
    <3> QED BY <1>3, <1>6, <1>7, <1>11, <3>1 DEF Width
  <2>2. s.bootstrap => s.th = s.upper
    BY <1>3, <1>7, <2>1, BracketAbove
  <2>3. ~s.bootstrap /\ th = Between(s)
    BY <1>3, <1>7, <2>1, <2>2, Turned
  <2>4. ~(search.bootstrap /\ search.pfa < targetPFA)
    BY <1>3, <2>3, BracketBisected
  <2>5. ~b.bootstrap
        /\ IF th = s.lower
           THEN /\ s.Fupper = F(search.pfa - targetPFA)
                /\ b.Flower = F(p - targetPFA) /\ b.Fupper = s.Fupper
           ELSE /\ s.Flower = F(search.pfa - targetPFA)
                /\ b.Fupper = F(p - targetPFA) /\ b.Flower = s.Flower
    <3>1. CASE s.th = s.upper /\ th = s.lower /\ p > targetPFA /\ search.pfa <= targetPFA
      <4>1. s.Fupper = F(search.pfa - targetPFA)
        BY <1>3, <2>4, <3>1, BracketBelow
      <4>2. ~(o > 0)
        BY <1>7, <3>1 DEF Sign
      <4>3. ~b.bootstrap /\ b.Flower = F(p - targetPFA) /\ b.Fupper = s.Fupper
        BY <1>4, <1>5, <3>1, <4>2, BracketAbove
      <4> QED BY <3>1, <4>1, <4>3
    <3>2. CASE s.th = s.lower /\ th = s.upper /\ p <= targetPFA /\ search.pfa > targetPFA
      <4>1. s.Flower = F(search.pfa - targetPFA)
        BY <1>3, <3>2, BracketAbove
      <4>2. ~(o < 0)
        BY <1>7, <3>2 DEF Sign
      <4>3. ~b.bootstrap /\ b.Fupper = F(p - targetPFA) /\ b.Flower = s.Flower
        BY <1>4, <1>5, <2>3, <3>2, <4>2, BracketBelow
      <4> QED BY <1>7, <3>2, <4>1, <4>3
    <3> QED BY <2>1, <3>1, <3>2
  <2>6. b.lower = s.lower /\ b.upper = s.upper /\ s.lower # s.upper
    <3> HIDE DEF s, o, b
    <3> QED BY <1>6, <1>7, <2>1
  <2>7. OtherEnd(s) = th /\ OtherEnd(b) = s.th
    <3> HIDE DEF s, o, b
    <3> QED BY <1>6, <2>1, <2>6 DEF OtherEnd
  <2>8. OtherValue(b) = F(search.pfa - targetPFA)
    <3> HIDE DEF s, o, b
    <3> QED BY <1>6, <2>1, <2>5, <2>6 DEF OtherValue
  <2> HIDE DEF s, o, b
  <2>9. Turns(b, curve') \in 0..2
    BY <1>6, <1>8 DEF Turns
  <2>10. CASE s.th \notin DOMAIN curve
    <3>1. Turns(s, curve) = 3
      BY <2>10 DEF Turns
    <3> QED BY <2>9, <3>1
  <2>11. CASE s.th \in DOMAIN curve
    <3>1. s.th \in DOMAIN curve' /\ curve'[s.th] = search.pfa
      <4>1. s.th \in s.lower..s.upper
        BY <1>7, <2>1
      <4>2. curve[s.th] = search.pfa
        BY <1>3, <2>11 DEF CurveOK
      <4> QED BY <1>7, <1>8, <2>11, <4>1, <4>2
    <3>2. Turns(b, curve') = IF Between(b) = s.th THEN 1 ELSE 0
      BY <1>6, <1>8, <2>7, <2>8, <3>1 DEF Turns
    <3>3. CASE th \notin DOMAIN curve \/ OtherValue(s) # F(curve[th] - targetPFA)
      <4>1. Turns(s, curve) = 2
        BY <2>7, <2>11, <3>3 DEF Turns
      <4> QED BY <3>2, <4>1
    <3>4. CASE th \in DOMAIN curve /\ OtherValue(s) = F(curve[th] - targetPFA)
      <4>1. Turns(s, curve) = 1
        BY <2>3, <2>7, <2>11, <3>4 DEF Turns
      <4>2. p = curve[th]
        <5>1. curve[th] \in Int /\ p <= curve[th] /\ p >= curve[th]
          BY <1>3, <1>7, <3>4 DEF Simulated, CurveOK
        <5> QED BY <1>7, <5>1
      <4>3. b.Flower = s.Flower /\ b.Fupper = s.Fupper
        BY <1>7, <2>1, <2>5, <2>6, <3>4, <4>2 DEF OtherValue
      <4>4. Between(b) = Between(s)
        BY <2>3, <2>5, <2>6, <4>3, Zenon DEF Between
      <4>5. Between(b) # s.th
        BY <1>7, <2>3, <4>4
      <4> QED BY <3>2, <4>1, <4>5
    <3> QED BY <3>3, <3>4
  <2> QED BY <2>10, <2>11
<1>12. Left = 4 * Width(s) + Turns(s, curve) /\ Left' = 4 * Width(b) + Turns(b, curve')
  BY DEF Left
<1> HIDE DEF s, o, b
<1> QED BY <1>9, <1>10, <1>11, <1>12

\* What is left of a call: configurations, cyclic shifts of this one, and the parts of
\* this one's simulation.
Confs == IF pc = "idle" THEN 0 ELSE request.last + 1 - iConf

Shifts ==
    IF pc = "idle" THEN 0
    ELSE IF pc = "conf" THEN Cardinality(NCSs) + 1 ELSE Cardinality(NCSlist)

Phase ==
    CASE pc = "ncs" -> 4
      [] pc = "rough" -> 3
      [] pc = "fine" -> 2
      [] OTHER -> 1

\* All are natural numbers, and the first of those that change becomes less.
IsLeft == {Confs, Shifts, Phase, Left} \subseteq Nat

Nearer ==
    /\ IsLeft /\ IsLeft'
    /\ \/ Confs' < Confs
       \/ Confs' = Confs /\ Shifts' < Shifts
       \/ Confs' = Confs /\ Shifts' = Shifts /\ Phase' < Phase
       \/ Confs' = Confs /\ Shifts' = Shifts /\ Phase' = Phase /\ Left' < Left

\* What is left is always a natural number.
LEMMA LeftOK == ASSUME Inv PROVE Left \in Nat
PROOF
<1> DEFINE s == Bracket(search)
<1>1. s.lower \in Int /\ s.upper \in Int /\ s.lower <= s.upper
  BY NarrowerOK DEF IsSearch
<1>2. Turns(s, curve) \in 0..3
  BY DEF Turns
<1>3. Width(s) \in Nat
  BY <1>1 DEF Width
<1> HIDE DEF s
<1>4. 4 * Width(s) + Turns(s, curve) \in Nat
  BY <1>2, <1>3
<1> QED BY <1>4 DEF Left, s

\* No more cyclic shifts are left than there are.
LEMMA ShiftsOK ==
    ASSUME IsFiniteSet(NCSs), NEW S, S \subseteq NCSs
    PROVE  /\ IsFiniteSet(S) /\ Cardinality(S) \in Nat /\ Cardinality(NCSs) \in Nat
           /\ Cardinality(S) <= Cardinality(NCSs)
BY FS_Subset, FS_CardinalityType

\* What is left of a call is natural numbers.
LEMMA CallIsLeft ==
    ASSUME Inv, Files, IsFiniteSet(NCSs)
    PROVE  IsLeft
PROOF
<1>1. Left \in Nat
  BY LeftOK
<1>2. NCSlist \subseteq NCSs /\ NCSs \subseteq NCSs
  BY DEF Files, LoopsOK
<1>3. Shifts \in Nat
  BY <1>2, ShiftsOK DEF Shifts
<1>4. Phase \in Nat
  BY DEF Phase
<1>5. Confs \in Nat
  <2>1. request.last \in Int /\ iConf \in Int
    BY RequestOK DEF Files, LoopsOK
  <2>2. pc # "idle" => iConf <= request.last + 1
    BY <2>1, RequestOK DEF Files, LoopsOK
  <2> QED BY <2>1, <2>2 DEF Confs
<1> QED BY <1>1, <1>3, <1>4, <1>5 DEF IsLeft

\* Each step of a call brings it nearer to its end.
LEMMA RunAdvances ==
    ASSUME Inv, Files, IsFiniteSet(NCSs), IsLeft, IsLeft', Run
    PROVE  Nearer
PROOF
<1>1. IsLeft /\ {Confs, Shifts, Phase, Left} \subseteq Nat
  BY DEF IsLeft
<1>2. IsLeft' /\ {Confs', Shifts', Phase', Left'} \subseteq Nat
  BY DEF IsLeft
<1>3. request.last \in Int /\ iConf \in Int /\ NCSlist \subseteq NCSs
  BY RequestOK DEF Files, LoopsOK
<1>4. CASE NextConf
  <2>1. /\ pc = "conf" /\ pc' = "ncs" /\ request' = request /\ iConf' = iConf
        /\ NCSlist' \subseteq NCSs
    BY <1>4 DEF NextConf
  <2>2. Cardinality(NCSlist') <= Cardinality(NCSs) /\ Cardinality(NCSlist') \in Nat
        /\ Cardinality(NCSs) \in Nat
    BY <2>1, ShiftsOK
  <2>3. Confs' = Confs
    BY <2>1 DEF Confs
  <2>4. Shifts' < Shifts
    BY <2>1, <2>2 DEF Shifts
  <2> QED BY <1>1, <1>2, <2>3, <2>4, Zenon DEF Nearer
<1>5. CASE NextNCS
  <2>1. pc = "ncs" /\ request' = request /\ NCSlist' = NCSlist
    BY <1>5 DEF NextNCS
  <2>2. CASE NCSlist # {}
    <3>1. pc' = "rough" /\ iConf' = iConf
      BY <1>5, <2>2 DEF NextNCS
    <3>2. Confs' = Confs /\ Shifts' = Shifts
      BY <2>1, <3>1 DEF Confs, Shifts
    <3>3. Phase' < Phase
      BY <2>1, <3>1 DEF Phase
    <3> QED BY <1>1, <1>2, <3>2, <3>3, Zenon DEF Nearer
  <2>3. CASE NCSlist = {}
    <3>1. pc' = "conf" /\ iConf' = iConf + 1
      BY <1>5, <2>3 DEF NextNCS
    <3>2. Confs' < Confs
      BY <1>3, <2>1, <3>1 DEF Confs
    <3> QED BY <1>1, <1>2, <3>2, Zenon DEF Nearer
  <2> QED BY <2>2, <2>3
<1>6. CASE Iterate
  <2>1. /\ pc \in {"rough", "fine"} /\ pc' = pc /\ request' = request /\ iConf' = iConf
        /\ NCSlist' = NCSlist
    BY <1>6 DEF Iterate, table
  <2>2. Confs' = Confs /\ Shifts' = Shifts /\ Phase' = Phase
    BY <2>1 DEF Confs, Shifts, Phase
  <2>3. Left' < Left
    BY <1>6, IterateAdvances
  <2> QED BY <1>1, <1>2, <2>2, <2>3, Zenon DEF Nearer
<1>7. CASE RoughEnds \/ FineEnds
  <2>1. /\ (pc = "rough" /\ pc' = "fine") \/ (pc = "fine" /\ pc' = "found")
        /\ request' = request /\ iConf' = iConf /\ NCSlist' = NCSlist
    BY <1>7 DEF RoughEnds, FineEnds, table
  <2>2. Confs' = Confs /\ Shifts' = Shifts
    BY <2>1 DEF Confs, Shifts
  <2>3. Phase' < Phase
    BY <2>1 DEF Phase
  <2> QED BY <1>1, <1>2, <2>2, <2>3, Zenon DEF Nearer
<1>8. CASE SaveRow
  <2>1. /\ pc = "found" /\ pc' = "ncs" /\ request' = request /\ iConf' = iConf
        /\ NCSlist' = NCSlist \ {Least}
    BY <1>8 DEF SaveRow, Least
  <2>2. Least \in NCSlist
    BY <2>1, LeastShift DEF Files, LoopsOK
  <2>3. IsFiniteSet(NCSlist) /\ Cardinality(NCSlist) \in Nat
    BY <1>3, ShiftsOK
  <2>4. Cardinality(NCSlist \ {Least}) = Cardinality(NCSlist) - 1
    BY <2>2, <2>3, FS_RemoveElement
  <2>5. Confs' = Confs
    BY <2>1 DEF Confs
  <2>6. Shifts' < Shifts
    BY <2>1, <2>3, <2>4 DEF Shifts
  <2> QED BY <1>1, <1>2, <2>5, <2>6, Zenon DEF Nearer
<1>9. CASE Finish
  <2>1. pc = "conf" /\ pc' = "idle" /\ iConf > request.last
    BY <1>9 DEF Finish, Return
  <2>2. Cardinality(NCSs) \in Nat
    BY ShiftsOK
  <2>3. Confs' = 0 /\ Shifts' = 0 /\ Shifts > 0
    BY <2>1, <2>2 DEF Confs, Shifts
  <2>4. Confs' < Confs \/ (Confs' = Confs /\ Shifts' < Shifts)
    BY <1>1, <2>3
  <2> QED BY <1>1, <1>2, <2>4, Zenon DEF Nearer
<1>10. CASE Refused
  <2>1. pc \in {"rough", "fine"} /\ pc' = "idle"
    BY <1>10 DEF Refused, Return
  <2>2. Cardinality(NCSs) \in Nat /\ Cardinality(NCSlist) \in Nat /\ NCSlist # {}
    BY <1>3, <2>1, ShiftsOK DEF Files, LoopsOK
  <2>3. Cardinality(NCSlist) # 0
    BY <1>3, <2>2, ShiftsOK, FS_EmptySet
  <2>4. Confs' = 0 /\ Shifts' = 0
    BY <2>1 DEF Confs, Shifts
  <2>5. Confs' < Confs \/ (Confs' = Confs /\ Shifts' < Shifts)
    BY <1>1, <1>3, <2>1, <2>2, <2>3, <2>4 DEF Shifts
  <2> QED BY <1>1, <1>2, <2>5, Zenon DEF Nearer
<1> QED BY <1>4, <1>5, <1>6, <1>7, <1>8, <1>9, <1>10 DEF Run

\* Every iteration of estimateThreshold decreases a natural number: no search goes on for
\* ever, whatever the rates, the target and the grid.
THEOREM SearchesAdvance == Spec => [][Iterate => Left \in Nat /\ Left' \in Nat /\ Left' < Left]_vars
PROOF
<1>1. Inv /\ [Next]_vars => [Iterate => Left \in Nat /\ Left' \in Nat /\ Left' < Left]_vars
  BY IterateAdvances
<1> QED BY <1>1, InvHolds, PTL DEF Spec

\* Every step of a call of PRACHthresholds brings it nearer to its end.
THEOREM CallsAdvance ==
    ASSUME IsFiniteSet(NCSs)
    PROVE  Spec => [][Run => Nearer]_vars
PROOF
<1>1. Init => Files
  BY InitTable
<1>2. Files /\ [Next]_vars => Files'
  BY FilesStep
<1>3. Inv /\ Files => IsLeft
  BY CallIsLeft
<1>4. Inv /\ Files /\ IsLeft /\ IsLeft' /\ [Next]_vars => [Run => Nearer]_vars
  BY RunAdvances
<1> QED BY <1>1, <1>2, <1>3, <1>4, InvHolds, PTL DEF Spec
=============================================================================
