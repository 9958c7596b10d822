-------------------------- MODULE PrachThresholds --------------------------
(***************************************************************************)
(* PRACHthresholds.m: for every PRACH configuration and every cyclic shift *)
(* (NCS), search the detection threshold with the wanted probability of    *)
(* false alarm (PFA), roughly and then finely, and save a row of results   *)
(* in a table.  A call may be interrupted at any time; the next call with  *)
(* the same file goes on where the table ends.                             *)
(*                                                                         *)
(* Thresholds are integers, in units of the grid they are rounded to.  The *)
(* PFA of a threshold is chosen when it is first simulated; it does not    *)
(* grow with the threshold (the random numbers are always the same).       *)
(***************************************************************************)
EXTENDS Integers, Sequences, SequencesExt

CONSTANTS
    NConfs,         \* Number of configurations (loadconfs).
    NCSs,           \* Cyclic shifts (getNCS), the same for all formats here.
    Requests,       \* Arguments FORMAT and SCS: first and last configuration.
    MaxTH,          \* The first threshold, 2 in units of the grid.
    PFAs,           \* PFA values a simulation may give.
    targetPFA,      \* The wanted PFA ...
    fineLow,        \* ... the lowest accepted by the fine search ...
    roughLow,       \* ... and by the rough one, which accepts up to ...
    roughHigh       \* ... this value, and takes it for the PFA of threshold 0.

ASSUME ConfsAssumption == NConfs \in Nat \ {0} /\ NCSs \subseteq Nat /\ NCSs # {}
ASSUME RequestsAssumption ==
    Requests \subseteq {r \in [first : 1..NConfs, last : 1..NConfs] : r.first <= r.last}
ASSUME ThresholdsAssumption == MaxTH \in Nat \ {0} /\ PFAs \subseteq Nat /\ 0 \in PFAs
ASSUME TargetAssumption ==
    {targetPFA, fineLow, roughLow, roughHigh} \subseteq Nat /\
    0 < roughLow /\ roughLow <= fineLow /\ fineLow <= targetPFA /\ targetPFA < roughHigh

VARIABLES
    file,           \* The rows in the file: a sequence of [conf, NCS].
    \* Local variables of PRACHthresholds.
    pc,             \* "idle", "conf", "ncs", "rough", "fine" or "found".
    request,        \* The arguments.
    iConf,          \* Configuration being simulated.
    NCSused,        \* Last NCS in the table, -1 when none has to be skipped.
    NCSlist,        \* NCS values left; the smallest is being simulated.
    \* Local variables of estimateThreshold.
    search,         \* The bracket and what the last simulations gave.
    curve           \* PFA of the thresholds simulated (those in the bracket).

\* The file does not exist: the table is saved only after a row is written.
NoFile == <<>>

table == <<file, request, iConf, NCSused, NCSlist>>
vars == <<table, pc, search, curve>>

\* Values of the method of false position: num / den.
F(num) == [num |-> num, den |-> 1]
Halved(f) == [f EXCEPT !.den = 2 * @]

Searches ==
    [lower : 0..MaxTH, upper : 0..MaxTH,
     Flower : [num : Int, den : Nat \ {0}], Fupper : [num : Int, den : Nat \ {0}],
     oldF : -1..1, th : 0..MaxTH, pfa : PFAs, bootstrap : BOOLEAN]

Rows == [conf : 1..NConfs, NCS : NCSs]

TypeOK ==
    /\ file \in Seq(Rows)
    /\ pc \in {"idle", "conf", "ncs", "rough", "fine", "found"}
    /\ request \in Requests
    /\ iConf \in 1..NConfs+1
    /\ NCSused \in NCSs \cup {-1}
    /\ NCSlist \subseteq NCSs
    /\ search \in Searches
    /\ DOMAIN curve \subseteq 0..MaxTH /\ \A t \in DOMAIN curve : curve[t] \in PFAs

-----------------------------------------------------------------------------
(***************************************************************************)
(* estimateThreshold.                                                      *)
(***************************************************************************)

\* Before the first iteration of a search in a bracket.
NewSearch(lower, upper, Flower, Fupper, bootstrap) ==
    [lower |-> lower, upper |-> upper, Flower |-> Flower, Fupper |-> Fupper,
     oldF |-> -1, th |-> upper, pfa |-> 0, bootstrap |-> bootstrap]

RoughSearch == NewSearch(0, MaxTH, F(roughHigh), F(-targetPFA), TRUE)

Accepted(pfa) ==
    IF pc = "rough" THEN roughLow <= pfa /\ pfa <= roughHigh
                    ELSE fineLow <= pfa /\ pfa <= targetPFA

Sign(n) == IF n > 0 THEN 1 ELSE IF n < 0 THEN -1 ELSE 0

Abs(n) == IF n < 0 THEN -n ELSE n

\* round(n/d), for natural numbers.
Round(n, d) == (2 * n + d) \div (2 * d)

\* Mutant: the sides of the bracket are confused once bisection is over.
BracketSwapped(s) ==
    LET newF == s.pfa - targetPFA
    IN  IF s.bootstrap /\ newF < 0 THEN [s EXCEPT !.upper = s.th]
        ELSE IF newF > 0
        THEN [s EXCEPT !.bootstrap = FALSE, !.upper = s.th, !.Flower = F(newF)]
        ELSE [s EXCEPT !.bootstrap = FALSE, !.lower = s.th, !.Fupper = F(newF)]

\* The bracket after PFA s.pfa was found for threshold s.th.  A bound that stays
\* for the second time has its value halved (mprime is always 0).
Bracket(s) ==
    LET newF == s.pfa - targetPFA
    IN  IF s.bootstrap /\ newF < 0 THEN [s EXCEPT !.upper = s.th]
        ELSE IF newF > 0
        THEN [s EXCEPT !.bootstrap = FALSE, !.lower = s.th, !.Flower = F(newF),
                       !.Fupper = IF s.oldF > 0 THEN Halved(@) ELSE @]
        ELSE [s EXCEPT !.bootstrap = FALSE, !.upper = s.th, !.Fupper = F(newF),
                       !.Flower = IF s.oldF < 0 THEN Halved(@) ELSE @]

\* The new threshold: bisection or false position.
Between(s) ==
    IF s.bootstrap THEN Round(s.lower + s.upper, 2)
    ELSE LET up == -s.Fupper.num * s.Flower.den
             low == s.Flower.num * s.Fupper.den
         IN  Round(s.lower * up + s.upper * low, up + low)

\* Mutant: the whole way is gone, not a quarter of it.
CentredWhole(s, th) ==
    LET mTH == s.upper + s.lower - 2 * th
    IN  (IF Abs(mTH) >= 4 THEN {th + mTH} ELSE {}) \cup (IF Abs(mTH) <= 4 THEN {th} ELSE {})

\* Mutant: the search is given up at once.
CentredNever(s, th) == IF s.upper >= s.lower THEN {th} ELSE {}

\* Where the search goes on when th does not change: towards the centre of the
\* bracket, or nowhere if the bracket is small.  When |mTH| is 0.004, it depends on
\* rounding errors what the comparison with 0.004 gives.
Centred(s, th) ==
    LET mTH == s.upper + s.lower - 2 * th
    IN  (IF Abs(mTH) >= 4 THEN {Round(4 * th + mTH, 4)} ELSE {})
            \cup (IF Abs(mTH) <= 4 THEN {th} ELSE {})

NewThresholds(s) == IF Between(s) = s.th THEN Centred(s, s.th) ELSE {Between(s)}

\* PFA values that a simulation with threshold th may give.
Simulated(known, th) ==
    {p \in PFAs :
        \A t \in DOMAIN known :
            /\ t <= th => p <= known[t]
            /\ t >= th => p >= known[t]}

\* One iteration of the loop, that simulates a new threshold.
Iterate ==
    /\ pc \in {"rough", "fine"}
    /\ ~Accepted(search.pfa)
    /\ LET s == Bracket(search)
       IN  \E th \in NewThresholds(s) :
            /\ th # search.th /\ th # 0
            /\ \E p \in Simulated(curve, th) :
                  /\ search' = [s EXCEPT !.th = th, !.pfa = p,
                                         !.oldF = Sign(search.pfa - targetPFA)]
                  /\ curve' = [t \in (DOMAIN curve \cup {th}) \cap s.lower..s.upper |->
                                    IF t = th THEN p ELSE curve[t]]
    /\ UNCHANGED <<table, pc>>

\* The search ends: with a PFA in bounds, or because the bracket is too small (in
\* the iteration that breaks the loop, the bracket is updated first).
Ended(s) ==
    IF Accepted(search.pfa) THEN s = search
    ELSE s = Bracket(search) /\ search.th \in NewThresholds(s)

\* From the rough search to the fine one ...
RoughEnds ==
    /\ pc = "rough"
    /\ \E s \in {search, Bracket(search)} :
          /\ Ended(s)
          /\ search' = NewSearch(s.lower, s.upper, s.Flower, s.Fupper, FALSE)
    /\ curve' = [t \in {} |-> 0]
    /\ pc' = "fine"
    /\ UNCHANGED table

\* ... and from there to the detection and TDL simulations.
FineEnds ==
    /\ pc = "fine"
    /\ \E s \in {search, Bracket(search)} : Ended(s) /\ search' = s
    /\ pc' = "found"
    /\ UNCHANGED <<table, curve>>

-----------------------------------------------------------------------------
(***************************************************************************)
(* PRACHthresholds.                                                        *)
(***************************************************************************)
Init ==
    /\ file = NoFile
    /\ pc = "idle"
    /\ request \in Requests
    /\ iConf = 1 /\ NCSused = -1 /\ NCSlist = {}
    /\ search = RoughSearch /\ curve = [t \in {} |-> 0]

\* A call with arguments r reads the file.
Call(r) ==
    /\ pc = "idle"
    /\ request' = r
    /\ IF file = NoFile \/ Last(file).conf \notin r.first..r.last
       THEN iConf' = r.first /\ NCSused' = -1
       ELSE iConf' = Last(file).conf /\ NCSused' = Last(file).NCS
    /\ pc' = "conf"
    /\ UNCHANGED <<file, NCSlist, search, curve>>

\* Mutant: NCSused is not cleared.
NextConfSkips ==
    /\ pc = "conf" /\ iConf <= request.last
    /\ NCSlist' = {n \in NCSs : n > NCSused}
    /\ pc' = "ncs"
    /\ UNCHANGED <<file, request, iConf, NCSused, search, curve>>

\* Mutant: one configuration too many.
NextConfOneMore ==
    /\ pc = "conf" /\ iConf <= request.last + 1
    /\ NCSlist' = {n \in NCSs : n > NCSused}
    /\ NCSused' = -1
    /\ pc' = "ncs"
    /\ UNCHANGED <<file, request, iConf, search, curve>>

\* The loop over configurations.
NextConf ==
    /\ pc = "conf" /\ iConf <= request.last
    /\ NCSlist' = {n \in NCSs : n > NCSused}
    /\ NCSused' = -1
    /\ pc' = "ncs"
    /\ UNCHANGED <<file, request, iConf, search, curve>>

\* The loop over NCS values: another search, or the next configuration.
NextNCS ==
    /\ pc = "ncs"
    /\ IF NCSlist # {}
       THEN pc' = "rough" /\ UNCHANGED iConf
       ELSE pc' = "conf" /\ iConf' = iConf + 1
    /\ search' = RoughSearch /\ curve' = [t \in {} |-> 0]
    /\ UNCHANGED <<file, request, NCSused, NCSlist>>

\* The row is written and the table saved.
SaveRow ==
    LET NCS == CHOOSE n \in NCSlist : \A m \in NCSlist : n <= m
        row == [conf |-> iConf, NCS |-> NCS]
    IN  /\ pc = "found"
        /\ file' = Append(file, row)
        /\ NCSlist' = NCSlist \ {NCS}
        /\ pc' = "ncs"
        /\ UNCHANGED <<request, iConf, NCSused, search, curve>>

\* The local variables are gone.
Return ==
    /\ pc' = "idle"
    /\ iConf' = 1 /\ NCSused' = -1 /\ NCSlist' = {}
    /\ search' = RoughSearch /\ curve' = [t \in {} |-> 0]
    /\ UNCHANGED <<file, request>>

\* The call is over.
Finish == pc = "conf" /\ iConf > request.last /\ Return

\* PRACHPERF refuses threshold 0, which rounding may give, and the call fails.
Refused ==
    /\ pc \in {"rough", "fine"}
    /\ ~Accepted(search.pfa)
    /\ search.th # 0 /\ 0 \in NewThresholds(Bracket(search))
    /\ Return

\* The call is interrupted or fails for another reason; what was saved remains.
Interrupt == pc # "idle" /\ Return

Run == NextConf \/ NextNCS \/ Iterate \/ RoughEnds \/ FineEnds \/ SaveRow \/ Finish \/ Refused

\* Calls with the same arguments, and calls with any.  A call that runs goes on
\* unless it is interrupted.
Next == Run \/ Call(request) \/ Interrupt
Spec == Init /\ [][Next]_vars /\ WF_vars(Run)
MixedSpec == Init /\ [][Next \/ \E r \in Requests : Call(r)]_vars /\ WF_vars(Run)

-----------------------------------------------------------------------------
(***************************************************************************)
(* Properties.                                                             *)
(***************************************************************************)

\* The rows that calls with arguments r write, one configuration after the other and
\* its cyclic shifts in increasing order.
Wanted(r) == [conf : r.first..r.last, NCS : NCSs]

Before(row1, row2) ==
    row1.conf < row2.conf \/ (row1.conf = row2.conf /\ row1.NCS < row2.NCS)

\* Wherever calls are interrupted, the table is what one call would have written
\* so far: no row is missing, repeated or out of order.
ResumesWhereItStopped ==
    /\ ToSet(file) \subseteq Wanted(request)
    /\ \A i, j \in DOMAIN file : i < j => Before(file[i], file[j])
    /\ \A i \in DOMAIN file : \A row \in Wanted(request) :
          Before(row, file[i]) => row \in ToSet(file)

\* "If [...] FILENAME already contains a table of results, the simulation will not
\* rerun the configurations in the table."
NoRerun ==
    file # NoFile => \A i, j \in DOMAIN file : file[i] = file[j] => i = j

\* A search gives a PFA in bounds unless it has narrowed the threshold down to
\* (almost) neighbours.
NarrowsDown ==
    pc = "found" => Accepted(search.pfa) \/ search.upper - search.lower <= 4

\* No threshold between those known to give too many false alarms and those known to
\* give too few is lost: all that were simulated are outside or at the ends of the
\* bracket (but for the last one).
BracketHoldsTarget ==
    \A t \in DOMAIN curve \ {search.th} :
        IF curve[t] > targetPFA THEN t <= search.lower ELSE t >= search.upper

\* Every call comes to an end: no search goes on for ever.
CallsEnd == pc # "idle" ~> pc = "idle"
=============================================================================
