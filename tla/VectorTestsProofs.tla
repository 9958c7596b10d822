-------------------------- MODULE VectorTestsProofs --------------------------
(***************************************************************************)
(* Proofs about VectorTests, for any files that follow the rules, and any  *)
(* number of tests that one process runs.                                  *)
(*                                                                         *)
(* The rules are about the order of steps in one script.  That they are    *)
(* enough is what is proved: objects, the flag for the missing device and  *)
(* failures outlive a test, threads of the unit write while it runs, and   *)
(* any other test of the file may have come before.  TLC checks the rules  *)
(* themselves, as a part of TypeOK, for each file of ocuduVectorTests.     *)
(* They also bound what is left of a test, and let it wait only for a unit *)
(* that was started.                                                       *)
(***************************************************************************)
EXTENDS VectorTests, TLAPS

-----------------------------------------------------------------------------
(***************************************************************************)
(* Scripts.                                                                *)
(***************************************************************************)

\* Before the first step nothing was made, made sure of or written.
LEMMA BeforeFirst ==
    ASSUME NEW s
    PROVE  MadeBefore(s, 1) = {} /\ EnsuredBefore(s, 1) = {} /\ WrittenBefore(s, 1) = {}
BY DEF MadeBefore, EnsuredBefore, WrittenBefore

\* What a step adds to those before it.
LEMMA BeforeNext ==
    ASSUME NEW s, NEW i \in Nat \ {0}
    PROVE  /\ MadeBefore(s, i + 1) = MadeBefore(s, i) \cup Makes(s[i])
           /\ EnsuredBefore(s, i + 1) = EnsuredBefore(s, i) \cup Ensures(s[i])
           /\ WrittenBefore(s, i + 1) = WrittenBefore(s, i) \cup Writes(s[i])
PROOF
<1>1. 1..(i + 1) - 1 = (1..i - 1) \cup {i}
  OBVIOUS
<1> QED BY <1>1, Zenon DEF MadeBefore, EnsuredBefore, WrittenBefore

\* The fields of a step, by what it does.
LEMMA StepFields ==
    ASSUME NEW step \in Steps
    PROVE  /\ step.do = "create" =>
                /\ step.parts \in Seq(STRING) /\ step.after \in Names /\ step.from \in Names
                /\ step.else \in {"failed", "aborted", "null"}
           /\ step.do = "check" => step.objects \in Names /\ step.else = "failed"
           /\ step.do = "device" => step.device \in STRING /\ step.after \in Names
           /\ step.do = "skip" => step.if \in {"no device", "case", "always"}
           /\ step.do = "valid" => step.else \in {"failed", "aborted"}
           /\ step.do \in {"run", "start"} => step.outputs \in Names /\ step.needs \in Names
           /\ step.do = "expect" =>
                step.outputs \in Names /\ step.else \in {"failed", "aborted", "failing"}
BY DEF Steps

\* What the suite made, and made sure of, for the script that runs.
Made == IF test = 0 THEN {} ELSE Parts(Files[file].suite)
Sure == IF test = 0 THEN {} ELSE EnsuredBySuite(Files[file].suite)

\* The script that runs is in order, with respect to the suite.
LEMMA RulesHere ==
    ASSUME FilesFollowRules, TypeOK
    PROVE  /\ Files[file].suite \in Seq(Steps) /\ Files[file].tests \in Seq(Seq(Steps))
           /\ Devices(Files[file].suite) = {}
           /\ Script \in Seq(Steps)
           /\ InOrder(Script, Made, Sure, Files[file].trusts, Files[file].ignores)
           /\ FollowsRules(Files[file])
PROOF
<1> DEFINE f == Files[file]
<1>1. FollowsRules(f)
  BY DEF FilesFollowRules, TypeOK
<1>2. f.suite \in Seq(Steps) /\ f.tests \in Seq(Seq(Steps)) /\ Devices(f.suite) = {}
  BY <1>1 DEF FollowsRules, InOrder
<1>3. test \in 0..Len(f.tests)
  BY DEF TypeOK
<1>4. CASE test = 0
  BY <1>1, <1>2, <1>4 DEF FollowsRules, Script, Made, Sure
<1>5. CASE test # 0
  <2>1. test \in DOMAIN f.tests /\ f.tests[test] \in Seq(Steps)
    BY <1>2, <1>3, <1>5
  <2> QED BY <1>1, <1>2, <1>5, <2>1 DEF FollowsRules, Script, Made, Sure
<1> QED BY <1>4, <1>5

-----------------------------------------------------------------------------
(***************************************************************************)
(* Steps of a test: each goes on to the next step, or ends the test.       *)
(***************************************************************************)
Stays == file' = file /\ test' = test /\ Script' = Script

GoesOn == pc \in 1..Len(Script) /\ pc' = pc + 1 /\ Runs' /\ (verdict' = verdict \/ verdict' = "failing")
Ends == pc' = Len(Script) + 1 /\ ~Runs' /\ verdict' \in Verdicts

\* An assertion, whatever it finds and does.
LEMMA Continues ==
    ASSUME TypeOK, Script \in Seq(Steps), Runs, pc <= Len(Script),
           NEW ok \in BOOLEAN, NEW otherwise \in {"null", "failing", "failed", "aborted", "skipped"},
           Continue(ok, otherwise)
    PROVE  /\ GoesOn \/ Ends
           /\ GoesOn => ok \/ otherwise = "null" \/ verdict' = "failing"
           /\ GoesOn /\ (ok \/ otherwise = "null") => verdict' = verdict
           /\ failed' \in BOOLEAN
PROOF
<1>1. pc \in 1..Len(Script) /\ Len(Script) \in Nat
  BY DEF TypeOK
<1> QED BY <1>1 DEF TypeOK, Continue, GoOn, EndWith, GoesOn, Ends, Runs, Verdicts

\* A step does not change the script.
LEMMA StepStays ==
    ASSUME StepOfTest
    PROVE  Stays /\ Runs /\ tests' = tests
BY DEF StepOfTest, Crash, CreateParts, CheckObjects, FindDevice, Skip, Validate, RunUnit,
       StartUnit, WaitForUnit, Compare, EndTest, AtStep, Stays, Script, Runs

\* No step goes back, waits at its place, or goes on after the end of the test.
LEMMA StepGoesOnOrEnds ==
    ASSUME FilesFollowRules, TypeOK, StepOfTest
    PROVE  (GoesOn \/ Ends) /\ failed' \in BOOLEAN
PROOF
<1>1. Script \in Seq(Steps) /\ Runs
  BY RulesHere, StepStays
<1>2. Len(Script) \in Nat /\ pc \in 1..Len(Script) + 1
  BY <1>1 DEF TypeOK
<1>3. ASSUME pc <= Len(Script)
      PROVE  S \in Steps /\ pc \in 1..Len(Script)
  BY <1>1, <1>2, <1>3 DEF S
<1>4. CASE Crash
  BY <1>4 DEF Crash, EndWith, Ends, Runs, Verdicts, TypeOK
<1>5. CASE CreateParts
  <2>1. S.else \in {"null", "failed", "aborted"} /\ pc <= Len(Script)
    BY <1>3, <1>5, StepFields DEF CreateParts, AtStep, S
  <2>2. PICK ok \in BOOLEAN : Continue(ok, S.else)
    BY <1>5 DEF CreateParts
  <2> QED BY <1>1, <2>1, <2>2, Continues
<1>6. CASE CheckObjects
  <2>1. S.else = "failed" /\ pc <= Len(Script)
    BY <1>3, <1>6, StepFields DEF CheckObjects, AtStep, S
  <2>2. PICK ok \in BOOLEAN : Continue(ok, S.else)
    BY <1>6 DEF CheckObjects, Have
  <2> QED BY <1>1, <2>1, <2>2, Continues
<1>7. CASE FindDevice \/ RunUnit \/ StartUnit \/ WaitForUnit
  <2>1. pc <= Len(Script) /\ GoOn
    BY <1>7 DEF FindDevice, RunUnit, StartUnit, WaitForUnit, AtStep
  <2>2. failed \in BOOLEAN
    BY DEF TypeOK
  <2> QED BY <1>1, <1>2, <2>1, <2>2 DEF GoOn, GoesOn, Runs
<1>8. CASE Skip
  <2>1. PICK ok \in BOOLEAN : Continue(ok, "skipped")
    BY <1>3, <1>8, StepFields DEF Skip, AtStep, S, TypeOK
  <2> QED BY <1>1, <1>8, <2>1, Continues DEF Skip, AtStep
<1>9. CASE Validate
  <2>1. S.else \in {"failed", "aborted"} /\ pc <= Len(Script)
    BY <1>3, <1>9, StepFields DEF Validate, AtStep, S
  <2>2. PICK ok \in BOOLEAN : Continue(ok, S.else)
    BY <1>9 DEF Validate
  <2> QED BY <1>1, <2>1, <2>2, Continues
<1>10. CASE Compare
  <2>1. S.else \in {"failed", "aborted", "failing"} /\ pc <= Len(Script)
    BY <1>3, <1>10, StepFields DEF Compare, AtStep, S
  <2>2. CASE EndWith("raced")
    BY <1>10, <2>2 DEF EndWith, Ends, Runs, Verdicts, TypeOK
  <2>3. CASE \E ok \in BOOLEAN : Continue(ok, S.else)
    BY <1>1, <2>1, <2>3, Continues
  <2> QED BY <1>10, <2>2, <2>3 DEF Compare
<1>11. CASE EndTest
  BY <1>11 DEF EndTest, EndWith, Ends, Runs, Verdicts, TypeOK
<1> QED BY <1>4, <1>5, <1>6, <1>7, <1>8, <1>9, <1>10, <1>11 DEF StepOfTest

\* The creation of objects only adds objects of the script.
LEMMA CreateKeeps ==
    ASSUME FilesFollowRules, TypeOK, CreateParts
    PROVE  /\ S \in Steps /\ S.do = "create"
           /\ outputs' = outputs /\ compared' = compared /\ noDevice' = noDevice
           /\ statics \subseteq statics' /\ locals \subseteq locals'
           /\ statics' \subseteq Parts(Files[file].suite)
           /\ locals' \subseteq IF test = 0 THEN {} ELSE Parts(Script) \cup Devices(Script)
           /\ faults \subseteq faults' /\ faults' \subseteq Faults
PROOF
<1>1. Script \in Seq(Steps) /\ pc \in 1..Len(Script) /\ S \in Steps /\ S.do = "create"
  BY RulesHere DEF CreateParts, AtStep, TypeOK, S
<1>2. S.parts \in Seq(STRING)
  BY <1>1, StepFields
<1>3. PICK made \in 0..Len(S.parts) :
          /\ Keep(ToSet(SubSeq(S.parts, 1, made)))
          /\ faults' = IF made = Len(S.parts) \/ ~Have(S.after) THEN faults ELSE faults \cup {"null"}
  BY <1>2 DEF CreateParts
<1>4. ToSet(SubSeq(S.parts, 1, made)) \subseteq ToSet(S.parts)
  BY <1>2 DEF ToSet
<1>5. ToSet(S.parts) \subseteq Parts(Script)
  BY <1>1 DEF Parts, S
<1>6. test = 0 => Script = Files[file].suite
  BY DEF Script
<1> QED BY <1>1, <1>3, <1>4, <1>5, <1>6 DEF CreateParts, Keep, TypeOK, Faults

\* Outputs that are written replace those written before, and are not compared yet.
LEMMA WriteTypes ==
    ASSUME TypeOK, NEW values, \A o \in DOMAIN values : values[o] \in {"right", "wrong", "pending"},
           Write(values)
    PROVE  /\ DOMAIN outputs' = DOMAIN outputs \cup DOMAIN values
           /\ \A o \in DOMAIN values : outputs'[o] = values[o]
           /\ \A o \in DOMAIN outputs \ DOMAIN values : outputs'[o] = outputs[o]
           /\ \A o \in DOMAIN outputs' : outputs'[o] \in {"right", "wrong", "pending"}
           /\ compared' = compared \ DOMAIN values
           /\ compared' \subseteq DOMAIN outputs'
           /\ faults \subseteq faults' /\ faults' \subseteq Faults
           /\ faults' \subseteq faults \cup {"wrong"}
           /\ (\E o \in DOMAIN values : values[o] = "wrong") => "wrong" \in faults'
BY DEF Write, TypeOK, Faults

\* Until the test ends, outputs are those that its steps so far have had written.
Written == Runs => DOMAIN outputs = WrittenBefore(Script, pc)

\* What each step leaves, besides the verdict.
LEMMA StepTypes ==
    ASSUME FilesFollowRules, TypeOK, Written, StepOfTest
    PROVE  /\ statics \subseteq statics' /\ statics' \subseteq Parts(Files[file].suite)
           /\ locals \subseteq locals'
           /\ locals' \subseteq IF test = 0 THEN {} ELSE Parts(Script) \cup Devices(Script)
           /\ \A o \in DOMAIN outputs' : outputs'[o] \in {"right", "wrong", "pending"}
           /\ compared' \subseteq DOMAIN outputs'
           /\ noDevice' \in BOOLEAN
           /\ faults \subseteq faults' /\ faults' \subseteq Faults
PROOF
<1>1. Script \in Seq(Steps) /\ Runs
  BY RulesHere, StepStays
<1>2. Len(Script) \in Nat /\ pc \in 1..Len(Script) + 1
  BY <1>1 DEF TypeOK
<1>3. ASSUME pc <= Len(Script)
      PROVE  S \in Steps /\ pc \in 1..Len(Script)
  BY <1>1, <1>2, <1>3 DEF S
<1>4. CASE Crash \/ CheckObjects \/ Skip \/ WaitForUnit \/ EndTest
  BY <1>4 DEF Crash, CheckObjects, Skip, WaitForUnit, EndTest, TypeOK
<1>5. CASE CreateParts
  BY <1>5, CreateKeeps DEF TypeOK
<1>6. CASE FindDevice
  <2>1. S \in Steps /\ S.do = "device" /\ pc \in 1..Len(Script)
    BY <1>3, <1>6 DEF FindDevice, AtStep, S
  <2>2. S.device \in Devices(Script)
    BY <2>1 DEF Devices, S
  <2>3. test # 0
    BY <2>2, RulesHere DEF Script
  <2>4. /\ statics' = statics /\ outputs' = outputs /\ compared' = compared
        /\ locals' \in {locals, locals \cup {S.device}}
        /\ noDevice' \in BOOLEAN
        /\ faults' \in {faults, faults \cup {"device"}}
    BY <1>6 DEF FindDevice, TypeOK
  <2> QED BY <2>2, <2>3, <2>4 DEF TypeOK, Faults
<1>7. CASE Validate
  BY <1>7 DEF Validate, TypeOK, Faults
<1>8. CASE RunUnit
  <2>1. PICK values \in Results(S.outputs) : Write(values)
    BY <1>8 DEF RunUnit
  <2> QED BY <1>8, <2>1, WriteTypes DEF RunUnit, Results, TypeOK
<1>9. CASE StartUnit
  <2>1. PICK values : values = [o \in S.outputs |-> "pending"] /\ Write(values)
    BY <1>9 DEF StartUnit
  <2> QED BY <1>9, <2>1, WriteTypes DEF StartUnit, TypeOK
<1>10. CASE Compare
  <2>1. S \in Steps /\ S.do = "expect" /\ pc \in 1..Len(Script)
    BY <1>3, <1>10 DEF Compare, AtStep, S
  <2>2. S.outputs \subseteq WrittenBefore(Script, pc)
    BY <2>1, RulesHere DEF InOrder, S
  <2>3. S.outputs \subseteq DOMAIN outputs
    BY <1>1, <2>2 DEF Written
  <2> QED BY <1>10, <2>3 DEF Compare, TypeOK
<1> QED BY <1>4, <1>5, <1>6, <1>7, <1>8, <1>9, <1>10 DEF StepOfTest

\* Every step preserves the types.
LEMMA TypeStep ==
    ASSUME FilesFollowRules, TypeOK, Written, [Next]_vars
    PROVE  TypeOK'
PROOF
<1>1. Script \in Seq(Steps) /\ Files[file].tests \in Seq(Seq(Steps))
  BY RulesHere
<1>2. ASSUME file' \in DOMAIN Files
      PROVE  pc' = 1 => FollowsRules(Files[file'])
  BY <1>2 DEF FilesFollowRules
<1>3. CASE StepOfTest
  <2>1. Stays /\ tests' = tests
    BY <1>3, StepStays
  <2>2. pc' \in 1..Len(Script) + 1 /\ verdict' \in Verdicts /\ failed' \in BOOLEAN
    <3>1. (GoesOn \/ Ends) /\ failed' \in BOOLEAN
      BY <1>3, StepGoesOnOrEnds
    <3> QED BY <1>1, <3>1 DEF GoesOn, Ends, Runs, Verdicts
  <2> QED BY <1>2, <1>3, <2>1, <2>2, StepTypes DEF TypeOK, Stays
<1>4. CASE UnitEnds
  <2>1. PICK values \in Results(Pending) : Write(values)
    BY <1>4 DEF UnitEnds
  <2>2. Script' = Script
    BY <1>4 DEF UnitEnds, Script
  <2> QED BY <1>2, <1>4, <2>1, <2>2, WriteTypes DEF UnitEnds, Results, TypeOK
<1>5. CASE NextTest
  <2>1. /\ file' = file /\ test' \in 1..Len(Files[file].tests) /\ tests' \in 0..MaxTests
        /\ pc' = 1 /\ verdict' \in Verdicts
    BY <1>5, VectorTestsAssumption DEF NextTest, TypeOK, Verdicts
  <2>2. Script' \in Seq(Steps)
    BY <1>1, <2>1 DEF Script
  <2>3. /\ statics' = statics /\ locals' = {} /\ DOMAIN outputs' = {} /\ compared' = {}
        /\ noDevice' = noDevice /\ failed' = failed /\ faults' \subseteq Faults
    BY <1>5 DEF NextTest, Faults
  <2> QED BY <1>2, <2>1, <2>2, <2>3 DEF TypeOK
<1>6. CASE UNCHANGED vars
  BY <1>6 DEF vars, TypeOK, Script
<1> QED BY <1>3, <1>4, <1>5, <1>6 DEF Next

\* The step that the test is at.
LEMMA StepHere ==
    ASSUME FilesFollowRules, TypeOK, pc <= Len(Script)
    PROVE  pc \in 1..Len(Script) /\ S \in Steps /\ S = Script[pc]
BY RulesHere DEF TypeOK, S

\* Each action is that of its step.
LEMMA AtItsStep ==
    /\ CreateParts => pc <= Len(Script) /\ S.do = "create"
    /\ CheckObjects => pc <= Len(Script) /\ S.do = "check"
    /\ FindDevice => pc <= Len(Script) /\ S.do = "device"
    /\ Skip => pc <= Len(Script) /\ S.do = "skip"
    /\ Validate => pc <= Len(Script) /\ S.do = "valid"
    /\ RunUnit => pc <= Len(Script) /\ S.do = "run"
    /\ StartUnit => pc <= Len(Script) /\ S.do = "start"
    /\ WaitForUnit => pc <= Len(Script) /\ S.do = "wait"
    /\ Compare => pc <= Len(Script) /\ S.do = "expect"
BY DEF CreateParts, CheckObjects, FindDevice, Skip, Validate, RunUnit, StartUnit, WaitForUnit,
       Compare, AtStep, S

\* A test that goes on does so after the action of its step.
LEMMA GoesOnBy ==
    ASSUME FilesFollowRules, TypeOK, StepOfTest, GoesOn
    PROVE  \/ S.do = "create" /\ CreateParts
           \/ S.do = "check" /\ CheckObjects
           \/ S.do = "device" /\ FindDevice
           \/ S.do = "skip" /\ Skip
           \/ S.do = "valid" /\ Validate
           \/ S.do = "run" /\ RunUnit
           \/ S.do = "start" /\ StartUnit
           \/ S.do = "wait" /\ WaitForUnit
           \/ S.do = "expect" /\ Compare
PROOF
<1>1. ~Crash
  BY DEF Crash, EndWith, GoesOn, Runs
<1>2. ~EndTest
  BY RulesHere DEF EndTest, GoesOn
<1> QED BY <1>1, <1>2, AtItsStep DEF StepOfTest

\* Every step preserves Written.
LEMMA WrittenStep ==
    ASSUME FilesFollowRules, TypeOK, Written, [Next]_vars
    PROVE  Written'
PROOF
<1>1. CASE StepOfTest
  <2> SUFFICES ASSUME Runs' PROVE DOMAIN outputs' = WrittenBefore(Script', pc')
    BY DEF Written
  <2>1. GoesOn /\ Stays
    BY <1>1, StepStays, StepGoesOnOrEnds DEF Ends
  <2>2. pc \in Nat \ {0} /\ pc' = pc + 1 /\ S \in Steps /\ S = Script[pc]
    BY <2>1, StepHere, RulesHere DEF GoesOn
  <2>3. WrittenBefore(Script', pc') = WrittenBefore(Script, pc) \cup Writes(S)
    BY <2>1, <2>2, BeforeNext DEF Stays
  <2>4. DOMAIN outputs = WrittenBefore(Script, pc)
    BY <1>1, StepStays DEF Written
  <2>5. CASE RunUnit
    <3>1. PICK values \in Results(S.outputs) : Write(values)
      BY <2>5 DEF RunUnit
    <3>2. Writes(S) = S.outputs
      BY <2>5 DEF Writes, RunUnit, AtStep, S
    <3> QED BY <2>3, <2>4, <3>1, <3>2, WriteTypes DEF Results
  <2>6. CASE StartUnit
    <3>1. PICK values : values = [o \in S.outputs |-> "pending"] /\ Write(values)
      BY <2>6 DEF StartUnit
    <3>2. Writes(S) = S.outputs
      BY <2>6 DEF Writes, StartUnit, AtStep, S
    <3>3. DOMAIN values = S.outputs /\ \A o \in DOMAIN values : values[o] = "pending"
      BY <3>1
    <3> QED BY <2>3, <2>4, <3>1, <3>2, <3>3, WriteTypes
  <2>7. CASE S.do \notin {"run", "start"}
    <3>1. outputs' = outputs
      BY <1>1, <2>1, <2>7, GoesOnBy
         DEF CreateParts, CheckObjects, FindDevice, Skip, Validate, WaitForUnit, Compare
    <3> QED BY <2>3, <2>4, <2>7, <3>1 DEF Writes
  <2>8. S.do = "run" => RunUnit
    BY <1>1, <2>1, GoesOnBy
  <2>9. S.do = "start" => StartUnit
    BY <1>1, <2>1, GoesOnBy
  <2> QED BY <2>5, <2>6, <2>7, <2>8, <2>9
<1>2. CASE UnitEnds
  <2>1. PICK values \in Results(Pending) : Write(values)
    BY <1>2 DEF UnitEnds
  <2> QED BY <1>2, <2>1, WriteTypes DEF UnitEnds, Results, Pending, Written, Runs, Script
<1>3. CASE NextTest
  BY <1>3, BeforeFirst DEF NextTest, Written
<1>4. CASE UNCHANGED vars
  BY <1>4 DEF vars, Written, Runs, Script
<1> QED BY <1>1, <1>2, <1>3, <1>4 DEF Next

-----------------------------------------------------------------------------
(***************************************************************************)
(* The parts of the inductive invariant that the rules speak of.           *)
(***************************************************************************)

\* What the suite makes sure of is there for all tests: a suite that ended in another
\* way than by its last step ended the process.
SuiteKeeps ==
    LET suite == Files[file].suite
    IN  /\ test = 0 /\ OnlyAborts(suite) =>
              /\ verdict \notin {"failing", "failed", "skipped"}
              /\ verdict = "passed" => EnsuredBefore(suite, Len(suite) + 1) \subseteq statics
        /\ Sure \subseteq statics

\* What the steps so far made sure of is there.
EnsuredAreThere == Runs => EnsuredBefore(Script, pc) \subseteq statics \cup locals

\* What the steps so far make is there, unless something was null or the device missing.
DeviceSought == \E j \in 1..pc - 1 : Script[j].do = "device"
MadeUnlessFault ==
    Runs => \/ "null" \in faults
            \/ noDevice /\ DeviceSought
            \/ Made \cup MadeBefore(Script, pc) \subseteq statics \cup locals

\* After the test went past the skip for the missing device, the device is there.
ScreenedFrom(s, k, i) == IsScreen(s[k]) /\ \A l \in k+1..i - 1 : s[l].do # "device"
ScreenKnows == Runs => \A k \in 1..pc - 1 : ScreenedFrom(Script, k, pc) => ~noDevice

\* What threads still write was started, and not yet waited for.
StartedAt(s, j, i) == s[j].do = "start" /\ \A k \in j+1..i - 1 : s[k].do # "wait"
PendingWasStarted == Runs => \A o \in Pending : \E j \in 1..pc - 1 : StartedAt(Script, j, pc)

\* What was compared after it was last written was right, unless the test fails.
ComparedAt(s, o, j, i) ==
    s[j].do = "expect" /\ o \in s[j].outputs /\ \A k \in j+1..i - 1 : o \notin Writes(s[k])
ComparedIsRight ==
    Runs => \/ verdict = "failing"
            \/ \A j \in 1..pc - 1 : \A o \in DOMAIN outputs :
                  ComparedAt(Script, o, j, pc) => o \in compared /\ outputs[o] = "right"

\* Nothing that the file ignores was compared.
IgnoredIsNotCompared == compared \cap Files[file].ignores = {}

\* A wrong output is a fault of the unit.
WrongIsFault == (\E o \in DOMAIN outputs : outputs[o] = "wrong") => "wrong" \in faults

-----------------------------------------------------------------------------
(***************************************************************************)
(* Each of them is preserved.                                              *)
(***************************************************************************)

\* What a step that goes on adds to what was made and made sure of.
LEMMA Advance ==
    ASSUME FilesFollowRules, TypeOK, StepOfTest, GoesOn
    PROVE  /\ Stays /\ Made' = Made /\ Sure' = Sure
           /\ pc \in 1..Len(Script) /\ pc \in Nat \ {0} /\ pc' = pc + 1 /\ Runs /\ Runs'
           /\ S \in Steps /\ S = Script[pc]
           /\ MadeBefore(Script', pc') = MadeBefore(Script, pc) \cup Makes(S)
           /\ EnsuredBefore(Script', pc') = EnsuredBefore(Script, pc) \cup Ensures(S)
PROOF
<1>1. Stays /\ pc \in 1..Len(Script) /\ pc \in Nat \ {0} /\ pc' = pc + 1 /\ Runs /\ Runs'
  BY StepStays, RulesHere DEF GoesOn
<1>2. S \in Steps /\ S = Script[pc]
  BY <1>1, StepHere
<1> QED BY <1>1, <1>2, BeforeNext DEF Stays, Made, Sure

\* A test goes on only with the objects that it checks.
LEMMA CheckFinds ==
    ASSUME FilesFollowRules, TypeOK, CheckObjects, GoesOn
    PROVE  Have(S.objects)
PROOF
<1>1. S.else = "failed"
  BY StepHere, StepFields DEF CheckObjects, AtStep
<1> QED BY <1>1 DEF CheckObjects, Continue, EndWith, GoesOn, Runs

\* A test that goes on has created the objects, unless one was null without an assertion.
LEMMA CreateMakes ==
    ASSUME FilesFollowRules, TypeOK, CreateParts, GoesOn
    PROVE  /\ Have(S.after) => "null" \in faults' \/ Makes(S) \subseteq statics' \cup locals'
           /\ Ensures(S) \subseteq statics' \cup locals'
PROOF
<1>1. S.do = "create" /\ S.parts \in Seq(STRING) /\ S.else \in {"failed", "aborted", "null"}
  BY CreateKeeps, StepFields
<1>2. PICK made \in IF Have(S.after) THEN 0..Len(S.parts) ELSE {0} :
          /\ Keep(ToSet(SubSeq(S.parts, 1, made)))
          /\ faults' = IF made = Len(S.parts) \/ ~Have(S.after) THEN faults ELSE faults \cup {"null"}
          /\ Continue(made = Len(S.parts), S.else)
  BY DEF CreateParts
<1>3. made = Len(S.parts) => Makes(S) \subseteq statics' \cup locals'
  <2> SUFFICES ASSUME made = Len(S.parts) PROVE Makes(S) \subseteq statics' \cup locals'
    OBVIOUS
  <2>1. SubSeq(S.parts, 1, made) = S.parts
    BY <1>1
  <2> QED BY <1>1, <1>2, <2>1 DEF Makes, Keep
<1>4. S.else # "null" => made = Len(S.parts)
  BY <1>1, <1>2 DEF Continue, EndWith, GoesOn, Runs
<1>5. Ensures(S) = IF S.else # "null" THEN Makes(S) ELSE {}
  BY <1>1 DEF Ensures, Makes
<1> QED BY <1>2, <1>3, <1>4, <1>5

\* What is made sure of stays there: a test destroys nothing, and begins with nothing.
LEMMA EnsuredStep ==
    ASSUME FilesFollowRules, TypeOK, Written, EnsuredAreThere, [Next]_vars
    PROVE  EnsuredAreThere'
PROOF
<1>1. CASE StepOfTest
  <2> SUFFICES ASSUME Runs' PROVE EnsuredBefore(Script', pc') \subseteq statics' \cup locals'
    BY DEF EnsuredAreThere
  <2>1. GoesOn
    BY <1>1, StepGoesOnOrEnds DEF Ends
  <2>2. EnsuredBefore(Script, pc) \subseteq statics' \cup locals'
    BY <1>1, <2>1, Advance, StepTypes DEF EnsuredAreThere
  <2>3. Ensures(S) \subseteq statics' \cup locals'
    <3>1. CASE S.do = "create"
      BY <1>1, <2>1, <3>1, GoesOnBy, CreateMakes
    <3>2. CASE S.do = "check"
      BY <1>1, <2>1, <3>2, GoesOnBy, CheckFinds, StepTypes DEF Ensures, Have
    <3>3. CASE S.do \notin {"create", "check"}
      BY <3>3 DEF Ensures
    <3> QED BY <3>1, <3>2, <3>3
  <2> QED BY <1>1, <2>1, <2>2, <2>3, Advance
<1>2. CASE UnitEnds
  BY <1>2 DEF UnitEnds, EnsuredAreThere, Runs, Script
<1>3. CASE NextTest
  BY <1>3, BeforeFirst DEF NextTest, EnsuredAreThere
<1>4. CASE UNCHANGED vars
  BY <1>4 DEF vars, EnsuredAreThere, Runs, Script
<1> QED BY <1>1, <1>2, <1>3, <1>4 DEF Next

\* The tests of a suite of fatal assertions begin only when all of its steps were made.
LEMMA SuiteStep ==
    ASSUME FilesFollowRules, TypeOK, Written, EnsuredAreThere, SuiteKeeps, [Next]_vars
    PROVE  SuiteKeeps'
PROOF
<1> DEFINE suite == Files[file].suite
           ensures == EnsuredBefore(suite, Len(suite) + 1)
<1>1. CASE StepOfTest
  <2>1. Stays /\ Runs /\ Sure' = Sure /\ statics \subseteq statics'
    BY <1>1, StepStays, StepTypes DEF Stays, Sure
  <2> SUFFICES ASSUME test = 0, OnlyAborts(suite)
               PROVE  /\ verdict' \notin {"failing", "failed", "skipped"}
                      /\ verdict' = "passed" => ensures \subseteq statics'
    BY <2>1 DEF SuiteKeeps, Stays
  <2>2. Script = suite /\ verdict = "running" /\ Script \in Seq(Steps)
    BY <2>1, RulesHere DEF Script, SuiteKeeps, Runs
  <2>3. ASSUME pc <= Len(Script)
        PROVE  S.do = "create" /\ S.else \in {"aborted", "null"}
    <3>1. pc \in DOMAIN suite /\ S = suite[pc] /\ S \in Steps
      BY <2>2, <2>3, StepHere
    <3>2. S.do = "create" /\ S.else # "failed"
      BY <3>1 DEF OnlyAborts
    <3> QED BY <3>1, <3>2, StepFields
  <2>4. Crash \/ CreateParts \/ EndTest
    BY <1>1, <2>3, AtItsStep DEF StepOfTest
  <2>5. CASE Crash
    BY <2>5 DEF Crash, EndWith
  <2>6. CASE CreateParts
    <3>1. PICK ok \in BOOLEAN : Continue(ok, S.else)
      BY <2>6 DEF CreateParts
    <3>2. S.else \in {"aborted", "null"}
      BY <2>3, <2>6 DEF CreateParts, AtStep
    <3> QED BY <2>2, <3>1, <3>2 DEF Continue, EndWith, GoOn
  <2>7. CASE EndTest
    <3>1. verdict' = "passed" /\ statics' = statics
      BY <2>2, <2>7 DEF EndTest, EndWith
    <3>2. pc = Len(Script) + 1
      BY <2>2, <2>7 DEF EndTest, TypeOK
    <3>3. locals = {}
      BY DEF TypeOK
    <3> QED BY <2>1, <2>2, <3>1, <3>2, <3>3 DEF EnsuredAreThere
  <2> QED BY <2>4, <2>5, <2>6, <2>7
<1>2. CASE UnitEnds
  BY <1>2 DEF UnitEnds, SuiteKeeps, Sure
<1>3. CASE NextTest
  <2>1. /\ verdict \in {"passed", "failed", "skipped"} /\ test' # 0 /\ statics' = statics
        /\ file' = file
    BY <1>3 DEF NextTest
  <2>2. EnsuredBySuite(suite) \subseteq statics
    <3>1. CASE test = 0
      BY <2>1, <3>1 DEF SuiteKeeps, EnsuredBySuite
    <3>2. CASE test # 0
      BY <3>2 DEF SuiteKeeps, Sure
    <3> QED BY <3>1, <3>2
  <2> QED BY <2>1, <2>2 DEF SuiteKeeps, Sure
<1>4. CASE UNCHANGED vars
  BY <1>4 DEF vars, SuiteKeeps, Sure
<1> QED BY <1>1, <1>2, <1>3, <1>4 DEF Next

\* The flag for the missing device is never taken back.
LEMMA FindKnows ==
    ASSUME FindDevice
    PROVE  /\ noDevice => noDevice'
           /\ Have(S.after) => noDevice' \/ S.device \in locals'
BY DEF FindDevice

\* An object is missing only for a reason, which the test remembers.
LEMMA MadeStep ==
    ASSUME FilesFollowRules, TypeOK, Written, MadeUnlessFault, [Next]_vars
    PROVE  MadeUnlessFault'
PROOF
<1>1. CASE StepOfTest
  <2>1. CASE Ends
    BY <2>1 DEF Ends, MadeUnlessFault
  <2>2. CASE GoesOn
    <3> DEFINE all == Made \cup MadeBefore(Script, pc)
               have == statics \cup locals
    <3>1. /\ Stays /\ Made' = Made /\ pc \in 1..Len(Script) /\ pc' = pc + 1 /\ S = Script[pc]
          /\ MadeBefore(Script', pc') = MadeBefore(Script, pc) \cup Makes(S)
          /\ Runs /\ Runs' /\ S \in Steps
      BY <1>1, <2>2, Advance
    <3>2. faults \subseteq faults' /\ have \subseteq have'
      BY <1>1, StepTypes
    <3>3. (DeviceSought \/ S.do = "device") => DeviceSought'
      BY <3>1 DEF DeviceSought, Stays, TypeOK
    <3>4. S.do # "device" => noDevice' = noDevice
      BY <1>1, <2>2, GoesOnBy DEF CreateParts, CheckObjects, Skip, Validate, RunUnit, StartUnit,
                                  WaitForUnit, Compare
    <3>5. S.do = "device" => FindDevice
      BY <1>1, <2>2, GoesOnBy
    <3>6. S.do \in {"create", "device"} => S.after \subseteq all
      BY <3>1, RulesHere DEF InOrder
    <3>7. CASE "null" \in faults
      BY <3>2, <3>7 DEF MadeUnlessFault
    <3>8. CASE noDevice /\ DeviceSought
      BY <3>3, <3>4, <3>5, <3>8, FindKnows DEF MadeUnlessFault
    <3>9. CASE all \subseteq have
      <4>1. CASE S.do = "create"
        BY <1>1, <2>2, <3>1, <3>2, <3>6, <3>9, <4>1, GoesOnBy, CreateMakes DEF MadeUnlessFault, Have
      <4>2. CASE S.do = "device"
        <5>1. noDevice' \/ S.device \in locals'
          BY <3>5, <3>6, <3>9, <4>2, FindKnows DEF Have
        <5>2. Makes(S) = {S.device}
          BY <4>2 DEF Makes
        <5> QED BY <3>1, <3>2, <3>3, <3>9, <4>2, <5>1, <5>2 DEF MadeUnlessFault
      <4>3. CASE S.do \notin {"create", "device"}
        BY <3>1, <3>2, <3>9, <4>3 DEF MadeUnlessFault, Makes
      <4> QED BY <4>1, <4>2, <4>3
    <3> QED BY <3>1, <3>7, <3>8, <3>9 DEF MadeUnlessFault
  <2> QED BY <1>1, <2>1, <2>2, StepGoesOnOrEnds
<1>2. CASE UnitEnds
  <2>1. faults \subseteq faults'
    BY <1>2 DEF UnitEnds, Write
  <2> QED BY <1>2, <2>1 DEF UnitEnds, MadeUnlessFault, Runs, Script, Made, DeviceSought
<1>3. CASE NextTest
  <2>1. Made' = Parts(Files[file].suite) /\ pc' = 1 /\ statics' = statics
    BY <1>3, RulesHere DEF NextTest, Made
  <2>2. Parts(Files[file].suite) \subseteq statics \/ "null" \in faults'
    BY <1>3 DEF NextTest
  <2> QED BY <2>1, <2>2, BeforeFirst DEF MadeUnlessFault
<1>4. CASE UNCHANGED vars
  BY <1>4 DEF vars, MadeUnlessFault, Runs, Script, Made, DeviceSought
<1> QED BY <1>1, <1>2, <1>3, <1>4 DEF Next

\* Only the search for the device sets the flag, and no test goes past the skip with it.
LEMMA ScreenStep ==
    ASSUME FilesFollowRules, TypeOK, Written, ScreenKnows, [Next]_vars
    PROVE  ScreenKnows'
PROOF
<1>1. CASE StepOfTest
  <2>1. CASE Ends
    BY <2>1 DEF Ends, ScreenKnows
  <2>2. CASE GoesOn
    <3>1. /\ Script' = Script /\ pc \in 1..Len(Script) /\ pc \in Nat \ {0} /\ pc' = pc + 1
          /\ S = Script[pc] /\ Runs
      BY <1>1, <2>2, Advance DEF Stays
    <3> SUFFICES ASSUME NEW k \in 1..pc, ScreenedFrom(Script, k, pc + 1)
                 PROVE  ~noDevice'
      BY <3>1 DEF ScreenKnows
    <3>2. CASE k = pc
      <4>1. S.do = "skip" /\ S.if = "no device"
        BY <3>1, <3>2 DEF ScreenedFrom, IsScreen
      <4>2. Skip
        BY <1>1, <2>2, <4>1, GoesOnBy
      <4>3. Continue(~noDevice, "skipped") /\ noDevice' = noDevice
        BY <4>1, <4>2 DEF Skip
      <4> QED BY <2>2, <4>3 DEF Continue, EndWith, GoesOn, Runs
    <3>3. CASE k # pc
      <4>1. k \in 1..pc - 1 /\ pc \in k+1..(pc + 1) - 1
        BY <3>1, <3>3
      <4>2. ScreenedFrom(Script, k, pc)
        BY <3>1 DEF ScreenedFrom
      <4>3. S.do # "device"
        BY <3>1, <4>1 DEF ScreenedFrom
      <4>4. noDevice' = noDevice
        BY <1>1, <2>2, <4>3, GoesOnBy DEF CreateParts, CheckObjects, Skip, Validate, RunUnit,
                                          StartUnit, WaitForUnit, Compare
      <4> QED BY <3>1, <4>1, <4>2, <4>4 DEF ScreenKnows
    <3> QED BY <3>2, <3>3
  <2> QED BY <1>1, <2>1, <2>2, StepGoesOnOrEnds
<1>2. CASE UnitEnds
  BY <1>2 DEF UnitEnds, ScreenKnows, Runs, Script
<1>3. CASE NextTest
  BY <1>3 DEF NextTest, ScreenKnows
<1>4. CASE UNCHANGED vars
  BY <1>4 DEF vars, ScreenKnows, Runs, Script
<1> QED BY <1>1, <1>2, <1>3, <1>4 DEF Next

\* What the unit writes when it runs, when it starts threads, and when these end.
LEMMA RunWrites ==
    ASSUME TypeOK, RunUnit
    PROVE  /\ Writes(S) = S.outputs
           /\ DOMAIN outputs' = DOMAIN outputs \cup S.outputs
           /\ \A o \in S.outputs : outputs'[o] \in {"right", "wrong"}
           /\ \A o \in DOMAIN outputs \ S.outputs : outputs'[o] = outputs[o]
           /\ compared' = compared \ S.outputs
           /\ faults \subseteq faults'
           /\ (\E o \in S.outputs : outputs'[o] = "wrong") => "wrong" \in faults'
PROOF
<1>1. PICK values \in Results(S.outputs) : Write(values)
  BY DEF RunUnit
<1>2. DOMAIN values = S.outputs /\ \A o \in S.outputs : values[o] \in {"right", "wrong"}
  BY <1>1 DEF Results
<1>3. Writes(S) = S.outputs
  BY AtItsStep DEF Writes
<1> QED BY <1>1, <1>2, <1>3, WriteTypes

\* The outputs of a unit that starts are pending.
LEMMA StartWrites ==
    ASSUME TypeOK, StartUnit
    PROVE  /\ Writes(S) = S.outputs
           /\ DOMAIN outputs' = DOMAIN outputs \cup S.outputs
           /\ \A o \in S.outputs : outputs'[o] = "pending"
           /\ \A o \in DOMAIN outputs \ S.outputs : outputs'[o] = outputs[o]
           /\ compared' = compared \ S.outputs
           /\ faults \subseteq faults'
PROOF
<1>1. PICK values : values = [o \in S.outputs |-> "pending"] /\ Write(values)
  BY DEF StartUnit
<1>2. DOMAIN values = S.outputs /\ \A o \in S.outputs : values[o] = "pending"
  BY <1>1
<1>3. Writes(S) = S.outputs
  BY AtItsStep DEF Writes
<1> QED BY <1>1, <1>2, <1>3, WriteTypes

\* Those of a unit that ends are right or wrong.
LEMMA EndWrites ==
    ASSUME TypeOK, UnitEnds
    PROVE  /\ DOMAIN outputs' = DOMAIN outputs
           /\ \A o \in Pending : outputs'[o] \in {"right", "wrong"}
           /\ \A o \in DOMAIN outputs \ Pending : outputs'[o] = outputs[o]
           /\ compared' = compared \ Pending
           /\ faults \subseteq faults'
           /\ (\E o \in Pending : outputs'[o] = "wrong") => "wrong" \in faults'
PROOF
<1>1. PICK values \in Results(Pending) : Write(values)
  BY DEF UnitEnds
<1>2. DOMAIN values = Pending /\ \A o \in Pending : values[o] \in {"right", "wrong"}
  BY <1>1 DEF Results
<1> QED BY <1>1, <1>2, WriteTypes DEF Pending

\* No other step writes outputs.
LEMMA OutputsKept ==
    ASSUME FilesFollowRules, TypeOK, StepOfTest, ~RunUnit, ~StartUnit
    PROVE  outputs' = outputs
BY DEF StepOfTest, Crash, CreateParts, CheckObjects, FindDevice, Skip, Validate, WaitForUnit,
       Compare, EndTest

\* A wrong output is a fault as soon as it is written.
LEMMA WrongStep ==
    ASSUME FilesFollowRules, TypeOK, Written, WrongIsFault, [Next]_vars
    PROVE  WrongIsFault'
PROOF
<1>1. CASE StepOfTest
  <2>1. faults \subseteq faults'
    BY <1>1, StepTypes
  <2>2. CASE RunUnit
    BY <2>1, <2>2, RunWrites DEF WrongIsFault
  <2>3. CASE StartUnit
    BY <2>1, <2>3, StartWrites DEF WrongIsFault
  <2>4. CASE ~RunUnit /\ ~StartUnit
    BY <1>1, <2>1, <2>4, OutputsKept DEF WrongIsFault
  <2> QED BY <2>2, <2>3, <2>4
<1>2. CASE UnitEnds
  BY <1>2, EndWrites DEF WrongIsFault, Pending
<1>3. CASE NextTest
  <2>1. DOMAIN outputs' = {}
    BY <1>3 DEF NextTest
  <2> QED BY <2>1 DEF WrongIsFault
<1>4. CASE UNCHANGED vars
  BY <1>4 DEF vars, WrongIsFault
<1> QED BY <1>1, <1>2, <1>3, <1>4 DEF Next

\* The test goes past a wait only when nothing is pending.
LEMMA PendingStep ==
    ASSUME FilesFollowRules, TypeOK, Written, PendingWasStarted, [Next]_vars
    PROVE  PendingWasStarted'
PROOF
<1>1. CASE StepOfTest
  <2>1. CASE Ends
    BY <2>1 DEF Ends, PendingWasStarted
  <2>2. CASE GoesOn
    <3>1. /\ Script' = Script /\ pc \in 1..Len(Script) /\ pc \in Nat \ {0} /\ pc' = pc + 1
          /\ S = Script[pc] /\ Runs
      BY <1>1, <2>2, Advance DEF Stays
    <3> SUFFICES ASSUME NEW o \in Pending'
                 PROVE  \E j \in 1..pc : StartedAt(Script, j, pc + 1)
      BY <3>1 DEF PendingWasStarted
    <3>2. CASE S.do = "start" /\ o \in S.outputs
      <4>1. StartedAt(Script, pc, pc + 1)
        BY <3>1, <3>2 DEF StartedAt
      <4> QED BY <3>1, <4>1
    <3>3. CASE ~(S.do = "start" /\ o \in S.outputs)
      <4>1. o \in Pending
        <5>1. CASE RunUnit
          BY <5>1, RunWrites DEF Pending
        <5>2. CASE StartUnit
          BY <3>3, <5>2, StartWrites, AtItsStep DEF Pending
        <5>3. CASE ~RunUnit /\ ~StartUnit
          BY <1>1, <5>3, OutputsKept DEF Pending
        <5> QED BY <5>1, <5>2, <5>3
      <4>2. S.do # "wait"
        <5>1. ~WaitForUnit
          BY <4>1 DEF WaitForUnit
        <5> QED BY <1>1, <2>2, <5>1, GoesOnBy
      <4>3. PICK j \in 1..pc - 1 : StartedAt(Script, j, pc)
        BY <3>1, <4>1 DEF PendingWasStarted
      <4>4. StartedAt(Script, j, pc + 1)
        <5> SUFFICES ASSUME NEW k \in j+1..(pc + 1) - 1 PROVE Script[k].do # "wait"
          BY <4>3 DEF StartedAt
        <5>1. k = pc \/ k \in j+1..pc - 1
          BY <3>1
        <5> QED BY <3>1, <4>2, <4>3, <5>1 DEF StartedAt
      <4> QED BY <3>1, <4>4
    <3> QED BY <3>2, <3>3
  <2> QED BY <1>1, <2>1, <2>2, StepGoesOnOrEnds
<1>2. CASE UnitEnds
  <2>1. Pending' = {}
    BY <1>2, EndWrites DEF Pending
  <2> QED BY <2>1 DEF PendingWasStarted
<1>3. CASE NextTest
  <2>1. Pending' = {}
    BY <1>3 DEF NextTest, Pending
  <2> QED BY <2>1 DEF PendingWasStarted
<1>4. CASE UNCHANGED vars
  BY <1>4 DEF vars, PendingWasStarted, Runs, Script, Pending
<1> QED BY <1>1, <1>2, <1>3, <1>4 DEF Next

\* When outputs are compared, no thread writes any.
LEMMA NothingIsPending ==
    ASSUME FilesFollowRules, TypeOK, PendingWasStarted, Compare
    PROVE  Pending = {}
PROOF
<1> SUFFICES ASSUME NEW o \in Pending PROVE FALSE
  OBVIOUS
<1>1. pc \in 1..Len(Script) /\ S = Script[pc] /\ S.do = "expect" /\ Runs
  BY StepHere, AtItsStep DEF Compare, AtStep
<1>2. Awaited(Script, pc)
  BY <1>1, RulesHere DEF InOrder
<1>3. PICK j \in 1..pc - 1 : StartedAt(Script, j, pc)
  BY <1>1 DEF PendingWasStarted
<1> QED BY <1>2, <1>3 DEF Awaited, StartedAt

\* A comparison finds all outputs right, or the test fails.
LEMMA CompareFinds ==
    ASSUME FilesFollowRules, TypeOK, PendingWasStarted, Compare
    PROVE  /\ outputs' = outputs /\ compared \subseteq compared' /\ verdict' # "raced"
           /\ \/ \A o \in S.outputs : o \in compared' /\ outputs[o] = "right"
              \/ \E o \in S.outputs : outputs[o] # "right"
           /\ (\E o \in S.outputs : outputs[o] # "right") => ~GoesOn \/ verdict' = "failing"
           /\ (\A o \in S.outputs : outputs[o] = "right") => GoOn
PROOF
<1> DEFINE right == {o \in S.outputs : outputs[o] = "right"}
<1>1. S.else \in {"failed", "aborted", "failing"}
  BY AtItsStep, StepHere, StepFields
<1>2. compared' = compared \cup right /\ Continue(right = S.outputs, S.else) /\ outputs' = outputs
  BY NothingIsPending DEF Compare
<1>3. verdict # "raced"
  BY DEF Compare, AtStep, Runs
<1>4. (\E o \in S.outputs : outputs[o] # "right") => ~GoesOn \/ verdict' = "failing"
  BY <1>1, <1>2 DEF Continue, EndWith, GoesOn, Runs
<1>5. (\A o \in S.outputs : outputs[o] = "right") => right = S.outputs
  OBVIOUS
<1> QED BY <1>1, <1>2, <1>3, <1>4, <1>5 DEF Continue, GoOn, EndWith

\* What was compared stays right until it is written again.
LEMMA ComparedStep ==
    ASSUME FilesFollowRules, TypeOK, Written, PendingWasStarted, ComparedIsRight, [Next]_vars
    PROVE  ComparedIsRight'
PROOF
<1>1. CASE StepOfTest
  <2>1. CASE Ends
    BY <2>1 DEF Ends, ComparedIsRight
  <2>2. CASE GoesOn
    <3>1. /\ Script' = Script /\ pc \in 1..Len(Script) /\ pc \in Nat \ {0} /\ pc' = pc + 1
          /\ S = Script[pc] /\ Runs
      BY <1>1, <2>2, Advance DEF Stays
    <3> SUFFICES ASSUME verdict' # "failing", NEW j \in 1..pc, NEW o \in DOMAIN outputs',
                        ComparedAt(Script, o, j, pc + 1)
                 PROVE  o \in compared' /\ outputs'[o] = "right"
      BY <3>1 DEF ComparedIsRight
    <3>2. CASE j = pc
      <4>1. S.do = "expect" /\ o \in S.outputs
        BY <3>1, <3>2 DEF ComparedAt
      <4>2. Compare
        BY <1>1, <2>2, <4>1, GoesOnBy
      <4> QED BY <2>2, <4>1, <4>2, CompareFinds
    <3>3. CASE j # pc
      <4>1. j \in 1..pc - 1 /\ pc \in j+1..(pc + 1) - 1
        BY <3>1, <3>3
      <4>2. ComparedAt(Script, o, j, pc) /\ o \notin Writes(S)
        BY <3>1, <4>1 DEF ComparedAt
      <4>3. verdict # "failing"
        BY <2>2 DEF GoesOn
      <4>4. o \in DOMAIN outputs => o \in compared /\ outputs[o] = "right"
        BY <3>1, <4>1, <4>2, <4>3 DEF ComparedIsRight
      <4>5. CASE RunUnit
        BY <4>2, <4>4, <4>5, RunWrites
      <4>6. CASE StartUnit
        BY <4>2, <4>4, <4>6, StartWrites
      <4>7. CASE ~RunUnit /\ ~StartUnit
        <5>1. outputs' = outputs
          BY <1>1, <4>7, OutputsKept
        <5>2. compared \subseteq compared'
          <6>1. CASE Compare
            BY <6>1, CompareFinds
          <6>2. CASE ~Compare
            BY <1>1, <4>7, <6>2 DEF StepOfTest, Crash, CreateParts, CheckObjects, FindDevice, Skip,
                                    Validate, WaitForUnit, EndTest
          <6> QED BY <6>1, <6>2
        <5> QED BY <4>4, <5>1, <5>2
      <4> QED BY <4>5, <4>6, <4>7
    <3> QED BY <3>2, <3>3
  <2> QED BY <1>1, <2>1, <2>2, StepGoesOnOrEnds
<1>2. CASE UnitEnds
  <2>1. /\ pc' = pc /\ verdict' = verdict /\ Script' = Script
    BY <1>2 DEF UnitEnds, Script
  <2>2. \A o \in DOMAIN outputs' :
            /\ o \in DOMAIN outputs
            /\ o \in compared /\ outputs[o] = "right" => o \in compared' /\ outputs'[o] = "right"
    BY <1>2, EndWrites DEF Pending
  <2> QED BY <2>1, <2>2 DEF ComparedIsRight, Runs
<1>3. CASE NextTest
  BY <1>3 DEF NextTest, ComparedIsRight
<1>4. CASE UNCHANGED vars
  BY <1>4 DEF vars, ComparedIsRight, Runs, Script
<1> QED BY <1>1, <1>2, <1>3, <1>4 DEF Next

\* What is compared is not ignored, by the rules; and what was ignored stays so.
LEMMA IgnoredStep ==
    ASSUME FilesFollowRules, TypeOK, Written, PendingWasStarted, IgnoredIsNotCompared, [Next]_vars
    PROVE  IgnoredIsNotCompared'
PROOF
<1>1. CASE Compare
  <2>1. pc \in DOMAIN Script /\ S = Script[pc] /\ S.do = "expect" /\ file' = file
    BY <1>1, RulesHere DEF Compare, AtStep, S, TypeOK
  <2>2. S.outputs \cap Files[file].ignores = {}
    BY <2>1, RulesHere DEF InOrder
  <2>3. compared' \subseteq compared \cup S.outputs
    BY <1>1 DEF Compare
  <2> QED BY <2>1, <2>2, <2>3 DEF IgnoredIsNotCompared
<1>2. CASE RunUnit \/ StartUnit \/ UnitEnds
  BY <1>2 DEF RunUnit, StartUnit, UnitEnds, Write, IgnoredIsNotCompared
<1>3. CASE NextTest
  BY <1>3 DEF NextTest, IgnoredIsNotCompared
<1>4. CASE UNCHANGED vars
  BY <1>4 DEF vars, IgnoredIsNotCompared
<1>5. CASE Crash \/ CreateParts \/ CheckObjects \/ FindDevice \/ Skip \/ Validate \/ WaitForUnit \/ EndTest
  BY <1>5 DEF Crash, CreateParts, CheckObjects, FindDevice, Skip, Validate, WaitForUnit, EndTest,
              IgnoredIsNotCompared
<1> QED BY <1>1, <1>2, <1>3, <1>4, <1>5 DEF Next, StepOfTest

-----------------------------------------------------------------------------
(***************************************************************************)
(* The properties.                                                         *)
(***************************************************************************)

\* The inductive invariant.
Inv ==
    /\ TypeOK /\ Written /\ EnsuredAreThere /\ SuiteKeeps /\ MadeUnlessFault /\ ScreenKnows
    /\ PendingWasStarted /\ ComparedIsRight /\ IgnoredIsNotCompared /\ WrongIsFault
    /\ NothingNullIsUsed /\ PassComparesAllButIgnored /\ FailMeansFault /\ NothingIsReadEarly

\* What each step may do to the verdict.
LEMMA Outcomes ==
    ASSUME FilesFollowRules, TypeOK, StepOfTest
    PROVE  /\ verdict \in {"running", "failing"}
           /\ Crash => verdict' = "crashed"
           /\ CreateParts => verdict' = verdict \/ verdict' = S.else
           /\ CheckObjects => verdict' = verdict \/ (verdict' = "failed" /\ ~Have(S.objects))
           /\ FindDevice \/ RunUnit \/ StartUnit \/ WaitForUnit => verdict' = verdict
           /\ Skip => \/ verdict' \in {verdict, "skipped"}
                      \/ verdict' = "failed" /\ verdict = "failing"
           /\ Validate => verdict' = verdict \/ verdict' = S.else
           /\ Compare => verdict' \in {verdict, S.else, "raced"}
           /\ EndTest => \/ verdict' = "passed" /\ verdict = "running"
                         \/ verdict' = "failed" /\ verdict = "failing"
PROOF
<1>1. verdict \in {"running", "failing"}
  BY StepStays DEF Runs
<1>2. ASSUME pc <= Len(Script)
      PROVE  /\ S.do = "create" => S.else \in {"failed", "aborted", "null"}
             /\ S.do = "check" => S.else = "failed"
             /\ S.do = "valid" => S.else \in {"failed", "aborted"}
             /\ S.do = "expect" => S.else \in {"failed", "aborted", "failing"}
  BY <1>2, StepHere, StepFields
<1>3. Crash => verdict' = "crashed"
  BY DEF Crash, EndWith
<1>4. CreateParts => verdict' = verdict \/ verdict' = S.else
  <2> SUFFICES ASSUME CreateParts PROVE verdict' = verdict \/ verdict' = S.else
    OBVIOUS
  <2>1. PICK ok \in BOOLEAN : Continue(ok, S.else)
    BY DEF CreateParts
  <2> QED BY <1>2, <2>1, AtItsStep DEF Continue, EndWith, GoOn
<1>5. CheckObjects => verdict' = verdict \/ (verdict' = "failed" /\ ~Have(S.objects))
  BY <1>2, AtItsStep DEF CheckObjects, Continue, EndWith, GoOn
<1>6. FindDevice \/ RunUnit \/ StartUnit \/ WaitForUnit => verdict' = verdict
  BY DEF FindDevice, RunUnit, StartUnit, WaitForUnit, GoOn
<1>7. Skip => verdict' \in {verdict, "skipped"} \/ (verdict' = "failed" /\ verdict = "failing")
  <2> SUFFICES ASSUME Skip
               PROVE  verdict' \in {verdict, "skipped"} \/ (verdict' = "failed" /\ verdict = "failing")
    OBVIOUS
  <2>1. PICK skip : Continue(~skip, "skipped")
    BY DEF Skip
  <2> QED BY <2>1 DEF Continue, EndWith, GoOn
<1>8. Validate => verdict' = verdict \/ verdict' = S.else
  <2> SUFFICES ASSUME Validate PROVE verdict' = verdict \/ verdict' = S.else
    OBVIOUS
  <2>1. PICK ok \in BOOLEAN : Continue(ok, S.else)
    BY DEF Validate
  <2> QED BY <1>2, <2>1, AtItsStep DEF Continue, EndWith, GoOn
<1>9. Compare => verdict' \in {verdict, S.else, "raced"}
  BY <1>2, AtItsStep DEF Compare, Continue, EndWith, GoOn
<1>10. EndTest => \/ verdict' = "passed" /\ verdict = "running"
                  \/ verdict' = "failed" /\ verdict = "failing"
  BY <1>1 DEF EndTest, EndWith
<1> QED BY <1>1, <1>3, <1>4, <1>5, <1>6, <1>7, <1>8, <1>9, <1>10

\* What a step uses is trusted, or was made sure of by the suite or by an earlier step.
LEMMA NullStep ==
    ASSUME FilesFollowRules, Inv, [Next]_vars
    PROVE  NothingNullIsUsed'
PROOF
<1>1. CASE Crash
  <2>1. pc \in 1..Len(Script) /\ S = Script[pc] /\ Runs
    BY <1>1, StepHere DEF Crash, Inv
  <2>2. Uses(S) \subseteq Files[file].trusts \cup Sure \cup EnsuredBefore(Script, pc)
    BY <2>1, RulesHere DEF Inv, InOrder
  <2>3. Sure \subseteq statics /\ EnsuredBefore(Script, pc) \subseteq statics \cup locals
    BY <2>1 DEF Inv, SuiteKeeps, EnsuredAreThere
  <2>4. ~Have(Uses(S))
    BY <1>1 DEF Crash, Uses
  <2>5. ~Have(Files[file].trusts)
    BY <2>2, <2>3, <2>4 DEF Have
  <2> QED BY <1>1, <2>5 DEF Crash, NothingNullIsUsed, Have
<1>2. CASE StepOfTest /\ ~Crash
  <2>1. verdict' # "crashed"
    <3>1. ASSUME pc <= Len(Script)
          PROVE  S.do \in {"create", "valid", "expect"} => S.else # "crashed"
      BY <3>1, StepHere, StepFields DEF Inv
    <3> QED BY <1>2, <3>1, AtItsStep, Outcomes DEF StepOfTest, Inv
  <2> QED BY <2>1 DEF NothingNullIsUsed
<1>3. CASE UnitEnds
  BY <1>3 DEF UnitEnds, NothingNullIsUsed, Have, Inv
<1>4. CASE NextTest
  BY <1>4 DEF NextTest, NothingNullIsUsed
<1>5. CASE UNCHANGED vars
  BY <1>5 DEF vars, NothingNullIsUsed, Have, Inv
<1> QED BY <1>1, <1>2, <1>3, <1>4, <1>5 DEF Next, StepOfTest

\* What is compared was waited for.
LEMMA RaceStep ==
    ASSUME FilesFollowRules, Inv, [Next]_vars
    PROVE  NothingIsReadEarly'
PROOF
<1>1. CASE StepOfTest
  <2>1. ASSUME pc <= Len(Script)
        PROVE  S.do \in {"create", "valid"} => S.else # "raced"
    BY <2>1, StepHere, StepFields DEF Inv
  <2>2. CASE Compare
    BY <2>2, CompareFinds DEF Inv, NothingIsReadEarly
  <2> QED BY <1>1, <2>1, <2>2, AtItsStep, Outcomes DEF StepOfTest, Inv, NothingIsReadEarly
<1>2. CASE UnitEnds
  BY <1>2 DEF UnitEnds, NothingIsReadEarly, Inv
<1>3. CASE NextTest
  BY <1>3 DEF NextTest, NothingIsReadEarly
<1>4. CASE UNCHANGED vars
  BY <1>4 DEF vars, NothingIsReadEarly, Inv
<1> QED BY <1>1, <1>2, <1>3, <1>4 DEF Next

\* A test that comes to its end has gone past all its skips and comparisons.
LEMMA PassStep ==
    ASSUME FilesFollowRules, Inv, [Next]_vars
    PROVE  PassComparesAllButIgnored'
PROOF
<1>1. CASE EndTest /\ verdict = "running"
  <2>1. pc = Len(Script) + 1 /\ Len(Script) \in Nat /\ Runs
    BY <1>1, RulesHere DEF EndTest, Inv, TypeOK
  <2>2. NeedsDevice => ~noDevice
    <3> SUFFICES ASSUME NeedsDevice PROVE ~noDevice
      OBVIOUS
    <3>1. PICK j \in 1..pc - 1 : Script[j].do = "device"
      BY <2>1, RulesHere DEF NeedsDevice, Devices, Inv
    <3>2. Screened(Script, pc)
      BY <2>1, RulesHere DEF InOrder, Inv
    <3>3. PICK k \in j+1..pc - 1 : ScreenedFrom(Script, k, pc)
      BY <3>1, <3>2 DEF Screened, ScreenedFrom
    <3>4. k \in 1..pc - 1
      BY <2>1, <3>1
    <3> QED BY <2>1, <3>3, <3>4 DEF ScreenKnows, Inv
  <2>3. ASSUME NEW o \in DOMAIN outputs \ Files[file].ignores
        PROVE  o \in compared /\ outputs[o] = "right"
    <3>1. IsCompared(Script, o)
      BY <2>1, RulesHere DEF Inv, Written, InOrder
    <3>2. PICK j \in 1..pc - 1 : ComparedAt(Script, o, j, pc)
      BY <2>1, <3>1 DEF IsCompared, ComparedAt
    <3> QED BY <1>1, <2>1, <3>2 DEF Inv, ComparedIsRight
  <2>4. /\ file' = file /\ outputs' = outputs /\ compared' = compared /\ noDevice' = noDevice
        /\ NeedsDevice' = NeedsDevice
    BY <1>1, StepStays DEF EndTest, StepOfTest, Stays, NeedsDevice
  <2>5. compared = DOMAIN outputs \ Files[file].ignores /\ \A o \in compared : outputs[o] = "right"
    BY <2>3 DEF Inv, TypeOK, IgnoredIsNotCompared
  <2> QED BY <2>2, <2>4, <2>5 DEF PassComparesAllButIgnored
<1>2. CASE StepOfTest /\ ~(EndTest /\ verdict = "running")
  <2>1. ASSUME pc <= Len(Script)
        PROVE  S.do \in {"create", "valid", "expect"} => S.else # "passed"
    BY <2>1, StepHere, StepFields DEF Inv
  <2>2. verdict' # "passed"
    BY <1>2, <2>1, AtItsStep, Outcomes DEF StepOfTest, Inv
  <2> QED BY <2>2 DEF PassComparesAllButIgnored
<1>3. CASE UnitEnds
  <2>1. /\ verdict' = verdict /\ file' = file /\ noDevice' = noDevice
        /\ NeedsDevice' = NeedsDevice
    BY <1>3 DEF UnitEnds, NeedsDevice, Script
  <2>2. SUFFICES ASSUME verdict = "passed"
                 PROVE  /\ NeedsDevice => ~noDevice
                        /\ compared' = DOMAIN outputs' \ Files[file].ignores
                        /\ \A o \in compared' : outputs'[o] = "right"
    BY <2>1 DEF PassComparesAllButIgnored
  <2>3. /\ NeedsDevice => ~noDevice
        /\ compared = DOMAIN outputs \ Files[file].ignores
        /\ \A o \in compared : outputs[o] = "right"
    BY <2>2 DEF Inv, PassComparesAllButIgnored
  <2>4. compared \cap Pending = {}
    BY <2>3 DEF Pending
  <2> QED BY <1>3, <2>3, <2>4, EndWrites DEF Inv
<1>4. CASE NextTest
  BY <1>4 DEF NextTest, PassComparesAllButIgnored
<1>5. CASE UNCHANGED vars
  BY <1>5 DEF vars, PassComparesAllButIgnored, NeedsDevice, Script, Inv
<1> QED BY <1>1, <1>2, <1>3, <1>4, <1>5 DEF Next, StepOfTest

\* An assertion fails on what a step found missing, not valid or wrong.
LEMMA FailStep ==
    ASSUME FilesFollowRules, Inv, [Next]_vars
    PROVE  FailMeansFault'
PROOF
<1> DEFINE Fault(set) == set \ {"device"} # {}
<1>1. CASE StepOfTest
  <2>1. faults \subseteq faults' /\ TypeOK
    BY <1>1, StepTypes DEF Inv
  <2> SUFFICES ASSUME verdict' \in {"failing", "failed"} PROVE Fault(faults')
    BY DEF FailMeansFault
  <2>2. CASE verdict = "failing"
    BY <2>1, <2>2 DEF Inv, FailMeansFault
  <2>3. CASE verdict = "running"
    <3>1. verdict' # verdict
      BY <2>3
    <3>2. CASE CreateParts
      <4>1. S.else = "failed" /\ S.do = "create" /\ S.parts \in Seq(STRING)
        BY <2>1, <3>1, <3>2, Outcomes, CreateKeeps, StepFields DEF StepOfTest
      <4>2. S.after = {}
        BY <2>1, <3>2, <4>1, AtItsStep, StepHere, RulesHere DEF InOrder
      <4>3. PICK made \in 0..Len(S.parts) :
                /\ faults' = IF made = Len(S.parts) THEN faults ELSE faults \cup {"null"}
                /\ Continue(made = Len(S.parts), S.else)
        BY <3>2, <4>2 DEF CreateParts, Have
      <4>4. made # Len(S.parts)
        BY <3>1, <4>3 DEF Continue, GoOn
      <4> QED BY <4>3, <4>4
    <3>3. CASE CheckObjects
      <4>1. ~Have(S.objects)
        BY <2>1, <3>1, <3>3, Outcomes DEF StepOfTest
      <4>2. /\ pc \in 1..Len(Script) /\ S = Script[pc] /\ S.do = "check" /\ Runs
        BY <2>1, <3>3, StepHere, AtItsStep DEF CheckObjects, AtStep
      <4>3. S.objects \subseteq Made \cup MadeBefore(Script, pc) /\ Screened(Script, pc)
        BY <2>1, <4>2, RulesHere DEF InOrder
      <4>4. ~(noDevice /\ DeviceSought)
        <5> SUFFICES ASSUME DeviceSought PROVE ~noDevice
          OBVIOUS
        <5>1. PICK j \in 1..pc - 1 : Script[j].do = "device"
          BY DEF DeviceSought
        <5>2. PICK k \in j+1..pc - 1 : ScreenedFrom(Script, k, pc)
          BY <4>3, <5>1 DEF Screened, ScreenedFrom
        <5>3. k \in 1..pc - 1
          BY <4>2, <5>1
        <5> QED BY <4>2, <5>2, <5>3 DEF ScreenKnows, Inv
      <4>5. "null" \in faults
        BY <4>1, <4>2, <4>3, <4>4 DEF Inv, MadeUnlessFault, Have
      <4> QED BY <2>1, <4>5
    <3>4. CASE Validate
      <4>1. PICK valid \in BOOLEAN :
                /\ faults' = IF valid THEN faults ELSE faults \cup {"data"}
                /\ Continue(valid, S.else)
        BY <3>4 DEF Validate
      <4>2. ~valid
        BY <3>1, <4>1 DEF Continue, GoOn
      <4> QED BY <4>1, <4>2
    <3>5. CASE Compare
      <4>1. pc \in 1..Len(Script) /\ S = Script[pc] /\ S.do = "expect" /\ Runs
        BY <2>1, <3>5, StepHere, AtItsStep DEF Compare, AtStep
      <4>2. S.outputs \subseteq DOMAIN outputs
        BY <2>1, <4>1, RulesHere DEF InOrder, Inv, Written
      <4>3. PICK o \in S.outputs : outputs[o] # "right"
        BY <2>1, <3>1, <3>5, CompareFinds DEF Inv, GoOn
      <4>4. outputs[o] # "pending"
        BY <2>1, <3>5, <4>2, <4>3, NothingIsPending DEF Inv, Pending
      <4>5. outputs[o] = "wrong"
        BY <2>1, <4>2, <4>3, <4>4 DEF TypeOK
      <4>6. "wrong" \in faults
        BY <4>2, <4>3, <4>5 DEF Inv, WrongIsFault
      <4> QED BY <2>1, <4>6
    <3>6. Crash => FALSE
      BY <2>1, <1>1, Outcomes
    <3>7. (FindDevice \/ RunUnit \/ StartUnit \/ WaitForUnit \/ Skip \/ EndTest) => FALSE
      BY <1>1, <2>1, <2>3, <3>1, Outcomes
    <3> QED BY <1>1, <3>2, <3>3, <3>4, <3>5, <3>6, <3>7 DEF StepOfTest
  <2> QED BY <1>1, <2>1, <2>2, <2>3, Outcomes
<1>2. CASE UnitEnds
  <2>1. verdict' = verdict /\ faults \subseteq faults'
    BY <1>2, EndWrites DEF UnitEnds, Inv
  <2> QED BY <2>1 DEF FailMeansFault, Inv
<1>3. CASE NextTest
  BY <1>3 DEF NextTest, FailMeansFault
<1>4. CASE UNCHANGED vars
  BY <1>4 DEF vars, FailMeansFault, Inv
<1> QED BY <1>1, <1>2, <1>3, <1>4 DEF Next

\* The process begins with an empty fixture and the first step of SetUpTestSuite.
LEMMA InitInv ==
    ASSUME FilesFollowRules, Init
    PROVE  Inv
PROOF
<1>1. FollowsRules(Files[file])
  BY DEF Init, FilesFollowRules
<1>2. Script = Files[file].suite /\ Script \in Seq(Steps) /\ Files[file].tests \in Seq(Seq(Steps))
  BY <1>1 DEF Init, Script, FollowsRules, InOrder
<1>3. DOMAIN outputs = {} /\ Pending = {}
  BY DEF Init, Pending
<1>4. TypeOK
  <2>1. /\ file \in DOMAIN Files /\ test \in 0..Len(Files[file].tests) /\ pc \in 1..Len(Script) + 1
        /\ tests \in 0..MaxTests
    BY <1>2, VectorTestsAssumption DEF Init
  <2> QED BY <1>1, <1>3, <2>1 DEF Init, TypeOK, Verdicts
<1>5. Written /\ EnsuredAreThere
  BY <1>3, BeforeFirst DEF Init, Written, EnsuredAreThere
<1>6. SuiteKeeps
  BY DEF Init, SuiteKeeps, Sure
<1>7. MadeUnlessFault
  BY BeforeFirst DEF Init, MadeUnlessFault, Made
<1>8. ScreenKnows /\ PendingWasStarted /\ ComparedIsRight /\ IgnoredIsNotCompared /\ WrongIsFault
  BY <1>3 DEF Init, ScreenKnows, PendingWasStarted, ComparedIsRight, IgnoredIsNotCompared,
              WrongIsFault
<1>9. NothingNullIsUsed /\ PassComparesAllButIgnored /\ FailMeansFault /\ NothingIsReadEarly
  BY DEF Init, NothingNullIsUsed, PassComparesAllButIgnored, FailMeansFault, NothingIsReadEarly
<1> QED BY <1>4, <1>5, <1>6, <1>7, <1>8, <1>9 DEF Inv

\* The invariant is inductive.
LEMMA NextInv ==
    ASSUME FilesFollowRules, Inv, [Next]_vars
    PROVE  Inv'
PROOF
<1>1. TypeOK' /\ Written' /\ EnsuredAreThere' /\ SuiteKeeps'
  BY TypeStep, WrittenStep, EnsuredStep, SuiteStep DEF Inv
<1>2. /\ MadeUnlessFault' /\ ScreenKnows' /\ PendingWasStarted' /\ ComparedIsRight'
      /\ IgnoredIsNotCompared' /\ WrongIsFault'
  BY MadeStep, ScreenStep, PendingStep, ComparedStep, IgnoredStep, WrongStep DEF Inv
<1>3. NothingNullIsUsed' /\ PassComparesAllButIgnored' /\ FailMeansFault' /\ NothingIsReadEarly'
  BY NullStep, PassStep, FailStep, RaceStep
<1> QED BY <1>1, <1>2, <1>3 DEF Inv

\* The invariant holds in every state, after any number of tests in any order.
THEOREM InvHolds ==
    ASSUME FilesFollowRules
    PROVE  Spec => []Inv
PROOF
<1>1. Init => Inv
  BY InitInv
<1>2. Inv /\ [Next]_vars => Inv'
  BY NextInv
<1> QED BY <1>1, <1>2, PTL DEF Spec

\* Members of the fixture are made by the test, static members by SetUpTestSuite.
THEOREM TypesHold ==
    ASSUME FilesFollowRules
    PROVE  Spec => []TypeOK
PROOF
<1>1. Inv => TypeOK
  BY DEF Inv
<1> QED BY <1>1, InvHolds, PTL

\* A process crashes only because of an object that the file uses on trust, also when
\* SetUpTestSuite failed and the tests run all the same.
THEOREM NoCrash ==
    ASSUME FilesFollowRules
    PROVE  Spec => []NothingNullIsUsed
PROOF
<1>1. Inv => NothingNullIsUsed
  BY DEF Inv
<1> QED BY <1>1, InvHolds, PTL

\* A test that passes has compared, and found right, exactly what the unit wrote last but
\* for what the file ignores; and a hardware-accelerated test had its device.
THEOREM PassesCompareAllButIgnored ==
    ASSUME FilesFollowRules
    PROVE  Spec => []PassComparesAllButIgnored
PROOF
<1>1. Inv => PassComparesAllButIgnored
  BY DEF Inv
<1> QED BY <1>1, InvHolds, PTL

\* A test fails only if an object is missing, the vector is not valid or an output is wrong:
\* not because of the device, nor because of a test that failed before it.
THEOREM FailuresHaveFaults ==
    ASSUME FilesFollowRules
    PROVE  Spec => []FailMeansFault
PROOF
<1>1. Inv => FailMeansFault
  BY DEF Inv
<1> QED BY <1>1, InvHolds, PTL

\* No output is compared while a thread of the unit under test may still write it.
THEOREM NoRace ==
    ASSUME FilesFollowRules
    PROVE  Spec => []NothingIsReadEarly
PROOF
<1>1. Inv => NothingIsReadEarly
  BY DEF Inv
<1> QED BY <1>1, InvHolds, PTL

-----------------------------------------------------------------------------
(***************************************************************************)
(* Every test comes to its end.  That it does is left to TLC, because it   *)
(* depends on the fairness of threads; here it is shown, for all files,    *)
(* that there are only so many steps left, and that no test waits for a    *)
(* thread that it has not started.                                         *)
(***************************************************************************)

\* Steps left in the test, and whether threads of the unit still write.
StepsLeft == IF Runs THEN Len(Script) + 2 - pc ELSE 0
Left == 2 * StepsLeft + IF Pending # {} THEN 1 ELSE 0

\* A condition variable is waited for only after a unit was started that notifies it.
WaitsForUnit == AtStep("wait") => DOMAIN outputs # {}

\* What is left of a test is a natural number.
LEMMA LeftOK == ASSUME FilesFollowRules, TypeOK PROVE StepsLeft \in Nat /\ Left \in Nat
PROOF
<1>1. Len(Script) \in Nat /\ pc \in 1..Len(Script) + 1
  BY RulesHere DEF TypeOK
<1>2. StepsLeft \in Nat
  BY <1>1 DEF StepsLeft
<1> QED BY <1>2 DEF Left

\* A step of the test leaves fewer steps, also one that starts threads; the threads of a
\* unit that ends write no more.
LEMMA StepAdvances ==
    ASSUME FilesFollowRules, TypeOK, Left \in Nat, Left' \in Nat, StepOfTest \/ UnitEnds
    PROVE  Left' < Left
PROOF
<1>1. Len(Script) \in Nat /\ pc \in 1..Len(Script) + 1
  BY RulesHere DEF TypeOK
<1>2. CASE StepOfTest
  <2>1. (GoesOn \/ Ends) /\ Script' = Script /\ Runs
    BY <1>2, StepGoesOnOrEnds, StepStays DEF Stays
  <2>2. StepsLeft = Len(Script) + 2 - pc
    BY <2>1 DEF StepsLeft
  <2>3. StepsLeft' \in Int /\ StepsLeft' < StepsLeft
    <3>1. CASE GoesOn
      <4>1. StepsLeft' = Len(Script) + 2 - (pc + 1)
        BY <2>1, <3>1 DEF StepsLeft, GoesOn
      <4> QED BY <1>1, <2>2, <4>1
    <3>2. CASE Ends
      <4>1. StepsLeft' = 0
        BY <3>2 DEF StepsLeft, Ends
      <4> QED BY <1>1, <2>2, <4>1
    <3> QED BY <2>1, <3>1, <3>2
  <2>4. StepsLeft \in Int
    BY <1>1, <2>2
  <2>5. Left = 2 * StepsLeft \/ Left = 2 * StepsLeft + 1
    BY <2>4 DEF Left
  <2>6. Left' = 2 * StepsLeft' \/ Left' = 2 * StepsLeft' + 1
    <3>1. CASE Pending' # {}
      BY <3>1 DEF Left
    <3>2. CASE Pending' = {}
      BY <2>3, <3>2 DEF Left
    <3> QED BY <3>1, <3>2
  <2>7. \A m, n \in Int : m < n =>
            /\ 2 * m < 2 * n /\ 2 * m < 2 * n + 1
            /\ 2 * m + 1 < 2 * n /\ 2 * m + 1 < 2 * n + 1
    OBVIOUS
  <2> QED BY <2>3, <2>4, <2>5, <2>6, <2>7, Zenon
<1>3. CASE UnitEnds
  <2>1. Runs' = Runs /\ Script' = Script /\ pc' = pc /\ Pending # {}
    BY <1>3 DEF UnitEnds, Runs, Script
  <2>2. StepsLeft' = StepsLeft
    BY <2>1 DEF StepsLeft
  <2>3. Pending' = {}
    <3>1. PICK values \in Results(Pending) : Write(values)
      BY <1>3 DEF UnitEnds
    <3>2. DOMAIN values = Pending /\ \A o \in Pending : values[o] \in {"right", "wrong"}
      BY <3>1 DEF Results
    <3>3. /\ DOMAIN outputs' = DOMAIN outputs \cup Pending
          /\ \A o \in DOMAIN outputs' : outputs'[o] = IF o \in Pending THEN values[o] ELSE outputs[o]
      BY <3>1, <3>2 DEF Write
    <3>4. \A o \in DOMAIN outputs' : outputs'[o] # "pending"
      BY <3>2, <3>3 DEF Pending
    <3> QED BY <3>4 DEF Pending
  <2>4. StepsLeft \in Nat
    BY LeftOK
  <2> QED BY <2>1, <2>2, <2>3, <2>4 DEF Left
<1> QED BY <1>2, <1>3

\* When a test comes to a wait, something was written.
LEMMA WaitIsPossible == ASSUME FilesFollowRules, Inv PROVE WaitsForUnit
PROOF
<1> SUFFICES ASSUME AtStep("wait") PROVE DOMAIN outputs # {}
  BY DEF WaitsForUnit
<1>1. TypeOK /\ Runs /\ DOMAIN outputs = WrittenBefore(Script, pc)
  BY DEF Inv, AtStep, Written
<1>2. pc \in DOMAIN Script /\ Script[pc].do = "wait"
  BY <1>1, RulesHere DEF TypeOK, AtStep
<1>3. WrittenBefore(Script, pc) # {}
  BY <1>1, <1>2, RulesHere DEF InOrder
<1> QED BY <1>1, <1>3

\* Every step of a test, and the end of every unit that it started, decreases a natural
\* number: no test goes on for ever.
THEOREM TestsAdvance ==
    ASSUME FilesFollowRules
    PROVE  Spec => [][StepOfTest \/ UnitEnds => Left \in Nat /\ Left' \in Nat /\ Left' < Left]_vars
PROOF
<1>1. TypeOK => Left \in Nat
  BY LeftOK
<1>2. TypeOK /\ Left \in Nat /\ (Left \in Nat)' /\ [Next]_vars =>
        [StepOfTest \/ UnitEnds => Left \in Nat /\ Left' \in Nat /\ Left' < Left]_vars
  BY StepAdvances
<1> QED BY <1>1, <1>2, TypesHold, PTL DEF Spec

\* No test waits for a unit that it has not started, which would never notify it.
THEOREM WaitsEnd ==
    ASSUME FilesFollowRules
    PROVE  Spec => []WaitsForUnit
PROOF
<1>1. Inv => WaitsForUnit
  BY WaitIsPossible
<1> QED BY <1>1, InvHolds, PTL
=============================================================================
