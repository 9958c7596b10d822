----------------------------- MODULE VectorTests -----------------------------
(***************************************************************************)
(* One process that runs the tests of a file of ocuduVectorTests, in any   *)
(* order and any number of times: objects of the suite and the flag        *)
(* skip_hwacc_test outlive each test.  Any object may turn out null, any   *)
(* output wrong, and the device may be missing.                            *)
(***************************************************************************)
EXTENDS VectorSteps

CONSTANTS
    Files,          \* [names -> files], see VectorSteps.
    MaxTests        \* Bound: tests that one process runs.

ASSUME VectorTestsAssumption == MaxTests \in Nat \ {0}

VARIABLES
    file,           \* The name of the file.
    test,           \* The test that runs: 0 is SetUpTestSuite.
    pc,             \* Its next step.
    statics,        \* Objects made by SetUpTestSuite.
    locals,         \* Objects made by the test.
    outputs,        \* [names -> values] of the outputs written so far.
    compared,       \* Outputs that an assertion found right.
    noDevice,       \* skip_hwacc_test.
    verdict,        \* On the test that runs, or ran last.
    faults,         \* What went wrong outside of the code of the test.
    failed,         \* A test of the process failed: RUN_ALL_TESTS() returns 1.
    tests           \* Number of tests begun.

vars == <<file, test, pc, statics, locals, outputs, compared, noDevice, verdict, faults,
          failed, tests>>

Script == IF test = 0 THEN Files[file].suite ELSE Files[file].tests[test]

Runs == verdict \in {"running", "failing"}
AtStep(do) == Runs /\ pc <= Len(Script) /\ Script[pc].do = do
S == Script[pc]

Parts(script) == UNION {ToSet(script[i].parts) : i \in {j \in DOMAIN script : script[j].do = "create"}}
Devices(script) == {script[i].device : i \in {j \in DOMAIN script : script[j].do = "device"}}
NeedsDevice == Devices(Script) # {}

-----------------------------------------------------------------------------
(***************************************************************************)
(* The rules that the files follow.  They are about the order of the steps *)
(* of one test; what they promise holds however many tests a process runs. *)
(***************************************************************************)

\* What a step makes, makes sure of, uses and has the unit under test write.
Makes(step) ==
    CASE step.do = "create" -> ToSet(step.parts)
      [] step.do = "device" -> {step.device}
      [] OTHER -> {}
Ensures(step) ==
    CASE step.do = "create" /\ step.else # "null" -> ToSet(step.parts)
      [] step.do = "check" -> step.objects
      [] OTHER -> {}
Uses(step) ==
    CASE step.do = "create" -> step.from
      [] step.do \in {"run", "start"} -> step.needs
      [] OTHER -> {}
Writes(step) == IF step.do \in {"run", "start"} THEN step.outputs ELSE {}

MadeBefore(s, i) == UNION {Makes(s[j]) : j \in 1..i-1}
EnsuredBefore(s, i) == UNION {Ensures(s[j]) : j \in 1..i-1}
WrittenBefore(s, i) == UNION {Writes(s[j]) : j \in 1..i-1}

\* Before step i, after each search for the device, the test is skipped without it.
IsScreen(step) == step.do = "skip" /\ step.if = "no device"
Screened(s, i) ==
    \A j \in 1..i-1 : s[j].do = "device" =>
        \E k \in j+1..i-1 : IsScreen(s[k]) /\ \A l \in k+1..i-1 : s[l].do # "device"

\* Before step i, the test waits for each unit that it started.
Awaited(s, i) ==
    \A j \in 1..i-1 : s[j].do = "start" => \E k \in j+1..i-1 : s[k].do = "wait"

\* After the last time it is written, an output is compared.
IsCompared(s, o) ==
    \E j \in 1..Len(s) :
        /\ s[j].do = "expect" /\ o \in s[j].outputs
        /\ \A k \in j+1..Len(s) : o \notin Writes(s[k])

\* In the suite (made and ensured are empty) or in a test (made and ensured are what
\* the suite makes and makes sure of): nothing is used that may be null, but for what the
\* file trusts; what is checked was made, and the device was there; what is compared
\* was written, and is written no more; a wait comes after what it waits for; everything
\* that is not ignored is compared, and nothing that is.
InOrder(s, made, ensured, trusts, ignores) ==
    /\ s \in Seq(Steps)
    /\ \A i \in DOMAIN s :
          /\ Uses(s[i]) \subseteq trusts \cup ensured \cup EnsuredBefore(s, i)
          /\ s[i].do \in {"create", "device"} => s[i].after \subseteq made \cup MadeBefore(s, i)
          /\ s[i].do = "create" /\ s[i].else = "failed" => s[i].after = {}
          /\ s[i].do = "check" =>
                s[i].objects \subseteq made \cup MadeBefore(s, i) /\ Screened(s, i)
          /\ s[i].do = "expect" =>
                s[i].outputs \subseteq WrittenBefore(s, i) \ ignores /\ Awaited(s, i)
          /\ s[i].do = "wait" => WrittenBefore(s, i) # {}
    /\ Screened(s, Len(s) + 1)
    /\ \A o \in WrittenBefore(s, Len(s) + 1) \ ignores : IsCompared(s, o)

\* Only when all steps of the suite are of these, nothing but the end of the process
\* keeps what they make sure of from being there for the tests.
OnlyAborts(suite) == \A i \in DOMAIN suite : suite[i].do = "create" /\ suite[i].else # "failed"

EnsuredBySuite(suite) == IF OnlyAborts(suite) THEN EnsuredBefore(suite, Len(suite) + 1) ELSE {}

FollowsRules(f) ==
    /\ InOrder(f.suite, {}, {}, f.trusts, f.ignores)
    /\ Devices(f.suite) = {}
    /\ f.tests \in Seq(Seq(Steps))
    /\ \A n \in DOMAIN f.tests :
          InOrder(f.tests[n], Parts(f.suite), EnsuredBySuite(f.suite), f.trusts, f.ignores)

FilesFollowRules == \A f \in DOMAIN Files : FollowsRules(Files[f])

-----------------------------------------------------------------------------
Verdicts == {"running", "failing", "passed", "failed", "skipped", "aborted", "crashed", "raced"}
Faults == {"null", "wrong", "data", "device"}

\* Types: members of the fixture are made by the test, static members by the suite; and
\* each file follows the rules.
TypeOK ==
    /\ pc = 1 => FollowsRules(Files[file])
    /\ file \in DOMAIN Files
    /\ test \in 0..Len(Files[file].tests)
    /\ pc \in 1..Len(Script) + 1
    /\ statics \subseteq Parts(Files[file].suite)
    /\ locals \subseteq IF test = 0 THEN {} ELSE Parts(Script) \cup Devices(Script)
    /\ \A o \in DOMAIN outputs : outputs[o] \in {"right", "wrong", "pending"}
    /\ compared \subseteq DOMAIN outputs
    /\ noDevice \in BOOLEAN
    /\ verdict \in Verdicts
    /\ faults \subseteq Faults
    /\ failed \in BOOLEAN
    /\ tests \in 0..MaxTests

Init ==
    /\ file \in DOMAIN Files
    /\ test = 0 /\ pc = 1 /\ verdict = "running"
    /\ statics = {} /\ locals = {}
    /\ outputs = <<>> /\ compared = {}
    /\ noDevice = FALSE /\ failed = FALSE
    /\ faults = {} /\ tests = 0

Have(objects) == objects \subseteq statics \cup locals

\* The function returns, and the test ends.  A test that has failed does not pass.
EndWith(v) ==
    /\ verdict' = IF verdict = "failing" /\ v \in {"passed", "skipped"} THEN "failed" ELSE v
    /\ failed' = (failed \/ verdict' = "failed")
    /\ pc' = Len(Script) + 1

GoOn ==
    /\ pc' = pc + 1
    /\ UNCHANGED <<verdict, failed>>

\* The next step, if ok: otherwise an assertion ends the test, or only marks it.
Continue(ok, otherwise) ==
    IF ok \/ otherwise = "null" THEN GoOn
    ELSE IF otherwise = "failing" THEN verdict' = "failing" /\ pc' = pc + 1 /\ UNCHANGED failed
    ELSE EndWith(otherwise)

\* Mutant: objects of a test stay for the next.
KeepStatic(objects) == statics' = statics \cup objects /\ UNCHANGED locals

\* The suite keeps objects in static members, a test in those of the fixture.
Keep(objects) ==
    IF test = 0 THEN statics' = statics \cup objects /\ UNCHANGED locals
    ELSE locals' = locals \cup objects /\ UNCHANGED statics

-----------------------------------------------------------------------------
(* Steps. *)

\* A call on, or with, a null object ends the process in one way or another.
Crash ==
    /\ Runs /\ pc <= Len(Script)
    /\ \/ S.do = "create" /\ Have(S.after) /\ ~Have(S.from)
       \/ S.do \in {"run", "start"} /\ ~Have(S.needs)
    /\ EndWith("crashed")
    /\ UNCHANGED <<file, test, statics, locals, outputs, compared, noDevice, faults, tests>>

CreateParts ==
    /\ AtStep("create")
    /\ Have(S.after) => Have(S.from)
    /\ LET n == Len(S.parts)
       IN  \E made \in IF Have(S.after) THEN 0..n ELSE {0} :
            /\ Keep(ToSet(SubSeq(S.parts, 1, made)))
            /\ faults' = IF made = n \/ ~Have(S.after) THEN faults ELSE faults \cup {"null"}
            /\ Continue(made = n, S.else)
    /\ UNCHANGED <<file, test, outputs, compared, noDevice, tests>>

CheckObjects ==
    /\ AtStep("check")
    /\ Continue(Have(S.objects), S.else)
    /\ UNCHANGED <<file, test, statics, locals, outputs, compared, noDevice, faults, tests>>

\* Once the flag is set no test of the process looks for the device again.  A device
\* that was there before may be gone.
FindDevice ==
    /\ AtStep("device")
    /\ IF Have(S.after)
       THEN \E found \in IF noDevice THEN {FALSE} ELSE BOOLEAN :
                /\ locals' = IF found THEN locals \cup {S.device} ELSE locals
                /\ noDevice' = ~found
                /\ faults' = IF found THEN faults ELSE faults \cup {"device"}
       ELSE UNCHANGED <<locals, noDevice, faults>>
    /\ GoOn
    /\ UNCHANGED <<file, test, statics, outputs, compared, tests>>

Skip ==
    /\ AtStep("skip")
    /\ \E skip \in CASE S.if = "case" -> BOOLEAN
                     [] S.if = "always" -> {TRUE}
                     [] S.if = "no device" -> {noDevice} :
        Continue(~skip, "skipped")
    /\ UNCHANGED <<file, test, statics, locals, outputs, compared, noDevice, faults, tests>>

Validate ==
    /\ AtStep("valid")
    /\ \E valid \in BOOLEAN :
        /\ faults' = IF valid THEN faults ELSE faults \cup {"data"}
        /\ Continue(valid, S.else)
    /\ UNCHANGED <<file, test, statics, locals, outputs, compared, noDevice, tests>>

Results(names) == [names -> {"right", "wrong"}]

\* An output that is written again is to be compared again.
Write(values) ==
    /\ outputs' = [o \in DOMAIN outputs \cup DOMAIN values |->
                        IF o \in DOMAIN values THEN values[o] ELSE outputs[o]]
    /\ compared' = compared \ DOMAIN values
    /\ faults' = IF \E o \in DOMAIN values : values[o] = "wrong"
                 THEN faults \cup {"wrong"} ELSE faults

RunUnit ==
    /\ AtStep("run")
    /\ Have(S.needs)
    /\ \E values \in Results(S.outputs) : Write(values)
    /\ GoOn
    /\ UNCHANGED <<file, test, statics, locals, noDevice, tests>>

StartUnit ==
    /\ AtStep("start")
    /\ Have(S.needs)
    /\ Write([o \in S.outputs |-> "pending"])
    /\ GoOn
    /\ UNCHANGED <<file, test, statics, locals, noDevice, tests>>

Pending == {o \in DOMAIN outputs : outputs[o] = "pending"}

\* The threads of the unit under test write their outputs and notify.
UnitEnds ==
    /\ Pending # {}
    /\ \E values \in Results(Pending) : Write(values)
    /\ UNCHANGED <<file, test, pc, statics, locals, noDevice, verdict, failed, tests>>

WaitForUnit ==
    /\ AtStep("wait")
    /\ DOMAIN outputs # {} /\ Pending = {}
    /\ GoOn
    /\ UNCHANGED <<file, test, statics, locals, outputs, compared, noDevice, faults, tests>>

\* Reading what a thread still writes is a data race.
Compare ==
    /\ AtStep("expect")
    /\ IF S.outputs \cap Pending # {} THEN EndWith("raced") /\ UNCHANGED compared
       ELSE LET right == {o \in S.outputs : outputs[o] = "right"}
            IN  /\ compared' = compared \cup right
                /\ Continue(right = S.outputs, S.else)
    /\ UNCHANGED <<file, test, statics, locals, outputs, noDevice, faults, tests>>

EndTest ==
    /\ Runs /\ pc > Len(Script)
    /\ EndWith("passed")
    /\ UNCHANGED <<file, test, statics, locals, outputs, compared, noDevice, faults, tests>>

\* A new fixture, for any test of the file, also after one that failed: old releases of
\* GoogleTest run the tests after a failure of SetUpTestSuite, too.
NextTest ==
    /\ verdict \in {"passed", "failed", "skipped"}
    /\ tests < MaxTests
    /\ test' \in 1..Len(Files[file].tests)
    /\ tests' = tests + 1
    /\ pc' = 1 /\ verdict' = "running"
    /\ locals' = {} /\ outputs' = <<>> /\ compared' = {}
    /\ faults' = (IF Parts(Files[file].suite) \subseteq statics THEN {} ELSE {"null"})
                    \cup (IF noDevice THEN {"device"} ELSE {})
    /\ UNCHANGED <<file, statics, noDevice, failed>>

StepOfTest ==
    \/ Crash \/ CreateParts \/ CheckObjects \/ FindDevice \/ Skip \/ Validate
    \/ RunUnit \/ StartUnit \/ WaitForUnit \/ Compare \/ EndTest

Next == StepOfTest \/ UnitEnds \/ NextTest

\* The thread of the test runs, and so do those of the unit, which always end.
Spec == Init /\ [][Next]_vars /\ WF_vars(StepOfTest) /\ WF_vars(UnitEnds)

-----------------------------------------------------------------------------
(* Properties. *)

\* A process crashes only because of an object that the file uses on trust: everything
\* else is checked before, also when SetUpTestSuite failed and its tests run all the same.
NothingNullIsUsed == verdict = "crashed" => ~Have(Files[file].trusts)

\* What a test that passes stands for: all that the unit wrote last, but for the outputs
\* that the file ignores, was compared and found right; of those none was compared, and
\* the test passes, too, when they are wrong.  And a hardware-accelerated test had the device,
\* whichever test of the process looked for it.
PassComparesAllButIgnored ==
    verdict = "passed" =>
        /\ NeedsDevice => ~noDevice
        /\ compared = DOMAIN outputs \ Files[file].ignores
        /\ \A o \in compared : outputs[o] = "right"

\* A test fails only if an object is missing, the vector is not valid, or an output is
\* wrong: not because of the device, nor because an earlier test failed.
FailMeansFault == verdict \in {"failing", "failed"} => faults \ {"device"} # {}

\* No output is compared before the unit, which runs in other threads, has notified.
NothingIsReadEarly == verdict # "raced"

\* Every test ends, whatever is missing or wrong, if the threads of the unit do.
EveryTestEnds == Runs ~> ~Runs
=============================================================================
