----------------------------- MODULE VectorSteps -----------------------------
(***************************************************************************)
(* The steps that the vector tests of ocuduVectorTests are made of.  The   *)
(* units under test and their factories belong to the OCUDU library, the   *)
(* macros to GoogleTest: a test decides in which order the objects are     *)
(* created, which of them are checked, and which outputs are compared.     *)
(***************************************************************************)
EXTENDS Integers, Sequences, SequencesExt, FiniteSets, FiniteSetsExt, TLC

\* Objects are created one after the other, if those of after are there; those of from
\* are used.  When one is null, an assertion fails the test ("failed") or the process
\* ("aborted"), or the others remain null and the code goes on ("null").
Create(parts, after, from, otherwise) ==
    <<[do |-> "create", parts |-> parts, after |-> after, from |-> from, else |-> otherwise]>>

\* ASSERT_NE(part, nullptr), report_fatal_error_if_not(part, ...), a factory function
\* that returns nullptr, and no check at all.
Asserted(parts) == Create(parts, {}, {}, "failed")
AssertedFrom(parts, from) == Create(parts, {}, from, "failed")
Fatal(parts) == Create(parts, {}, {}, "aborted")
OrNull(parts, after) == Create(parts, after, {}, "null")
Unchecked(parts, from) == Create(parts, {}, from, "null")

\* An assertion on objects created earlier.
Check(objects) == <<[do |-> "check", objects |-> objects, else |-> "failed"]>>

\* The device of the hardware-accelerated tests: without it skip_hwacc_test is set.
Device(device, after) == <<[do |-> "device", device |-> device, after |-> after]>>

\* GTEST_SKIP, if the flag is set, or for some test cases or types of the unit.
SkipWithoutDevice == <<[do |-> "skip", if |-> "no device"]>>
SkipSomeCases == <<[do |-> "skip", if |-> "case"]>>
SkipAlways == <<[do |-> "skip", if |-> "always"]>>

\* An assertion on what the test vector contains.
Valid(what) == <<[do |-> "valid", data |-> what, else |-> "failed"]>>
ValidFatal(what) == <<[do |-> "valid", data |-> what, else |-> "aborted"]>>

\* The unit under test runs, on the objects needs, and writes outputs; with Start it
\* does so in other threads, until it notifies the test, which Wait waits for.
Run(needs, names) == <<[do |-> "run", outputs |-> names, needs |-> needs]>>
Start(needs, names) == <<[do |-> "start", outputs |-> names, needs |-> needs]>>
Wait == <<[do |-> "wait"]>>

\* Outputs are compared with those of the test vector.  EXPECT_..., and an assertion in
\* a function that the test calls, let the test go on ("failing").
Expect(names) == <<[do |-> "expect", outputs |-> names, else |-> "failed"]>>
ExpectFatal(names) == <<[do |-> "expect", outputs |-> names, else |-> "aborted"]>>
ExpectOnly(names) == <<[do |-> "expect", outputs |-> names, else |-> "failing"]>>

\* All steps, by what they do.
Names == SUBSET STRING
Steps ==
    [do : {"create"}, parts : Seq(STRING), after : Names, from : Names,
     else : {"failed", "aborted", "null"}]
    \cup [do : {"check"}, objects : Names, else : {"failed"}]
    \cup [do : {"device"}, device : STRING, after : Names]
    \cup [do : {"skip"}, if : {"no device", "case", "always"}]
    \cup [do : {"valid"}, data : STRING, else : {"failed", "aborted"}]
    \cup [do : {"run", "start"}, outputs : Names, needs : Names]
    \cup [do : {"wait"}]
    \cup [do : {"expect"}, outputs : Names, else : {"failed", "aborted", "failing"}]

\* Most tests: the objects are created and asserted, the last one runs, its outputs are
\* compared.
UnitTest(parts, names) == Asserted(parts) \o Run({Last(parts)}, names) \o Expect(names)

\* A file: what SetUpTestSuite does, or what main does before the loop over the test
\* cases; its tests, which begin with SetUp; objects that it uses without a check, on
\* trust; and what its tests let the unit write, and never compare.
File(suite, scripts, trusts, ignores) ==
    [suite |-> suite, tests |-> scripts, trusts |-> trusts, ignores |-> ignores]
=============================================================================
