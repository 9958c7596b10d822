# A TLA+ model of ocudu-matlab

This directory models the parts of ocudu-matlab that keep state or decide over
the end of a call or of a test: the System objects and MEX functions (PUSCH
decoder, channel estimator, PUSCH demodulator, PUCCH processor, PRACH detector), the
PUSCH and PUCCH simulators with the results they collect over many calls, the search
for PRACH detection thresholds, and the C++ tests of `ocuduVectorTests`. TLC checks
each model on a small instance; the TLA+ proof system proves the properties of the
PUSCH decoder for any number of objects, pools and blocks, those of the other MEX
functions for any number of objects and lists of any length, and the accounting of
the PUSCH simulator for any number of HARQ processes, blocks, slots and calls.

The repository is mostly numerical MATLAB code. What is hard to test in it is
not the arithmetic of a slot (the test vectors cover that) but what *sequences
of calls* do: objects that share one MEX function, keys into memory that
MATLAB does not own, soft buffers that outlive a block, results that must still
line up with their SNR values after ten calls, and calls that fail half way. That
is what is modelled.

- [1 The system](#1-the-system)
- [2 Modules and code](#2-modules-and-code)
- [3 Runs](#3-runs)
- [4 Proofs](#4-proofs)
- [5 Assumptions about code outside the repository](#5-assumptions-about-code-outside-the-repository)
- [6 Where code and documentation disagree](#6-where-code-and-documentation-disagree)
- [7 What is not modelled, and the plan](#7-what-is-not-modelled-and-the-plan)

## 1 The system

| Component | State | Operations | Hard behaviour |
|---|---|---|---|
| PUSCH decoder: `ocuduPUSCHDecoder.m`, `pusch_decoder_mex.*`, `memento.h` | per object: lock, dimensions, `SoftbufferPoolID`; in the one MEX function: `memento_storage`, key -> softbuffer pool | configure, setup, step, resetCRCS, reset, release, load, clone; `clear mex` | key reuse, pool exhaustion, calls that fail between release and new |
| PUSCH simulator: `PUSCHBLER.m` | configuration, MATLAB and OCUDU decoders, exported counters; local: HARQ processes, counters of the point | setup, step (SNR points x slots), reset, release, save/load | soft buffers and CRC flags of earlier blocks, decoders that disagree, stop conditions, errors in the middle of a point |
| PUCCH simulator: `@PUCCHPERF`, `FormatDetailsF0..F4` | configuration, handle to the results of the format: `SNRrange` and up to seven parallel arrays | the same, and clone | arrays joined by positions computed once, handles shared or copied, counters updated one by one |
| Channel estimator and PUSCH demodulator (MATLAB + MEX) | one estimator, one demodulator per MEX function | setup replaces it, step uses it, release leaves it | objects overwrite each other's processor; a pointer that a step does not check; requests checked twice, in MATLAB and in C++ |
| PUCCH processor, PRACH detector (MATLAB + MEX) | one processor, one detector, created with the MEX function | step | batches of Format 1 transmissions, duplicates in them and the order of their results; fields that each format sends and reads |
| PRACH threshold search `PRACHthresholds.m` | table of results in a file; bracket of the search | call for all formats, one format or one SCS | calls interrupted and repeated, termination |
| PRACH simulator `PRACHPERF.m` | counters and sums of offsets, exploration file | setup, step, reset, release | results that survive release |
| `combinePUSCHSims.m` | none | sums results of objects | compatibility checks |
| Block test framework: `ocuduBlockUnittest.m`, `runOCUDUunittest.m`, `+ocuduTest` | a header file, a vector folder, test identifiers | initialise, test cases, pack, copy | files left by interrupted runs |
| Test vector generators, `+ocuduLib` algorithms | none | one pass each | numerical |
| C++ vector tests: `ocuduVectorTests`, one executable per block | static objects of the suite, `skip_hwacc_test`, the members of a fixture, outputs | setup of the suite, setup of a test, steps of the test, next test | factories that fail half way, static objects after a failed setup, a missing accelerator, outputs written by other threads, results nobody compares |
| Analyzers, tutorials, build, CI | none | scripts | - |

**Interactions.** MATLAB runs one call at a time. A System object method calls
the MEX gateway with the name of a method; the dispatcher
(`ocudu_mex_dispatcher.h`) runs that method of the single `MexFunction` object,
which lives until the MEX file is cleared. `PUSCHBLER` owns a MATLAB and an
OCUDU PUSCH decoder and calls them slot by slot; `PUCCHPERF` owns its receivers
and a handle object in which results accumulate. MATLAB has no threads: the
interleaving that matters there is that of the calls of *different objects*, in an
order chosen by the user, and the atomicity that matters is that a call which
throws has already changed part of the state. The C++ vector tests do have threads:
the PDSCH processor writes the resource grid in a pool of workers and notifies the
test.

**What makes each component correct.** The decoder: no two objects ever share a
pool, a locked object always has one, pools are not lost, and what one object
does cannot be observed through another. The PUSCH simulator: only transmissions
of the same block are combined, every block is counted once, and results of
points that a call did not simulate are left alone. The PUCCH simulator:
successive calls give "a combined set of simulation results spanning all the
provided SNR values", each count shown next to the SNR value it was counted at,
and every displayed rate is a probability, except for the false SR rate of Format 0,
which the code computes from false ACKs. The threshold search: it ends, with a
threshold that has the wanted rate or next to where such a threshold would be, and
the table is the same however often the call was interrupted. The MEX functions: what
the class accepts is served but for a list of known gaps, an object that is set up
finds a processor, and results answer the request in its order. The vector tests: a
test passes only if every output was compared and right, except for those that its file
writes and never compares, fails only for a reason outside of the test, and ends,
whatever is null, wrong or missing.

## 2 Modules and code

```
SoftbufferPool <- PuschDecoderMex --implements--> PuschDecoder
      ^                  ^
      |                  +-- PuschDecoderMexProofs, MCPuschDecoderMex
      +-- PuschBler <- MCPuschBler, PuschBlerProofs
      +-- SoftbufferPoolProofs <- PuschDecoderMexProofs, PuschBlerProofs

JoinArrays <- PuschBler, FormatDetails
PucchFormats <- FormatDetails <- PucchPerf --implements--> ResultTables
                                     ^
                                     +-- MCPucchPerf, PucchPerfProofs
PucchPoint <- MCPucchPoint, PucchPointProofs
PrachThresholds <- MCPrachThresholds, PrachThresholdsProofs

MexRequests <- MexFunctions <- MCMexFunctions, MexFunctionsProofs

VectorSteps <- VectorTests ---------------------------+
     ^                                                +-- MCVectorTests,
     +-- VectorPusch, VectorPdsch, VectorControl,     |   VectorTestsProofs
         VectorSignals -------------------------------+
```

**SoftbufferPool** is the value of an `rx_buffer_pool` and the operations the MEX
performs on it: reserve a softbuffer (`retrieve_softbuffer`), clear its CRC flags
(`method_reset_crcs`), decode into it. LLRs are abstracted to the *set of
transport blocks they carry*; a CRC flag is the block whose data it protects.
That is enough to tell right from wrong combining.

**PuschDecoder** is the abstract specification: what the class help promises,
one private pool per object and no keys. **PuschDecoderMex** is the code:
`locked`, `config` and `poolID` are the state of the System objects, `storage` is
`memento_storage`, `reply` is how the last call ended. Each method is one action,
with everything it calls: `Setup` is `setupImpl` *and* the `resetImpl` that
MATLAB runs after it, which releases the first pool and creates a second one;
`Step` includes the segmentation check of `method_step`, the retrieval of the
pool and its abort. A key is an address: `FreeKeys` allows any address that is
not in use, so freed ones come back. `SetupFails`, `ResetFails` and `ClearMex` are the
calls that fail half way and the loss of the MEX function; they are part of
`FaultySpec` only.

**PuschBler** is `PUSCHBLER.m`. `pc` says where in `stepImpl` the call is:
`"idle"` (no call is running), `"point"` (at the top of the loop over SNR
values), `"slot"`. `Begin`, `StartPoint`, `Slot`, `SlotFails`, `Export` follow the
function top to bottom (`Transmit` is what a slot does with a block). Channel,
estimation and demodulation are abstracted to
the decoders' freedom to fail to decode; `MatlabDecodings` and `StepOutcomes`
say that a decoder succeeds only on soft bits of one block. `eqSlot` is the slot
`puschEq` belongs to (only the MATLAB branch assigns it, line 920 plots it).
`newBlocks` is an auxiliary counter, not in the code: blocks transmitted, without
repetitions. `Configure` sets any property of an unlocked object and only the tunable
ones (`DisplayDiagnostics`, `QuickSimulation`) of a locked one, so that diagnostics can be
switched on between two calls and the next call can fail. The results are the arrays of
the code, a list of SNR values and a list of rows for each counter, and `Export` joins
them by position.

**JoinArrays** is how both simulators combine the results of successive calls: the
positions of repeated values (`intersect`), their removal, the order found by `sort`, and
`joinArrays`, which applies them to one array.

**PucchFormats** and **FormatDetails** are the classes `FormatDetailsF0` to
`FormatDetailsF4`: which counters a format has, which of them
a test exports, in which order `updateCounters` updates them, and how. A counter
value is abstracted to *what it counts, at which SNR, for how many frames*: since
`rng('default')` precedes every point, that determines the number.
**PucchPerf** is the class `PUCCHPERF` around them, with `heap` for handles, so that
a clone (which copies the handle) and a saved and loaded object (which copies the
details) differ. **ResultTables** is the abstract specification: a table from SNR
values to counters per object, in which calls combine.

**PucchPoint** is the slot loop of `PUCCHPERF`'s `stepImpl.m` with the counting of
each format (`UCIEncode`, `updateStatsMATLAB`, `updateStatsOCUDU`, `isSimOver`).
A receiver may answer anything; a field of bits is the set of positions that are
one, so that the comparisons of the code keep their meaning. `Rates` are the rates that
the getters display, each from the counter that `updateCounters` exports for it.

**PrachThresholds** is `PRACHthresholds.m`. `Call` reads the file and finds where to
start, `NextConf` and `NextNCS` are the loops, `Iterate` is one iteration of
`estimateThreshold` with the simulation it ends with, `RoughEnds` and `FineEnds`
leave its two calls, `SaveRow` writes a row of the table. Rounding may give threshold
0 (line 251, which nothing guards); `PRACHPERF` refuses it and the call fails, which is
`Refused`. `Interrupt` ends a call anywhere; only the file remains. Thresholds are integers in units of the
thousandths they are rounded to, and false-alarm rates integers in units of a 20th
of the target. `F` values are a rate divided by a power of two, because `mprime`
(lines 232 and 243) is always 0 and so `m` always 0.5. `Simulated` is all the model
knows of `PRACHPERF`: the rate of a threshold is any that does not grow with the
threshold (each simulation starts from the same random numbers). `curve` is an
auxiliary variable that remembers these choices.

**MexRequests** is one call of the estimator, demodulator, PUCCH processor and PRACH
detector: what the `arguments` block and the asserts of `stepImpl` refuse, what the
method sends, what the MEX function converts and checks again, and how the call ends. A
request is a record of the facts those checks tell apart ("the grid has r.ports ports",
"the DM-RS are in the same REs of all PRBs"), never the arrays. A call may be `refused`
by MATLAB, `aborted` by the MEX function (an exception: the session goes on),
`terminated` (a name or a spacing that `matlab_to_ocudu.h` does not know ends the MATLAB
process), `misplaced` (it succeeds with coefficients in the wrong REs) or `undefined`
(copies that leave their buffers). `EstimatorAccepts`, `DemodulatorAccepts` and
`PucchAccepts` are what the classes let through; `EstimatorMexEnds` and its like are
what becomes of it in C++, in the order of the checks there. The estimator has a second
implementation, in MATLAB: `EstimatorPlainEnds`, `PlainInfos`.

**MexFunctions** is any number of objects of one of the classes in front of their MEX
function: `processor` is the `unique_ptr` of the `MexFunction` object, with the settings
it was created with; `lastSetup` is auxiliary and says whose setup created it. A call is
made when the one before has returned (`Return`); after a call that ended the process
MATLAB is started again, without objects or MEX functions (`Restart`). `Unserved` lists
the requests that a class accepts and its MEX function cannot serve.

**VectorSteps** is the vocabulary of a GoogleTest test: create objects from factories
(with the ways in which the code reacts to a null one), look for the
accelerator, skip, validate the vector, run the unit, wait for it, compare
outputs. **VectorPusch**, **VectorPdsch**, **VectorControl** and **VectorSignals** write
every test executable in it, one definition per function of the source: which
objects, in which order, which of them asserted and how (`ASSERT`, `EXPECT`, a fatal
error, a factory function that returns null, nothing). **VectorTests** runs them:
a process takes a file, sets up the suite, then runs tests in any order. Static
members (`statics`, `noDevice`) outlive a test, members of the fixture (`locals`)
do not. Every factory may return null, every unit may write a wrong output, every
vector may be invalid; `faults` is auxiliary and remembers which of those happened.
`UnitEnds` is the threads of the unit under test. A step that runs the unit lists
*everything* that it writes. Two fields of a file say what its tests do not do: `trusts`
are the objects that are used without having been made sure of, `ignores` the outputs that
are written and compared nowhere. Neither exempts a step from anything: an object that is
trusted may be null, an ignored output may be wrong.

Definitions whose comment starts with "Mutant:" are not part of any
specification. Each states a plausible bug (a dropped guard, a missing reset) in
the definition that follows it; substituting it makes TLC report the property it
is recorded with in PROJECT.json, which shows that the property depends on the code.

## 3 Runs

Every run is `tlc -config <cfg> <module>`.

| Run | Configuration | What it shows |
|---|---|---|
| decoder | MCPuschDecoderMex.cfg | `ExclusivePools`, `LockedHasPool`, `NoSpuriousAbort`, `PoolMatchesConfig`, `SegmentationMatches`, and `Isolation`: PuschDecoderMex implements PuschDecoder |
| decoder_faults | MCPuschDecoderFaults.cfg | `NoLeak`, with failing allocations and `clear mex` |
| bler | MCPuschBler.cfg | `BlocksDoNotMix`, `StepsSucceed`, `EveryBlockIsCountedOnce`, `ThroughputIsBounded`, `ReceivedOrMissedAtOnce`, `ResultsCombine` |
| bler_missed | MCPuschBlerMissed.cfg | counterexample to `ReceivedOrMissed` |
| pucch | MCPucchPerf.cfg | `ResultsCombine` (PucchPerf implements ResultTables), `StepsSucceed`, `FirstCounterMatches`, with copies and clones |
| pucch_reset | MCPucchPerfReset.cfg | counterexample to `RowsMatch` |
| pucch_step | MCPucchPerfStep.cfg | counterexample to `StepsSucceed` |
| pucch_point | MCPucchPoint.cfg | `RatesAreProbabilities`, `ReceiversAreComparable` |
| prach | MCPrachThresholds.cfg | `ResumesWhereItStopped`, `NarrowsDown`, `BracketHoldsTarget`, `CallsEnd` |
| prach_rerun | MCPrachThresholdsRerun.cfg | counterexample to `NoRerun` |
| mex | MCMexFunctions.cfg | `LockedHasProcessor`, `LastSetupRules`, `OnlyKnownGaps`, `DuplicatesStayInMatlab`, `ResultsAnswerRequest` |
| vectortests | MCVectorTests.cfg | `NothingNullIsUsed`, `PassComparesAllButIgnored`, `FailMeansFault`, `NothingIsReadEarly`, `EveryTestEnds` |

**Bounds, and why they are enough.**

- *decoder*: two objects (isolation is a statement about pairs), three addresses
  (each object holds one and a third is needed by `setup`, whose first pool may
  also get, or leave, the address of an earlier one), one softbuffer identifier
  (the pool never relates two of them except by counting), two blocks that need
  one and two codeblocks and pools of one and two, so that "full" happens.
  The proofs remove all of these bounds.
- *decoder_faults*: the same with one configuration; every single failure and
  every sequence of them.
- *bler*: two SNR points (soft buffers left by the first are there in the second,
  and the point a call does not simulate exists), two HARQ processes and two
  redundancy versions (a block is in flight while another is sent; first
  and last attempts differ), two blocks, two codeblocks (some flags set, some
  not), two to four slots (with four, each process sends twice and can
  retransmit after the other), `QuickLimit` 1 (stands for 100, so that the
  early stop happens before, at and after the last slot). The number of calls is
  not bounded.
- *pucch*: two objects, three SNR values (a repeated value between two others: the
  smallest list for which sorting, removing and appending all differ), two
  lengths of simulation, any number of calls. Any list of values for Formats 0
  and 1; single values for Formats 2 to 4, for which lists fail (run
  pucch_step). The configurations leave out Format 0 false-alarm tests and Format 1
  detection tests, whose results do not combine, see section 6.
- *pucch_point*: four slots and a `QuickLimit` of 2, every answer of the
  receivers, up to two ACK bits and one SR bit.

- *prach*: a grid of 1000 thresholds, half as fine as that of the code, which starts at
  2 and rounds to thousandths: with the search free to go down to 0, the full grid
  has more states than are needed to pass through every case, and the proofs hold for a
  grid of any size. Rates in 20ths of the target: 0, one that
  both searches accept, one that only the rough search accepts (the fine one then
  halves the weight of the other end again and again, which takes the threshold as far
  down as it gets, to 0 if the simulator has few false alarms there, so that `Refused`
  happens) and one that both refuse. Three configurations of which the last
  two are requested, two cyclic shifts each, any number of interruptions.
- *prach_rerun*: two formats of one configuration each; a small grid, as the search
  does not matter.
- *mex*: two objects (one whose setup is undone by the other's), two settings, one to
  three receive ports (the entry over all ports exists only for more than one; with three
  a sum goes on after a port without offset), every
  combination of the facts in a request, a spacing that the MEX function knows and one that
  it does not, lists of up to two PUCCHs of which some are
  duplicates, some have the same hash under a weaker hash, one is out of bounds. The
  number of calls is not bounded.
- *vectortests*: all test executables, every outcome of every step. Two tests after
  the setup of the suite: what one test leaves (the flag for the
  accelerator, static objects of a setup that failed) is met by the next,
  which may be any test of the file, the same one included. Parts of one `Create` step
  fail at each position.

**Deadlock** is checked in all runs but pucch_point, where the point ends, and
vectortests, where the process ends after its last test.

**Fairness.** The specifications of the decoder and of the simulators have none:
they say what calls may do, it is the user who decides whether there is another
call, and the loops inside a call are `for` loops over lists and slots. The exception
is PrachThresholds, with a `while` loop whose end is not obvious. `WF_vars(Run)` says
that a call which runs goes on unless it is interrupted (MATLAB has one thread, and
every step of a call is a finite computation). Calls need not be interrupted, and need
not be made. `CallsEnd` then says that each search ends; a move to the centre that goes
too far makes it cycle.

VectorTests has weak fairness on `StepOfTest`, the thread of the test, and on
`UnitEnds`, the worker threads: each is a thread of the process that the operating system
schedules, and the unit under test is taken to end. `EveryTestEnds` then says that no
test waits for a notification that cannot come; `Wait` is enabled only when something
was started and has ended, as the notifier of the test is.

## 4 Proofs

All theorems hold for any values of the constants that satisfy the named assumptions of
the modules. Two theorems about the PUCCH simulator, one about the threshold search and all
about the vector tests have hypotheses of their own, named below.

**Induction over data.** The provers cannot instantiate the induction theorems of the
library. Where a list or a set of any size matters, two arguments replace them. *Ranks*:
the place of an element in a sorted list is the number of elements before it, so that
sorting is a matter of cardinalities. *Smallest counterexamples*: the strict
subsets of a finite set are well founded, so a set of subsets with some defect has one
that is minimal, and taking an element from it gives one without the defect. That
is how a set of SNR values or cyclic shifts is shown to have a least element, and how a sum
over a list is computed.

### The PUSCH decoder

`SoftbufferPoolProofs` has lemmas about a pool as a value: reserving, clearing
flags and decoding leave a pool with the same configuration, do not touch the buffers of
other identifiers, and leave a buffer *clean* (nothing of another block in it) that
was clean. `PuschDecoderMexProofs` has the theorems, for any sets of objects,
keys, identifiers and blocks, any segmentation and any configurations. 0 (the null
pointer) is not a key, configurations are positive dimensions, a block has between 1
and `MaxNCB` codeblocks.

- **InvHolds**: `Spec => []Inv` with
  `Inv == TypeOK /\ LockedHasPool /\ ExclusivePools /\ NoSpuriousAbort /\ PoolMatchesConfig`.
  Neither of the two middle conjuncts is inductive alone. `Release` erases the pool of
  one key; the other objects keep theirs only because none of them holds that
  key (`ExclusivePools`). `Setup` takes a key that is not in the storage; it is
  new to all objects only because every key held is in the storage
  (`LockedHasPool`). The corollaries are `TypeCorrect`, `PoolsAreExclusive`,
  `LockedObjectsHavePools`, `KeysAreKnown` and `PoolsMatchTheirConfig`.
- **DecodersAreIsolated**: `Spec => Isolation`. The mapping takes the pool of an
  object to be what its key refers to (`OwnPool`). Every call of the code is the same
  call of the abstract decoder. The argument in each case is that the storage changes
  only at the key of the caller (lemma `OtherKeys`), which by `Inv` no other object
  holds.
- **PoolsDoNotLeak**: `FaultySpec => []NoLeak`. This does *not* follow from `Inv`,
  which faults destroy: after `ResetFails` an object keeps a key that is gone. A
  weaker invariant survives faults: the types, and that each live key belongs to
  some locked object.
- **BuffersMatchSegmentation** (`SegmentationMatches`): a buffer has the codeblocks of all
  blocks it combines. `Segmented` says so of a pool as a value; reserving a buffer for a
  block of another size empties it (`ReserveSegmented`), clearing flags keeps or empties
  (`ClearFlagsSegmented`), and decoding adds a block only to a buffer just
  reserved for it (`StepSegmented`). A call writes one pool, so that this is enough
  (`CallSegmented`).

### The other MEX functions

`MexFunctionsProofs`, for any set of objects and settings, any number of receive ports
and lists of multiplexed PUCCHs of any length.

- **InvHolds**: `Inv` joins two parts. The shared state: types, a locked object has a
  processor, the processor belongs to `lastSetup`, and only setups move it; hence
  `TypeCorrect`, `ProcessorsAreThere` and `LastSetupIsServed`. The last reply: it is the
  answer to a request of the class that was called.
- **GapsAreKnown** (`OnlyKnownGaps`): the chain of checks is followed for each class. What
  the class lets through and is not `Unserved` passes the checks in C++
  (`AcceptedIsServed`), because what is sent has the fields that the MEX function reads
  (`FieldsAreSent`) and names that it knows (`AllNamesAreKnown`), because the columns of
  the pilots fit the layers, and because the processor is there (`StepFindsProcessor`, from
  the shared state). The process ends only for an unknown spacing (`SpacingsTerminate`).
- **DuplicatesAreRefused**: MATLAB counts distinct hashes, the MEX function rejects equal
  keys. As many hashes as entries means that no two are equal (`DistinctHashes`:
  a surjection between sets of the same size is injective), and within the bounds
  that are checked before, equal hashes are equal keys (`HashTellsKeysApart`). The two
  checks then agree (`ChecksAgree`), so that no duplicates reach the MEX function.
- **ResultsAreAnswers** (`ResultsAnswerRequest`): the MEX function finds the results of a
  batch in the order of a map. Without duplicates, the key of each entry of the list finds that
  entry (`ResultsInOrder`). The metrics over all ports are a running sum, which is not a number as
  soon as one port has none and stays so: `RunningSum` is a smallest counterexample
  (the last port is taken from the set of ports), `InfosAgree` its consequence.

### The PUSCH simulator

`PuschBlerProofs`, for any number of HARQ processes, any sequence of distinct redundancy
versions, any blocks, codeblocks, SNR values, slots and calls.

- **InvHolds**: `Spec => []Inv`. The properties are not inductive alone. They need that a
  call runs on a valid configuration (`CallsOK`), that no process is beyond the last
  redundancy version and none repeats without HARQ (`VersionsOK`), and that
  a MATLAB decoder that is not in use has empty buffers (`UnusedIsEmpty`).
- **BlocksAreSeparate** (`BlocksDoNotMix`): the decoder finds a clean buffer, because new
  data either overwrite or find an empty one and `resetCRCS` clears the flags
  (`OcuduBufferIsClean`); decoding leaves it clean (`CleanDecoding`); the buffers of other
  processes are not touched (`OtherBuffers`). This is where lemmas of
  `SoftbufferPoolProofs` are used.
- **CountedOnce** (`EveryBlockIsCountedOnce`): a process has new data next time exactly if
  its block is counted now (`UpdateOK`), so that the set of processes in flight gains and
  loses members as the two counters drift apart and together (`SlotCountsBlocks`).
- **ThroughputBound** and **NoHARQAccounting**: with HARQ there is one decoder only
  (`checkHARQandDecType`), and without HARQ each transmission is the last
  (`SlotCreditsDecoders`).
- **StepsAlwaysSucceed** (`StepsSucceed`): a second invariant, `CallInv`, adds to `Inv` that
  the pool has the dimensions of `configureSegment` and buffers of equal size (`PoolFits`) and that a
  call stays within its slots and SNR values (`LoopsOK`). The codeblocks in use are
  pairs of a process and one of its codeblocks, no more than processes times
  codeblocks, which is what the pool was created for (`RoomForAll`); so no softbuffer
  is refused (`NeverUsedUp`) and nothing but a plot fails. Diagnostics may have been
  switched on since the setup, so that the failed call can meet results of earlier ones.
- **TypesHold** (`TypeOK`): from `CallInv`; the point that comes next is an SNR value of
  the call because a finite set has a least element (`LeastSNR`), and each result array has
  a row per SNR value because all are joined with the same positions (`TablesStep`).

### The PUCCH simulator

`PucchPerfProofs`, for any number of objects and handles, any SNR values, any
lists that users simulate, and configurations of all formats.

- **RowsAreJoined**: what `joinArrays` does to one array of any length. The positions that
  stay, the sorted order and the new order are `Ranked` lists, and a ranked list names each element
  once and in order (`RankedSorts`, from counting the elements before one). The positions are
  computed once, for the SNR values; applied to any array with a row per value
  they give an array with a row per value, in which the values of the call have the new rows
  and the others their own.
- **TypesHold** (`TypeOK`), **FirstCounterAlwaysMatches** (`FirstCounterMatches`). What a handle
  refers to is, after each step, new, or what some handle held before, or that reset, or
  that updated by `updateCounters` (`EveryStepHasOrigins`). A property of result arrays
  is therefore invariant if new arrays have it and reset and update keep it. For the first
  counter they do, also when the update of a later counter fails, as the first is
  updated before (`UpdateKeepsFirst`).
- **StepsAlwaysSucceed** (`StepsSucceed`), if `SingleSNRs`: calls for Formats 2 to 4 simulate one
  SNR value each. The invariant is that no array is shorter than the list of SNR values
  (`LongEnough`), so that each position to delete exists; and `zeros(nPoints)` is as wide as the
  arrays it is joined to when `nPoints` is 1. Without the hypothesis the theorem is false:
  run pucch_step.
- **ResultsAlwaysCombine**: `Spec => ResultsCombine`, PucchPerf implements ResultTables, if
  `SingleSNRs` and `SoundConfigurations`: no Format 0 false-alarm tests and no Format 1
  detection tests. The mapping reads the table of an object from the arrays behind its handle,
  which needs them to be aligned: each displayed counter has one row per SNR value
  (`AlignedTables`). Then a call of step of the code updates the table as
  the abstract one does (`UpdatedTable`), and every other call maps to its namesake. Both
  hypotheses are needed: a false-alarm test of Format 0 puts the false ACKs in the place of
  the false SRs, and `reset` forgets the NACK-to-ACK counters of Format 1 (run
  pucch_reset), so that `AlignedTables` fails. The constants of run pucch satisfy them.

### The counters of a PUCCH point

`PucchPointProofs`, for any number of ACK bits and slots and any answers of the receivers.

- **RatesAreRates** (`RatesAreProbabilities`): of each rate that is displayed, a slot adds
  no more to the counter than to what the counter is divided by; only of the false SR rate
  of Format 0, whose counter is that of the false ACKs, the bound is the number of ACK bits (`Format0Bounded`, `Format1Bounded`, `Format2Bounded`), whatever
  the receiver answers. The fields of a slot are sets of bits, and what is counted as missed,
  lost or false is a part of what was sent or can be sent (`FieldBounds`). The
  invariant adds to the property only that a point that is not over has slots left, so that
  no slot is counted after the last.
- **ReceiversCompare** (`ReceiversAreComparable`): the two pieces of code that count the
  answers of MATLAB and of OCUDU add the same for the same answer (`SameAnswerSameCount`).

### The threshold search

`PrachThresholdsProofs`, for any false-alarm rates, target and grid of thresholds. Nothing
is assumed about how the rates depend on the threshold.

- **InvHolds**: `Inv == IsSearch(search) /\ CurveOK /\ BracketHoldsTarget /\ NarrowsDown`. The
  last threshold is within the bracket, because the new one is a mean of its ends with weights
  that are not negative, and rounding to the grid does not leave it (`RoundedMean`). That
  the weights are not negative, and not both zero, is because the value at the lower end
  is positive and that at the upper end is not, also when one is halved.
- **TargetStaysInBracket** (`BracketHoldsTarget`): the end that moves is replaced by the last
  threshold, on its side of the target (`BracketOK`), so the bracket only shrinks and what
  was outside stays outside.
- **SearchNarrowsDown** (`NarrowsDown`): the loop is left with a rate out of bounds only if the
  threshold does not move. As the last threshold is an end of the bracket, the step to the
  centre moves unless the bracket is at most four units wide (`CentredOK`).

- **TypesHold** (`TypeOK`): thresholds stay on the grid as the bracket only shrinks
  (`OnTheGrid`), and the loops within the configurations of the request (`LoopsOK`).
- **TableIsResumed** (`ResumesWhereItStopped`). The inductive invariant says which rows
  are in the table at each place of the loops (`Saved`): those of all configurations before, and
  of the current one those whose cyclic shift is not left (or, before the shifts are chosen, not
  above the last in the table). A call that resumes finds both numbers in the last row, because
  the rows are in order (`LastRow`); the row that is written comes next because
  the shifts left are all those from some shift on (`InOrder`).
- **SearchesAdvance**: `Left`, four times the width of the bracket plus the number of turns
  that the search may still take between its ends (3 to 0), decreases with every iteration. Where the
  bracket does not shrink, the threshold goes from one end to the other, and each end has
  its rate by then; the false position of two known ends either is inside or does not move.
- **CallsAdvance**: every step of a call decreases what is left of it, in the order
  of configurations, cyclic shifts, parts of the simulation of one shift, and `Left`
  (`Nearer`). Only an interruption or a refused threshold leads back, and then to the row after the last
  (TableIsResumed). This is the part of `CallsEnd` that is about the code; what remains for TLC
  is that a running call has a next step and that fairness makes it take it.

### The vector tests

`VectorTestsProofs`, for any files and any number of tests in one process. The hypothesis is
`FilesFollowRules`: in each script, steps come in an order that `FollowsRules` states (what a step uses was made
sure of before, or is trusted; a wait comes after what it waits for was started; what is
compared was written and is not ignored, and the units started were waited for;
what is written is compared after it was last written, or is ignored; objects are checked
after the test was skipped if the device is missing), and it is about scripts only, not
about behaviours. TLC checks it for each file of `ocuduVectorTests`, as the part of `TypeOK` that
holds when a script begins (`pc = 1 => FollowsRules(Files[file])`). That the rules are
*enough* is what is proved: a test meets what earlier tests of the process left, outcomes are
arbitrary at each step, and the unit's threads write while the test goes on.

- **InvHolds**: the invariant follows the script. The outputs are those that the steps so far write
  (`Written`), and pending ones belong to a unit that was started and not waited for
  (`PendingWasStarted`); what was made sure of is not null (`EnsuredAreThere`), whether by
  this test or by the suite (`SuiteKeeps`); what was made is null only after a fault
  (`MadeUnlessFault`) or without the device, which the skip rules out (`ScreenKnows`); what was
  compared since is right or the test fails (`ComparedIsRight`), nothing that is ignored was
  compared (`IgnoredIsNotCompared`), and a wrong output has a fault (`WrongIsFault`).
- **TypesHold**, **NoCrash** (`NothingNullIsUsed`), **PassesCompareAllButIgnored** (`PassComparesAllButIgnored`),
  **FailuresHaveFaults** (`FailMeansFault`), **NoRace** (`NothingIsReadEarly`) follow from it.
- **TestsAdvance**: twice the number of steps left, plus one while a unit writes, decreases with
  every step of a test and with the end of every unit. **WaitsEnd** (`WaitsForUnit`): a
  test waits for a notification only when it started a unit that gives it. What remains of
  `EveryTestEnds` for TLC is that fairness of the threads makes these steps happen.

### Only model-checked

- The liveness properties `CallsEnd` and `EveryTestEnds`: liveness under fairness, and ENABLED,
  are beyond the installed provers. The theorems CallsAdvance, TestsAdvance and
  WaitsEnd prove what they rest on: each step of a call or a test brings it nearer to its end.
- `ResultsCombine` of PUSCHBLER. What it rests on is proved elsewhere: RowsAreJoined is about
  the `joinArrays` that both simulators use, and TypesHold says that the arrays have a row
  per SNR value.
- That the files of `ocuduVectorTests` follow the rules, which is a finite computation.

## 5 Assumptions about code outside the repository

- **MATLAB.** One call at a time. `setup` runs `validatePropertiesImpl`,
  `setupImpl`, then `resetImpl`. `reset` and `release` act on locked objects only. If
  `releaseImpl` throws, the object stays locked; whether an object is locked after
  `resetImpl` throws during setup is left open. Nontunable properties cannot be set on
  locked objects. `clone` runs `saveObjectImpl` and `loadObjectImpl` in memory, so that
  handles are copied; a file holds a copy of what they refer to. Loading a locked
  PUSCH decoder does not restore its private key and calls `setupImpl`.
  Concatenation ignores an array without rows and fails for different widths;
  deleting or reading a position that does not exist fails.
- **PRACH simulations.** The false-alarm rate does not grow with the threshold (the proofs
  do without it), a threshold has one rate within a search; the rough and the fine search,
  with different numbers of occasions, may see different
  rates. `save` writes the whole table or nothing.
- **The allocator** may return any address not in use.
- **The OCUDU library** (`rx_buffer_pool`, decoder): reserving returns the softbuffer
  of the identifier or creates one if the pool has room
  (`pusch_decoder_mex.h:39-48`); the MEX never calls `run_slot`, so that nothing
  expires; new data overwrites soft bits but CRC flags stay until they are reset;
  whether the buffer of a decoded block goes back to the pool is left open. A
  decoder never returns a wrong block except through a stale flag.
- **5G Toolbox.** `HARQEntity` (not distributed with the code) sends new data first;
  after a CRC error the next redundancy version; after the last one new data, with
  `SequenceTimeout`. `nrULSCHDecoder` combines, and clears its soft buffer on success.

## 6 Where code and documentation disagree

Four disagreements have a run with a counterexample (PROJECT.json, findings):

1. `PUSCHBLER.m:995` (and 965) compares decoded bits with `trBlk`, the last block
   generated by *any* HARQ process. A block received in a retransmission after
   another process has sent a new one differs from it and is counted as missed, so that
   received and missed blocks exceed the blocks sent (bler_missed).
2. `FormatDetailsF1.m:108`: `reset` forgets the NACK-to-ACK counters. The next call
   appends its rows to the old ones and shows the old (pucch_reset).
3. `FormatDetailsF2.m:112`: `zeros(nPoints)` is a square matrix. A second call with two
   or more SNR values fails after `SNRrange` was changed (pucch_step).
4. `PRACHthresholds.m:87` looks at the last row of the table only. Calls for a format,
   another one and the first again with the same file simulate the first again and
   append its rows a second time, although "the simulation will not rerun the
   configurations in the table" (prach_rerun).

Others were seen while modelling. The models contain what the code does, or name it
here:

- `FormatDetailsF0.m:133-134`: the false SR counters are joined with the *false ACK*
  statistics (`Joined` in PucchFormats), so that Format 0 false-alarm tests are not among
  the configurations of run pucch. The false SR rate that users see (lines 354, 365) is the
  number of false ACK bits divided by the number of slots: with two ACK bits it may be as
  large as 2, without any it is 0, whatever the receiver does (`Rates` and the limit in
  `RatesAreProbabilities`).
- `PUCCHPERF.m:337`: a clone of a locked simulator shares its results with the
  original (`Clone` in PucchPerf). ResultTables says so, too: it is what the class does,
  and nothing in its help says otherwise.
- `FormatDetailsF0.m:431`: the quick stop of a detection test also asks for false ACKs,
  which a detection test never counts: only the SR branch can stop it.
- `FormatDetailsF1.m:337`: missed occasions are counted per transmission and divided
  by occasions counted per bit.
- `PUSCHBLER.m:920`: with diagnostics and no MATLAB decoder `puschEq` is plotted before
  it is defined (`PlotFails`); this is why `StepsSucceed` excepts diagnostics. Diagnostics
  are tunable, so that they may be switched on after successful calls; the call that fails
  then leaves their results as they were (`ResultsCombine`).
- `PUSCHBLER.m:1011`: blocks in flight when a point ends are in none of its totals
  (`EveryBlockIsCountedOnce` has the term).
- `memento.h:36`: a key is unique among live mementos only. After `clear mex` an old
  object may hold the address of a new object's pool (why `ExclusivePools` is
  claimed for `Spec` and not for `FaultySpec`).
- `ocuduPUSCHDecoder.m:218`: when the release fails, `SoftbufferPoolID` keeps its value.
- `PRACHthresholds.m:232`, `243`: the Anderson-Björck factor compares the new function
  value with itself (the previous one is overwritten just before), so that it is always
  replaced by 0.5, the Illinois rule.
- `PRACHthresholds.m:150`: "the resulting PFA should fall in the interval (0.9, 1)" does
  not always hold: a search whose bracket is at most 0.004 wide is given up
  (`NarrowsDown` says what does hold).
- `PRACHthresholds.m:251`: nothing keeps the rounded threshold away from 0, which
  `PRACHPERF` refuses, so that the call fails (`Refused`). In the model it happens when even
  the smallest thresholds have too few false alarms. The next call begins the same search again.
- `PRACHPERF.m:632`, `638`, `729`: results that survive release, a file that a clone
  does not have, a deviation computed without the factor n. This file is not modelled
  yet.
- **Estimator and demodulator.** All objects share the processor of the MEX function
  (`multiport_channel_estimator_mex.cpp:63`, `pusch_demodulator_mex.cpp:197`): an object
  whose setup was not the last is served with another's settings, although its own
  properties say otherwise. `LastSetupRules` claims it for the last one only.
  A demodulator loaded in a new session dereferences a null pointer.
- `ocuduMultiPortChannelEstimator.m:293`, `303`, `318`: the implementation in MATLAB starts
  the sum of the frequency offsets with `cfo = []` and adds to it, and the sum of `[]` and a
  number is `[]`: with more than one port there never is an offset over all ports
  (`PlainInfos`). The MEX function has one when each port has one (`ResultsAnswerRequest`).
- **Requests that the documentation allows and that fail** (`Unserved` lists them; what is
  not in it is served, `OnlyKnownGaps`):
  - estimator: the default `PortIndices` on a grid with several ports (aborted), pilots
    without an imaginary part that MATLAB stores as real (aborted), pilots that are not in
    the same REs of all PRBs (aborted), and PRBs with gaps, for which the estimates are
    written to the wrong REs (`multiport_channel_estimator_mex.cpp:232`, `misplaced`);
  - demodulator: the default `NID = []` (aborted); fewer `rxPorts` than the estimates have ports, which
    `ocuduPUSCHDemodulator.m:78` permits: the shares of the copies in
    `pusch_demodulator_mex.cpp:300` then exceed their buffers (`SharesFit`);
  - PUCCH processor: the default `NID0 = []` with Format 2 (aborted); 0 to 4 SR
    opportunities, as `pucch_processor_mex.h:87` says, of which more than one abort with
    Format 0; the spacings 480 and 960 kHz of `nrCarrierConfig`, which the class does not
    check and the conversion does not know: the process ends;
  - PRACH detector: symbols without an imaginary part (aborted).
- `multiport_channel_estimator_mex.h:77` says that there is one more info than ports; with
  one port there is one.
- `ocuduPUCCHProcessor.m:38` and `pucch_processor_mex.h:95` document a `Metric` that the
  result of a single transmission does not have (`pucch_processor_mex.cpp:501`).
- `prach_detector_mex.h:71` lists `PowerDecibel` and `SINRDecibel`; the code returns
  `NormalizedMetric`.
- **Vector tests that trust an object** (`trusts` of the file): a factory function checks
  the wrong pointer (`pdsch_processor_vectortest.cpp:258`, `pdsch_modulator_vectortest.cpp:61`,
  the factories of `pbch_modulator`, `pdcch_modulator` and `ssb_processor`), or nothing is
  checked (`dmrs_pdcch_processor`, the demodulator of `pusch_demodulator`, the
  processor of `dft_processor`). A null object there crashes the process.
- **Suites whose setup may fail**: `dmrs_pdsch_processor`, `ldpc_rm` and `ldpc_segmenter` use
  static factories in tests without checking them again, unlike the others.
- **Outputs that nobody compares** (`ignores` of the file). A test passes when they are wrong:
  - `ldpc_enc_dec`: the number of iterations when nearly all LLRs are zero
    (`ldpc_enc_dec_vectortest.cpp:383`), although the comment above (line 374) says "and an
    empty output" and the test before asserts it; `ldpc_segmenter`: the number of received
    codeblocks, as lines 142 to 146 loop over those that are there; `ldpc_rm`: what is
    dematched in one of the tests;
  - PUSCH processor: CSI Part 2, UCI that was not asked for, other CSI, the decoder statistics,
    and the data of the test with zeros (`pusch_processor_vectortest.cpp:529`); PUSCH
    demodulator: the provisional values and the EVM; UL-SCH information without data;
  - PUCCH processor: the channel state and the detection metric of Formats 2, 3 and 4, RSRP
    and metric of Format 0, the SINR of Format 1, and with a grid of zeros the message and
    the metric. Of the Format 1 transmissions without expected bits *one* may have the wrong
    status (`pucch_processor_format1_vectortest.cpp:160`);
    `dmrs_pucch_estimator`: everything but the noise variance;
  - `prach_detector`: only the expected preamble is looked for among those detected
    (`prach_detector_vectortest.cpp:142`), and the time resolution is not compared;
  - `srs_estimator`: the norm of the channel matrix, and what is logged; Open Fronthaul
    compression: zeros before they are decompressed, and the data of one of the 9-bit tests;
  - `prs_generator_vectortest.cpp:81` ignores the result of the comparison under "Assert
    resource grid entries".
- `modulation_mapper` asserts in a helper function, whose end does not
  end the test. `pusch_decoder_vectortest.cpp:327` calls the last repetition by an inverted
  condition. `prach_detector` skips invalid configurations
  ("todo(david): this should be an assertion!").

## 7 What is not modelled, and the plan

Not modelled, and why:

- **PRACHPERF** beyond the rate it returns: its results over calls and its exploration file.
  The three notes on it in section 6 are hazards without a property.
- **combinePUSCHSims**: sums of counters, no state.
- **Block test framework** (`ocuduBlockUnittest`, copying, plugins): the life of a header
  file from the first test case to its footer; files left by interrupted runs would be
  worth a module.
- **Numerical signal processing** (`+ocuduLib`, the generators), plots, file formats,
  analyzers, tutorials, build files and CI: no state between calls, and nothing in them is a
  question for a model checker.
- **In the vector tests**: arguments of the decoder's and encoder's programs, the logging of
  a test case, the data in the headers, and the numbers in a comparison (tolerances).
- **In the MEX support**: views and copies of the resource grid, the tables of PRACH
  formats. Of the dispatcher, what matters to callers is in MexFunctions and
  PuschDecoderMex.

What is worth doing next, in order: PrachPerf; BlockUnittest with interrupted runs; the
packing and segmentation helpers of `+ocuduLib` against reference definitions.
