---------------------------- MODULE PucchFormats ----------------------------
(***************************************************************************)
(* What the helper classes FormatDetailsF0 to FormatDetailsF4 of the       *)
(* PUCCHPERF simulator count.  Counters that exist once for MATLAB and     *)
(* once for OCUDU are treated in the same way and stand here once.         *)
(*                                                                         *)
(* The value of a counter at a simulated point is an entry: the quantity   *)
(* counted, the SNR it was counted at and the length of the simulation.    *)
(* rng('default') at every point makes that the whole story.               *)
(***************************************************************************)
EXTENDS Integers, Sequences

CONSTANTS
    SNRs,           \* SNR values that users may simulate.
    Frames          \* Values of nFrames.

ASSUME SNRsAssumption == SNRs \subseteq Int

\* PUCCHFormat and isDetectionTest; checksOK: checkSymbolAllocation, checkPRBs
\* and checkUCIBits accept the rest of the configuration.
Properties == [PUCCHFormat : 0..4, isDetectionTest : BOOLEAN, checksOK : BOOLEAN]

CountersOfF0 ==
    {"TotalBlocks", "TransmittedACKs", "MissedACKs", "MissedSRs", "FalseACKs", "FalseSRs"}

CountersOfF1 ==
    {"ACKOccasions", "TransmittedACKs", "TransmittedNACKs", "MissedACKs",
     "NACK2ACKs", "MissedOccasions", "FalseACKs"}

CountersOfF2 == {"TotalBlocks", "MissedBlocks", "FalseBlocks"}

\* F3 and F4 inherit from F2.
Counters(format) ==
    CASE format = 0 -> CountersOfF0
      [] format = 1 -> CountersOfF1
      [] OTHER -> CountersOfF2

AllCounters == CountersOfF0 \cup CountersOfF1 \cup CountersOfF2

Entries == [quantity : AllCounters, snr : SNRs, nFrames : Frames]

\* F3 and F4 always run detection tests: setupImpl sets the property TestType.
TestTypeSet(p) ==
    IF p.PUCCHFormat >= 3 THEN [p EXCEPT !.isDetectionTest = TRUE] ELSE p

\* The counters that updateCounters updates, in this order.
Exported(p) ==
    CASE p.PUCCHFormat = 0 ->
            <<"TotalBlocks">> \o
            (IF p.isDetectionTest THEN <<"TransmittedACKs", "MissedACKs", "MissedSRs">>
                                  ELSE <<"FalseACKs", "FalseSRs">>)
      [] p.PUCCHFormat = 1 ->
            <<"ACKOccasions">> \o
            (IF p.isDetectionTest
             THEN <<"TransmittedACKs", "TransmittedNACKs", "MissedACKs",
                    "NACK2ACKs", "MissedOccasions">>
             ELSE <<"FalseACKs">>)
      [] OTHER ->
            <<"TotalBlocks", IF p.isDetectionTest THEN "MissedBlocks" ELSE "FalseBlocks">>

\* The counters users see (getCounters).
Shown(p) == {Exported(p)[j] : j \in DOMAIN Exported(p)}

\* The quantity that updateCounters takes for counter c.
Joined(format, c) == IF format = 0 /\ c = "FalseSRs" THEN "FalseACKs" ELSE c

\* The counters that reset does not clear.
KeptByReset(format) == IF format = 1 THEN {"NACK2ACKs"} ELSE {}

\* setupTmpStats: the statistics of F2 to F4 are allocated as square matrices
\* (of which only the first column is used), those of F0 and F1 as columns.
Width(format, c, nPoints) ==
    IF format >= 2 /\ c # "TotalBlocks" THEN nPoints ELSE 1
=============================================================================
