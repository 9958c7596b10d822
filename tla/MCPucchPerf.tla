---------------------------- MODULE MCPucchPerf ----------------------------
(* PucchPerf with two objects and up to three SNR values. *)
EXTENDS PucchPerf

CONSTANTS o1, o2

MCObjects == {o1, o2}
MCSNRs == {-2, 0, 3}
MCTwoSNRs == {-2, 0}
MCAllLists == [f \in 0..4 |-> (SUBSET SNRs) \ {{}}]

\* A second call with two SNR values fails for Formats 2 to 4 (MCPucchPerfStep).
MCSoundLists ==
    [f \in 0..4 |-> IF f < 2 THEN (SUBSET SNRs) \ {{}} ELSE {{s} : s \in SNRs}]

Choice(format, detection, ok) ==
    [PUCCHFormat |-> format, isDetectionTest |-> detection, checksOK |-> ok]

\* Configurations whose counters are right, and a rejected one (Format 3 is set to
\* detection tests).
MCSound ==
    {Choice(0, TRUE, TRUE), Choice(1, FALSE, TRUE), Choice(3, FALSE, TRUE),
     Choice(3, TRUE, TRUE), Choice(0, TRUE, FALSE)}

MCF1 == {Choice(1, TRUE, TRUE)}
MCF2 == {Choice(2, TRUE, TRUE)}
=============================================================================
