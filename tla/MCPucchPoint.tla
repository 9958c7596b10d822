---------------------------- MODULE MCPucchPoint ----------------------------
(* PucchPoint: up to two ACK bits and one SR bit. *)
EXTENDS PucchPoint

Choice(format, detection, quick, acks, srs, impl) ==
    [PUCCHFormat |-> format, isDetectionTest |-> detection, QuickSimulation |-> quick,
     NumACKBits |-> acks, NumSRBits |-> srs, ImplementationType |-> impl]

\* Both receivers, every format and test, quick or not; every number of bits with
\* one receiver.
MCConfigurations ==
    {Choice(f, d, q, 1, 0, "both") : f \in 0..2, d, q \in BOOLEAN}
    \cup {Choice(0, d, FALSE, n, 1, "both") : n \in 0..1, d \in BOOLEAN}
    \cup {Choice(1, d, FALSE, 2, 0, "both") : d \in BOOLEAN}
    \cup {Choice(0, d, q, 2, 1, i) : d, q \in BOOLEAN, i \in {"matlab", "ocudu"}}
=============================================================================
