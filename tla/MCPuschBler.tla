---------------------------- MODULE MCPuschBler ----------------------------
(***************************************************************************)
(* PuschBler with two SNR points, two HARQ processes and two redundancy    *)
(* versions.                                                               *)
(***************************************************************************)
EXTENDS PuschBler

CONSTANTS t1, t2

MCBlocks == {t1, t2}
MCProcesses == 0..1
MCRVs == <<0, 2>>
MCPoints == {-1, 0}

Choice(impl, harq, quick, diag, slots) ==
    [ImplementationType |-> impl, EnableHARQ |-> harq, QuickSimulation |-> quick,
     DisplayDiagnostics |-> diag, SlotsPerFrame |-> slots]

\* Each decoder with HARQ, both together with HARQ (to be rejected) and without, and
\* simulations whose diagnostics or quick stop can be switched while the object is
\* locked.
MCProperties ==
    {Choice("matlab", TRUE, FALSE, FALSE, 4), Choice("ocudu", TRUE, FALSE, FALSE, 4),
     Choice("both", TRUE, FALSE, FALSE, 3), Choice("both", FALSE, TRUE, FALSE, 2),
     Choice("ocudu", TRUE, TRUE, TRUE, 4), Choice("matlab", TRUE, FALSE, TRUE, 4),
     Choice("ocudu", FALSE, FALSE, TRUE, 2)}

MCOcuduHARQ == {Choice("ocudu", TRUE, FALSE, FALSE, 4)}
=============================================================================
