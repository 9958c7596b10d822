---------------------------- MODULE FormatDetails ----------------------------
(***************************************************************************)
(* The result arrays of PUCCHPERF: an object of class FormatDetailsF0 to   *)
(* FormatDetailsF4, as a record of its SNRrange and of one array (sequence *)
(* of entries) per counter, and the methods that change it.                *)
(***************************************************************************)
EXTENDS PucchFormats, JoinArrays

\* A new object for the configuration p.
NewDetails(p) ==
    [prop |-> p,
     SNRrange |-> <<>>,
     ctr |-> [c \in Counters(p.PUCCHFormat) |-> <<>>]]

IsDetails(d) ==
    \E p \in Properties :
        d \in [prop : {p}, SNRrange : Seq(SNRs),
               ctr : [Counters(p.PUCCHFormat) -> Seq(Entries)]]

\* Mutant: the SNR values are kept.
ResetDetailsCounters(d) ==
    [d EXCEPT !.ctr = [c \in DOMAIN d.ctr |->
        IF c \in KeptByReset(d.prop.PUCCHFormat) THEN d.ctr[c] ELSE <<>>]]

\* Method reset.
ResetDetails(d) ==
    [d EXCEPT !.SNRrange = <<>>,
              !.ctr = [c \in DOMAIN d.ctr |->
                  IF c \in KeptByReset(d.prop.PUCCHFormat) THEN d.ctr[c] ELSE <<>>]]

-----------------------------------------------------------------------------
(***************************************************************************)
(* updateCounters.                                                         *)
(***************************************************************************)

\* The statistics column of counter c after simulating SNRIn.
Column(format, c, SNRIn, nFrames) ==
    [i \in DOMAIN SNRIn |->
        [quantity |-> Joined(format, c), snr |-> SNRIn[i], nFrames |-> nFrames]]

\* updateCounters: SNRrange first, then one counter after the other; an error in
\* one of them ends the method and leaves the rest as they were.
UpdateOutcome(d, SNRIn, nFrames) ==
    LET format == d.prop.PUCCHFormat
        names == Exported(d.prop)
        repeatedIdx == RepeatedIdx(d.SNRrange, SNRIn)
        range == RemoveIdx(d.SNRrange, repeatedIdx) \o SNRIn
        sortedIdx == SortedIdx(range)
        New(c) == Column(format, c, SNRIn, nFrames)
        Fails(c) == JoinFails(d.ctr[c], New(c), Width(format, c, Len(SNRIn)),
                              repeatedIdx, sortedIdx)
        Updated == {c \in ToSet(names) :
                        \E j \in DOMAIN names :
                            names[j] = c /\ \A i \in 1..j : ~Fails(names[i])}
    IN  [details |->
            [d EXCEPT
                !.SNRrange = [i \in DOMAIN sortedIdx |-> range[sortedIdx[i]]],
                !.ctr = [c \in DOMAIN d.ctr |->
                    IF c \in Updated
                    THEN joinArrays(d.ctr[c], New(c), repeatedIdx, sortedIdx)
                    ELSE d.ctr[c]]],
         failed |-> Updated # ToSet(names)]
=============================================================================
