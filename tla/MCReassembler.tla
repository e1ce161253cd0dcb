---------------------------- MODULE MCReassembler ----------------------------
(* Packets 1 .. MaxSeq in any order and any number of times, a deadline of    *)
(* two clock steps.                                                           *)
EXTENDS Reassembler

CONSTANTS MaxSeq

ASSUME MaxSeqAssumption == MaxSeq \in Nat

Arrival == \E seq \in 1 .. MaxSeq : Accept(seq)

MCReasmNext ==
    \/ Arrival
    \/ CheckGap
    \/ IngestFails
    \/ EndSession
    \/ NewReassembler
    \/ ClockTicks

MCReasmSpec == ReasmInit /\ [][MCReasmNext]_reasmVars

\* Every packet of the instance is handed on (Advances), a gap before it or not.
EveryPacketAdvances == \A s \in 1 .. MaxSeq : Advances(s)
=============================================================================
