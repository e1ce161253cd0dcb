--------------------------- MODULE OrderedStream ---------------------------
(***************************************************************************)
(* What the transcriber is promised of a session's audio: the packets it   *)
(* is given are packets that arrived, each at most once, in chunk_seq      *)
(* order, and what it was given is never taken back.                       *)
(***************************************************************************)
EXTENDS Integers, Sequences

VARIABLES got, out   \* chunk_seqs that arrived; chunk_seqs handed on, in order

Increasing(s) == \A i, j \in 1 .. Len(s) : i < j => s[i] < s[j]

Extends(t, s) == Len(s) <= Len(t) /\ \A i \in 1 .. Len(s) : t[i] = s[i]

StreamInit == got = {} /\ out = <<>>

Deliver ==
    /\ got \subseteq got'
    /\ Extends(out', out)
    /\ Increasing(out')
    /\ \A i \in 1 .. Len(out') : out'[i] \in got'

NewSession == got' = {} /\ out' = <<>>

StreamSpec == StreamInit /\ [][Deliver \/ NewSession]_<<got, out>>
=============================================================================
