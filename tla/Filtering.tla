----------------------------- MODULE Filtering -----------------------------
(***************************************************************************)
(* A loop that goes through a list and copies what it wants to keep: the   *)
(* commands still pending (dispatcher.py), the packets a request asks for  *)
(* (RelaySession.kt), the manifest lines not posted (transfer.c).          *)
(***************************************************************************)
EXTENDS Naturals, Sequences

\* The elements of s that are in keep, in the order of s.
Filter(s, keep) ==
    LET kept[i \in 0 .. Len(s)] ==
            IF i = 0 THEN <<>>
            ELSE IF s[i] \in keep THEN Append(kept[i - 1], s[i]) ELSE kept[i - 1]
    IN  kept[Len(s)]
=============================================================================
