------------------------------- MODULE Ordered -------------------------------
(***************************************************************************)
(* Walks in an order: over the keys of a std::map, and over the sends of a *)
(* command that reach one client.                                          *)
(***************************************************************************)
EXTENDS Naturals, SequencesExt

(* The numbers in S, the least first.                                         *)
Ascending(S) ==
    CHOOSE s \in SetToSeqs(S) : \A i, j \in DOMAIN s : i < j => s[i] < s[j]

=============================================================================
