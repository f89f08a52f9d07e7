--------------------------- MODULE MCChatModeration ---------------------------
(* Moderation: bans, silences, renames and what is relayed, in one channel   *)
(* and beside it, as long as no ghost has been inserted (MCChatGhosts goes   *)
(* on from there).                                                           *)
EXTENDS ChatServer, TLC

NoGhost == "ghost" \notin damage

Symmetry == Permutations(Client) \cup Permutations(Nick)
=============================================================================
