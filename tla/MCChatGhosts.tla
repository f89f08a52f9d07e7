----------------------------- MODULE MCChatGhosts -----------------------------
(* Ghosts: /mute and /unmute of names that are not in the channel, and what  *)
(* the other commands make of the map of participants afterwards.            *)
EXTENDS ChatServer, TLC

Symmetry == Permutations(Client) \cup Permutations(Nick)
=============================================================================
