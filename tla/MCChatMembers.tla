---------------------------- MODULE MCChatMembers ----------------------------
(* Membership: clients that name themselves, join, leave, are kicked, let    *)
(* back in and renamed, in two channels.  All constants are sets of model    *)
(* values that the specification only compares, so they are symmetric.       *)
EXTENDS ChatQueue, TLC

Symmetry == Permutations(Client) \cup Permutations(Nick) \cup Permutations(Channel)
=============================================================================
