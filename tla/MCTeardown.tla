------------------------------ MODULE MCTeardown ------------------------------
(* Two clients in one channel are enough for each race: a worker inside a    *)
(* command and one that hangs up, an admin and its heir, a sender and the    *)
(* receiver that blocks it.                                                  *)
EXTENDS Teardown

=============================================================================
