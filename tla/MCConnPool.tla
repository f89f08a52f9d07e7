------------------------------ MODULE MCConnPool ------------------------------
(* Two workers and three connections: the workers can meet in the critical   *)
(* section and in cl_count, the main thread meets both in clients_wait, more *)
(* are accepted than cl_arr has entries, and one worker serves two clients.  *)
(* No symmetry: liveness is checked.                                         *)
EXTENDS ConnPool
=============================================================================
