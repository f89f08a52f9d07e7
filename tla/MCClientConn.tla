----------------------------- MODULE MCClientConn -----------------------------
(* A client that connects twice.  Two connections are what it takes for the  *)
(* threads, the buffers and the state of one to meet the next.               *)
EXTENDS ClientConn

(* What the server answers is on its way and not read yet, and the output    *)
(* thread, with nothing to show, wakes unasked in the first connection only. *)
NothingRead ==
    /\ \A k \in Conn : got[k] = <<>>
    /\ conns = 2 => output \in {"lock", "asleep"}

(* Threads in or before fechar_conexao.                                      *)
Closers ==
    Cardinality({k \in Conn : receiver[k] \in Closing \cup {"close"}})
      + (IF input \in Closing \cup {"close"} THEN 1 ELSE 0)

OneCloses == Closers <= 1

(* Closings overlap each other, and a /connect, before the last command.     *)
LastIsCalm == typed = MaxTyped => OneCloses /\ crossed = {}

(* A connection that is neither in network_socket nor in any recv is out of  *)
(* reach for good: no step and no liveness property looks at its other end.  *)
Reached == {k \in Conn : sock = k \/ \E j \in Conn : reads[j] = k}
Ends == [k \in Reached |-> <<peer[k], inbound[k]>>]

(* Nor do they look at history.                                              *)
Present == <<connVars, input, conns, typed, sendVars, recvVars, outVars, Ends>>
Recorded == <<Present, received, crossed>>
=============================================================================
