------------------------------- MODULE ConnPool -------------------------------
(***************************************************************************)
(* The server's connection pool (connection.cpp): the main thread accepts   *)
(* connections and hands them to worker threads through clients_wait, and   *)
(* each worker serves one client until it hangs up, then the next.          *)
(*                                                                         *)
(* Workers take from clients_wait and increment cl_count under the mutex.   *)
(* The main thread pushes into clients_wait without it, and workers         *)
(* decrement cl_count and clear their client's entry of cl_arr without it.  *)
(* A vector's push_back and pop_back and a counter's ++ and -- are each a   *)
(* read and a write, and here they are two steps, so that whatever can come *)
(* between them does.                                                       *)
(***************************************************************************)
EXTENDS Integers, FiniteSets

CONSTANTS
    Worker,     \* the threads t[0..MAX_CLIENTS-1]; cl_arr has as many entries
    MaxConn,    \* sv->max_conn
    MaxId,      \* bound on the connections that are accepted
    Free        \* the mutex has no owner

ASSUME PoolAssumption ==
    /\ IsFiniteSet(Worker) /\ Free \notin Worker
    /\ MaxConn \in 0 .. Cardinality(Worker)    \* connection.cpp 68
    /\ MaxId \in Nat

VARIABLES
    acceptor,   \* where the main thread is in conn_run_server
    arriving,   \* id: the next to be given, or the one being handed over
    spot,       \* what push_back has read of clients_wait's size
    queue,      \* the memory of clients_wait; its elements are queue[1..size]
    size,
    cl_arr,     \* the ids of the clients in cl_arr
    cl_count,
    mutex,      \* its owner; the main thread holds it only within a step
    pc,         \* where each worker is in conn_client_thread
    client,     \* id_client of each worker
    top,        \* what each worker has read of clients_wait's size and
    seen,       \* of cl_count; 0, as spot and client, when not in use
    harm        \* history: which accesses have gone wrong

acceptorVars == <<acceptor, arriving, spot>>
workerVars == <<pc, client, top, seen>>
vars == <<acceptorVars, queue, size, cl_arr, cl_count, mutex, workerVars, harm>>

Id == 1 .. MaxId

\* Where a worker is while it owns the mutex, and while cl_count counts it.
Inside == {"test", "drowsy", "pop", "count", "command"}
Counted == {"run", "serve", "command", "destroy", "recount", "countdown"}

Init ==
    /\ acceptor = "accept" /\ arriving = 1 /\ spot = 0
    /\ queue = [i \in Id |-> 0] /\ size = 0
    /\ cl_arr = {} /\ cl_count = 0
    /\ mutex = Free
    /\ pc = [w \in Worker |-> "idle"]
    /\ client = [w \in Worker |-> 0]
    /\ top = [w \in Worker |-> 0]
    /\ seen = [w \in Worker |-> 0]
    /\ harm = {}

\* What was read is no longer so when the result is written.
Torn(what, read, now) == harm' = IF read = now THEN harm ELSE harm \cup {what}

Goes(w, from, to) == pc[w] = from /\ pc' = [pc EXCEPT ![w] = to]

-----------------------------------------------------------------------------
\* The main thread.

(* accept, unless the limit is reached: then the connection is closed again.  *)
Accept ==
    /\ acceptor = "accept"
    /\ cl_count # MaxConn
    /\ arriving \in Id
    /\ acceptor' = "push"
    /\ UNCHANGED <<arriving, spot, queue, size, cl_arr, cl_count, mutex, workerVars, harm>>

(* clients_wait.push_back(id++)                                               *)
Push ==
    /\ acceptor = "push"
    /\ acceptor' = "store"
    /\ spot' = size
    /\ UNCHANGED <<arriving, queue, size, cl_arr, cl_count, mutex, workerVars, harm>>

Store ==
    /\ acceptor = "store"
    /\ acceptor' = "add"
    /\ queue' = [queue EXCEPT ![spot + 1] = arriving]
    /\ size' = spot + 1
    /\ spot' = 0
    /\ Torn("queue", spot, size)
    /\ UNCHANGED <<arriving, cl_arr, cl_count, mutex, workerVars>>

(* clt_add_queue, whose failure nobody asks about.                            *)
Enter ==
    cl_arr' = IF Cardinality(cl_arr) < Cardinality(Worker)
              THEN cl_arr \cup {arriving} ELSE cl_arr

Add_unlocked ==    \* mutant: clt_add_queue does not take the mutex
    /\ acceptor = "add"
    /\ acceptor' = "signal"
    /\ Enter
    /\ UNCHANGED <<arriving, spot, queue, size, cl_count, mutex, workerVars, harm>>

Add ==
    /\ acceptor = "add"
    /\ mutex = Free
    /\ acceptor' = "signal"
    /\ Enter
    /\ UNCHANGED <<arriving, spot, queue, size, cl_count, mutex, workerVars, harm>>

(* pthread_cond_signal                                                        *)
Signal ==
    /\ acceptor = "signal"
    /\ acceptor' = "accept"
    /\ arriving' = arriving + 1
    /\ IF \A w \in Worker : pc[w] # "asleep" THEN UNCHANGED pc
       ELSE \E w \in Worker : Goes(w, "asleep", "woken")
    /\ UNCHANGED <<spot, queue, size, cl_arr, cl_count, mutex, client, top, seen, harm>>

-----------------------------------------------------------------------------
\* Workers.

Lock_barging(w) ==    \* mutant: a woken worker goes on without the mutex
    /\ pc[w] = "woken" \/ (pc[w] = "idle" /\ mutex = Free)
    /\ mutex' = w
    /\ pc' = [pc EXCEPT ![w] = "test"]
    /\ UNCHANGED <<acceptorVars, queue, size, cl_arr, cl_count, client, top, seen, harm>>

(* pthread_mutex_lock, and the end of pthread_cond_wait.                      *)
Lock(w) ==
    /\ pc[w] \in {"idle", "woken"}
    /\ mutex = Free
    /\ mutex' = w
    /\ pc' = [pc EXCEPT ![w] = "test"]
    /\ UNCHANGED <<acceptorVars, queue, size, cl_arr, cl_count, client, top, seen, harm>>

(* while(clients_wait.empty()), then back().                                  *)
Empty(w) ==
    /\ size = 0
    /\ Goes(w, "test", "drowsy")
    /\ UNCHANGED <<acceptorVars, queue, size, cl_arr, cl_count, mutex, client, top, seen, harm>>

Take(w) ==
    /\ size # 0
    /\ Goes(w, "test", "pop")
    /\ top' = [top EXCEPT ![w] = size]
    /\ client' = [client EXCEPT ![w] = queue[size]]
    /\ UNCHANGED <<acceptorVars, queue, size, cl_arr, cl_count, mutex, seen, harm>>

(* pthread_cond_wait, which may also return unasked.                          *)
Sleep(w) ==
    /\ Goes(w, "drowsy", "asleep")
    /\ mutex' = Free
    /\ UNCHANGED <<acceptorVars, queue, size, cl_arr, cl_count, client, top, seen, harm>>

WakeUnasked(w) ==
    /\ Goes(w, "asleep", "woken")
    /\ UNCHANGED <<acceptorVars, queue, size, cl_arr, cl_count, mutex, client, top, seen, harm>>

(* pop_back, and the read of cl_count++.                                      *)
Pop(w) ==
    /\ Goes(w, "pop", "count")
    /\ size' = top[w] - 1
    /\ top' = [top EXCEPT ![w] = 0]
    /\ Torn("queue", top[w], size)
    /\ seen' = [seen EXCEPT ![w] = cl_count]
    /\ UNCHANGED <<acceptorVars, queue, cl_arr, cl_count, mutex, client>>

(* The write of cl_count++, and pthread_mutex_unlock.                         *)
CountUp(w) ==
    /\ Goes(w, "count", "run")
    /\ cl_count' = seen[w] + 1
    /\ seen' = [seen EXCEPT ![w] = 0]
    /\ Torn("count", seen[w], cl_count)
    /\ mutex' = Free
    /\ UNCHANGED <<acceptorVars, queue, size, cl_arr, client, top>>

Find_early(w) ==    \* mutant: a worker that finds no client goes back to the queue
    /\ IF client[w] \in cl_arr
       THEN Goes(w, "run", "serve") /\ UNCHANGED harm
       ELSE Goes(w, "run", "idle") /\ harm' = harm \cup {"orphan"}
    /\ UNCHANGED <<acceptorVars, queue, size, cl_arr, cl_count, mutex, client, top, seen>>

(* clt_run begins with clt_get_by_id and returns if there is no such client.  *)
Find(w) ==
    /\ IF client[w] \in cl_arr
       THEN Goes(w, "run", "serve") /\ UNCHANGED harm
       ELSE Goes(w, "run", "destroy") /\ harm' = harm \cup {"orphan"}
    /\ UNCHANGED <<acceptorVars, queue, size, cl_arr, cl_count, mutex, client, top, seen>>

(* A command of the client, under the mutex.                                  *)
Command(w) ==
    /\ mutex = Free
    /\ Goes(w, "serve", "command")
    /\ mutex' = w
    /\ UNCHANGED <<acceptorVars, queue, size, cl_arr, cl_count, client, top, seen, harm>>

Answer(w) ==
    /\ Goes(w, "command", "serve")
    /\ mutex' = Free
    /\ UNCHANGED <<acceptorVars, queue, size, cl_arr, cl_count, client, top, seen, harm>>

(* recv fails and clt_run returns.                                            *)
HangUp(w) ==
    /\ Goes(w, "serve", "destroy")
    /\ UNCHANGED <<acceptorVars, queue, size, cl_arr, cl_count, mutex, client, top, seen, harm>>

Destroy_keeps(w) ==    \* mutant: cl_arr[i] = NULL is missing
    /\ Goes(w, "destroy", "recount")
    /\ UNCHANGED <<acceptorVars, queue, size, cl_arr, cl_count, mutex, client, top, seen, harm>>

(* clt_destruir                                                               *)
Destroy(w) ==
    /\ Goes(w, "destroy", "recount")
    /\ cl_arr' = cl_arr \ {client[w]}
    /\ UNCHANGED <<acceptorVars, queue, size, cl_count, mutex, client, top, seen, harm>>

(* cl_count--                                                                 *)
Recount(w) ==
    /\ Goes(w, "recount", "countdown")
    /\ seen' = [seen EXCEPT ![w] = cl_count]
    /\ UNCHANGED <<acceptorVars, queue, size, cl_arr, cl_count, mutex, client, top, harm>>

CountDown(w) ==
    /\ Goes(w, "countdown", "idle")
    /\ cl_count' = seen[w] - 1
    /\ seen' = [seen EXCEPT ![w] = 0]
    /\ client' = [client EXCEPT ![w] = 0]
    /\ Torn("count", seen[w], cl_count)
    /\ UNCHANGED <<acceptorVars, queue, size, cl_arr, mutex, top>>

-----------------------------------------------------------------------------

MainThread == Accept \/ Push \/ Store \/ Add \/ Signal

\* What a worker does by itself, the end of a command included.
Works(w) ==
    \/ Lock(w) \/ Empty(w) \/ Take(w) \/ Sleep(w) \/ Pop(w) \/ CountUp(w)
    \/ Find(w) \/ Answer(w) \/ Destroy(w) \/ Recount(w) \/ CountDown(w)

Next ==
    \/ MainThread
    \/ \E w \in Worker : Works(w) \/ Command(w) \/ HangUp(w) \/ WakeUnasked(w)

Spec == Init /\ [][Next]_vars

(* No thread stops for good while it can go on, and a thread that wants the   *)
(* mutex gets it if it is free again and again: what a scheduler gives        *)
(* threads that contend for a mutex held briefly.  Clients owe nothing but to  *)
(* read what is sent to them, for a send to a full socket would block its     *)
(* worker inside a command.                                                   *)
Fairness ==
    /\ WF_vars(Push \/ Store \/ Signal) /\ SF_vars(Add)
    /\ \A w \in Worker : SF_vars(Works(w))

FairSpec == Spec /\ Fairness

-----------------------------------------------------------------------------
\* Properties.

Waiting == {queue[i] : i \in 1 .. size}

Holds(w, id) == pc[w] \in Counted \cup {"pop", "count"} /\ client[w] = id

(* Every variable has its type, and a worker is in the critical section of    *)
(* conn_client_thread or clt_run exactly while it owns the mutex.             *)
TypeOK ==
    /\ acceptor \in {"accept", "push", "store", "add", "signal"}
    /\ arriving \in 1 .. MaxId + 1
    /\ size \in 0 .. MaxId /\ spot \in 0 .. MaxId
    /\ queue \in [Id -> 0 .. MaxId]
    /\ cl_arr \subseteq Id
    /\ cl_count \in Int
    /\ mutex \in Worker \cup {Free}
    /\ pc \in [Worker -> Inside \cup Counted \cup {"idle", "asleep", "woken"}]
    /\ client \in [Worker -> 0 .. MaxId]
    /\ top \in [Worker -> 0 .. MaxId]
    /\ seen \in [Worker -> Int]
    /\ harm \subseteq {"queue", "count", "orphan"}
    /\ \A w \in Worker : pc[w] \in Inside <=> mutex = w

(* Unless two accesses to cl_count fell into each other, it is the number of  *)
(* workers that have a client, also when the client could not be found.  (It  *)
(* is not the number of connections: those that wait are not in it, so that   *)
(* the test of it in conn_run_server lets more than MaxConn of them in.)      *)
CountConserved ==
    "count" \notin harm => cl_count = Cardinality({w \in Worker : pc[w] \in Counted})

(* Unless two accesses to clients_wait fell into each other, a client in      *)
(* cl_arr is either waiting or held by exactly one worker, provided it was    *)
(* entered before a worker looked for it: no handover is lost or made twice,  *)
(* and no entry of cl_arr leaks.                                              *)
ClientsConserved ==
    harm \cap {"queue", "orphan"} = {} =>
        \A id \in cl_arr :
            /\ \/ id \in Waiting
               \/ \E w \in Worker : Holds(w, id)
            /\ \A v, w \in Worker : Holds(v, id) /\ Holds(w, id) => v = w

(* No wake-up is lost: it never comes to a client waiting for good beside a   *)
(* worker that is asleep, because clt_add_queue takes the mutex between the   *)
(* push and the signal.                                                       *)
NoLostWakeUp ==
    <>("queue" \in harm) \/ []<>(size = 0 \/ \A w \in Worker : pc[w] # "asleep")

===============================================================================
