---------------------------- MODULE ConnPoolProofs ----------------------------
(***************************************************************************)
(* The connection pool: proofs that the number of connections is what        *)
(* cl_count says and that no handover is lost or made twice, for any number  *)
(* of workers and connections, as long as the accesses that take no mutex    *)
(* do not fall into each other.                                              *)
(***************************************************************************)
EXTENDS ConnPool, TLAPS, FiniteSetTheorems

(* The last connection that push_back has stored.                             *)
Stored == IF acceptor \in {"add", "signal"} THEN arriving ELSE arriving - 1

(* What TypeOK leaves out of the sizes: clients_wait never had more elements  *)
(* than were pushed, however its size was torn, and a worker that pops has    *)
(* seen one.                                                                  *)
Bounds ==
    /\ acceptor # "accept" => arriving <= MaxId
    /\ size <= Stored /\ spot <= Stored
    /\ \A w \in Worker : top[w] <= Stored
    /\ \A w \in Worker : pc[w] = "pop" => top[w] >= 1

Sound == TypeOK /\ Bounds

Kept == Counted \cup {"count"}
Holding == Kept \cup {"pop"}

(* Unless accesses to clients_wait fell into each other, every id in it was   *)
(* stored once; the worker that pops has read one that is still there, the    *)
(* others have clients of their own that no longer are.                       *)
Lined ==
    "queue" \notin harm =>
        /\ \A i \in 1 .. size : queue[i] \in 1 .. Stored
        /\ \A i, j \in 1 .. size : queue[i] = queue[j] => i = j
        /\ \A w \in Worker : pc[w] = "pop" => top[w] \in 1 .. size /\ client[w] = queue[top[w]]
        /\ \A w \in Worker : pc[w] \in Kept =>
              client[w] \in 1 .. Stored /\ \A i \in 1 .. size : queue[i] # client[w]
        /\ \A v, w \in Worker :
              pc[v] \in Holding /\ pc[w] \in Holding /\ client[v] = client[w] => v = w

(* Unless a worker also came too early for its client, a client in cl_arr is  *)
(* waiting or held; one that is about to be entered is not looked for yet;    *)
(* and one that was destroyed is no longer there.                             *)
Entered ==
    harm \cap {"queue", "orphan"} = {} =>
        /\ \A id \in cl_arr :
              /\ id <= arriving /\ (acceptor # "signal" => id < arriving)
              /\ id \in Waiting \/ \E w \in Worker : Holds(w, id)
        /\ acceptor = "add" =>
              \/ arriving \in Waiting
              \/ \E w \in Worker : pc[w] \in {"pop", "count", "run"} /\ client[w] = arriving
        /\ \A w \in Worker : pc[w] \in {"recount", "countdown"} => client[w] \notin cl_arr

-----------------------------------------------------------------------------
\* Types and sizes.

LEMMA InitSound == Init => Sound
BY PoolAssumption DEF Init, Sound, TypeOK, Bounds, Stored, Id, Inside, Counted

LEMMA MainSound == ASSUME Sound, MainThread PROVE Sound'
<1>1. CASE Accept
  BY <1>1, PoolAssumption DEF Accept, Sound, TypeOK, Bounds, Stored, Id, workerVars
<1>2. CASE Push
  BY <1>2, PoolAssumption DEF Push, Sound, TypeOK, Bounds, Stored, workerVars
<1>3. CASE Store
  <2>1. /\ acceptor = "store" /\ acceptor' = "add" /\ size' = spot + 1 /\ spot' = 0
        /\ queue' = [queue EXCEPT ![spot + 1] = arriving]
        /\ harm' \in {harm, harm \cup {"queue"}}
        /\ UNCHANGED <<arriving, cl_arr, cl_count, mutex, pc, client, top, seen>>
    BY <1>3 DEF Store, Torn, workerVars
  <2>2. /\ arriving \in 1 .. MaxId /\ spot \in 0 .. MaxId /\ spot + 1 <= arriving
        /\ Stored = arriving - 1 /\ Stored' = arriving
    BY <2>1, PoolAssumption DEF Sound, TypeOK, Bounds, Stored
  <2>3. size' \in 0 .. MaxId /\ spot' \in 0 .. MaxId /\ size' <= Stored' /\ spot' <= Stored'
    BY <2>1, <2>2, PoolAssumption
  <2>4. queue' \in [Id -> 0 .. MaxId]
    <3>1. arriving \in 0 .. MaxId /\ queue \in [Id -> 0 .. MaxId]
      BY <2>2, PoolAssumption DEF Sound, TypeOK
    <3> QED BY <2>1, <3>1
  <2>5. \A w \in Worker : top'[w] <= Stored'
    BY <2>1, <2>2, PoolAssumption DEF Sound, TypeOK, Bounds
  <2> QED BY <2>1, <2>2, <2>3, <2>4, <2>5 DEF Sound, TypeOK, Bounds
<1>4. CASE Add
  BY <1>4, PoolAssumption DEF Add, Enter, Sound, TypeOK, Bounds, Stored, Id, workerVars
<1>5. CASE Signal
  <2>1. /\ acceptor = "signal" /\ acceptor' = "accept" /\ arriving' = arriving + 1
        /\ UNCHANGED <<spot, queue, size, cl_arr, cl_count, mutex, client, top, seen, harm>>
        /\ \/ UNCHANGED pc
           \/ \E w \in Worker : pc[w] = "asleep" /\ pc' = [pc EXCEPT ![w] = "woken"]
    BY <1>5 DEF Signal, Goes
  <2>2. /\ pc' \in [Worker -> Inside \cup Counted \cup {"idle", "asleep", "woken"}]
        /\ \A w \in Worker : pc'[w] \in Inside <=> pc[w] \in Inside
        /\ \A w \in Worker : pc'[w] = "pop" => pc[w] = "pop"
    BY <2>1 DEF Sound, TypeOK, Inside
  <2>3. arriving' \in 1 .. MaxId + 1 /\ Stored' = Stored
    BY <2>1, PoolAssumption DEF Sound, TypeOK, Bounds, Stored
  <2> QED BY <2>1, <2>2, <2>3 DEF Sound, TypeOK, Bounds
<1> QED BY <1>1, <1>2, <1>3, <1>4, <1>5 DEF MainThread

(* A worker moves on: inside the critical section it has the mutex.           *)
LEMMA Moves ==
    ASSUME Sound, NEW w \in Worker, NEW from, NEW to, Goes(w, from, to),
           to \in Inside \cup Counted \cup {"idle", "asleep", "woken"}
    PROVE  /\ pc[w] = from /\ pc'[w] = to
           /\ pc' \in [Worker -> Inside \cup Counted \cup {"idle", "asleep", "woken"}]
           /\ \A v \in Worker : v # w => pc'[v] = pc[v]
BY DEF Goes, Sound, TypeOK

(* A step of worker w that keeps the mutex with who has it, or takes it when  *)
(* it is free, or gives it back.                                              *)
LEMMA MutexSound ==
    ASSUME Sound, NEW w \in Worker, NEW from, NEW to, Goes(w, from, to),
           from \in Inside \cup Counted \cup {"idle", "asleep", "woken"},
           to \in Inside \cup Counted \cup {"idle", "asleep", "woken"},
           \/ (from \in Inside) = (to \in Inside) /\ mutex' = mutex
           \/ from \notin Inside /\ to \in Inside /\ mutex = Free /\ mutex' = w
           \/ from \in Inside /\ to \notin Inside /\ mutex' = Free
    PROVE  /\ mutex' \in Worker \cup {Free}
           /\ \A v \in Worker : pc'[v] \in Inside <=> mutex' = v
<1>1. /\ pc[w] = from /\ pc'[w] = to /\ \A v \in Worker : v # w => pc'[v] = pc[v]
  BY Moves
<1>2. /\ mutex \in Worker \cup {Free} /\ Free \notin Worker
      /\ \A v \in Worker : pc[v] \in Inside <=> mutex = v
  BY PoolAssumption DEF Sound, TypeOK
<1>3. CASE (from \in Inside) = (to \in Inside) /\ mutex' = mutex
  BY <1>1, <1>2, <1>3
<1>4. CASE from \notin Inside /\ to \in Inside /\ mutex = Free /\ mutex' = w
  BY <1>1, <1>2, <1>4
<1>5. CASE from \in Inside /\ to \notin Inside /\ mutex' = Free
  BY <1>1, <1>2, <1>5
<1> QED BY <1>3, <1>4, <1>5

LEMMA WorkerSound ==
    ASSUME Sound, NEW w \in Worker, Works(w) \/ Command(w) \/ HangUp(w) \/ WakeUnasked(w)
    PROVE  Sound'
<1> USE DEF Inside, Counted
<1>1. CASE Lock(w)
  <2>1. PICK from \in {"idle", "woken"} : Goes(w, from, "test")
    BY <1>1 DEF Lock, Goes
  <2>2. mutex = Free /\ mutex' = w
    BY <1>1 DEF Lock
  <2> QED BY <1>1, <2>1, <2>2, Moves, MutexSound DEF Lock, Sound, TypeOK, Bounds, Stored, acceptorVars
<1>2. CASE Empty(w)
  BY <1>2, Moves, MutexSound DEF Empty, Sound, TypeOK, Bounds, Stored, acceptorVars
<1>3. CASE Take(w)
  <2>1. /\ Goes(w, "test", "pop") /\ size # 0
        /\ top' = [top EXCEPT ![w] = size] /\ client' = [client EXCEPT ![w] = queue[size]]
        /\ UNCHANGED <<acceptorVars, queue, size, cl_arr, cl_count, mutex, seen, harm>>
    BY <1>3 DEF Take
  <2>2. size \in 1 .. MaxId /\ queue[size] \in 0 .. MaxId /\ size <= Stored
    BY <2>1, PoolAssumption DEF Sound, TypeOK, Bounds, Id
  <2>3. /\ top' \in [Worker -> 0 .. MaxId] /\ client' \in [Worker -> 0 .. MaxId]
        /\ top'[w] = size /\ \A v \in Worker : v # w => top'[v] = top[v]
    BY <2>1, <2>2 DEF Sound, TypeOK
  <2> QED BY <2>1, <2>2, <2>3, Moves, MutexSound DEF Sound, TypeOK, Bounds, Stored, acceptorVars
<1>4. CASE Sleep(w)
  BY <1>4, Moves, MutexSound DEF Sleep, Sound, TypeOK, Bounds, Stored, acceptorVars
<1>5. CASE Pop(w)
  <2>1. /\ Goes(w, "pop", "count") /\ size' = top[w] - 1
        /\ top' = [top EXCEPT ![w] = 0] /\ seen' = [seen EXCEPT ![w] = cl_count]
        /\ harm' \in {harm, harm \cup {"queue"}}
        /\ UNCHANGED <<acceptorVars, queue, cl_arr, cl_count, mutex, client>>
    BY <1>5 DEF Pop, Torn
  <2>2. top[w] \in 1 .. MaxId /\ top[w] <= Stored /\ Stored \in Int
    BY <2>1, PoolAssumption DEF Goes, Sound, TypeOK, Bounds, Stored
  <2>3. /\ top' \in [Worker -> 0 .. MaxId] /\ seen' \in [Worker -> Int]
        /\ top'[w] = 0 /\ \A v \in Worker : v # w => top'[v] = top[v]
    BY <2>1, PoolAssumption DEF Sound, TypeOK
  <2>4. size' \in 0 .. MaxId /\ size' <= Stored
    BY <2>1, <2>2, PoolAssumption
  <2>5. Stored' = Stored
    BY <2>1 DEF Stored, acceptorVars
  <2> QED BY <2>1, <2>2, <2>3, <2>4, <2>5, Moves, MutexSound DEF Sound, TypeOK, Bounds, acceptorVars
<1>6. CASE CountUp(w)
  <2>1. harm' \in {harm, harm \cup {"count"}}
    BY <1>6 DEF CountUp, Torn
  <2> QED BY <1>6, <2>1, Moves, MutexSound DEF CountUp, Sound, TypeOK, Bounds, Stored, acceptorVars
<1>7. CASE Find(w)
  <2>1. \E to \in {"serve", "destroy"} : Goes(w, "run", to)
    BY <1>7 DEF Find
  <2>2. harm' \in {harm, harm \cup {"orphan"}}
    BY <1>7 DEF Find
  <2> QED BY <1>7, <2>1, <2>2, Moves, MutexSound DEF Find, Sound, TypeOK, Bounds, Stored, acceptorVars
<1>8. CASE Command(w)
  BY <1>8, Moves, MutexSound DEF Command, Sound, TypeOK, Bounds, Stored, acceptorVars
<1>9. CASE Answer(w)
  BY <1>9, Moves, MutexSound DEF Answer, Sound, TypeOK, Bounds, Stored, acceptorVars
<1>10. CASE HangUp(w)
  BY <1>10, Moves, MutexSound DEF HangUp, Sound, TypeOK, Bounds, Stored, acceptorVars
<1>11. CASE Destroy(w)
  BY <1>11, Moves, MutexSound DEF Destroy, Sound, TypeOK, Bounds, Stored, acceptorVars
<1>12. CASE Recount(w)
  BY <1>12, Moves, MutexSound DEF Recount, Sound, TypeOK, Bounds, Stored, acceptorVars
<1>13. CASE CountDown(w)
  <2>1. harm' \in {harm, harm \cup {"count"}}
    BY <1>13 DEF CountDown, Torn
  <2> QED BY <1>13, <2>1, Moves, MutexSound, PoolAssumption
          DEF CountDown, Sound, TypeOK, Bounds, Stored, acceptorVars
<1>14. CASE WakeUnasked(w)
  BY <1>14, Moves, MutexSound DEF WakeUnasked, Sound, TypeOK, Bounds, Stored, acceptorVars
<1> QED BY <1>1, <1>2, <1>3, <1>4, <1>5, <1>6, <1>7, <1>8, <1>9, <1>10, <1>11, <1>12, <1>13, <1>14
        DEF Works

LEMMA NextSound == Sound /\ [Next]_vars => Sound'
<1>1. ASSUME Sound, UNCHANGED vars  PROVE Sound'
  BY <1>1 DEF vars, acceptorVars, workerVars, Sound, TypeOK, Bounds, Stored
<1> QED BY <1>1, MainSound, WorkerSound DEF Next

LEMMA AlwaysSound == Spec => []Sound
BY InitSound, NextSound, PTL DEF Spec

(* Every variable has its type, and a worker is in the critical section of    *)
(* conn_client_thread or clt_run exactly while it owns the mutex: the workers *)
(* exclude each other, also when pthread_cond_wait returns unasked.           *)
THEOREM PoolTypes == Spec => []TypeOK
<1>1. Sound => TypeOK
  BY DEF Sound
<1> QED BY <1>1, AlwaysSound, PTL

-----------------------------------------------------------------------------
\* The count of the workers that serve.

Holders == {w \in Worker : pc[w] \in Counted}

LEMMA InitCount == Init => CountConserved
<1> SUFFICES ASSUME Init  PROVE CountConserved
  OBVIOUS
<1>1. {w \in Worker : pc[w] \in Counted} = {}
  BY DEF Init, Counted
<1> QED BY <1>1, FS_EmptySet DEF Init, CountConserved

(* A step in which nobody starts or stops to count.                           *)
LEMMA SameCount ==
    ASSUME CountConserved, UNCHANGED cl_count, "count" \in harm => "count" \in harm',
           \A w \in Worker : pc'[w] \in Counted <=> pc[w] \in Counted
    PROVE  CountConserved'
<1>1. Holders' = Holders
  BY DEF Holders
<1> QED BY <1>1 DEF CountConserved, Holders

LEMMA NextCount == Sound /\ CountConserved /\ [Next]_vars => CountConserved'
<1> SUFFICES ASSUME Sound, CountConserved, [Next]_vars  PROVE CountConserved'
  OBVIOUS
<1>1. CASE UNCHANGED vars
  BY <1>1, SameCount DEF vars, workerVars
<1>2. CASE MainThread
  <2>1. UNCHANGED cl_count /\ harm \subseteq harm'
    BY <1>2 DEF MainThread, Accept, Push, Store, Add, Signal, Torn
  <2>2. \A w \in Worker : pc'[w] \in Counted <=> pc[w] \in Counted
    BY <1>2 DEF MainThread, Accept, Push, Store, Add, Signal, Goes, workerVars, Sound, TypeOK, Counted
  <2> QED BY <2>1, <2>2, SameCount
<1>3. ASSUME NEW w \in Worker, Works(w) \/ Command(w) \/ HangUp(w) \/ WakeUnasked(w)
      PROVE  CountConserved'
  <2> DEFINE Others == Holders \ {w}
  <2>1. /\ IsFiniteSet(Holders) /\ IsFiniteSet(Others) /\ w \notin Others
        /\ Cardinality(Holders) \in Nat /\ Cardinality(Others) \in Nat
        /\ w \in Holders => Cardinality(Others) = Cardinality(Holders) - 1
        /\ w \notin Holders => Others = Holders
        /\ Cardinality(Holders \cup {w}) = IF w \in Holders THEN Cardinality(Holders)
                                                            ELSE Cardinality(Holders) + 1
    <3>1. IsFiniteSet(Holders)
      BY PoolAssumption, FS_Subset DEF Holders
    <3> QED BY <3>1, FS_RemoveElement, FS_AddElement, FS_CardinalityType
  <2>2. CASE CountUp(w)
    <3>1. /\ cl_count' = seen[w] + 1 /\ pc[w] = "count" /\ pc' = [pc EXCEPT ![w] = "run"]
          /\ Torn("count", seen[w], cl_count)
      BY <2>2 DEF CountUp, Goes
    <3>2. w \notin Holders /\ Holders' = Holders \cup {w}
      BY <3>1 DEF Holders, Counted, Sound, TypeOK
    <3>3. CASE "count" \notin harm'
      <4>1. seen[w] = cl_count /\ harm' = harm
        BY <3>1, <3>3 DEF Torn
      <4> QED BY <2>1, <3>1, <3>2, <3>3, <4>1 DEF CountConserved, Holders
    <3> QED BY <3>3 DEF CountConserved
  <2>3. CASE CountDown(w)
    <3>1. /\ cl_count' = seen[w] - 1 /\ pc[w] = "countdown" /\ pc' = [pc EXCEPT ![w] = "idle"]
          /\ Torn("count", seen[w], cl_count)
      BY <2>3 DEF CountDown, Goes
    <3>2. w \in Holders /\ Holders' = Others
      BY <3>1 DEF Holders, Counted, Sound, TypeOK
    <3>3. CASE "count" \notin harm'
      <4>1. seen[w] = cl_count /\ harm' = harm
        BY <3>1, <3>3 DEF Torn
      <4> QED BY <2>1, <3>1, <3>2, <3>3, <4>1 DEF CountConserved, Holders
    <3> QED BY <3>3 DEF CountConserved
  <2>4. CASE Lock(w) \/ Empty(w) \/ Take(w) \/ Sleep(w) \/ Pop(w) \/ WakeUnasked(w)
    <3>1. UNCHANGED cl_count /\ harm \subseteq harm'
      BY <2>4 DEF Lock, Empty, Take, Sleep, Pop, WakeUnasked, Torn
    <3>2. \A v \in Worker : pc'[v] \in Counted <=> pc[v] \in Counted
      BY <2>4 DEF Lock, Empty, Take, Sleep, Pop, WakeUnasked, Goes, Sound, TypeOK, Counted
    <3> QED BY <3>1, <3>2, SameCount
  <2>5. CASE Find(w) \/ Command(w) \/ Answer(w) \/ HangUp(w) \/ Destroy(w) \/ Recount(w)
    <3>1. UNCHANGED cl_count /\ harm \subseteq harm'
      BY <2>5 DEF Find, Command, Answer, HangUp, Destroy, Recount
    <3>2. \A v \in Worker : pc'[v] \in Counted <=> pc[v] \in Counted
      BY <2>5 DEF Find, Command, Answer, HangUp, Destroy, Recount, Goes, Sound, TypeOK, Counted
    <3> QED BY <3>1, <3>2, SameCount
  <2> QED BY <1>3, <2>2, <2>3, <2>4, <2>5 DEF Works
<1> QED BY <1>1, <1>2, <1>3 DEF Next

(* As long as no two accesses to cl_count have fallen into each other, it is  *)
(* the number of workers that have a client, also when clt_run returned at    *)
(* once for want of one: no order of hand-overs and hang-ups loses a place.   *)
THEOREM CountIsKept == Spec => []CountConserved
BY InitCount, NextCount, AlwaysSound, PTL DEF Spec

-----------------------------------------------------------------------------
\* Who waits in clients_wait and who holds whom.

LEMMA InitLined == Init => Lined
BY DEF Init, Lined, Kept, Holding, Counted

(* A step that leaves clients_wait alone and gives nobody a client.           *)
LEMMA StillLined ==
    ASSUME Sound, Lined, UNCHANGED <<queue, size, top>>, harm \subseteq harm',
           Stored' \in {Stored, Stored + 1},
           \A w \in Worker :
               /\ pc'[w] = "pop" => pc[w] = "pop"
               /\ pc'[w] \in Kept => pc[w] \in Kept
               /\ pc'[w] \in Holding => client'[w] = client[w]
    PROVE  Lined'
<1> SUFFICES ASSUME "queue" \notin harm'  PROVE Lined'
  BY DEF Lined
<1>1. "queue" \notin harm /\ Stored \in Int
  BY PoolAssumption DEF Sound, TypeOK, Stored
<1>2. \A w \in Worker : pc'[w] \in Holding => pc[w] \in Holding
  BY DEF Holding
<1>3. 1 .. Stored \subseteq 1 .. Stored'
  BY <1>1
<1>4. \A w \in Worker : pc'[w] \in Kept \/ pc'[w] = "pop" => pc'[w] \in Holding
  BY DEF Holding
<1>5. \A i \in 1 .. size : queue'[i] \in 1 .. Stored'
  BY <1>1, <1>3 DEF Lined
<1>6. \A i, j \in 1 .. size : queue'[i] = queue'[j] => i = j
  BY <1>1 DEF Lined
<1>7. \A w \in Worker : pc'[w] = "pop" => top'[w] \in 1 .. size' /\ client'[w] = queue'[top'[w]]
  BY <1>1, <1>4 DEF Lined
<1>8. \A w \in Worker : pc'[w] \in Kept =>
              client'[w] \in 1 .. Stored' /\ \A i \in 1 .. size' : queue'[i] # client'[w]
  BY <1>1, <1>3, <1>4 DEF Lined
<1>9. \A v, w \in Worker :
              pc'[v] \in Holding /\ pc'[w] \in Holding /\ client'[v] = client'[w] => v = w
  BY <1>1, <1>2 DEF Lined
<1> QED BY <1>5, <1>6, <1>7, <1>8, <1>9 DEF Lined

(* push_back of a new client.                                                 *)
LEMMA StoreLined == ASSUME Sound, Lined, Store PROVE Lined'
<1> SUFFICES ASSUME "queue" \notin harm'  PROVE Lined'
  BY DEF Lined
<1>1. /\ acceptor = "store" /\ acceptor' = "add" /\ spot = size /\ size' = size + 1
      /\ queue' = [queue EXCEPT ![size + 1] = arriving]
      /\ harm' = harm /\ UNCHANGED <<arriving, pc, client, top>>
  BY DEF Store, Torn, workerVars
<1>2. /\ Stored = arriving - 1 /\ Stored' = arriving /\ arriving \in 1 .. MaxId
      /\ size \in Nat /\ size + 1 \in Id
  BY <1>1, PoolAssumption DEF Sound, TypeOK, Bounds, Stored, Id
<1>3. /\ queue'[size + 1] = arriving
      /\ \A i \in 1 .. size : queue'[i] = queue[i]
      /\ \A i \in 1 .. size' : i \in 1 .. size \/ i = size + 1
      /\ \A i \in 1 .. size : i \in 1 .. size'
      /\ 1 .. Stored \subseteq 1 .. Stored' /\ arriving \in 1 .. Stored' /\ arriving \notin 1 .. Stored
  BY <1>1, <1>2 DEF Sound, TypeOK
<1>4. \A i \in 1 .. size : queue[i] \in 1 .. Stored
  BY <1>1 DEF Lined
<1>5. \A i \in 1 .. size' : queue'[i] \in 1 .. Stored'
  BY <1>3, <1>4
<1>6. \A i, j \in 1 .. size' : queue'[i] = queue'[j] => i = j
  BY <1>1, <1>3, <1>4 DEF Lined
<1>7. \A w \in Worker : pc'[w] = "pop" => top'[w] \in 1 .. size' /\ client'[w] = queue'[top'[w]]
  BY <1>1, <1>3 DEF Lined
<1>8. \A w \in Worker : pc'[w] \in Kept =>
              client'[w] \in 1 .. Stored' /\ \A i \in 1 .. size' : queue'[i] # client'[w]
  BY <1>1, <1>3 DEF Lined
<1>9. \A v, w \in Worker :
              pc'[v] \in Holding /\ pc'[w] \in Holding /\ client'[v] = client'[w] => v = w
  BY <1>1 DEF Lined
<1> QED BY <1>5, <1>6, <1>7, <1>8, <1>9 DEF Lined

(* A worker reads the newest client.                                          *)
LEMMA TakeLined == ASSUME Sound, Lined, NEW w \in Worker, Take(w) PROVE Lined'
<1> SUFFICES ASSUME "queue" \notin harm'  PROVE Lined'
  BY DEF Lined
<1>1. /\ pc[w] = "test" /\ pc' = [pc EXCEPT ![w] = "pop"] /\ size # 0
      /\ top' = [top EXCEPT ![w] = size] /\ client' = [client EXCEPT ![w] = queue[size]]
      /\ UNCHANGED <<acceptor, arriving, queue, size, mutex, harm>>
  BY DEF Take, Goes, acceptorVars
<1>2. /\ pc'[w] = "pop" /\ top'[w] = size /\ client'[w] = queue[size] /\ size \in 1 .. size
      /\ \A v \in Worker : v # w => pc'[v] = pc[v] /\ top'[v] = top[v] /\ client'[v] = client[v]
      /\ Stored' = Stored
  BY <1>1 DEF Sound, TypeOK, Stored
<1>3. \A v \in Worker : v # w => pc[v] # "pop"
  BY <1>1 DEF Sound, TypeOK, Inside
<1>4. "pop" \notin Kept
  BY DEF Kept, Counted
<1>5. \A v \in Worker : pc'[v] = "pop" => top'[v] \in 1 .. size' /\ client'[v] = queue'[top'[v]]
  BY <1>1, <1>2, <1>3
<1>6. \A v \in Worker : pc'[v] \in Kept =>
              client'[v] \in 1 .. Stored' /\ \A i \in 1 .. size' : queue'[i] # client'[v]
  BY <1>1, <1>2, <1>4 DEF Lined
<1>7. \A v \in Worker : v # w /\ pc'[v] \in Holding => client'[v] # client'[w]
  BY <1>1, <1>2, <1>3 DEF Lined, Holding
<1>8. \A u, v \in Worker :
              pc'[u] \in Holding /\ pc'[v] \in Holding /\ client'[u] = client'[v] => u = v
  BY <1>1, <1>2, <1>7 DEF Lined
<1> QED BY <1>1, <1>2, <1>5, <1>6, <1>8 DEF Lined

(* pop_back of the client that was read, if no accesses met.                  *)
LEMMA PopLined == ASSUME Sound, Lined, NEW w \in Worker, Pop(w) PROVE Lined'
<1> SUFFICES ASSUME "queue" \notin harm'  PROVE Lined'
  BY DEF Lined
<1>1. /\ pc[w] = "pop" /\ pc' = [pc EXCEPT ![w] = "count"] /\ size' = size - 1 /\ top[w] = size
      /\ top' = [top EXCEPT ![w] = 0]
      /\ UNCHANGED <<acceptor, arriving, queue, client, mutex>> /\ harm' = harm
  BY DEF Pop, Torn, Goes, acceptorVars
<1>2. /\ pc'[w] = "count" /\ \A v \in Worker : v # w => pc'[v] = pc[v] /\ top'[v] = top[v]
      /\ Stored' = Stored /\ size \in 1 .. size
      /\ \A i \in 1 .. size' : i \in 1 .. size /\ i # size
      /\ client[w] = queue[size]
  BY <1>1 DEF Sound, TypeOK, Stored, Lined
<1>3. \A v \in Worker : v # w => pc[v] # "pop"
  BY <1>1 DEF Sound, TypeOK, Inside
<1>4. \A v \in Worker : pc'[v] \in Holding => pc[v] \in Holding
  BY <1>1, <1>2 DEF Holding
<1>5. \A v \in Worker : pc'[v] # "pop"
  BY <1>2, <1>3
<1>6. \A v \in Worker : pc'[v] \in Kept =>
              client'[v] \in 1 .. Stored' /\ \A i \in 1 .. size' : queue'[i] # client'[v]
  BY <1>1, <1>2 DEF Lined
<1>7. \A i \in 1 .. size' : queue'[i] \in 1 .. Stored'
  BY <1>1, <1>2 DEF Lined
<1>8. \A i, j \in 1 .. size' : queue'[i] = queue'[j] => i = j
  BY <1>1, <1>2 DEF Lined
<1>9. \A u, v \in Worker :
              pc'[u] \in Holding /\ pc'[v] \in Holding /\ client'[u] = client'[v] => u = v
  BY <1>1, <1>4 DEF Lined
<1> QED BY <1>5, <1>6, <1>7, <1>8, <1>9 DEF Lined

LEMMA NextLined == Sound /\ Lined /\ [Next]_vars => Lined'
<1> SUFFICES ASSUME Sound, Lined, [Next]_vars  PROVE Lined'
  OBVIOUS
<1> USE DEF Counted, Kept, Holding
<1>1. CASE UNCHANGED vars
  BY <1>1, StillLined DEF vars, workerVars, acceptorVars, Stored
<1>2. CASE Accept \/ Push \/ Add \/ Signal
  <2>1. /\ UNCHANGED <<queue, size, top, client, harm>> /\ Stored' = Stored
        /\ \/ UNCHANGED pc
           \/ \E w \in Worker : pc[w] = "asleep" /\ pc' = [pc EXCEPT ![w] = "woken"]
    BY <1>2, PoolAssumption
       DEF Accept, Push, Add, Signal, Goes, workerVars, Stored, Sound, TypeOK, Bounds
  <2>2. \A w \in Worker : pc'[w] = pc[w] \/ pc'[w] = "woken"
    BY <2>1 DEF Sound, TypeOK
  <2> QED BY <2>1, <2>2, StillLined
<1>3. ASSUME NEW w \in Worker, Works(w) \/ Command(w) \/ HangUp(w) \/ WakeUnasked(w)
      PROVE  Lined'
  <2>1. CASE Lock(w) \/ Empty(w) \/ Sleep(w) \/ CountUp(w) \/ WakeUnasked(w)
    <3>1. UNCHANGED <<queue, size, top, client, acceptorVars>> /\ harm \subseteq harm'
      BY <2>1 DEF Lock, Empty, Sleep, CountUp, WakeUnasked, Torn
    <3>2. \A v \in Worker : /\ pc'[v] = "pop" => pc[v] = "pop"
                            /\ pc'[v] \in Kept => pc[v] \in Kept
      BY <2>1 DEF Lock, Empty, Sleep, CountUp, WakeUnasked, Goes, Sound, TypeOK
    <3> QED BY <3>1, <3>2, StillLined DEF acceptorVars, Stored
  <2>2. CASE Find(w) \/ Command(w) \/ Answer(w) \/ HangUp(w) \/ Destroy(w) \/ Recount(w)
    <3>1. UNCHANGED <<queue, size, top, client, acceptorVars>> /\ harm \subseteq harm'
      BY <2>2 DEF Find, Command, Answer, HangUp, Destroy, Recount
    <3>2. \A v \in Worker : /\ pc'[v] = "pop" => pc[v] = "pop"
                            /\ pc'[v] \in Kept => pc[v] \in Kept
      BY <2>2 DEF Find, Command, Answer, HangUp, Destroy, Recount, Goes, Sound, TypeOK
    <3> QED BY <3>1, <3>2, StillLined DEF acceptorVars, Stored
  <2>3. CASE CountDown(w)
    <3>1. UNCHANGED <<queue, size, top, acceptorVars>> /\ harm \subseteq harm'
      BY <2>3 DEF CountDown, Torn
    <3>2. \A v \in Worker : /\ pc'[v] = "pop" => pc[v] = "pop"
                            /\ pc'[v] \in Kept => pc[v] \in Kept
                            /\ pc'[v] \in Holding => client'[v] = client[v]
      BY <2>3 DEF CountDown, Goes, Sound, TypeOK
    <3> QED BY <3>1, <3>2, StillLined DEF acceptorVars, Stored
  <2> QED BY <1>3, <2>1, <2>2, <2>3, TakeLined, PopLined DEF Works
<1> QED BY <1>1, <1>2, <1>3, StoreLined DEF Next, MainThread

LEMMA AlwaysLined == Spec => []Lined
BY InitLined, NextLined, AlwaysSound, PTL DEF Spec

-----------------------------------------------------------------------------
\* The clients in cl_arr.

\* Somebody waits for id, or serves it.
Cared(id) == id \in Waiting \/ \E w \in Worker : Holds(w, id)

\* Somebody will yet look for id.
Unsought(id) ==
    \/ id \in Waiting
    \/ \E w \in Worker : pc[w] \in {"pop", "count", "run"} /\ client[w] = id

LEMMA EnteredIs ==
    Entered <=>
        harm \cap {"queue", "orphan"} = {} =>
            /\ \A id \in cl_arr :
                  id <= arriving /\ (acceptor # "signal" => id < arriving) /\ Cared(id)
            /\ acceptor = "add" => Unsought(arriving)
            /\ \A w \in Worker : pc[w] \in {"recount", "countdown"} => client[w] \notin cl_arr
BY DEF Entered, Cared, Unsought

LEMMA InitEntered == Init => Entered
BY DEF Init, Entered

(* A step of a worker that lets go of no client that is still in cl_arr and   *)
(* looks for none.                                                            *)
LEMMA StillEntered ==
    ASSUME Entered, UNCHANGED <<acceptor, arriving>>, harm \subseteq harm', cl_arr' \subseteq cl_arr,
           \A id : Cared(id) => Cared(id)' \/ id \notin cl_arr',
           \A id : Unsought(id) => Unsought(id)',
           \A w \in Worker : pc'[w] \in {"recount", "countdown"} => client'[w] \notin cl_arr'
    PROVE  Entered'
<1>1. SUFFICES ASSUME harm' \cap {"queue", "orphan"} = {}  PROVE Entered'
  BY DEF Entered
<1>2. harm \cap {"queue", "orphan"} = {}
  BY <1>1
<1>3. \A id \in cl_arr' :
          id <= arriving' /\ (acceptor' # "signal" => id < arriving') /\ Cared(id)'
  BY <1>2 DEF Entered, Cared
<1>4. acceptor' = "add" => Unsought(arriving)'
  BY <1>2 DEF Entered, Unsought
<1> QED BY <1>3, <1>4 DEF Entered, Cared, Unsought

(* A step in which clients_wait stays, and every holder keeps its client.     *)
LEMMA StillCared ==
    ASSUME UNCHANGED <<queue, size>>,
           \A w \in Worker :
              /\ pc[w] \in Holding => pc'[w] \in Holding /\ client'[w] = client[w]
              /\ pc[w] \in {"pop", "count", "run"} => pc'[w] \in {"pop", "count", "run"}
    PROVE  /\ \A id : Cared(id) => Cared(id)'
           /\ \A id : Unsought(id) => Unsought(id)'
<1>1. Waiting' = Waiting
  BY DEF Waiting
<1>2. ASSUME NEW id, Cared(id)  PROVE Cared(id)'
  <2>1. CASE id \in Waiting
    BY <1>1, <2>1 DEF Cared
  <2>2. ASSUME NEW w \in Worker, Holds(w, id)  PROVE Cared(id)'
    BY <2>2 DEF Cared, Holds, Holding, Kept
  <2> QED BY <1>2, <2>1, <2>2 DEF Cared
<1>3. ASSUME NEW id, Unsought(id)  PROVE Unsought(id)'
  <2>1. CASE id \in Waiting
    BY <1>1, <2>1 DEF Unsought
  <2>2. ASSUME NEW w \in Worker, pc[w] \in {"pop", "count", "run"}, client[w] = id
        PROVE  Unsought(id)'
    BY <2>2 DEF Unsought, Holding, Kept, Counted
  <2> QED BY <1>3, <2>1, <2>2 DEF Unsought
<1> QED BY <1>2, <1>3

LEMMA MainEntered == ASSUME Sound, Lined, Entered, MainThread PROVE Entered'
<1>1. SUFFICES ASSUME harm' \cap {"queue", "orphan"} = {}  PROVE Entered'
  BY DEF Entered
<1>2. CASE Accept \/ Push
  <2>1. /\ UNCHANGED <<arriving, queue, size, cl_arr, pc, client, harm>>
        /\ acceptor # "signal" /\ acceptor' \notin {"signal", "add"}
    BY <1>2 DEF Accept, Push, workerVars
  <2> QED BY <1>1, <2>1 DEF Entered, Waiting, Holds
<1>3. CASE Store
  <2>1. /\ acceptor = "store" /\ acceptor' = "add" /\ spot = size /\ size' = size + 1
        /\ queue' = [queue EXCEPT ![size + 1] = arriving]
        /\ harm' = harm /\ UNCHANGED <<arriving, cl_arr, pc, client>>
    BY <1>1, <1>3 DEF Store, Torn, workerVars
  <2>2. size \in Nat /\ size + 1 \in Id
    BY <2>1, PoolAssumption DEF Sound, TypeOK, Bounds, Stored, Id
  <2>3. Waiting \subseteq Waiting' /\ arriving \in Waiting'
    <3>1. queue'[size + 1] = arriving /\ \A i \in 1 .. size : queue'[i] = queue[i]
      BY <2>1, <2>2 DEF Sound, TypeOK
    <3>2. size + 1 \in 1 .. size' /\ \A i \in 1 .. size : i \in 1 .. size'
      BY <2>1, <2>2
    <3> QED BY <3>1, <3>2 DEF Waiting
  <2>4. \A id \in cl_arr : id <= arriving /\ id < arriving /\ Cared(id)
    BY <1>1, <2>1 DEF Entered, Cared
  <2>5. \A id : Cared(id) => Cared(id)'
    BY <2>1, <2>3 DEF Cared, Holds
  <2> QED BY <1>1, <2>1, <2>3, <2>4, <2>5 DEF Entered, Cared
<1>4. CASE Add
  <2>1. /\ acceptor = "add" /\ acceptor' = "signal" /\ cl_arr' \subseteq cl_arr \cup {arriving}
        /\ UNCHANGED <<arriving, queue, size, pc, client, harm>>
    BY <1>4 DEF Add, Enter, workerVars
  <2>2. /\ \A id \in cl_arr : id < arriving /\ Cared(id)
        /\ Unsought(arriving)
        /\ \A w \in Worker : pc[w] \in {"recount", "countdown"} => client[w] \notin cl_arr
    BY <1>1, <2>1 DEF Entered, Cared, Unsought
  <2>3. "queue" \notin harm /\ arriving \in Int
    BY <1>1, <2>1, PoolAssumption DEF Sound, TypeOK
  <2>4. ASSUME NEW w \in Worker, pc[w] \in {"recount", "countdown"}  PROVE client[w] # arriving
    <3>1. \A i \in 1 .. size : queue[i] # client[w]
      BY <2>3, <2>4 DEF Lined, Kept, Counted
    <3>2. \A v \in Worker : pc[v] \in {"pop", "count", "run"} => client[v] # client[w]
      BY <2>3, <2>4 DEF Lined, Holding, Kept, Counted
    <3> QED BY <2>2, <3>1, <3>2 DEF Unsought, Waiting
  <2>5. Cared(arriving)
    BY <2>2 DEF Unsought, Cared, Holds, Counted
  <2>6. Waiting' = Waiting /\ \A id : Cared(id) => Cared(id)'
    BY <2>1 DEF Cared, Holds, Waiting
  <2>7. \A id \in cl_arr' : id <= arriving' /\ Cared(id)'
    <3>1. Cared(arriving)'
      BY <2>1, <2>5 DEF Cared, Holds, Waiting
    <3>2. ASSUME NEW id \in cl_arr  PROVE id <= arriving' /\ Cared(id)'
      BY <1>1, <2>1, <2>6, <3>2 DEF Entered, Cared
    <3>3. arriving' <= arriving'
      BY <2>1, <2>3
    <3>4. ASSUME NEW id, id = arriving'  PROVE Cared(id)'
      BY <3>1, <3>4 DEF Cared
    <3> QED BY <2>1, <3>2, <3>3, <3>4
  <2> QED BY <2>1, <2>2, <2>4, <2>7 DEF Entered, Cared
<1>5. CASE Signal
  <2>1. /\ acceptor = "signal" /\ acceptor' = "accept" /\ arriving' = arriving + 1
        /\ UNCHANGED <<queue, size, cl_arr, client, harm>>
        /\ \/ UNCHANGED pc
           \/ \E w \in Worker : pc[w] = "asleep" /\ pc' = [pc EXCEPT ![w] = "woken"]
    BY <1>5 DEF Signal, Goes
  <2>2. \A w \in Worker : pc'[w] = pc[w] \/ (pc[w] = "asleep" /\ pc'[w] = "woken")
    BY <2>1 DEF Sound, TypeOK
  <2>3. \A id : Cared(id) => Cared(id)'
    BY <2>1, <2>2, StillCared DEF Holding, Kept, Counted
  <2>4. \A id \in cl_arr : id <= arriving /\ Cared(id)
    BY <1>1, <2>1 DEF Entered, Cared
  <2>5. \A id \in cl_arr' : id <= arriving' /\ id < arriving' /\ Cared(id)'
    <3>1. arriving \in Int /\ \A id \in cl_arr : id \in Int
      BY PoolAssumption DEF Sound, TypeOK, Id
    <3> QED BY <2>1, <2>3, <2>4, <3>1
  <2> QED BY <1>1, <2>1, <2>2, <2>5 DEF Entered, Cared
<1> QED BY <1>2, <1>3, <1>4, <1>5 DEF MainThread

LEMMA WorkerEntered ==
    ASSUME Sound, Lined, Entered, NEW w \in Worker,
           Works(w) \/ Command(w) \/ HangUp(w) \/ WakeUnasked(w)
    PROVE  Entered'
<1>1. SUFFICES ASSUME harm' \cap {"queue", "orphan"} = {}  PROVE Entered'
  BY DEF Entered
<1> DEFINE Over == {"recount", "countdown"}
<1>2. ASSUME "queue" \notin harm, "orphan" \notin harm
      PROVE  \A v \in Worker : pc[v] \in Over => client[v] \notin cl_arr
  BY <1>2 DEF Entered
<1>3. CASE Lock(w) \/ Empty(w) \/ Sleep(w) \/ CountUp(w) \/ WakeUnasked(w)
  <2>1. UNCHANGED <<queue, size, client, cl_arr, acceptor, arriving>> /\ harm \subseteq harm'
    BY <1>3 DEF Lock, Empty, Sleep, CountUp, WakeUnasked, Torn, acceptorVars
  <2>2. \A v \in Worker : /\ pc[v] \in Holding => pc'[v] \in Holding
                          /\ pc[v] \in {"pop", "count", "run"} => pc'[v] \in {"pop", "count", "run"}
                          /\ pc'[v] \in Over => pc[v] \in Over
    BY <1>3 DEF Lock, Empty, Sleep, CountUp, WakeUnasked, Goes, Sound, TypeOK, Holding, Kept, Counted
  <2> QED BY <1>1, <1>2, <2>1, <2>2, StillCared, StillEntered
<1>4. CASE Command(w) \/ Answer(w) \/ HangUp(w)
  <2>1. UNCHANGED <<queue, size, client, cl_arr, acceptor, arriving, harm>>
    BY <1>4 DEF Command, Answer, HangUp, acceptorVars
  <2>2. \A v \in Worker : /\ pc[v] \in Holding => pc'[v] \in Holding
                          /\ pc[v] \in {"pop", "count", "run"} => pc'[v] \in {"pop", "count", "run"}
                          /\ pc'[v] \in Over => pc[v] \in Over
    BY <1>4 DEF Command, Answer, HangUp, Goes, Sound, TypeOK, Holding, Kept, Counted
  <2> QED BY <1>1, <1>2, <2>1, <2>2, StillCared, StillEntered
<1>5. CASE Find(w)
  <2>1. /\ UNCHANGED <<queue, size, client, cl_arr, acceptor, arriving, harm>>
        /\ client[w] \in cl_arr /\ pc[w] = "run" /\ pc' = [pc EXCEPT ![w] = "serve"]
    BY <1>1, <1>5 DEF Find, Goes, acceptorVars
  <2>2. /\ \A v \in Worker : v # w => pc'[v] = pc[v]
        /\ pc'[w] = "serve"
    BY <2>1 DEF Sound, TypeOK
  <2>3. acceptor = "add" => client[w] # arriving
    <3>1. \A id \in cl_arr : acceptor = "add" => id < arriving
      BY <1>1, <2>1 DEF Entered
    <3> QED BY <2>1, <3>1, PoolAssumption DEF Sound, TypeOK
  <2>4. \A id : Cared(id) => Cared(id)'
    <3>1. Waiting' = Waiting /\ \A v \in Worker : \A id : Holds(v, id) => Holds(v, id)'
      BY <2>1, <2>2 DEF Waiting, Holds, Counted
    <3> QED BY <3>1 DEF Cared
  <2>5. acceptor = "add" => Unsought(arriving)'
    <3> SUFFICES ASSUME acceptor = "add"  PROVE Unsought(arriving)'
      OBVIOUS
    <3>1. Unsought(arriving)
      BY <1>1, <2>1 DEF Entered, Unsought
    <3>2. CASE arriving \in Waiting
      BY <2>1, <3>2 DEF Unsought, Waiting
    <3>3. ASSUME NEW v \in Worker, pc[v] \in {"pop", "count", "run"}, client[v] = arriving
          PROVE  Unsought(arriving)'
      <4>1. v # w
        BY <2>3, <3>3
      <4> QED BY <2>1, <2>2, <3>3, <4>1 DEF Unsought
    <3> QED BY <3>1, <3>2, <3>3 DEF Unsought
  <2>6. \A v \in Worker : pc'[v] \in Over => client'[v] \notin cl_arr'
    BY <1>1, <1>2, <2>1, <2>2
  <2>7. \A id \in cl_arr :
          id <= arriving /\ (acceptor # "signal" => id < arriving) /\ Cared(id)
    BY <1>1, <2>1 DEF Entered, Cared
  <2> QED BY <2>1, <2>4, <2>5, <2>6, <2>7 DEF Entered, Cared, Unsought
<1>6. CASE Take(w)
  <2>1. /\ pc[w] = "test" /\ pc' = [pc EXCEPT ![w] = "pop"]
        /\ client' = [client EXCEPT ![w] = queue[size]]
        /\ UNCHANGED <<acceptor, arriving, queue, size, cl_arr, harm>>
    BY <1>6 DEF Take, Goes, acceptorVars
  <2>2. /\ pc'[w] = "pop" /\ pc[w] \notin Holding
        /\ \A v \in Worker : v # w => pc'[v] = pc[v] /\ client'[v] = client[v]
    BY <2>1 DEF Sound, TypeOK, Holding, Kept, Counted
  <2>3. pc[w] \notin {"pop", "count", "run"} /\ pc'[w] \notin Over
    BY <2>1, <2>2
  <2> QED BY <1>1, <1>2, <2>1, <2>2, <2>3, StillCared, StillEntered
<1>7. CASE Pop(w)
  <2>1. /\ pc[w] = "pop" /\ pc' = [pc EXCEPT ![w] = "count"] /\ size' = size - 1 /\ top[w] = size
        /\ UNCHANGED <<acceptor, arriving, queue, client, cl_arr>> /\ harm' = harm
    BY <1>1, <1>7 DEF Pop, Torn, Goes, acceptorVars
  <2>2. /\ pc'[w] = "count" /\ \A v \in Worker : v # w => pc'[v] = pc[v]
        /\ client[w] = queue[size] /\ size \in Nat
    BY <1>1, <2>1, PoolAssumption DEF Sound, TypeOK, Lined
  <2>3. \A id \in Waiting : id \in Waiting' \/ id = client[w]
    <3>1. \A i \in 1 .. size : i \in 1 .. size' \/ i = size
      BY <2>1, <2>2
    <3> QED BY <2>1, <2>2, <3>1 DEF Waiting
  <2>4. ASSUME NEW v \in Worker, NEW id, Holds(v, id)  PROVE Holds(v, id)'
    BY <2>1, <2>2, <2>4 DEF Holds, Counted
  <2>5. Cared(client[w])' /\ Unsought(client[w])'
    BY <2>1, <2>2 DEF Cared, Holds, Unsought
  <2>6. \A id : Cared(id) => Cared(id)'
    BY <2>1, <2>3, <2>4, <2>5 DEF Cared
  <2>7. \A v \in Worker :
          pc[v] \in {"pop", "count", "run"} => pc'[v] \in {"pop", "count", "run"} /\ client'[v] = client[v]
    BY <2>1, <2>2
  <2>8. \A id : Unsought(id) => Unsought(id)'
    BY <2>1, <2>3, <2>5, <2>7 DEF Unsought
  <2>9. \A v \in Worker : pc'[v] \in Over => client'[v] \notin cl_arr'
    BY <1>1, <1>2, <2>1, <2>2
  <2> QED BY <2>1, <2>6, <2>8, <2>9, StillEntered
<1>8. CASE Destroy(w)
  <2>1. /\ pc[w] = "destroy" /\ pc' = [pc EXCEPT ![w] = "recount"] /\ cl_arr' = cl_arr \ {client[w]}
        /\ UNCHANGED <<acceptor, arriving, queue, size, client, harm>>
    BY <1>8 DEF Destroy, Goes, acceptorVars
  <2>2. pc'[w] = "recount" /\ \A v \in Worker : v # w => pc'[v] = pc[v]
    BY <2>1 DEF Sound, TypeOK
  <2>3. \A v \in Worker : /\ pc[v] \in Holding => pc'[v] \in Holding
                          /\ pc[v] \in {"pop", "count", "run"} => pc'[v] \in {"pop", "count", "run"}
    BY <2>1, <2>2 DEF Holding, Kept, Counted
  <2>4. \A v \in Worker : pc'[v] \in Over => client'[v] \notin cl_arr'
    BY <1>1, <1>2, <2>1, <2>2
  <2> QED BY <2>1, <2>3, <2>4, StillCared, StillEntered
<1>9. CASE Recount(w)
  <2>1. /\ pc[w] = "recount" /\ pc' = [pc EXCEPT ![w] = "countdown"]
        /\ UNCHANGED <<acceptor, arriving, queue, size, client, cl_arr, harm>>
    BY <1>9 DEF Recount, Goes, acceptorVars
  <2>2. pc'[w] = "countdown" /\ \A v \in Worker : v # w => pc'[v] = pc[v]
    BY <2>1 DEF Sound, TypeOK
  <2>3. \A v \in Worker : /\ pc[v] \in Holding => pc'[v] \in Holding
                          /\ pc[v] \in {"pop", "count", "run"} => pc'[v] \in {"pop", "count", "run"}
                          /\ pc'[v] \in Over => pc[v] \in Over
    BY <2>1, <2>2 DEF Holding, Kept, Counted
  <2> QED BY <1>1, <1>2, <2>1, <2>3, StillCared, StillEntered
<1>10. CASE CountDown(w)
  <2>1. /\ pc[w] = "countdown" /\ pc' = [pc EXCEPT ![w] = "idle"]
        /\ client' = [client EXCEPT ![w] = 0] /\ harm \subseteq harm'
        /\ UNCHANGED <<acceptor, arriving, queue, size, cl_arr>>
    BY <1>10 DEF CountDown, Torn, Goes, acceptorVars
  <2>2. /\ pc'[w] = "idle" /\ client[w] \notin cl_arr
        /\ \A v \in Worker : v # w => pc'[v] = pc[v] /\ client'[v] = client[v]
    BY <1>1, <1>2, <2>1 DEF Sound, TypeOK
  <2>3. Waiting' = Waiting
    BY <2>1 DEF Waiting
  <2>4. \A id : Cared(id) => Cared(id)' \/ id \notin cl_arr'
    BY <2>1, <2>2, <2>3 DEF Cared, Holds
  <2>5. \A id : Unsought(id) => Unsought(id)'
    BY <2>1, <2>2, <2>3 DEF Unsought
  <2>6. \A v \in Worker : pc'[v] \in Over => client'[v] \notin cl_arr'
    BY <1>1, <1>2, <2>1, <2>2
  <2> QED BY <2>1, <2>4, <2>5, <2>6, StillEntered
<1> QED BY <1>3, <1>4, <1>5, <1>6, <1>7, <1>8, <1>9, <1>10 DEF Works

LEMMA NextEntered == Sound /\ Lined /\ Entered /\ [Next]_vars => Entered'
<1>1. ASSUME Entered, UNCHANGED vars  PROVE Entered'
  BY <1>1 DEF vars, acceptorVars, workerVars, Entered, Waiting, Holds
<1> QED BY <1>1, MainEntered, WorkerEntered DEF Next

(* A client in cl_arr is waiting or has exactly one worker, as long as no two *)
(* accesses to clients_wait have fallen into each other and no worker came    *)
(* before its client was entered: the two-step handover, with the push before *)
(* the entry and the mutex on one side only, loses and doubles nobody.        *)
THEOREM ClientsAreKept == Spec => []ClientsConserved
<1>1. Lined /\ Entered => ClientsConserved
  <2> SUFFICES ASSUME Lined, Entered, harm \cap {"queue", "orphan"} = {}, NEW id \in cl_arr
               PROVE  /\ id \in Waiting \/ \E w \in Worker : Holds(w, id)
                      /\ \A v, w \in Worker : Holds(v, id) /\ Holds(w, id) => v = w
    BY DEF ClientsConserved
  <2>1. id \in Waiting \/ \E w \in Worker : Holds(w, id)
    BY DEF Entered
  <2>2. \A v, w \in Worker : Holds(v, id) /\ Holds(w, id) => v = w
    BY DEF Lined, Holds, Holding, Kept
  <2> QED BY <2>1, <2>2
<1> QED BY <1>1, AlwaysSound, AlwaysLined, InitEntered, NextEntered, PTL DEF Spec

=============================================================================
