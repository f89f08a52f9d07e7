---------------------------- MODULE ClientConnProofs ----------------------------
(***************************************************************************)
(* The client's connection: proofs that an open connection has its threads *)
(* and that no command overtakes or repeats another, for any number of      *)
(* connections and commands, and for threads that wake whenever they like.  *)
(***************************************************************************)
EXTENDS ClientConn, TLAPS, SequenceTheorems

(* What TypeOK leaves out of the buffers' sizes: every command in the text    *)
(* was typed, the one that is being queued may be, and the answer that is     *)
(* applied is there.                                                          *)
Sizes ==
    /\ Len(sbuf) <= typed
    /\ input \in Kind => typed < MaxTyped
    /\ output = "apply" => shown < rsize

Sound == TypeOK /\ Sizes

LEMMA InitSound == Init => Sound
<1> SUFFICES ASSUME Init  PROVE Sound
  OBVIOUS
<1>1. shut \in BOOLEAN
  BY DEF Init
<1> QED BY <1>1, BoundsAssumption DEF Init, Sound, TypeOK, Sizes, Conn, Flag, Answer, Closing

-----------------------------------------------------------------------------
\* The input thread.

(* Where a thread in fechar_conexao goes, and what it writes.                 *)
LEMMA CloseIs ==
    ASSUME TypeOK, NEW from, NEW to, NEW return, fechar_conexao(from, to, return)
    PROVE  /\ from \in Closing \cup {"close"} /\ to \in Closing \cup {return}
           /\ status' \in {"open", "closed"} /\ sock' \in 0 .. MaxConns /\ shut' \in BOOLEAN
           /\ flags' \subseteq Flag
<1>1. CASE Asks(from, to, return)
  BY <1>1 DEF Asks, TypeOK, connVars, Closing
<1>2. CASE Writes(from, to, return)
  <2>1. CASE from = "shut"
    BY <1>2, <2>1 DEF Writes, TypeOK, Closing
  <2>2. CASE from # "shut"
    <3>1. shut' \in BOOLEAN
      BY <1>2, <2>2 DEF Writes, TypeOK
    <3> QED BY <1>2, <2>2, <3>1, BoundsAssumption DEF Writes, TypeOK, Closing
  <2> QED BY <2>1, <2>2
<1> QED BY <1>1, <1>2 DEF fechar_conexao

LEMMA SignalIs ==
    ASSUME TypeOK, SignalSender
    PROVE  /\ sender' \in [Conn -> {"unborn", "check", "lock", "asleep", "woken", "sending", "failed", "dead"}]
           /\ \A k \in Conn : sender[k] = sender'[k] \/ (sender[k] = "asleep" /\ sender'[k] = "woken")
BY ZenonT(40) DEF SignalSender, SenderGoes, TypeOK

(* A receiver outside fechar_conexao goes on there.                           *)
LEMMA ReceiverOutside ==
    ASSUME TypeOK, NEW k, receiver[k] \notin Closing,
           NEW to \in {"unborn", "check", "call", "recv", "append", "close", "dead"},
           receiver' = [receiver EXCEPT ![k] = to]
    PROVE  /\ receiver' \in [Conn -> Closing \cup {"unborn", "check", "call", "recv", "append", "close",
                                                    "dead"}]
           /\ \A i, j \in Conn : receiver'[i] \in Closing /\ receiver'[j] \in Closing => i = j
<1>1. \A i \in Conn : receiver'[i] = IF i = k THEN to ELSE receiver[i]
  BY DEF TypeOK
<1>2. to \notin Closing
  BY DEF Closing
<1>3. receiver' \in [Conn -> Closing \cup {"unborn", "check", "call", "recv", "append", "close", "dead"}]
  BY DEF TypeOK
<1>4. \A i, j \in Conn : receiver[i] \in Closing /\ receiver[j] \in Closing => i = j
  BY DEF TypeOK
<1>5. \A i \in Conn : receiver'[i] \in Closing => receiver[i] \in Closing
  BY <1>1, <1>2
<1> QED BY <1>3, <1>4, <1>5

LEMMA ConnectSound ==
    ASSUME Sound, Connect \/ Reaches \/ Connected \/ Refused \/ Spawn
    PROVE  Sound'
<1>1. CASE Connect
  <2>1. conns + 1 \in Conn
    BY <1>1, BoundsAssumption DEF Connect, Sound, TypeOK, Conn
  <2>2. shut' \in BOOLEAN
    BY <1>1 DEF Connect
  <2> QED BY <1>1, <2>1, <2>2, BoundsAssumption DEF Connect, InputGoes, Sound, TypeOK, Sizes, Conn, sendVars,
                                              recvVars, outVars, netVars
<1>5. CASE Reaches
  BY <1>5, BoundsAssumption DEF Reaches, InputGoes, Sound, TypeOK, Sizes, connVars, sendVars, recvVars,
                                outVars
<1>2. CASE Connected
  BY <1>2, BoundsAssumption DEF Connected, InputGoes, Sound, TypeOK, Sizes, sendVars, recvVars, outVars, netVars
<1>3. CASE Refused
  BY <1>3, BoundsAssumption DEF Refused, InputGoes, Sound, TypeOK, Sizes, sendVars, recvVars, outVars, netVars
<1>4. CASE Spawn
  <2> QED BY <1>4, ReceiverOutside, BoundsAssumption, ZenonT(40)
          DEF Spawn, InputGoes, SenderGoes, ReceiverGoes, Sound, TypeOK, Sizes, Closing, connVars, outVars, netVars
<1> QED BY <1>1, <1>2, <1>3, <1>4, <1>5

LEMMA DisconnectSound ==
    ASSUME Sound, Disconnect \/ InputCloses \/ Wake \/ ResetRecv \/ ResetSend
    PROVE  Sound'
<1>1. CASE Disconnect
  BY <1>1, BoundsAssumption DEF Disconnect, InputGoes, Sound, TypeOK, Sizes, connVars, sendVars, recvVars, outVars, netVars
<1>5. CASE InputCloses
  <2>1. /\ input' \in Closing \cup {"wake"}
        /\ status' \in {"open", "closed"} /\ sock' \in 0 .. MaxConns /\ shut' \in BOOLEAN
        /\ flags' \subseteq Flag
        /\ UNCHANGED <<conns, crossed, typed, sendVars, recvVars, outVars, netVars>>
    BY <1>5, CloseIs DEF InputCloses, Sound
  <2> QED BY <2>1, BoundsAssumption DEF Sound, TypeOK, Sizes, Closing, sendVars, recvVars, outVars, netVars
<1>2. CASE Wake
  <2>1. /\ sender' \in [Conn -> {"unborn", "check", "lock", "asleep", "woken", "sending", "failed", "dead"}]
        /\ \A k \in Conn : sender'[k] \in {"sending", "failed"} <=> sender[k] \in {"sending", "failed"}
    BY <1>2, SignalIs DEF Wake, Sound
  <2> QED BY <1>2, <2>1, BoundsAssumption, SMTT(30) DEF Wake, InputGoes, Sound, TypeOK, Sizes, connVars, recvVars,
                                              outVars, netVars
<1>3. CASE ResetRecv
  BY <1>3, BoundsAssumption DEF ResetRecv, RecvFree, InputGoes, Sound, TypeOK, Sizes, connVars, sendVars, outVars, netVars
<1>4. CASE ResetSend
  BY <1>4, BoundsAssumption DEF ResetSend, InputGoes, Sound, TypeOK, Sizes, connVars, recvVars, outVars, netVars
<1> QED BY <1>1, <1>2, <1>3, <1>4, <1>5

LEMMA TypeSound == ASSUME Sound, NEW kind \in Kind, Type(kind) PROVE Sound'
BY BoundsAssumption DEF Type, InputGoes, Sound, TypeOK, Sizes, connVars, sendVars, recvVars, outVars, netVars

(* A command goes behind what is in the buffer, or over it.                   *)
LEMMA BufferedIs ==
    ASSUME Sound, NEW kind \in Kind, typed < MaxTyped
    PROVE  /\ Buffered(kind) \in Seq((1 .. MaxTyped) \X Kind)
           /\ Len(Buffered(kind)) <= typed + 1 /\ ssize + 1 <= Len(Buffered(kind))
           /\ \/ Buffered(kind) = Append(sbuf, <<typed + 1, kind>>)
              \/ Buffered(kind) = <<<<typed + 1, kind>>>>
<1> DEFINE command == <<typed + 1, kind>>
<1>1. command \in (1 .. MaxTyped) \X Kind
  BY BoundsAssumption DEF Sound, TypeOK
<1>2. /\ sbuf \in Seq((1 .. MaxTyped) \X Kind) /\ Len(sbuf) \in Nat /\ Len(sbuf) <= typed
      /\ ssize \in 0 .. Len(sbuf) /\ typed \in Nat
  BY BoundsAssumption DEF Sound, TypeOK, Sizes
<1> HIDE DEF command
<1>3. /\ Append(sbuf, command) \in Seq((1 .. MaxTyped) \X Kind)
      /\ Len(Append(sbuf, command)) = Len(sbuf) + 1
      /\ <<command>> \in Seq((1 .. MaxTyped) \X Kind) /\ Len(<<command>>) = 1
  BY <1>1, <1>2
<1>4. Buffered(kind) = IF kind = "message" /\ ssize = 0 THEN <<command>> ELSE Append(sbuf, command)
  BY DEF Buffered, command
<1>5. CASE kind = "message" /\ ssize = 0
  <2>1. Buffered(kind) = <<command>>
    BY <1>4, <1>5
  <2>2. /\ Buffered(kind) \in Seq((1 .. MaxTyped) \X Kind) /\ Len(Buffered(kind)) = 1
    BY <1>3, <2>1
  <2>4. 1 <= typed + 1 /\ ssize + 1 = 1
    BY <1>2, <1>5
  <2>3. Buffered(kind) = <<<<typed + 1, kind>>>>
    BY <2>1 DEF command
  <2> QED BY <2>2, <2>3, <2>4
<1>6. CASE ~(kind = "message" /\ ssize = 0)
  <2>1. Buffered(kind) = Append(sbuf, command)
    BY <1>4, <1>6
  <2> QED BY <1>2, <1>3, <2>1 DEF command
<1> QED BY <1>5, <1>6

LEMMA QueueSound == ASSUME Sound, NEW kind \in Kind, Queue(kind) PROVE Sound'
<1>1. /\ sender' \in [Conn -> {"unborn", "check", "lock", "asleep", "woken", "sending", "failed", "dead"}]
      /\ \A k \in Conn : sender'[k] \in {"sending", "failed"} <=> sender[k] \in {"sending", "failed"}
  BY SignalIs DEF Queue, Sound
<1>2. /\ input = kind /\ input' = "prompt" /\ typed' = typed + 1 /\ ssize' = ssize + 1
      /\ sbuf' = Buffered(kind) /\ typed < MaxTyped
      /\ UNCHANGED <<connVars, conns, crossed, sent, recvVars, outVars, netVars>>
  BY DEF Queue, InputGoes, Sound, Sizes
<1>3. /\ sbuf' \in Seq((1 .. MaxTyped) \X Kind)
      /\ Len(sbuf') <= typed + 1 /\ ssize + 1 <= Len(sbuf')
  BY <1>2, BufferedIs
<1>4. Sizes'
  BY <1>2, <1>3, BoundsAssumption DEF Sound, TypeOK, Sizes, outVars, recvVars
<1>5. /\ conns' \in 0 .. MaxConns /\ typed' \in 0 .. MaxTyped /\ crossed' \subseteq Conn
      /\ input' \in Kind \cup Closing \cup {"prompt", "connecting", "opening", "spawn", "close",
                                            "wake", "reset_recv", "reset_send"}
      /\ ssize' \in 0 .. Len(sbuf')
  BY <1>2, <1>3, BoundsAssumption DEF Sound, TypeOK
<1>6. /\ sent' \in [Conn -> 0 .. MaxTyped]
      /\ \A k \in Conn : sent'[k] > 0 => sender'[k] \in {"sending", "failed"}
      /\ \A j, k \in Conn :
           sender'[j] \in {"sending", "failed"} /\ sender'[k] \in {"sending", "failed"} => j = k
  BY <1>1, <1>2 DEF Sound, TypeOK
<1>7. UNCHANGED <<connVars, recvVars, outVars, netVars>>
  BY <1>2
<1>8. TypeOK'
  BY <1>1, <1>3, <1>5, <1>6, <1>7 DEF Sound, TypeOK, connVars, recvVars, outVars, netVars
<1> QED BY <1>4, <1>8 DEF Sound

-----------------------------------------------------------------------------
\* The threads of a connection.

LEMMA SenderSound ==
    ASSUME Sound, NEW k \in Conn, SenderChecks(k) \/ SenderLocks(k) \/ SenderWakes(k) \/ SenderStirs(k)
    PROVE  Sound'
<1>1. CASE SenderChecks(k)
  BY <1>1, ZenonT(40) DEF SenderChecks, SenderGoes, Sound, TypeOK, Sizes, connVars, userVars, recvVars, outVars, netVars
<1>2. CASE SenderLocks(k)
  BY <1>2, SMTT(30) DEF SenderLocks, SendFree, SenderGoes, Sound, TypeOK, Sizes, connVars, userVars, recvVars, outVars, netVars
<1>3. CASE SenderWakes(k)
  BY <1>3 DEF SenderWakes, SendFree, SenderGoes, Sound, TypeOK, Sizes, connVars, userVars, recvVars, outVars, netVars
<1>4. CASE SenderStirs(k)
  BY <1>4, SMTT(30) DEF SenderStirs, SenderGoes, Sound, TypeOK, Sizes, connVars, userVars, recvVars, outVars, netVars
<1> QED BY <1>1, <1>2, <1>3, <1>4

LEMMA SendOverSound ==
    ASSUME Sound, NEW k \in Conn, SendEnds(k) \/ SendFails(k) \/ SenderMarks(k)
    PROVE  Sound'
<1>1. CASE SendEnds(k) \/ SenderMarks(k)
  <2>1. /\ sender[k] \in {"sending", "failed"} /\ sender' = [sender EXCEPT ![k] = "check"]
        /\ sent' = [sent EXCEPT ![k] = 0]
        /\ sbuf' = <<>> /\ ssize' = 0 /\ status' \in {"open", "closed"}
        /\ UNCHANGED <<sock, shut, flags, userVars, recvVars, outVars, netVars>>
    BY <1>1 DEF SendEnds, SenderMarks, Sends_over, SenderGoes, Sound, TypeOK, connVars
  <2> QED BY <2>1, BoundsAssumption, SMTT(30) DEF Sound, TypeOK, Sizes, userVars, recvVars, outVars, netVars
<1>2. CASE SendFails(k)
  BY <1>2, ZenonT(40) DEF SendFails, SenderGoes, Sound, TypeOK, Sizes, connVars, userVars, recvVars, outVars, netVars
<1> QED BY <1>1, <1>2

LEMMA DeliverIs ==
    ASSUME TypeOK, NEW k \in Conn, NEW command \in (1 .. MaxTyped) \X Kind, Deliver(k, command)
    PROVE  /\ peer' = peer
           /\ inbound' \in [Conn -> Seq(Answer)] /\ received' \in [Conn -> Seq(1 .. MaxTyped)]
           /\ granted' \in [Conn -> SUBSET Flag]
           /\ received' = [received EXCEPT ![k] = Append(received[k], command[1])]
<1> DEFINE answer == Granting(k, command[2])
<1>1. answer \in Answer
  BY DEF Granting, Answer
<1>2. /\ received' = [received EXCEPT ![k] = Append(@, command[1])]
      /\ granted' = [granted EXCEPT ![k] = @ \cup ({answer} \cap Flag)]
      /\ inbound' = [inbound EXCEPT ![k] = Append(@, answer)]
      /\ UNCHANGED peer
  BY DEF Deliver
<1> HIDE DEF answer
<1>3. Append(inbound[k], answer) \in Seq(Answer)
  BY <1>1 DEF TypeOK
<1>4. Append(received[k], command[1]) \in Seq(1 .. MaxTyped)
  BY DEF TypeOK
<1> QED BY <1>2, <1>3, <1>4 DEF TypeOK

LEMMA SendSound == ASSUME Sound, NEW k \in Conn, Send(k) PROVE Sound'
<1>1. /\ sender[k] = "sending" /\ sent[k] < ssize /\ sock # 0
      /\ sent' = [sent EXCEPT ![k] = sent[k] + 1]
      /\ UNCHANGED <<connVars, userVars, sbuf, ssize, sender, recvVars, outVars>>
      /\ \/ peer[sock] = "open" /\ Deliver(sock, sbuf[sent[k] + 1])
         \/ UNCHANGED netVars
  BY DEF Send
<1>2. sock \in Conn /\ sbuf[sent[k] + 1] \in (1 .. MaxTyped) \X Kind /\ sent[k] + 1 \in 0 .. MaxTyped
  <2>1. /\ sbuf \in Seq((1 .. MaxTyped) \X Kind) /\ ssize \in 0 .. Len(sbuf) /\ Len(sbuf) \in Nat
        /\ sent[k] \in 0 .. MaxTyped /\ typed \in 0 .. MaxTyped /\ Len(sbuf) <= typed
        /\ sock \in 0 .. MaxConns
    BY DEF Sound, TypeOK, Sizes
  <2>2. sent[k] + 1 \in 1 .. Len(sbuf) /\ sent[k] + 1 \in 0 .. MaxTyped
    BY <1>1, <2>1, BoundsAssumption
  <2>3. sock \in Conn
    BY <1>1, <2>1, BoundsAssumption DEF Conn
  <2> QED BY <2>1, <2>2, <2>3
<1>3. /\ peer' = peer
      /\ inbound' \in [Conn -> Seq(Answer)] /\ received' \in [Conn -> Seq(1 .. MaxTyped)]
      /\ granted' \in [Conn -> SUBSET Flag]
  BY <1>1, <1>2, DeliverIs, ZenonT(40) DEF netVars, Sound, TypeOK
<1> QED BY <1>1, <1>2, <1>3, ZenonT(40) DEF Sound, TypeOK, Sizes, connVars, userVars, recvVars, outVars

LEMMA ReceiverSound ==
    ASSUME Sound, NEW k \in Conn,
           ReceiverChecks(k) \/ Calls(k) \/ RecvEnds(k) \/ ReceiverCloses(k) \/ ServerCloses(k)
    PROVE  Sound'
<1>1. CASE ReceiverChecks(k)
  <2>1. /\ receiver' \in [Conn -> Closing \cup {"unborn", "check", "call", "recv", "append", "close",
                                                  "dead"}]
        /\ \A i, j \in Conn : receiver'[i] \in Closing /\ receiver'[j] \in Closing => i = j
    BY <1>1, ReceiverOutside DEF ReceiverChecks, ReceiverGoes, Sound, Closing
  <2> QED BY <1>1, <2>1 DEF ReceiverChecks, Sound, TypeOK, Sizes, connVars, userVars, sendVars, outVars, netVars
<1>2. CASE Calls(k)
  <2>1. /\ receiver' \in [Conn -> Closing \cup {"unborn", "check", "call", "recv", "append", "close",
                                                  "dead"}]
        /\ \A i, j \in Conn : receiver'[i] \in Closing /\ receiver'[j] \in Closing => i = j
    BY <1>2, ReceiverOutside DEF Calls, ReceiverGoes, Sound, Closing
  <2>2. reads' \in [Conn -> 0 .. MaxConns]
    <3>1. (IF shut THEN 0 ELSE sock) \in 0 .. MaxConns
      BY BoundsAssumption DEF Sound, TypeOK
    <3> QED BY <1>2, <3>1 DEF Calls, Sound, TypeOK
  <2> QED BY <1>2, <2>1, <2>2 DEF Calls, Sound, TypeOK, Sizes, connVars, userVars, sendVars, outVars, netVars
<1>3. CASE RecvEnds(k)
  BY <1>3, BoundsAssumption, SMTT(30) DEF RecvEnds, ReceiverGoes, Sound, TypeOK, Sizes, Closing, connVars, userVars, sendVars, outVars, netVars
<1>4. CASE ReceiverCloses(k)
  <2>1. PICK to \in Closing \cup {"check"} :
          fechar_conexao(receiver[k], to, "check") /\ receiver' = [receiver EXCEPT ![k] = to]
    BY <1>4 DEF ReceiverCloses
  <2>2. /\ status' \in {"open", "closed"} /\ sock' \in 0 .. MaxConns /\ shut' \in BOOLEAN
        /\ flags' \subseteq Flag
    BY <2>1, CloseIs DEF Sound
  <2>3. /\ receiver[k] \in Closing \/ \A j \in Conn : receiver[j] \notin Closing
        /\ UNCHANGED <<userVars, sendVars, rbuf, rsize, reads, got, outVars, netVars>>
    BY <1>4 DEF ReceiverCloses, StateFree
  <2>4. \A i, j \in Conn : receiver'[i] \in Closing /\ receiver'[j] \in Closing => i = j
    BY <2>1, <2>3 DEF Sound, TypeOK
  <2> QED BY <2>1, <2>2, <2>3, <2>4 DEF Sound, TypeOK, Sizes, userVars, sendVars, outVars, netVars
<1>5. CASE ServerCloses(k)
  BY <1>5, SMTT(30) DEF ServerCloses, Sound, TypeOK, Sizes, connVars, userVars, sendVars, recvVars, outVars
<1> QED BY <1>1, <1>2, <1>3, <1>4, <1>5

LEMMA RecvSound == ASSUME Sound, NEW k \in Conn, Recv(k) PROVE Sound'
<1> DEFINE j == reads[k]
           s == inbound[j]
<1>1. j \in Conn /\ s \in Seq(Answer) /\ s # <<>>
  <2>1. j # 0 /\ s # <<>>
    BY DEF Recv
  <2>2. j \in 0 .. MaxConns
    BY DEF Sound, TypeOK
  <2>3. j \in Conn
    BY <2>1, <2>2, BoundsAssumption DEF Conn
  <2> QED BY <2>1, <2>3 DEF Sound, TypeOK
<1>2. PICK n \in {1, Len(s)} :
        /\ got' = [got EXCEPT ![k] = SubSeq(s, 1, n)]
        /\ inbound' = [inbound EXCEPT ![j] = SubSeq(s, n + 1, Len(s))]
  BY DEF Recv
<1>3. SubSeq(s, 1, n) \in Seq(Answer) /\ SubSeq(s, n + 1, Len(s)) \in Seq(Answer)
  <2> HIDE DEF s
  <2>1. n \in 1 .. Len(s) /\ Len(s) \in Nat
    BY <1>1
  <2> QED BY <1>1, <2>1, SubSeqProperties
<1> HIDE DEF s
<1>4. got' \in [Conn -> Seq(Answer)] /\ inbound' \in [Conn -> Seq(Answer)]
  BY <1>1, <1>2, <1>3 DEF Sound, TypeOK
<1>5. /\ ReceiverGoes(k, "recv", "append") /\ reads' = [reads EXCEPT ![k] = 0]
      /\ UNCHANGED <<connVars, userVars, sendVars, rbuf, rsize, outVars, peer, received, granted>>
  BY DEF Recv
<1> QED BY <1>4, <1>5, BoundsAssumption DEF ReceiverGoes, Sound, TypeOK, Sizes, Closing, connVars, userVars, sendVars, outVars

LEMMA AppendsSound == ASSUME Sound, NEW k \in Conn, Appends(k) PROVE Sound'
<1>1. /\ ReceiverGoes(k, "append", "check") /\ output \notin {"decode", "apply"}
      /\ output' = IF output = "asleep" THEN "woken" ELSE output
      /\ rbuf' = rbuf \o got[k] /\ rsize' = Len(rbuf') /\ got' = [got EXCEPT ![k] = <<>>]
      /\ UNCHANGED <<connVars, userVars, sendVars, reads, shown, netVars>>
  BY DEF Appends, RecvFree, SignalOutput
<1>2. rbuf \o got[k] \in Seq(Answer) /\ Len(rbuf \o got[k]) = Len(rbuf) + Len(got[k])
      /\ Len(rbuf) \in Nat /\ Len(got[k]) \in Nat
  BY DEF Sound, TypeOK
<1> QED BY <1>1, <1>2, SMTT(30) DEF ReceiverGoes, Sound, TypeOK, Sizes, Closing, connVars, userVars, sendVars, netVars

-----------------------------------------------------------------------------
\* The output thread.

LEMMA OutputSound == ASSUME Sound, Output \/ OutputStirs PROVE Sound'
<1>1. CASE OutputLocks \/ OutputWakes \/ OutputStirs \/ Decode
  BY <1>1 DEF OutputLocks, OutputWakes, OutputStirs, Decode, OutputGoes, Sound, TypeOK, Sizes, connVars, userVars,
              sendVars, recvVars, netVars
<1>2. CASE Apply
  BY <1>2 DEF Apply, OutputGoes, Sound, TypeOK, Sizes, userVars, sendVars, recvVars, netVars, Flag
<1>3. CASE OutputUnlocks
  BY <1>3 DEF OutputUnlocks, OutputGoes, Sound, TypeOK, Sizes, connVars, userVars, sendVars, netVars
<1> QED BY <1>1, <1>2, <1>3 DEF Output

LEMMA NextSound == Sound /\ [Next]_vars => Sound'
<1> SUFFICES ASSUME Sound, [Next]_vars  PROVE Sound'
  OBVIOUS
<1>1. CASE UNCHANGED vars
  BY <1>1 DEF vars, Sound, TypeOK, Sizes, connVars, userVars, sendVars, recvVars, outVars, netVars
<1>2. CASE User \/ Input
  BY <1>2, ConnectSound, DisconnectSound, TypeSound, QueueSound DEF User, Input
<1>3. ASSUME NEW k \in Conn, Sender(k) \/ SenderStirs(k) \/ Receiver(k) \/ ServerCloses(k)
      PROVE  Sound'
  BY <1>3, SenderSound, SendOverSound, SendSound, ReceiverSound, RecvSound, AppendsSound
     DEF Sender, Receiver
<1> QED BY <1>1, <1>2, <1>3, OutputSound DEF Next

LEMMA AlwaysSound == Spec => []Sound
BY InitSound, NextSound, PTL DEF Spec

(* Every variable of the client keeps its type, one sending thread at a time  *)
(* holds send_mutex, and neither buffer's size exceeds its text.              *)
THEOREM ClientTypes == Spec => []TypeOK
BY AlwaysSound, PTL DEF Sound

-----------------------------------------------------------------------------
\* The threads of an open connection.

Idle == {"unborn", "dead"}

(* The socket is of the last connection or of none.  No connection after the  *)
(* last has threads, nor has the last before they are created; but an open    *)
(* one whose threads are created has them until it is closed.                 *)
Threads ==
    /\ sock \in {0, conns} /\ crossed \subseteq 1 .. conns
    /\ status = "open" => input \notin {"connecting", "opening"}
    /\ status = "open" \/ input \in {"connecting", "opening"} => conns # 0
    /\ \A k \in Conn :
        /\ k > conns \/ (k = conns /\ input \in {"connecting", "opening", "spawn"}) =>
                sender[k] = "unborn" /\ receiver[k] = "unborn"
        /\ k = conns /\ status = "open" /\ input # "spawn" =>
                sender[k] \notin Idle /\ receiver[k] \notin Idle

(* Whoever is past the write of the status in fechar_conexao finds it closed  *)
(* still, and nobody is in it while a connection is opened, unless that was   *)
(* begun in the middle of a receiver's fechar_conexao.  Until somebody is     *)
(* about to close it, then, an open connection has its socket.                *)
Sockets ==
    /\ input \in {"forget", "clear"} => status = "closed"
    /\ conns \notin crossed =>
        /\ input \in {"connecting", "opening"} => StateFree /\ sock = conns /\ ~shut
        /\ \A k \in Conn : receiver[k] \in {"forget", "clear"} => status = "closed"
        /\ status = "open" => sock = conns
        /\ status = "open" /\ input # "mark" /\ (\A k \in Conn : receiver[k] # "mark") =>
             /\ ~shut
             /\ receiver[conns] = "recv" => reads[conns] = conns

(* The text in the buffer rises, and nothing in it that is still to be sent   *)
(* has arrived on any connection, nor anything that is not typed yet; nothing *)
(* arrives on a connection that is not there yet.                             *)
Order ==
    /\ \A i \in 1 .. Len(sbuf) : sbuf[i][1] <= typed
    /\ \A i, j \in 1 .. Len(sbuf) : i < j => sbuf[i][1] < sbuf[j][1]
    /\ \A k \in Conn : \A m \in ToSet(received[k]) :
        /\ m <= typed
        /\ \A i \in 1 .. Len(sbuf) :
             (\A s \in Conn : sender[s] \in {"sending", "failed"} => sent[s] < i) => m < sbuf[i][1]
    /\ \A k \in Conn : k > conns => received[k] = <<>>

LEMMA InitThreads == Init => Threads /\ Sockets
BY DEF Init, Threads, Sockets, Conn

(* fechar_conexao opens nothing, and leaves the socket or makes it none.      *)
LEMMA CloseThreads ==
    ASSUME NEW from, NEW to, NEW return, return \notin Closing, fechar_conexao(from, to, return)
    PROVE  /\ status' \in {status, "closed"} /\ sock' \in {sock, 0}
           /\ from = "mark" => status' = "closed" /\ to = "forget"
           /\ from # "mark" => UNCHANGED status /\ to # "forget"
           /\ to \in {"forget", "clear"} => from \in {"mark", "forget"}
           /\ from # "shut" => to # "mark" /\ (shut' => shut)
           /\ from = "shut" => to = "mark"
           /\ from # "forget" => UNCHANGED sock
<1>1. CASE Asks(from, to, return)
  BY <1>1 DEF Asks, connVars, Closing
<1>2. CASE Writes(from, to, return)
  BY <1>2 DEF Writes, Closing
<1> QED BY <1>1, <1>2 DEF fechar_conexao

(* A step that opens no connection and starts or ends no thread.              *)
LEMMA StillThreads ==
    ASSUME Sound, Threads, UNCHANGED <<conns, crossed>>, status' \in {status, "closed"},
           sock' \in {sock, 0},
           input' \notin {"connecting", "opening"}, (input = "spawn") = (input' = "spawn"),
           \A k \in Conn : receiver'[k] = receiver[k] \/ (receiver[k] \notin Idle /\ receiver'[k] \notin Idle),
           \A k \in Conn : sender'[k] = sender[k] \/ (sender[k] \notin Idle /\ sender'[k] \notin Idle)
    PROVE  Threads'
BY DEF Sound, TypeOK, Threads, Idle, Conn

(* A step that touches neither the socket nor a receiver.                     *)
LEMMA StillSockets ==
    ASSUME Sound, Sockets, UNCHANGED <<sock, shut, conns, crossed, receiver, reads>>,
           status' \in {status, "closed"},
           input' \notin Closing, input # "mark",
           input' \in {"connecting", "opening"} => input = "connecting"
    PROVE  Sockets'
BY DEF Sound, TypeOK, Sockets, StateFree, Closing

LEMMA ConnectThreads ==
    ASSUME Sound, Threads, Sockets, Connect \/ Reaches \/ Connected \/ Refused \/ Spawn
    PROVE  Threads' /\ Sockets'
<1>1. CASE Connect
  <2>1. /\ input' = "connecting" /\ status = "closed" /\ conns' = conns + 1 /\ sock' = conns + 1
        /\ ~shut' /\ crossed' = IF StateFree THEN crossed ELSE crossed \cup {conns + 1}
        /\ UNCHANGED <<status, sender, receiver, reads>>
    BY <1>1 DEF Connect, InputGoes, sendVars, recvVars
  <2>2. conns \in Nat
    BY BoundsAssumption DEF Sound, TypeOK
  <2>3. ASSUME NEW k \in Conn, k >= conns + 1  PROVE sender[k] = "unborn" /\ receiver[k] = "unborn"
    BY <2>2, <2>3, BoundsAssumption DEF Threads, Conn
  <2>4. Threads'
    BY <2>1, <2>2, <2>3 DEF Threads, Conn
  <2>5. Sockets'
    BY <2>1, <2>2 DEF Sockets, StateFree, Threads
  <2> QED BY <2>4, <2>5
<1>2. CASE Reaches
  <2>1. /\ input = "connecting" /\ input' = "opening"
        /\ UNCHANGED <<status, sock, shut, conns, crossed, sender, receiver, reads>>
    BY <1>2 DEF Reaches, InputGoes, connVars, sendVars, recvVars
  <2> QED BY <2>1 DEF Threads, Sockets, StateFree, Sound, TypeOK, Conn
<1>3. CASE Connected
  <2>1. /\ input = "opening" /\ input' = "spawn" /\ status' = "open"
        /\ UNCHANGED <<sock, shut, conns, crossed, sender, receiver, reads>>
    BY <1>3 DEF Connected, InputGoes, sendVars, recvVars
  <2>2. Threads'
    BY <2>1, BoundsAssumption DEF Threads, Sound, TypeOK, Conn
  <2>3. Sockets'
    BY <2>1 DEF Sockets, StateFree, Closing, Threads, Sound, TypeOK, Conn
  <2> QED BY <2>2, <2>3
<1>4. CASE Refused
  <2>1. /\ input = "connecting" /\ input' = "prompt" /\ status' = "closed"
        /\ UNCHANGED <<sock, shut, conns, crossed, sender, receiver, reads>>
    BY <1>4 DEF Refused, InputGoes, sendVars, recvVars
  <2> QED BY <2>1 DEF Sockets, Threads, Sound, TypeOK, Conn
<1>5. CASE Spawn
  <2>1. /\ input = "spawn" /\ input' = "prompt"
        /\ sender' = [sender EXCEPT ![conns] = "check"]
        /\ receiver[conns] = "unborn" /\ receiver' = [receiver EXCEPT ![conns] = "check"]
        /\ UNCHANGED <<status, sock, shut, conns, crossed, reads>>
    BY <1>5 DEF Spawn, InputGoes, SenderGoes, ReceiverGoes, connVars
  <2>2. Threads'
    BY <2>1 DEF Sound, TypeOK, Threads, Conn, Idle
  <2>3. Sockets'
    BY <2>1 DEF Sound, TypeOK, Sockets, Conn
  <2> QED BY <2>2, <2>3
<1> QED BY <1>1, <1>2, <1>3, <1>4, <1>5

LEMMA DisconnectThreads ==
    ASSUME Sound, Threads, Sockets, Disconnect \/ InputCloses \/ Wake \/ ResetRecv \/ ResetSend
    PROVE  Threads' /\ Sockets'
<1>1. CASE Disconnect
  BY <1>1, StillThreads, StillSockets DEF Disconnect, InputGoes, Closing, connVars, sendVars, recvVars
<1>2. CASE InputCloses
  <2>1. /\ fechar_conexao(input, input', "wake")
        /\ UNCHANGED <<conns, crossed, sender, receiver, reads>>
    BY <1>2 DEF InputCloses, sendVars, recvVars
  <2>2. input' \in Closing \cup {"wake"} /\ input \in Closing \cup {"close"}
    BY <2>1, CloseIs DEF Sound
  <2>3. /\ status' \in {status, "closed"} /\ sock' \in {sock, 0}
        /\ input = "mark" => status' = "closed" /\ input' = "forget"
        /\ input # "mark" => UNCHANGED status /\ input' # "forget"
        /\ input' \in {"forget", "clear"} => input \in {"mark", "forget"}
        /\ input # "shut" => input' # "mark" /\ (shut' => shut)
        /\ input = "shut" => input' = "mark"
        /\ input # "forget" => UNCHANGED sock
    BY <2>1, CloseThreads DEF Closing
  <2>4. Threads'
    BY <2>1, <2>2, <2>3, StillThreads DEF Closing
  <2>5. Sockets'
    BY <2>1, <2>2, <2>3 DEF Sockets, Closing
  <2> QED BY <2>4, <2>5
<1>3. CASE Wake
  <2>1. \A k \in Conn : sender'[k] = sender[k] \/ (sender[k] \notin Idle /\ sender'[k] \notin Idle)
    BY <1>3, SignalIs DEF Wake, Sound, Idle
  <2> QED BY <1>3, <2>1, StillThreads, StillSockets DEF Wake, InputGoes, Closing, connVars, recvVars
<1>4. CASE ResetRecv
  BY <1>4, StillThreads, StillSockets DEF ResetRecv, InputGoes, Closing, connVars, sendVars
<1>5. CASE ResetSend
  BY <1>5, StillThreads, StillSockets DEF ResetSend, InputGoes, Closing, connVars, recvVars
<1> QED BY <1>1, <1>2, <1>3, <1>4, <1>5

LEMMA CommandThreads ==
    ASSUME Sound, Threads, Sockets, NEW kind \in Kind, Type(kind) \/ Queue(kind)
    PROVE  Threads' /\ Sockets'
<1>1. kind \notin Closing \cup {"prompt", "connecting", "opening", "spawn"}
  BY BoundsAssumption DEF Closing
<1>2. CASE Type(kind)
  <2>1. /\ input = "prompt" /\ input' = kind
        /\ UNCHANGED <<status, sock, shut, conns, crossed, sender, receiver, reads>>
    BY <1>2 DEF Type, InputGoes, connVars, sendVars, recvVars
  <2> QED BY <1>1, <2>1, StillThreads, StillSockets
<1>3. CASE Queue(kind)
  <2>1. \A k \in Conn : sender'[k] = sender[k] \/ (sender[k] \notin Idle /\ sender'[k] \notin Idle)
    BY <1>3, SignalIs DEF Queue, Sound, Idle
  <2>2. /\ input = kind /\ input' = "prompt"
        /\ UNCHANGED <<status, sock, shut, conns, crossed, receiver, reads>>
    BY <1>3 DEF Queue, InputGoes, connVars, recvVars
  <2> QED BY <1>1, <2>1, <2>2, StillThreads, StillSockets DEF Closing
<1> QED BY <1>2, <1>3

LEMMA SenderThreads ==
    ASSUME Sound, Threads, Sockets, NEW k \in Conn, Sender(k) \/ SenderStirs(k)
    PROVE  Threads' /\ Sockets'
<1>1. CASE SenderChecks(k)
  <2>1. /\ sender[k] = "check"
        /\ sender' = [sender EXCEPT ![k] = IF status = "open" THEN "lock" ELSE "dead"]
        /\ UNCHANGED <<status, sock, shut, input, conns, crossed, receiver, reads>>
    BY <1>1 DEF SenderChecks, SenderGoes, connVars, userVars, recvVars
  <2>2. Threads'
    BY <2>1 DEF Sound, TypeOK, Threads, Conn, Idle
  <2>3. Sockets'
    BY <2>1 DEF Sockets, StateFree
  <2> QED BY <2>2, <2>3
<1>2. ASSUME sender[k] \notin Idle,
             \E to \in {"asleep", "sending", "woken", "check", "failed"} : sender' = [sender EXCEPT ![k] = to],
             status' \in {status, "closed"},
             UNCHANGED <<sock, shut, input, conns, crossed, receiver, reads>>
      PROVE  Threads' /\ Sockets'
  <2>1. Threads'
    BY <1>2, SMTT(30) DEF Sound, TypeOK, Threads, Idle
  <2>2. Sockets'
    BY <1>2 DEF Sockets, StateFree
  <2> QED BY <2>1, <2>2
<1>3. CASE SenderLocks(k) \/ SenderWakes(k) \/ SenderStirs(k) \/ SendFails(k)
  BY <1>2, <1>3 DEF SenderLocks, SenderWakes, SenderStirs, SendFails, SenderGoes, Idle, connVars, userVars,
                    recvVars
<1>4. CASE Send(k)
  BY <1>4 DEF Send, Threads, Sockets, StateFree, connVars, userVars, recvVars
<1>5. CASE SendEnds(k) \/ SenderMarks(k)
  BY <1>2, <1>5 DEF SendEnds, SenderMarks, Sends_over, SenderGoes, Idle, connVars, userVars, recvVars
<1> QED BY <1>1, <1>3, <1>4, <1>5 DEF Sender

(* A receiver goes on outside fechar_conexao.                                 *)
LEMMA ReceiverGoesOn ==
    ASSUME Sound, Threads, Sockets, NEW k \in Conn, UNCHANGED <<connVars, userVars, sender>>,
           NEW to \in {"check", "call", "recv", "append", "close", "dead"},
           ReceiverGoes(k, receiver[k], to), receiver[k] \notin Closing \cup Idle,
           to = "dead" => status = "closed",
           \A j \in Conn : j # k => reads'[j] = reads[j],
           to = "recv" => reads'[k] = IF shut THEN 0 ELSE sock
    PROVE  Threads' /\ Sockets'
<1>1. receiver' = [receiver EXCEPT ![k] = to]
  BY DEF ReceiverGoes
<1>2. Threads'
  BY <1>1 DEF Threads, Sound, TypeOK, Idle, Conn, connVars, userVars
<1>3. /\ \A j \in Conn : receiver'[j] \in Closing <=> receiver[j] \in Closing
      /\ \A j \in Conn : receiver[j] \in Closing => receiver'[j] = receiver[j]
  BY <1>1 DEF Sound, TypeOK, Closing
<1>4. StateFree => StateFree'
  BY <1>3 DEF StateFree
<1>5. /\ (\A j \in Conn : receiver'[j] # "mark") => \A j \in Conn : receiver[j] # "mark"
      /\ \A j \in Conn : receiver'[j] \in {"forget", "clear"} => receiver[j] \in {"forget", "clear"}
  BY <1>3 DEF Closing
<1>6. ASSUME conns \notin crossed, status = "open", input # "mark", \A j \in Conn : receiver'[j] # "mark",
             receiver'[conns] = "recv"
      PROVE  reads'[conns] = conns
  <2>1. \A j \in Conn : receiver[j] # "mark"
    BY <1>5, <1>6
  <2>2. /\ sock = conns /\ ~shut
        /\ receiver[conns] = "recv" => reads[conns] = conns
    BY <1>6, <2>1 DEF Sockets
  <2>3. conns \in Conn
    BY <1>6, BoundsAssumption DEF Threads, Sound, TypeOK, Conn
  <2>4. CASE conns = k
    BY <1>1, <1>6, <2>2, <2>3, <2>4 DEF Sound, TypeOK
  <2>5. CASE conns # k
    BY <1>1, <1>6, <2>2, <2>3, <2>5, SMTT(30) DEF Sound, TypeOK
  <2> QED BY <2>4, <2>5
<1> QED BY <1>2, <1>4, <1>5, <1>6 DEF Sockets, connVars, userVars

LEMMA ReceiverThreads ==
    ASSUME Sound, Threads, Sockets, NEW k \in Conn, Receiver(k)
    PROVE  Threads' /\ Sockets'
<1>1. CASE ReceiverChecks(k)
  <2> DEFINE to == IF status = "open" THEN "call" ELSE "dead"
  <2>1. /\ ReceiverGoes(k, receiver[k], to) /\ receiver[k] = "check"
        /\ UNCHANGED <<connVars, userVars, sender, reads>>
    BY <1>1 DEF ReceiverChecks, ReceiverGoes, sendVars
  <2>2. to \in {"call", "dead"} /\ (to = "dead" => status = "closed")
    BY DEF Sound, TypeOK
  <2> HIDE DEF to
  <2> QED BY <2>1, <2>2, ReceiverGoesOn DEF Idle, Closing
<1>2. CASE Calls(k)
  BY <1>2, ReceiverGoesOn DEF Calls, ReceiverGoes, Idle, Closing, sendVars, Sound, TypeOK
<1>3. CASE Recv(k)
  BY <1>3, ReceiverGoesOn DEF Recv, ReceiverGoes, Idle, Closing, sendVars, Sound, TypeOK
<1>4. CASE RecvEnds(k)
  BY <1>4, ReceiverGoesOn DEF RecvEnds, ReceiverGoes, Idle, Closing, sendVars, Sound, TypeOK
<1>5. CASE Appends(k)
  BY <1>5, ReceiverGoesOn DEF Appends, ReceiverGoes, Idle, Closing, sendVars, Sound, TypeOK
<1>6. CASE ReceiverCloses(k)
  <2>1. PICK to \in Closing \cup {"check"} :
          fechar_conexao(receiver[k], to, "check") /\ receiver' = [receiver EXCEPT ![k] = to]
    BY <1>6 DEF ReceiverCloses
  <2>2. /\ UNCHANGED <<input, conns, crossed, sender, reads>>
        /\ receiver[k] \in Closing \cup {"close"}
    BY <1>6, <2>1, CloseIs DEF ReceiverCloses, userVars, sendVars, Sound
  <2>3. /\ status' \in {status, "closed"} /\ sock' \in {sock, 0}
        /\ receiver[k] = "mark" => status' = "closed" /\ to = "forget"
        /\ receiver[k] # "mark" => UNCHANGED status /\ to # "forget"
        /\ to \in {"forget", "clear"} => receiver[k] \in {"mark", "forget"}
        /\ receiver[k] # "shut" => to # "mark" /\ (shut' => shut)
        /\ receiver[k] = "shut" => to = "mark"
        /\ receiver[k] # "forget" => UNCHANGED sock
    BY <2>1, CloseThreads DEF Closing
  <2>4. Threads'
    BY <2>1, <2>2, <2>3, StillThreads, SMTT(30) DEF Closing, Idle, Sound, TypeOK, Threads
  <2>5. \A j \in Conn : receiver'[j] = IF j = k THEN to ELSE receiver[j]
    BY <2>1 DEF Sound, TypeOK
  <2>6. \A j \in Conn : receiver[j] \in Closing /\ receiver[k] \in Closing => j = k
    BY DEF Sound, TypeOK
  <2>7. receiver[k] = "close" => to # "mark" /\ to \notin {"forget", "clear"} /\ UNCHANGED <<status, sock>>
    BY <2>3
  <2>8. CASE conns \in crossed
    BY <2>2, <2>3, <2>4, <2>8 DEF Sockets
  <2>9. CASE conns \notin crossed
    <3>1. input \in {"connecting", "opening"} => StateFree' /\ UNCHANGED <<sock, shut>>
      <4> SUFFICES ASSUME input \in {"connecting", "opening"}  PROVE StateFree' /\ UNCHANGED <<sock, shut>>
        OBVIOUS
      <4>1. StateFree /\ status = "closed"
        BY <2>9 DEF Sockets, Threads, Sound, TypeOK
      <4>2. receiver[k] = "close"
        BY <2>2, <4>1 DEF StateFree
      <4>3. to = "check" /\ UNCHANGED <<sock, shut>>
        BY <2>1, <4>1, <4>2 DEF fechar_conexao, Asks, Writes, connVars
      <4> QED BY <2>5, <4>1, <4>3 DEF StateFree, Closing
    <3>2. \A j \in Conn : receiver'[j] \in {"forget", "clear"} => status' = "closed"
      <4> SUFFICES ASSUME NEW j \in Conn, receiver'[j] \in {"forget", "clear"}  PROVE status' = "closed"
        OBVIOUS
      <4>1. CASE j = k
        BY <2>3, <2>5, <2>9, <4>1 DEF Sockets
      <4>2. CASE j # k
        BY <2>3, <2>5, <2>9, <4>2 DEF Sockets
      <4> QED BY <4>1, <4>2
    <3>3. status' = "open" => sock' = conns
      <4>1. receiver[k] = "forget" => status' = "closed"
        BY <2>3, <2>9 DEF Sockets
      <4> QED BY <2>3, <2>9, <4>1 DEF Sockets
    <3>4. ASSUME status' = "open", input # "mark", \A j \in Conn : receiver'[j] # "mark"
          PROVE  ~shut' /\ (receiver'[conns] = "recv" => reads[conns] = conns)
      <4>1. status = "open" /\ receiver[k] # "mark" /\ to # "mark"
        BY <2>3, <2>5, <3>4
      <4>2. \A j \in Conn : receiver[j] # "mark"
        BY <2>5, <3>4, <4>1
      <4>3. receiver[k] # "shut"
        BY <2>3, <4>1
      <4>4. receiver'[conns] = "recv" => receiver[conns] = "recv"
        BY <2>1, <2>5 DEF Closing, Sound, TypeOK
      <4> QED BY <2>3, <2>9, <3>4, <4>1, <4>2, <4>3, <4>4 DEF Sockets
    <3> QED BY <2>2, <2>3, <2>4, <2>9, <3>1, <3>2, <3>3, <3>4 DEF Sockets
  <2> QED BY <2>4, <2>8, <2>9
<1> QED BY <1>1, <1>2, <1>3, <1>4, <1>5, <1>6 DEF Receiver

LEMMA NextThreads == Sound /\ Threads /\ Sockets /\ [Next]_vars => Threads' /\ Sockets'
<1> SUFFICES ASSUME Sound, Threads, Sockets, [Next]_vars  PROVE Threads' /\ Sockets'
  OBVIOUS
<1>1. CASE UNCHANGED <<status, sock, shut, input, conns, crossed, sender, receiver, reads>>
  BY <1>1 DEF Threads, Sockets, StateFree
<1>2. CASE Output \/ OutputStirs
  <2>1. UNCHANGED <<status, sock, shut, input, conns, crossed, sender, receiver, reads>>
    BY <1>2 DEF Output, OutputLocks, OutputWakes, OutputStirs, Decode, Apply, OutputUnlocks, connVars,
                userVars, sendVars, recvVars
  <2> QED BY <1>1, <2>1
<1>3. ASSUME NEW k \in Conn, ServerCloses(k)  PROVE Threads' /\ Sockets'
  <2>1. UNCHANGED <<status, sock, shut, input, conns, crossed, sender, receiver, reads>>
    BY <1>3 DEF ServerCloses, connVars, userVars, sendVars, recvVars
  <2> QED BY <1>1, <2>1
<1>4. CASE User \/ Input
  BY <1>4, ConnectThreads, DisconnectThreads, CommandThreads DEF User, Input
<1>5. CASE UNCHANGED vars
  BY <1>1, <1>5 DEF vars, connVars, userVars, sendVars, recvVars
<1> QED BY <1>2, <1>3, <1>4, <1>5, SenderThreads, ReceiverThreads DEF Next

LEMMA AlwaysThreads == Spec => [](Threads /\ Sockets)
BY InitThreads, NextThreads, AlwaysSound, PTL DEF Spec

(* While the user can type on an open connection, the threads that were       *)
(* created for it are alive, and until somebody is about to close it, its     *)
(* socket is there and its receiver on it: no end of an earlier connection,   *)
(* however late its threads notice it, takes them away, unless the /connect   *)
(* was typed in the middle of a receiver's fechar_conexao.                    *)
THEOREM OpenHasThreads == Spec => []OpenIsServed
<1>1. Sound /\ Threads /\ Sockets => OpenIsServed
  <2> SUFFICES ASSUME Sound, Threads, Sockets, status = "open", input \in Kind \cup {"prompt"}
               PROVE  OpenIsServed
    BY DEF OpenIsServed
  <2>1. input \notin {"spawn", "mark"} /\ conns \in Conn
    BY BoundsAssumption, SMTT(30) DEF Sound, TypeOK, Threads, Conn
  <2> QED BY <2>1 DEF Threads, Sockets, Idle, OpenIsServed
<1> QED BY <1>1, AlwaysSound, AlwaysThreads, PTL

-----------------------------------------------------------------------------
\* The order in which commands arrive.

InOrder == Order /\ CommandsInOrder

LEMMA InitOrder == Init => InOrder
BY DEF Init, InOrder, Order, CommandsInOrder, Increasing, ToSet

(* What has arrived is less than what will be sent from place i on, if no     *)
(* sender is to send from before it.                                          *)
Ahead(i) == \A s \in Conn : sender[s] \in {"sending", "failed"} => sent[s] < i

(* A step in which nothing is typed, sent or given up.                        *)
LEMMA StillOrder ==
    ASSUME Sound, InOrder, UNCHANGED <<sbuf, typed, received>>, conns' \in {conns, conns + 1},
           \A s \in Conn : sender[s] \in {"sending", "failed"} =>
                sender'[s] \in {"sending", "failed"} /\ sent'[s] = sent[s]
    PROVE  InOrder'
<1>1. CommandsInOrder'
  BY DEF InOrder, CommandsInOrder
<1>2. \A i : Ahead(i)' => Ahead(i)
  BY DEF Ahead
<1>3. ASSUME NEW k \in Conn, NEW m \in ToSet(received[k])
      PROVE  m <= typed /\ \A i \in 1 .. Len(sbuf) : Ahead(i)' => m < sbuf[i][1]
  BY <1>2 DEF InOrder, Order, Ahead
<1>4. \A k \in Conn : k > conns' => k > conns
  BY BoundsAssumption DEF Sound, TypeOK, Conn
<1> QED BY <1>1, <1>3, <1>4 DEF InOrder, Order, Ahead

LEMMA ReceivedAre ==
    ASSUME Sound, NEW k \in Conn
    PROVE  /\ received[k] \in Seq(1 .. MaxTyped) /\ received[k] \in Seq(Int)
           /\ ToSet(received[k]) \subseteq Int
<1>1. received[k] \in Seq(1 .. MaxTyped)
  BY DEF Sound, TypeOK
<1>2. \A m \in 1 .. MaxTyped : m \in Int
  BY BoundsAssumption
<1>3. ASSUME NEW i \in 1 .. Len(received[k])  PROVE received[k][i] \in Int
  <2>1. received[k][i] \in 1 .. MaxTyped
    BY <1>1, ElementOfSeq
  <2> QED BY <1>2, <2>1
<1>4. /\ Len(received[k]) \in Nat /\ DOMAIN received[k] = 1 .. Len(received[k])
      /\ received[k] = [i \in 1 .. Len(received[k]) |-> received[k][i]]
  BY <1>1
<1>5. received[k] \in Seq(Int)
  BY <1>3, <1>4
<1> QED BY <1>1, <1>3, <1>4, <1>5 DEF ToSet

LEMMA TextIs ==
    ASSUME Sound, NEW i \in 1 .. Len(sbuf)
    PROVE  sbuf[i][1] \in Int /\ Len(sbuf) \in Nat
<1>1. sbuf[i] \in (1 .. MaxTyped) \X Kind
  BY DEF Sound, TypeOK
<1> QED BY <1>1, BoundsAssumption DEF Sound, TypeOK

(* A new command is behind everything.                                        *)
LEMMA QueueOrder == ASSUME Sound, InOrder, NEW kind \in Kind, Queue(kind) PROVE InOrder'
<1> DEFINE command == <<typed + 1, kind>>
<1>1. /\ sbuf' = Buffered(kind) /\ typed' = typed + 1 /\ typed < MaxTyped
      /\ \A s \in Conn : sender[s] \notin {"sending", "failed"}
      /\ UNCHANGED <<conns, received>>
  BY DEF Queue, InputGoes, SendFree, netVars, Sound, Sizes
<1>2. typed \in Nat /\ sbuf \in Seq((1 .. MaxTyped) \X Kind) /\ Len(sbuf) \in Nat
  BY BoundsAssumption DEF Sound, TypeOK
<1>3. \A k \in Conn : \A m \in ToSet(received[k]) :
        /\ m \in Int /\ m <= typed
        /\ \A i \in 1 .. Len(sbuf) : m < sbuf[i][1]
  BY <1>1, ReceivedAre DEF InOrder, Order
<1>4. CommandsInOrder'
  BY <1>1 DEF InOrder, CommandsInOrder
<1>5. CASE sbuf' = <<command>>
  <2>1. Len(sbuf') = 1 /\ sbuf'[1][1] = typed + 1
    BY <1>5
  <2>2. \A i \in 1 .. Len(sbuf') : sbuf'[i][1] = typed + 1 /\ i = 1
    BY <2>1
  <2>3. /\ \A i \in 1 .. Len(sbuf') : sbuf'[i][1] <= typed'
        /\ \A i, j \in 1 .. Len(sbuf') : i < j => sbuf'[i][1] < sbuf'[j][1]
    BY <1>1, <1>2, <2>1, <2>2
  <2>4. ASSUME NEW k \in Conn, NEW m \in ToSet(received[k])
        PROVE  m <= typed' /\ \A i \in 1 .. Len(sbuf') : m < sbuf'[i][1]
    <3>1. m \in Int /\ m <= typed
      BY <1>3
    <3> QED BY <1>1, <1>2, <2>2, <3>1
  <2>5. \A k \in Conn : k > conns' => received'[k] = <<>>
    BY <1>1 DEF InOrder, Order
  <2> QED BY <1>1, <1>4, <2>3, <2>4, <2>5 DEF InOrder, Order
<1>6. CASE sbuf' = Append(sbuf, command)
  <2>1. Len(sbuf') = Len(sbuf) + 1 /\ sbuf'[Len(sbuf) + 1][1] = typed + 1
        /\ \A i \in 1 .. Len(sbuf) : sbuf'[i] = sbuf[i]
    BY <1>2, <1>6
  <2>2. \A i \in 1 .. Len(sbuf) : sbuf[i][1] \in Int /\ sbuf[i][1] <= typed
    BY TextIs DEF InOrder, Order
  <2>3. \A i \in 1 .. Len(sbuf') : sbuf'[i][1] <= typed'
    BY <1>1, <1>2, <2>1, <2>2, SMTT(30)
  <2>4. ASSUME NEW i \in 1 .. Len(sbuf'), NEW j \in 1 .. Len(sbuf'), i < j
        PROVE  sbuf'[i][1] < sbuf'[j][1]
    <3>1. i \in 1 .. Len(sbuf)
      BY <1>2, <2>1, <2>4
    <3>2. CASE j \in 1 .. Len(sbuf)
      BY <2>1, <2>4, <3>1, <3>2 DEF InOrder, Order
    <3>3. CASE j = Len(sbuf) + 1
      BY <1>2, <2>1, <2>2, <3>1, <3>3
    <3> QED BY <1>2, <2>1, <3>2, <3>3
  <2>5. ASSUME NEW k \in Conn, NEW m \in ToSet(received[k])
        PROVE  m <= typed' /\ \A i \in 1 .. Len(sbuf') : m < sbuf'[i][1]
    <3>1. m \in Int /\ m <= typed /\ \A i \in 1 .. Len(sbuf) : m < sbuf[i][1]
      BY <1>3
    <3>2. ASSUME NEW i \in 1 .. Len(sbuf')  PROVE m < sbuf'[i][1]
      <4>1. i \in 1 .. Len(sbuf) \/ i = Len(sbuf) + 1
        BY <1>2, <2>1
      <4> QED BY <1>2, <2>1, <3>1, <4>1
    <3> QED BY <1>1, <1>2, <3>1, <3>2
  <2>6. \A k \in Conn : k > conns' => received'[k] = <<>>
    BY <1>1 DEF InOrder, Order
  <2> QED BY <1>1, <1>4, <2>3, <2>4, <2>5, <2>6 DEF InOrder, Order
<1> QED BY <1>1, <1>5, <1>6, BufferedIs

LEMMA AppendIncreases ==
    ASSUME NEW s \in Seq(Int), Increasing(s), NEW n \in Int, \A m \in ToSet(s) : m < n
    PROVE  /\ Increasing(Append(s, n))
           /\ ToSet(Append(s, n)) = ToSet(s) \cup {n}
<1>1. /\ DOMAIN s = 1 .. Len(s) /\ Len(s) \in Nat
      /\ DOMAIN Append(s, n) = 1 .. Len(s) + 1
      /\ \A i \in 1 .. Len(s) : Append(s, n)[i] = s[i]
      /\ Append(s, n)[Len(s) + 1] = n
  OBVIOUS
<1> DEFINE t == Append(s, n)
<1>2. \A i \in 1 .. Len(s) : s[i] < n
  BY <1>1 DEF ToSet
<1> HIDE DEF t
<1>3. ASSUME NEW i \in 1 .. Len(s) + 1, NEW j \in 1 .. Len(s) + 1, i < j  PROVE t[i] < t[j]
  <2>1. i \in 1 .. Len(s)
    BY <1>1, <1>3
  <2>2. CASE j \in 1 .. Len(s)
    BY <1>1, <1>3, <2>1, <2>2 DEF Increasing, t
  <2>3. CASE j = Len(s) + 1
    BY <1>1, <1>2, <2>1, <2>3 DEF t
  <2> QED BY <1>1, <2>2, <2>3
<1>4. ToSet(t) = ToSet(s) \cup {n}
  <2>1. \A i \in DOMAIN t : t[i] \in ToSet(s) \cup {n}
    BY <1>1 DEF ToSet, t
  <2>2. \A i \in DOMAIN s : i \in DOMAIN t /\ t[i] = s[i]
    BY <1>1 DEF t
  <2>3. Len(s) + 1 \in DOMAIN t /\ t[Len(s) + 1] = n
    BY <1>1 DEF t
  <2> QED BY <2>1, <2>2, <2>3 DEF ToSet
<1> QED BY <1>1, <1>3, <1>4 DEF Increasing, t

(* What is sent is ahead of everything that has arrived, and goes to the last *)
(* connection.                                                                *)
LEMMA SendOrder == ASSUME Sound, Threads, InOrder, NEW k \in Conn, Send(k) PROVE InOrder'
<1> DEFINE p == sent[k] + 1
           n == sbuf[p][1]
<1>1. /\ sender[k] = "sending" /\ sent[k] < ssize /\ sock # 0
      /\ sent' = [sent EXCEPT ![k] = sent[k] + 1]
      /\ UNCHANGED <<sbuf, sender, typed, conns>>
      /\ \/ Deliver(sock, sbuf[p])
         \/ UNCHANGED received
  BY DEF Send, userVars, netVars
<1>2. /\ p \in 1 .. Len(sbuf) /\ sock \in Conn /\ sbuf[p] \in (1 .. MaxTyped) \X Kind
      /\ sent[k] \in Nat
  <2>1. /\ sbuf \in Seq((1 .. MaxTyped) \X Kind) /\ ssize \in 0 .. Len(sbuf) /\ Len(sbuf) \in Nat
        /\ sent[k] \in 0 .. MaxTyped /\ sock \in 0 .. MaxConns
    BY DEF Sound, TypeOK
  <2>2. p \in 1 .. Len(sbuf) /\ sock \in Conn /\ sent[k] \in Nat
    BY <1>1, <2>1, BoundsAssumption, SMTT(30) DEF Conn
  <2> QED BY <2>1, <2>2
<1>3. sock = conns /\ n \in Int /\ n <= typed
  BY <1>1, <1>2, TextIs DEF Threads, InOrder, Order
<1>4. ASSUME NEW i \in 1 .. Len(sbuf)  PROVE Ahead(i) <=> p <= i
  <2>1. \A s \in Conn : sender[s] \in {"sending", "failed"} <=> s = k
    BY <1>1 DEF Sound, TypeOK
  <2>2. Ahead(i) <=> sent[k] < i
    BY <2>1 DEF Ahead
  <2> QED BY <1>2, <2>2
<1>5. ASSUME NEW i \in 1 .. Len(sbuf)  PROVE Ahead(i)' <=> p < i
  <2>1. \A s \in Conn : sender'[s] \in {"sending", "failed"} <=> s = k
    BY <1>1 DEF Sound, TypeOK
  <2>2. sent'[k] = p
    BY <1>1 DEF Sound, TypeOK
  <2> HIDE DEF p
  <2>3. Ahead(i)' <=> \A s \in Conn : sender'[s] \in {"sending", "failed"} => sent'[s] < i
    BY DEF Ahead
  <2> QED BY <2>1, <2>2, <2>3
<1> HIDE DEF p
<1>6. ASSUME NEW j \in Conn, NEW m \in ToSet(received[j])
      PROVE  /\ m \in Int /\ m < n /\ m <= typed
             /\ \A i \in 1 .. Len(sbuf) : p < i => m < sbuf[i][1]
  <2>1. m \in Int
    BY ReceivedAre
  <2>2. m <= typed /\ \A i \in 1 .. Len(sbuf) : Ahead(i) => m < sbuf[i][1]
    BY DEF InOrder, Order, Ahead
  <2>3. \A i \in 1 .. Len(sbuf) : p <= i => m < sbuf[i][1]
    BY <1>4, <2>2
  <2> QED BY <1>2, <2>1, <2>2, <2>3
<1>7. \A i \in 1 .. Len(sbuf) : p < i => n < sbuf[i][1]
  BY <1>2 DEF InOrder, Order
<1> HIDE DEF n
<1>8. CASE UNCHANGED received
  <2>1. CommandsInOrder'
    BY <1>8 DEF InOrder, CommandsInOrder
  <2>2. \A j \in Conn : \A m \in ToSet(received'[j]) :
          m <= typed' /\ \A i \in 1 .. Len(sbuf') : Ahead(i)' => m < sbuf'[i][1]
    BY <1>1, <1>5, <1>6, <1>8
  <2> QED BY <1>1, <1>8, <2>1, <2>2 DEF InOrder, Order, Ahead
<1>9. CASE received' = [received EXCEPT ![sock] = Append(received[sock], n)]
  <2>1. /\ Increasing(Append(received[sock], n))
        /\ ToSet(Append(received[sock], n)) = ToSet(received[sock]) \cup {n}
    BY <1>2, <1>3, <1>6, ReceivedAre, AppendIncreases DEF InOrder, CommandsInOrder
  <2>2. ASSUME NEW j \in Conn
        PROVE  /\ received'[j] = IF j = sock THEN Append(received[sock], n) ELSE received[j]
               /\ ToSet(received'[j]) = IF j = sock THEN ToSet(received[sock]) \cup {n}
                                                    ELSE ToSet(received[j])
    BY <1>9, <2>1 DEF Sound, TypeOK
  <2>3. \A j \in Conn : Increasing(received'[j])
    BY <2>1, <2>2 DEF InOrder, CommandsInOrder
  <2>4. ASSUME NEW i \in Conn, NEW j \in Conn, i < j,
               NEW a \in ToSet(received'[i]), NEW b \in ToSet(received'[j])
        PROVE  a < b
    <3>1. i # sock
      <4>1. received[j] = <<>> \/ j = sock \/ i # sock
        BY <1>3, <2>4 DEF InOrder, Order
      <4>2. j > conns => ToSet(received[j]) = {}
        BY DEF InOrder, Order, ToSet
      <4> QED BY <1>2, <1>3, <2>2, <2>4, <4>1, <4>2 DEF Conn
    <3>2. CASE j = sock /\ b = n
      BY <1>6, <2>2, <2>4, <3>1, <3>2
    <3>3. CASE b \in ToSet(received[j])
      BY <2>2, <2>4, <3>1, <3>3 DEF InOrder, CommandsInOrder
    <3> QED BY <2>2, <3>2, <3>3
  <2>5. ASSUME NEW j \in Conn, NEW m \in ToSet(received'[j])
        PROVE  m <= typed' /\ \A i \in 1 .. Len(sbuf') : Ahead(i)' => m < sbuf'[i][1]
    BY <1>1, <1>3, <1>5, <1>6, <1>7, <2>2
  <2>6. \A j \in Conn : j > conns' => received'[j] = <<>>
    BY <1>1, <1>2, <1>3, <2>2 DEF InOrder, Order, Conn
  <2> QED BY <1>1, <2>3, <2>4, <2>5, <2>6 DEF InOrder, Order, CommandsInOrder, Ahead
<1>10. Deliver(sock, sbuf[p]) => received' = [received EXCEPT ![sock] = Append(received[sock], n)]
  BY DEF Deliver, n
<1> QED BY <1>1, <1>8, <1>9, <1>10 DEF p

LEMMA NextOrder == Sound /\ Threads /\ InOrder /\ [Next]_vars => InOrder'
<1> SUFFICES ASSUME Sound, Threads, InOrder, [Next]_vars  PROVE InOrder'
  OBVIOUS
<1> DEFINE Still == UNCHANGED <<sbuf, typed, received, conns, sender, sent>>
<1>1. CASE Still
  BY <1>1, StillOrder
<1>2. CASE Connect \/ Reaches \/ Connected \/ Refused \/ Disconnect \/ InputCloses \/ ResetRecv
            \/ ResetSend \/ \E kind \in Kind : Type(kind)
  <2>1. UNCHANGED <<sbuf, typed, received, sender, sent>> /\ conns' \in {conns, conns + 1}
    BY <1>2 DEF Connect, Reaches, Connected, Refused, Disconnect, InputCloses, ResetRecv, ResetSend, Type,
                sendVars, netVars
  <2> QED BY <2>1, StillOrder
<1>3. CASE Spawn
  <2>1. /\ UNCHANGED <<sbuf, typed, received, conns, sent>>
        /\ sender[conns] = "unborn" /\ sender' = [sender EXCEPT ![conns] = "check"]
    BY <1>3 DEF Spawn, SenderGoes, netVars
  <2> QED BY <2>1, StillOrder DEF Sound, TypeOK
<1>4. CASE Wake
  <2>1. UNCHANGED <<sbuf, typed, received, conns, sent>> /\ \A k \in Conn : sender[k] \notin {"sending", "failed"}
    BY <1>4 DEF Wake, SendFree, netVars
  <2> QED BY <2>1, StillOrder
<1>5. CASE User \/ Input
  BY <1>2, <1>3, <1>4, <1>5, QueueOrder DEF User, Input
<1>6. CASE Output \/ OutputStirs \/ UNCHANGED vars
  BY <1>1, <1>6 DEF Output, OutputLocks, OutputWakes, OutputStirs, Decode, Apply, OutputUnlocks, vars,
                    userVars, sendVars, netVars
<1>7. ASSUME NEW k \in Conn, Receiver(k) \/ ServerCloses(k)  PROVE InOrder'
  BY <1>1, <1>7 DEF Receiver, ReceiverChecks, Calls, Recv, RecvEnds, ReceiverCloses, Appends, ServerCloses,
                    userVars, sendVars, netVars
<1>10. ASSUME NEW k \in Conn, SendFails(k)  PROVE InOrder'
  <2>1. /\ UNCHANGED <<sbuf, typed, received, conns, sent>>
        /\ sender' = [sender EXCEPT ![k] = "failed"] /\ sender[k] = "sending"
    BY <1>10 DEF SendFails, SenderGoes, userVars, netVars
  <2> QED BY <2>1, StillOrder DEF Sound, TypeOK
<1>8. ASSUME NEW k \in Conn, SenderChecks(k) \/ SenderLocks(k) \/ SenderWakes(k) \/ SenderStirs(k)
      PROVE  InOrder'
  <2>1. /\ UNCHANGED <<sbuf, typed, received, conns, sent>> /\ sender[k] \notin {"sending", "failed"}
        /\ \E to : sender' = [sender EXCEPT ![k] = to]
    BY <1>8 DEF SenderChecks, SenderLocks, SenderWakes, SenderStirs, SenderGoes, userVars, netVars
  <2> QED BY <2>1, StillOrder DEF Sound, TypeOK
<1>9. ASSUME NEW k \in Conn, SendEnds(k) \/ SenderMarks(k)  PROVE InOrder'
  <2>1. sbuf' = <<>> /\ UNCHANGED <<typed, received, conns>>
    BY <1>9 DEF SendEnds, SenderMarks, Sends_over, userVars, netVars
  <2>2. \A i : i \notin 1 .. Len(<<>>)
    OBVIOUS
  <2> QED BY <2>1, <2>2 DEF InOrder, Order, CommandsInOrder
<1> QED BY <1>5, <1>6, <1>7, <1>8, <1>9, <1>10, SendOrder DEF Next, Sender

(* Commands arrive in the order in which they were typed, each at most once,  *)
(* on one connection and from one to the next, although a buffer outlives its *)
(* connection, a disconnect keeps its text, and senders of several            *)
(* connections, woken whenever they like, may be alive and share it.          *)
THEOREM CommandsArriveInOrder == Spec => []CommandsInOrder
<1>1. InOrder => CommandsInOrder
  BY DEF InOrder
<1> QED BY <1>1, AlwaysSound, AlwaysThreads, InitOrder, NextOrder, PTL DEF Spec

=============================================================================
