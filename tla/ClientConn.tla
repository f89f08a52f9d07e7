------------------------------ MODULE ClientConn ------------------------------
(***************************************************************************)
(* The client's connection (chat.cpp) and the threads around it: the input  *)
(* and output threads (main.cpp), which live as long as the program, and    *)
(* the sending and receiving thread that every connection starts anew.      *)
(*                                                                         *)
(* Threads share one relay_chat.  send_mutex guards the buffer of commands  *)
(* and recv_mutex that of answers.  The status of the connection, its       *)
(* socket and the user's state are read without a mutex; state_mutex is     *)
(* taken by receiving and sending threads to write them, but not by the     *)
(* input and output threads, which write them too, so that every access to  *)
(* the status or the socket is a step.  A mutex is held across steps by     *)
(* senders (send_mutex, while they send), by the output thread (recv_mutex, *)
(* while it decodes) and by a receiver that closes (state_mutex).  Sizes    *)
(* are in commands and answers, as if all were as long; recv returns whole  *)
(* answers.                                                                 *)
(*                                                                         *)
(* The server and the network are what the client sees of them: commands    *)
(* arrive in order and are answered, the server closes when it wants (what  *)
(* it sends unasked does here nothing that an answer does not).  A thread   *)
(* that is blocked in recv when another closes the socket stays blocked, as *)
(* on Linux, and is still given what arrives.                               *)
(*                                                                         *)
(* The program ends at /quit, and when a send raises SIGPIPE, which the     *)
(* client does not ignore: then a behaviour goes no further.                *)
(***************************************************************************)
EXTENDS Naturals, SequencesExt

CONSTANTS
    MaxConns,    \* bound on the connections the user opens
    MaxTyped,    \* bound on the commands the user types
    Kind,        \* the kinds of commands the user of an instance types
    Restless     \* the threads whose pthread_cond_wait may return without a
                 \* signal: senders, by connection, and 0 for the output

ASSUME BoundsAssumption ==
    /\ MaxConns \in Nat /\ MaxTyped \in Nat
    /\ Kind \subseteq {"ping", "nick", "join", "message"}
    /\ Restless \subseteq 0 .. MaxConns

VARIABLES
    status,      \* connection_status
    sock,        \* network_socket: the number of a connection, or 0 for -1
    shut,        \* the descriptor in network_socket has been closed
    flags,       \* which of has_nick and has_channel are true
    input,       \* where the input thread is; a kind while it is to send one
    conns,       \* connections opened so far
    crossed,     \* history: those opened in the middle of a receiver's close
    typed,       \* commands typed so far
    sbuf,        \* the text in send_buff up to its first NUL, as commands
    ssize,       \* send_buff_size, in commands
    sender,      \* sender[k]: where the sending thread of connection k is
    sent,        \* sent[k]: "it", the commands it has sent of this buffer
    receiver,    \* receiver[k]: where the receiving thread of connection k is
    reads,       \* reads[k]: the connection it is blocked in recv on
    got,         \* got[k]: server_response
    rbuf,        \* the text in recv_buff, as answers
    rsize,       \* recv_buff_size, in answers
    output,      \* where the output thread is
    shown,       \* buffer_it: the answers it has decoded of this buffer
    peer,        \* peer[k]: the server's end of connection k
    inbound,     \* inbound[k]: answers on their way
    received,    \* received[k]: the numbers of the commands that arrived
    granted      \* granted[k]: what the server holds of its client

connVars == <<status, sock, shut, flags>>
userVars == <<input, conns, crossed, typed>>
sendVars == <<sbuf, ssize, sender, sent>>
recvVars == <<rbuf, rsize, receiver, reads, got>>
outVars == <<output, shown>>
netVars == <<peer, inbound, received, granted>>
vars == <<connVars, userVars, sendVars, recvVars, outVars, netVars>>

Conn == 1 .. MaxConns
Flag == {"nick", "channel"}
Answer == {"nick", "channel", "text"}

\* Where a thread is in fechar_conexao once it has found the status open.
Closing == {"socket", "shut", "mark", "forget", "clear"}

\* Who is to lock waits.  The input thread holds no mutex from step to step.
SendFree == \A k \in Conn : sender[k] \notin {"sending", "failed"}
RecvFree == output \notin {"decode", "apply"}
StateFree == \A k \in Conn : receiver[k] \notin Closing

Init ==
    /\ status = "closed" /\ sock = 0 /\ shut = FALSE /\ flags = {}
    /\ input = "prompt" /\ conns = 0 /\ crossed = {} /\ typed = 0
    /\ sbuf = <<>> /\ ssize = 0
    /\ sender = [k \in Conn |-> "unborn"] /\ sent = [k \in Conn |-> 0]
    /\ rbuf = <<>> /\ rsize = 0
    /\ receiver = [k \in Conn |-> "unborn"] /\ reads = [k \in Conn |-> 0]
    /\ got = [k \in Conn |-> <<>>]
    /\ output = "lock" /\ shown = 0
    /\ peer = [k \in Conn |-> "none"] /\ inbound = [k \in Conn |-> <<>>]
    /\ received = [k \in Conn |-> <<>>] /\ granted = [k \in Conn |-> {}]

InputGoes(from, to) == input = from /\ input' = to
SenderGoes(k, from, to) == sender[k] = from /\ sender' = [sender EXCEPT ![k] = to]
ReceiverGoes(k, from, to) ==
    receiver[k] = from /\ receiver' = [receiver EXCEPT ![k] = to]
OutputGoes(from, to) == output = from /\ output' = to

(* fechar_conexao: a thread goes on in it from one access to the next, and    *)
(* leaves it at the first test that fails or after the last write (the flags  *)
(* are one step: each is written by nobody else but the output thread).       *)
Asks(from, to, return) ==
    /\ \/ from = "close"  /\ to = IF status = "closed" THEN return ELSE "socket"
       \/ from = "socket" /\ to = IF sock = 0 THEN return ELSE "shut"
    /\ UNCHANGED connVars

Writes(from, to, return) ==
    \/ /\ from = "shut" /\ to = "mark"
       /\ shut' = (sock # 0)
       /\ UNCHANGED <<status, sock, flags>>
    \/ /\ from = "mark" /\ to = "forget"
       /\ status' = "closed"
       /\ UNCHANGED <<sock, shut, flags>>
    \/ /\ from = "forget" /\ to = "clear"
       /\ sock' = 0 /\ shut' = FALSE
       /\ UNCHANGED <<status, flags>>
    \/ /\ from = "clear" /\ to = return
       /\ flags' = {}
       /\ UNCHANGED <<status, sock, shut>>

fechar_conexao(from, to, return) == Asks(from, to, return) \/ Writes(from, to, return)

(* pthread_cond_signal(cond_send_waiting)                                     *)
SignalSender ==
    IF \A k \in Conn : sender[k] # "asleep" THEN UNCHANGED sender
    ELSE \E k \in Conn : SenderGoes(k, "asleep", "woken")

-----------------------------------------------------------------------------
\* The input thread: /connect.

(* The socket is a new one before connect is called.  The status can have     *)
(* been tested at any time since it was closed: nobody else opens.            *)
Connect ==
    /\ InputGoes("prompt", "connecting")
    /\ status = "closed"
    /\ conns < MaxConns
    /\ conns' = conns + 1
    /\ sock' = conns + 1 /\ shut' = FALSE
    /\ crossed' = IF StateFree THEN crossed ELSE crossed \cup {conns + 1}
    /\ UNCHANGED <<status, flags, typed, sendVars, recvVars, outVars, netVars>>

(* connect succeeds, on what network_socket is by now.                        *)
Reaches ==
    /\ InputGoes("connecting", "opening")
    /\ sock # 0 /\ ~shut
    /\ peer' = [peer EXCEPT ![sock] = "open"]
    /\ UNCHANGED <<connVars, conns, crossed, typed, sendVars, recvVars, outVars,
                   inbound, received, granted>>

Connected ==
    /\ InputGoes("opening", "spawn")
    /\ status' = "open"
    /\ UNCHANGED <<sock, shut, flags, conns, crossed, typed, sendVars, recvVars,
                   outVars, netVars>>

(* The socket is not closed when connect fails.                               *)
Refused ==
    /\ InputGoes("connecting", "prompt")
    /\ status' = "closed"
    /\ UNCHANGED <<sock, shut, flags, conns, crossed, typed, sendVars, recvVars,
                   outVars, netVars>>

Spawn_once ==    \* mutant: no second sender while the last one has not ended
    /\ InputGoes("spawn", "prompt")
    /\ ReceiverGoes(conns, "unborn", "check")
    /\ IF \E k \in Conn : sender[k] \notin {"unborn", "dead"} THEN UNCHANGED sender
       ELSE SenderGoes(conns, "unborn", "check")
    /\ UNCHANGED <<connVars, conns, crossed, typed, sbuf, ssize, sent, rbuf, rsize, reads,
                   got, outVars, netVars>>

(* The receiver's creation and the sender's are one step: a thread that is   *)
(* created does nothing before its check that others see.                     *)
Spawn ==
    /\ InputGoes("spawn", "prompt")
    /\ ReceiverGoes(conns, "unborn", "check")
    /\ SenderGoes(conns, "unborn", "check")
    /\ UNCHANGED <<connVars, conns, crossed, typed, sbuf, ssize, sent, rbuf, rsize, reads,
                   got, outVars, netVars>>

-----------------------------------------------------------------------------
\* The input thread: /disconnect.

Disconnect ==
    /\ InputGoes("prompt", "close")
    /\ status = "open"
    /\ UNCHANGED <<connVars, conns, crossed, typed, sendVars, recvVars, outVars, netVars>>

(* fechar_conexao, without a mutex, and it may find nothing to do.            *)
InputCloses ==
    /\ fechar_conexao(input, input', "wake")
    /\ UNCHANGED <<conns, crossed, typed, sendVars, recvVars, outVars, netVars>>

(* One sender is woken, to end.                                               *)
Wake ==
    /\ InputGoes("wake", "reset_recv")
    /\ SendFree
    /\ SignalSender
    /\ UNCHANGED <<connVars, conns, crossed, typed, sbuf, ssize, sent, recvVars,
                   outVars, netVars>>

(* The sizes of the buffers are set to 0; their text stays.                   *)
ResetRecv ==
    /\ InputGoes("reset_recv", "reset_send")
    /\ RecvFree
    /\ rsize' = 0
    /\ UNCHANGED <<connVars, conns, crossed, typed, sendVars, rbuf, receiver,
                   reads, got, outVars, netVars>>

ResetSend ==
    /\ InputGoes("reset_send", "prompt")
    /\ SendFree
    /\ ssize' = 0
    /\ UNCHANGED <<connVars, conns, crossed, typed, sbuf, sender, sent, recvVars,
                   outVars, netVars>>

-----------------------------------------------------------------------------
\* The input thread: a command for the server.

(* What the user must have before a command of that kind is sent.             *)
Needs(kind) ==
    CASE kind \in {"ping", "nick"} -> {}
      [] kind = "join"             -> {"nick"}
      [] kind = "message"          -> {"nick", "channel"}

Type(kind) ==
    /\ InputGoes("prompt", kind)
    /\ typed < MaxTyped
    /\ status = "open"
    /\ Needs(kind) \subseteq flags
    /\ UNCHANGED <<connVars, conns, crossed, typed, sendVars, recvVars, outVars,
                   netVars>>

(* strcat to what is there, but the first message of an empty buffer is       *)
(* copied over it.                                                            *)
Buffered(kind) ==
    LET command == <<typed + 1, kind>>
    IN  IF kind = "message" /\ ssize = 0 THEN <<command>> ELSE Append(sbuf, command)

Queue_silent(kind) ==    \* mutant: no signal
    /\ InputGoes(kind, "prompt")
    /\ SendFree
    /\ sbuf' = Buffered(kind)
    /\ ssize' = ssize + 1
    /\ typed' = typed + 1
    /\ UNCHANGED <<connVars, conns, crossed, sender, sent, recvVars, outVars,
                   netVars>>

Queue(kind) ==
    /\ InputGoes(kind, "prompt")
    /\ SendFree
    /\ SignalSender
    /\ sbuf' = Buffered(kind)
    /\ ssize' = ssize + 1
    /\ typed' = typed + 1
    /\ UNCHANGED <<connVars, conns, crossed, sent, recvVars, outVars, netVars>>

-----------------------------------------------------------------------------
\* Sending threads.

SenderChecks(k) ==
    /\ SenderGoes(k, "check", IF status = "open" THEN "lock" ELSE "dead")
    /\ UNCHANGED <<connVars, userVars, sbuf, ssize, sent, recvVars, outVars, netVars>>

(* send_mutex, then a wait if there is nothing to send.                       *)
SenderLocks(k) ==
    /\ SendFree
    /\ SenderGoes(k, "lock", IF ssize = 0 THEN "asleep" ELSE "sending")
    /\ UNCHANGED <<connVars, userVars, sbuf, ssize, sent, recvVars, outVars, netVars>>

SenderWakes_barging(k) ==    \* mutant: the wait returns without the mutex
    /\ SenderGoes(k, "woken", IF ssize = 0 THEN "check" ELSE "sending")
    /\ UNCHANGED <<connVars, userVars, sbuf, ssize, sent, recvVars, outVars, netVars>>

(* The wait ends, asked or unasked; it is not repeated.                       *)
SenderWakes(k) ==
    /\ SendFree
    /\ SenderGoes(k, "woken", IF ssize = 0 THEN "check" ELSE "sending")
    /\ UNCHANGED <<connVars, userVars, sbuf, ssize, sent, recvVars, outVars, netVars>>

SenderStirs(k) ==
    /\ k \in Restless
    /\ SenderGoes(k, "asleep", "woken")
    /\ UNCHANGED <<connVars, userVars, sbuf, ssize, sent, recvVars, outVars, netVars>>

(* What the server does with a command on connection k, and its answer.       *)
Granting(k, kind) ==
    CASE kind = "nick"                         -> "nick"
      [] kind = "join" /\ "nick" \in granted[k] -> "channel"
      [] OTHER                                 -> "text"

Deliver(k, command) ==
    LET answer == Granting(k, command[2])
    IN  /\ received' = [received EXCEPT ![k] = Append(@, command[1])]
        /\ granted' = [granted EXCEPT ![k] = @ \cup ({answer} \cap Flag)]
        /\ inbound' = [inbound EXCEPT ![k] = Append(@, answer)]
        /\ UNCHANGED peer

(* send of the next command, on whatever network_socket is by now.  A server  *)
(* that has closed its end may not be known yet to have.                      *)
Send(k) ==
    /\ sender[k] = "sending"
    /\ sent[k] < ssize
    /\ sock # 0 /\ ~shut
    /\ \/ peer[sock] = "open" /\ Deliver(sock, sbuf[sent[k] + 1])
       \/ peer[sock] = "closed" /\ UNCHANGED netVars
    /\ sent' = [sent EXCEPT ![k] = @ + 1]
    /\ UNCHANGED <<connVars, userVars, sbuf, ssize, sender, recvVars, outVars>>

Sends_over_keeps(k, from) ==    \* mutant: the size is not reset
    /\ SenderGoes(k, from, "check")
    /\ sent' = [sent EXCEPT ![k] = 0]
    /\ UNCHANGED <<sbuf, ssize>>

(* All is sent, or the rest is given up: the buffer is empty again (the first *)
(* bytes of its text are cleared).                                            *)
Sends_over(k, from) ==
    /\ SenderGoes(k, from, "check")
    /\ sent' = [sent EXCEPT ![k] = 0]
    /\ sbuf' = <<>>
    /\ ssize' = 0

SendEnds(k) ==
    /\ sent[k] >= ssize
    /\ Sends_over(k, "sending")
    /\ UNCHANGED <<connVars, userVars, recvVars, outVars, netVars>>

Broken == sock # 0 /\ ~shut => peer[sock] # "open"

(* send fails, and the thread goes for state_mutex.                           *)
SendFails(k) ==
    /\ sent[k] < ssize
    /\ Broken
    /\ SenderGoes(k, "sending", "failed")
    /\ UNCHANGED <<connVars, userVars, sbuf, ssize, sent, recvVars, outVars, netVars>>

(* Whatever connection there is by now counts as closed, but its socket and   *)
(* the user's state stay.  The rest of the buffer is given up under the same  *)
(* send_mutex.                                                                *)
SenderMarks(k) ==
    /\ StateFree
    /\ Sends_over(k, "failed")
    /\ status' = "closed"
    /\ UNCHANGED <<sock, shut, flags, userVars, recvVars, outVars, netVars>>

-----------------------------------------------------------------------------
\* Receiving threads.

ReceiverChecks(k) ==
    /\ ReceiverGoes(k, "check", IF status = "open" THEN "call" ELSE "dead")
    /\ UNCHANGED <<connVars, userVars, sendVars, rbuf, rsize, reads, got, outVars,
                   netVars>>

(* recv is called with whatever network_socket is by now; if that has been    *)
(* closed, it is called with none.                                            *)
Calls(k) ==
    /\ ReceiverGoes(k, "call", "recv")
    /\ reads' = [reads EXCEPT ![k] = IF shut THEN 0 ELSE sock]
    /\ UNCHANGED <<connVars, userVars, sendVars, rbuf, rsize, got, outVars, netVars>>

(* recv returns the first of what has arrived, or all of it.                  *)
Recv(k) ==
    /\ reads[k] # 0
    /\ inbound[reads[k]] # <<>>
    /\ ReceiverGoes(k, "recv", "append")
    /\ \E n \in {1, Len(inbound[reads[k]])} :
         /\ got' = [got EXCEPT ![k] = SubSeq(inbound[reads[k]], 1, n)]
         /\ inbound' = [inbound EXCEPT ![reads[k]] = SubSeq(@, n + 1, Len(@))]
    /\ reads' = [reads EXCEPT ![k] = 0]
    /\ UNCHANGED <<connVars, userVars, sendVars, rbuf, rsize, outVars, peer, received,
                   granted>>

(* recv returns 0 after the last answer, or -1: for a socket of -1, and for   *)
(* one that is not connected.                                                 *)
RecvEnds(k) ==
    /\ reads[k] # 0 => peer[reads[k]] # "open" /\ inbound[reads[k]] = <<>>
    /\ ReceiverGoes(k, "recv", "close")
    /\ reads' = [reads EXCEPT ![k] = 0]
    /\ UNCHANGED <<connVars, userVars, sendVars, rbuf, rsize, got, outVars, netVars>>

(* fechar_conexao under state_mutex.                                          *)
ReceiverCloses(k) ==
    /\ receiver[k] \in Closing \/ StateFree
    /\ \E to \in Closing \cup {"check"} :
         /\ fechar_conexao(receiver[k], to, "check")
         /\ receiver' = [receiver EXCEPT ![k] = to]
    /\ UNCHANGED <<userVars, sendVars, rbuf, rsize, reads, got, outVars, netVars>>

SignalOutput == output' = IF output = "asleep" THEN "woken" ELSE output

Append_silent(k) ==    \* mutant: no signal
    /\ ReceiverGoes(k, "append", "check")
    /\ RecvFree
    /\ rbuf' = rbuf \o got[k]
    /\ rsize' = Len(rbuf')
    /\ got' = [got EXCEPT ![k] = <<>>]
    /\ UNCHANGED <<connVars, userVars, sendVars, reads, outVars, netVars>>

(* Under recv_mutex: signal, strcat, strlen.                                  *)
Appends(k) ==
    /\ ReceiverGoes(k, "append", "check")
    /\ RecvFree
    /\ SignalOutput
    /\ rbuf' = rbuf \o got[k]
    /\ rsize' = Len(rbuf')
    /\ got' = [got EXCEPT ![k] = <<>>]
    /\ UNCHANGED <<connVars, userVars, sendVars, reads, shown, netVars>>

-----------------------------------------------------------------------------
\* The output thread.

OutputLocks ==
    /\ OutputGoes("lock", IF rsize = 0 THEN "asleep" ELSE "decode")
    /\ UNCHANGED <<connVars, userVars, sendVars, recvVars, shown, netVars>>

OutputWakes ==
    /\ OutputGoes("woken", "decode")
    /\ UNCHANGED <<connVars, userVars, sendVars, recvVars, shown, netVars>>

OutputStirs ==
    /\ 0 \in Restless
    /\ OutputGoes("asleep", "woken")
    /\ UNCHANGED <<connVars, userVars, sendVars, recvVars, shown, netVars>>

(* The loop's condition: the next answer is decoded if the connection is open.*)
Decode ==
    /\ OutputGoes("decode", "apply")
    /\ shown < rsize
    /\ status = "open"
    /\ UNCHANGED <<connVars, userVars, sendVars, recvVars, shown, netVars>>

(* has_nick or has_channel becomes true, without a mutex.                     *)
Apply ==
    /\ OutputGoes("apply", "decode")
    /\ flags' = flags \cup ({rbuf[shown + 1]} \cap Flag)
    /\ shown' = shown + 1
    /\ UNCHANGED <<status, sock, shut, userVars, sendVars, recvVars, netVars>>

(* All is decoded, or the connection is closed and the rest is dropped.       *)
OutputUnlocks ==
    /\ OutputGoes("decode", "lock")
    /\ shown >= rsize \/ status = "closed"
    /\ rbuf' = <<>> /\ rsize' = 0
    /\ shown' = 0
    /\ UNCHANGED <<connVars, userVars, sendVars, receiver, reads, got, netVars>>

-----------------------------------------------------------------------------
\* The server.

ServerCloses(k) ==
    /\ peer[k] = "open"
    /\ peer' = [peer EXCEPT ![k] = "closed"]
    /\ UNCHANGED <<connVars, userVars, sendVars, recvVars, outVars, inbound, received,
                   granted>>

-----------------------------------------------------------------------------

\* What the user decides, and what the input thread then goes on to do.
User == Connect \/ (\E kind \in Kind : Type(kind)) \/ Disconnect
Input ==
    \/ Reaches \/ Connected \/ Refused \/ Spawn
    \/ InputCloses \/ Wake \/ ResetRecv \/ ResetSend
    \/ \E kind \in Kind : Queue(kind)

Sender(k) ==
    \/ SenderChecks(k) \/ SenderLocks(k) \/ SenderWakes(k)
    \/ Send(k) \/ SendEnds(k) \/ SendFails(k) \/ SenderMarks(k)

Receiver(k) ==
    \/ ReceiverChecks(k) \/ Calls(k) \/ Recv(k) \/ RecvEnds(k) \/ ReceiverCloses(k) \/ Appends(k)

Output == OutputLocks \/ OutputWakes \/ Decode \/ Apply \/ OutputUnlocks

Next ==
    \/ User \/ Input \/ Output \/ OutputStirs
    \/ \E k \in Conn : Sender(k) \/ SenderStirs(k) \/ Receiver(k) \/ ServerCloses(k)

Spec == Init /\ [][Next]_vars

(* No thread stops while it can go on, but nobody is promised a mutex that     *)
(* others keep taking, state_mutex excepted, which is kept for some writes.    *)
(* The user, the server and the receiving threads outside fechar_conexao owe   *)
(* nothing, nobody wakes unasked for certain, and connect returns.             *)
Fairness ==
    /\ WF_vars(Input) /\ WF_vars(Output)
    /\ \A k \in Conn : WF_vars(Sender(k))
    /\ SF_vars(\E k \in Conn : SenderMarks(k))
    /\ WF_vars(\E k \in Conn : ReceiverCloses(k))

FairSpec == Spec /\ Fairness

-----------------------------------------------------------------------------
\* Properties.

Increasing(s) == \A i, j \in DOMAIN s : i < j => s[i] < s[j]

(* Every variable has its type, one sender at a time holds send_mutex and one *)
(* receiver state_mutex, and neither size exceeds the text that is there.     *)
TypeOK ==
    /\ status \in {"open", "closed"} /\ sock \in 0 .. MaxConns /\ shut \in BOOLEAN
    /\ flags \subseteq Flag
    /\ input \in Kind \cup Closing \cup {"prompt", "connecting", "opening", "spawn", "close",
                                        "wake", "reset_recv", "reset_send"}
    /\ conns \in 0 .. MaxConns /\ typed \in 0 .. MaxTyped /\ crossed \subseteq Conn
    /\ sbuf \in Seq((1 .. MaxTyped) \X Kind) /\ ssize \in 0 .. Len(sbuf)
    /\ sender \in [Conn -> {"unborn", "check", "lock", "asleep", "woken", "sending", "failed",
                         "dead"}]
    /\ sent \in [Conn -> 0 .. MaxTyped]
    /\ \A k \in Conn : sent[k] > 0 => sender[k] \in {"sending", "failed"}
    /\ \A j, k \in Conn :
         sender[j] \in {"sending", "failed"} /\ sender[k] \in {"sending", "failed"} => j = k
    /\ receiver \in [Conn -> Closing \cup {"unborn", "check", "call", "recv", "append",
                                           "close", "dead"}]
    /\ \A j, k \in Conn : receiver[j] \in Closing /\ receiver[k] \in Closing => j = k
    /\ reads \in [Conn -> 0 .. MaxConns]
    /\ got \in [Conn -> Seq(Answer)]
    /\ rbuf \in Seq(Answer) /\ rsize \in 0 .. Len(rbuf)
    /\ output \in {"lock", "asleep", "woken", "decode", "apply"}
    /\ shown \in 0 .. Len(rbuf)
    /\ peer \in [Conn -> {"none", "open", "closed"}]
    /\ inbound \in [Conn -> Seq(Answer)]
    /\ received \in [Conn -> Seq(1 .. MaxTyped)]
    /\ granted \in [Conn -> SUBSET Flag]

(* No command reaches a server twice or after a later one, on one connection  *)
(* or over several, although senders of several connections may be alive and  *)
(* a buffer outlive its connection.                                           *)
CommandsInOrder ==
    \A j, k \in Conn :
        /\ Increasing(received[k])
        /\ j < k => \A m \in ToSet(received[j]), n \in ToSet(received[k]) : m < n

(* While the user can type on an open connection, the threads that connection *)
(* started are alive, and unless somebody is closing it, its socket is there  *)
(* and its receiver is on it or about to be.  Only a /connect in the middle   *)
(* of a receiver's fechar_conexao, which the input thread does not wait for,  *)
(* can end with an open connection that has lost its socket.                  *)
OpenIsServed ==
    status = "open" /\ input \in Kind \cup {"prompt"} =>
        /\ sender[conns] \notin {"unborn", "dead"}
        /\ receiver[conns] \notin {"unborn", "dead"}
        /\ conns \notin crossed /\ (\A k \in Conn : receiver[k] # "mark") =>
             /\ sock = conns /\ ~shut
             /\ receiver[conns] = "recv" => reads[conns] = conns

(* As long as a connection stays open, what is typed is sent: it does not     *)
(* stay in the buffer beside senders that are all asleep.                     *)
CommandsLeave ==
    []<>(ssize = 0 \/ status = "closed")

(* What was received is decoded, or dropped with its connection.              *)
AnswersAreRead ==
    []<>(rsize = 0)

(* chat.h 128-129: has_nick and has_channel say that the user has registered  *)
(* a nickname and is in a channel.  On an open connection this is what its    *)
(* server granted, not the server of an earlier one.                          *)
StateIsGranted ==
    status = "open" /\ sock # 0 /\ input \in Kind \cup {"prompt"} =>
        flags \subseteq granted[sock]

=============================================================================
