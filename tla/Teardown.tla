------------------------------- MODULE Teardown -------------------------------
(***************************************************************************)
(* Around a channel: the workers that run its commands under the mutex, a  *)
(* member that hangs up and leaves without it, sends to clients that do    *)
(* not read or are no longer there, and the end of the server by Ctrl+C.   *)
(*                                                                         *)
(* ChatServer takes each command, and each hang-up, as one step.  Here     *)
(* what lies between the steps of one is visible, and what its commands do *)
(* is reduced to who is in the channel and who is written to, in order.    *)
(***************************************************************************)
EXTENDS Integers, FiniteSets, Ordered

CONSTANT Clients    \* that connect, in the order of their nicknames

ASSUME ClientsAssumption == Clients \in Nat \ {0}

VARIABLES
    server,     \* what main does, or the handler of SIGINT that interrupts it
    deaf,       \* conn_abrir_server has failed, which main only prints
    phase,      \* where the worker of each client is in clt_run
    command,    \* the command it runs
    todo,       \* whom it has yet to write to, in order
    arrived,    \* the members of the channel; the first is its admin
    channel,    \* clt->channel is not NULL
    mutex,      \* the client whose worker owns it, or 0
    peer,       \* the other end of cl_socket
    fault       \* why the program is no longer what its text says, or "none"

vars == <<server, deaf, phase, command, todo, arrived, channel, mutex, peer, fault>>

Client == 1 .. Clients

Phase == {"outside", "accept", "recv", "lock", "act", "send", "check", "leave",
          "farewell", "remove", "promote", "destroy", "gone"}
Command == {"ping", "msg", "join", "kick"}

\* Inside the mutex, and after recv has failed.
Commanding == {"act", "send"}
HangingUp == {"check", "leave", "farewell", "remove", "promote", "destroy"}

Init ==
    /\ server = "new" /\ deaf = FALSE
    /\ phase = [c \in Client |-> "outside"]
    /\ command = [c \in Client |-> "ping"]
    /\ todo = [c \in Client |-> <<>>]
    /\ arrived = <<>>
    /\ channel = [c \in Client |-> FALSE]
    /\ mutex = 0
    /\ peer = [c \in Client |-> "up"]
    /\ fault = "none"

\* The range-for over participants, a map ordered by nickname.
Everybody(members) == Ascending(ToSet(members))

Goes(c, from, to) == phase[c] = from /\ phase' = [phase EXCEPT ![c] = to]

WritesTo(c, receivers) == todo' = [todo EXCEPT ![c] = receivers]

-----------------------------------------------------------------------------
\* The process: main, and the handler, which runs in main's thread.

(* conn_abrir_server; main goes on whether it succeeds or not.                *)
Open ==
    /\ server = "new"
    /\ server' = "running"
    /\ deaf' \in BOOLEAN
    /\ UNCHANGED <<phase, command, todo, arrived, channel, mutex, peer, fault>>

(* conn_run_server: accept, clt_criar with its malloc, and a worker.          *)
Accept(c) ==
    /\ server = "running" /\ ~deaf
    /\ \A d \in Client : phase[d] # "accept"
    /\ Goes(c, "outside", "accept")
    /\ UNCHANGED <<server, deaf, command, todo, arrived, channel, mutex, peer, fault>>

HandOver(c) ==
    /\ server = "running"
    /\ Goes(c, "accept", "recv")
    /\ UNCHANGED <<server, deaf, command, todo, arrived, channel, mutex, peer, fault>>

(* SIGINT.  If main is inside malloc, the handler's free may wait for a lock  *)
(* that main holds: the handler hangs, and main with it, but not the workers. *)
Interrupt ==
    /\ server \in {"new", "running"}
    /\ \/ server' = "clients"
       \/ (\E c \in Client : phase[c] = "accept") /\ server' = "hung"
    /\ UNCHANGED <<deaf, phase, command, todo, arrived, channel, mutex, peer, fault>>

After == [clients |-> "channels", channels |-> "close", close |-> "exited"]

(* clt_destruir_clientes, CHANNEL_destroy_all, then conn_destruir_server,     *)
(* whose pthread_cancel ends no worker before exit ends all of them.          *)
Handle ==
    /\ server \in DOMAIN After
    /\ server' = After[server]
    /\ UNCHANGED <<deaf, phase, command, todo, arrived, channel, mutex, peer, fault>>

-----------------------------------------------------------------------------
\* Clients, of which nothing is expected.

Type(c, what) ==
    /\ peer[c] \in {"up", "stuck"}
    /\ Goes(c, "recv", "lock")
    /\ command' = [command EXCEPT ![c] = what]
    /\ UNCHANGED <<server, deaf, todo, arrived, channel, mutex, peer, fault>>

(* Stops to read until the socket is full, or reads again.                    *)
Stall(c) ==
    /\ phase[c] \notin {"outside", "gone"}
    /\ \/ peer[c] = "up" /\ peer' = [peer EXCEPT ![c] = "stuck"]
       \/ peer[c] = "stuck" /\ peer' = [peer EXCEPT ![c] = "up"]
    /\ UNCHANGED <<server, deaf, phase, command, todo, arrived, channel, mutex, fault>>

(* Closes its socket, or dies with answers unread, which resets it.           *)
Depart(c) ==
    /\ phase[c] \notin {"outside", "gone"}
    /\ peer[c] \in {"up", "stuck"}
    /\ \E how \in {"closed", "reset"} : peer' = [peer EXCEPT ![c] = how]
    /\ UNCHANGED <<server, deaf, phase, command, todo, arrived, channel, mutex, fault>>

-----------------------------------------------------------------------------
\* A command, under the mutex.

Lock_free(c) ==    \* mutant: the command goes on without the mutex
    /\ Goes(c, "lock", "act")
    /\ mutex' = c
    /\ UNCHANGED <<server, deaf, command, todo, arrived, channel, peer, fault>>

Lock(c) ==
    /\ mutex = 0
    /\ Goes(c, "lock", "act")
    /\ mutex' = c
    /\ UNCHANGED <<server, deaf, command, todo, arrived, channel, peer, fault>>

(* /ping, the answer to a command outside a channel, and every refusal: which *)
(* joins and kicks are refused is left to ChatServer, and so is what a member *)
(* that joins again gets beside its answer.                                   *)
AnswerOnly(c) ==
    /\ command[c] = "msg" => ~channel[c]
    /\ WritesTo(c, <<c>>)
    /\ UNCHANGED <<arrived, channel>>

Message(c) ==
    /\ command[c] = "msg" /\ channel[c]
    /\ WritesTo(c, Everybody(arrived))
    /\ UNCHANGED <<arrived, channel>>

(* CHANNEL_join of a client that is outside.                                  *)
Join(c) ==
    /\ command[c] = "join" /\ ~channel[c]
    /\ arrived' = Append(arrived, c)
    /\ channel' = [channel EXCEPT ![c] = TRUE]
    /\ WritesTo(c, <<c, c>> \o IF arrived = <<>> THEN <<>> ELSE Everybody(arrived'))

(* CHANNEL_remove_user: if the admin leaves others behind, its successor is   *)
(* told, then everybody.                                                      *)
Removes(d) ==
    /\ arrived' = RemoveFirst(arrived, d)
    /\ channel' = [channel EXCEPT ![d] = FALSE]

Succession(d) ==
    IF d = Head(arrived) /\ arrived' # <<>>
    THEN <<Head(arrived')>> \o Everybody(arrived') ELSE <<>>

(* CHANNEL_kick_user: the kicked is told, then those who stay, then the one   *)
(* that kicks, which may be the kicked.                                       *)
Kick(c) ==
    /\ command[c] = "kick" /\ channel[c] /\ c = Head(arrived)
    /\ \E d \in ToSet(arrived) :
           /\ Removes(d)
           /\ arrived' # <<>>
           /\ WritesTo(c, Succession(d) \o <<d>> \o Everybody(arrived') \o <<c>>)

(* An admin alone in the channel kicks itself, and the announcement goes      *)
(* through the channel that was freed.                                        *)
KickUsesFreed(c) ==
    /\ command[c] = "kick" /\ channel[c] /\ arrived = <<c>>
    /\ Removes(c)
    /\ fault' = "freed"
    /\ UNCHANGED todo

Act(c) ==
    /\ Goes(c, "act", "send")
    /\ \/ UNCHANGED fault /\ (AnswerOnly(c) \/ Message(c) \/ Join(c) \/ Kick(c))
       \/ KickUsesFreed(c)
    /\ UNCHANGED <<server, deaf, command, mutex, peer>>

Unlock_broken(c) ==    \* mutant: a case that returns instead of breaking
    /\ todo[c] = <<>>
    /\ Goes(c, "send", "recv")
    /\ mutex' = IF command[c] = "ping" THEN mutex ELSE 0
    /\ command' = [command EXCEPT ![c] = "ping"]
    /\ UNCHANGED <<server, deaf, todo, arrived, channel, peer, fault>>

Unlock(c) ==
    /\ todo[c] = <<>>
    /\ Goes(c, "send", "recv")
    /\ mutex' = 0
    /\ command' = [command EXCEPT ![c] = "ping"]
    /\ UNCHANGED <<server, deaf, todo, arrived, channel, peer, fault>>

-----------------------------------------------------------------------------
\* send, which blocks while the receiver's socket is full.

(* The first send to a socket closed at the other end succeeds and is         *)
(* answered by a reset; one to a socket reset raises SIGPIPE, which nothing   *)
(* handles, at the latest when the loop of clt_send_message repeats it.  One  *)
(* to a socket closed at this end fails six times and is given up.  So no     *)
(* client is "disconnected from the channel" by CHANNEL_send_message_one      *)
(* (channel.cpp 542) while the server lives.                                  *)
Send(c) ==
    /\ phase[c] \in {"send", "farewell", "promote"}
    /\ todo[c] # <<>>
    /\ LET d == Head(todo[c])
           closed == phase[d] = "gone"
       IN  /\ closed \/ peer[d] # "stuck"
           /\ fault' = IF ~closed /\ peer[d] = "reset" THEN "sigpipe" ELSE fault
           /\ IF ~closed /\ peer[d] = "closed"
              THEN peer' \in {peer, [peer EXCEPT ![d] = "reset"]}
              ELSE UNCHANGED peer
    /\ WritesTo(c, Tail(todo[c]))
    /\ UNCHANGED <<server, deaf, phase, command, arrived, channel, mutex>>

-----------------------------------------------------------------------------
\* A hang-up, without the mutex.

HangUp_orderly(c) ==    \* mutant: a recv that fails is tried again, one of 0 ends
    /\ peer[c] = "closed"
    /\ Goes(c, "recv", "check")
    /\ UNCHANGED <<server, deaf, command, todo, arrived, channel, mutex, peer, fault>>

(* recv fails, or returns 0.                                                  *)
HangUp(c) ==
    /\ peer[c] \in {"closed", "reset"}
    /\ Goes(c, "recv", "check")
    /\ UNCHANGED <<server, deaf, command, todo, arrived, channel, mutex, peer, fault>>

(* if(clt->channel != NULL)                                                   *)
Check(c) ==
    /\ Goes(c, "check", IF channel[c] THEN "leave" ELSE "destroy")
    /\ UNCHANGED <<server, deaf, command, todo, arrived, channel, mutex, peer, fault>>

(* The channel is read again, and a kick may have come between.               *)
Leave(c) ==
    /\ Goes(c, "leave", "farewell")
    /\ IF channel[c] THEN WritesTo(c, Everybody(arrived)) /\ UNCHANGED fault
       ELSE fault' = "null_channel" /\ UNCHANGED todo
    /\ UNCHANGED <<server, deaf, command, arrived, channel, mutex, peer>>

Farewell(c) ==
    /\ todo[c] = <<>>
    /\ Goes(c, "farewell", "remove")
    /\ UNCHANGED <<server, deaf, command, todo, arrived, channel, mutex, peer, fault>>

Leaves_silent(c) ==    \* mutant: the hang-up forgets CHANNEL_remove_user
    /\ Goes(c, "remove", "promote")
    /\ UNCHANGED <<server, deaf, command, todo, arrived, channel, mutex, peer, fault>>

(* CHANNEL_remove_user, with the channel read once more.                      *)
Leaves(c) ==
    /\ Goes(c, "remove", "promote")
    /\ IF channel[c] THEN Removes(c) /\ WritesTo(c, Succession(c))
       ELSE UNCHANGED <<arrived, channel, todo>>
    /\ UNCHANGED <<server, deaf, command, mutex, peer, fault>>

Promoted(c) ==
    /\ todo[c] = <<>>
    /\ Goes(c, "promote", "destroy")
    /\ UNCHANGED <<server, deaf, command, todo, arrived, channel, mutex, peer, fault>>

(* clt_destruir                                                               *)
Destroy(c) ==
    /\ Goes(c, "destroy", "gone")
    /\ UNCHANGED <<server, deaf, command, todo, arrived, channel, mutex, peer, fault>>

-----------------------------------------------------------------------------
\* What the program may do that its text does not say.

\* The worker writes the channel's maps in its next step, or goes through them.
Writing(c) ==
    \/ phase[c] = "act" /\ command[c] \in {"join", "kick"}
    \/ phase[c] = "remove" /\ channel[c]
Reading(c) ==
    \/ phase[c] = "act" /\ channel[c] /\ command[c] # "ping"
    \/ /\ phase[c] = "send" /\ todo[c] # <<>> /\ command[c] # "ping"
       /\ channel[c] \/ Tail(todo[c]) # <<>>
    \/ phase[c] \in {"farewell", "promote"} /\ todo[c] # <<>>

Races(c, d) == c # d /\ Writing(c) /\ (Writing(d) \/ Reading(d))

Collide ==
    /\ \E c, d \in Client : Races(c, d)
    /\ fault' = "race"
    /\ UNCHANGED <<server, deaf, phase, command, todo, arrived, channel, mutex, peer>>

(* The handler has freed what a worker is about to use.                       *)
UseFreed ==
    /\ server \in {"channels", "close", "hung"}
    /\ \E c \in Client : phase[c] \in Commanding \cup HangingUp
    /\ fault' = "freed"
    /\ UNCHANGED <<server, deaf, phase, command, todo, arrived, channel, mutex, peer>>

-----------------------------------------------------------------------------

Over == fault # "none" \/ server = "exited"

\* What a worker does by itself.
Works(c) ==
    /\ ~Over
    /\ \/ Lock(c) \/ Act(c) \/ Send(c) \/ Unlock(c)
       \/ HangUp(c) \/ Check(c) \/ Leave(c) \/ Farewell(c) \/ Leaves(c)
       \/ Promoted(c) \/ Destroy(c)

Next ==
    \/ ~Over /\ (Open \/ Interrupt \/ Handle \/ Collide \/ UseFreed)
    \/ \E c \in Client :
           \/ Works(c)
           \/ /\ ~Over
              /\ \/ Accept(c) \/ HandOver(c) \/ Stall(c) \/ Depart(c)
                 \/ \E what \in Command : Type(c, what)

Spec == Init /\ [][Next]_vars

(* No worker that can go on stops for good, and one that wants the mutex gets *)
(* it if it is free again and again.  Nothing is asked of clients, of main or *)
(* of the handler, and, once that hangs, of workers, which may come to wait   *)
(* for the same lock.                                                         *)
Fairness == \A c \in Client : SF_vars(server # "hung" /\ Works(c))

FairSpec == Spec /\ Fairness

-----------------------------------------------------------------------------
\* Properties.

Departed(c) == peer[c] \in {"closed", "reset"}

(* Every variable has its type, and a worker is inside a command exactly      *)
(* while it owns the mutex.                                                   *)
TypeOK ==
    /\ server \in {"new", "running", "hung", "exited"} \cup DOMAIN After
    /\ deaf \in BOOLEAN
    /\ phase \in [Client -> Phase]
    /\ command \in [Client -> Command]
    /\ todo \in [Client -> Seq(Client)]
    /\ arrived \in Seq(Client)
    /\ channel \in [Client -> BOOLEAN]
    /\ mutex \in Client \cup {0}
    /\ peer \in [Client -> {"up", "stuck", "closed", "reset"}]
    /\ fault \in {"none", "race", "null_channel", "sigpipe", "freed"}
    /\ \A c \in Client : phase[c] \in Commanding <=> mutex = c

(* A client whose socket has been closed is in no channel, whatever kick came *)
(* between the looks its hang-up takes at its channel: no command that begins *)
(* later writes to a descriptor that the next connection may be given.        *)
GoneIsOut ==
    \A c \in Client : phase[c] = "gone" =>
        ~channel[c] /\ c \notin ToSet(arrived)

(* The program has ended, or its text no longer says what it does, or it      *)
(* hangs.                                                                     *)
Stopped == Over \/ server = "hung"

\* Every client reads again and again, for as long as it is there.
AllRead == \A c \in Client : []<>(peer[c] # "stuck")

(* If clients read, a worker that has taken the mutex gives it back, whatever *)
(* command it runs and whoever departs meanwhile, while the server runs and   *)
(* also, for as long as it lasts, while Ctrl+C ends it.                       *)
MutexIsFreed == AllRead => \A c \in Client : mutex = c ~> mutex # c \/ Stopped

(* If clients read, one that departs is let go: its worker notices, leaves    *)
(* the channel with the successor told, and is free for another client.       *)
DepartedGoes ==
    AllRead => \A c \in Client :
        Departed(c) /\ phase[c] # "accept" ~> phase[c] = "gone" \/ Stopped

=============================================================================
