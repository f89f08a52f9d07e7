# internal-relay-chat in TLA+

A verification development for the chat of this repository: an IRC-like server
(`src/server_src`) and its terminal client (`src/client_src`), both in C++ with
POSIX threads. The TLA+ modules are translated from the source; TLC checks them
on small instances, and TLAPS proves most of the safety properties, and the
refinement of the abstract specification, for any number of clients, names,
channels, workers and connections.

    tlc -config MCChatMembers.cfg MCChatMembers      (one run; PROJECT.json lists them all)
    tlapm ChatServerProofs.tla                        (the proofs; likewise the other *Proofs)

## 1. The system

### Components, their state and their operations

| component | source | state | operations |
|---|---|---|---|
| connection pool | `server_src/connection.cpp` | `clients_wait`, `cl_count`, one `mutex`, one condition variable, 20 worker threads | accept, hand over to a worker, serve until the hang-up |
| client sessions | `server_src/clients.cpp` | `cl_arr` (20 entries), per client nickname, channel pointer, socket | `clt_run`: receive, dispatch one command, answer; hang-up; `clt_destruir` |
| channels | `server_src/channel.cpp` | global map `channels`; per channel `participants`, `arrived`, `nickname_admin`, `is_public`, the sets of banned, silenced and invited names | create, join, leave, rename, mode, invite, kick, unkick, mute, unmute, whois, message |
| decoders | `server_src/decodec.cpp` | none | text of a command to action and argument |
| log | `server_src/message.cpp` | none | console output |
| lifecycle | `server_src/main.cpp`, `connection.cpp` 43-50 | the listening socket | start, SIGINT |
| client connection | `client_src/chat.cpp` | status, socket, `send_buff`, `recv_buff`, flags `has_nick`, `has_channel`, `is_admin` | connect, close, sending thread, receiving thread |
| client main threads | `client_src/main.cpp` | input line, output buffer | one guard and one encoding per command; one decoding per answer |
| codec, terminal | `client_src/codec.cpp`, `terminal.cpp` | none; the input line | encoders, decoders; console |
| socket examples | `sockets_examples/` | | earlier versions, no part of the program |

### How they interact

The main thread of the server accepts a connection, allocates a client, pushes
its id into `clients_wait`, enters it in `cl_arr` (under the mutex) and signals a
worker. A worker takes an id (under the mutex) and runs `clt_run`, which blocks in
`recv` and runs each command under the same mutex, sends included. When `recv`
fails, the worker leaves the client's channel, frees its entry of `cl_arr` and
decrements `cl_count`, all three without the mutex.

A client is known by three names for one thing: the pointer `clt->channel`, the
key in `participants` and the entry in `arrived`. Bans, silences and invitations
are pointers to nickname buffers in sets that compare what the buffers say.

### What is hard

* One connection's commands interleave with everybody else's, and the three
  records of membership, the administrator's name and the sets must agree after
  each of them, through renames.
* Searches by `operator[]`, and keys that change in place, break the invariants
  of the maps and sets themselves.
* Several operations go on to use a channel that they have just destroyed.
* The pool's queue and counter are touched with and without the mutex, and the
  client is queued before it can be found.
* Hang-ups take no mutex; sends can fail in the middle of an operation; the
  shutdown handler frees everything under running workers.
* The client's four threads share one connection object, whose threads may
  outlive their connection.

`PROJECT.json` lists every hazard at its line, with the properties that watch it.

## 2. The modules

| module | what it is |
|---|---|
| `ChatServer` | the shared state of the server and every command that changes it; one action per command, because each runs under the mutex |
| `KickHistory` | `ChatServer` with a record of who was kicked, to ask what the documentation of `/kick` promises |
| `ChannelQueue` | the abstract specification: a channel is a line of people, and whoever stands first administers it |
| `ChatQueue` | the refinement mapping from `ChatServer` to `ChannelQueue` |
| `Protocol` | the lines of the protocol: the client's codec, the server's decoders, and what `CHANNEL_broadcast` sends to whom; extends `ChatServer` |
| `Packets` | the sizes of the packets that a long message is cut into, and what a receiver shows of them |
| `ChatSession` | server and clients composed over streams of bytes: guards, lines, answers, and what a client believes; extends `Protocol` and `Packets` |
| `Teardown` | commands, hang-ups, blocking sends, departing clients and Ctrl+C at the grain of their steps, with fairness |
| `ConnPool` | main thread and workers at the grain of their unlocked accesses, with fairness |
| `ClientConn` | the client's input, output, sending and receiving threads over several connections, with fairness |
| `Ordered` | the walk over a map's keys in their order; extended by `ChatSession` and `Teardown` |
| `MCChat*`, `MCConnPool`, `MCClientConn`, `MCTeardown` | instances for TLC |
| `LineLemmas` | what the library's operators on sequences do to a line: searches, removals, replacements |
| `ChatServerProofs` | types, the administrator, unique nicknames |
| `ChatMembersProofs` | membership, orphans, bans, the reach of a message; extends `ChatServerProofs` |
| `ChatQueueProofs` | the refinement of `ChannelQueue` and seniority; extends `ChatMembersProofs` |
| `ChatSessionProofs` | what a client knows, and the packets of a message; extends `ChatQueueProofs` |
| `ConnPoolProofs`, `TeardownProofs`, `ClientConnProofs` | theorems about these three components |

    ChannelQueue <- ChatQueue -> ChatServer <- Protocol <- ChatSession -> Packets
                                     ^
                                     +- KickHistory
    ConnPool, Teardown, ClientConn: each alone

### ChatServer and the code

`nickname[c]` is the text in the buffer `clt->nickname`; `channelOf[c]` the name of
the channel that `clt->channel` points to; `rooms[ch]` what the map `channels` holds
under `ch`, with `live` FALSE if nothing. In a room, `participants` is the map as a
set of pairs of a nickname and a client, `arrived` the list of nicknames in order
of their integer keys, and `banned`, `muted` and `invited` are sets of *clients*,
because the code's sets hold pointers to their nickname buffers; the buffers
outlive their clients (`free` is called after the pointer was set to NULL), so
a client that has gone may still be banned. Nicknames and channel names are values
that only compare; the lengths and characters that the validators look at, and the
text of answers, are abstracted. A command that is refused changes nothing and is
a stuttering step.

| code | action |
|---|---|
| `clt_run` from its start | `Connect` |
| `/nickname`, `CHANNEL_on_change_nickname` | `Nickname` with `Renamed` |
| `/join`, `CHANNEL_join`, `conn_criar_CHANNEL`, `CHANNEL_add_user` | `Join` with `AfterLeaving`, `Created`, `Admitted` |
| `/mode`, `/invite`, `/kick`, `/unkick`, `/mute`, `/unmute` | `Mode`, `Invite`, `Kick`, `Unkick`, `Mute`, `Unmute` |
| `/whois` | `WhoisFindsNobody` (otherwise it changes nothing) |
| a message, `CHANNEL_msg` | `Message` |
| `CHANNEL_remove_user`, `CHANNEL_destroy` | operator `Removed`, used by joins, kicks and hang-ups |
| `recv` fails; then `clt_destruir` | `HangUp`; `Destroy` |

**Undefined behaviour is a choice.** Where the code dereferences NULL or freed
memory there are two outcomes: a step that stops the process (`fault` says why:
`HeirIsNull`, `WhoisFindsNobody`, `JoinUsesDestroyed`, `KickUsesDestroyed`,
`ChannelIsFreed`), and, where a build may get away with it, the same command
carried on to its end (`Join`, `Kick`). After a fault nothing runs.

**Trees that lie.** `CHANNEL_mute_user` and `CHANNEL_unmute_user` insert an
absent name into `participants` with the worker's command buffer as its key. Such
a *ghost* (`ghosts`) changes its key with every command that worker receives,
so the map is out of order: a search may miss what is there, or find the ghost
that has become the name asked for. `Finds`, `Erase` and `Insert` are the sets of
outcomes. In the same way a rename changes a key of the sets in place;
`disorder` names the sets whose order that may have broken, and `Listed`,
`Enlisted` and `Struck` are the outcomes there. `damage` is a history variable that
says whether either has ever happened, so that properties can say what holds
until then.

Threads: commands are atomic because of the mutex. `HangUp` and `Destroy` take no
mutex in the code and are atomic here, and sends succeed; `Teardown` looks at both.

### ChatQueue: ChatServer implements ChannelQueue

`ChannelQueue` says what `README.md` 7 of the repository promises a user: a channel
is a line of people in order of arrival, a person stands in at most one, and the
first holds the chair. The mapping reads the line off `arrived` and the chair off
`nickname_admin`, each through the member who bears the name (`Bearer`). A person is a
client and no name, so a rename, which rewrites three structures in the code, must
be no step at all; a join is one `Move` or `Enter`, a departure by any way a `Leave`.
It holds while no ghost is inserted: the run has no `/mute` and `/unmute`.

### Protocol, Packets, ChatSession and the code

A line is the tuple of its words; the client's `sscanf` patterns become conditions on
how many words there are and which they are. `Unended` marks the lines that the server
sends without a newline. `Understood` is the switch of the output thread.

| code | definition |
|---|---|
| `input_terminal_handler`: guards, `cdc_encode_*` | `Type` with `Passes`, `Encoded` |
| `output_terminal_handler`: `cdc_decode_*` and the fields of `relay_chat` | `Read` with `Learned`, `Understood` |
| an answer that `recv` cuts, `recv_msg_handler` | `ReadCut` |
| `/disconnect`, end of the program | `Close` |
| `recv` in `clt_run`: whole lines, several, or a part of one | `Receptions`, `Beginnings`, `Rests`, `Cuts` |
| the cases of `clt_run` | `RunNickname`, `RunJoin`, `RunMode`, `RunAdmin`, `RunMessage`, `EnterFirst` |
| `CHANNEL_broadcast` and who reads it | `Membership`, `Administration`, `Say` |
| `recv` fails, `clt_destruir` | `Departs`, `Forget` |

Each `Run*` is the action of `ChatServer` of that command conjoined with what it says, in
the order in which it says it, or a refusal that changes nothing and says why. `told`
holds the lines of the last step. Answers that change nothing a client knows are
judged when they are told and are not put in its stream. `ousted` and `cut` are history:
who was put out of its channel without being told, and whose answer was cut.

What is left of a cut line is run by the next `recv` for what it looks like: as a message
(`Scrap`), or, if a message was cut before a command in its text (`Written` says which those
of an instance are), as that command. A client has one connection here, whose sends
succeed; what a failed send leaves behind for the next connection is `ClientConn`'s
(the violation `client_state`).

`Packets` has lengths in bytes, as the encoder computes them: how many packets, how
much of the text each takes, and the limits of the decoder that receives them.

### Teardown and the code

`phase[c]` is where the worker of client `c` is. Between "lock" and the release it
acts on the maps ("act"), then writes to everybody in `todo` one `Send` at a time
("send"), which blocks while that receiver is "stuck". A hang-up goes through "check",
"leave", "farewell", "remove", "promote" and "destroy" without the mutex and reads
`clt->channel` anew at three of them. `arrived` is the one channel; `peer[c]` is the
other end of its socket: "up", "stuck" (does not read), "closed" (orderly) or "reset".
`server` is `main`, and then the handler of SIGINT, which takes no mutex and runs in
`main`'s thread. If it has interrupted `main` inside `malloc`, its `free` may wait for a
lock that `main` holds: it then is "hung" for good, while the workers go on.

| code | action |
|---|---|
| `conn_abrir_server`, `conn_run_server` | `Open`, `Accept`, `HandOver` |
| SIGINT, `conn_catch_ctrl_c_and_exit` | `Interrupt`, `Handle` |
| a client types, does not read, goes | `Type`, `Stall`, `Depart` |
| a command | `Lock`, `Act` (`AnswerOnly`, `Message`, `Join`, `Kick`, `KickUsesFreed`), `Send`, `Unlock` |
| `CHANNEL_remove_user` | `Removes`, `Succession` |
| a hang-up | `HangUp`, `Check`, `Leave`, `Farewell`, `Leaves`, `Promoted`, `Destroy` |

An administrator may kick itself: its successor is then told first, and if it
was alone the announcement goes through the freed channel. Which joins and kicks are
refused is `ChatServer`'s subject; here a refusal is an answer (`AnswerOnly`).

Data races, freed memory and the signal that ends the process are faults, as in
`ChatServer`: "race" (`Collide`: two workers at the maps, one writing), "null_channel" (a
kick between two looks of a hang-up at its channel), "sigpipe" (a send to a socket
that was reset) and "freed" (`UseFreed`: a worker goes on while the handler frees or is hung;
`KickUsesFreed`). What happens after one is not modelled; the properties say what holds
until then.

### ConnPool and the code

`pc[w]` is where worker `w` is in `conn_client_thread` and `clt_run`; `acceptor`
where the main thread is in `conn_run_server`. `push_back` and `pop_back` on the
shared vector and `++` and `--` on the shared counter are a read and a write each,
in two steps; the window between them is what the missing mutex opens. `queue` is
the vector's memory and `size` its length, so that a torn push or pop does what the
memory would do. `Torn` records in `harm` that such a window was hit ("queue",
"count"), and `Find` that a worker came before its client was entered ("orphan").
The state of the chat is left out: a client's commands are `Command` and
`Answer`, which hold the mutex, and it hangs up in `HangUp`. Condition variables
may wake unasked (`WakeUnasked`).

### ClientConn and the code

The client's `relay_chat` is the variables `status`, `sock`, `flags`
(`has_nick`, `has_channel`), `sbuf` with `ssize`, and `rbuf` with `rsize`; `shut` says
that the descriptor in `network_socket` has been closed and not yet replaced. `input`
and `output` say where the two main threads are, `sender[k]` and `receiver[k]` where the
two threads that connection `k` started are. `crossed` is history: the connections
that were opened while a receiver was inside `fechar_conexao`.

A step is a critical section with one access, or a single access to the status or the
socket. `fechar_conexao` is its six accesses (`Asks`, `Writes`: two tests, `close`, the
status, the socket, the flags), whoever runs it. `send_mutex` is held over the steps from
"sending" to the end of a sender's buffer (`SendFree`), `recv_mutex` over the decoding
of the answers (`RecvFree`), and `state_mutex` over a receiver's `fechar_conexao` and by
a sender that marks the connection closed (`StateFree`). The input thread
takes `state_mutex` nowhere, so that a `/connect` or a `/disconnect` can fall between any two
of those accesses.

| code | action |
|---|---|
| `/connect`, `abrir_conexao`, `pthread_create` | `Connect` (the test and `socket`), then `Reaches` (`connect`), `Connected` (the status) and `Spawn`, or `Refused` |
| `/disconnect` | `Disconnect` (the test), `InputCloses` (`fechar_conexao`), `Wake`, `ResetRecv`, `ResetSend` |
| a command | `Type` (the guards), `Queue` |
| `send_msg_handler` | `SenderChecks`, `SenderLocks`, `SenderWakes`, `Send`, `SendEnds`, `SendFails`, `SenderMarks` |
| `recv_msg_handler` | `ReceiverChecks`, `Calls`, `Recv`, `RecvEnds`, `ReceiverCloses`, `Appends` |
| `output_terminal_handler` | `OutputLocks`, `OutputWakes`, `Decode`, `Apply`, `OutputUnlocks` |
| `pthread_cond_wait` returns unasked | `SenderStirs`, `OutputStirs` |

The commands that have the same guards stand for each other: `Kind` has "ping" (and
`/list`), "nick", "join", and "message" (and the administrator's commands, but for the
`strcpy` that `Buffered` mentions). Buffers are sequences of commands or answers
and their sizes count these, which is exact while all are as long, as in the
passing runs. The server answers each command in order (`Granting`, `Deliver`) and
may close at any time. That a `recv` in progress survives a `close` of its
descriptor by another thread is Linux's behaviour. A send that raises SIGPIPE ends
the program; a send that fails without it (an error of the connection that the
sender meets first, or a socket of -1) is `SendFails`, and the write of the status that
follows it, maybe to a newer connection, `SenderMarks`.

## 3. What is checked

| run | properties | instance | states | what it shows |
|---|---|---|---|---|
| members | UniqueNicknames, AdminIsOldest, MembersAgree, OnlyGhostsOrphan, Seniority, ImplementsQueue | 3 clients, 3 names, 2 channels; no `/mute`, `/unmute`, `/whois` | 101,041 | membership, seniority and names through joins, hang-ups, kicks, invitations and renames; the channels are queues of people |
| moderation | BannedStaysOut, RelayReachesTheChannel | 3 clients, 3 names, 1 channel, no ghosts | 114,763 | bans and silences follow the person; a message reaches its channel and no one else |
| ghosts | TypeOK, AdminIsOldest | 3 clients, 2 names, 1 channel | 458,145 | what the other commands make of a damaged map |
| session | NicknameKnown, ChannelKnown, RoleKnown, JoinsAreNamed, PacketsWhole, ShownWhole, AnswersEnd, AnswersUnderstood | 2 clients, 2 names, 2 channels, one connection each | 229,259 | a client that has read its answers knows its name, channel and role, whatever a recv lumped or cut; each answer ends and is understood; long messages arrive whole |
| pool | TypeOK, CountConserved, ClientsConserved, NoLostWakeUp | 2 workers, 3 connections | 283,743 | mutual exclusion, conservation of clients and count, no lost wake-up |
| teardown | TypeOK, GoneIsOut, MutexIsFreed, DepartedGoes | 2 clients | 210,155 | who is gone is out of the channel, whatever kicks fell into its hang-up; the mutex comes back and the departed go if clients read |
| client | CommandsLeave, AnswersAreRead | 2 connections, 1 command | 435,079 | what is typed leaves and what arrives is read, whatever threads survive the last connection |
| client_order | TypeOK, OpenIsServed, CommandsInOrder | 2 connections, 2 commands | 2,057,522 | the open connection has its threads and its socket, whatever closes fall into each other; no command arrives twice or after a later one |
| departure | DepartureSucceeds (violated) | | | `/mute` of an absent name, then the last member leaves: NULL is dereferenced |
| farewell | FarewellFindsChannel (violated) | | | the only member of a channel joins another |
| kick_history | KickedStaysOut (violated) | | | a kick under a name that an earlier, gone client was banned under records nothing |
| client_state | StateIsGranted (violated) | 2 connections, 3 commands | | a failed send, a new connection, and a nickname that its server does not know |

The four violations are disagreements between the code and what its own comments
say; `PROJECT.json` quotes the comments. The pool has two more races that its
invariants count instead: `harm` is "orphan" when a worker takes an id before
`clt_add_queue` entered the client, who is then never served, and "count" when
`cl_count--` without the mutex loses an update. `ClientsConserved` and `CountConserved`
say that nothing is lost without one of these.

**Bounds.** `MaxArrived` bounds the entries of `arrived`, which grow without bound
only after a ghost has made a client's removal miss. Three clients are an
administrator, a member and somebody who comes, goes or takes a name; no command
looks at more than two clients and the heir. Two channels are the one left and the
one joined. With as many names as clients a free name remains to rename to. In the
ghost runs two names suffice, since each name can be taken anew. A connection is
not reused: a client that reconnects is another connection. Two workers already
meet in every window of the pool; three connections let one worker serve twice,
and more are accepted than `cl_arr` has entries. Clients, names and channels are
only compared, so they are symmetric in the safety runs; the run with liveness has
no symmetry. Deadlock is not checked in any run: each instance accepts finitely
many connections and stops after the last, or after a fault, and a thread asleep
for want of clients is no error.

For the client two connections make one meet the threads, the buffers and the
flags of another, and two commands can change places. `Restless` names the waits
that may return unasked: one sender in the run with liveness, every thread in
`client_order`. The rest of the space is cut by constraints. In `client`, `OneCloses`
follows a behaviour only while at most one thread is in or before `fechar_conexao`. In
`client_order` closes overlap each other and the next `/connect`, but only until the last
command is typed (`LastIsCalm`); answers are sent, but no `recv` has yet returned
with one (`NothingRead`), since only the threads, the socket and the buffer of commands bear on its
properties, and the output thread, which has nothing to show, stirs in the first connection only.
The run `client` reads the answers, and the theorems of section 4 have none of these
constraints. The views leave out what no step and no property of the run reads: history, what
the server holds, and the other end of a connection that no socket and no `recv` can reach any more.

In `session` a line is typed only while fewer than `MaxRequests` lines and
`MaxAnswers` answers are under way; the server's own answers are not bounded by it, and a
client can have several to read. `MaxCuts` clients have an answer cut. `OneList` keeps
at most one of the lists of a channel in use at a time, since how they bear on each
other is the subject of `moderation`; `Unhurried` lets two lines be under way together
only if they are renames and joins, the lines that change what a client believes; `NoGhost` ends
a behaviour at the first ghost. These are constraints on what is explored, after the
properties were evaluated. `VIEW Untold` leaves `told` out of a state's
identity: no step reads it, and the properties of the answers look at each step as
it is taken. `PacketsWhole` and `ShownWhole` ask of a
message under way, whose length the model does not have, that all lengths of names and
of texts up to four packets are well cut; packets after the first are computed as the
first is.

In `teardown` two clients give each role its actor: administrator and member or heir,
a worker in a command and one hanging up, a sender and the receiver that blocks it. A
connection is not reused, so each client comes and goes once.

**Fairness** (`FairSpec` of `ConnPool`). Weak fairness of the main thread's own
steps between two accepts; strong fairness of each worker's steps and of the main
thread's lock, that is, a mutex that is free again and again is eventually had by
each thread that asks, which holds for threads that keep it briefly. Nothing is
asked of clients: none need connect, send or hang up; but a command ends
(`Answer`), which supposes that clients read what is sent to them, because sends
block under the mutex. `FairSpec` of `ClientConn`: weak fairness of the input
thread between two commands, of the output thread, of each sender and of the thread
that is inside `fechar_conexao`; and strong fairness of a sender's lock of `state_mutex`,
which others keep only for those few writes. The user, the
server and the receiving threads elsewhere (which wait for the network) owe nothing; `connect`
is supposed to return. `FairSpec` of `Teardown`: strong
fairness of each worker, whose mutex others may have again and again in between, while
the handler is not hung (workers may then come to wait for the same lock). The
clients, `main` and the handler owe nothing: that clients read is the premise
`AllRead` of both liveness properties, and both promise nothing once the server has
ended, hangs or has met a fault (`Stopped`).

## 4. What is proved

Each theorem below is checked by TLAPS for every value of the constants, under the
assumptions that the modules state and TLC evaluates: "invalid" is no valid nickname
and NULL no channel, and the commands are those of the protocol (`ChatServer`); the
mark of a line without a newline is no name (`Protocol`); the words that clients type are
keywords, and so are those that their messages contain (`ChatSession`); the number that
`cl_count` is compared with is at most the number of workers, which `connection.cpp` 68 has
(it bounds neither the connections nor, as they wait uncounted, `cl_arr`), and `Free` is no
worker (`ConnPool`); clients are numbered from 1 (`Teardown`). Bounds such as `MaxArrived`
are only natural numbers. The properties are the ones the runs check, by name.

| module | theorems | what they state |
|---|---|---|
| `ChatServerProofs` | `TypeCorrect`, `OldestAdministers`, `NicknamesAreUnique` | `TypeOK`, `AdminIsOldest`, `UniqueNicknames` |
| `ChatMembersProofs` | `MembershipIsOne`, `NothingIsOrphaned`, `BansAreKept`, `MessagesReach` | `MembersAgree`, `OnlyGhostsOrphan`, `BannedStaysOut`, `RelayReachesTheChannel` |
| `ChatQueueProofs` | `ServerIsQueues`, `SilentServerIsQueues`, `SeniorityIsKept` | the refinement `ImplementsQueue`; the action property `Seniority` |
| `ChatSessionProofs` | `NobodyJoinsUnnamed`, `NamesAreLearned`, `ChannelsAreLearned`, `RolesAreLearned`, `EveryAnswerEnds`, `EveryAnswerIsUnderstood`, `AnyTextIsCutWhole`, `NoTextIsLost`, `NoTextIsClipped` | `JoinsAreNamed`, `NicknameKnown`, `ChannelKnown`, `RoleKnown`; the action properties `AnswersEnd`, `AnswersUnderstood`; `PacketsWhole`, `ShownWhole` |
| `ConnPoolProofs` | `PoolTypes`, `CountIsKept`, `ClientsAreKept` | `TypeOK`, `CountConserved`, `ClientsConserved` |
| `TeardownProofs` | `TeardownTypes`, `TheGoneAreOut` | `TypeOK`, `GoneIsOut` |
| `ClientConnProofs` | `ClientTypes`, `OpenHasThreads`, `CommandsArriveInOrder` | `TypeOK`, `OpenIsServed`, `CommandsInOrder` |

### The server's channels

**Types and the administrator.** `AdminIsOldest` is not inductive alone: the step that
hands over to the heir needs that there is one, and the types. The invariant is
`Inv`, made of `Scalars` (types of the variables that are no rooms, and that whoever is in
a channel has a name) and `SoundRooms` (every room is either `NoRoom` or a well-typed
live room with a first arrival, whose name is the administrator's). Each operator on
rooms gets a lemma that its outcomes are sound again: `Without` may break the hold of the
administrator's name only by removing the first arrival, which is the
administrator; then either the room is vacant and destroyed, or the administrator is
the one who left and `Succession` takes the new head, or there is no heir and the step
is a fault, not an outcome of `Removed`. Renames relabel the first place at
which the old name stands, and the administrator's name if it is that name, so
head and administrator change together. None of this depends on the damage to the maps:
the theorem covers every outcome of every search. `NicknamesAreUnique` uses `NameInv`:
names are unique among the clients in `cl_arr`, and a client that is not connected
yet is unnamed.

**Membership.** `MembersAgree` says what three records have in common; to be
inductive it must say what each of them is. `Together`: until a ghost is inserted,
`participants` holds exactly the pairs of a member and its name, `arrived` the
members' names, each once, a room is live exactly if it has members (`Agrees`); whoever
is in a channel is served; and no fault but the use of a destroyed channel has
occurred. With unique names, which is the theorem before, a search for a member then has one
outcome, the erasure of one pair and one arrival has one outcome, and the heir exists,
so that `Removed` is determined (`RemovedAgrees`). A rename needs more: the
name must be absent from the channel (unique names again) for the relabelled
line to stay injective. `OnlyGhostsOrphan` follows, because the three crashes that it
names need a search that misses. Bans are followed by `BansHold`, which holds while no
set is out of order, ghosts or not: a banned buffer is no member's. It needs nothing of
`Together`, since all ways into a channel look at the sets by
name, and a way in past a ban is a search that misses. `MessagesReach` puts both
together for the step that relays.

**The refinement.** The mapping reads a line of people off a line of names. `Lined(l, r,
M, name)` says that the line `l` of clients has the length of `r.arrived` and that in each place
stands the member who bears the name there; under `Sane` (all of the above, no ghosts)
there is exactly one such line, and `Line[ch]` is it (`LineNow`). `LineStep` says what
a step of `ChatServer` does to the lines: nothing, `Parting` (one client is taken out of
all lines) or `Entering` (it is, and then stands at the end of one); each action
has a lemma that it is one of the three, and only a join enters. From there `QueueStep` is a
statement about sequences: `Parting` is a `Leave` of `ChannelQueue`, `Entering` a `Move` or `Enter`,
and the chair goes to the head because the administrator is the oldest. A rename is a
stutter: the line of names changes and the line of people does not.
`ServerIsQueues` assumes `[]("ghost" \notin damage)`, that nobody mutes or unmutes an absent name; with a
ghost the refinement fails, and the run `ghosts` and the violation `departure` show
what happens instead. `SilentServerIsQueues` discharges the assumption for a server
whose `Commands` contain neither, which is the instance TLC checks. `SeniorityIsKept` needs no such
assumption: the property itself speaks only of steps until there is a ghost.

### What a client knows

Two pieces of state that nothing writes together, `nickname` of the server and `view` of
the client, agree only when the stream between them is empty. The invariant says what the
stream holds: `NameInSight` (either no naming is under way and the view is right, or the last naming
under way carries the right name), of every client that has had no answer cut.
That every step keeps it is shown in two halves. What a step *sends* to each
client is `Naming`: to the client that is renamed exactly one line that names it, to others
none, whatever else is said, in any order (`Tells`, `Spares` and `Hushed` are kept by appending
sends: `TellsTogether`, `SparesTogether`). How a *stream* changes: appended to
(`AppendedLines`), or read from its head (`RemainingLines`). `RunIs` reduces the nine
handlers of `clt_run` to what matters here. Besides this the proof needs `NamedByThen`
(whoever has been told a name, or will be, has one; so has whoever asks to join, which
is `JoinsAreNamed`, or sends a message, whose text may hold a request to join), `Sessions` (only who is served has an open session), the types of the
lines that may be under way, cut ones included (`ReceptionIs`), and `ServerHolds`, which is `Inv`,
`NameInv` and `Together` until the process dies.

**Channels and roles.** `ChannelsInSight` says the same of the channel and of the role in
it: whoever reads the lines under way to it ends by knowing both, or was put out by
others, who tell it nothing. A role changes although its bearer does nothing, so the
proof needs to know, step by step, whose role changes and that this client is told. It takes both from
the lines of people of the refinement: the privileged member is the one at the head of its line
(`PrivilegedLeads`), and who is at the head changes in a step only for the heir, the
one behind a head that parts (`Inherits`, `PlacesAfter`), and for whoever enters. `SuccessionTold`
says that the lines of a succession reach the heir and change nothing for others, although
the code looks the heir up by name and walks the channel after it has left the
maps. What a step tells a client is then one of three things (`PlaceTold`): `Stays` (nothing
that matters, and place and role stand), `IsPutOut`, or `IsWelcomed` (one line, with its
channel and its role after the step); each command and each departure has a lemma
that it tells every client one of them. As
the lines exist only without ghosts, `ChannelsAreLearned` and `RolesAreLearned` hold until
a ghost is inserted, which is also where the constraint of the run `session` stops.

**Answers.** `EveryAnswerEnds` and `EveryAnswerIsUnderstood` judge every line of every send
in a step, refusals and notices included (`Proper`, `Properly`): one lemma for each shape
of line, one for each part of `CHANNEL_broadcast`, one for each handler. The refusals without a
newline are out because `Denied` asks what the channel operations ask again, so the only
error left to them is ERR_NOSUCHNICK (`FailsProperly`); and not even that to /mode, whose decoder
in the client does not know it. The text of a line is opaque in the model, so the proof assumes that no name
is the mark of a missing newline (`UnendedAssumption`).

`AnyTextIsCutWhole` is about arithmetic alone: texts of any length, where `PacketsWhole`
enumerates those of up to 1510 bytes. `PacketsWhole` follows from it, and `ShownWhole` from the sizes
alone, in every state.

### The threads

`ConnPoolProofs`: mutual exclusion is part of `TypeOK` (`mutex = w` exactly while `pc[w]` is
in a critical section). `CountIsKept` counts the workers that hold a client.
`ClientsAreKept` needs to know what the vector holds through torn accesses of
others: `Lined` (unless the vector was torn, every waiting id was stored once, nobody else has
it, and the worker that pops has read one that is still there) and `Entered` (unless
a worker also came too early, a client in `cl_arr` waits or is held).
`TeardownProofs`: commands exclude each other by the mutex, which is in `TypeOK`; `Members` adds
that the line holds each client once and exactly those whose channel is set, and
that a worker which has left its channel stays out, so that what a hang-up does without the
mutex is still the only thing that takes it out.
`ClientConnProofs`: `Threads` says which threads exist at each moment of a connection's
life: no later connection has threads, an open one has both. `Sockets` says what the accesses of
`fechar_conexao`, of a `/connect` and of a `/disconnect` may find when they fall into each
other: a socket is the last connection's or none; and unless it was opened in
the middle of a receiver's close, an open connection has it unless a receiver is past `close`
and about to mark the status. `OpenHasThreads` follows from the two. Each access has a lemma for
each half (`CloseIs`, `CloseThreads`, `ReceiverOutside`). `CommandsInOrder` is proved with `Order`, which relates what has
arrived to what is in the buffer: the text in it rises, and nothing that is still to be sent, by
the one sender that may be in the middle of it, has arrived.

### What is only model-checked

* **Liveness**: `NoLostWakeUp`, `CommandsLeave`, `AnswersAreRead`, `MutexIsFreed`,
  `DepartedGoes`. Fairness, and ENABLED in it, are out of this prover's reach.
* The four violations, which are counterexamples.

## 5. What is not modelled, and why

* **Log and terminal.** `msg_*` print; the terminal reads keys and draws. They share no
  state with the rest but the output buffer. The socket examples are no part of
  the program.
* **Lengths of names and buffers**, but for the packets of a message. So the
  overflows of the code are not properties: `strcpy` of a longer nickname
  (`channel.cpp` 271), the list of channels in 51 bytes (`codec.cpp` 389),
  `recv_buff` without a bound (`chat.cpp` 152). The one that a cut command reaches,
  `strncpy` with a length of -1 (`clients.cpp` 501), is the crash "overrun" of `ChatSession`.
* **Undefined behaviour before there is state**: the maps of a channel that was
  `malloc`'ed and not constructed (`channel.cpp` 64) are taken as zeroed memory gives them.
* **Failures of the system**: `malloc`, `pthread_create` and `accept` succeed. A socket that
  cannot be opened is modelled (`deaf` in `Teardown`: the server then runs without one).
* **Starvation in the pool.** Workers take the newest id; a client that waits may wait
  for ever under load (`connection.cpp` 150). Nothing promises otherwise, and the
  model has it so.

**A late close.** `fechar_conexao` writes the status (`chat.cpp` 115), the socket (116) and the
flags (117), and the receiver that runs it holds `state_mutex`, which the input thread
does not take. A `/connect` that finds the status closed and is done before line 116
is left with an open status, a socket of -1 and cleared flags. From
there `/connect` is refused ("já existe uma conexão ativa", `main.cpp` 260), `/disconnect`
changes nothing (`fechar_conexao` returns at 111) though it says that it has closed, and the
receivers call `recv` with -1 again and again; only a failing send, that of any command typed,
closes the connection. `OpenIsServed` excludes these connections by `crossed`, and claims for them
the threads only.

**The limit on connections.** `conn_run_server` compares `cl_count` with the limit, and
clients that wait for a worker are not in `cl_count`: the run `pool` accepts more than
`MaxConn`. `CountConserved` is about the counter, not about the limit, and nothing in the model
says that the limit holds.

**SIGPIPE.** The code gives a client up when a send fails (`channel.cpp` 542), but `send` is
called without `MSG_NOSIGNAL` and nothing handles SIGPIPE. `Teardown` shows the
consequence: a send to a client that has reset its connection (it died with
answers unread) ends the server, at the latest in that client's own farewell, which
`CHANNEL_broadcast` sends to everybody in the channel, the departing client included.
The branch at line 542 is then unreachable while the server lives. It is
fault "sigpipe" in the model; every property of `teardown` holds up to it.

## 6. Plan

The state that everything hangs on, the threads of both programs, the protocol
between them and the teardown are modelled, and the safety of each is proved but for
what section 4 lists. What is left:

1. `ChannelKnown` and `RoleKnown` after a ghost: which clients still know their place, as
   `ghosts` asks of the server;
2. the safety half of what the liveness properties rest on, such as that a sleeping worker is one
   for whom nothing waits (`ConnPool`), and that whoever waits for the mutex waits for a
   worker that is in a send (`Teardown`).

Liveness stays with TLC.
