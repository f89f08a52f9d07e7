----------------------------- MODULE ChatSession -----------------------------
(***************************************************************************)
(* The server and its clients together.  A user types, the client lets     *)
(* pass what its own idea of the session allows (main.cpp 387-594) and     *)
(* sends it; the server runs what one recv gave it and answers; the        *)
(* client's output thread reads the answers and corrects its idea          *)
(* (main.cpp 671-836).  Between them are two streams of bytes, which a     *)
(* recv may hand over with several lines at once or with a line cut in two. *)
(*                                                                         *)
(* The module follows the server until the first ghost: ChatServer says    *)
(* what happens then.  Answers that change nothing a client knows are seen *)
(* in the step that sends them (told) and are not put in its stream.       *)
(***************************************************************************)
EXTENDS Protocol, Packets, Ordered

CONSTANTS
    Typed,         \* the keywords that the users of an instance type
    Written,       \* the keywords of commands that their messages contain
    MaxRequests,   \* bound on the lines under way to the server when one is typed
    MaxAnswers,    \* bound on the answers under way to the clients then
    MaxCuts        \* bound on the answers that a client's recv cuts in two

ASSUME SessionAssumption ==
    /\ Typed \cup Written \subseteq ServerKeywords
    /\ {MaxRequests, MaxAnswers, MaxCuts} \subseteq Nat

VARIABLES
    view,       \* view[c]: what the client c believes of itself
    requests,   \* requests[c]: the lines under way from c to the server
    answers,    \* answers[c]: the lines under way to c that change view[c]
    told,       \* history: the lines that the last step sent, which no step reads
    ousted,     \* history: who was put out of its channel by others
    cut         \* history: whose answers a recv has cut in two

session == <<view, requests, answers, told, ousted, cut>>

(* fechar_conexao leaves a client as it began, but for the texts of its name  *)
(* and channel: nothing reads them again before an answer replaces them.      *)
Blank == [open |-> FALSE, has_nick |-> FALSE, nickname |-> Unnamed,
          has_channel |-> FALSE, channel |-> NULL, is_admin |-> FALSE]

SInit ==
    /\ Init
    /\ view = [c \in Client |-> Blank]
    /\ requests = [c \in Client |-> <<>>]
    /\ answers = [c \in Client |-> <<>>]
    /\ told = {}
    /\ ousted = {}
    /\ cut = {}

Pending(stream) == FoldFunction(LAMBDA q, n : Len(q) + n, 0, stream)

-----------------------------------------------------------------------------
\* The client.

(* What is typed: names that clients bear or may bear, and for one's own name *)
(* also one that only the client finds valid.                                 *)
Inputs ==
    {<<k, n>> : k \in AdminKeywords \cup {"/nickname"}, n \in Nick}
      \cup {<<"/nickname", Unnamed>>}
      \cup {<<"/join", ch>> : ch \in Channel}
      \cup {<<"/mode", "+i">>, <<"/mode", "-i">>, <<"/msg">>, <<"/ping">>, <<"/list">>}

Passes_unnamed(v, input) ==    \* mutant: has_nick is not asked for
    v.open /\ (input[1] \notin {"/nickname", "/ping", "/list", "/join"} => v.has_channel)

(* The client's guards, the same for all that need a channel.                 *)
Passes(v, input) ==
    /\ v.open
    /\ input[1] \notin {"/nickname", "/ping", "/list"} => v.has_nick
    /\ input[1] \notin {"/nickname", "/ping", "/list", "/join"} => v.has_channel

Encoded(v, input) ==
    CASE input[1] = "/nickname" -> cdc_encode_nickname(input)
      [] input[1] = "/join" -> cdc_encode_join(input)
      [] input[1] = "/mode" -> cdc_encode_mode(input)
      [] input[1] \in AdminKeywords -> cdc_encode_admin_pattern(input)
      [] input[1] = "/msg" -> cdc_encode_client_message(v)
      [] OTHER -> input

Type(c) ==
    /\ fault = "none"
    /\ Pending(requests) < MaxRequests
    /\ Pending(answers) < MaxAnswers
    /\ \E input \in Inputs :
         /\ input[1] \in Typed
         /\ Passes(view[c], input)
         /\ Encoded(view[c], input) # NoLine
         /\ requests' = [requests EXCEPT ![c] = Append(@, Encoded(view[c], input))]
    /\ told' = {}
    /\ UNCHANGED <<vars, view, answers, ousted, cut>>

Learned_once(v, line) ==    \* mutant: the first name and the first channel are kept
    IF line[1] = "/nickname" /\ Understood(line) = "SUCCESS" /\ ~v.has_nick
    THEN [v EXCEPT !.nickname = line[3], !.has_nick = TRUE]
    ELSE IF line[1] = "/join" /\ Understood(line) = "SUCCESS" /\ ~v.has_channel
    THEN [v EXCEPT !.channel = line[3], !.has_channel = TRUE,
                   !.is_admin = line[4] = "role:admin"]
    ELSE v

(* What the client knows after a line.                                        *)
Learned(v, line) ==
    IF line[1] = "/nickname" /\ Understood(line) = "SUCCESS"
    THEN [v EXCEPT !.nickname = line[3], !.has_nick = TRUE]
    ELSE IF line[1] = "/join" /\ Understood(line) = "SUCCESS"
    THEN [v EXCEPT !.channel = line[3], !.has_channel = TRUE,
                   !.is_admin = line[4] = "role:admin"]
    ELSE v

Read(c) ==
    /\ view[c].open
    /\ answers[c] # <<>>
    /\ view' = [view EXCEPT ![c] = Learned(@, Head(answers[c]))]
    /\ answers' = [answers EXCEPT ![c] = Tail(@)]
    /\ told' = {}
    /\ UNCHANGED <<vars, requests, ousted, cut>>

(* The output thread reads between two recvs that share a line: it decodes    *)
(* the beginning as if that were all, so that a name is cut short, or it      *)
(* understands neither half.                                                  *)
ReadCut(c) ==
    /\ view[c].open
    /\ answers[c] # <<>>
    /\ Cardinality(cut) < MaxCuts
    /\ \E v \in {view[c]} \cup
                {Learned(view[c], [Head(answers[c]) EXCEPT ![3] = short]) :
                     short \in IF Head(answers[c])[1] = "/nickname" THEN Nick ELSE {}} :
         view' = [view EXCEPT ![c] = v]
    /\ answers' = [answers EXCEPT ![c] = Tail(@)]
    /\ told' = {}
    /\ cut' = cut \cup {c}
    /\ UNCHANGED <<vars, requests, ousted>>

(* /disconnect, or the program ends.                                          *)
Close(c) ==
    /\ view[c].open
    /\ view' = [view EXCEPT ![c] = Blank]
    /\ answers' = [answers EXCEPT ![c] = <<>>]
    /\ told' = {}
    /\ UNCHANGED <<vars, requests, ousted, cut>>

-----------------------------------------------------------------------------
\* What the server says.

Changing(line) == line[1] \in {"/nickname", "/join"} /\ line[2] = "SUCCESS"

Lines(sends, c) ==
    LET heard == Ascending({i \in DOMAIN sends : c \in sends[i].to /\ Changing(sends[i].line)})
    IN  [k \in DOMAIN heard |-> sends[heard[k]].line]

(* Sends go to the sockets at once, in this order; nobody reads any more what *)
(* a closed connection is sent.                                               *)
Say(sends) ==
    /\ answers' = [c \in Client |->
                     IF view[c].open THEN answers[c] \o Lines(sends, c) ELSE <<>>]
    /\ told' = {sends[i].line : i \in {j \in DOMAIN sends : sends[j].to # {}}}

Idle == Quiet /\ UNCHANGED <<conn, nickname, channelOf, rooms, damage>>

(* The handler answers and leaves all as it is.                               *)
Refuse(sends) == Idle /\ Say(sends) /\ UNCHANGED ousted

(* CHANNEL_broadcast to a channel that c is in when the step is over.         *)
Reports(ch, c, me, type, arg) == Membership(ch, rooms'[ch], c, me, type, arg)

Succeeds_silent(ch, before, r) == <<>>    \* mutant: nobody is told

(* Whether r has another administrator than before is announced to all in it, *)
(* and the heir, who is looked up by name, is told its role.                  *)
Succeeds(ch, before, r) ==
    IF r.live /\ r.admin # before.admin
    THEN LET heir == CHOOSE d \in Named(r.admin) : TRUE
         IN  Membership(ch, r, heir, r.admin, "MESSAGE_NEW_ADMIN_CHANNEL", "")
    ELSE <<>>

-----------------------------------------------------------------------------
\* clt_run, by what detect_action finds.

RunNickname(c, line) ==
    LET me == nickname[c]
        n  == IF HasArgument(line) THEN Argument(line) ELSE Unnamed
    IN  \/ /\ n \in Nick
           /\ Nickname(c, n)
           /\ Say(<<One(c, <<"/nickname", "SUCCESS", n>>)>> \o
                  IF channelOf[c] = NULL THEN <<>>
                  ELSE Reports(channelOf[c], c, n, "MESSAGE_CHANGE_NICKNAME", me))
           /\ UNCHANGED ousted
        \/ /\ n \in Nick
           /\ Named(n) # {}
           /\ Refuse(<<One(c, <<"/nickname", "ERR_NICKNAMEINUSE", n>>)>>)
        \/ /\ n \notin Nick
           /\ Refuse(<<One(c, <<"/nickname", "ERR_ERRONEUSNICKNAME">> \o Tail(line))>>)

(* The old channel hears of its new administrator first, then the farewell.   *)
Leaves(c, rs) ==
    LET ch == channelOf[c]
    IN  IF ch = NULL THEN <<>>
        ELSE IF ~rs[ch].live THEN <<>>
        ELSE Succeeds(ch, rooms[ch], rs[ch])
               \o Membership(ch, rs[ch], c, nickname[c], "MESSAGE_QUIT_CHANNEL", "")

Reasons(r, n) ==
    (IF TRUE \in Listed(r, "banned", n) THEN {"ERR_BANNEDFROMCHAN"} ELSE {})
      \cup (IF FALSE \in Listed(r, "banned", n) THEN {"ERR_INVITEONLYCHAN"} ELSE {})

RunJoin(c, line) ==
    \/ /\ ~HasName(c)
       /\ Refuse(<<One(c, <<"/nickname", "ERR_NICKNAMEINUSE", nickname[c]>>)>>)
    \/ /\ HasName(c)
       /\ HasArgument(line) => Argument(line) \notin Channel
       /\ Refuse(<<One(c, <<"/join", "ERR_BADCHANNELKEY", nickname[c]>>)>>)
    \/ /\ HasArgument(line) /\ Argument(line) \in Channel
       /\ LET ch == Argument(line)
              me == nickname[c]
          IN  /\ Join(c, ch)
              /\ \E rs \in AfterLeaving(c) :
                   \/ /\ channelOf'[c] = ch
                      /\ Say(Leaves(c, rs) \o
                             Reports(ch, c, me,
                                     IF rs[ch].live THEN "MESSAGE_JOIN_CHANNEL"
                                     ELSE "MESSAGE_NEW_JOIN_CHANNEL", ""))
                      /\ ousted' = ousted \ {c}
                   \/ /\ channelOf'[c] = NULL
                      /\ \E reason \in Reasons(rs[ch], me) :
                           Say(Leaves(c, rs) \o Membership(ch, rs[ch], c, me, reason, ""))
                      /\ ousted' = IF channelOf[c] = NULL THEN ousted ELSE ousted \cup {c}

(* A command for administrators that its client may give.                     *)
Answered(c, keyword, outcome, arg) ==
    Administration(channelOf[c], rooms'[channelOf[c]], c, keyword, outcome, arg)

(* clt_run's own question, CHANNEL_check_privilege; its answer ends in a      *)
(* newline, those of the channel operations do not.                           *)
Denied_never(c) == FALSE    \* mutant: the channel operation is left to ask

Denied(c) == channelOf[c] # NULL /\ ~Privileged(c)

(* The channel operation of an administrator's command: what it does, and     *)
(* otherwise the error it answers with.                                       *)
Does(c, keyword, n) ==
    CASE keyword = "/invite" -> Invite(c, n)
      [] keyword = "/kick" -> Kick(c, n)
      [] keyword = "/unkick" -> Unkick(c, n)
      [] keyword = "/mute" -> Mute(c, n)
      [] keyword = "/unmute" -> Unmute(c, n)
      [] keyword = "/whois" -> Privileged(c) /\ Entries(Own(c), n) # {} /\ Idle

(* The errors it may answer with: the name is not one that the command can    *)
(* be about, or, as each asks once more, c is not the administrator.          *)
NoSuchNick(c, keyword, n) ==
    CASE keyword = "/unkick" -> Named(n) = {} \/ FALSE \in Listed(Own(c), "banned", n)
      [] keyword \in {"/invite", "/mute"} -> Named(n) = {}
      [] keyword \in {"/kick", "/whois"} -> Entries(Own(c), n) = {}
      [] OTHER -> FALSE

Errors(c, keyword, n) ==
    {"ERR_NOSUCHNICK" : x \in {y \in {n} : NoSuchNick(c, keyword, y)}}
      \cup {"ERR_CHANOPRIVSNEEDED" : x \in {y \in {c} : ~Privileged(y)}}

Fails(c, keyword, n) ==
    \E error \in Errors(c, keyword, n) : Idle /\ Say(Answered(c, keyword, error, n))

RunMode(c, line) ==
    LET mode == decode_mode(line)
    IN  \/ Denied(c) /\ Refuse(<<One(c, <<"/mode", "ERR_CHANOPRIVSNEEDED">>)>>)
        \/ /\ channelOf[c] # NULL /\ ~Denied(c)
           /\ mode = INVALID_PROTOCOL
           /\ Refuse(<<One(c, Servermsg("Invalid protocol."))>>)
        \/ /\ channelOf[c] # NULL /\ ~Denied(c)
           /\ mode # INVALID_PROTOCOL
           /\ \/ /\ Mode(c, mode = "INVITE_ONLY_ON")
                 /\ Say(Answered(c, "/mode", "SUCCESS", mode))
              \/ Fails(c, "/mode", mode)
           /\ UNCHANGED ousted

(* /mute and /unmute of an absent name insert a ghost and answer so.          *)
Outcome == IF damage' = damage THEN "SUCCESS" ELSE "ERR_NOSUCHNICK"

(* What else is said, before the answer and after it.                         *)
Before(c, keyword, n) ==
    IF keyword = "/kick"
    THEN LET ch == channelOf[c]
         IN  Succeeds(ch, rooms[ch], rooms'[ch])
               \o <<One(CHOOSE d \in Named(n) : TRUE, Servermsg("banned"))>>
    ELSE <<>>

After(keyword, n) ==
    IF keyword \in {"/invite", "/unkick"}
    THEN <<One(CHOOSE d \in Named(n) : TRUE, Servermsg("welcome"))>>
    ELSE <<>>

RunAdmin(c, line) ==
    LET keyword == line[1]
        n       == Argument(line)
    IN  \/ /\ Denied(c)
           /\ Refuse(<<One(c, <<keyword, "ERR_CHANOPRIVSNEEDED">>)>>)
        \/ /\ channelOf[c] # NULL /\ ~Denied(c)
           /\ ~HasArgument(line)
           /\ Refuse(<<One(c, <<IF keyword = "/whois" THEN keyword ELSE Echo,
                              "ERR_NOSUCHNICK">>)>>)
        \/ /\ channelOf[c] # NULL /\ ~Denied(c)
           /\ HasArgument(line)
           /\ \/ /\ Does(c, keyword, n)
                 /\ Say(Before(c, keyword, n) \o Answered(c, keyword, Outcome, n)
                          \o After(keyword, n))
                 /\ ousted' = IF keyword = "/kick" THEN ousted \cup Named(n) ELSE ousted
              \/ Fails(c, keyword, n) /\ UNCHANGED ousted

RunMessage(c, line) ==
    \/ /\ channelOf[c] # NULL
       /\ FALSE \in decode_msg(line)
       /\ Refuse(<<One(c, Servermsg("Invalid protocol."))>>)
    \/ /\ TRUE \in decode_msg(line)
       /\ Message(c)
       /\ Say(Reports(channelOf[c], c, nickname[c], "MESSAGE_CLIENT", "text"))
       /\ UNCHANGED ousted
    \/ /\ channelOf[c] # NULL
       /\ TRUE \in decode_msg(line)
       /\ TRUE \in Listed(Own(c), "muted", nickname[c])
       /\ Refuse(<<One(c, Notice(<<"silenced">>))>>)

clt_run(c, line) ==
    LET act == detect_action(line)
    IN  \/ act = "/nickname" /\ RunNickname(c, line)
        \/ act = "/join" /\ RunJoin(c, line)
        \/ act = "/mode" /\ RunMode(c, line)
        \/ act \in AdminKeywords /\ RunAdmin(c, line)
        \/ act = "/msg" /\ RunMessage(c, line)
        \/ /\ act \in AdminKeywords \cup {"/mode", "/msg"}
           /\ channelOf[c] = NULL
           /\ Refuse(EnterFirst(c))
        \/ act = "/ping" /\ Refuse(<<One(c, Servermsg("pong"))>>)
        \/ act = "/list" /\ Refuse(<<One(c, CHANNEL_list)>>)
        \/ act = "none" /\ Refuse(<<>>)

-----------------------------------------------------------------------------
\* The server's steps.

(* The beginning of a line that ends where a recv does: no more than a part   *)
(* of the command, the command without its argument, or a part of that.       *)
Beginnings(line) ==
    {<<Echo>>, <<line[1]>>}
      \cup {<<line[1], short>> :
               short \in CASE line[1] = "/join" -> Channel \cup {"&"}
                          [] line[1] = "/nickname" -> Target
                          [] line[1] \in AdminKeywords -> Nick
                          [] OTHER -> {}}

(* The rest of a cut line: nothing that begins with a slash, unless a message *)
(* is cut before a command that its text contains.  (A rest that is cut again *)
(* makes one more message of the same text, which changes nothing.)           *)
Rests(line) ==
    {<<Scrap>>}
      \cup {input \in Inputs : line[1] = "/msg" /\ input[1] \in Written \ {"/msg"}}

(* Where a line is cut: no rest begins with a slash if the keyword is cut.    *)
Cuts(line) ==
    {c \in Beginnings(line) \X Rests(line) :
        line # <<Scrap>> /\ (c[1] = <<Echo>> => c[2] = <<Scrap>>)}

(* One recv: some lines, the last of which may be cut.  The first is run, the *)
(* others are dropped; the rest of a cut line is what the next recv begins    *)
(* with, and is run for what it looks like.                                   *)
Receptions(q) ==
    {[line |-> Head(q), left |-> SubSeq(q, k + 1, Len(q))] : k \in 1 .. Len(q)}
      \cup {[line |-> c[1], left |-> <<c[2]>> \o Tail(q)] : c \in Cuts(Head(q))}
      \cup UNION {{[line |-> Head(q), left |-> <<rest>> \o SubSeq(q, k + 1, Len(q))] :
                     rest \in Rests(q[k])} : k \in 2 .. Len(q)}

(* The process dies in the handler: the crashes of ChatServer, and the copy   *)
(* of a command up to a space that it does not have (clients.cpp 501).        *)
Dies(c, line) ==
    /\ \/ /\ detect_action(line) = "/join" /\ HasArgument(line)
          /\ Argument(line) \in Channel
          /\ JoinUsesDestroyed(c)
       \/ /\ detect_action(line) = "/kick" /\ HasArgument(line)
          /\ KickUsesDestroyed(c, Argument(line))
       \/ /\ detect_action(line) \in AdminKeywords \ {"/whois"}
          /\ ~HasArgument(line)
          /\ Denied(c)
          /\ Crash("overrun")
    /\ told' = {}
    /\ UNCHANGED <<answers, ousted>>

Handle(c) ==
    /\ Runs(c)
    /\ requests[c] # <<>>
    /\ \E got \in Receptions(requests[c]) :
         /\ requests' = [requests EXCEPT ![c] = got.left]
         /\ clt_run(c, got.line) \/ Dies(c, got.line)
    /\ UNCHANGED <<view, cut>>

Open(c) ==
    /\ Connect(c)
    /\ view' = [view EXCEPT ![c].open = TRUE]
    /\ told' = {}
    /\ UNCHANGED <<requests, answers, ousted, cut>>

(* The farewell goes out before c leaves; what c sent and nobody read is gone.*)
Departs(c) ==
    /\ ~view[c].open
    /\ HangUp(c)
    /\ requests' = [requests EXCEPT ![c] = <<>>]
    /\ LET ch == channelOf[c]
       IN  Say(IF ch = NULL THEN <<>>
               ELSE Membership(ch, rooms[ch], c, nickname[c], "MESSAGE_QUIT_CHANNEL", "")
                      \o Succeeds(ch, rooms[ch], rooms'[ch]))
    /\ UNCHANGED <<view, ousted, cut>>

Forget(c) ==
    /\ Destroy(c)
    /\ told' = {}
    /\ UNCHANGED <<view, requests, answers, ousted, cut>>

SNext ==
    \E c \in Client :
        \/ Open(c) \/ Type(c) \/ Read(c) \/ ReadCut(c) \/ Close(c)
        \/ Handle(c) \/ Departs(c) \/ Forget(c)

SSpec == SInit /\ [][SNext]_<<vars, session>>

-----------------------------------------------------------------------------
\* Properties.

(* c has read all that the server told it, and read it whole. *)
CaughtUp(c) ==
    /\ fault = "none"
    /\ conn[c] = "served" /\ view[c].open
    /\ answers[c] = <<>> /\ c \notin cut

Messages(c) == {line \in ToSet(requests[c]) : line[1] = "/msg"}

(* A client that has read its answers knows the name under which the server  *)
(* has it, although of the lines it sent some were dropped, cut in two or    *)
(* refused (clients.cpp 301, main.cpp 687-692).                              *)
NicknameKnown ==
    \A c \in Client : CaughtUp(c) =>
        /\ view[c].has_nick <=> nickname[c] # Unnamed
        /\ view[c].has_nick => view[c].nickname = nickname[c]

(* It knows the channel it is in; and if it believes to be in one that it is *)
(* not in, others put it out: a kick, or a refusal of the next channel after *)
(* it had left this one.  Nothing tells the client then (main.cpp 547).      *)
ChannelKnown ==
    \A c \in Client : CaughtUp(c) =>
        /\ channelOf[c] # NULL => /\ view[c].has_channel
                                 /\ view[c].channel = channelOf[c]
        /\ channelOf[c] = NULL /\ view[c].has_channel => c \in ousted

(* It knows whether it administers that channel, through every succession,   *)
(* rename, departure and return (channel.cpp 192-199, 571-616).              *)
RoleKnown ==
    \A c \in Client : CaughtUp(c) /\ channelOf[c] # NULL =>
        (view[c].is_admin <=> Privileged(c))

(* Every line the server sends ends in a newline, though the refusals of     *)
(* CHANNEL_broadcast do not (channel.cpp 675-746): clt_run has always asked  *)
(* before.  A line that did not end would swallow the next one.              *)
AnswersEnd == [][\A line \in told' : Last(line) # Unended]_told

(* The client's codec understands all that the server says, but for the two  *)
(* stray lines that come with the advice to enter a channel, and the answers *)
(* to commands that a recv cut: to a rename without a name, to an            *)
(* administrator's command without one, and to a join of a bad name.         *)
AnswersUnderstood ==
    [][\A line \in told' :
          \/ Understood(line) # INVALID_PROTOCOL
          \/ line \in Strays
          \/ line \in {<<"/nickname", "ERR_ERRONEUSNICKNAME">>, <<Echo, "ERR_NOSUCHNICK">>}
          \/ line[1] = "/join" /\ line[2] = "ERR_BADCHANNELKEY"]_told

(* A message under way, whatever the length of its text and of its author's  *)
(* name, was cut into packets that hold the whole text and that the server   *)
(* receives whole: the count of packets and the bytes that each takes are    *)
(* computed apart (codec.cpp 169-192).                                       *)
PacketsWhole == \A c \in Client : Messages(c) # {} => CutWhole

(* Nothing of it is lost on a receiver's screen, if the server relays it     *)
(* under the name for which it was cut and that name has from 3 to 49        *)
(* letters: the decoder has limits of its own (codec.cpp 356-377).           *)
ShownWhole ==
    \A c \in Client : \A line \in Messages(c) : line[3] = nickname[c] => Fits

(* A client that asks to join has a name by then, as the server knows it:    *)
(* its own guard (main.cpp 539) has waited for the server's answer.          *)
JoinsAreNamed ==
    \A c \in Client : \A i \in DOMAIN requests[c] :
        requests[c][i][1] = "/join" => HasName(c)

=============================================================================
