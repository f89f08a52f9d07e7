------------------------------- MODULE Protocol -------------------------------
(***************************************************************************)
(* The lines that a client and the server exchange: the client's codec     *)
(* (codec.cpp), the server's decoders (decodec.cpp) and what               *)
(* CHANNEL_broadcast (channel.cpp) sends to whom.                          *)
(*                                                                         *)
(* A line is the tuple of its words, a nickname behind its '#' or '@'      *)
(* being a word of its own and a free text one word.  All lines but those  *)
(* that say so end in a newline.                                           *)
(***************************************************************************)
EXTENDS ChatServer

Unended == "~"    \* the last word of a line sent without its newline

(* It stands for what is not there, so nothing has it for a name.             *)
ASSUME UnendedAssumption == Unended \notin Target \cup Channel

NoLine == <<>>

AdminKeywords == {"/invite", "/whois", "/mute", "/unmute", "/kick", "/unkick"}

ServerKeywords ==
    AdminKeywords \cup {"/disconnect", "/quit", "/ping", "/nickname", "/join",
                        "/mode", "/list", "/msg"}

ClientKeywords ==
    ServerKeywords \cup {"/connect", "/help", "/servermsg", "/channelmsg"}

(* What is left of a line that one recv cut in two, and, where a decoder      *)
(* finds no name, the server's echo of the whole command behind a slash.      *)
Scrap == "scrap"

Echo == "//command"

Slashed(word) == word \in ClientKeywords \cup {Echo}

(* Both ends take a line for a command by its beginning, and for a message if *)
(* it does not begin with a slash.                                            *)
cdc_detectar_act(line) ==
    IF line[1] \in ClientKeywords THEN line[1]
    ELSE IF Slashed(line[1]) THEN "none" ELSE "/msg"

detect_action(line) ==
    IF line[1] \in ServerKeywords THEN line[1]
    ELSE IF Slashed(line[1]) THEN "none" ELSE "/msg"

-----------------------------------------------------------------------------
\* The client's encoders: from what a user types to the lines it becomes.

(* The client takes more names for valid than the server does: Unnamed        *)
(* stands for those too.                                                      *)
is_valid_nickname(n) == n \in Target

is_valid_channel_name(ch) == ch \in Channel

cdc_encode_nickname(cmd) ==
    IF Len(cmd) > 1 /\ is_valid_nickname(cmd[2]) THEN <<"/nickname", cmd[2]>> ELSE NoLine

cdc_encode_join(cmd) ==
    IF Len(cmd) > 1 /\ is_valid_channel_name(cmd[2]) THEN <<"/join", cmd[2]>> ELSE NoLine

cdc_encode_mode(cmd) ==
    IF Len(cmd) > 1 /\ cmd[2] \in {"+i", "-i"} THEN <<"/mode", cmd[2]>> ELSE NoLine

(* invite, whois, mute, unmute, kick and unkick. *)
cdc_encode_admin_pattern(cmd) ==
    IF Len(cmd) > 1 /\ is_valid_nickname(cmd[2]) THEN <<cmd[1], cmd[2]>> ELSE NoLine

(* The client signs with the rank and the name it believes it has.            *)
cdc_encode_client_message(view) ==
    <<"/msg", IF view.is_admin THEN "#" ELSE "@", view.nickname, ":", "text">>

-----------------------------------------------------------------------------
\* The server's decoders.

(* decode_nickname, decode_join, decode_invite and their like: the word after *)
(* the command.                                                               *)
HasArgument(line) == Len(line) > 1

Argument(line) == line[2]

decode_mode(line) ==
    IF ~HasArgument(line) THEN "INVALID_PROTOCOL"
    ELSE IF line[2] = "-i" THEN "INVITE_ONLY_ON"
    ELSE IF line[2] = "+i" THEN "INVITE_ONLY_OFF"
    ELSE "INVALID_PROTOCOL"

(* Whether a message is valid.  A line without a separator leaves that        *)
(* variable as the stack had it, and what is left of a line that was cut in   *)
(* its keyword may be a message still.                                        *)
decode_msg(line) ==
    IF Len(line) < 4 THEN BOOLEAN ELSE {line[2] \in {"#", "@"} /\ line[4] = ":"}

-----------------------------------------------------------------------------
\* The client's decoders: the code each answers with.

INVALID_PROTOCOL == "INVALID_PROTOCOL"

(* The word after the command if it is one of these codes and as many words   *)
(* follow as the code asks for.                                               *)
Code(line, codes) ==
    IF Len(line) > 1 /\ line[2] \in codes THEN line[2] ELSE INVALID_PROTOCOL

cdc_decode_nickname(line) ==
    IF Len(line) = 3 /\ is_valid_nickname(line[3])
    THEN Code(line, {"SUCCESS", "ERR_NICKNAMEINUSE", "ERR_ERRONEUSNICKNAME"})
    ELSE INVALID_PROTOCOL

Roles == {"role:user", "role:admin"}

cdc_decode_join_named(line) ==    \* mutant: a refusal, too, must name its channel
    IF Len(line) < 3 THEN INVALID_PROTOCOL
    ELSE Code(line, {"SUCCESS", "RPL_NAMREPLY", "ERR_INVITEONLYCHAN", "ERR_BANNEDFROMCHAN"})

cdc_decode_join(line) ==
    IF Len(line) > 1 /\ line[2] = "SUCCESS"
    THEN IF Len(line) = 4 /\ line[4] \in Roles THEN "SUCCESS" ELSE INVALID_PROTOCOL
    ELSE Code(line, {"RPL_NAMREPLY", "ERR_INVITEONLYCHAN", "ERR_BANNEDFROMCHAN",
                     "ERR_TOOMANYCHANNELS", "ERR_CHANNELISFULL"})

cdc_decode_client_message(line) ==
    IF line[1] = "/msg" /\ Len(line) = 5 THEN "SUCCESS" ELSE INVALID_PROTOCOL

cdc_decode_list(line) == IF Len(line) > 1 THEN "SUCCESS" ELSE INVALID_PROTOCOL

cdc_decode_mode(line) == Code(line, {"SUCCESS", "ERR_CHANOPRIVSNEEDED"})

cdc_decode_whois(line) ==
    IF Len(line) = 4 THEN Code(line, {"SUCCESS", "ERR_NOSUCHNICK", "ERR_CHANOPRIVSNEEDED"})
    ELSE Code(line, {"ERR_NOSUCHNICK", "ERR_CHANOPRIVSNEEDED"})

cdc_decode_admin_pattern(line) ==
    IF Len(line) = 3 THEN Code(line, {"SUCCESS", "ERR_NOSUCHNICK", "ERR_CHANOPRIVSNEEDED"})
    ELSE Code(line, {"ERR_NOSUCHNICK", "ERR_CHANOPRIVSNEEDED"})

cdc_decode_X_message(line) ==
    IF Len(line) > 2 /\ line[2] = ":" THEN "SUCCESS" ELSE INVALID_PROTOCOL

(* What the output thread makes of a line; a line that no case of its switch  *)
(* takes, or no decoder understands, shows nothing.                           *)
Understood(line) ==
    LET act == cdc_detectar_act(line)
    IN  CASE act = "/nickname" -> cdc_decode_nickname(line)
          [] act = "/join" -> cdc_decode_join(line)
          [] act = "/list" -> cdc_decode_list(line)
          [] act = "/mode" -> cdc_decode_mode(line)
          [] act = "/whois" -> cdc_decode_whois(line)
          [] act \in AdminKeywords \ {"/whois"} -> cdc_decode_admin_pattern(line)
          [] act = "/msg" -> cdc_decode_client_message(line)
          [] act \in {"/servermsg", "/channelmsg"} -> cdc_decode_X_message(line)
          [] OTHER -> INVALID_PROTOCOL

-----------------------------------------------------------------------------
\* What the server sends: a sequence of lines, each with its receivers.

One(c, line) == [to |-> {c}, line |-> line]

(* CHANNEL_send_message_all: every socket in participants.                    *)
All(r, line) == [to |-> {e[2] : e \in r.participants}, line |-> line]

Notice(words) == <<"/channelmsg", ":">> \o words

Servermsg(text) == <<"/servermsg", ":", text>>

Role(r, name) == IF r.admin = name THEN "#" ELSE "@"

(* CHANNEL_list_participants: the first to arrive is taken for the            *)
(* administrator.                                                             *)
CHANNEL_list_participants(r) ==
    [k \in 1 .. 2 * Len(r.arrived) |->
        IF k % 2 = 0 THEN r.arrived[k \div 2] ELSE IF k = 1 THEN "#" ELSE "@"]

(* The names of all channels are one text.                                    *)
CHANNEL_list ==
    IF \E ch \in Channel : rooms[ch].live THEN <<"/list", "names">>
    ELSE Notice(<<"no channels">>)

(* CHANNEL_broadcast, the cases about who is in the channel ch, whose room is *)
(* r, for the client c under the name me.                                     *)
Membership(ch, r, c, me, type, arg) ==
    CASE type = "MESSAGE_CLIENT" ->
            <<All(r, <<"/msg", Role(r, me), me, ":", arg>>)>>
      [] type = "MESSAGE_CHANGE_NICKNAME" ->
            <<All(r, Notice(<<Role(r, me), arg, Role(r, me), me>>))>>
      [] type = "MESSAGE_NEW_JOIN_CHANNEL" ->
            <<One(c, <<"/join", "SUCCESS", ch, "role:admin">>),
              One(c, <<"/join", "RPL_NAMREPLY", ch, "#", me>>)>>
      [] type = "MESSAGE_JOIN_CHANNEL" ->
            <<One(c, <<"/join", "SUCCESS", ch, "role:user">>),
              One(c, <<"/join", "RPL_NAMREPLY", ch>> \o CHANNEL_list_participants(r)),
              All(r, Notice(<<Role(r, me), me, "in", ch>>))>>
      [] type = "MESSAGE_NEW_ADMIN_CHANNEL" ->
            <<One(c, <<"/join", "SUCCESS", ch, "role:admin">>),
              All(r, Notice(<<"#", me, "administers">>))>>
      [] type = "MESSAGE_QUIT_CHANNEL" ->
            <<All(r, Notice(<<Role(r, me), me, "out", ch>>))>>
      [] type \in {"ERR_INVITEONLYCHAN", "ERR_BANNEDFROMCHAN"} ->
            <<One(c, <<"/join", type>>)>>

(* CHANNEL_broadcast, the cases about administration: keyword is the command, *)
(* outcome SUCCESS or an error, arg the name it is about.  A command that     *)
(* lacks privilege is answered without a newline, and for /unkick only        *)
(* success has a case at all.                                                 *)
Administration(ch, r, c, keyword, outcome, arg) ==
    CASE outcome = "SUCCESS" /\ keyword = "/kick" ->
            <<All(r, Notice(<<arg, "banned">>)), One(c, <<"/kick", "SUCCESS", arg>>)>>
      [] outcome = "SUCCESS" /\ keyword = "/mute" ->
            <<All(r, Notice(<<arg, "silenced">>)), One(c, <<"/mute", "SUCCESS", arg>>)>>
      [] outcome = "SUCCESS" /\ keyword = "/unmute" ->
            <<All(r, Notice(<<arg, "may speak">>)), One(c, <<"/unmute", "SUCCESS", arg>>)>>
      [] outcome = "SUCCESS" /\ keyword = "/mode" ->
            <<One(c, <<"/mode", "SUCCESS">>), All(r, Notice(<<ch, arg>>))>>
      [] outcome = "SUCCESS" /\ keyword = "/whois" ->
            <<One(c, <<"/whois", "SUCCESS", arg, "address">>)>>
      [] outcome = "SUCCESS" /\ keyword \in {"/unkick", "/invite"} ->
            <<One(c, <<keyword, "SUCCESS", arg>>)>>
      [] outcome = "ERR_NOSUCHNICK" /\ keyword # "/unkick" ->
            <<One(c, <<keyword, "ERR_NOSUCHNICK", arg>>)>>
      [] outcome = "ERR_CHANOPRIVSNEEDED" /\ keyword # "/unkick" ->
            <<One(c, <<keyword, "ERR_CHANOPRIVSNEEDED", Unended>>)>>
      [] OTHER -> <<>>

(* What a client outside of a channel is told: one string of three lines.     *)
Strays == {<<"\t/join", "to enter">>, <<"\t/list", "to see">>}

EnterFirst(c) ==
    <<One(c, Servermsg("enter a channel")),
      One(c, <<"\t/join", "to enter">>), One(c, <<"\t/list", "to see">>)>>

=============================================================================
