------------------------------ MODULE ChatQueue ------------------------------
(***************************************************************************)
(* The refinement mapping from ChatServer to ChannelQueue: a person is a   *)
(* client, not a name, so that a rename is no step at all.  A channel's    *)
(* line is read off arrived and its chair off nickname_admin, each through *)
(* the member who bears the name now.                                      *)
(***************************************************************************)
EXTENDS ChatServer

Bearer(ch, n) ==
    IF \E c \in Members(ch) : nickname[c] = n
    THEN CHOOSE c \in Members(ch) : nickname[c] = n
    ELSE NULL

Line == [ch \in Channel |->
            [i \in DOMAIN rooms[ch].arrived |-> Bearer(ch, rooms[ch].arrived[i])]]

Chair == [ch \in Channel |-> Bearer(ch, rooms[ch].admin)]

Queue == INSTANCE ChannelQueue
         WITH Person <- Client, Nobody <- NULL, line <- Line, chair <- Chair

(* Every step of the server is a step of the queues of people or changes     *)
(* nothing in them: joins go to the end of one line, a departure by any way  *)
(* (hang-up, kick, refused join) takes one person out of one line, renames   *)
(* and the rest move nobody, and the chair always passes to the next in line *)
(* (channel.cpp 169-239, 257-282).  It supposes a server that receives no    *)
(* /mute and /unmute of absent names.                                        *)
ImplementsQueue == Queue!Spec

=============================================================================
