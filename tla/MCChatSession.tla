---------------------------- MODULE MCChatSession ----------------------------
(* Two users who name themselves, meet in a channel, administer it and leave. *)
EXTENDS ChatSession, TLC

Symmetry == Permutations(Client) \cup Permutations(Nick) \cup Permutations(Channel)

(* What happens after a ghost was inserted is left to ChatServer.             *)
NoGhost == "ghost" \notin damage

(* How the lists of a channel bear on each other is left to the run           *)
(* moderation: at most one is in use, and none while there are two channels.  *)
OneList ==
    Cardinality({ch \in Channel : rooms[ch].live})
      + Cardinality({<<ch, l>> \in Channel \X List : rooms[ch][l] # {}}) <= 2

(* Two lines are under way together only if they are renames and joins, and   *)
(* after an answer was cut only renames are.                                  *)
Under(keywords) ==
    \A c \in Client : \A i \in DOMAIN requests[c] : requests[c][i][1] \in keywords

Unhurried ==
    /\ Pending(requests) > 1 => Under({"/nickname", "/join", Scrap})
    /\ cut # {} => Under({"/nickname", Scrap})

(* No step reads what the last one told, and it is checked as it is sent.     *)
Untold == <<vars, view, requests, answers, ousted, cut>>

=============================================================================
