------------------------------ MODULE ChatServer ------------------------------
(***************************************************************************)
(* The chat server's shared state, clt_run (clients.cpp) and the channel   *)
(* operations it calls (channel.cpp): who is connected under which         *)
(* nickname, which channels exist, who is in them and who administers      *)
(* them.  Every command runs under the server's one mutex (clients.cpp     *)
(* 307-576), so each is one action.  The teardown of a client whose        *)
(* connection ended (clients.cpp 579-587, then clt_destruir) takes no      *)
(* mutex; here it is two atomic steps, so this module is the server as it  *)
(* behaves when no two of its threads touch a channel at once.             *)
(*                                                                         *)
(* Sends always succeed here: a peer that is gone is noticed by recv.      *)
(*                                                                         *)
(* Two things in the code make a tree lie about its keys, and both are in  *)
(* the model.  CHANNEL_mute_user and CHANNEL_unmute_user index the map of  *)
(* participants with a name that need not be there, which inserts it, with *)
(* the caller's command buffer as its key (a "ghost").  And the sets of    *)
(* banned, muted and invited names hold pointers to the clients' nickname  *)
(* buffers, which a rename overwrites in place.  A search in such a tree   *)
(* may miss what it holds.                                                 *)
(***************************************************************************)
EXTENDS Naturals, SequencesExt

CONSTANTS
    Client,      \* connections; each has a struct client of its own, never freed
    Nick,        \* nicknames that clt_validate_nickname accepts
    Channel,     \* names that CHANNEL_is_valid_channel_name accepts
    Unnamed,     \* "invalid", the nickname of a client that has not chosen one
    NULL,        \* no channel
    Commands,    \* the commands that the clients of an instance send
    MaxArrived   \* bound on the length of a channel's list of arrivals

AllCommands ==
    {"NICK", "JOIN", "MODE", "INVITE", "KICK", "UNKICK", "MUTE", "UNMUTE",
     "WHOIS", "MESSAGE"}

ASSUME NamesAssumption == Unnamed \notin Nick /\ NULL \notin Channel
ASSUME BoundsAssumption == Commands \subseteq AllCommands /\ MaxArrived \in Nat

VARIABLES
    conn,        \* conn[c]: where the connection c is in its life
    nickname,    \* nickname[c]: the text in clt->nickname
    channelOf,   \* channelOf[c]: the name of *clt->channel, or NULL
    rooms,       \* rooms[ch]: what the map "channels" holds under ch
    relayed,     \* <<sender, receiver>> of the message the last step relayed
    damage,      \* history: what has happened to some tree of some channel
    fault        \* what killed the server process, if anything did

vars == <<conn, nickname, channelOf, rooms, relayed, damage, fault>>

-----------------------------------------------------------------------------
\* States.

List == {"banned", "muted", "invited"}

(* A CHANNEL_conn.  participants: <<nickname, socket>> pairs, a socket being *)
(* its client.  arrived: nicknames, longest there first (the code's integer  *)
(* keys only order them).  banned, muted, invited: the clients whose         *)
(* nickname buffer is in the set.  ghosts: participants also holds an entry  *)
(* with value 0 for each of these clients, whose key is the command buffer   *)
(* of its worker.  disorder: the sets whose order a rename may have broken.  *)
Room ==
    [live : BOOLEAN, participants : SUBSET (Nick \X Client), arrived : Seq(Nick),
     admin : Nick \cup {Unnamed}, is_public : BOOLEAN,
     banned : SUBSET Client, muted : SUBSET Client, invited : SUBSET Client,
     ghosts : SUBSET Client, disorder : SUBSET List]

NoRoom ==
    [live |-> FALSE, participants |-> {}, arrived |-> <<>>,
     admin |-> Unnamed, is_public |-> TRUE,
     banned |-> {}, muted |-> {}, invited |-> {},
     ghosts |-> {}, disorder |-> {}]

Init ==
    /\ conn = [c \in Client |-> "new"]
    /\ nickname = [c \in Client |-> Unnamed]
    /\ channelOf = [c \in Client |-> NULL]
    /\ rooms = [ch \in Channel |-> NoRoom]
    /\ relayed = {}
    /\ damage = {}
    /\ fault = "none"

Named_elsewhere(n) ==    \* mutant: looks only at clients that are in a channel
    {c \in Client : conn[c] = "served" /\ channelOf[c] # NULL /\ nickname[c] = n}

\* clt_get_by_nickname: the clients in cl_arr that could be its answer
Named(n) == {c \in Client : conn[c] \in {"served", "leaving"} /\ nickname[c] = n}

-----------------------------------------------------------------------------
\* The maps and sets of a channel.  Each operator is the set of its outcomes.

Entries(r, n) == {e \in r.participants : e[1] = n}

(* The key of a ghost is the command buffer of the worker that inserted it:   *)
(* empty while that worker waits for a command, and the argument of the one   *)
(* it is running otherwise.  The worker runs for c if it inserted the ghost   *)
(* for c, or may do so once that client is no longer served.                  *)
Echoes(r, c) == \E o \in r.ghosts : o = c \/ conn[o] # "served"

(* participants.find(n), n being the argument of c's command, reaches an      *)
(* entry.  With a ghost in the tree it may miss what is there, and it may     *)
(* answer with the ghost that the argument itself has become.                 *)
Finds(r, n, c) ==
    IF r.ghosts = {} THEN {Entries(r, n) # {}}
    ELSE {FALSE} \cup {TRUE : x \in {y \in {n} : Entries(r, y) # {} \/ Echoes(r, c)}}

(* participants.erase(n).  Finding n among ghosts may erase some of them with *)
(* it, for they no longer stand where their key says; echo: n is the argument *)
(* that a ghost's key repeats, so that the ghost may go in its stead.         *)
Erase(r, n, echo) ==
    LET rest == r.participants \ Entries(r, n)
        Left(p, g) == [r EXCEPT !.participants = p, !.ghosts = g]
    IN  IF r.ghosts = {} THEN {Left(rest, {})}
        ELSE {Left(r.participants, r.ghosts)}
               \cup {Left(rest, g) : g \in SUBSET r.ghosts}
               \cup (IF echo THEN {Left(r.participants, g) : g \in SUBSET r.ghosts} ELSE {})

(* map_insert_key_char(participants, n, socket): a key already there stays.   *)
Insert(r, n, c, echo) ==
    LET added == [r EXCEPT !.participants = @ \cup {<<n, c>>}]
    IN  IF r.ghosts = {} THEN {IF Entries(r, n) # {} THEN r ELSE added}
        ELSE {added} \cup (IF echo \/ Entries(r, n) # {} THEN {r} ELSE {})

Holding(s, n) == {c \in s : nickname[c] = n}

(* A search for n in a set may go astray if the set is out of order and holds *)
(* other names beside n.                                                      *)
Astray(r, l, n) == l \in r.disorder /\ Holding(r[l], n) \notin {{}, r[l]}

(* find, insert and erase in one of the three sets of nickname buffers.       *)
Listed(r, l, n) ==
    IF Astray(r, l, n) THEN BOOLEAN ELSE {Holding(r[l], n) # {}}

Enlisted(r, l, c) ==
    {[r EXCEPT ![l] = IF known THEN @ ELSE @ \cup {c}] : known \in Listed(r, l, nickname[c])}

(* A set of at most one name is in order again.                               *)
Trimmed(r, l, s) ==
    [r EXCEPT ![l] = s,
              !.disorder = IF \A c, d \in s : c = d THEN @ \ {l} ELSE @]

(* In a disordered set the range that erase removes may be empty, or hold     *)
(* more than the name.                                                        *)
Struck(r, l, n) ==
    LET hit  == Holding(r[l], n)
        kept == IF Astray(r, l, n)
                THEN {r[l]} \cup SUBSET (r[l] \ hit)
                ELSE {r[l] \ hit}
    IN  {Trimmed(r, l, s) : s \in kept}

(* After c's buffer changed, a set that holds it and another may be out of    *)
(* order.                                                                     *)
Unsettled(r, c) ==
    [r EXCEPT !.disorder =
        @ \cup {l \in List : c \in r[l] /\ \E d \in r[l] : d # c}]

-----------------------------------------------------------------------------
\* CHANNEL_remove_user and CHANNEL_add_user.

(* participants and arrived without n; what follows depends on whether        *)
(* participants.empty().                                                      *)
Without(r, n, echo) ==
    {[x EXCEPT !.arrived = RemoveFirst(@, n)] : x \in Erase(r, n, echo)}

Vacant(r) == r.participants = {} /\ r.ghosts = {}

(* The administrator n left but the channel has entries: the oldest arrival   *)
(* takes over.                                                                *)
Orphaned(r, n) == ~Vacant(r) /\ r.admin = n

(* clt_get_by_nickname(arrived.begin()->second) finds nobody, or there is no  *)
(* arrived.begin(): the code dereferences the result.                         *)
NoHeir(r) == r.arrived # <<>> => Named(Head(r.arrived)) = {}

Succession_newest(r, n) ==    \* mutant: rbegin() instead of begin()
    IF Vacant(r) THEN NoRoom
    ELSE IF Orphaned(r, n) THEN [r EXCEPT !.admin = Last(r.arrived)]
    ELSE r

Succession(r, n) ==
    IF Vacant(r) THEN NoRoom
    ELSE IF Orphaned(r, n) THEN [r EXCEPT !.admin = Head(r.arrived)]
    ELSE r

Removed_tolerant(r, n, echo) ==    \* mutant: if there is no heir, n stays administrator
    {IF Orphaned(x, n) /\ NoHeir(x) THEN x ELSE Succession(x, n) : x \in Without(r, n, echo)}

Removed(r, n, echo) ==
    {Succession(x, n) :
        x \in {y \in Without(r, n, echo) : ~(Orphaned(y, n) /\ NoHeir(y))}}

RemoveCrashes(r, n, echo) ==
    \E x \in Without(r, n, echo) : Orphaned(x, n) /\ NoHeir(x)

(* conn_criar_CHANNEL: the creator is alone and administers it.               *)
Created(c) ==
    [NoRoom EXCEPT !.live = TRUE,
                   !.participants = {<<nickname[c], c>>},
                   !.arrived = <<nickname[c]>>,
                   !.admin = nickname[c]]

Barred_public(r, n) ==    \* mutant: only a private channel looks at its lists
    {~r.is_public /\ (banned \/ ~invited) :
        banned \in Listed(r, "banned", n), invited \in Listed(r, "invited", n)}

(* Whether the channel keeps n out: banned, or not invited to a private one.  *)
Barred(r, n) ==
    {banned \/ (~r.is_public /\ ~invited) :
        banned \in Listed(r, "banned", n), invited \in Listed(r, "invited", n)}

(* CHANNEL_add_user: pairs of the channel afterwards and whether c got in.    *)
Admitted(r, c) ==
    (IF TRUE \in Barred(r, nickname[c]) THEN {<<r, FALSE>>} ELSE {})
      \cup (IF FALSE \in Barred(r, nickname[c])
            THEN {<<[x EXCEPT !.arrived = Append(@, nickname[c])], TRUE>> :
                    x \in Insert(r, nickname[c], c, FALSE)}
            ELSE {})

-----------------------------------------------------------------------------
\* Commands.

(* clt->channel points to a channel that CHANNEL_destroy has freed.           *)
Dangling(c) == channelOf[c] # NULL /\ ~rooms[channelOf[c]].live

Runs(c) == fault = "none" /\ conn[c] = "served" /\ ~Dangling(c)

Sends(c, command) == Runs(c) /\ command \in Commands

(* CHANNEL_check_privilege, for a client that is in a channel.                *)
Privileged(c) ==
    channelOf[c] # NULL /\ rooms[channelOf[c]].admin = nickname[c]

Own(c) == rooms[channelOf[c]]

(* A step that relays no message and after which the process still runs.      *)
Quiet == relayed' = {} /\ UNCHANGED fault

Crash(why) ==
    /\ fault' = why
    /\ UNCHANGED <<conn, nickname, channelOf, rooms, relayed, damage>>

SetOwn(c, r) == rooms' = [rooms EXCEPT ![channelOf[c]] = r]

(* Where the walk over arrived first meets n, and 0 if it does not.           *)
Place(arrived, n) == SelectInSeq(arrived, LAMBDA m : m = n)

Relined(arrived, old, n) ==
    IF Place(arrived, old) = 0 THEN arrived
    ELSE ReplaceAt(arrived, Place(arrived, old), n)

Relabelled_last(r, old, n) ==    \* mutant: the new name is a new arrival
    [r EXCEPT !.arrived = Append(RemoveFirst(@, old), n),
              !.admin = IF @ = old THEN n ELSE @]

Relabelled(r, old, n) ==
    [r EXCEPT !.arrived = Relined(@, old, n),
              !.admin = IF @ = old THEN n ELSE @]

Renamed_keepsOld(r, c, n) ==    \* mutant: the old key stays in participants
    {Relabelled(x, nickname[c], n) : x \in Insert(r, n, c, Echoes(r, c))}

(* /nick: free names only; on_change_nickname follows the name into c's own   *)
(* channel, the pointers in every channel's sets follow by themselves.        *)
Renamed(r, c, n) ==
    {Relabelled(x, nickname[c], n) :
        x \in UNION {Insert(y, n, c, Echoes(r, c)) : y \in Erase(r, nickname[c], FALSE)}}

Nickname(c, n) ==
    /\ Sends(c, "NICK")
    /\ Named(n) = {}
    /\ nickname' = [nickname EXCEPT ![c] = n]
    /\ \E own \in IF channelOf[c] = NULL THEN {NoRoom} ELSE Renamed(Own(c), c, n) :
         rooms' = [ch \in Channel |->
                     Unsettled(IF ch = channelOf[c] THEN own ELSE rooms[ch], c)]
    /\ damage' = damage \cup {"order" : ch \in {x \in Channel : rooms'[x].disorder # {}}}
    /\ Quiet
    /\ UNCHANGED <<conn, channelOf>>

(* clt_validate_nickname(clt->nickname), asked before a /join.                *)
HasName_unchecked(c) == TRUE    \* mutant: the question is dropped

HasName(c) == nickname[c] # Unnamed

(* /join, first half: c leaves the channel it is in, even if it is the one it *)
(* asks for.                                                                  *)
AfterLeaving(c) ==
    IF channelOf[c] = NULL THEN {rooms}
    ELSE {[rooms EXCEPT ![channelOf[c]] = r] : r \in Removed(Own(c), nickname[c], FALSE)}

(* /join, second half.                                                        *)
Join(c, ch) ==
    /\ Sends(c, "JOIN")
    /\ HasName(c)
    /\ Len(rooms[ch].arrived) < MaxArrived
    /\ \E rs \in AfterLeaving(c) :
         \E entry \in IF rs[ch].live THEN Admitted(rs[ch], c)
                      ELSE {<<Created(c), TRUE>>} :
            /\ rooms' = [rs EXCEPT ![ch] = entry[1]]
            /\ channelOf' = [channelOf EXCEPT ![c] = IF entry[2] THEN ch ELSE NULL]
    /\ Quiet
    /\ UNCHANGED <<conn, nickname, damage>>

(* CHANNEL_join sends the farewell through the iterator it took before the    *)
(* last member's departure destroyed the channel.                             *)
JoinUsesDestroyed(c) ==
    /\ Sends(c, "JOIN")
    /\ HasName(c)
    /\ channelOf[c] # NULL
    /\ \E r \in Removed(Own(c), nickname[c], FALSE) : ~r.live
    /\ Crash("use_after_destroy")

(* /mode -i and /mode +i.                                                     *)
Mode(c, public) ==
    /\ Sends(c, "MODE")
    /\ Privileged(c)
    /\ SetOwn(c, [Own(c) EXCEPT !.is_public = public])
    /\ Quiet
    /\ UNCHANGED <<conn, nickname, channelOf, damage>>

(* /invite also lifts the ban and the silence of that name.                   *)
Invite(c, n) ==
    /\ Sends(c, "INVITE")
    /\ Privileged(c)
    /\ \E guest \in Named(n) :
         \E r1 \in Struck(Own(c), "muted", n) :
           \E r2 \in Struck(r1, "banned", n) :
             \E r3 \in Enlisted(r2, "invited", guest) : SetOwn(c, r3)
    /\ Quiet
    /\ UNCHANGED <<conn, nickname, channelOf, damage>>

(* /kick: banned first, removed after.                                        *)
Kick(c, n) ==
    /\ Sends(c, "KICK")
    /\ Privileged(c)
    /\ TRUE \in Finds(Own(c), n, c)
    /\ \E ban \in Named(n) :
         /\ \E r1 \in Enlisted(Own(c), "banned", ban) :
              \E r2 \in Removed(r1, n, Echoes(r1, c)) : SetOwn(c, r2)
         /\ channelOf' = [channelOf EXCEPT ![ban] = NULL]
    /\ Quiet
    /\ UNCHANGED <<conn, nickname, damage>>

(* The kick emptied the channel (an administrator alone in it kicks itself);  *)
(* the announcement goes through the freed channel.                           *)
KickUsesDestroyed(c, n) ==
    /\ Sends(c, "KICK")
    /\ Privileged(c)
    /\ TRUE \in Finds(Own(c), n, c)
    /\ Named(n) # {}
    /\ \E r \in Removed(Own(c), n, Echoes(Own(c), c)) : ~r.live
    /\ Crash("use_after_destroy")

Unkick(c, n) ==
    /\ Sends(c, "UNKICK")
    /\ Privileged(c)
    /\ Named(n) # {}
    /\ TRUE \in Listed(Own(c), "banned", n)
    /\ \E r \in Struck(Own(c), "banned", n) : SetOwn(c, r)
    /\ Quiet
    /\ UNCHANGED <<conn, nickname, channelOf, damage>>

(* participants[n] with no entry under n inserts one with value 0.            *)
Ghosted(c) ==
    /\ SetOwn(c, [Own(c) EXCEPT !.ghosts = @ \cup {c}])
    /\ damage' = damage \cup {"ghost"}

(* /mute: the search for the name runs only if some client bears it.          *)
Mute(c, n) ==
    /\ Sends(c, "MUTE")
    /\ Privileged(c)
    /\ \E target \in Named(n) :
         \/ /\ Entries(Own(c), n) # {}
            /\ \E r \in Enlisted(Own(c), "muted", target) : SetOwn(c, r)
            /\ UNCHANGED damage
         \/ /\ FALSE \in Finds(Own(c), n, c)
            /\ Ghosted(c)
    /\ Quiet
    /\ UNCHANGED <<conn, nickname, channelOf>>

Unmute(c, n) ==
    /\ Sends(c, "UNMUTE")
    /\ Privileged(c)
    /\ \/ /\ Entries(Own(c), n) # {}
          /\ \E r \in Struck(Own(c), "muted", n) : SetOwn(c, r)
          /\ UNCHANGED damage
       \/ /\ FALSE \in Finds(Own(c), n, c)
          /\ Ghosted(c)
    /\ Quiet
    /\ UNCHANGED <<conn, nickname, channelOf>>

(* /whois changes nothing, but it trusts that a participant's name is a       *)
(* connected client's.                                                        *)
WhoisFindsNobody(c, n) ==
    /\ Sends(c, "WHOIS")
    /\ Privileged(c)
    /\ TRUE \in Finds(Own(c), n, c)
    /\ Named(n) = {}
    /\ Crash("null_client")

Message_anyone(c) ==    \* mutant: the silenced are not asked for
    /\ Sends(c, "MESSAGE")
    /\ channelOf[c] # NULL
    /\ relayed' = {<<c, e[2]>> : e \in Own(c).participants}
    /\ UNCHANGED <<conn, nickname, channelOf, rooms, damage, fault>>

(* A message goes to every socket in participants, the sender's included,     *)
(* unless the sender's name is in the set of the silenced.                    *)
Message(c) ==
    /\ Sends(c, "MESSAGE")
    /\ channelOf[c] # NULL
    /\ FALSE \in Listed(Own(c), "muted", nickname[c])
    /\ relayed' = {<<c, e[2]>> : e \in Own(c).participants}
    /\ UNCHANGED <<conn, nickname, channelOf, rooms, damage, fault>>

-----------------------------------------------------------------------------
\* Connections.

Connect(c) ==
    /\ fault = "none"
    /\ conn[c] = "new"
    /\ conn' = [conn EXCEPT ![c] = "served"]
    /\ Quiet
    /\ UNCHANGED <<nickname, channelOf, rooms, damage>>

HangUp_lingers(c) ==    \* mutant: clt_run returns without leaving the channel
    /\ Runs(c)
    /\ conn' = [conn EXCEPT ![c] = "leaving"]
    /\ Quiet
    /\ UNCHANGED <<nickname, channelOf, rooms, damage>>

(* recv fails or returns 0: c leaves its channel and clt_run returns.         *)
HangUp(c) ==
    /\ Runs(c)
    /\ \E rs \in AfterLeaving(c) : rooms' = rs
    /\ conn' = [conn EXCEPT ![c] = "leaving"]
    /\ channelOf' = [channelOf EXCEPT ![c] = NULL]
    /\ Quiet
    /\ UNCHANGED <<nickname, damage>>

(* clt_destruir; until then the client still bears its nickname.              *)
Destroy(c) ==
    /\ fault = "none"
    /\ conn[c] = "leaving"
    /\ conn' = [conn EXCEPT ![c] = "gone"]
    /\ Quiet
    /\ UNCHANGED <<nickname, channelOf, rooms, damage>>

(* CHANNEL_remove_user finds no heir, called for a client that joins another  *)
(* channel or hangs up, or for the target of a kick.                          *)
HeirIsNull(c) ==
    /\ Runs(c)
    /\ \/ channelOf[c] # NULL /\ RemoveCrashes(Own(c), nickname[c], FALSE)
       \/ /\ "KICK" \in Commands
          /\ Privileged(c)
          /\ \E n \in Nick :
               /\ Named(n) # {}
               /\ TRUE \in Finds(Own(c), n, c)
               /\ RemoveCrashes(Own(c), n, Echoes(Own(c), c))
    /\ Crash("no_heir")

(* A client in a channel that was freed under it sends anything or hangs up.  *)
ChannelIsFreed(c) ==
    /\ fault = "none"
    /\ conn[c] = "served"
    /\ Dangling(c)
    /\ Crash("dangling")

-----------------------------------------------------------------------------

Target == Nick \cup {Unnamed}

Administer(c) ==
    \/ \E public \in BOOLEAN : Mode(c, public)
    \/ \E n \in Target : Invite(c, n)
    \/ \E n \in Target : Kick(c, n)
    \/ \E n \in Target : Unkick(c, n)
    \/ \E n \in Target : Mute(c, n)
    \/ \E n \in Target : Unmute(c, n)
    \/ \E n \in Target : WhoisFindsNobody(c, n)
    \/ \E n \in Target : KickUsesDestroyed(c, n)

Next ==
    \E c \in Client :
        \/ Connect(c)
        \/ \E n \in Nick : Nickname(c, n)
        \/ \E ch \in Channel : Join(c, ch)
        \/ JoinUsesDestroyed(c)
        \/ Message(c)
        \/ Administer(c)
        \/ HangUp(c)
        \/ Destroy(c)
        \/ HeirIsNull(c)
        \/ ChannelIsFreed(c)

Spec == Init /\ [][Next]_vars

-----------------------------------------------------------------------------
\* Properties.

Members(ch) == {c \in Client : channelOf[c] = ch}

Names(ch) == {nickname[c] : c \in Members(ch)}

(* Every variable has its type, a name with no channel holds nothing, and a  *)
(* client that is in a channel has chosen a nickname (clients.cpp 342).      *)
TypeOK ==
    /\ conn \in [Client -> {"new", "served", "leaving", "gone"}]
    /\ nickname \in [Client -> Nick \cup {Unnamed}]
    /\ channelOf \in [Client -> Channel \cup {NULL}]
    /\ rooms \in [Channel -> Room]
    /\ relayed \subseteq Client \X Client
    /\ damage \subseteq {"ghost", "order"}
    /\ fault \in {"none", "no_heir", "null_client", "use_after_destroy", "dangling"}
    /\ \A ch \in Channel : ~rooms[ch].live => rooms[ch] = NoRoom
    /\ \A c \in Client : channelOf[c] # NULL => nickname[c] \in Nick

(* The administrator of a channel is the one who has been in it longest      *)
(* (README.md 7): through joins, departures, kicks and renames, and even     *)
(* with ghosts among the participants, its name is the first arrival's.      *)
AdminIsOldest ==
    \A ch \in Channel :
        rooms[ch].live => /\ rooms[ch].arrived # <<>>
                          /\ rooms[ch].admin = Head(rooms[ch].arrived)

(* No two clients in cl_arr have chosen the same nickname, so that           *)
(* clt_get_by_nickname, which every command on a name goes through, means    *)
(* one person.                                                               *)
UniqueNicknames ==
    \A n \in Nick : \A c, d \in Named(n) : c = d

(* Until some ghost is inserted, the three places that record membership     *)
(* agree after every command: clt->channel, participants and arrived; a      *)
(* channel that nobody is in does not exist (channel.cpp 200), and only a    *)
(* client still being served is in one.                                      *)
MembersAgree ==
    "ghost" \notin damage =>
        \A ch \in Channel :
            /\ rooms[ch].live <=> Members(ch) # {}
            /\ rooms[ch].participants = {<<nickname[c], c>> : c \in Members(ch)}
            /\ ToSet(rooms[ch].arrived) = Names(ch)
            /\ IsInjective(rooms[ch].arrived)
            /\ \A c \in Members(ch) : conn[c] = "served"

Precedes(ch, n, m) ==
    \E i, j \in DOMAIN rooms[ch].arrived :
        i < j /\ rooms[ch].arrived[i] = n /\ rooms[ch].arrived[j] = m

(* Seniority is never lost: of two members that both stay in a channel over  *)
(* a step, the one who came first is still before the other, under whatever  *)
(* names, unless it asked to join the channel again.                         *)
Seniority ==
    [][ "ghost" \notin damage' =>
            \A ch \in Channel : \A c, d \in Members(ch) :
                (/\ Precedes(ch, nickname[c], nickname[d])
                 /\ channelOf'[c] = ch /\ channelOf'[d] = ch)
                => \/ Precedes(ch, nickname[c], nickname[d])'
                   \/ Join(c, ch) ]_vars

(* A ban is on the person: whoever's nickname buffer is in a channel's       *)
(* banned set is not in the channel, whatever it calls itself since          *)
(* (channel.h 269), as long as renames left the sets in order.               *)
BannedStaysOut ==
    \A ch \in Channel :
        "order" \notin damage => rooms[ch].banned \cap Members(ch) = {}

(* A relayed message has reached exactly the members of its sender's         *)
(* channel, and its sender was not silenced there, under any name.           *)
RelayReachesTheChannel ==
    damage = {} =>
        \A c \in Client :
            LET heard == {d \in Client : <<c, d>> \in relayed}
            IN  heard # {} =>
                    /\ channelOf[c] # NULL
                    /\ heard = Members(channelOf[c])
                    /\ c \notin Own(c).muted

(* Until a ghost is inserted every departure finds an heir to look up, every *)
(* participant /whois asks for is connected, and no client keeps a channel   *)
(* that was freed under it.                                                  *)
OnlyGhostsOrphan ==
    "ghost" \notin damage =>
        /\ fault \in {"none", "use_after_destroy"}
        /\ \A c \in Client : ~Dangling(c)

(* channel.cpp 189 and 200 divide departures in two: somebody is left in the *)
(* channel and the first to arrive takes over, or nobody is and the channel  *)
(* is deleted.  A departure that does neither looks up an heir who is not    *)
(* there.                                                                    *)
DepartureSucceeds == fault # "no_heir"

(* channel.cpp 288: a user who is in a channel is taken out of it, told to   *)
(* those it leaves.  Somebody alone in a channel cannot join another, or the *)
(* same again, without the farewell going through the freed channel.         *)
FarewellFindsChannel == fault # "use_after_destroy"

=============================================================================
