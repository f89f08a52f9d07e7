--------------------------- MODULE ChatServerProofs ---------------------------
(***************************************************************************)
(* Proofs about ChatServer, for any number of clients, nicknames and        *)
(* channels and any bound on a channel's arrivals.  First the walk over     *)
(* arrived, then what each operation makes of one channel, then the actions *)
(* one by one.                                                              *)
(***************************************************************************)
EXTENDS ChatServer, LineLemmas

-----------------------------------------------------------------------------
\* The walk over arrived.

LEMMA PlaceIs ==
    ASSUME NEW S, NEW s \in Seq(S), NEW n
    PROVE  /\ Place(s, n) \in 0 .. Len(s)
           /\ Place(s, n) = 0 => \A i \in 1 .. Len(s) : s[i] # n
           /\ Place(s, n) # 0 => s[Place(s, n)] = n
           /\ \A i \in 1 .. Len(s) : s[i] = n => Place(s, n) # 0 /\ Place(s, n) <= i
BY FirstIs DEF Place, First

-----------------------------------------------------------------------------
\* One channel.

(* What every operation keeps of a channel: its type, that it holds nothing   *)
(* once deleted, and that the first arrival administers it.                   *)
Sound(r) ==
    /\ r \in Room
    /\ ~r.live => r = NoRoom
    /\ r.live => r.arrived # <<>> /\ r.admin = Head(r.arrived)

(* x is a channel that differs from r in its participants and sets only.      *)
SameLine(r, x) ==
    x \in Room /\ x.live = r.live /\ x.arrived = r.arrived /\ x.admin = r.admin

LEMMA NoRoomIsSound == Sound(NoRoom)
BY DEF Sound, NoRoom, Room, List

LEMMA SameLineIsSound ==
    ASSUME NEW r, NEW x, Sound(r), r.live, SameLine(r, x)
    PROVE  Sound(x)
BY DEF Sound, SameLine

LEMMA ParticipantsKeepLine ==
    ASSUME NEW r \in Room, NEW p \in SUBSET (Nick \X Client), NEW g \in SUBSET Client
    PROVE  /\ SameLine(r, [r EXCEPT !.participants = p, !.ghosts = g])
           /\ SameLine(r, [r EXCEPT !.participants = p])
           /\ SameLine(r, [r EXCEPT !.ghosts = g])
BY DEF SameLine, Room

LEMMA EraseKeepsLine ==
    ASSUME NEW r \in Room, NEW n, NEW echo, NEW x \in Erase(r, n, echo)
    PROVE  SameLine(r, x)
<1>1. r.participants \in SUBSET (Nick \X Client) /\ r.ghosts \in SUBSET Client
  BY DEF Room
<1>2. PICK p \in SUBSET (Nick \X Client), g \in SUBSET Client :
        x = [r EXCEPT !.participants = p, !.ghosts = g]
  BY <1>1 DEF Erase
<1> QED BY <1>2, ParticipantsKeepLine

LEMMA InsertKeepsLine ==
    ASSUME NEW r \in Room, NEW n \in Nick, NEW c \in Client, NEW echo,
           NEW x \in Insert(r, n, c, echo)
    PROVE  SameLine(r, x)
<1>1. r.participants \cup {<<n, c>>} \in SUBSET (Nick \X Client)
  BY DEF Room
<1>2. SameLine(r, [r EXCEPT !.participants = r.participants \cup {<<n, c>>}])
  <2> DEFINE p == r.participants \cup {<<n, c>>}
  <2> HIDE DEF p
  <2> QED BY <1>1, ParticipantsKeepLine, {} \in SUBSET Client DEF p
<1>3. SameLine(r, r)
  BY DEF SameLine
<1> QED BY <1>2, <1>3 DEF Insert

LEMMA SetKeepsLine ==
    ASSUME NEW r \in Room, NEW l \in List, NEW s \in SUBSET Client, NEW d \in SUBSET List
    PROVE  /\ SameLine(r, [r EXCEPT ![l] = s])
           /\ SameLine(r, [r EXCEPT ![l] = s, !.disorder = d])
<1>1. CASE l = "banned"
  BY <1>1 DEF SameLine, Room
<1>2. CASE l = "muted"
  BY <1>2 DEF SameLine, Room
<1>3. CASE l = "invited"
  BY <1>3 DEF SameLine, Room
<1> QED BY <1>1, <1>2, <1>3 DEF List

LEMMA ListIsSet ==
    ASSUME NEW r \in Room, NEW l \in List
    PROVE  r[l] \in SUBSET Client
BY DEF Room, List

LEMMA EnlistedKeepsLine ==
    ASSUME NEW r \in Room, NEW l \in List, NEW c \in Client, NEW x \in Enlisted(r, l, c)
    PROVE  SameLine(r, x)
<1>1. PICK s \in SUBSET Client : x = [r EXCEPT ![l] = s]
  <2>1. r[l] \in SUBSET Client /\ r[l] \cup {c} \in SUBSET Client
    BY ListIsSet
  <2>2. x = [r EXCEPT ![l] = r[l]] \/ x = [r EXCEPT ![l] = r[l] \cup {c}]
    BY DEF Enlisted
  <2> QED BY <2>1, <2>2
<1> QED BY <1>1, SetKeepsLine, {} \in SUBSET List

LEMMA StruckKeepsLine ==
    ASSUME NEW r \in Room, NEW l \in List, NEW n, NEW x \in Struck(r, l, n)
    PROVE  SameLine(r, x)
<1>1. PICK s \in SUBSET Client : x = Trimmed(r, l, s)
  BY ListIsSet DEF Struck
<1>2. r.disorder \in SUBSET List /\ r.disorder \ {l} \in SUBSET List
  BY DEF Room
<1>3. PICK d \in SUBSET List : x = [r EXCEPT ![l] = s, !.disorder = d]
  <2>1. [r EXCEPT ![l] = s].disorder = r.disorder
    BY DEF Room, List
  <2>2. \/ x = [r EXCEPT ![l] = s, !.disorder = r.disorder]
        \/ x = [r EXCEPT ![l] = s, !.disorder = r.disorder \ {l}]
    BY <1>1, <2>1 DEF Trimmed, Room, List
  <2> QED BY <1>2, <2>2
<1> QED BY <1>3, SetKeepsLine

LEMMA UnsettledIsSound ==
    ASSUME NEW r, Sound(r), NEW c \in Client
    PROVE  Sound(Unsettled(r, c))
<1> DEFINE new == {l \in List : c \in r[l] /\ \E d \in r[l] : d # c}
<1>1. Unsettled(r, c) = [r EXCEPT !.disorder = r.disorder \cup new]
  BY DEF Unsettled
<1>2. r \in Room /\ r.disorder \cup new \in SUBSET List
  BY DEF Sound, Room
<1>3. CASE r.live
  <2>1. SameLine(r, Unsettled(r, c))
    <3> HIDE DEF new
    <3> QED BY <1>1, <1>2 DEF SameLine, Room
  <2> QED BY <1>3, <2>1, SameLineIsSound
<1>4. CASE ~r.live
  <2>1. r = NoRoom /\ new = {}
    BY <1>4 DEF Sound, NoRoom, List
  <2>2. Unsettled(r, c) = NoRoom
    <3> HIDE DEF new
    <3> QED BY <1>1, <2>1 DEF NoRoom
  <2> QED BY <2>2, NoRoomIsSound
<1> QED BY <1>3, <1>4

LEMMA WithoutIs ==
    ASSUME NEW r \in Room, NEW n, NEW echo, NEW x \in Without(r, n, echo)
    PROVE  /\ x \in Room /\ x.live = r.live /\ x.admin = r.admin
           /\ x.arrived = RemoveFirst(r.arrived, n)
<1>1. PICK y \in Erase(r, n, echo) : x = [y EXCEPT !.arrived = RemoveFirst(y.arrived, n)]
  BY DEF Without
<1>2. y \in Room /\ y.live = r.live /\ y.admin = r.admin /\ y.arrived = r.arrived
  BY EraseKeepsLine DEF SameLine
<1>3. r.arrived \in Seq(Nick)
  BY DEF Room
<1>4. RemoveFirst(r.arrived, n) \in Seq(Nick)
  BY <1>3, RemoveFirstIs
<1> QED BY <1>1, <1>2, <1>4 DEF Room

(* CHANNEL_remove_user: the channel is deleted, or the next in line has taken *)
(* over from an administrator that left, or the head of the line stays.       *)
LEMMA RemovedIsSound ==
    ASSUME NEW r, Sound(r), r.live, NEW n, NEW echo, NEW x \in Removed(r, n, echo)
    PROVE  Sound(x)
<1>1. PICK y \in Without(r, n, echo) : x = Succession(y, n) /\ ~(Orphaned(y, n) /\ NoHeir(y))
  BY DEF Removed
<1>2. /\ y \in Room /\ y.live /\ y.admin = r.admin
      /\ y.arrived = RemoveFirst(r.arrived, n)
  BY WithoutIs DEF Sound
<1>3. r.arrived \in Seq(Nick) /\ y.arrived \in Seq(Nick) /\ r.arrived # <<>>
  BY <1>2 DEF Sound, Room
<1>4. CASE Vacant(y)
  BY <1>1, <1>4, NoRoomIsSound DEF Succession
<1>5. CASE Orphaned(y, n)
  <2>1. y.arrived # <<>>
    BY <1>1, <1>5 DEF NoHeir
  <2>2. Head(y.arrived) \in Nick
    BY <1>3, <2>1
  <2>3. x = [y EXCEPT !.admin = Head(y.arrived)]
    BY <1>1, <1>5 DEF Succession, Orphaned
  <2> QED BY <1>2, <2>1, <2>2, <2>3 DEF Sound, Room
<1>6. CASE ~Vacant(y) /\ ~Orphaned(y, n)
  <2>1. x = y
    BY <1>1, <1>6 DEF Succession
  <2>2. Head(r.arrived) # n /\ y.admin = Head(r.arrived)
    BY <1>2, <1>6 DEF Sound, Orphaned
  <2>3. y.arrived # <<>> /\ Head(y.arrived) = Head(r.arrived)
    BY <1>2, <1>3, <2>2, RemoveFirstIs
  <2> QED BY <1>2, <2>1, <2>2, <2>3 DEF Sound
<1> QED BY <1>4, <1>5, <1>6

LEMMA CreatedIsSound ==
    ASSUME NEW c, nickname[c] \in Nick, c \in Client
    PROVE  Sound(Created(c))
<1> DEFINE n == nickname[c]
<1>1. NoRoom \in Room
  BY NoRoomIsSound DEF Sound
<1>2. <<n>> \in Seq(Nick) /\ <<n>> # <<>> /\ Head(<<n>>) = n
  OBVIOUS
<1>3. {<<n, c>>} \in SUBSET (Nick \X Client)
  OBVIOUS
<1> HIDE DEF n
<1>4. Created(c) \in Room
  BY <1>1, <1>2, <1>3 DEF Created, Room, n
<1>5. Created(c).live /\ Created(c).arrived = <<n>> /\ Created(c).admin = n
  BY <1>1 DEF Created, Room, n
<1> QED BY <1>2, <1>4, <1>5 DEF Sound

LEMMA AdmittedIsSound ==
    ASSUME NEW r, Sound(r), r.live, NEW c \in Client, nickname[c] \in Nick,
           NEW entry \in Admitted(r, c)
    PROVE  Sound(entry[1])
<1>1. CASE entry = <<r, FALSE>>
  BY <1>1
<1>2. ASSUME NEW x \in Insert(r, nickname[c], c, FALSE),
             entry = <<[x EXCEPT !.arrived = Append(x.arrived, nickname[c])], TRUE>>
      PROVE  Sound(entry[1])
  <2>1. SameLine(r, x) /\ r.arrived \in Seq(Nick) /\ r.arrived # <<>>
    BY InsertKeepsLine DEF Sound, Room
  <2> DEFINE line == Append(r.arrived, nickname[c])
  <2>2. line \in Seq(Nick) /\ line # <<>> /\ Head(line) = Head(r.arrived)
    BY <2>1, AppendProperties
  <2>3. entry[1] = [x EXCEPT !.arrived = line]
    BY <1>2, <2>1 DEF SameLine
  <2> HIDE DEF line
  <2> QED BY <2>1, <2>2, <2>3 DEF Sound, SameLine, Room
<1>3. \/ entry = <<r, FALSE>>
      \/ \E x \in Insert(r, nickname[c], c, FALSE) :
            entry = <<[x EXCEPT !.arrived = Append(x.arrived, nickname[c])], TRUE>>
  <2> DEFINE Entered == {<<[x EXCEPT !.arrived = Append(@, nickname[c])], TRUE>> :
                            x \in Insert(r, nickname[c], c, FALSE)}
  <2>1. entry = <<r, FALSE>> \/ entry \in Entered
    <3> HIDE DEF Entered
    <3> QED BY DEF Admitted, Entered
  <2> QED BY <2>1
<1> QED BY <1>1, <1>2, <1>3

(* /nick: the renamed member keeps its place, and the administration if it    *)
(* had it.                                                                    *)
LEMMA RelinedIs ==
    ASSUME NEW s \in Seq(Nick), s # <<>>, NEW old, NEW n \in Nick
    PROVE  /\ Relined(s, old, n) \in Seq(Nick) /\ Relined(s, old, n) # <<>>
           /\ Head(Relined(s, old, n)) = IF Head(s) = old THEN n ELSE Head(s)
<1>1. Len(s) >= 1 /\ Head(s) = s[1]
  OBVIOUS
<1>2. CASE Place(s, old) = 0
  BY <1>1, <1>2, PlaceIs DEF Relined
<1>3. CASE Place(s, old) # 0
  <2> DEFINE p == Place(s, old)
             line == Relined(s, old, n)
  <2>1. p \in 1 .. Len(s) /\ s[p] = old /\ (Head(s) = old => p = 1)
    BY <1>1, <1>3, PlaceIs
  <2>2. line = [s EXCEPT ![p] = n]
    BY <1>3 DEF Relined, ReplaceAt
  <2> HIDE DEF p, line
  <2>3. line \in Seq(Nick) /\ Len(line) = Len(s) /\ line[1] = IF p = 1 THEN n ELSE s[1]
    BY <1>1, <2>1, <2>2
  <2>4. line # <<>> /\ Head(line) = line[1]
    BY <1>1, <2>3
  <2>5. line \in Seq(Nick) /\ line # <<>> /\ Head(line) = IF Head(s) = old THEN n ELSE Head(s)
    BY <1>1, <2>1, <2>3, <2>4
  <2> QED BY <2>5 DEF line
<1> QED BY <1>2, <1>3

LEMMA RenamedIsSound ==
    ASSUME NEW r, Sound(r), r.live, NEW c \in Client, NEW n \in Nick,
           NEW x \in Renamed(r, c, n)
    PROVE  Sound(x)
<1> DEFINE old == nickname[c]
           line == Relined(r.arrived, old, n)
           admin == IF r.admin = old THEN n ELSE r.admin
<1>1. PICK y \in Erase(r, old, FALSE) :
        \E z \in Insert(y, n, c, Echoes(r, c)) : x = Relabelled(z, old, n)
  BY DEF Renamed
<1>2. PICK z \in Insert(y, n, c, Echoes(r, c)) : x = Relabelled(z, old, n)
  BY <1>1
<1>3. SameLine(r, y)
  BY EraseKeepsLine DEF Sound
<1>4. SameLine(y, z)
  BY <1>3, InsertKeepsLine DEF SameLine
<1>5. x = [z EXCEPT !.arrived = line, !.admin = admin]
  BY <1>2, <1>3, <1>4 DEF SameLine, Relabelled, Room
<1>6. r.arrived \in Seq(Nick) /\ r.arrived # <<>> /\ r.admin = Head(r.arrived)
  BY DEF Sound, Room
<1>7. line \in Seq(Nick) /\ line # <<>> /\ Head(line) = admin
  BY <1>6, RelinedIs
<1>8. admin \in Nick \cup {Unnamed}
  BY DEF Sound, Room
<1> HIDE DEF line, admin
<1> QED BY <1>3, <1>4, <1>5, <1>7, <1>8 DEF Sound, SameLine, Room

-----------------------------------------------------------------------------
\* The actions.

SoundRooms(rs) == rs \in [Channel -> Room] /\ \A ch \in Channel : Sound(rs[ch])

(* The rest of TypeOK.                                                        *)
Scalars ==
    /\ conn \in [Client -> {"new", "served", "leaving", "gone"}]
    /\ nickname \in [Client -> Nick \cup {Unnamed}]
    /\ channelOf \in [Client -> Channel \cup {NULL}]
    /\ relayed \subseteq Client \X Client
    /\ damage \subseteq {"ghost", "order"}
    /\ fault \in {"none", "no_heir", "null_client", "use_after_destroy", "dangling"}
    /\ \A c \in Client : channelOf[c] # NULL => nickname[c] \in Nick

(* TypeOK and AdminIsOldest are inductive together: Sound is what they say    *)
(* of a channel.                                                              *)
Inv == Scalars /\ SoundRooms(rooms)

LEMMA InvIs == Inv <=> TypeOK /\ AdminIsOldest
BY DEF Inv, Scalars, SoundRooms, Sound, TypeOK, AdminIsOldest

LEMMA OwnIsSound ==
    ASSUME Inv, NEW c \in Client, Runs(c), channelOf[c] # NULL
    PROVE  /\ channelOf[c] \in Channel /\ nickname[c] \in Nick
           /\ Sound(Own(c)) /\ Own(c).live /\ Own(c) \in Room
BY DEF Inv, Scalars, SoundRooms, Sound, Runs, Dangling, Own

LEMMA SetOwnIsSound ==
    ASSUME Inv, NEW c \in Client, channelOf[c] \in Channel, NEW r, Sound(r), SetOwn(c, r)
    PROVE  SoundRooms(rooms')
BY DEF Inv, SoundRooms, Sound, SetOwn

LEMMA AfterLeavingIsSound ==
    ASSUME Inv, NEW c \in Client, Runs(c), NEW rs \in AfterLeaving(c)
    PROVE  SoundRooms(rs)
<1>1. CASE channelOf[c] = NULL
  BY <1>1 DEF AfterLeaving, Inv
<1>2. CASE channelOf[c] # NULL
  <2>1. PICK r \in Removed(Own(c), nickname[c], FALSE) :
          rs = [rooms EXCEPT ![channelOf[c]] = r]
    BY <1>2 DEF AfterLeaving
  <2>2. Sound(r)
    BY <1>2, OwnIsSound, RemovedIsSound
  <2> QED BY <1>2, <2>1, <2>2, OwnIsSound DEF Inv, SoundRooms, Sound
<1> QED BY <1>1, <1>2

LEMMA PrivilegedIs ==
    ASSUME Inv, NEW c \in Client, NEW command, Sends(c, command), Privileged(c)
    PROVE  /\ Runs(c) /\ channelOf[c] \in Channel
           /\ Sound(Own(c)) /\ Own(c).live /\ Own(c) \in Room
BY OwnIsSound DEF Sends, Privileged

LEMMA InitInv == Init => Inv
BY NoRoomIsSound DEF Init, Inv, Scalars, SoundRooms, Sound

LEMMA CrashInv == ASSUME Inv, NEW why \in {"no_heir", "null_client", "use_after_destroy", "dangling"},
                         Crash(why)
                  PROVE  Inv'
BY DEF Inv, Scalars, SoundRooms, Crash

LEMMA NicknameInv == ASSUME Inv, NEW c \in Client, NEW n \in Nick, Nickname(c, n)
                     PROVE  Inv'
<1>1. Runs(c)
  BY DEF Nickname, Sends
<1>2. PICK own \in IF channelOf[c] = NULL THEN {NoRoom} ELSE Renamed(Own(c), c, n) :
        rooms' = [ch \in Channel |-> Unsettled(IF ch = channelOf[c] THEN own ELSE rooms[ch], c)]
  BY DEF Nickname
<1>3. Sound(own)
  BY <1>1, <1>2, OwnIsSound, RenamedIsSound, NoRoomIsSound
<1>4. SoundRooms(rooms')
  <2>1. ASSUME NEW ch \in Channel  PROVE Sound(rooms'[ch])
    BY <1>2, <1>3, UnsettledIsSound DEF Inv, SoundRooms
  <2>2. rooms' = [ch \in Channel |-> rooms'[ch]]
    BY <1>2
  <2> QED BY <2>1, <2>2 DEF SoundRooms, Sound
<1>5. Scalars'
  BY DEF Inv, Scalars, Nickname, Quiet
<1> QED BY <1>4, <1>5 DEF Inv

LEMMA JoinInv == ASSUME Inv, NEW c \in Client, NEW ch \in Channel, Join(c, ch)
                 PROVE  Inv'
<1>1. PICK rs \in AfterLeaving(c) :
        \E entry \in IF rs[ch].live THEN Admitted(rs[ch], c) ELSE {<<Created(c), TRUE>>} :
            /\ rooms' = [rs EXCEPT ![ch] = entry[1]]
            /\ channelOf' = [channelOf EXCEPT ![c] = IF entry[2] THEN ch ELSE NULL]
  BY DEF Join
<1>2. PICK entry \in IF rs[ch].live THEN Admitted(rs[ch], c) ELSE {<<Created(c), TRUE>>} :
            /\ rooms' = [rs EXCEPT ![ch] = entry[1]]
            /\ channelOf' = [channelOf EXCEPT ![c] = IF entry[2] THEN ch ELSE NULL]
  BY <1>1
<1>3. nickname[c] \in Nick
  BY DEF Join, HasName, Inv, Scalars
<1>4. SoundRooms(rs)
  BY AfterLeavingIsSound DEF Join, Sends
<1>5. Sound(entry[1])
  <2>1. CASE rs[ch].live
    BY <1>2, <1>3, <1>4, <2>1, AdmittedIsSound DEF SoundRooms
  <2>2. CASE ~rs[ch].live
    BY <1>2, <1>3, <2>2, CreatedIsSound
  <2> QED BY <2>1, <2>2
<1>6. SoundRooms(rooms')
  BY <1>2, <1>4, <1>5 DEF SoundRooms, Sound
<1>7. Scalars'
  BY <1>2, <1>3 DEF Inv, Scalars, Join, Quiet
<1> QED BY <1>6, <1>7 DEF Inv

(* A command of the administrator puts a sound channel in place of its own    *)
(* and leaves the rest of the state in its type.                              *)
LEMMA AdministeredInv ==
    ASSUME Inv, NEW c \in Client, NEW command, Sends(c, command), Privileged(c),
           NEW r, Sound(r), SetOwn(c, r), Scalars'
    PROVE  Inv'
BY PrivilegedIs, SetOwnIsSound DEF Inv

LEMMA SameScalars ==
    ASSUME Inv, Quiet, UNCHANGED <<conn, nickname>>,
           channelOf' = channelOf \/ \E c \in Client : channelOf' = [channelOf EXCEPT ![c] = NULL],
           damage' \subseteq {"ghost", "order"}
    PROVE  Scalars'
BY DEF Inv, Scalars, Quiet

LEMMA ModeInv == ASSUME Inv, NEW c \in Client, NEW public \in BOOLEAN, Mode(c, public)
                 PROVE  Inv'
<1> DEFINE r == [Own(c) EXCEPT !.is_public = public]
<1>1. Sends(c, "MODE") /\ Privileged(c) /\ SetOwn(c, r)
  BY DEF Mode
<1>2. SameLine(Own(c), r)
  BY <1>1, PrivilegedIs DEF SameLine, Room
<1> HIDE DEF r
<1>3. Sound(r)
  BY <1>1, <1>2, PrivilegedIs, SameLineIsSound
<1>4. Scalars'
  BY SameScalars DEF Mode, Inv, Scalars
<1> QED BY <1>1, <1>3, <1>4, AdministeredInv

LEMMA InviteInv == ASSUME Inv, NEW c \in Client, NEW n \in Target, Invite(c, n)
                   PROVE  Inv'
<1>1. Sends(c, "INVITE") /\ Privileged(c)
  BY DEF Invite
<1>2. PICK guest \in Named(n), r1 \in Struck(Own(c), "muted", n) :
        \E r2 \in Struck(r1, "banned", n) : \E r3 \in Enlisted(r2, "invited", guest) :
            SetOwn(c, r3)
  BY DEF Invite
<1>3. PICK r2 \in Struck(r1, "banned", n) : \E r3 \in Enlisted(r2, "invited", guest) :
        SetOwn(c, r3)
  BY <1>2
<1>4. PICK r3 \in Enlisted(r2, "invited", guest) : SetOwn(c, r3)
  BY <1>3
<1>5. guest \in Client /\ {"muted", "banned", "invited"} \subseteq List
  BY DEF Named, List
<1>6. SameLine(Own(c), r1)
  BY <1>1, <1>5, PrivilegedIs, StruckKeepsLine
<1>7. SameLine(r1, r2)
  BY <1>5, <1>6, StruckKeepsLine DEF SameLine
<1>8. SameLine(r2, r3)
  BY <1>5, <1>7, EnlistedKeepsLine DEF SameLine
<1>9. Sound(r3)
  BY <1>1, <1>6, <1>7, <1>8, PrivilegedIs, SameLineIsSound DEF SameLine
<1>10. Scalars'
  BY SameScalars DEF Invite, Inv, Scalars
<1> QED BY <1>1, <1>4, <1>9, <1>10, AdministeredInv

LEMMA KickInv == ASSUME Inv, NEW c \in Client, NEW n \in Target, Kick(c, n)
                 PROVE  Inv'
<1>1. Sends(c, "KICK") /\ Privileged(c)
  BY DEF Kick
<1>2. PICK ban \in Named(n) :
        /\ \E r1 \in Enlisted(Own(c), "banned", ban) :
             \E r2 \in Removed(r1, n, Echoes(r1, c)) : SetOwn(c, r2)
        /\ channelOf' = [channelOf EXCEPT ![ban] = NULL]
  BY DEF Kick
<1>3. PICK r1 \in Enlisted(Own(c), "banned", ban) :
        \E r2 \in Removed(r1, n, Echoes(r1, c)) : SetOwn(c, r2)
  BY <1>2
<1>4. PICK r2 \in Removed(r1, n, Echoes(r1, c)) : SetOwn(c, r2)
  BY <1>3
<1>5. ban \in Client /\ "banned" \in List
  BY DEF Named, List
<1>6. SameLine(Own(c), r1)
  BY <1>1, <1>5, PrivilegedIs, EnlistedKeepsLine
<1>7. Sound(r1) /\ r1.live
  BY <1>1, <1>6, PrivilegedIs, SameLineIsSound DEF SameLine
<1>8. Sound(r2)
  BY <1>7, RemovedIsSound
<1>9. Scalars'
  BY <1>2, <1>5, SameScalars DEF Kick, Inv, Scalars
<1> QED BY <1>1, <1>4, <1>8, <1>9, AdministeredInv

LEMMA UnkickInv == ASSUME Inv, NEW c \in Client, NEW n \in Target, Unkick(c, n)
                   PROVE  Inv'
<1>1. Sends(c, "UNKICK") /\ Privileged(c)
  BY DEF Unkick
<1>2. PICK r \in Struck(Own(c), "banned", n) : SetOwn(c, r)
  BY DEF Unkick
<1>3. SameLine(Own(c), r)
  BY <1>1, PrivilegedIs, StruckKeepsLine DEF List
<1>4. Sound(r)
  BY <1>1, <1>3, PrivilegedIs, SameLineIsSound
<1>5. Scalars'
  BY SameScalars DEF Unkick, Inv, Scalars
<1> QED BY <1>1, <1>2, <1>4, <1>5, AdministeredInv

LEMMA GhostedIs ==
    ASSUME Inv, NEW c \in Client, Own(c) \in Room, Ghosted(c)
    PROVE  /\ \E r : SameLine(Own(c), r) /\ SetOwn(c, r)
           /\ damage' \subseteq {"ghost", "order"}
<1>1. Own(c).ghosts \cup {c} \in SUBSET Client
  BY DEF Room
<1>2. SameLine(Own(c), [Own(c) EXCEPT !.ghosts = Own(c).ghosts \cup {c}])
  <2> DEFINE g == Own(c).ghosts \cup {c}
  <2> HIDE DEF g
  <2> QED BY <1>1, ParticipantsKeepLine, {} \in SUBSET (Nick \X Client) DEF g
<1> QED BY <1>2 DEF Ghosted, Inv, Scalars

LEMMA MuteInv == ASSUME Inv, NEW c \in Client, NEW n \in Target, Mute(c, n)
                 PROVE  Inv'
<1>1. Sends(c, "MUTE") /\ Privileged(c)
  BY DEF Mute
<1>2. PICK r : SameLine(Own(c), r) /\ SetOwn(c, r) /\ damage' \subseteq {"ghost", "order"}
  <2>1. PICK target \in Named(n) :
          \/ \E r \in Enlisted(Own(c), "muted", target) : SetOwn(c, r) /\ UNCHANGED damage
          \/ Ghosted(c)
    BY DEF Mute
  <2>2. target \in Client /\ "muted" \in List /\ Own(c) \in Room
    BY <1>1, PrivilegedIs DEF Named, List
  <2>3. CASE Ghosted(c)
    BY <2>2, <2>3, GhostedIs
  <2>4. CASE \E r \in Enlisted(Own(c), "muted", target) : SetOwn(c, r) /\ UNCHANGED damage
    BY <2>2, <2>4, EnlistedKeepsLine DEF Inv, Scalars
  <2> QED BY <2>1, <2>3, <2>4
<1>3. Sound(r)
  BY <1>1, <1>2, PrivilegedIs, SameLineIsSound
<1>4. Scalars'
  BY <1>2, SameScalars DEF Mute
<1> QED BY <1>1, <1>2, <1>3, <1>4, AdministeredInv

LEMMA UnmuteInv == ASSUME Inv, NEW c \in Client, NEW n \in Target, Unmute(c, n)
                   PROVE  Inv'
<1>1. Sends(c, "UNMUTE") /\ Privileged(c)
  BY DEF Unmute
<1>2. PICK r : SameLine(Own(c), r) /\ SetOwn(c, r) /\ damage' \subseteq {"ghost", "order"}
  <2>1. "muted" \in List /\ Own(c) \in Room
    BY <1>1, PrivilegedIs DEF List
  <2>2. CASE Ghosted(c)
    BY <2>1, <2>2, GhostedIs
  <2>3. CASE \E r \in Struck(Own(c), "muted", n) : SetOwn(c, r) /\ UNCHANGED damage
    BY <2>1, <2>3, StruckKeepsLine DEF Inv, Scalars
  <2> QED BY <2>2, <2>3 DEF Unmute
<1>3. Sound(r)
  BY <1>1, <1>2, PrivilegedIs, SameLineIsSound
<1>4. Scalars'
  BY <1>2, SameScalars DEF Unmute
<1> QED BY <1>1, <1>2, <1>3, <1>4, AdministeredInv

LEMMA HangUpInv == ASSUME Inv, NEW c \in Client, HangUp(c)
                   PROVE  Inv'
<1>1. SoundRooms(rooms')
  BY AfterLeavingIsSound DEF HangUp
<1>2. Scalars'
  BY DEF HangUp, Inv, Scalars, Quiet
<1> QED BY <1>1, <1>2 DEF Inv

(* A message is relayed to sockets that are in participants.                  *)
LEMMA MessageInv == ASSUME Inv, NEW c \in Client, Message(c)
                    PROVE  Inv'
<1>1. Own(c) \in Room
  BY OwnIsSound DEF Message, Sends
<1>2. relayed' \subseteq Client \X Client
  BY <1>1 DEF Message, Room
<1> QED BY <1>2 DEF Message, Inv, Scalars, SoundRooms

LEMMA ConnectionInv == ASSUME Inv, NEW c \in Client, Connect(c) \/ Destroy(c)
                       PROVE  Inv'
BY DEF Connect, Destroy, Inv, Scalars, SoundRooms, Quiet

LEMMA FaultInv ==
    ASSUME Inv, NEW c \in Client,
           \/ JoinUsesDestroyed(c) \/ HeirIsNull(c) \/ ChannelIsFreed(c)
           \/ \E n \in Target : WhoisFindsNobody(c, n) \/ KickUsesDestroyed(c, n)
    PROVE  Inv'
BY CrashInv DEF JoinUsesDestroyed, HeirIsNull, ChannelIsFreed, WhoisFindsNobody, KickUsesDestroyed

LEMMA NextInv == Inv /\ [Next]_vars => Inv'
<1> SUFFICES ASSUME Inv, [Next]_vars  PROVE Inv'
  OBVIOUS
<1>1. CASE UNCHANGED vars
  BY <1>1 DEF vars, Inv, Scalars, SoundRooms
<1>2. ASSUME NEW c \in Client, Administer(c)  PROVE Inv'
  BY <1>2, ModeInv, InviteInv, KickInv, UnkickInv, MuteInv, UnmuteInv, FaultInv DEF Administer
<1>3. ASSUME NEW c \in Client,
             \/ Connect(c) \/ Destroy(c) \/ HangUp(c) \/ Message(c)
             \/ \E n \in Nick : Nickname(c, n)
             \/ \E ch \in Channel : Join(c, ch)
             \/ JoinUsesDestroyed(c) \/ HeirIsNull(c) \/ ChannelIsFreed(c)
      PROVE  Inv'
  BY <1>3, ConnectionInv, HangUpInv, MessageInv, NicknameInv, JoinInv, FaultInv
<1> QED BY <1>1, <1>2, <1>3 DEF Next

LEMMA AlwaysInv == Spec => []Inv
BY InitInv, NextInv, PTL DEF Spec

(* TypeOK holds of every reachable state: every variable keeps its type, a    *)
(* deleted channel holds nothing, and only the named are in a channel.        *)
THEOREM TypeCorrect == Spec => []TypeOK
BY AlwaysInv, InvIs, PTL

(* Through any sequence of joins, departures, kicks, renames and crashes, and *)
(* whatever ghosts have made of the map of participants, a channel that       *)
(* exists has somebody in its line, and the first in line administers it.     *)
THEOREM OldestAdministers == Spec => []AdminIsOldest
BY AlwaysInv, InvIs, PTL

-----------------------------------------------------------------------------
\* Nicknames.

(* Who has not connected has no name yet, so no connection can bring a name   *)
(* that is taken.                                                             *)
NewAreUnnamed == \A c \in Client : conn[c] = "new" => nickname[c] = Unnamed

NameInv == UniqueNicknames /\ NewAreUnnamed

LEMMA NameInvNext == Inv /\ NameInv /\ [Next]_vars => NameInv'
<1> SUFFICES ASSUME Inv, NameInv, [Next]_vars  PROVE NameInv'
  OBVIOUS
<1>1. CASE UNCHANGED <<conn, nickname>>
  BY <1>1 DEF NameInv, UniqueNicknames, NewAreUnnamed, Named
<1>2. ASSUME NEW c \in Client, NEW n \in Nick, Nickname(c, n)  PROVE NameInv'
  <2>1. /\ Named(n) = {} /\ conn[c] = "served" /\ UNCHANGED conn
        /\ nickname' = [nickname EXCEPT ![c] = n]
    BY <1>2 DEF Nickname, Sends, Runs
  <2>2. nickname \in [Client -> Nick \cup {Unnamed}]
    BY DEF Inv, Scalars
  <2>3. NewAreUnnamed'
    BY <2>1, <2>2 DEF NameInv, NewAreUnnamed
  <2>4. ASSUME NEW m \in Nick, NEW a \in Named(m)', NEW b \in Named(m)'  PROVE a = b
    <3>1. CASE m = n
      BY <2>1, <2>2, <2>4, <3>1 DEF Named
    <3>2. CASE m # n
      <4>1. a \in Named(m) /\ b \in Named(m)
        BY <2>1, <2>2, <2>4, <3>2 DEF Named
      <4> QED BY <4>1 DEF NameInv, UniqueNicknames
    <3> QED BY <3>1, <3>2
  <2> QED BY <2>3, <2>4 DEF NameInv, UniqueNicknames
<1>3. ASSUME NEW c \in Client, Connect(c) \/ HangUp(c) \/ Destroy(c)  PROVE NameInv'
  <2>1. /\ UNCHANGED nickname
        /\ \E to \in {"served", "leaving", "gone"} : conn' = [conn EXCEPT ![c] = to]
        /\ conn[c] \in {"new", "served", "leaving"}
        /\ conn[c] = "new" => nickname[c] = Unnamed
    BY <1>3 DEF Connect, HangUp, Destroy, Runs, NameInv, NewAreUnnamed
  <2>2. conn \in [Client -> {"new", "served", "leaving", "gone"}]
    BY DEF Inv, Scalars
  <2>3. NewAreUnnamed'
    BY <2>1, <2>2 DEF NameInv, NewAreUnnamed
  <2>4. ASSUME NEW m \in Nick  PROVE Named(m)' \subseteq Named(m)
    BY <2>1, <2>2, NamesAssumption DEF Named
  <2> QED BY <2>3, <2>4 DEF NameInv, UniqueNicknames
<1>4. ASSUME NEW c \in Client, Administer(c)  PROVE UNCHANGED <<conn, nickname>>
  BY <1>4 DEF Administer, Mode, Invite, Kick, Unkick, Mute, Unmute, WhoisFindsNobody,
              KickUsesDestroyed, Crash
<1>5. ASSUME NEW c \in Client,
             \/ Message(c) \/ \E ch \in Channel : Join(c, ch)
             \/ JoinUsesDestroyed(c) \/ HeirIsNull(c) \/ ChannelIsFreed(c)
      PROVE  UNCHANGED <<conn, nickname>>
  BY <1>5 DEF Message, Join, JoinUsesDestroyed, HeirIsNull, ChannelIsFreed, Crash
<1> QED BY <1>1, <1>2, <1>3, <1>4, <1>5 DEF Next, vars

(* A nickname that a connected client has chosen is its own: whatever the     *)
(* order in which clients choose, leave and come back, clt_get_by_nickname    *)
(* finds at most one.                                                         *)
THEOREM NicknamesAreUnique == Spec => []UniqueNicknames
<1>1. Init => NameInv
  BY NamesAssumption DEF Init, NameInv, UniqueNicknames, NewAreUnnamed, Named
<1>2. NameInv => UniqueNicknames
  BY DEF NameInv
<1> QED BY <1>1, <1>2, AlwaysInv, NameInvNext, PTL DEF Spec

=============================================================================
