---------------------------- MODULE ChatQueueProofs ----------------------------
(***************************************************************************)
(* The server keeps the promise of ChannelQueue: proofs that every step of *)
(* it is a step of the lines of people, for any number of clients,          *)
(* nicknames and channels, and that nobody loses his place in a line.       *)
(***************************************************************************)
EXTENDS ChatQueue, ChatMembersProofs

-----------------------------------------------------------------------------
\* One line.

(* q is arrived with the members M in the place of their names.               *)
Lined(q, r, M, name) ==
    /\ q \in Seq(Client) /\ DOMAIN q = DOMAIN r.arrived
    /\ \A i \in DOMAIN q : q[i] \in M /\ name[q[i]] = r.arrived[i]

BearerIn(M, name, n) ==
    IF \E c \in M : name[c] = n THEN CHOOSE c \in M : name[c] = n ELSE NULL

LineIn(r, M, name) == [i \in DOMAIN r.arrived |-> BearerIn(M, name, r.arrived[i])]

LEMMA BearerInIs ==
    ASSUME NEW M, NEW name, Distinct(M, name), NEW c \in M
    PROVE  BearerIn(M, name, name[c]) = c
BY DEF BearerIn, Distinct

(* A channel that agrees with its members has one such line.                  *)
LEMMA LineInIs ==
    ASSUME NEW r \in Room, NEW M \in SUBSET Client, NEW name, Agrees(r, M, name),
           Distinct(M, name)
    PROVE  Lined(LineIn(r, M, name), r, M, name)
<1> DEFINE q == LineIn(r, M, name)
<1>1. r.arrived \in Seq(Nick)
  BY DEF Room
<1>2. DOMAIN q = 1 .. Len(r.arrived) /\ DOMAIN r.arrived = 1 .. Len(r.arrived) /\ Len(r.arrived) \in Nat
  BY <1>1 DEF LineIn
<1>3. ASSUME NEW i \in 1 .. Len(r.arrived)  PROVE q[i] \in M /\ name[q[i]] = r.arrived[i]
  <2>1. r.arrived[i] \in ToSet(r.arrived)
    BY <1>2 DEF ToSet
  <2>2. PICK c \in M : name[c] = r.arrived[i]
    BY <2>1 DEF Agrees
  <2>3. q[i] = BearerIn(M, name, r.arrived[i])
    BY <1>2 DEF LineIn
  <2>4. q[i] = c
    BY <2>2, <2>3, BearerInIs
  <2> QED BY <2>2, <2>4
<1>4. q = [i \in 1 .. Len(r.arrived) |-> q[i]]
  BY <1>2 DEF LineIn
<1>5. q \in Seq(Client)
  <2> HIDE DEF q
  <2> QED BY <1>2, <1>3, <1>4
<1> QED BY <1>2, <1>3, <1>5 DEF Lined

LEMMA LinedIsLine ==
    ASSUME NEW q, NEW r, NEW M, NEW name, Distinct(M, name), Lined(q, r, M, name)
    PROVE  q = LineIn(r, M, name)
<1>1. \A i \in DOMAIN q : q[i] = BearerIn(M, name, r.arrived[i])
  BY BearerInIs DEF Lined
<1>2. q = [i \in DOMAIN q |-> q[i]]
  BY DEF Lined
<1> QED BY <1>1, <1>2 DEF Lined, LineIn

LEMMA LinedMembers ==
    ASSUME NEW q, NEW r \in Room, NEW M, NEW name, Agrees(r, M, name), Distinct(M, name),
           Lined(q, r, M, name)
    PROVE  IsInjective(q) /\ ToSet(q) = M
<1>1. IsInjective(q)
  BY DEF IsInjective, Lined, Agrees
<1>2. ASSUME NEW c \in M  PROVE c \in ToSet(q)
  <2>1. name[c] \in ToSet(r.arrived)
    BY DEF Agrees
  <2>2. PICK i \in DOMAIN r.arrived : r.arrived[i] = name[c]
    BY <2>1 DEF ToSet
  <2>3. q[i] = c
    BY <2>2 DEF Lined, Distinct
  <2> QED BY <2>3 DEF Lined, ToSet
<1>3. ToSet(q) \subseteq M
  BY DEF Lined, ToSet
<1> QED BY <1>1, <1>2, <1>3

(* The same line of names under the same names, or renamed.                   *)
LEMMA LinedStays ==
    ASSUME NEW q, NEW r, NEW M, NEW name, Lined(q, r, M, name),
           NEW x, x.arrived = r.arrived, NEW other, \A c \in M : other[c] = name[c]
    PROVE  Lined(q, x, M, other)
BY DEF Lined

LEMMA LinedRenamed ==
    ASSUME NEW q, NEW r \in Room, NEW M \in SUBSET Client, NEW name, Agrees(r, M, name),
           Distinct(M, name), name \in [Client -> Nick \cup {Unnamed}],
           Lined(q, r, M, name), NEW c \in M, NEW n \in Nick, \A d \in M : name[d] # n,
           NEW x, x.arrived = Relined(r.arrived, name[c], n)
    PROVE  Lined(q, x, M, [name EXCEPT ![c] = n])
<1> DEFINE other == [name EXCEPT ![c] = n]
           old == name[c]
<1>1. r.arrived \in Seq(Nick) /\ old \in ToSet(r.arrived) /\ n \notin ToSet(r.arrived)
      /\ IsInjective(r.arrived)
  BY DEF Room, Agrees
<1>2. /\ DOMAIN x.arrived = DOMAIN r.arrived
      /\ \A i \in DOMAIN r.arrived : x.arrived[i] = IF r.arrived[i] = old THEN n ELSE r.arrived[i]
  BY <1>1, RelinedMembers
<1>3. \A d \in M : other[d] = IF d = c THEN n ELSE name[d]
  OBVIOUS
<1> HIDE DEF other
<1>4. \A i \in DOMAIN q : q[i] \in M /\ other[q[i]] = x.arrived[i]
  BY <1>2, <1>3 DEF Lined, Distinct
<1> QED BY <1>2, <1>4 DEF Lined, other

(* Somebody leaves the line.                                                  *)
LEMMA LinedParted ==
    ASSUME NEW q, NEW r \in Room, NEW M \in SUBSET Client, NEW name, Agrees(r, M, name),
           Distinct(M, name), Lined(q, r, M, name), NEW c \in M, NEW x \in Room,
           Parted(r, M, name, c, x)
    PROVE  Lined(RemoveFirst(q, c), x, M \ {c}, name)
<1> DEFINE t == RemoveFirst(q, c)
<1>1. IsInjective(q) /\ ToSet(q) = M /\ q \in Seq(Client)
  BY LinedMembers DEF Lined
<1>2. PICK k \in 1 .. Len(q) : q[k] = c
  BY <1>1 DEF ToSet
<1>3. /\ t \in Seq(Client) /\ Len(t) = Len(q) - 1
      /\ \A i \in 1 .. Len(q) - 1 : t[i] = IF i < k THEN q[i] ELSE q[i + 1]
  BY <1>1, <1>2, RemoveFirstPlaces
<1>4. ToSet(t) = M \ {c}
  BY <1>1, RemoveFirstMembers
<1> HIDE DEF t
<1>5. DOMAIN q = 1 .. Len(q) /\ DOMAIN t = 1 .. Len(q) - 1 /\ Len(q) \in Nat
  BY <1>1, <1>3
<1>6. x.arrived \in Seq(Nick) /\ r.arrived \in Seq(Nick) /\ IsInjective(r.arrived)
  BY DEF Room, Agrees
<1>7. \A i \in 1 .. Len(q) - 1 : t[i] \in M \ {c}
  BY <1>4, <1>5 DEF ToSet
<1>8. CASE ~x.live
  <2>1. M \ {c} = {} /\ ToSet(x.arrived) = {}
    BY <1>8 DEF Parted, Agrees
  <2>2. DOMAIN t = {} /\ DOMAIN x.arrived = {}
    BY <1>4, <2>1 DEF ToSet
  <2> QED BY <1>3, <2>2 DEF Lined, t
<1>9. CASE x.live
  <2> DEFINE old == r.arrived
             line == x.arrived
  <2>1. line = RemoveFirst(old, name[c])
    BY <1>9 DEF Parted
  <2>2. Len(old) = Len(q)
    <3>1. DOMAIN old = 1 .. Len(old) /\ Len(old) \in Nat /\ DOMAIN old = DOMAIN q
      BY <1>6 DEF Lined
    <3> QED BY <1>5, <3>1
  <2>3. \A i \in 1 .. Len(q) : name[q[i]] = old[i]
    BY <1>5 DEF Lined
  <2>4. k \in 1 .. Len(old) /\ old[k] = name[c]
    BY <1>2, <2>2, <2>3
  <2>5. /\ Len(line) = Len(old) - 1
        /\ \A i \in 1 .. Len(old) - 1 : line[i] = IF i < k THEN old[i] ELSE old[i + 1]
    <3> HIDE DEF old, line
    <3> QED BY <1>6, <2>1, <2>4, RemoveFirstPlaces DEF old
  <2> HIDE DEF old, line
  <2>6. ASSUME NEW i \in 1 .. Len(q) - 1  PROVE name[t[i]] = line[i]
    <3>1. i \in 1 .. Len(q) /\ i + 1 \in 1 .. Len(q)
      BY <1>5
    <3> QED BY <1>3, <2>2, <2>3, <2>5, <3>1
  <2>7. DOMAIN line = DOMAIN t
    <3>1. DOMAIN line = 1 .. Len(line)
      BY <1>6 DEF line
    <3>2. Len(line) = Len(q) - 1
      BY <2>2, <2>5
    <3> QED BY <1>5, <3>1, <3>2
  <2> QED BY <1>3, <1>5, <1>7, <2>6, <2>7 DEF Lined, t, line
<1> QED BY <1>8, <1>9

(* Somebody joins its end.                                                    *)
LEMMA LinedEntered ==
    ASSUME NEW q, NEW r \in Room, NEW M \in SUBSET Client, NEW name, Lined(q, r, M, name),
           NEW c \in Client, NEW x, x.arrived = Append(r.arrived, name[c])
    PROVE  Lined(Append(q, c), x, M \cup {c}, name)
<1> DEFINE t == Append(q, c)
<1>1. q \in Seq(Client) /\ r.arrived \in Seq(Nick) /\ Len(q) \in Nat
  BY DEF Lined, Room
<1>2. Len(q) = Len(r.arrived) /\ DOMAIN q = 1 .. Len(q)
  BY <1>1 DEF Lined
<1>3. /\ t \in Seq(Client) /\ DOMAIN t = 1 .. Len(q) + 1 /\ t[Len(q) + 1] = c
      /\ \A i \in 1 .. Len(q) : t[i] = q[i]
  BY <1>1
<1>4. /\ DOMAIN x.arrived = 1 .. Len(q) + 1 /\ x.arrived[Len(q) + 1] = name[c]
      /\ \A i \in 1 .. Len(q) : x.arrived[i] = r.arrived[i]
  BY <1>1, <1>2
<1> HIDE DEF t
<1>5. ASSUME NEW i \in 1 .. Len(q) + 1  PROVE t[i] \in M \cup {c} /\ name[t[i]] = x.arrived[i]
  <2>1. CASE i = Len(q) + 1
    BY <1>3, <1>4, <2>1
  <2>2. CASE i # Len(q) + 1
    <3>1. i \in 1 .. Len(q)
      BY <1>1, <2>2
    <3> QED BY <1>2, <1>3, <1>4, <3>1 DEF Lined
  <2> QED BY <2>1, <2>2
<1> QED BY <1>3, <1>4, <1>5 DEF Lined, t

-----------------------------------------------------------------------------
\* The lines of the server.

LEMMA LineIs ==
    Line = [ch \in Channel |-> LineIn(rooms[ch], Members(ch), nickname)]
BY DEF Line, LineIn, Bearer, BearerIn

LEMMA MembersDiffer ==
    Sane => \A ch \in Channel :
                /\ Members(ch) \in SUBSET Client /\ Distinct(Members(ch), nickname)
                /\ Agrees(rooms[ch], Members(ch), nickname) /\ rooms[ch] \in Room
BY MembersAre

LEMMA MembersDifferAfter ==
    Sane' => \A ch \in Channel :
                /\ Members(ch)' \in SUBSET Client /\ Distinct(Members(ch)', nickname')
                /\ Agrees(rooms'[ch], Members(ch)', nickname') /\ rooms'[ch] \in Room
<1>1. (Sane => \A ch \in Channel :
                /\ Members(ch) \in SUBSET Client /\ Distinct(Members(ch), nickname)
                /\ Agrees(rooms[ch], Members(ch), nickname) /\ rooms[ch] \in Room)'
  BY MembersDiffer, PTL
<1> QED BY <1>1 DEF Distinct, Agrees

(* A line of clients that fits the channel as it is after a step is its line. *)
LEMMA LineAfter ==
    ASSUME Sane', NEW ch \in Channel, NEW q, Lined(q, rooms'[ch], Members(ch)', nickname')
    PROVE  Line'[ch] = q
<1>1. q = LineIn(rooms'[ch], Members(ch)', nickname')
  BY MembersDifferAfter, LinedIsLine
<1>2. Line' = [x \in Channel |-> LineIn(rooms'[x], Members(x)', nickname')]
  BY DEF Line, LineIn, Bearer, BearerIn, Members
<1> QED BY <1>1, <1>2

LEMMA LineNow ==
    ASSUME Sane, NEW ch \in Channel
    PROVE  /\ Lined(Line[ch], rooms[ch], Members(ch), nickname)
           /\ Line[ch] \in Seq(Client) /\ IsInjective(Line[ch]) /\ ToSet(Line[ch]) = Members(ch)
<1>1. Lined(Line[ch], rooms[ch], Members(ch), nickname)
  BY LineIs, MembersAre, LineInIs
<1> QED BY <1>1, MembersAre, LinedMembers DEF Lined

LEMMA LinesHoldMembers == Sane => \A ch \in Channel : ToSet(Line[ch]) = Members(ch)
BY LineNow

LEMMA LinesHoldMembersAfter == Sane' => \A ch \in Channel : ToSet(Line'[ch]) = Members(ch)'
<1>1. (Sane => \A ch \in Channel : ToSet(Line[ch]) = Members(ch))'
  BY LinesHoldMembers, PTL
<1> QED BY <1>1 DEF ToSet

(* Whoever stands first administers the channel.                              *)
LEMMA ChairIs ==
    Sane => Chair = [ch \in Channel |-> IF Line[ch] = <<>> THEN NULL ELSE Head(Line[ch])]
<1> SUFFICES ASSUME Sane, NEW ch \in Channel
             PROVE  Bearer(ch, rooms[ch].admin) = IF Line[ch] = <<>> THEN NULL ELSE Head(Line[ch])
  BY DEF Chair
<1>1. /\ Lined(Line[ch], rooms[ch], Members(ch), nickname) /\ Line[ch] \in Seq(Client)
      /\ ToSet(Line[ch]) = Members(ch)
  BY LineNow
<1>2. Sound(rooms[ch]) /\ Agrees(rooms[ch], Members(ch), nickname)
  BY MembersAre DEF Sane, Inv, SoundRooms
<1>3. CASE Line[ch] = <<>>
  <2>1. Members(ch) = {}
    BY <1>1, <1>3 DEF ToSet
  <2> QED BY <1>3, <2>1 DEF Bearer
<1>4. CASE Line[ch] # <<>>
  <2>1. 1 \in DOMAIN Line[ch] /\ Head(Line[ch]) = Line[ch][1]
    BY <1>1, <1>4
  <2>2. Line[ch][1] \in Members(ch) /\ nickname[Line[ch][1]] = rooms[ch].arrived[1]
        /\ 1 \in DOMAIN rooms[ch].arrived
    BY <1>1, <2>1 DEF Lined
  <2>3. rooms[ch].live
    BY <1>2, <2>2 DEF Agrees
  <2>4. rooms[ch].admin = rooms[ch].arrived[1]
    BY <1>2, <2>2, <2>3 DEF Sound, Room
  <2>5. BearerIn(Members(ch), nickname, nickname[Line[ch][1]]) = Line[ch][1]
    BY <2>2, MembersAre, BearerInIs
  <2> QED BY <1>4, <2>1, <2>2, <2>4, <2>5 DEF Bearer, BearerIn
<1> QED BY <1>3, <1>4

LEMMA ChairAfter ==
    Sane' => Chair' = [ch \in Channel |-> IF Line'[ch] = <<>> THEN NULL ELSE Head(Line'[ch])]
<1>1. (Sane => Chair = [ch \in Channel |-> IF Line[ch] = <<>> THEN NULL ELSE Head(Line[ch])])'
  BY ChairIs, PTL
<1> QED BY <1>1

-----------------------------------------------------------------------------
\* What each action does to the lines.

(* The lines without p, who stands in one of them at most.                    *)
Parting(p) == [ch \in Channel |-> RemoveFirst(Line[ch], p)]

LEMMA AbsentParting ==
    ASSUME NEW q, NEW p, p \notin ToSet(q)
    PROVE  RemoveFirst(q, p) = q
BY DEF RemoveFirst, ToSet

LEMMA SameLines ==
    ASSUME Sane, Sane', UNCHANGED <<nickname, channelOf>>,
           \A ch \in Channel : rooms'[ch].arrived = rooms[ch].arrived
    PROVE  Line' = Line
<1>1. ASSUME NEW ch \in Channel  PROVE Line'[ch] = Line[ch]
  <2>1. Lined(Line[ch], rooms'[ch], Members(ch), nickname')
    BY LineNow, LinedStays
  <2> QED BY <2>1, LineAfter DEF Members
<1> QED BY <1>1 DEF Line

LEMMA NicknameLines ==
    ASSUME Sane, Sane', NEW c \in Client, NEW n \in Nick, Nickname(c, n)
    PROVE  Line' = Line
<1>1. /\ Runs(c) /\ Named(n) = {} /\ nickname' = [nickname EXCEPT ![c] = n]
      /\ UNCHANGED channelOf
  BY DEF Nickname, Sends
<1>2. PICK own \in IF channelOf[c] = NULL THEN {NoRoom} ELSE Renamed(Own(c), c, n) :
        rooms' = [ch \in Channel |-> Unsettled(IF ch = channelOf[c] THEN own ELSE rooms[ch], c)]
  BY DEF Nickname
<1>3. nickname \in [Client -> Nick \cup {Unnamed}]
  BY DEF Sane, Inv, Scalars
<1>4. ASSUME NEW ch \in Channel  PROVE Line'[ch] = Line[ch]
  <2>1. CASE ch = channelOf[c]
    <3>1. channelOf[c] # NULL /\ c \in Members(ch) /\ Own(c) = rooms[ch]
      BY <2>1, NamesAssumption DEF Members, Own
    <3>2. own \in Renamed(rooms[ch], c, n) /\ rooms'[ch] = Unsettled(own, c)
      BY <1>2, <2>1, <3>1
    <3>3. own \in Room
      BY <1>1, <3>1, <3>2, OwnIsSound, RenamedIsSound DEF Sane, Sound
    <3>4. \A d \in Members(ch) : nickname[d] # n
      BY <1>1, MembersAre
    <3>5. /\ own.arrived = Relined(rooms[ch].arrived, nickname[c], n)
          /\ Agrees(own, Members(ch), [nickname EXCEPT ![c] = n])
      BY <1>3, <3>1, <3>2, <3>4, MembersAre, RenamedAgrees
    <3>6. rooms'[ch].arrived = Relined(rooms[ch].arrived, nickname[c], n)
      BY <3>2, <3>3, <3>5, UnsettledAgrees
    <3>7. Lined(Line[ch], rooms'[ch], Members(ch), [nickname EXCEPT ![c] = n])
      BY <1>3, <3>1, <3>4, <3>6, LineNow, MembersAre, LinedRenamed
    <3> QED BY <1>1, <3>7, LineAfter DEF Members
  <2>2. CASE ch # channelOf[c]
    <3>1. c \notin Members(ch) /\ rooms'[ch] = Unsettled(rooms[ch], c)
      BY <1>2, <2>2 DEF Members
    <3>2. rooms'[ch].arrived = rooms[ch].arrived
      BY <3>1, MembersAre, UnsettledAgrees
    <3>3. \A d \in Members(ch) : nickname'[d] = nickname[d]
      BY <1>1, <1>3, <3>1
    <3>4. Lined(Line[ch], rooms'[ch], Members(ch), nickname')
      BY <3>2, <3>3, LineNow, LinedStays
    <3> QED BY <1>1, <3>4, LineAfter DEF Members
  <2> QED BY <2>1, <2>2
<1> QED BY <1>4 DEF Line

(* The channels as AfterLeaving leaves them hold the lines without c.         *)
LEMMA LeavingLines ==
    ASSUME Sane, NEW c \in Client, Runs(c), NEW rs \in AfterLeaving(c), NEW ch \in Channel
    PROVE  /\ Lined(RemoveFirst(Line[ch], c), rs[ch], Members(ch) \ {c}, nickname)
           /\ rs[ch] \in Room
<1>1. rs[ch] \in Room
  BY AfterLeavingIsSound DEF Sane, SoundRooms
<1>2. /\ Agrees(rs[ch], Members(ch) \ {c}, nickname)
      /\ ch # channelOf[c] => rs[ch] = rooms[ch]
      /\ ch = channelOf[c] /\ rs[ch].live =>
           rs[ch].arrived = RemoveFirst(rooms[ch].arrived, nickname[c])
  BY AfterLeavingAgrees
<1>3. CASE c \in Members(ch)
  <2>1. Parted(rooms[ch], Members(ch), nickname, c, rs[ch])
    BY <1>2, <1>3 DEF Parted, Members
  <2> QED BY <1>1, <1>3, <2>1, LineNow, MembersAre, LinedParted
<1>4. CASE c \notin Members(ch)
  <2>1. rs[ch] = rooms[ch] /\ Members(ch) \ {c} = Members(ch)
    BY <1>2, <1>4 DEF Members
  <2>2. RemoveFirst(Line[ch], c) = Line[ch]
    BY <1>4, LineNow, AbsentParting
  <2> QED BY <1>1, <2>1, <2>2, LineNow
<1> QED BY <1>3, <1>4

LEMMA HangUpLines ==
    ASSUME Sane, Sane', NEW c \in Client, HangUp(c)
    PROVE  Line' = Parting(c)
<1>1. PICK rs \in AfterLeaving(c) : rooms' = rs
  BY DEF HangUp
<1>2. /\ Runs(c) /\ UNCHANGED nickname /\ channelOf' = [channelOf EXCEPT ![c] = NULL]
      /\ channelOf \in [Client -> Channel \cup {NULL}]
  BY DEF HangUp, Sane, Inv, Scalars
<1>3. ASSUME NEW ch \in Channel  PROVE Line'[ch] = RemoveFirst(Line[ch], c)
  <2>1. Members(ch)' = Members(ch) \ {c}
    BY <1>2, NamesAssumption DEF Members
  <2>2. Lined(RemoveFirst(Line[ch], c), rooms'[ch], Members(ch)', nickname')
    BY <1>1, <1>2, <2>1, LeavingLines
  <2> QED BY <2>2, LineAfter
<1> QED BY <1>3 DEF Line, Parting

LEMMA KickLines ==
    ASSUME Sane, Sane', NEW c \in Client, NEW n \in Target, Kick(c, n)
    PROVE  \E d \in Client :
              /\ d \in Members(channelOf[c]) /\ Named(n) = {d}
              /\ Line' = Parting(d) /\ channelOf' = [channelOf EXCEPT ![d] = NULL]
              /\ channelOf'[d] = NULL
<1>1. /\ Runs(c) /\ channelOf[c] # NULL /\ TRUE \in Finds(Own(c), n, c)
      /\ UNCHANGED nickname
  BY DEF Kick, Sends, Privileged
<1> DEFINE own == channelOf[c]
<1>2. own \in Channel /\ Own(c) = rooms[own]
  BY <1>1, OwnMember DEF Own, Sane
<1>3. PICK d \in Members(own) : nickname[d] = n /\ Named(n) = {d}
  BY <1>1, FoundIsMember
<1>4. PICK r1 \in Enlisted(Own(c), "banned", d) : \E r2 \in Removed(r1, n, Echoes(r1, c)) :
        SetOwn(c, r2) /\ channelOf' = [channelOf EXCEPT ![d] = NULL]
  BY <1>3 DEF Kick
<1>5. PICK r2 \in Removed(r1, n, Echoes(r1, c)) :
        SetOwn(c, r2) /\ channelOf' = [channelOf EXCEPT ![d] = NULL]
  BY <1>4
<1>6. d \in Client /\ "banned" \in List /\ rooms[own] \in Room
  BY <1>2, <1>3, MembersAre DEF List
<1>7. SameMembers(rooms[own], r1)
  BY <1>2, <1>4, <1>6, EnlistedKeepsMembers
<1>8. Agrees(r1, Members(own), nickname) /\ r1 \in Room /\ r1.arrived = rooms[own].arrived
  BY <1>2, <1>7, MembersAre, SameMembersAgree DEF SameMembers
<1>9. Parted(r1, Members(own), nickname, d, r2)
  BY <1>2, <1>3, <1>5, <1>8, MembersAre, RemovedAgrees
<1>10. channelOf \in [Client -> Channel \cup {NULL}] /\ rooms'[own] = r2
  BY <1>2, <1>5 DEF Sane, Inv, Scalars, SoundRooms, SetOwn
<1>11. ASSUME NEW ch \in Channel  PROVE Line'[ch] = RemoveFirst(Line[ch], d)
  <2>1. Members(ch)' = Members(ch) \ {d}
    BY <1>5, <1>10, NamesAssumption DEF Members
  <2>2. CASE ch = own
    <3>1. Parted(rooms[ch], Members(ch), nickname, d, rooms'[ch]) /\ rooms'[ch] \in Room
      BY <1>8, <1>9, <1>10, <2>2, MembersDifferAfter DEF Parted
    <3>2. Lined(RemoveFirst(Line[ch], d), rooms'[ch], Members(ch) \ {d}, nickname)
      BY <1>3, <2>2, <3>1, LineNow, MembersAre, LinedParted
    <3> QED BY <1>1, <2>1, <3>2, LineAfter
  <2>3. CASE ch # own
    <3>1. d \notin Members(ch) /\ rooms'[ch] = rooms[ch]
      BY <1>3, <1>5, <2>3 DEF Members, SetOwn, Sane, Inv, SoundRooms
    <3>2. RemoveFirst(Line[ch], d) = Line[ch] /\ Members(ch)' = Members(ch)
      BY <2>1, <3>1, LineNow, AbsentParting
    <3> QED BY <1>1, <3>1, <3>2, LineNow, LineAfter
  <2> QED BY <2>2, <2>3
<1>12. Line' = Parting(d) /\ channelOf'[d] = NULL
  BY <1>5, <1>6, <1>10, <1>11 DEF Line, Parting
<1> QED BY <1>3, <1>5, <1>6, <1>12

(* c has left the line it was in and, if it was let in, stands at the end of  *)
(* the one it asked for.                                                      *)
Entering(c, ch) == [Parting(c) EXCEPT ![ch] = Append(RemoveFirst(Line[ch], c), c)]

LEMMA JoinLines ==
    ASSUME Sane, Sane', NEW c \in Client, NEW ch \in Channel, Join(c, ch)
    PROVE  Line' = Parting(c) \/ Line' = Entering(c, ch)
<1>1. PICK rs \in AfterLeaving(c) :
        \E entry \in IF rs[ch].live THEN Admitted(rs[ch], c) ELSE {<<Created(c), TRUE>>} :
            /\ rooms' = [rs EXCEPT ![ch] = entry[1]]
            /\ channelOf' = [channelOf EXCEPT ![c] = IF entry[2] THEN ch ELSE NULL]
  BY DEF Join
<1>2. PICK entry \in IF rs[ch].live THEN Admitted(rs[ch], c) ELSE {<<Created(c), TRUE>>} :
            /\ rooms' = [rs EXCEPT ![ch] = entry[1]]
            /\ channelOf' = [channelOf EXCEPT ![c] = IF entry[2] THEN ch ELSE NULL]
  BY <1>1
<1>3. /\ Runs(c) /\ nickname[c] \in Nick /\ conn[c] = "served" /\ UNCHANGED nickname
      /\ channelOf \in [Client -> Channel \cup {NULL}]
  BY DEF Join, HasName, Sane, Inv, Scalars, Sends, Runs
<1> DEFINE M == Members(ch) \ {c}
           q == RemoveFirst(Line[ch], c)
<1>4. SoundRooms(rs) /\ DOMAIN rs = Channel
  BY <1>3, AfterLeavingIsSound DEF Sane, SoundRooms
<1>5. Lined(q, rs[ch], M, nickname) /\ Agrees(rs[ch], M, nickname) /\ rs[ch] \in Room
  BY <1>3, LeavingLines, AfterLeavingAgrees
<1>6. \A d \in M : nickname[d] # nickname[c]
  <2> SUFFICES ASSUME NEW d \in M, nickname[d] = nickname[c]  PROVE FALSE
    OBVIOUS
  <2>1. d \in Named(nickname[c]) /\ c \in Named(nickname[c])
    BY <1>3, MembersAre DEF Named
  <2> QED BY <1>3, <2>1 DEF Sane, UniqueNicknames
<1>7. \/ entry[2] = FALSE /\ entry[1] = rs[ch]
      \/ entry[2] = TRUE /\ entry[1].arrived = Append(rs[ch].arrived, nickname[c])
  <2>1. CASE ~rs[ch].live
    <3>1. entry = <<Created(c), TRUE>> /\ rs[ch] = NoRoom
      BY <1>2, <1>4, <2>1 DEF SoundRooms, Sound
    <3>2. Created(c).arrived = <<nickname[c]>> /\ NoRoom.arrived = <<>>
      BY DEF Created, NoRoom
    <3> QED BY <3>1, <3>2
  <2>2. CASE rs[ch].live
    <3>1. entry \in Admitted(rs[ch], c)
      BY <1>2, <2>2
    <3> HIDE DEF M
    <3>2. \/ entry = <<rs[ch], FALSE>>
          \/ entry[2] = TRUE /\ Entered(rs[ch], M, c, entry[1])
      BY <1>3, <1>5, <1>6, <2>2, <3>1, AdmittedAgrees
    <3>3. CASE entry = <<rs[ch], FALSE>>
      BY <3>3
    <3>4. CASE entry[2] = TRUE /\ Entered(rs[ch], M, c, entry[1])
      BY <3>4 DEF Entered
    <3> QED BY <3>2, <3>3, <3>4
  <2> QED BY <2>1, <2>2
<1>8. ASSUME NEW other \in Channel, other # ch \/ entry[2] = FALSE
      PROVE  Line'[other] = RemoveFirst(Line[other], c)
  <2>1. rooms'[other] = rs[other]
    BY <1>2, <1>4, <1>7, <1>8
  <2>2. Members(other)' = Members(other) \ {c}
    BY <1>2, <1>3, <1>7, <1>8, NamesAssumption DEF Members
  <2> QED BY <1>3, <2>1, <2>2, LeavingLines, LineAfter
<1>9. ASSUME entry[2] = TRUE  PROVE Line'[ch] = Append(q, c)
  <2>1. rooms'[ch].arrived = Append(rs[ch].arrived, nickname[c])
    BY <1>2, <1>4, <1>7, <1>9
  <2>2. Members(ch)' = M \cup {c}
    BY <1>2, <1>3, <1>9 DEF Members
  <2>3. M \in SUBSET Client
    BY DEF Members
  <2> HIDE DEF M, q
  <2>4. Lined(Append(q, c), rooms'[ch], M \cup {c}, nickname)
    BY <1>5, <2>1, <2>3, LinedEntered
  <2> QED BY <1>3, <2>2, <2>4, LineAfter
<1>10. CASE entry[2] = FALSE
  BY <1>8, <1>10 DEF Line, Parting
<1>11. CASE entry[2] = TRUE
  BY <1>8, <1>9, <1>11 DEF Line, Parting, Entering
<1> QED BY <1>7, <1>10, <1>11

(* The other actions move nobody.                                             *)
LEMMA SetOwnLines ==
    ASSUME Sane, Sane', NEW c \in Client, channelOf[c] # NULL, NEW r, r.arrived = Own(c).arrived,
           SetOwn(c, r), UNCHANGED <<nickname, channelOf>>
    PROVE  Line' = Line
<1>1. \A ch \in Channel : rooms'[ch].arrived = rooms[ch].arrived
  BY DEF SetOwn, Own, Sane, Inv, SoundRooms
<1> QED BY <1>1, SameLines

LEMMA InviteLines ==
    ASSUME Sane, Sane', NEW c \in Client, NEW n \in Target, Invite(c, n)
    PROVE  Line' = Line
<1>1. channelOf[c] # NULL /\ Own(c) \in Room /\ UNCHANGED <<nickname, channelOf>>
  BY PrivilegedIs DEF Invite, Privileged, Sane
<1>2. PICK guest \in Named(n), r1 \in Struck(Own(c), "muted", n) :
        \E r2 \in Struck(r1, "banned", n) : \E r3 \in Enlisted(r2, "invited", guest) :
            SetOwn(c, r3)
  BY DEF Invite
<1>3. PICK r2 \in Struck(r1, "banned", n) : \E r3 \in Enlisted(r2, "invited", guest) :
        SetOwn(c, r3)
  BY <1>2
<1>4. PICK r3 \in Enlisted(r2, "invited", guest) : SetOwn(c, r3)
  BY <1>3
<1>5. guest \in Client /\ {"muted", "banned", "invited"} \subseteq List
  BY DEF Named, List
<1>6. r1 \in Room /\ r1.arrived = Own(c).arrived
  BY <1>1, <1>5, StruckKeepsLine DEF SameLine
<1>7. r2 \in Room /\ r2.arrived = Own(c).arrived
  BY <1>5, <1>6, StruckKeepsLine DEF SameLine
<1>8. r3.arrived = Own(c).arrived
  BY <1>5, <1>7, EnlistedKeepsLine DEF SameLine
<1> QED BY <1>1, <1>4, <1>8, SetOwnLines

LEMMA ListsLines ==
    ASSUME Sane, Sane', NEW c \in Client, NEW n \in Target, Unkick(c, n) \/ Mute(c, n) \/ Unmute(c, n)
    PROVE  Line' = Line
<1>1. channelOf[c] # NULL /\ Own(c) \in Room /\ UNCHANGED <<nickname, channelOf>>
  BY PrivilegedIs DEF Unkick, Mute, Unmute, Privileged, Sane
<1>2. {"muted", "banned"} \subseteq List /\ Named(n) \subseteq Client /\ ~Ghosted(c)
  BY DEF List, Named, Ghosted, Sane
<1>3. PICK r : SetOwn(c, r) /\ SameLine(Own(c), r)
  <2>1. CASE Unkick(c, n)
    BY <1>1, <1>2, <2>1, StruckKeepsLine DEF Unkick
  <2>2. CASE Mute(c, n)
    BY <1>1, <1>2, <2>2, EnlistedKeepsLine DEF Mute
  <2>3. CASE Unmute(c, n)
    BY <1>1, <1>2, <2>3, StruckKeepsLine DEF Unmute
  <2> QED BY <2>1, <2>2, <2>3
<1> QED BY <1>1, <1>3, SetOwnLines DEF SameLine

LEMMA ModeLines ==
    ASSUME Sane, Sane', NEW c \in Client, NEW public \in BOOLEAN, Mode(c, public)
    PROVE  Line' = Line
<1>1. channelOf[c] # NULL /\ Own(c) \in Room /\ UNCHANGED <<nickname, channelOf>>
  BY PrivilegedIs DEF Mode, Privileged, Sane
<1>2. [Own(c) EXCEPT !.is_public = public].arrived = Own(c).arrived
  BY <1>1 DEF Room
<1> QED BY <1>1, <1>2, SetOwnLines DEF Mode

LEMMA UntouchedLines ==
    ASSUME Sane, Sane', NEW c \in Client,
           \/ Connect(c) \/ Destroy(c) \/ Message(c)
           \/ JoinUsesDestroyed(c) \/ HeirIsNull(c) \/ ChannelIsFreed(c)
           \/ \E n \in Target : WhoisFindsNobody(c, n) \/ KickUsesDestroyed(c, n)
    PROVE  Line' = Line
<1>1. UNCHANGED <<nickname, channelOf, rooms>>
  BY DEF Connect, Destroy, Message, JoinUsesDestroyed, HeirIsNull, ChannelIsFreed,
         WhoisFindsNobody, KickUsesDestroyed, Crash
<1> QED BY <1>1, SameLines

(* What a step may do to the lines.                                           *)
LineStep ==
    \/ Line' = Line
    \/ \E p \in Client : Line' = Parting(p) /\ channelOf'[p] = NULL
    \/ \E p \in Client, ch \in Channel : Line' = Entering(p, ch) /\ Join(p, ch)

LEMMA StepLines == Sane /\ Sane' /\ [Next]_vars => LineStep
<1> SUFFICES ASSUME Sane, Sane', [Next]_vars  PROVE LineStep
  OBVIOUS
<1>1. CASE UNCHANGED vars
  BY <1>1, SameLines DEF vars, LineStep
<1>2. ASSUME NEW c \in Client, Administer(c)  PROVE LineStep
  BY <1>2, ModeLines, InviteLines, KickLines, ListsLines, UntouchedLines DEF Administer, LineStep
<1>3. ASSUME NEW c \in Client,
             \/ Connect(c) \/ Destroy(c) \/ Message(c)
             \/ JoinUsesDestroyed(c) \/ HeirIsNull(c) \/ ChannelIsFreed(c)
      PROVE  LineStep
  BY <1>3, UntouchedLines DEF LineStep
<1>4. ASSUME NEW c \in Client, HangUp(c)  PROVE LineStep
  <2>1. channelOf'[c] = NULL
    BY <1>4 DEF HangUp, Sane, Inv, Scalars
  <2> QED BY <1>4, <2>1, HangUpLines DEF LineStep
<1>5. ASSUME NEW c \in Client, NEW ch \in Channel, Join(c, ch)  PROVE LineStep
  <2>1. CASE Line' = Entering(c, ch)
    BY <1>5, <2>1 DEF LineStep
  <2>2. CASE Line' = Parting(c) /\ channelOf'[c] = NULL
    BY <2>2 DEF LineStep
  <2>3. CASE Line' = Parting(c) /\ channelOf'[c] # NULL
    <3>1. PICK other \in Channel : c \in Members(other)'
      BY <2>3 DEF Sane, Inv, Scalars, Members
    <3>2. Line'[other] = RemoveFirst(Line[other], c)
      BY <2>3 DEF Parting
    <3>3. ToSet(Line'[other]) = ToSet(Line[other]) \ {c}
      BY <3>2, LineNow, RemoveFirstMembers
    <3> QED BY <3>1, <3>3, LinesHoldMembersAfter
  <2> QED BY <1>5, <2>1, <2>2, <2>3, JoinLines
<1> QED BY <1>1, <1>2, <1>3, <1>4, <1>5, NicknameLines DEF Next, LineStep

-----------------------------------------------------------------------------
\* The promise of ChannelQueue.

LEMMA QueueOperators ==
    /\ \A q, p : Queue!Without(q, p) = RemoveFirst(q, p)
    /\ \A p, ch : Queue!In(p, ch) <=> p \in ToSet(Line[ch])
    /\ Line = [ch \in Channel |-> Line[ch]]
<1>1. ASSUME NEW q, NEW p  PROVE Queue!Without(q, p) = RemoveFirst(q, p)
  <2>1. ASSUME NEW S  PROVE Queue!Min(S) = Min(S)
    BY DEF Queue!Min, Min
  <2>2. Queue!SelectInSeq(q, LAMBDA v : v = p) = SelectInSeq(q, LAMBDA v : v = p)
    BY <2>1 DEF Queue!SelectInSeq, SelectInSeq
  <2> QED BY <2>2 DEF Queue!Without, Queue!RemoveFirst, Queue!RemoveAt, RemoveFirst, RemoveAt
<1>2. ASSUME NEW p, NEW ch  PROVE Queue!In(p, ch) <=> p \in ToSet(Line[ch])
  BY DEF Queue!In, Queue!ToSet, ToSet
<1>3. Line = [ch \in Channel |-> Line[ch]]
  BY DEF Line
<1> QED BY <1>1, <1>2, <1>3

LEMMA QueueBecomes ==
    ASSUME Sane', NEW l, Line' = l
    PROVE  Queue!Becomes(l)
BY ChairAfter DEF Queue!Becomes

LEMMA QueueParting ==
    ASSUME Sane, Sane', NEW p \in Client, Line' = Parting(p)
    PROVE  Queue!Next \/ UNCHANGED <<Line, Chair>>
<1>1. CASE channelOf[p] = NULL
  <2>1. ASSUME NEW ch \in Channel  PROVE RemoveFirst(Line[ch], p) = Line[ch]
    <3>1. p \notin ToSet(Line[ch])
      BY <1>1, LineNow, NamesAssumption DEF Members
    <3> QED BY <3>1, AbsentParting
  <2>2. Line' = Line
    BY <2>1, QueueOperators DEF Parting
  <2> QED BY <2>2, ChairIs, ChairAfter
<1>2. CASE channelOf[p] # NULL
  <2> DEFINE ch == channelOf[p]
  <2>1. ch \in Channel /\ p \in ToSet(Line[ch])
    BY <1>2, OwnMember, LineNow DEF Sane
  <2>2. ASSUME NEW other \in Channel, other # ch
        PROVE  RemoveFirst(Line[other], p) = Line[other]
    <3>1. p \notin ToSet(Line[other])
      BY <2>2, LineNow DEF Members
    <3> QED BY <3>1, AbsentParting
  <2>3. Parting(p) = [Line EXCEPT ![ch] = Queue!Without(Line[ch], p)]
    BY <2>1, <2>2, QueueOperators DEF Parting
  <2>4. Queue!Leave(p, ch)
    BY <2>1, <2>3, QueueOperators, QueueBecomes DEF Queue!Leave
  <2> QED BY <2>1, <2>4 DEF Queue!Next
<1> QED BY <1>1, <1>2

LEMMA QueueEntering ==
    ASSUME Sane, Sane', NEW p \in Client, NEW to \in Channel, Line' = Entering(p, to)
    PROVE  Queue!Next
<1>1. CASE channelOf[p] = NULL
  <2>1. ASSUME NEW ch \in Channel
        PROVE  RemoveFirst(Line[ch], p) = Line[ch] /\ p \notin ToSet(Line[ch])
    <3>1. p \notin ToSet(Line[ch])
      BY <1>1, LineNow, NamesAssumption DEF Members
    <3> QED BY <3>1, AbsentParting
  <2>2. Parting(p) = Line
    BY <2>1, QueueOperators DEF Parting
  <2>3. Entering(p, to) = [Line EXCEPT ![to] = Append(Line[to], p)]
    BY <2>1, <2>2 DEF Entering
  <2>4. Queue!Enter(p, to)
    BY <2>1, <2>3, QueueOperators, QueueBecomes DEF Queue!Enter
  <2> QED BY <2>4 DEF Queue!Next
<1>2. CASE channelOf[p] # NULL
  <2> DEFINE ch == channelOf[p]
  <2>1. ch \in Channel /\ p \in ToSet(Line[ch])
    BY <1>2, OwnMember, LineNow DEF Sane
  <2>2. ASSUME NEW other \in Channel, other # ch
        PROVE  RemoveFirst(Line[other], p) = Line[other]
    <3>1. p \notin ToSet(Line[other])
      BY <2>2, LineNow DEF Members
    <3> QED BY <3>1, AbsentParting
  <2>3. Parting(p) = [Line EXCEPT ![ch] = Queue!Without(Line[ch], p)]
    BY <2>1, <2>2, QueueOperators DEF Parting
  <2>4. Parting(p)[to] = RemoveFirst(Line[to], p)
    BY DEF Parting
  <2>5. Queue!Move(p, ch, to)
    BY <2>1, <2>3, <2>4, QueueOperators, QueueBecomes DEF Queue!Move, Entering
  <2> QED BY <2>1, <2>5 DEF Queue!Next
<1> QED BY <1>1, <1>2

LEMMA QueueStep == Sane /\ Sane' /\ [Next]_vars => [Queue!Next]_(Queue!vars)
<1> SUFFICES ASSUME Sane, Sane', LineStep  PROVE Queue!Next \/ UNCHANGED <<Line, Chair>>
  BY StepLines DEF Queue!vars
<1>1. CASE Line' = Line
  BY <1>1, ChairIs, ChairAfter
<1> QED BY <1>1, QueueParting, QueueEntering DEF LineStep

LEMMA QueueInit == Init => Queue!Init
<1> SUFFICES ASSUME Init  PROVE Queue!Init
  OBVIOUS
<1>1. ASSUME NEW ch \in Channel  PROVE Members(ch) = {} /\ rooms[ch] = NoRoom
  BY NamesAssumption DEF Init, Members
<1>2. ASSUME NEW ch \in Channel, NEW n  PROVE Bearer(ch, n) = NULL
  BY <1>1 DEF Bearer
<1>3. ASSUME NEW ch \in Channel
      PROVE  [i \in DOMAIN rooms[ch].arrived |-> Bearer(ch, rooms[ch].arrived[i])] = <<>>
  <2>1. rooms[ch].arrived = <<>>
    BY <1>1 DEF NoRoom
  <2> QED BY <2>1
<1>4. Line = [ch \in Channel |-> <<>>]
  BY <1>3 DEF Line
<1>5. Chair = [ch \in Channel |-> NULL]
  BY <1>2 DEF Chair
<1> QED BY <1>4, <1>5 DEF Queue!Init

LEMMA AlwaysSane == Spec /\ []("ghost" \notin damage) => []Sane
<1>1. Inv /\ UniqueNicknames /\ Together /\ "ghost" \notin damage => Sane
  BY DEF Sane
<1> QED BY <1>1, AlwaysInv, NicknamesAreUnique, AlwaysTogether, PTL

(* As long as nobody mutes or unmutes a name that is not there, the server,   *)
(* with its names, its renames and its lists, is the queues of people of      *)
(* ChannelQueue and nothing else: one leaves a line, one goes to the end of   *)
(* a line, and the chair always goes to whoever stands first.                 *)
THEOREM ServerIsQueues == Spec /\ []("ghost" \notin damage) => ImplementsQueue
<1>1. Spec /\ []Sane => Queue!Spec
  BY QueueInit, QueueStep, PTL DEF Spec, Queue!Spec
<1> QED BY <1>1, AlwaysSane, PTL DEF ImplementsQueue

(* A server whose clients neither mute nor unmute never has a ghost.          *)
LEMMA NobodyGhosted ==
    Spec => [](Commands \cap {"MUTE", "UNMUTE"} = {} => "ghost" \notin damage)
<1> DEFINE Silent == Commands \cap {"MUTE", "UNMUTE"} = {}
<1>1. Init => "ghost" \notin damage
  BY DEF Init
<1>2. (Silent => "ghost" \notin damage) /\ [Next]_vars => (Silent => "ghost" \notin damage)'
  <2> SUFFICES ASSUME Silent, "ghost" \notin damage, [Next]_vars  PROVE "ghost" \notin damage'
    OBVIOUS
  <2>1. ASSUME NEW c \in Client, NEW n, Mute(c, n) \/ Unmute(c, n)  PROVE FALSE
    BY <2>1 DEF Mute, Unmute, Sends
  <2>2. ASSUME NEW c \in Client, Administer(c)  PROVE "ghost" \notin damage'
    BY <2>1, <2>2 DEF Administer, Mode, Invite, Kick, Unkick, WhoisFindsNobody, KickUsesDestroyed,
                      Crash
  <2>3. ASSUME NEW c \in Client,
               \/ Connect(c) \/ Destroy(c) \/ HangUp(c) \/ Message(c)
               \/ \E ch \in Channel : Join(c, ch)
               \/ JoinUsesDestroyed(c) \/ HeirIsNull(c) \/ ChannelIsFreed(c)
        PROVE  "ghost" \notin damage'
    BY <2>3 DEF Connect, Destroy, HangUp, Message, Join, JoinUsesDestroyed, HeirIsNull,
                ChannelIsFreed, Crash
  <2>4. ASSUME NEW c \in Client, NEW n \in Nick, Nickname(c, n)  PROVE "ghost" \notin damage'
    <3>1. damage' = damage \cup {"order" : ch \in {x \in Channel : rooms'[x].disorder # {}}}
      BY <2>4 DEF Nickname
    <3> QED BY <3>1
  <2> QED BY <2>2, <2>3, <2>4 DEF Next, vars
<1> HIDE DEF Silent
<1>3. Spec => [](Silent => "ghost" \notin damage)
  BY <1>1, <1>2, PTL DEF Spec
<1> QED BY <1>3 DEF Silent

(* so that such a server, the one the runs of ChatQueue check, is the queues  *)
(* in all its behaviours.  (Commands is a constant: always is no more here.)  *)
THEOREM SilentServerIsQueues ==
    Spec /\ [](Commands \cap {"MUTE", "UNMUTE"} = {}) => ImplementsQueue
BY NobodyGhosted, ServerIsQueues, PTL

-----------------------------------------------------------------------------
\* Seniority.

LEMMA PrecedesIs ==
    Sane => \A ch \in Channel : \A c, d \in Members(ch) :
                Precedes(ch, nickname[c], nickname[d]) <=> Ahead(Line[ch], c, d)
<1> SUFFICES ASSUME Sane, NEW ch \in Channel, NEW c \in Members(ch), NEW d \in Members(ch)
             PROVE  Precedes(ch, nickname[c], nickname[d]) <=> Ahead(Line[ch], c, d)
  OBVIOUS
<1>1. Lined(Line[ch], rooms[ch], Members(ch), nickname)
  BY LineNow
<1>2. Distinct(Members(ch), nickname)
  BY MembersAre
<1>3. \A i \in DOMAIN Line[ch] : \A e \in Members(ch) :
        rooms[ch].arrived[i] = nickname[e] <=> Line[ch][i] = e
  BY <1>1, <1>2 DEF Lined, Distinct
<1> QED BY <1>1, <1>3 DEF Precedes, Ahead, Lined

LEMMA PrecedesAfter ==
    Sane' => \A ch \in Channel : \A c, d \in Members(ch)' :
                Precedes(ch, nickname[c], nickname[d])' <=> Ahead(Line'[ch], c, d)
<1>1. (Sane => \A ch \in Channel : \A c, d \in Members(ch) :
                Precedes(ch, nickname[c], nickname[d]) <=> Ahead(Line[ch], c, d))'
  BY PrecedesIs, PTL
<1> QED BY <1>1 DEF Ahead

LEMMA AppendedLast ==
    ASSUME NEW S, NEW s \in Seq(S), NEW a \in ToSet(s), NEW b \in S
    PROVE  Ahead(Append(s, b), a, b)
<1>1. PICK i \in 1 .. Len(s) : s[i] = a
  BY DEF ToSet
<1>2. /\ DOMAIN Append(s, b) = 1 .. Len(s) + 1 /\ Append(s, b)[i] = a
      /\ Append(s, b)[Len(s) + 1] = b
  BY <1>1
<1>3. i \in 1 .. Len(s) + 1 /\ Len(s) + 1 \in 1 .. Len(s) + 1 /\ i < Len(s) + 1
  OBVIOUS
<1> HIDE DEF ToSet
<1> QED BY <1>2, <1>3 DEF Ahead

LEMMA PlaceKept ==
    ASSUME Sane, Sane', LineStep, NEW ch \in Channel, NEW c \in Members(ch), NEW d \in Members(ch),
           Ahead(Line[ch], c, d), channelOf'[c] = ch, channelOf'[d] = ch
    PROVE  Ahead(Line'[ch], c, d) \/ Join(c, ch)
<1> DEFINE q == Line[ch]
<1>1. /\ q \in Seq(Client) /\ IsInjective(q) /\ ToSet(q) = Members(ch) /\ c # d
      /\ c \in Client /\ d \in Client /\ ch # NULL
  <2>1. q \in Seq(Client) /\ IsInjective(q) /\ ToSet(q) = Members(ch)
    BY LineNow
  <2>2. c # d
    <3>1. PICK i, j \in DOMAIN q : i < j /\ q[i] = c /\ q[j] = d
      BY DEF Ahead
    <3>2. i # j
      BY <2>1, <3>1
    <3> QED BY <2>1, <3>1, <3>2 DEF IsInjective
  <2> QED BY <2>1, <2>2, NamesAssumption DEF Members
<1>2. c \in ToSet(Line'[ch]) /\ d \in ToSet(Line'[ch])
  BY <1>1, LinesHoldMembersAfter DEF Members
<1> HIDE DEF q
<1>3. ASSUME NEW p
      PROVE  /\ RemoveFirst(q, p) \in Seq(Client) /\ IsInjective(RemoveFirst(q, p))
             /\ ToSet(RemoveFirst(q, p)) = ToSet(q) \ {p}
             /\ p # c /\ p # d => Ahead(RemoveFirst(q, p), c, d)
  BY <1>1, RemoveFirstMembers DEF q
<1>4. ASSUME NEW p \in Client, Line' = Parting(p), channelOf'[p] = NULL
      PROVE  Ahead(Line'[ch], c, d)
  BY <1>1, <1>3, <1>4 DEF Parting, q
<1>5. ASSUME NEW p \in Client, NEW to \in Channel, Line' = Entering(p, to), Join(p, to)
      PROVE  Ahead(Line'[ch], c, d) \/ Join(c, ch)
  <2> DEFINE t == RemoveFirst(q, p)
  <2>1. Line'[ch] = IF to = ch THEN Append(t, p) ELSE t
    BY <1>5 DEF Entering, Parting, q
  <2>2. /\ t \in Seq(Client) /\ IsInjective(t) /\ ToSet(t) = ToSet(q) \ {p}
        /\ p # c /\ p # d => Ahead(t, c, d)
    BY <1>3
  <2> HIDE DEF t
  <2>3. CASE to # ch
    BY <1>2, <2>1, <2>2, <2>3
  <2>4. CASE to = ch /\ p = c
    BY <1>5, <2>4
  <2>5. CASE to = ch /\ p = d
    <3>1. c \in ToSet(t)
      BY <1>1, <2>2, <2>5
    <3> QED BY <1>1, <2>1, <2>2, <2>5, <3>1, AppendedLast
  <2>6. CASE to = ch /\ p # c /\ p # d
    BY <2>1, <2>2, <2>6, AppendMembers
  <2> QED BY <2>3, <2>4, <2>5, <2>6
<1> QED BY <1>4, <1>5 DEF LineStep

(* Of two people who stay in a channel over a step, the one who came first    *)
(* is still before the other, unless it has asked to join again: no kick, no  *)
(* departure, no arrival and no rename of either of them changes that.        *)
THEOREM SeniorityIsKept == Spec => Seniority
<1> DEFINE I == Inv /\ UniqueNicknames /\ Together
           Kept == "ghost" \notin damage' =>
                     \A ch \in Channel : \A c, d \in Members(ch) :
                        (/\ Precedes(ch, nickname[c], nickname[d])
                         /\ channelOf'[c] = ch /\ channelOf'[d] = ch)
                        => \/ Precedes(ch, nickname[c], nickname[d])'
                           \/ Join(c, ch)
<1>1. I /\ I' /\ [Next]_vars => [Kept]_vars
  <2> SUFFICES ASSUME I, I', [Next]_vars, "ghost" \notin damage', NEW ch \in Channel,
                      NEW c \in Members(ch), NEW d \in Members(ch),
                      Precedes(ch, nickname[c], nickname[d]),
                      channelOf'[c] = ch, channelOf'[d] = ch
               PROVE  Precedes(ch, nickname[c], nickname[d])' \/ Join(c, ch)
    OBVIOUS
  <2>1. Sane /\ Sane'
    BY DamageStays DEF Sane
  <2>2. Ahead(Line[ch], c, d)
    BY <2>1, PrecedesIs
  <2>3. Ahead(Line'[ch], c, d) \/ Join(c, ch)
    BY <2>1, <2>2, StepLines, PlaceKept
  <2>4. c \in Members(ch)' /\ d \in Members(ch)'
    BY DEF Members
  <2> QED BY <2>1, <2>3, <2>4, PrecedesAfter
<1>2. Spec => []I
  BY AlwaysInv, NicknamesAreUnique, AlwaysTogether, PTL
<1> QED BY <1>1, <1>2, PTL DEF Spec, Seniority

=============================================================================
