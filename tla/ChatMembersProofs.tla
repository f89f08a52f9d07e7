--------------------------- MODULE ChatMembersProofs ---------------------------
(***************************************************************************)
(* Who is in a channel: proofs that clt->channel, participants and arrived  *)
(* agree, and of what follows from it, for any number of clients, nicknames *)
(* and channels.                                                            *)
(***************************************************************************)
EXTENDS ChatServerProofs

-----------------------------------------------------------------------------
\* The walk over arrived, with a name replaced.

LEMMA RelinedMembers ==
    ASSUME NEW S, NEW s \in Seq(S), NEW old \in ToSet(s), NEW n \in S, IsInjective(s),
           n \notin ToSet(s)
    PROVE  /\ Relined(s, old, n) \in Seq(S)
           /\ IsInjective(Relined(s, old, n))
           /\ ToSet(Relined(s, old, n)) = (ToSet(s) \ {old}) \cup {n}
           /\ \A i \in DOMAIN s : Relined(s, old, n)[i] = IF s[i] = old THEN n ELSE s[i]
           /\ DOMAIN Relined(s, old, n) = DOMAIN s
<1> DEFINE p == Place(s, old)
           t == Relined(s, old, n)
<1>1. p \in 1 .. Len(s) /\ s[p] = old
  BY PlaceIs DEF ToSet
<1>2. t = [s EXCEPT ![p] = n]
  BY <1>1 DEF Relined, ReplaceAt
<1> HIDE DEF p, t
<1>3. t \in Seq(S) /\ DOMAIN t = DOMAIN s
  BY <1>1, <1>2
<1>4. \A i \in DOMAIN s : t[i] = IF i = p THEN n ELSE s[i]
  BY <1>1, <1>2
<1>5. \A i \in DOMAIN s : s[i] = old <=> i = p
  BY <1>1 DEF IsInjective
<1>6. \A i \in DOMAIN s : s[i] # n
  BY DEF ToSet
<1>7. IsInjective(t)
  BY <1>3, <1>4, <1>6 DEF IsInjective
<1>8. ToSet(t) = (ToSet(s) \ {old}) \cup {n}
  <2>1. p \in DOMAIN s
    BY <1>1
  <2> QED BY <1>3, <1>4, <1>5, <2>1 DEF ToSet
<1> QED BY <1>3, <1>4, <1>5, <1>7, <1>8 DEF t

-----------------------------------------------------------------------------
\* One channel.

(* Until there are ghosts, a channel r holds the clients M under their names. *)
Agrees(r, M, name) ==
    /\ r.ghosts = {}
    /\ r.live <=> M # {}
    /\ r.participants = {<<name[c], c>> : c \in M}
    /\ ToSet(r.arrived) = {name[c] : c \in M}
    /\ IsInjective(r.arrived)

Distinct(M, name) == \A c, d \in M : name[c] = name[d] => c = d

(* What changes in a set of a channel changes nobody's membership.            *)
LEMMA EnlistedIs ==
    ASSUME NEW r \in Room, NEW l \in List, NEW c \in Client, NEW x \in Enlisted(r, l, c)
    PROVE  x = [r EXCEPT ![l] = r[l]] \/ x = [r EXCEPT ![l] = r[l] \cup {c}]
BY DEF Enlisted

(* x is r but for its set l, which has lost names, and perhaps its disorder.   *)
Shrunk(r, l, x) ==
    \E s \in SUBSET r[l], d \in SUBSET r.disorder : x = [r EXCEPT ![l] = s, !.disorder = d]

LEMMA StruckIs ==
    ASSUME NEW r \in Room, NEW l \in List, NEW n, NEW x \in Struck(r, l, n)
    PROVE  Shrunk(r, l, x)
<1>1. PICK s \in SUBSET r[l] : x = Trimmed(r, l, s)
  BY DEF Struck
<1>2. [r EXCEPT ![l] = s].disorder = r.disorder
  BY DEF Room, List
<1>3. \/ x = [r EXCEPT ![l] = s, !.disorder = r.disorder]
      \/ x = [r EXCEPT ![l] = s, !.disorder = r.disorder \ {l}]
  BY <1>1, <1>2 DEF Trimmed, Room, List
<1> QED BY <1>3 DEF Shrunk

(* x is r but for its administrator, its mode and its sets of names.          *)
SameMembers(r, x) ==
    /\ x \in Room /\ x.live = r.live /\ x.arrived = r.arrived
    /\ x.participants = r.participants /\ x.ghosts = r.ghosts

LEMMA SetKeepsMembers ==
    ASSUME NEW r \in Room, NEW l \in List, NEW s \in SUBSET Client, NEW d \in SUBSET List
    PROVE  /\ SameMembers(r, [r EXCEPT ![l] = s])
           /\ SameMembers(r, [r EXCEPT ![l] = s, !.disorder = d])
<1>1. CASE l = "banned"
  BY <1>1 DEF SameMembers, Room
<1>2. CASE l = "muted"
  BY <1>2 DEF SameMembers, Room
<1>3. CASE l = "invited"
  BY <1>3 DEF SameMembers, Room
<1> QED BY <1>1, <1>2, <1>3 DEF List

LEMMA EnlistedKeepsMembers ==
    ASSUME NEW r \in Room, NEW l \in List, NEW c \in Client, NEW x \in Enlisted(r, l, c)
    PROVE  SameMembers(r, x)
<1>1. r[l] \in SUBSET Client /\ r[l] \cup {c} \in SUBSET Client
  BY ListIsSet
<1>2. PICK s \in SUBSET Client : x = [r EXCEPT ![l] = s]
  BY <1>1, EnlistedIs
<1> QED BY <1>2, SetKeepsMembers, {} \in SUBSET List

LEMMA StruckKeepsMembers ==
    ASSUME NEW r \in Room, NEW l \in List, NEW n, NEW x \in Struck(r, l, n)
    PROVE  SameMembers(r, x)
<1>1. Shrunk(r, l, x)
  BY StruckIs
<1>2. r[l] \in SUBSET Client /\ r.disorder \in SUBSET List
  BY ListIsSet DEF Room
<1>3. ASSUME NEW s \in SUBSET r[l], NEW d \in SUBSET r.disorder,
             x = [r EXCEPT ![l] = s, !.disorder = d]
      PROVE  SameMembers(r, x)
  BY <1>2, <1>3, SetKeepsMembers
<1> QED BY <1>1, <1>3 DEF Shrunk

LEMMA SameMembersAgree ==
    ASSUME NEW r, NEW x, SameMembers(r, x), NEW M, NEW name, Agrees(r, M, name)
    PROVE  Agrees(x, M, name)
BY DEF SameMembers, Agrees

LEMMA NoRoomAgrees == ASSUME NEW name PROVE Agrees(NoRoom, {}, name)
BY DEF Agrees, NoRoom, ToSet, IsInjective

(* Without ghosts, erasing and inserting do what they say.                    *)
LEMMA EraseIs ==
    ASSUME NEW r \in Room, r.ghosts = {}, NEW n, NEW echo, NEW x \in Erase(r, n, echo)
    PROVE  x = [r EXCEPT !.participants = r.participants \ Entries(r, n)]
BY DEF Erase, Room

LEMMA InsertIs ==
    ASSUME NEW r \in Room, r.ghosts = {}, NEW n, NEW c, NEW echo, Entries(r, n) = {},
           NEW x \in Insert(r, n, c, echo)
    PROVE  x = [r EXCEPT !.participants = r.participants \cup {<<n, c>>}]
BY DEF Insert

(* x is r without the member c, and with everybody else; who administers it,  *)
(* and whether it still exists, is another matter.                            *)
LeftBy(r, M, name, c, x) ==
    /\ x \in Room /\ x.live /\ x.ghosts = {}
    /\ x.participants = {<<name[d], d>> : d \in M \ {c}}
    /\ ToSet(x.arrived) = {name[d] : d \in M \ {c}}
    /\ IsInjective(x.arrived)
    /\ x.arrived = RemoveFirst(r.arrived, name[c])
    /\ x.banned = r.banned /\ x.disorder = r.disorder

LEMMA WithoutAgrees ==
    ASSUME NEW r \in Room, NEW M \in SUBSET Client, NEW name, Agrees(r, M, name),
           Distinct(M, name), NEW c \in M, NEW echo, NEW x \in Without(r, name[c], echo)
    PROVE  LeftBy(r, M, name, c, x)
<1> DEFINE n == name[c]
<1>1. PICK y \in Erase(r, n, echo) : x = [y EXCEPT !.arrived = RemoveFirst(y.arrived, n)]
  BY DEF Without
<1>2. y = [r EXCEPT !.participants = r.participants \ Entries(r, n)]
  BY EraseIs DEF Agrees
<1>3. r.participants \ Entries(r, n) = {<<name[d], d>> : d \in M \ {c}}
  <2>1. Entries(r, n) = {<<name[d], d>> : d \in {e \in M : name[e] = n}}
    BY DEF Entries, Agrees
  <2>2. {e \in M : name[e] = n} = {c}
    BY DEF Distinct
  <2> QED BY <2>1, <2>2 DEF Agrees
<1>4. r.arrived \in Seq(Nick) /\ IsInjective(r.arrived)
  BY DEF Room, Agrees
<1>5. /\ RemoveFirst(r.arrived, n) \in Seq(Nick)
      /\ IsInjective(RemoveFirst(r.arrived, n))
      /\ ToSet(RemoveFirst(r.arrived, n)) = ToSet(r.arrived) \ {n}
  BY <1>4, RemoveFirstMembers
<1>6. ToSet(r.arrived) \ {n} = {name[d] : d \in M \ {c}}
  BY DEF Agrees, Distinct
<1>7. r.live /\ r.ghosts = {}
  BY DEF Agrees
<1> HIDE DEF n
<1>8. x \in Room
  BY WithoutIs DEF n
<1>9. /\ x.live = r.live /\ x.ghosts = r.ghosts /\ x.banned = r.banned
      /\ x.disorder = r.disorder /\ x.arrived = RemoveFirst(r.arrived, n)
      /\ x.participants = r.participants \ Entries(r, n)
  BY <1>1, <1>2 DEF Room
<1> QED BY <1>3, <1>5, <1>6, <1>7, <1>8, <1>9 DEF n, LeftBy

(* CHANNEL_remove_user takes its client, and nobody else, out of the channel, *)
(* which is deleted if that was the last.                                     *)
Parted(r, M, name, c, x) ==
    /\ Agrees(x, M \ {c}, name)
    /\ x.live => x.arrived = RemoveFirst(r.arrived, name[c])

LEMMA RemovedAgrees ==
    ASSUME NEW r \in Room, NEW M \in SUBSET Client, NEW name, Agrees(r, M, name),
           Distinct(M, name), NEW c \in M, NEW echo, NEW x \in Removed(r, name[c], echo)
    PROVE  Parted(r, M, name, c, x)
<1>1. PICK y \in Without(r, name[c], echo) : x = Succession(y, name[c])
  BY DEF Removed
<1>2. LeftBy(r, M, name, c, y)
  BY <1>1, WithoutAgrees
<1>3. CASE Vacant(y)
  <2>1. x = NoRoom
    BY <1>1, <1>3 DEF Succession
  <2>2. y.participants = {}
    BY <1>3 DEF Vacant
  <2>3. \A d : d \notin M \ {c}
    BY <1>2, <2>2 DEF LeftBy
  <2>4. M \ {c} = {}
    BY <2>3
  <2> QED BY <2>1, <2>4, NoRoomAgrees DEF NoRoom, Parted
<1>4. CASE ~Vacant(y)
  <2>1. M \ {c} # {}
    BY <1>2, <1>4 DEF Vacant, LeftBy
  <2>2. x = y \/ x = [y EXCEPT !.admin = Head(y.arrived)]
    BY <1>1, <1>4 DEF Succession
  <2>3. /\ x.live = y.live /\ x.ghosts = y.ghosts /\ x.participants = y.participants
        /\ x.arrived = y.arrived /\ x.banned = y.banned /\ x.disorder = y.disorder
    BY <1>2, <2>2 DEF Room, LeftBy
  <2> QED BY <1>2, <2>1, <2>3 DEF Agrees, LeftBy, Parted
<1> QED BY <1>3, <1>4

(* and finds an heir to the administrator among those who stay.               *)
LEMMA HeirIsThere ==
    ASSUME NEW r \in Room, NEW M \in SUBSET Client, Agrees(r, M, nickname),
           Distinct(M, nickname), \A d \in M : conn[d] = "served", NEW c \in M, NEW echo
    PROVE  ~RemoveCrashes(r, nickname[c], echo)
<1>1. SUFFICES ASSUME NEW x \in Without(r, nickname[c], echo), ~Vacant(x), NoHeir(x)
               PROVE  FALSE
  BY DEF RemoveCrashes, Orphaned
<1>2. LeftBy(r, M, nickname, c, x)
  BY <1>1, WithoutAgrees
<1>3. M \ {c} # {}
  BY <1>1, <1>2 DEF Vacant, LeftBy
<1>4. x.arrived \in Seq(Nick) /\ x.arrived # <<>>
  <2>1. PICK d : d \in M \ {c}
    BY <1>3
  <2>2. nickname[d] \in ToSet(x.arrived)
    BY <1>2, <2>1 DEF LeftBy
  <2> QED BY <1>2, <2>2 DEF Room, ToSet, LeftBy
<1>5. Head(x.arrived) \in ToSet(x.arrived)
  BY <1>4 DEF ToSet
<1>6. PICK d \in M \ {c} : Head(x.arrived) = nickname[d]
  BY <1>2, <1>5 DEF LeftBy
<1>7. d \in Named(Head(x.arrived))
  BY <1>6 DEF Named
<1> QED BY <1>1, <1>4, <1>7 DEF NoHeir

LEMMA CreatedAgrees == ASSUME NEW c PROVE Agrees(Created(c), {c}, nickname)
<1>1. /\ Created(c).live /\ Created(c).ghosts = {}
      /\ Created(c).participants = {<<nickname[c], c>>}
      /\ Created(c).arrived = <<nickname[c]>>
      /\ Created(c).banned = {} /\ Created(c).disorder = {}
  BY DEF Created, NoRoom
<1>2. ToSet(<<nickname[c]>>) = {nickname[c]} /\ IsInjective(<<nickname[c]>>)
  BY DEF ToSet, IsInjective
<1> QED BY <1>1, <1>2 DEF Agrees

(* CHANNEL_add_user adds its client at the end, or changes nothing.           *)
Entered(r, M, c, x) ==
    Agrees(x, M \cup {c}, nickname) /\ x.arrived = Append(r.arrived, nickname[c])

LEMMA AdmittedAgrees ==
    ASSUME NEW r \in Room, NEW M, Agrees(r, M, nickname), r.live,
           NEW c \in Client, nickname[c] \in Nick, \A d \in M : nickname[d] # nickname[c],
           NEW entry \in Admitted(r, c)
    PROVE  \/ entry = <<r, FALSE>>
           \/ /\ entry[2] = TRUE /\ FALSE \in Barred(r, nickname[c])
              /\ Entered(r, M, c, entry[1])
<1> DEFINE n == nickname[c]
           line == Append(r.arrived, n)
           people == r.participants \cup {<<n, c>>}
<1>1. \/ entry = <<r, FALSE>>
      \/ /\ FALSE \in Barred(r, n)
         /\ \E x \in Insert(r, n, c, FALSE) :
               entry = <<[x EXCEPT !.arrived = Append(x.arrived, n)], TRUE>>
  <2> DEFINE Longer == {<<[x EXCEPT !.arrived = Append(@, n)], TRUE>> : x \in Insert(r, n, c, FALSE)}
  <2>1. entry = <<r, FALSE>> \/ (FALSE \in Barred(r, n) /\ entry \in Longer)
    <3> HIDE DEF Longer
    <3> QED BY DEF Admitted, Longer
  <2> QED BY <2>1
<1>2. ASSUME FALSE \in Barred(r, n),
             NEW x \in Insert(r, n, c, FALSE),
             entry = <<[x EXCEPT !.arrived = Append(x.arrived, n)], TRUE>>
      PROVE  entry[2] = TRUE /\ Entered(r, M, c, entry[1])
  <2>1. r.ghosts = {} /\ Entries(r, n) = {}
    BY DEF Agrees, Entries
  <2>2. x = [r EXCEPT !.participants = people]
    BY <1>2, <2>1, InsertIs
  <2> HIDE DEF people
  <2>3. x.arrived = r.arrived
    BY <2>2 DEF Room
  <2>4. entry[1] = [r EXCEPT !.participants = people, !.arrived = line] /\ entry[2] = TRUE
    BY <1>2, <2>2, <2>3
  <2>5. r.arrived \in Seq(Nick) /\ IsInjective(r.arrived) /\ n \notin ToSet(r.arrived)
    BY DEF Room, Agrees
  <2>6. IsInjective(line) /\ ToSet(line) = ToSet(r.arrived) \cup {n}
    BY <2>5, AppendMembers
  <2> HIDE DEF line
  <2>7. /\ entry[1].ghosts = r.ghosts /\ entry[1].live = r.live
        /\ entry[1].participants = people /\ entry[1].arrived = line
    BY <2>4 DEF Room
  <2>8. people = {<<nickname[d], d>> : d \in M \cup {c}}
    BY DEF people, Agrees
  <2>9. ToSet(line) = {nickname[d] : d \in M \cup {c}}
    BY <2>6 DEF Agrees
  <2> QED BY <2>1, <2>4, <2>6, <2>7, <2>8, <2>9 DEF Agrees, Entered, line
<1> QED BY <1>1, <1>2

(* /nick: the member c stays, under its new name.                             *)
LEMMA RenamedAgrees ==
    ASSUME NEW r \in Room, NEW M \in SUBSET Client, Agrees(r, M, nickname),
           Distinct(M, nickname), nickname \in [Client -> Nick \cup {Unnamed}],
           NEW c \in M, NEW n \in Nick, \A d \in M : nickname[d] # n,
           NEW x \in Renamed(r, c, n)
    PROVE  /\ Agrees(x, M, [nickname EXCEPT ![c] = n])
           /\ x.arrived = Relined(r.arrived, nickname[c], n)
           /\ x.banned = r.banned /\ x.disorder = r.disorder
<1> DEFINE old == nickname[c]
           name == [nickname EXCEPT ![c] = n]
           rest == r.participants \ Entries(r, old)
           line == Relined(r.arrived, old, n)
<1>1. PICK y \in Erase(r, old, FALSE) :
        \E z \in Insert(y, n, c, Echoes(r, c)) : x = Relabelled(z, old, n)
  BY DEF Renamed
<1>2. PICK z \in Insert(y, n, c, Echoes(r, c)) : x = Relabelled(z, old, n)
  BY <1>1
<1>3. y = [r EXCEPT !.participants = rest] /\ y \in Room
  BY EraseIs, EraseKeepsLine DEF Agrees, SameLine
<1>4. y.ghosts = {} /\ y.participants = rest
  BY <1>3 DEF Agrees, Room
<1>5. Entries(y, n) = {}
  BY <1>4 DEF Entries, Agrees
<1>6. z = [y EXCEPT !.participants = rest \cup {<<n, c>>}] /\ z \in Room
  BY <1>3, <1>4, <1>5, InsertIs, InsertKeepsLine DEF SameLine
<1>7. rest \cup {<<n, c>>} = {<<name[d], d>> : d \in M}
  <2>1. \A d \in M : name[d] = IF d = c THEN n ELSE nickname[d]
    OBVIOUS
  <2>2. rest = {<<nickname[d], d>> : d \in M \ {c}}
    BY DEF Entries, Agrees, Distinct
  <2> HIDE DEF name, rest
  <2> QED BY <2>1, <2>2
<1>8. old \in ToSet(r.arrived) /\ n \notin ToSet(r.arrived) /\ r.arrived \in Seq(Nick)
  BY DEF Agrees, Room
<1>9. IsInjective(line) /\ ToSet(line) = (ToSet(r.arrived) \ {old}) \cup {n}
  BY <1>8, RelinedMembers DEF Agrees
<1>10. (ToSet(r.arrived) \ {old}) \cup {n} = {name[d] : d \in M}
  <2>1. \A d \in M : name[d] = IF d = c THEN n ELSE nickname[d]
    OBVIOUS
  <2>2. ToSet(r.arrived) \ {old} = {nickname[d] : d \in M \ {c}}
    BY DEF Agrees, Distinct
  <2> HIDE DEF name
  <2> QED BY <2>1, <2>2
<1> HIDE DEF name, rest, line
<1>11. z.arrived = r.arrived
  BY <1>3, <1>6 DEF Room
<1>12. /\ x.live = r.live /\ x.ghosts = r.ghosts /\ x.arrived = line
       /\ x.participants = rest \cup {<<n, c>>}
       /\ x.banned = r.banned /\ x.disorder = r.disorder
  BY <1>2, <1>3, <1>6, <1>11 DEF Relabelled, Room, line
<1>13. Agrees(x, M, name)
  BY <1>7, <1>9, <1>10, <1>12 DEF Agrees
<1> QED BY <1>12, <1>13 DEF name, line

(* No other channel is disturbed by a rename, but for the order of its sets.  *)
LEMMA UnsettledAgrees ==
    ASSUME NEW r \in Room, NEW M, NEW name, Agrees(r, M, name), NEW c
    PROVE  /\ Agrees(Unsettled(r, c), M, name)
           /\ Unsettled(r, c).arrived = r.arrived /\ Unsettled(r, c).banned = r.banned
<1> DEFINE new == {l \in List : c \in r[l] /\ \E d \in r[l] : d # c}
<1>1. Unsettled(r, c) = [r EXCEPT !.disorder = r.disorder \cup new]
  BY DEF Unsettled
<1> HIDE DEF new
<1> QED BY <1>1 DEF Agrees, Room

LEMMA OthersRenamedAgrees ==
    ASSUME NEW r, NEW M \in SUBSET Client, Agrees(r, M, nickname),
           nickname \in [Client -> Nick \cup {Unnamed}], NEW c, c \notin M, NEW n
    PROVE  Agrees(r, M, [nickname EXCEPT ![c] = n])
<1> DEFINE name == [nickname EXCEPT ![c] = n]
<1>1. \A d \in M : name[d] = nickname[d]
  OBVIOUS
<1> HIDE DEF name
<1>2. Agrees(r, M, name)
  BY <1>1 DEF Agrees
<1> QED BY <1>2 DEF name

-----------------------------------------------------------------------------
\* The actions, until there are ghosts.

(* Every channel holds those whose clt->channel it is, who are all served,    *)
(* and nothing has been dereferenced that was not there.                      *)
Together ==
    "ghost" \notin damage =>
        /\ \A ch \in Channel : Agrees(rooms[ch], Members(ch), nickname)
        /\ \A c \in Client : channelOf[c] # NULL => conn[c] = "served"
        /\ fault \in {"none", "use_after_destroy"}

(* What is known of a state without ghosts.                                   *)
Sane == Inv /\ UniqueNicknames /\ Together /\ "ghost" \notin damage

LEMMA MembersAre ==
    ASSUME Sane, NEW ch \in Channel
    PROVE  /\ Members(ch) \in SUBSET Client /\ Distinct(Members(ch), nickname)
           /\ Agrees(rooms[ch], Members(ch), nickname) /\ rooms[ch] \in Room
           /\ \A c \in Members(ch) : nickname[c] \in Nick /\ conn[c] = "served"
           /\ \A c \in Members(ch) : c \in Named(nickname[c])
<1>1. \A c \in Members(ch) : c \in Client /\ nickname[c] \in Nick /\ conn[c] = "served"
  BY NamesAssumption DEF Sane, Together, Members, Inv, Scalars
<1>2. \A c \in Members(ch) : c \in Named(nickname[c])
  BY <1>1 DEF Named
<1>3. Distinct(Members(ch), nickname)
  <2> SUFFICES ASSUME NEW c \in Members(ch), NEW d \in Members(ch), nickname[c] = nickname[d]
               PROVE  c = d
    BY DEF Distinct
  <2> QED BY <1>1, <1>2 DEF Sane, UniqueNicknames
<1>4. Agrees(rooms[ch], Members(ch), nickname) /\ rooms[ch] \in Room
  BY DEF Sane, Together, Inv, SoundRooms
<1> QED BY <1>1, <1>2, <1>3, <1>4

LEMMA OwnMember ==
    ASSUME Inv, NEW c \in Client, channelOf[c] # NULL
    PROVE  channelOf[c] \in Channel /\ c \in Members(channelOf[c])
BY DEF Inv, Scalars, Members

LEMMA NoDangling == ASSUME Sane, NEW c \in Client PROVE ~Dangling(c)
BY OwnMember DEF Dangling, Sane, Together, Agrees

(* A name found in a channel is a member's, and no other client's.            *)
LEMMA FoundIsMember ==
    ASSUME Sane, NEW c \in Client, channelOf[c] # NULL, NEW n, TRUE \in Finds(Own(c), n, c)
    PROVE  \E d \in Members(channelOf[c]) : nickname[d] = n /\ Named(n) = {d}
<1>1. channelOf[c] \in Channel
  BY OwnMember DEF Sane
<1>2. Agrees(Own(c), Members(channelOf[c]), nickname)
  BY <1>1, MembersAre DEF Own
<1>3. PICK d \in Members(channelOf[c]) : nickname[d] = n
  <2>1. Entries(Own(c), n) # {}
    BY <1>2 DEF Finds, Agrees
  <2>2. PICK e \in Own(c).participants : e[1] = n
    BY <2>1 DEF Entries
  <2> QED BY <1>2, <2>2 DEF Agrees
<1>4. d \in Named(n) /\ n \in Nick
  BY <1>1, <1>3, MembersAre
<1>5. Named(n) = {d}
  BY <1>4 DEF Sane, UniqueNicknames
<1> QED BY <1>3, <1>5

LEMMA AfterLeavingAgrees ==
    ASSUME Sane, NEW c \in Client, NEW rs \in AfterLeaving(c), NEW ch \in Channel
    PROVE  /\ Agrees(rs[ch], Members(ch) \ {c}, nickname)
           /\ ch # channelOf[c] => rs[ch] = rooms[ch]
           /\ ch = channelOf[c] /\ rs[ch].live =>
                rs[ch].arrived = RemoveFirst(rooms[ch].arrived, nickname[c])
<1>1. Agrees(rooms[ch], Members(ch), nickname)
  BY MembersAre
<1>2. CASE ch # channelOf[c]
  <2>1. rs[ch] = rooms[ch] /\ Members(ch) \ {c} = Members(ch)
    BY <1>2 DEF AfterLeaving, Members, Sane, Inv, SoundRooms
  <2> QED BY <1>1, <1>2, <2>1
<1>3. CASE ch = channelOf[c]
  <2>1. channelOf[c] # NULL /\ c \in Members(ch)
    BY <1>3, NamesAssumption DEF Members
  <2>2. PICK r \in Removed(Own(c), nickname[c], FALSE) : rs = [rooms EXCEPT ![channelOf[c]] = r]
    BY <2>1 DEF AfterLeaving
  <2>3. rs[ch] = r /\ Own(c) = rooms[ch]
    BY <1>3, <2>2 DEF Own, Sane, Inv, SoundRooms
  <2>4. Parted(rooms[ch], Members(ch), nickname, c, r)
    <3>1. r \in Removed(rooms[ch], nickname[c], FALSE)
      BY <2>2, <2>3
    <3> QED BY <2>1, <3>1, MembersAre, RemovedAgrees
  <2> QED BY <1>3, <2>3, <2>4 DEF Parted
<1> QED BY <1>2, <1>3

(* An action that changes neither who is where, nor under what name, nor the  *)
(* members of any channel.                                                    *)
LEMMA StillTogether ==
    ASSUME Sane, UNCHANGED <<conn, nickname, channelOf>>,
           fault' \in {"none", "use_after_destroy"},
           \A ch \in Channel : rooms'[ch] = rooms[ch] \/ SameMembers(rooms[ch], rooms'[ch])
    PROVE  Together'
<1>1. ASSUME NEW ch \in Channel  PROVE Agrees(rooms[ch], Members(ch), nickname)'
  <2>1. Agrees(rooms'[ch], Members(ch), nickname)
    BY MembersAre, SameMembersAgree
  <2> QED BY <2>1 DEF Members, Agrees
<1> QED BY <1>1 DEF Sane, Together

LEMMA SetOwnTogether ==
    ASSUME Sane, NEW c \in Client, channelOf[c] # NULL, NEW r, SameMembers(Own(c), r), SetOwn(c, r),
           UNCHANGED <<conn, nickname, channelOf>>, Quiet
    PROVE  Together'
<1>1. \A ch \in Channel : rooms'[ch] = rooms[ch] \/ SameMembers(rooms[ch], rooms'[ch])
  BY DEF SetOwn, Own, Sane, Inv, SoundRooms
<1> QED BY <1>1, StillTogether DEF Quiet, Sane, Together

LEMMA NicknameTogether ==
    ASSUME Sane, NEW c \in Client, NEW n \in Nick, Nickname(c, n)
    PROVE  Together'
<1>1. /\ Runs(c) /\ Named(n) = {} /\ nickname' = [nickname EXCEPT ![c] = n]
      /\ UNCHANGED <<conn, channelOf, fault>>
  BY DEF Nickname, Sends, Quiet
<1>2. PICK own \in IF channelOf[c] = NULL THEN {NoRoom} ELSE Renamed(Own(c), c, n) :
        rooms' = [ch \in Channel |-> Unsettled(IF ch = channelOf[c] THEN own ELSE rooms[ch], c)]
  BY DEF Nickname
<1>3. nickname \in [Client -> Nick \cup {Unnamed}]
  BY DEF Sane, Inv, Scalars
<1>4. ASSUME NEW ch \in Channel  PROVE Agrees(rooms[ch], Members(ch), nickname)'
  <2> DEFINE r == IF ch = channelOf[c] THEN own ELSE rooms[ch]
  <2>1. Agrees(r, Members(ch), [nickname EXCEPT ![c] = n]) /\ r \in Room
    <3>1. CASE ch = channelOf[c]
      <4>1. channelOf[c] # NULL /\ c \in Members(ch) /\ Own(c) = rooms[ch]
        BY <3>1, NamesAssumption DEF Members, Own
      <4>2. own \in Renamed(rooms[ch], c, n)
        BY <1>2, <4>1
      <4>3. \A d \in Members(ch) : nickname[d] # n
        BY <1>1, MembersAre
      <4>4. Agrees(own, Members(ch), [nickname EXCEPT ![c] = n])
        BY <1>3, <4>1, <4>2, <4>3, MembersAre, RenamedAgrees
      <4>5. own \in Room
        BY <1>1, <4>1, <4>2, OwnIsSound, RenamedIsSound DEF Sane, Sound
      <4> QED BY <3>1, <4>4, <4>5
    <3>2. CASE ch # channelOf[c]
      <4>1. c \notin Members(ch)
        BY <3>2 DEF Members
      <4>2. Agrees(rooms[ch], Members(ch), [nickname EXCEPT ![c] = n])
        BY <1>3, <4>1, MembersAre, OthersRenamedAgrees
      <4> QED BY <3>2, <4>2, MembersAre
    <3> QED BY <3>1, <3>2
  <2>2. rooms'[ch] = Unsettled(r, c)
    BY <1>2
  <2> HIDE DEF r
  <2>3. Agrees(rooms'[ch], Members(ch), nickname')
    BY <1>1, <2>1, <2>2, UnsettledAgrees
  <2> QED BY <1>1, <2>3 DEF Members, Agrees
<1> QED BY <1>1, <1>4 DEF Sane, Together

LEMMA JoinTogether ==
    ASSUME Sane, NEW c \in Client, NEW ch \in Channel, Join(c, ch)
    PROVE  Together'
<1>1. PICK rs \in AfterLeaving(c) :
        \E entry \in IF rs[ch].live THEN Admitted(rs[ch], c) ELSE {<<Created(c), TRUE>>} :
            /\ rooms' = [rs EXCEPT ![ch] = entry[1]]
            /\ channelOf' = [channelOf EXCEPT ![c] = IF entry[2] THEN ch ELSE NULL]
  BY DEF Join
<1>2. PICK entry \in IF rs[ch].live THEN Admitted(rs[ch], c) ELSE {<<Created(c), TRUE>>} :
            /\ rooms' = [rs EXCEPT ![ch] = entry[1]]
            /\ channelOf' = [channelOf EXCEPT ![c] = IF entry[2] THEN ch ELSE NULL]
  BY <1>1
<1>3. /\ Runs(c) /\ nickname[c] \in Nick /\ conn[c] = "served"
      /\ UNCHANGED <<conn, nickname, fault, damage>>
  BY DEF Join, HasName, Sane, Inv, Scalars, Sends, Runs, Quiet
<1>4. SoundRooms(rs)
  BY <1>3, AfterLeavingIsSound DEF Sane
<1>5. \A other \in Channel : Agrees(rs[other], Members(other) \ {c}, nickname)
  BY AfterLeavingAgrees
<1> DEFINE M == Members(ch) \ {c}
<1>6. \A d \in M : nickname[d] # nickname[c]
  <2> SUFFICES ASSUME NEW d \in M, nickname[d] = nickname[c]  PROVE FALSE
    OBVIOUS
  <2>1. d \in Named(nickname[c]) /\ c \in Named(nickname[c])
    BY <1>3, MembersAre DEF Named
  <2> QED BY <1>3, <2>1 DEF Sane, UniqueNicknames
<1>7. /\ entry[2] \in BOOLEAN
      /\ Agrees(entry[1], IF entry[2] THEN M \cup {c} ELSE M, nickname)
  <2>1. Agrees(rs[ch], M, nickname) /\ rs[ch] \in Room
    BY <1>4, <1>5 DEF SoundRooms
  <2>2. CASE ~rs[ch].live
    <3>1. M = {} /\ M \cup {c} = {c} /\ entry = <<Created(c), TRUE>>
      BY <1>2, <2>1, <2>2 DEF Agrees
    <3> QED BY <3>1, CreatedAgrees
  <2>3. CASE rs[ch].live
    <3>1. entry \in Admitted(rs[ch], c)
      BY <1>2, <2>3
    <3> HIDE DEF M
    <3>2. \/ entry = <<rs[ch], FALSE>>
          \/ entry[2] = TRUE /\ Entered(rs[ch], M, c, entry[1])
      BY <1>3, <1>6, <2>1, <2>3, <3>1, AdmittedAgrees
    <3>3. CASE entry = <<rs[ch], FALSE>>
      BY <2>1, <3>3
    <3>4. CASE entry[2] = TRUE /\ Entered(rs[ch], M, c, entry[1])
      BY <3>4 DEF Entered
    <3> QED BY <3>2, <3>3, <3>4
  <2> QED BY <2>2, <2>3
<1>8. ASSUME NEW other \in Channel  PROVE Agrees(rooms[other], Members(other), nickname)'
  <2>1. rooms'[other] = IF other = ch THEN entry[1] ELSE rs[other]
    BY <1>2, <1>4 DEF SoundRooms
  <2>2. Members(other)' = IF other = ch /\ entry[2] THEN M \cup {c} ELSE Members(other) \ {c}
    <3>1. channelOf \in [Client -> Channel \cup {NULL}]
      BY DEF Sane, Inv, Scalars
    <3> QED BY <1>2, <1>7, <3>1, NamesAssumption DEF Members
  <2>3. Agrees(rooms'[other], Members(other)', nickname)
    BY <1>5, <1>7, <2>1, <2>2
  <2> QED BY <1>3, <2>3 DEF Agrees
<1>9. \A d \in Client : channelOf'[d] # NULL => conn'[d] = "served"
  BY <1>2, <1>3 DEF Sane, Together, Inv, Scalars
<1> QED BY <1>3, <1>8, <1>9 DEF Sane, Together

LEMMA KickTogether ==
    ASSUME Sane, NEW c \in Client, NEW n \in Target, Kick(c, n)
    PROVE  Together'
<1>1. /\ Runs(c) /\ channelOf[c] # NULL /\ TRUE \in Finds(Own(c), n, c)
      /\ UNCHANGED <<conn, nickname, fault, damage>>
  BY DEF Kick, Sends, Privileged, Quiet
<1> DEFINE ch == channelOf[c]
<1>2. ch \in Channel /\ Own(c) = rooms[ch]
  BY <1>1, OwnMember DEF Own, Sane
<1>3. PICK d \in Members(ch) : nickname[d] = n /\ Named(n) = {d}
  BY <1>1, FoundIsMember
<1>4. PICK r1 \in Enlisted(Own(c), "banned", d) : \E r2 \in Removed(r1, n, Echoes(r1, c)) :
        SetOwn(c, r2) /\ channelOf' = [channelOf EXCEPT ![d] = NULL]
  BY <1>3 DEF Kick
<1>5. PICK r2 \in Removed(r1, n, Echoes(r1, c)) :
        SetOwn(c, r2) /\ channelOf' = [channelOf EXCEPT ![d] = NULL]
  BY <1>4
<1>6. d \in Client /\ "banned" \in List /\ rooms[ch] \in Room
  BY <1>2, <1>3, MembersAre DEF List
<1>7. SameMembers(rooms[ch], r1)
  BY <1>2, <1>4, <1>6, EnlistedKeepsMembers
<1>8. Agrees(r1, Members(ch), nickname) /\ r1 \in Room
  BY <1>2, <1>7, MembersAre, SameMembersAgree DEF SameMembers
<1>9. Agrees(r2, Members(ch) \ {d}, nickname)
  BY <1>2, <1>3, <1>5, <1>8, MembersAre, RemovedAgrees DEF Parted
<1>10. ASSUME NEW other \in Channel  PROVE Agrees(rooms[other], Members(other), nickname)'
  <2>1. rooms'[other] = IF other = ch THEN r2 ELSE rooms[other]
    BY <1>2, <1>5 DEF SetOwn, Sane, Inv, SoundRooms
  <2>2. Members(other)' = IF other = ch THEN Members(ch) \ {d} ELSE Members(other)
    <3>1. channelOf \in [Client -> Channel \cup {NULL}]
      BY DEF Sane, Inv, Scalars
    <3> QED BY <1>3, <1>5, <1>6, <3>1, NamesAssumption DEF Members
  <2>3. Agrees(rooms'[other], Members(other)', nickname)
    BY <1>9, <2>1, <2>2, MembersAre
  <2> QED BY <1>1, <2>3 DEF Agrees
<1>11. \A e \in Client : channelOf'[e] # NULL => conn'[e] = "served"
  BY <1>1, <1>5, <1>6 DEF Sane, Together, Inv, Scalars
<1> QED BY <1>1, <1>10, <1>11 DEF Sane, Together

LEMMA HangUpTogether ==
    ASSUME Sane, NEW c \in Client, HangUp(c)
    PROVE  Together'
<1>1. PICK rs \in AfterLeaving(c) : rooms' = rs
  BY DEF HangUp
<1>2. /\ UNCHANGED <<nickname, fault, damage>> /\ conn' = [conn EXCEPT ![c] = "leaving"]
      /\ channelOf' = [channelOf EXCEPT ![c] = NULL]
  BY DEF HangUp, Quiet
<1>3. ASSUME NEW ch \in Channel  PROVE Agrees(rooms[ch], Members(ch), nickname)'
  <2>1. Members(ch)' = Members(ch) \ {c}
    <3>1. channelOf \in [Client -> Channel \cup {NULL}]
      BY DEF Sane, Inv, Scalars
    <3> QED BY <1>2, <3>1, NamesAssumption DEF Members
  <2>2. Agrees(rooms'[ch], Members(ch)', nickname)
    BY <1>1, <2>1, AfterLeavingAgrees
  <2> QED BY <1>2, <2>2 DEF Agrees
<1>4. \A d \in Client : channelOf'[d] # NULL => conn'[d] = "served"
  BY <1>2 DEF Sane, Together, Inv, Scalars
<1> QED BY <1>2, <1>3, <1>4 DEF Sane, Together

LEMMA ModeTogether ==
    ASSUME Sane, NEW c \in Client, NEW public \in BOOLEAN, Mode(c, public)
    PROVE  Together'
<1>1. channelOf[c] # NULL /\ Own(c) \in Room
  BY PrivilegedIs DEF Mode, Privileged, Sane
<1>2. SameMembers(Own(c), [Own(c) EXCEPT !.is_public = public])
  BY <1>1 DEF SameMembers, Room
<1> QED BY <1>1, <1>2, SetOwnTogether DEF Mode

LEMMA InviteTogether ==
    ASSUME Sane, NEW c \in Client, NEW n \in Target, Invite(c, n)
    PROVE  Together'
<1>1. /\ channelOf[c] # NULL /\ Own(c) \in Room
      /\ UNCHANGED <<conn, nickname, channelOf>> /\ Quiet
  BY PrivilegedIs DEF Invite, Privileged, Sane
<1>2. PICK guest \in Named(n), r1 \in Struck(Own(c), "muted", n) :
        \E r2 \in Struck(r1, "banned", n) : \E r3 \in Enlisted(r2, "invited", guest) :
            SetOwn(c, r3)
  BY DEF Invite
<1>3. PICK r2 \in Struck(r1, "banned", n) : \E r3 \in Enlisted(r2, "invited", guest) :
        SetOwn(c, r3)
  BY <1>2
<1>4. PICK r3 \in Enlisted(r2, "invited", guest) : SetOwn(c, r3)
  BY <1>3
<1>5. guest \in Client /\ {"muted", "banned", "invited"} \subseteq List
  BY DEF Named, List
<1>6. SameMembers(Own(c), r1)
  BY <1>1, <1>5, StruckKeepsMembers
<1>7. SameMembers(r1, r2)
  BY <1>5, <1>6, StruckKeepsMembers DEF SameMembers
<1>8. SameMembers(r2, r3)
  BY <1>5, <1>7, EnlistedKeepsMembers DEF SameMembers
<1>9. SameMembers(Own(c), r3)
  BY <1>6, <1>7, <1>8 DEF SameMembers
<1> QED BY <1>1, <1>4, <1>9, SetOwnTogether

LEMMA ListsTogether ==
    ASSUME Sane, NEW c \in Client, NEW n \in Target, Unkick(c, n) \/ Mute(c, n) \/ Unmute(c, n),
           "ghost" \notin damage'
    PROVE  Together'
<1>1. /\ channelOf[c] # NULL /\ Own(c) \in Room
      /\ UNCHANGED <<conn, nickname, channelOf>> /\ Quiet
  BY PrivilegedIs DEF Unkick, Mute, Unmute, Privileged, Sane
<1>2. {"muted", "banned"} \subseteq List /\ Named(n) \subseteq Client
  BY DEF List, Named
<1>3. ~Ghosted(c)
  BY DEF Ghosted
<1>4. PICK r : SetOwn(c, r) /\ SameMembers(Own(c), r)
  <2>1. CASE Unkick(c, n)
    BY <1>1, <1>2, <2>1, StruckKeepsMembers DEF Unkick
  <2>2. CASE Mute(c, n)
    BY <1>1, <1>2, <1>3, <2>2, EnlistedKeepsMembers DEF Mute
  <2>3. CASE Unmute(c, n)
    BY <1>1, <1>2, <1>3, <2>3, StruckKeepsMembers DEF Unmute
  <2> QED BY <2>1, <2>2, <2>3
<1> QED BY <1>1, <1>4, SetOwnTogether

(* Nobody looks for who is not there.                                         *)
LEMMA FaultTogether ==
    ASSUME Sane, NEW c \in Client,
           \/ JoinUsesDestroyed(c) \/ HeirIsNull(c) \/ ChannelIsFreed(c)
           \/ \E n \in Target : WhoisFindsNobody(c, n) \/ KickUsesDestroyed(c, n)
    PROVE  Together'
<1>1. CASE JoinUsesDestroyed(c) \/ \E n \in Target : KickUsesDestroyed(c, n)
  BY <1>1, StillTogether DEF JoinUsesDestroyed, KickUsesDestroyed, Crash
<1>2. ~ChannelIsFreed(c)
  BY NoDangling DEF ChannelIsFreed
<1>3. ASSUME NEW n \in Target, WhoisFindsNobody(c, n)  PROVE FALSE
  <2>1. channelOf[c] # NULL /\ TRUE \in Finds(Own(c), n, c) /\ Named(n) = {}
    BY <1>3 DEF WhoisFindsNobody, Privileged
  <2>2. \E d : Named(n) = {d}
    BY <2>1, FoundIsMember
  <2> QED BY <2>1, <2>2
<1>4. ASSUME HeirIsNull(c)  PROVE FALSE
  <2>1. channelOf[c] # NULL
    BY <1>4 DEF HeirIsNull, Privileged
  <2> DEFINE ch == channelOf[c]
  <2>2. ch \in Channel /\ c \in Members(ch) /\ Own(c) = rooms[ch]
    BY <2>1, OwnMember DEF Own, Sane
  <2>3. \A d \in Members(ch) : \A echo : ~RemoveCrashes(Own(c), nickname[d], echo)
    BY <2>2, MembersAre, HeirIsThere
  <2>4. PICK n : TRUE \in Finds(Own(c), n, c) /\ RemoveCrashes(Own(c), n, Echoes(Own(c), c))
    BY <1>4, <2>2, <2>3 DEF HeirIsNull
  <2>5. \E d \in Members(ch) : nickname[d] = n
    BY <2>1, <2>4, FoundIsMember
  <2> QED BY <2>3, <2>4, <2>5
<1> QED BY <1>1, <1>2, <1>3, <1>4

LEMMA ConnectionTogether ==
    ASSUME Sane, NEW c \in Client, Connect(c) \/ Destroy(c)
    PROVE  Together'
<1>1. /\ UNCHANGED <<nickname, channelOf, rooms, damage, fault>>
      /\ \A d \in Client : channelOf[d] # NULL => conn'[d] = "served"
  BY DEF Connect, Destroy, Quiet, Sane, Together, Inv, Scalars
<1>2. ASSUME NEW ch \in Channel  PROVE Agrees(rooms[ch], Members(ch), nickname)'
  <2>1. Members(ch)' = Members(ch)
    BY <1>1 DEF Members
  <2>2. Agrees(rooms'[ch], Members(ch)', nickname')
    BY <1>1, <2>1, MembersAre
  <2> QED BY <2>2 DEF Agrees
<1> QED BY <1>1, <1>2 DEF Sane, Together

LEMMA MessageTogether ==
    ASSUME Sane, NEW c \in Client, Message(c)
    PROVE  Together'
BY StillTogether DEF Message, Sane, Together

(* What has happened to a tree is not forgotten.                              *)
LEMMA DamageStays == ASSUME [Next]_vars PROVE damage \subseteq damage'
<1>1. ASSUME NEW c \in Client, Administer(c)  PROVE damage \subseteq damage'
  BY <1>1 DEF Administer, Mode, Invite, Kick, Unkick, Mute, Unmute, Ghosted, WhoisFindsNobody,
              KickUsesDestroyed, Crash
<1>2. ASSUME NEW c \in Client,
             \/ Connect(c) \/ Destroy(c) \/ HangUp(c) \/ Message(c)
             \/ \E n \in Nick : Nickname(c, n)
             \/ \E ch \in Channel : Join(c, ch)
             \/ JoinUsesDestroyed(c) \/ HeirIsNull(c) \/ ChannelIsFreed(c)
      PROVE  damage \subseteq damage'
  BY <1>2 DEF Connect, Destroy, HangUp, Message, Nickname, Join, JoinUsesDestroyed, HeirIsNull,
              ChannelIsFreed, Crash
<1>3. CASE UNCHANGED vars
  BY <1>3 DEF vars
<1> QED BY <1>1, <1>2, <1>3 DEF Next

LEMMA TogetherNext == Inv /\ UniqueNicknames /\ Together /\ [Next]_vars => Together'
<1> SUFFICES ASSUME Inv, UniqueNicknames, Together, [Next]_vars, "ghost" \notin damage'
             PROVE  Together'
  BY DEF Together
<1>1. Sane
  BY DamageStays DEF Sane
<1>2. CASE UNCHANGED vars
  BY <1>2 DEF vars, Together, Agrees, Members
<1>3. ASSUME NEW c \in Client, Administer(c)  PROVE Together'
  BY <1>1, <1>3, ModeTogether, InviteTogether, KickTogether, ListsTogether, FaultTogether
     DEF Administer
<1>4. ASSUME NEW c \in Client,
             \/ Connect(c) \/ Destroy(c) \/ HangUp(c) \/ Message(c)
             \/ \E n \in Nick : Nickname(c, n)
             \/ \E ch \in Channel : Join(c, ch)
             \/ JoinUsesDestroyed(c) \/ HeirIsNull(c) \/ ChannelIsFreed(c)
      PROVE  Together'
  BY <1>1, <1>4, ConnectionTogether, HangUpTogether, MessageTogether, NicknameTogether,
     JoinTogether, FaultTogether
<1> QED BY <1>2, <1>3, <1>4 DEF Next

LEMMA InitTogether == Init => Together
<1> SUFFICES ASSUME Init  PROVE Together
  OBVIOUS
<1>1. \A ch \in Channel : Members(ch) = {} /\ rooms[ch] = NoRoom
  BY NamesAssumption DEF Init, Members
<1> QED BY <1>1, NoRoomAgrees DEF Init, Together

LEMMA AlwaysTogether == Spec => []Together
BY InitTogether, TogetherNext, AlwaysInv, NicknamesAreUnique, PTL DEF Spec

(* Until a ghost is inserted, and whatever else clients do, participants,     *)
(* arrived and clt->channel agree on who is in every channel after every      *)
(* command, no name stands twice in a line, a channel exists exactly as long  *)
(* as somebody is in it, and only clients that are served are in one.         *)
THEOREM MembershipIsOne == Spec => []MembersAgree
<1>1. Together => MembersAgree
  <2> SUFFICES ASSUME Together, "ghost" \notin damage, NEW ch \in Channel
               PROVE  /\ rooms[ch].live <=> Members(ch) # {}
                      /\ rooms[ch].participants = {<<nickname[c], c>> : c \in Members(ch)}
                      /\ ToSet(rooms[ch].arrived) = Names(ch)
                      /\ IsInjective(rooms[ch].arrived)
                      /\ \A c \in Members(ch) : conn[c] = "served"
    BY DEF MembersAgree
  <2>1. \A c \in Members(ch) : conn[c] = "served"
    BY NamesAssumption DEF Together, Members
  <2> QED BY <2>1 DEF Together, Agrees, Names
<1> QED BY <1>1, AlwaysTogether, PTL

(* and the server never looks up an heir, or a participant, who is not there, *)
(* nor leaves a client with a channel that was freed under it.                *)
THEOREM NothingIsOrphaned == Spec => []OnlyGhostsOrphan
<1>1. Inv /\ UniqueNicknames /\ Together => OnlyGhostsOrphan
  BY NoDangling DEF Sane, Together, OnlyGhostsOrphan
<1> QED BY <1>1, AlwaysInv, NicknamesAreUnique, AlwaysTogether, PTL

-----------------------------------------------------------------------------
\* Bans.

(* x bans nobody whom r does not, and no set of x is out of order that is in  *)
(* order in r.                                                                *)
Milder(r, x) == x.banned \subseteq r.banned /\ x.disorder \subseteq r.disorder

SameBans(r, x) == x.banned = r.banned /\ x.disorder = r.disorder

LEMMA EraseMilder ==
    ASSUME NEW r \in Room, NEW n, NEW echo, NEW x \in Erase(r, n, echo)
    PROVE  SameBans(r, x)
<1>1. \E p, g : x = [r EXCEPT !.participants = p, !.ghosts = g]
  BY DEF Erase
<1> QED BY <1>1 DEF Room, SameBans

LEMMA InsertMilder ==
    ASSUME NEW r \in Room, NEW n, NEW c, NEW echo, NEW x \in Insert(r, n, c, echo)
    PROVE  SameBans(r, x)
<1>1. x = r \/ \E p : x = [r EXCEPT !.participants = p]
  BY DEF Insert
<1> QED BY <1>1 DEF Room, SameBans

LEMMA RemovedMilder ==
    ASSUME NEW r \in Room, NEW n, NEW echo, NEW x \in Removed(r, n, echo)
    PROVE  Milder(r, x)
<1>1. PICK y \in Without(r, n, echo) : x = Succession(y, n)
  BY DEF Removed
<1>2. y \in Room /\ y.banned = r.banned /\ y.disorder = r.disorder
  <2>1. PICK z \in Erase(r, n, echo) : y = [z EXCEPT !.arrived = RemoveFirst(z.arrived, n)]
    BY <1>1 DEF Without
  <2>2. z \in Room /\ z.banned = r.banned /\ z.disorder = r.disorder
    BY EraseMilder, EraseKeepsLine DEF SameLine, SameBans
  <2> QED BY <1>1, <2>1, <2>2, WithoutIs DEF Room
<1>3. x = NoRoom \/ x = y \/ x = [y EXCEPT !.admin = Head(y.arrived)]
  BY <1>1 DEF Succession
<1> QED BY <1>2, <1>3 DEF Milder, NoRoom, Room

LEMMA StruckMilder ==
    ASSUME NEW r \in Room, NEW l \in List, NEW n, NEW x \in Struck(r, l, n)
    PROVE  Milder(r, x)
<1>1. Shrunk(r, l, x)
  BY StruckIs
<1>2. ASSUME NEW s \in SUBSET r[l], NEW d \in SUBSET r.disorder,
             x = [r EXCEPT ![l] = s, !.disorder = d]
      PROVE  Milder(r, x)
  <2>1. CASE l = "banned"
    BY <1>2, <2>1 DEF Milder, Room
  <2>2. CASE l = "muted"
    BY <1>2, <2>2 DEF Milder, Room
  <2>3. CASE l = "invited"
    BY <1>2, <2>3 DEF Milder, Room
  <2> QED BY <2>1, <2>2, <2>3 DEF List
<1> QED BY <1>1, <1>2 DEF Shrunk

LEMMA EnlistedMilder ==
    ASSUME NEW r \in Room, NEW c \in Client
    PROVE  /\ \A x \in Enlisted(r, "muted", c) \cup Enlisted(r, "invited", c) : Milder(r, x)
           /\ \A x \in Enlisted(r, "banned", c) :
                x.banned \subseteq r.banned \cup {c} /\ x.disorder \subseteq r.disorder
<1>1. ASSUME NEW x \in Enlisted(r, "muted", c)  PROVE Milder(r, x)
  BY <1>1, EnlistedIs DEF List, Milder, Room
<1>2. ASSUME NEW x \in Enlisted(r, "invited", c)  PROVE Milder(r, x)
  BY <1>2, EnlistedIs DEF List, Milder, Room
<1>3. ASSUME NEW x \in Enlisted(r, "banned", c)
      PROVE  x.banned \subseteq r.banned \cup {c} /\ x.disorder \subseteq r.disorder
  BY <1>3, EnlistedIs DEF List, Room
<1> QED BY <1>1, <1>2, <1>3

LEMMA RenamedMilder ==
    ASSUME NEW r \in Room, NEW c \in Client, NEW n \in Nick, NEW x \in Renamed(r, c, n)
    PROVE  x.banned = r.banned /\ x.disorder = r.disorder
<1>1. PICK y \in Erase(r, nickname[c], FALSE) :
        \E z \in Insert(y, n, c, Echoes(r, c)) : x = Relabelled(z, nickname[c], n)
  BY DEF Renamed
<1>2. PICK z \in Insert(y, n, c, Echoes(r, c)) : x = Relabelled(z, nickname[c], n)
  BY <1>1
<1>3. y \in Room /\ y.banned = r.banned /\ y.disorder = r.disorder
  BY EraseMilder, EraseKeepsLine DEF SameLine, SameBans
<1>4. z \in Room /\ z.banned = r.banned /\ z.disorder = r.disorder
  BY <1>3, InsertMilder, InsertKeepsLine DEF SameLine, SameBans
<1> QED BY <1>2, <1>4 DEF Relabelled, Room

(* An answer of Barred comes from an answer of each of the two searches.      *)
LEMMA BarredIs ==
    ASSUME NEW r, NEW n, NEW barred \in Barred(r, n)
    PROVE  \E banned \in Listed(r, "banned", n), invited \in Listed(r, "invited", n) :
             barred = (banned \/ (~r.is_public /\ ~invited))
  BY DEF Barred

(* CHANNEL_add_user lets nobody in who is in the set of the banned.           *)
LEMMA AdmittedNotBanned ==
    ASSUME NEW r \in Room, r.disorder = {}, NEW c \in Client, nickname[c] \in Nick,
           NEW entry \in Admitted(r, c)
    PROVE  /\ entry[1].banned = r.banned /\ entry[1].disorder = r.disorder
           /\ entry[2] \in BOOLEAN /\ (entry[2] => c \notin r.banned)
<1> DEFINE n == nickname[c]
<1>1. \/ entry = <<r, FALSE>>
      \/ /\ FALSE \in Barred(r, n)
         /\ \E x \in Insert(r, n, c, FALSE) :
               entry = <<[x EXCEPT !.arrived = Append(x.arrived, n)], TRUE>>
  <2> DEFINE Longer == {<<[x EXCEPT !.arrived = Append(@, n)], TRUE>> : x \in Insert(r, n, c, FALSE)}
  <2>1. entry = <<r, FALSE>> \/ (FALSE \in Barred(r, n) /\ entry \in Longer)
    <3> HIDE DEF Longer
    <3> QED BY DEF Admitted, Longer
  <2> QED BY <2>1
<1>2. CASE entry = <<r, FALSE>>
  BY <1>2
<1>3. ASSUME FALSE \in Barred(r, n), NEW x \in Insert(r, n, c, FALSE),
             entry = <<[x EXCEPT !.arrived = Append(x.arrived, n)], TRUE>>
      PROVE  /\ entry[1].banned = r.banned /\ entry[1].disorder = r.disorder
             /\ entry[2] = TRUE /\ c \notin r.banned
  <2>1. SameBans(r, x) /\ SameLine(r, x)
    BY InsertMilder, InsertKeepsLine
  <2>2. x \in Room /\ x.banned = r.banned /\ x.disorder = r.disorder
    BY <2>1 DEF SameLine, SameBans
  <2>3. Holding(r.banned, n) = {}
    <3>1. Listed(r, "banned", n) = {Holding(r.banned, n) # {}}
      BY DEF Listed, Astray
    <3>2. PICK barred \in Barred(r, n) : barred = FALSE
      BY <1>3
    <3>3. PICK banned \in Listed(r, "banned", n), invited \in Listed(r, "invited", n) :
            barred = (banned \/ (~r.is_public /\ ~invited))
      BY <3>2, BarredIs
    <3>4. banned = (Holding(r.banned, n) # {})
      BY <3>1, <3>3
    <3> QED BY <3>2, <3>3, <3>4
  <2> QED BY <1>3, <2>1, <2>2, <2>3 DEF Room, Holding
<1> QED BY <1>1, <1>2, <1>3

(* Until a rename puts a set out of order, no set is, and nobody whose        *)
(* nickname buffer is in the banned of a channel has it in clt->channel.      *)
BansHold ==
    "order" \notin damage =>
        \A ch \in Channel :
            rooms[ch].disorder = {} /\ rooms[ch].banned \cap Members(ch) = {}

(* Channels become milder, and nobody enters one.                             *)
LEMMA MilderBansHold ==
    ASSUME Inv, BansHold, "order" \notin damage,
           \A ch \in Channel : rooms'[ch] = rooms[ch] \/ Milder(rooms[ch], rooms'[ch]),
           \A d \in Client : channelOf'[d] \in {channelOf[d], NULL}
    PROVE  BansHold'
<1>1. ASSUME NEW ch \in Channel
      PROVE  rooms'[ch].disorder = {} /\ rooms'[ch].banned \cap Members(ch)' = {}
  <2>1. Members(ch)' \subseteq Members(ch)
    BY NamesAssumption DEF Members
  <2>2. rooms[ch].disorder = {} /\ rooms[ch].banned \cap Members(ch) = {}
    BY DEF BansHold
  <2>3. Milder(rooms[ch], rooms'[ch])
    BY DEF Milder
  <2> QED BY <2>1, <2>2, <2>3 DEF Milder
<1> QED BY <1>1 DEF BansHold, Members

LEMMA OwnMilderBansHold ==
    ASSUME Inv, BansHold, "order" \notin damage, NEW c \in Client, NEW r, Milder(Own(c), r),
           SetOwn(c, r), UNCHANGED channelOf
    PROVE  BansHold'
<1>1. \A ch \in Channel : rooms'[ch] = rooms[ch] \/ Milder(rooms[ch], rooms'[ch])
  BY DEF SetOwn, Own, Inv, SoundRooms
<1> QED BY <1>1, MilderBansHold

LEMMA AfterLeavingMilder ==
    ASSUME Inv, NEW c \in Client, Runs(c), NEW rs \in AfterLeaving(c), NEW ch \in Channel
    PROVE  Milder(rooms[ch], rs[ch])
<1>1. CASE channelOf[c] = NULL
  BY <1>1 DEF AfterLeaving, Milder
<1>2. CASE channelOf[c] # NULL
  <2>1. PICK r \in Removed(Own(c), nickname[c], FALSE) : rs = [rooms EXCEPT ![channelOf[c]] = r]
    BY <1>2 DEF AfterLeaving
  <2>2. Milder(Own(c), r)
    BY <1>2, OwnIsSound, RemovedMilder
  <2> QED BY <2>1, <2>2 DEF Own, Milder, Inv, SoundRooms
<1> QED BY <1>1, <1>2

LEMMA NicknameBansHold ==
    ASSUME Inv, BansHold, "order" \notin damage', NEW c \in Client, NEW n \in Nick, Nickname(c, n)
    PROVE  BansHold'
<1>1. /\ Runs(c) /\ UNCHANGED channelOf
      /\ damage' = damage \cup {"order" : ch \in {x \in Channel : rooms'[x].disorder # {}}}
  BY DEF Nickname, Sends
<1>2. PICK own \in IF channelOf[c] = NULL THEN {NoRoom} ELSE Renamed(Own(c), c, n) :
        rooms' = [ch \in Channel |-> Unsettled(IF ch = channelOf[c] THEN own ELSE rooms[ch], c)]
  BY DEF Nickname
<1>3. \A ch \in Channel : rooms'[ch].disorder = {}
  BY <1>1
<1>4. ASSUME NEW ch \in Channel  PROVE rooms'[ch].banned \cap Members(ch)' = {}
  <2> DEFINE r == IF ch = channelOf[c] THEN own ELSE rooms[ch]
  <2>1. r.banned = rooms[ch].banned /\ r \in Room
    <3>1. CASE ch = channelOf[c]
      <4>1. own \in Renamed(Own(c), c, n) /\ Own(c) = rooms[ch] /\ channelOf[c] # NULL
        BY <1>2, <3>1, NamesAssumption DEF Own
      <4> QED BY <1>1, <3>1, <4>1, OwnIsSound, RenamedMilder, RenamedIsSound DEF Sound
    <3>2. CASE ch # channelOf[c]
      BY <3>2 DEF Inv, SoundRooms
    <3> QED BY <3>1, <3>2
  <2>2. rooms'[ch] = Unsettled(r, c)
    BY <1>2
  <2> HIDE DEF r
  <2>3. rooms'[ch].banned = rooms[ch].banned
    <3> DEFINE new == {l \in List : c \in r[l] /\ \E d \in r[l] : d # c}
    <3>1. rooms'[ch] = [r EXCEPT !.disorder = r.disorder \cup new]
      BY <2>2 DEF Unsettled
    <3> HIDE DEF new
    <3> QED BY <2>1, <3>1 DEF Room
  <2> QED BY <1>1, <2>3 DEF BansHold, Members
<1> QED BY <1>3, <1>4 DEF BansHold, Members

LEMMA JoinBansHold ==
    ASSUME Inv, BansHold, "order" \notin damage, NEW c \in Client, NEW ch \in Channel, Join(c, ch)
    PROVE  BansHold'
<1>1. PICK rs \in AfterLeaving(c) :
        \E entry \in IF rs[ch].live THEN Admitted(rs[ch], c) ELSE {<<Created(c), TRUE>>} :
            /\ rooms' = [rs EXCEPT ![ch] = entry[1]]
            /\ channelOf' = [channelOf EXCEPT ![c] = IF entry[2] THEN ch ELSE NULL]
  BY DEF Join
<1>2. PICK entry \in IF rs[ch].live THEN Admitted(rs[ch], c) ELSE {<<Created(c), TRUE>>} :
            /\ rooms' = [rs EXCEPT ![ch] = entry[1]]
            /\ channelOf' = [channelOf EXCEPT ![c] = IF entry[2] THEN ch ELSE NULL]
  BY <1>1
<1>3. Runs(c) /\ nickname[c] \in Nick
  BY DEF Join, HasName, Inv, Scalars, Sends
<1>4. SoundRooms(rs)
  BY <1>3, AfterLeavingIsSound
<1>5. \A other \in Channel : Milder(rooms[other], rs[other])
  BY <1>3, AfterLeavingMilder
<1>6. rs[ch].disorder = {} /\ rs[ch] \in Room
  BY <1>4, <1>5 DEF BansHold, Milder, SoundRooms
<1>7. /\ Milder(rs[ch], entry[1])
      /\ entry[2] \in BOOLEAN /\ (entry[2] => c \notin entry[1].banned)
  <2>1. CASE rs[ch].live
    <3>1. entry \in Admitted(rs[ch], c)
      BY <1>2, <2>1
    <3>2. /\ entry[1].banned = rs[ch].banned /\ entry[1].disorder = rs[ch].disorder
          /\ entry[2] \in BOOLEAN /\ (entry[2] => c \notin rs[ch].banned)
      BY <1>3, <1>6, <3>1, AdmittedNotBanned
    <3> QED BY <3>2 DEF Milder
  <2>2. CASE ~rs[ch].live
    <3>1. entry = <<Created(c), TRUE>>
      BY <1>2, <2>2
    <3>2. Created(c).banned = {} /\ Created(c).disorder = {}
      BY DEF Created, NoRoom
    <3> QED BY <3>1, <3>2 DEF Milder
  <2> QED BY <2>1, <2>2
<1>8. ASSUME NEW other \in Channel
      PROVE  rooms'[other].disorder = {} /\ rooms'[other].banned \cap Members(other)' = {}
  <2>1. Milder(rooms[other], rooms'[other])
    BY <1>2, <1>4, <1>5, <1>7 DEF SoundRooms, Milder
  <2>2. Members(other)' \subseteq Members(other) \cup {c}
    BY <1>2, NamesAssumption DEF Members, Inv, Scalars
  <2>3. c \in Members(other)' => c \notin rooms'[other].banned
    BY <1>2, <1>4, <1>7, NamesAssumption DEF Members, SoundRooms, Inv, Scalars
  <2> QED BY <2>1, <2>2, <2>3 DEF BansHold, Milder
<1> QED BY <1>8 DEF BansHold, Members

LEMMA KickBansHold ==
    ASSUME Inv, BansHold, "order" \notin damage, NEW c \in Client, NEW n \in Target, Kick(c, n)
    PROVE  BansHold'
<1>1. PICK ban \in Named(n) :
        /\ \E r1 \in Enlisted(Own(c), "banned", ban) :
             \E r2 \in Removed(r1, n, Echoes(r1, c)) : SetOwn(c, r2)
        /\ channelOf' = [channelOf EXCEPT ![ban] = NULL]
  BY DEF Kick
<1>2. PICK r1 \in Enlisted(Own(c), "banned", ban) :
        \E r2 \in Removed(r1, n, Echoes(r1, c)) : SetOwn(c, r2)
  BY <1>1
<1>3. PICK r2 \in Removed(r1, n, Echoes(r1, c)) : SetOwn(c, r2)
  BY <1>2
<1>4. ban \in Client /\ Own(c) \in Room /\ "banned" \in List
  BY PrivilegedIs DEF Named, Kick, List
<1>5. r1 \in Room /\ r1.banned \subseteq Own(c).banned \cup {ban} /\ r1.disorder \subseteq Own(c).disorder
  BY <1>4, EnlistedMilder, EnlistedKeepsLine DEF SameLine
<1>6. r2.banned \subseteq Own(c).banned \cup {ban} /\ r2.disorder \subseteq Own(c).disorder
  BY <1>5, RemovedMilder DEF Milder
<1>7. ASSUME NEW ch \in Channel
      PROVE  rooms'[ch].disorder = {} /\ rooms'[ch].banned \cap Members(ch)' = {}
  <2>1. /\ rooms'[ch].banned \subseteq rooms[ch].banned \cup {ban}
        /\ rooms'[ch].disorder \subseteq rooms[ch].disorder
    BY <1>3, <1>6 DEF SetOwn, Own, Inv, SoundRooms
  <2>2. Members(ch)' \subseteq Members(ch) \ {ban}
    BY <1>1, <1>4, NamesAssumption DEF Members, Inv, Scalars
  <2> QED BY <2>1, <2>2 DEF BansHold
<1> QED BY <1>7 DEF BansHold, Members

LEMMA InviteBansHold ==
    ASSUME Inv, BansHold, "order" \notin damage, NEW c \in Client, NEW n \in Target, Invite(c, n)
    PROVE  BansHold'
<1>1. PICK guest \in Named(n), r1 \in Struck(Own(c), "muted", n) :
        \E r2 \in Struck(r1, "banned", n) : \E r3 \in Enlisted(r2, "invited", guest) :
            SetOwn(c, r3)
  BY DEF Invite
<1>2. PICK r2 \in Struck(r1, "banned", n) : \E r3 \in Enlisted(r2, "invited", guest) :
        SetOwn(c, r3)
  BY <1>1
<1>3. PICK r3 \in Enlisted(r2, "invited", guest) : SetOwn(c, r3)
  BY <1>2
<1>4. guest \in Client /\ {"muted", "banned"} \subseteq List /\ Own(c) \in Room
  BY PrivilegedIs DEF Named, List, Invite
<1>5. r1 \in Room /\ Milder(Own(c), r1)
  BY <1>4, StruckMilder, StruckKeepsLine DEF SameLine
<1>6. r2 \in Room /\ Milder(r1, r2)
  BY <1>4, <1>5, StruckMilder, StruckKeepsLine DEF SameLine
<1>7. Milder(r2, r3)
  BY <1>4, <1>6, EnlistedMilder
<1>8. Milder(Own(c), r3)
  BY <1>5, <1>6, <1>7 DEF Milder
<1> QED BY <1>3, <1>8, OwnMilderBansHold DEF Invite

LEMMA ListsBansHold ==
    ASSUME Inv, BansHold, "order" \notin damage, NEW c \in Client,
           \/ \E public \in BOOLEAN : Mode(c, public)
           \/ \E n \in Target : Unkick(c, n) \/ Mute(c, n) \/ Unmute(c, n)
    PROVE  BansHold'
<1>1. Own(c) \in Room /\ UNCHANGED channelOf
  BY PrivilegedIs DEF Mode, Unkick, Mute, Unmute
<1>2. {"muted", "banned"} \subseteq List /\ \A n : Named(n) \subseteq Client
  BY DEF List, Named
<1>3. ASSUME Ghosted(c)  PROVE \E r : SetOwn(c, r) /\ Milder(Own(c), r)
  BY <1>1, <1>3 DEF Ghosted, Milder, Room
<1>4. ASSUME NEW public \in BOOLEAN, Mode(c, public)
      PROVE  \E r : SetOwn(c, r) /\ Milder(Own(c), r)
  BY <1>1, <1>4 DEF Mode, Milder, Room
<1>5. ASSUME NEW n, Unkick(c, n) \/ Mute(c, n) \/ Unmute(c, n)
      PROVE  \E r : SetOwn(c, r) /\ Milder(Own(c), r)
  <2>1. CASE Unkick(c, n)
    BY <1>1, <1>2, <2>1, StruckMilder DEF Unkick
  <2>2. CASE Mute(c, n)
    BY <1>1, <1>2, <1>3, <2>2, EnlistedMilder DEF Mute
  <2>3. CASE Unmute(c, n)
    BY <1>1, <1>2, <1>3, <2>3, StruckMilder DEF Unmute
  <2> QED BY <1>5, <2>1, <2>2, <2>3
<1>6. PICK r : SetOwn(c, r) /\ Milder(Own(c), r)
  BY <1>4, <1>5
<1> QED BY <1>1, <1>6, OwnMilderBansHold

LEMMA BansHoldNext == Inv /\ BansHold /\ [Next]_vars => BansHold'
<1> SUFFICES ASSUME Inv, BansHold, [Next]_vars, "order" \notin damage'
             PROVE  BansHold'
  BY DEF BansHold
<1>1. "order" \notin damage
  BY DamageStays
<1>2. CASE UNCHANGED <<channelOf, rooms>>
  BY <1>1, <1>2, MilderBansHold
<1>3. ASSUME NEW c \in Client,
             \/ Connect(c) \/ Destroy(c) \/ Message(c)
             \/ JoinUsesDestroyed(c) \/ HeirIsNull(c) \/ ChannelIsFreed(c)
             \/ \E n \in Target : WhoisFindsNobody(c, n) \/ KickUsesDestroyed(c, n)
      PROVE  UNCHANGED <<channelOf, rooms>>
  BY <1>3 DEF Connect, Destroy, Message, JoinUsesDestroyed, HeirIsNull, ChannelIsFreed,
              WhoisFindsNobody, KickUsesDestroyed, Crash
<1>4. ASSUME NEW c \in Client, HangUp(c)  PROVE BansHold'
  <2>1. \A ch \in Channel : Milder(rooms[ch], rooms'[ch])
    BY <1>4, AfterLeavingMilder DEF HangUp
  <2>2. \A d \in Client : channelOf'[d] \in {channelOf[d], NULL}
    BY <1>4 DEF HangUp, Inv, Scalars
  <2> QED BY <1>1, <2>1, <2>2, MilderBansHold
<1>5. ASSUME NEW c \in Client, Administer(c)  PROVE BansHold'
  BY <1>1, <1>2, <1>3, <1>5, InviteBansHold, KickBansHold, ListsBansHold DEF Administer
<1> QED BY <1>1, <1>2, <1>3, <1>4, <1>5, NicknameBansHold, JoinBansHold DEF Next, vars

(* A ban holds for the person: through any sequence of kicks, renames,        *)
(* reconnections, invitations and departures, also of administrators, and     *)
(* with ghosts or without, nobody is in a channel whose banned set holds its  *)
(* nickname buffer, unless a rename has put a set out of order.               *)
THEOREM BansAreKept == Spec => []BannedStaysOut
<1>1. Init => BansHold
  BY DEF Init, BansHold, NoRoom
<1>2. BansHold => BannedStaysOut
  BY DEF BansHold, BannedStaysOut
<1> QED BY <1>1, <1>2, AlwaysInv, BansHoldNext, PTL DEF Spec

-----------------------------------------------------------------------------
\* What is said.

(* A message that is let through is heard by the members of its sender's      *)
(* channel, who are the sockets in participants.                              *)
LEMMA MessageReaches ==
    ASSUME Sane, BansHold, damage = {}, NEW c \in Client, Message(c)
    PROVE  RelayReachesTheChannel'
<1> DEFINE ch == channelOf[c]
<1>1. /\ ch \in Channel /\ Own(c) = rooms[ch] /\ Own(c) \in Room /\ c \in Members(ch)
      /\ UNCHANGED <<channelOf, rooms>>
  BY OwnMember, MembersAre DEF Message, Own, Sane
<1>2. Own(c).participants = {<<nickname[d], d>> : d \in Members(ch)}
  BY <1>1, MembersAre DEF Agrees
<1>3. relayed' = {<<c, d>> : d \in Members(ch)}
  <2>1. relayed' = {<<c, e[2]>> : e \in Own(c).participants}
    BY DEF Message
  <2>2. ASSUME NEW e \in Own(c).participants  PROVE e[2] \in Members(ch)
    BY <1>2
  <2>3. ASSUME NEW d \in Members(ch)
        PROVE  \E e \in Own(c).participants : e[2] = d
    <3>1. <<nickname[d], d>> \in Own(c).participants
      BY <1>2
    <3> QED BY <3>1
  <2> QED BY <2>1, <2>2, <2>3
<1>4. c \notin Own(c).muted
  <2>1. Own(c).disorder = {}
    BY <1>1 DEF BansHold
  <2>2. Listed(Own(c), "muted", nickname[c]) = {Holding(Own(c).muted, nickname[c]) # {}}
    BY <2>1 DEF Listed, Astray
  <2>3. Holding(Own(c).muted, nickname[c]) = {}
    BY <2>2 DEF Message
  <2> QED BY <2>3 DEF Holding
<1>5. ASSUME NEW b \in Client, {d \in Client : <<b, d>> \in relayed'} # {}
      PROVE  /\ channelOf'[b] # NULL
             /\ {d \in Client : <<b, d>> \in relayed'} = Members(channelOf[b])'
             /\ b \notin Own(b)'.muted
  <2>1. b = c
    BY <1>3, <1>5
  <2>2. channelOf'[b] # NULL /\ Own(b)' = Own(c) /\ Members(channelOf[b])' = Members(ch)
    BY <1>1, <2>1, NamesAssumption DEF Own, Members
  <2>3. {d \in Client : <<b, d>> \in relayed'} = Members(ch)
    BY <1>3, <2>1 DEF Members
  <2> QED BY <1>4, <2>1, <2>2, <2>3
<1> QED BY <1>5 DEF RelayReachesTheChannel

LEMMA RelayNext ==
    Inv /\ UniqueNicknames /\ Together /\ BansHold /\ RelayReachesTheChannel /\ [Next]_vars
      => RelayReachesTheChannel'
<1> SUFFICES ASSUME Inv, UniqueNicknames, Together, BansHold, RelayReachesTheChannel,
                    [Next]_vars, damage' = {}
             PROVE  RelayReachesTheChannel'
  BY DEF RelayReachesTheChannel
<1>1. Sane /\ damage = {}
  BY DamageStays DEF Sane
<1>2. CASE relayed' = {}
  BY <1>2 DEF RelayReachesTheChannel
<1>3. CASE UNCHANGED <<channelOf, rooms, relayed, damage>>
  BY <1>3 DEF RelayReachesTheChannel, Own, Members
<1>4. ASSUME NEW c \in Client, Administer(c)
      PROVE  relayed' = {} \/ UNCHANGED <<channelOf, rooms, relayed, damage>>
  BY <1>4 DEF Administer, Mode, Invite, Kick, Unkick, Mute, Unmute, WhoisFindsNobody,
              KickUsesDestroyed, Quiet, Crash
<1>5. ASSUME NEW c \in Client,
             \/ Connect(c) \/ Destroy(c) \/ HangUp(c)
             \/ \E n \in Nick : Nickname(c, n)
             \/ \E ch \in Channel : Join(c, ch)
             \/ JoinUsesDestroyed(c) \/ HeirIsNull(c) \/ ChannelIsFreed(c)
      PROVE  relayed' = {} \/ UNCHANGED <<channelOf, rooms, relayed, damage>>
  BY <1>5 DEF Connect, Destroy, HangUp, Nickname, Join, JoinUsesDestroyed, HeirIsNull,
              ChannelIsFreed, Quiet, Crash
<1> QED BY <1>1, <1>2, <1>3, <1>4, <1>5, MessageReaches DEF Next, vars

(* As long as no tree lies about its keys, a relayed message reaches all the  *)
(* members of its sender's channel and nobody else, its sender included, and  *)
(* a client whose nickname buffer is among the silenced relays nothing.       *)
THEOREM MessagesReach == Spec => []RelayReachesTheChannel
<1>1. Init => RelayReachesTheChannel
  BY DEF Init, RelayReachesTheChannel
<1>2. Init => BansHold
  BY DEF Init, BansHold, NoRoom
<1> QED BY <1>1, <1>2, AlwaysInv, NicknamesAreUnique, AlwaysTogether, BansHoldNext, RelayNext,
           PTL DEF Spec

=============================================================================
