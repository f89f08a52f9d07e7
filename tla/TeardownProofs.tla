---------------------------- MODULE TeardownProofs ----------------------------
(***************************************************************************)
(* Around a channel: proofs that commands exclude each other, and that who  *)
(* has gone is out of the channel, for any number of clients, whoever       *)
(* reads, departs or is kicked meanwhile.                                   *)
(***************************************************************************)
EXTENDS Teardown, LineLemmas

(* The channel's line holds each client whose channel is set, once, and a     *)
(* worker that has left the channel, or found that it was in none, is out of  *)
(* it for good.                                                               *)
Members ==
    /\ IsInjective(arrived)
    /\ \A c \in Client : channel[c] <=> c \in ToSet(arrived)
    /\ \A c \in Client : phase[c] \in {"promote", "destroy", "gone"} => ~channel[c]

Sound == TypeOK /\ Members

-----------------------------------------------------------------------------
\* Lines of clients.

LEMMA EverybodyIs ==
    ASSUME NEW s \in Seq(Client)
    PROVE  Everybody(s) \in Seq(Client)
<1> DEFINE S == ToSet(s)
<1>1. S \in SUBSET Client /\ S \in SUBSET Int
  BY ClientsAssumption DEF ToSet, Client
<1>2. IsFiniteSet(S)
  BY <1>1, ClientsAssumption, FS_Interval, FS_Subset DEF Client
<1>3. Everybody(s) \in SetToSeqs(S)
  BY <1>1, <1>2, AscendingIs DEF Everybody
<1>4. Cardinality(S) \in Nat
  BY <1>2, FS_CardinalityType
<1> HIDE DEF S
<1>5. Everybody(s) \in [1 .. Cardinality(S) -> S]
  BY <1>3 DEF SetToSeqs
<1>6. Everybody(s) \in [1 .. Cardinality(S) -> Client]
  BY <1>1, <1>5
<1> QED BY <1>4, <1>6

LEMMA ElementsAre ==
    ASSUME NEW s \in Seq(Client)
    PROVE  /\ \A d \in ToSet(s) : d \in Client
           /\ s # <<>> => Head(s) \in Client /\ Head(s) \in ToSet(s)
           /\ s # <<>> => Tail(s) \in Seq(Client) /\ ToSet(Tail(s)) \subseteq ToSet(s)
<1>1. \A d \in ToSet(s) : d \in Client
  BY DEF ToSet
<1>2. ASSUME s # <<>>  PROVE Head(s) \in Client /\ Head(s) \in ToSet(s)
  <2>1. Len(s) \in Nat /\ Len(s) # 0 /\ DOMAIN s = 1 .. Len(s)
    BY <1>2, EmptySeq
  <2>2. 1 \in DOMAIN s /\ Head(s) = s[1]
    BY <1>2, <2>1
  <2> QED BY <2>2 DEF ToSet
<1>3. ASSUME s # <<>>  PROVE Tail(s) \in Seq(Client) /\ ToSet(Tail(s)) \subseteq ToSet(s)
  <2>1. /\ Tail(s) \in Seq(Client) /\ Len(Tail(s)) = Len(s) - 1 /\ Len(s) \in Nat
        /\ \A i \in 1 .. Len(Tail(s)) : Tail(s)[i] = s[i + 1]
    BY <1>3, HeadTailProperties
  <2>2. \A i \in DOMAIN Tail(s) : i + 1 \in DOMAIN s /\ Tail(s)[i] = s[i + 1]
    BY <2>1
  <2> QED BY <2>1, <2>2 DEF ToSet
<1> QED BY <1>1, <1>2, <1>3

LEMMA NobodyIn == ToSet(<<>>) = {}
BY DEF ToSet

-----------------------------------------------------------------------------
\* Types, the mutex and the members.

LEMMA InitSound == Init => Sound
<1> SUFFICES ASSUME Init  PROVE Sound
  OBVIOUS
<1>1. 0 \notin Client /\ <<>> \in Seq(Client)
  BY ClientsAssumption DEF Client
<1>2. TypeOK
  BY <1>1 DEF Init, TypeOK, Phase, Command, Commanding, After
<1>3. Members
  BY NobodyIn DEF Init, Members, IsInjective
<1> QED BY <1>2, <1>3 DEF Sound

(* A worker goes on; members, and what was to be written, do not change.      *)
LEMMA GoesSound ==
    ASSUME Sound, NEW c \in Client, NEW from, NEW to \in Phase, Goes(c, from, to),
           UNCHANGED <<server, deaf, arrived, channel>>,
           command' \in [Client -> Command], todo' \in [Client -> Seq(Client)],
           peer' \in [Client -> {"up", "stuck", "closed", "reset"}],
           fault' \in {fault, "null_channel"},
           \/ mutex' = mutex /\ (from \in Commanding) = (to \in Commanding)
           \/ mutex = 0 /\ mutex' = c /\ from \notin Commanding /\ to \in Commanding
           \/ mutex' = 0 /\ from \in Commanding /\ to \notin Commanding,
           to \in {"promote", "destroy", "gone"} =>
               from \in {"promote", "destroy", "gone"} \/ ~channel[c]
    PROVE  Sound'
<1>1. /\ phase' \in [Client -> Phase] /\ phase[c] = from /\ phase'[c] = to
      /\ \A d \in Client : d # c => phase'[d] = phase[d]
  BY DEF Goes, Sound, TypeOK
<1>2. 0 \notin Client
  BY DEF Client
<1>3. mutex' \in Client \cup {0} /\ \A d \in Client : phase'[d] \in Commanding <=> mutex' = d
  BY <1>1, <1>2 DEF Sound, TypeOK
<1>4. Members'
  BY <1>1 DEF Sound, Members
<1> QED BY <1>1, <1>3, <1>4 DEF Sound, TypeOK

LEMMA ProcessSound ==
    ASSUME Sound, Handle \/ Open \/ Interrupt \/ Collide \/ UseFreed
    PROVE  Sound'
<1>1. Members'
  BY DEF Handle, Open, Interrupt, Collide, UseFreed, Sound, Members
<1>2. TypeOK'
  BY DEF Handle, Open, Interrupt, Collide, UseFreed, Sound, TypeOK, After
<1> QED BY <1>1, <1>2 DEF Sound

LEMMA PeerSound ==
    ASSUME Sound, NEW c \in Client, Stall(c) \/ Depart(c) \/ Send(c)
    PROVE  Sound'
<1>1. Members'
  BY DEF Stall, Depart, Send, Sound, Members
<1>2. CASE Stall(c) \/ Depart(c)
  <2>1. peer' \in [Client -> {"up", "stuck", "closed", "reset"}]
    BY <1>2 DEF Stall, Depart, Sound, TypeOK
  <2>2. UNCHANGED <<server, deaf, phase, command, todo, arrived, channel, mutex, fault>>
    BY <1>2 DEF Stall, Depart
  <2> QED BY <1>1, <2>1, <2>2 DEF Sound, TypeOK
<1>3. CASE Send(c)
  <2>1. /\ todo[c] # <<>> /\ todo' = [todo EXCEPT ![c] = Tail(todo[c])]
        /\ UNCHANGED <<server, deaf, phase, command, arrived, channel, mutex>>
        /\ fault' \in {fault, "sigpipe"}
        /\ \/ UNCHANGED peer
           \/ peer' = [peer EXCEPT ![Head(todo[c])] = "reset"]
    BY <1>3 DEF Send, WritesTo
  <2>2. todo[c] \in Seq(Client)
    BY DEF Sound, TypeOK
  <2>3. Tail(todo[c]) \in Seq(Client)
    BY <2>1, <2>2, ElementsAre
  <2>4. /\ todo' \in [Client -> Seq(Client)]
        /\ peer' \in [Client -> {"up", "stuck", "closed", "reset"}]
    BY <2>1, <2>3 DEF Sound, TypeOK
  <2> QED BY <1>1, <2>1, <2>4 DEF Sound, TypeOK
<1> QED BY <1>2, <1>3

LEMMA StepSound ==
    ASSUME Sound, NEW c \in Client,
           \/ Accept(c) \/ HandOver(c) \/ Lock(c) \/ Unlock(c) \/ HangUp(c) \/ Check(c)
           \/ Leave(c) \/ Farewell(c) \/ Promoted(c) \/ Destroy(c)
           \/ \E what \in Command : Type(c, what)
    PROVE  Sound'
<1>1. /\ todo \in [Client -> Seq(Client)] /\ command \in [Client -> Command]
      /\ peer \in [Client -> {"up", "stuck", "closed", "reset"}]
      /\ arrived \in Seq(Client)
  BY DEF Sound, TypeOK
<1>2. CASE \/ Accept(c) \/ HandOver(c) \/ Lock(c) \/ HangUp(c) \/ Farewell(c) \/ Promoted(c)
           \/ Destroy(c)
  <2>1. UNCHANGED <<server, deaf, command, todo, arrived, channel, peer, fault>>
    BY <1>2 DEF Accept, HandOver, Lock, HangUp, Farewell, Promoted, Destroy
  <2>2. \/ Goes(c, "outside", "accept") /\ UNCHANGED mutex
        \/ Goes(c, "accept", "recv") /\ UNCHANGED mutex
        \/ Goes(c, "lock", "act") /\ mutex = 0 /\ mutex' = c
        \/ Goes(c, "recv", "check") /\ UNCHANGED mutex
        \/ Goes(c, "farewell", "remove") /\ UNCHANGED mutex
        \/ Goes(c, "promote", "destroy") /\ UNCHANGED mutex
        \/ Goes(c, "destroy", "gone") /\ UNCHANGED mutex
    BY <1>2 DEF Accept, HandOver, Lock, HangUp, Farewell, Promoted, Destroy
  <2>3. ASSUME NEW from, NEW to \in Phase, Goes(c, from, to),
               \/ UNCHANGED mutex /\ from \notin Commanding /\ to \notin Commanding
               \/ mutex = 0 /\ mutex' = c /\ from \notin Commanding /\ to \in Commanding,
               to \in {"promote", "destroy", "gone"} => from \in {"promote", "destroy", "gone"}
        PROVE  Sound'
    BY <1>1, <2>1, <2>3, GoesSound
  <2>4. CASE \/ Goes(c, "outside", "accept") /\ UNCHANGED mutex
             \/ Goes(c, "accept", "recv") /\ UNCHANGED mutex
             \/ Goes(c, "recv", "check") /\ UNCHANGED mutex
             \/ Goes(c, "farewell", "remove") /\ UNCHANGED mutex
    BY <2>3, <2>4 DEF Phase, Commanding
  <2>5. CASE \/ Goes(c, "promote", "destroy") /\ UNCHANGED mutex
             \/ Goes(c, "destroy", "gone") /\ UNCHANGED mutex
             \/ Goes(c, "lock", "act") /\ mutex = 0 /\ mutex' = c
    BY <2>3, <2>5 DEF Phase, Commanding
  <2> QED BY <2>2, <2>4, <2>5
<1>3. CASE Unlock(c)
  <2>1. command' \in [Client -> Command]
    BY <1>1, <1>3 DEF Unlock, Command
  <2> QED BY <1>1, <1>3, <2>1, GoesSound DEF Unlock, Phase, Commanding
<1>4. CASE Check(c)
  <2>1. Goes(c, "check", IF channel[c] THEN "leave" ELSE "destroy")
    BY <1>4 DEF Check
  <2>2. CASE channel[c]
    BY <1>1, <1>4, <2>1, <2>2, GoesSound, SMTT(30) DEF Check, Phase, Commanding
  <2>3. CASE ~channel[c]
    <3>1. Goes(c, "check", "destroy") /\ "destroy" \in Phase
      BY <2>1, <2>3 DEF Phase
    <3>2. UNCHANGED <<server, deaf, command, todo, arrived, channel, mutex, peer, fault>>
      BY <1>4 DEF Check
    <3>3. ("check" \in Commanding) = ("destroy" \in Commanding)
      BY DEF Commanding
    <3> QED BY <1>1, <2>3, <3>1, <3>2, <3>3, GoesSound
  <2> QED BY <2>2, <2>3
<1>5. CASE Leave(c)
  <2>1. todo' \in [Client -> Seq(Client)] /\ fault' \in {fault, "null_channel"}
    BY <1>1, <1>5, EverybodyIs DEF Leave, WritesTo
  <2>2. /\ Goes(c, "leave", "farewell") /\ "farewell" \in Phase
        /\ UNCHANGED <<server, deaf, command, arrived, channel, mutex, peer>>
    BY <1>5 DEF Leave, Phase
  <2>3. ("leave" \in Commanding) = ("farewell" \in Commanding)
    BY DEF Commanding
  <2>4. command' \in [Client -> Command] /\ peer' \in [Client -> {"up", "stuck", "closed", "reset"}]
    BY <1>1, <2>2
  <2>5. "farewell" \notin {"promote", "destroy", "gone"}
    OBVIOUS
  <2> QED BY <2>1, <2>2, <2>3, <2>4, <2>5, GoesSound
<1>6. ASSUME NEW what \in Command, Type(c, what)  PROVE Sound'
  <2>1. command' \in [Client -> Command]
    BY <1>1, <1>6 DEF Type
  <2>2. /\ Goes(c, "recv", "lock") /\ "lock" \in Phase
        /\ UNCHANGED <<server, deaf, todo, arrived, channel, mutex, peer, fault>>
    BY <1>6 DEF Type, Phase
  <2>3. ("recv" \in Commanding) = ("lock" \in Commanding)
    BY DEF Commanding
  <2>4. "lock" \notin {"promote", "destroy", "gone"}
    OBVIOUS
  <2> QED BY <1>1, <2>1, <2>2, <2>3, <2>4, GoesSound
<1> QED BY <1>2, <1>3, <1>4, <1>5, <1>6

(* Who is removed is out of the line, and whoever is told is a client.        *)
LEMMA RemovesMembers ==
    ASSUME Sound, NEW d \in Client, Removes(d)
    PROVE  /\ arrived' \in Seq(Client) /\ IsInjective(arrived') /\ channel' \in [Client -> BOOLEAN]
           /\ \A e \in Client : channel'[e] <=> e \in ToSet(arrived')
           /\ ~channel'[d] /\ \A e \in Client : channel'[e] => channel[e]
           /\ Succession(d) \in Seq(Client)
<1>1. /\ arrived \in Seq(Client) /\ IsInjective(arrived) /\ channel \in [Client -> BOOLEAN]
      /\ \A e \in Client : channel[e] <=> e \in ToSet(arrived)
  BY DEF Sound, TypeOK, Members
<1>2. arrived' = RemoveFirst(arrived, d) /\ channel' = [channel EXCEPT ![d] = FALSE]
  BY DEF Removes
<1>3. /\ arrived' \in Seq(Client) /\ IsInjective(arrived')
      /\ ToSet(arrived') = ToSet(arrived) \ {d}
  BY <1>1, <1>2, RemoveFirstMembers
<1>4. Succession(d) \in Seq(Client)
  <2>1. arrived' # <<>> => <<Head(arrived')>> \o Everybody(arrived') \in Seq(Client)
    <3>1. arrived' # <<>> => Head(arrived') \in Client
      BY <1>3, ElementsAre
    <3>2. Everybody(arrived') \in Seq(Client)
      BY <1>3, EverybodyIs
    <3> QED BY <3>1, <3>2
  <2>2. <<>> \in Seq(Client)
    OBVIOUS
  <2> QED BY <2>1, <2>2 DEF Succession
<1> QED BY <1>1, <1>2, <1>3, <1>4

(* What a command makes of the channel, of a client that is in it or joins.   *)
LEMMA ActMembers ==
    ASSUME Sound, NEW c \in Client,
           AnswerOnly(c) \/ Message(c) \/ Join(c) \/ Kick(c) \/ KickUsesFreed(c)
    PROVE  /\ arrived' \in Seq(Client) /\ IsInjective(arrived')
           /\ channel' \in [Client -> BOOLEAN]
           /\ \A d \in Client : channel'[d] <=> d \in ToSet(arrived')
           /\ \A d \in Client : channel'[d] => channel[d] \/ d = c
           /\ todo' \in [Client -> Seq(Client)]
<1>1. /\ arrived \in Seq(Client) /\ IsInjective(arrived) /\ channel \in [Client -> BOOLEAN]
      /\ \A d \in Client : channel[d] <=> d \in ToSet(arrived)
      /\ todo \in [Client -> Seq(Client)]
  BY DEF Sound, TypeOK, Members
<1>2. <<>> \in Seq(Client) /\ <<c>> \in Seq(Client) /\ <<c, c>> \in Seq(Client)
  OBVIOUS
<1>3. CASE AnswerOnly(c)
  BY <1>1, <1>2, <1>3 DEF AnswerOnly, WritesTo
<1>4. CASE Message(c)
  BY <1>1, <1>4, EverybodyIs DEF Message, WritesTo
<1>5. CASE Join(c)
  <2>1. /\ ~channel[c] /\ arrived' = Append(arrived, c) /\ channel' = [channel EXCEPT ![c] = TRUE]
        /\ \/ todo' = [todo EXCEPT ![c] = <<c, c>> \o <<>>]
           \/ todo' = [todo EXCEPT ![c] = <<c, c>> \o Everybody(arrived')]
    BY <1>5 DEF Join, WritesTo
  <2>2. /\ arrived' \in Seq(Client) /\ IsInjective(arrived')
        /\ ToSet(arrived') = ToSet(arrived) \cup {c}
    BY <1>1, <2>1, AppendMembers
  <2>3. todo' \in [Client -> Seq(Client)]
    <3>1. Everybody(arrived') \in Seq(Client)
      BY <2>2, EverybodyIs
    <3>2. <<c, c>> \o <<>> \in Seq(Client) /\ <<c, c>> \o Everybody(arrived') \in Seq(Client)
      BY <1>2, <3>1
    <3> QED BY <1>1, <2>1, <3>2
  <2> QED BY <1>1, <2>1, <2>2, <2>3
<1>6. CASE Kick(c)
  <2>1. PICK d \in ToSet(arrived) :
          /\ Removes(d) /\ arrived' # <<>>
          /\ todo' = [todo EXCEPT ![c] = Succession(d) \o <<d>> \o Everybody(arrived') \o <<c>>]
    BY <1>6 DEF Kick, WritesTo
  <2>2. d \in Client
    BY <1>1, ElementsAre
  <2>3. /\ arrived' \in Seq(Client) /\ IsInjective(arrived') /\ channel' \in [Client -> BOOLEAN]
        /\ \A e \in Client : channel'[e] <=> e \in ToSet(arrived')
        /\ \A e \in Client : channel'[e] => channel[e]
        /\ Succession(d) \in Seq(Client)
    BY <2>1, <2>2, RemovesMembers
  <2>4. Succession(d) \o <<d>> \o Everybody(arrived') \o <<c>> \in Seq(Client)
    <3>1. <<d>> \in Seq(Client) /\ Everybody(arrived') \in Seq(Client)
      BY <2>2, <2>3, EverybodyIs
    <3>2. Succession(d) \o <<d>> \in Seq(Client)
      BY <2>3, <3>1
    <3>3. Succession(d) \o <<d>> \o Everybody(arrived') \in Seq(Client)
      BY <3>1, <3>2
    <3> QED BY <1>2, <3>3
  <2> QED BY <1>1, <2>1, <2>3, <2>4
<1>7. CASE KickUsesFreed(c)
  BY <1>1, <1>7, RemovesMembers DEF KickUsesFreed
<1> QED BY <1>3, <1>4, <1>5, <1>6, <1>7

LEMMA ActSound == ASSUME Sound, NEW c \in Client, Act(c) PROVE Sound'
<1>1. /\ phase[c] = "act" /\ phase' = [phase EXCEPT ![c] = "send"]
      /\ AnswerOnly(c) \/ Message(c) \/ Join(c) \/ Kick(c) \/ KickUsesFreed(c)
      /\ fault' \in {fault, "freed"}
      /\ UNCHANGED <<server, deaf, command, mutex, peer>>
  BY DEF Act, Goes, KickUsesFreed
<1>2. /\ phase' \in [Client -> Phase] /\ phase'[c] = "send"
      /\ \A d \in Client : d # c => phase'[d] = phase[d]
  BY <1>1 DEF Sound, TypeOK, Phase
<1>3. \A d \in Client : phase'[d] \in Commanding <=> mutex' = d
  BY <1>1, <1>2 DEF Sound, TypeOK, Commanding
<1>4. \A d \in Client : phase'[d] \in {"promote", "destroy", "gone"} => ~channel'[d]
  BY <1>1, <1>2, ActMembers DEF Sound, Members
<1>5. TypeOK'
  BY <1>1, <1>2, <1>3, ActMembers DEF Sound, TypeOK
<1>6. Members'
  BY <1>1, <1>4, ActMembers DEF Members
<1> QED BY <1>5, <1>6 DEF Sound

LEMMA LeavesSound == ASSUME Sound, NEW c \in Client, Leaves(c) PROVE Sound'
<1>1. /\ phase[c] = "remove" /\ phase' = [phase EXCEPT ![c] = "promote"]
      /\ UNCHANGED <<server, deaf, command, mutex, peer, fault>>
  BY DEF Leaves, Goes
<1>2. /\ phase' \in [Client -> Phase] /\ phase'[c] = "promote"
      /\ \A d \in Client : d # c => phase'[d] = phase[d]
  BY <1>1 DEF Sound, TypeOK, Phase
<1>3. \A d \in Client : phase'[d] \in Commanding <=> mutex' = d
  BY <1>1, <1>2 DEF Sound, TypeOK, Commanding
<1>4. /\ arrived \in Seq(Client) /\ IsInjective(arrived) /\ channel \in [Client -> BOOLEAN]
      /\ \A d \in Client : channel[d] <=> d \in ToSet(arrived)
      /\ \A d \in Client : phase[d] \in {"promote", "destroy", "gone"} => ~channel[d]
      /\ todo \in [Client -> Seq(Client)]
  BY DEF Sound, TypeOK, Members
<1>5. /\ arrived' \in Seq(Client) /\ IsInjective(arrived')
      /\ channel' \in [Client -> BOOLEAN]
      /\ \A d \in Client : channel'[d] <=> d \in ToSet(arrived')
      /\ ~channel'[c] /\ \A d \in Client : channel'[d] => channel[d]
      /\ todo' \in [Client -> Seq(Client)]
  <2>1. CASE ~channel[c]
    BY <1>4, <2>1 DEF Leaves
  <2>2. CASE channel[c]
    <3>1. Removes(c) /\ todo' = [todo EXCEPT ![c] = Succession(c)]
      BY <2>2 DEF Leaves, WritesTo
    <3> QED BY <1>4, <3>1, RemovesMembers
  <2> QED BY <2>1, <2>2
<1>6. TypeOK'
  BY <1>1, <1>2, <1>3, <1>5 DEF Sound, TypeOK
<1>7. Members'
  BY <1>1, <1>2, <1>4, <1>5 DEF Members
<1> QED BY <1>6, <1>7 DEF Sound

LEMMA NextSound == Sound /\ [Next]_vars => Sound'
<1>1. ASSUME Sound, UNCHANGED vars  PROVE Sound'
  BY <1>1 DEF vars, Sound, TypeOK, Members
<1> QED BY <1>1, ProcessSound, PeerSound, StepSound, ActSound, LeavesSound DEF Next, Works

LEMMA AlwaysSound == Spec => []Sound
BY InitSound, NextSound, PTL DEF Spec

-----------------------------------------------------------------------------
\* What follows.

(* Every variable has its type, and a worker is inside a command exactly      *)
(* while it owns the mutex, whatever hang-ups do without it.                  *)
THEOREM TeardownTypes == Spec => []TypeOK
<1>1. Sound => TypeOK
  BY DEF Sound
<1> QED BY <1>1, AlwaysSound, PTL

(* A client whose socket has been closed is in no channel and in no line:     *)
(* its worker looked three times, and no kick or join came in between that    *)
(* would leave it there.                                                      *)
THEOREM TheGoneAreOut == Spec => []GoneIsOut
<1>1. Sound => GoneIsOut
  BY DEF Sound, Members, GoneIsOut
<1> QED BY <1>1, AlwaysSound, PTL

=============================================================================
