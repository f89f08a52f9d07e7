--------------------------- MODULE ChatSessionProofs ---------------------------
(***************************************************************************)
(* Theorems about ChatSession: what a client that has read its answers     *)
(* knows of its name, its channel and its role, what a request to join     *)
(* presupposes, how every line is answered, and how texts of any length    *)
(* are cut.                                                                *)
(***************************************************************************)
EXTENDS ChatSession, ChatQueueProofs

-----------------------------------------------------------------------------
\* Packets.

(* A product grows with its first factor.                                     *)
LEMMA Multiples ==
    ASSUME NEW b \in Nat, NEW i \in Nat, NEW j \in Nat, i <= j
    PROVE  i * b \in Nat /\ i * b <= j * b /\ (i + 1) * b = i * b + b
<1>1. \A d \in Nat : d * b >= 0 /\ (i + d) * b = i * b + d * b
  OBVIOUS
<1>2. j - i \in Nat /\ i + (j - i) = j
  OBVIOUS
<1>3. (j - i) * b >= 0 /\ j * b = i * b + (j - i) * b
  BY <1>1, <1>2
<1> QED BY <1>3

LEMMA Division ==
    ASSUME NEW len \in Nat, NEW b \in Nat, b > 0
    PROVE  /\ len \div b \in Nat /\ len % b \in 0 .. b - 1
           /\ len = (len \div b) * b + (len % b)
<1>1. len \div b \in Int /\ len \div b >= 0
  OBVIOUS
<1>2. len % b \in 0 .. b - 1
  OBVIOUS
<1>3. len \in Int /\ b \in Int
  OBVIOUS
<1>4. len = b * (len \div b) + (len % b)
  BY <1>3, Z3
<1>5. b * (len \div b) = (len \div b) * b
  BY <1>1, <1>3
<1> DEFINE q == len \div b
           r == len % b
<1>6. q \in Int /\ q >= 0 /\ r \in 0 .. b - 1 /\ len = b * q + r /\ b * q = q * b
  BY <1>1, <1>2, <1>4, <1>5
<1> HIDE DEF q, r
<1>7. q \in Nat /\ r \in 0 .. b - 1 /\ len = q * b + r
  BY <1>6
<1> QED BY <1>7 DEF q, r

(* The count of packets is the number of steps, of the size of what a packet  *)
(* holds, that it takes to go through the text.                               *)
LEMMA PacketCount ==
    ASSUME NEW len \in Nat, len > 0, NEW nick_len \in NickLengths,
           NEW n, n = qtd_mensagens(len, nick_len), NEW b, b = Space(nick_len)
    PROVE  /\ b \in 453 .. 501
           /\ n \in Nat /\ n > 0
           /\ len <= n * b /\ (n - 1) * b < len
<1>1. /\ b = 503 - nick_len /\ b \in 453 .. 501
      /\ b = MAX_MESSAGE_LENGHT - message_overhead(nick_len)
  BY DEF NickLengths, NICKNAME_MAXLENGHT, Space, MAX_MESSAGE_LENGHT, message_overhead
<1> DEFINE q == len \div b
           r == len % b
<1>2. q \in Nat /\ r \in 0 .. b - 1 /\ len = q * b + r
  <2>1. b \in Nat /\ b > 0
    BY <1>1
  <2> QED BY <2>1, Division
<1>3. n = q + IF r > 0 THEN 1 ELSE 0
  BY <1>1 DEF qtd_mensagens
<1> HIDE DEF q, r
<1>4. q * b \in Nat /\ (q + 1) * b = q * b + b
  BY <1>1, <1>2, Multiples
<1>5. CASE r > 0
  <2>1. n = q + 1 /\ n - 1 = q
    BY <1>2, <1>3, <1>5
  <2> QED BY <1>1, <1>2, <1>4, <1>5, <2>1
<1>6. CASE r = 0
  <2>1. n = q /\ len = q * b
    BY <1>2, <1>3, <1>4, <1>6
  <2>2. q # 0
    BY <1>1, <2>1
  <2>3. q - 1 \in Nat /\ (q - 1) * b \in Nat /\ q * b = (q - 1) * b + b
    <3>1. q - 1 \in Nat /\ (q - 1) + 1 = q
      BY <1>2, <2>2
    <3> QED BY <1>1, <3>1, Multiples
  <2> QED BY <1>1, <1>2, <2>1, <2>2, <2>3
<1> QED BY <1>1, <1>2, <1>5, <1>6

(* A text of any length, cut for a name of any length that the server takes,  *)
(* is cut into packets none of which is empty or longer than the server       *)
(* reads, and which together hold all of it (codec.cpp 169-192).              *)
THEOREM AnyTextIsCutWhole ==
    ASSUME NEW len \in Nat, len > 0, NEW nick_len \in NickLengths
    PROVE  LET n == qtd_mensagens(len, nick_len)
           IN  /\ raw_it(len, nick_len, n + 1) = len
               /\ \A i \in 1 .. n :
                    /\ Body(len, nick_len, i) > 0
                    /\ PacketLength(len, nick_len, i) <= MAX_MESSAGE_LENGHT
<1> DEFINE n == qtd_mensagens(len, nick_len)
           b == Space(nick_len)
<1>1. /\ b \in 453 .. 501 /\ n \in Nat /\ n > 0
      /\ len <= n * b /\ (n - 1) * b < len
  BY PacketCount
<1>2. b = 503 - nick_len /\ nick_len \in Nat
  BY DEF Space, MAX_MESSAGE_LENGHT, NickLengths, NICKNAME_MAXLENGHT
<1> HIDE DEF n, b
<1>3. raw_it(len, nick_len, n + 1) = len
  <2>1. n * b \in Nat /\ (n + 1) - 1 = n
    BY <1>1, Multiples
  <2> QED BY <1>1, <2>1 DEF raw_it, Lesser, b
<1>4. ASSUME NEW i \in 1 .. n
      PROVE  Body(len, nick_len, i) > 0 /\ PacketLength(len, nick_len, i) <= MAX_MESSAGE_LENGHT
  <2>1. i - 1 \in Nat /\ n - 1 \in Nat /\ i - 1 <= n - 1 /\ (i - 1) + 1 = i /\ (i + 1) - 1 = i
    BY <1>1
  <2>2. (i - 1) * b \in Nat /\ (i - 1) * b <= (n - 1) * b /\ i * b = (i - 1) * b + b
    BY <1>1, <2>1, Multiples
  <2>3. (n - 1) * b \in Nat
    BY <1>1, <2>1, Multiples
  <2>4. raw_it(len, nick_len, i) = (i - 1) * b
    BY <1>1, <2>2, <2>3 DEF raw_it, Lesser, b
  <2>5. raw_it(len, nick_len, i + 1) = IF len < i * b THEN len ELSE i * b
    BY <2>1 DEF raw_it, Lesser, b
  <2>6. Body(len, nick_len, i) > 0 /\ Body(len, nick_len, i) <= b
    BY <1>1, <2>2, <2>3, <2>4, <2>5 DEF Body
  <2>7. Body(len, nick_len, i) \in Nat
    BY <1>1, <2>2, <2>3, <2>4, <2>5 DEF Body
  <2> QED BY <1>1, <1>2, <2>6, <2>7 DEF PacketLength, message_overhead, MAX_MESSAGE_LENGHT
<1> QED BY <1>3, <1>4 DEF n

LEMMA TextsAreCutWhole == CutWhole
BY AnyTextIsCutWhole DEF CutWhole, TextLengths

LEMMA PacketsFit == Fits
BY DEF Fits, Space, Shown, MAX_MESSAGE_LENGHT, NICKNAME_MAXLENGHT

-----------------------------------------------------------------------------
\* What of a command's sends a client hears.

IsSeq(s) == \E S : s \in Seq(S)

(* Where in sends there is something for e that changes what e knows.         *)
Heard(sends, e) == {i \in DOMAIN sends : e \in sends[i].to /\ Changing(sends[i].line)}

(* It is told nothing of the kind, or just the one line.                      *)
Spares(sends, e) == Heard(sends, e) = {}

Tells(sends, e, line) ==
    \E i \in DOMAIN sends : Heard(sends, e) = {i} /\ sends[i].line = line

(* The lines of a command reach e one by one, each once.                      *)
LEMMA LinesAre ==
    ASSUME NEW sends, IsSeq(sends), NEW e
    PROVE  \E n \in Nat : \E f \in Bijection(1 .. n, Heard(sends, e)) :
              Lines(sends, e) = [k \in 1 .. n |-> sends[f[k]].line]
<1> DEFINE H == Heard(sends, e)
           f == Ascending(H)
<1>1. PICK S : sends \in Seq(S)
  BY DEF IsSeq
<1>2. H \in SUBSET (1 .. Len(sends)) /\ Len(sends) \in Nat
  BY <1>1 DEF Heard
<1>3. H \in SUBSET Int /\ IsFiniteSet(H)
  <2>1. IsFiniteSet(1 .. Len(sends))
    BY <1>2, FS_Interval
  <2>2. H \in SUBSET Int
    BY <1>2
  <2> QED BY <1>2, <2>1, <2>2, FS_Subset
<1>4. f \in SetToSeqs(H)
  BY <1>3, AscendingIs
<1> DEFINE n == Cardinality(H)
<1>5. n \in Nat
  BY <1>3, FS_CardinalityType
<1>6. f \in Bijection(1 .. n, H)
  <2>1. f \in [1 .. n -> H] /\ \A i, j \in 1 .. n : i # j => f[i] # f[j]
    BY <1>4 DEF SetToSeqs
  <2>2. f \in Injection(1 .. n, H)
    BY <2>1 DEF Injection, IsInjective
  <2>3. IsFiniteSet(1 .. n) /\ Cardinality(1 .. n) = n
    BY <1>5, FS_Interval
  <2>4. f \in Surjection(1 .. n, H)
    BY <1>3, <2>2, <2>3, FS_Injection
  <2> QED BY <2>2, <2>4 DEF Bijection
<1>7. Lines(sends, e) = [k \in DOMAIN f |-> sends[f[k]].line]
  BY DEF Lines, Heard
<1>8. DOMAIN f = 1 .. n
  BY <1>6 DEF Bijection, Injection
<1> QED BY <1>5, <1>6, <1>7, <1>8

LEMMA SparedHearNothing ==
    ASSUME NEW sends, IsSeq(sends), NEW e, Spares(sends, e)
    PROVE  Lines(sends, e) = <<>>
<1>0. PICK n \in Nat : \E f \in Bijection(1 .. n, Heard(sends, e)) :
         Lines(sends, e) = [k \in 1 .. n |-> sends[f[k]].line]
  BY LinesAre
<1>1. PICK f \in Bijection(1 .. n, Heard(sends, e)) :
         Lines(sends, e) = [k \in 1 .. n |-> sends[f[k]].line]
  BY <1>0
<1>2. n = 0
  <2>1. SUFFICES ASSUME n # 0  PROVE FALSE
    OBVIOUS
  <2>2. 1 \in 1 .. n
    BY <2>1
  <2>3. f[1] \in Heard(sends, e)
    BY <2>2 DEF Bijection, Injection
  <2> QED BY <2>3 DEF Spares
<1>3. Lines(sends, e) \in Seq(Nat) /\ Len(Lines(sends, e)) = 0
  BY <1>1, <1>2
<1> QED BY <1>3

LEMMA ToldHearOne ==
    ASSUME NEW sends, IsSeq(sends), NEW e, NEW line, Tells(sends, e, line)
    PROVE  Lines(sends, e) = <<line>>
<1>0. PICK n \in Nat : \E f \in Bijection(1 .. n, Heard(sends, e)) :
         Lines(sends, e) = [k \in 1 .. n |-> sends[f[k]].line]
  BY LinesAre
<1>1. PICK f \in Bijection(1 .. n, Heard(sends, e)) :
         Lines(sends, e) = [k \in 1 .. n |-> sends[f[k]].line]
  BY <1>0
<1>2. PICK i \in DOMAIN sends : Heard(sends, e) = {i} /\ sends[i].line = line
  BY DEF Tells
<1>3. \A k \in 1 .. n : f[k] = i
  BY <1>2 DEF Bijection, Injection
<1>4. n # 0
  <2>1. PICK k \in 1 .. n : f[k] = i
    BY <1>2 DEF Bijection, Surjection
  <2> QED BY <2>1
<1>5. ~(n > 1)
  <2>1. SUFFICES ASSUME n > 1  PROVE FALSE
    OBVIOUS
  <2>2. 1 \in 1 .. n /\ 2 \in 1 .. n /\ f[1] = f[2]
    BY <1>3, <2>1
  <2>3. \A a, b \in 1 .. n : f[a] = f[b] => a = b
    BY DEF Bijection, Injection, IsInjective
  <2>4. 1 = 2
    BY <2>2, <2>3
  <2> QED BY <2>4
<1>6. n = 1
  BY <1>4, <1>5
<1> QED BY <1>1, <1>2, <1>3, <1>6

(* Sends that follow each other.                                              *)
LEMMA HeardTogether ==
    ASSUME NEW s, IsSeq(s), NEW t, IsSeq(t), NEW e
    PROVE  /\ IsSeq(s \o t)
           /\ Heard(s \o t, e) = Heard(s, e) \cup {Len(s) + j : j \in Heard(t, e)}
           /\ \A i \in DOMAIN s : i \in DOMAIN (s \o t) /\ (s \o t)[i] = s[i]
           /\ \A j \in DOMAIN t : Len(s) + j \in DOMAIN (s \o t) /\ (s \o t)[Len(s) + j] = t[j]
<1>1. PICK S : s \in Seq(S)
  BY DEF IsSeq
<1>2. PICK T : t \in Seq(T)
  BY DEF IsSeq
<1> DEFINE U == S \cup T
           u == s \o t
<1>3. s \in Seq(U) /\ t \in Seq(U)
  BY <1>1, <1>2
<1> HIDE DEF U
<1>4. /\ u \in Seq(U) /\ Len(u) = Len(s) + Len(t)
      /\ \A i \in 1 .. Len(s) + Len(t) : u[i] = IF i <= Len(s) THEN s[i] ELSE t[i - Len(s)]
  BY <1>3, ConcatProperties
<1> HIDE DEF u
<1>5. /\ DOMAIN u = 1 .. Len(s) + Len(t) /\ DOMAIN s = 1 .. Len(s) /\ DOMAIN t = 1 .. Len(t)
      /\ Len(s) \in Nat /\ Len(t) \in Nat
  BY <1>3, <1>4
<1>6. \A i \in 1 .. Len(s) : i \in DOMAIN u /\ u[i] = s[i]
  BY <1>4, <1>5
<1>7. \A j \in 1 .. Len(t) : Len(s) + j \in DOMAIN u /\ u[Len(s) + j] = t[j]
  BY <1>4, <1>5
<1>8. \A k \in DOMAIN u : k \in 1 .. Len(s) \/ (k - Len(s) \in 1 .. Len(t) /\ k = Len(s) + (k - Len(s)))
  BY <1>5
<1>9. Heard(u, e) \subseteq Heard(s, e) \cup {Len(s) + j : j \in Heard(t, e)}
  <2> SUFFICES ASSUME NEW k \in Heard(u, e)
               PROVE  k \in Heard(s, e) \/ \E j \in Heard(t, e) : k = Len(s) + j
    OBVIOUS
  <2>1. k \in DOMAIN u /\ e \in u[k].to /\ Changing(u[k].line)
    BY DEF Heard
  <2>2. CASE k \in 1 .. Len(s)
    BY <1>5, <1>6, <2>1, <2>2 DEF Heard
  <2>3. CASE k - Len(s) \in 1 .. Len(t) /\ k = Len(s) + (k - Len(s))
    <3> DEFINE j == k - Len(s)
    <3>1. j \in 1 .. Len(t) /\ k = Len(s) + j
      BY <2>3
    <3> HIDE DEF j
    <3>2. u[k] = t[j]
      BY <1>7, <3>1
    <3> QED BY <1>5, <2>1, <3>1, <3>2 DEF Heard
  <2> QED BY <1>8, <2>1, <2>2, <2>3
<1>10. Heard(s, e) \subseteq Heard(u, e) /\ \A j \in Heard(t, e) : Len(s) + j \in Heard(u, e)
  BY <1>5, <1>6, <1>7 DEF Heard
<1> QED BY <1>4, <1>5, <1>6, <1>7, <1>9, <1>10 DEF u, IsSeq

LEMMA SparesTogether ==
    ASSUME NEW s, IsSeq(s), NEW t, IsSeq(t), NEW e, Spares(s, e), Spares(t, e)
    PROVE  Spares(s \o t, e)
BY HeardTogether DEF Spares

LEMMA TellsTogether ==
    ASSUME NEW s, IsSeq(s), NEW t, IsSeq(t), NEW e, NEW line,
           \/ Tells(s, e, line) /\ Spares(t, e)
           \/ Spares(s, e) /\ Tells(t, e, line)
    PROVE  Tells(s \o t, e, line)
<1> DEFINE u == s \o t
<1>1. /\ Heard(u, e) = Heard(s, e) \cup {Len(s) + j : j \in Heard(t, e)}
      /\ \A i \in DOMAIN s : i \in DOMAIN u /\ u[i] = s[i]
      /\ \A j \in DOMAIN t : Len(s) + j \in DOMAIN u /\ u[Len(s) + j] = t[j]
  BY HeardTogether
<1> HIDE DEF u
<1>2. CASE Tells(s, e, line) /\ Spares(t, e)
  <2>1. PICK i \in DOMAIN s : Heard(s, e) = {i} /\ s[i].line = line
    BY <1>2 DEF Tells
  <2>2. Heard(u, e) = {i}
    BY <1>1, <1>2, <2>1 DEF Spares
  <2> QED BY <1>1, <2>1, <2>2 DEF Tells, u
<1>3. CASE Spares(s, e) /\ Tells(t, e, line)
  <2>1. PICK j \in DOMAIN t : Heard(t, e) = {j} /\ t[j].line = line
    BY <1>3 DEF Tells
  <2>2. Heard(u, e) = {Len(s) + j}
    BY <1>1, <1>3, <2>1 DEF Spares
  <2> QED BY <1>1, <2>1, <2>2 DEF Tells, u
<1> QED BY <1>2, <1>3

-----------------------------------------------------------------------------
\* What the server's answers tell.

Welcomes == {<<"/join", "SUCCESS", ch, role>> : ch \in Channel, role \in Roles}

Namings == {<<"/nickname", "SUCCESS", n>> : n \in Nick}

(* Sends from which nobody learns anything, and sends that name nobody.       *)
Silent(sends) == IsSeq(sends) /\ \A i \in DOMAIN sends : ~Changing(sends[i].line)

Hushed(sends) ==
    IsSeq(sends) /\ \A i \in DOMAIN sends : Changing(sends[i].line) => sends[i].line \in Welcomes

LEMMA TuplesAreSeqs ==
    /\ IsSeq(<<>>)
    /\ \A a : IsSeq(<<a>>)
    /\ \A a, b : IsSeq(<<a, b>>)
    /\ \A a, b, c : IsSeq(<<a, b, c>>)
    /\ \A a, b, c, d : IsSeq(<<a, b, c, d>>)
<1>1. <<>> \in Seq({})
  OBVIOUS
<1>2. \A a : <<a>> \in Seq({a})
  OBVIOUS
<1>3. \A a, b : <<a, b>> \in Seq({a, b})
  OBVIOUS
<1>4. \A a, b, c : <<a, b, c>> \in Seq({a, b, c})
  OBVIOUS
<1>5. \A a, b, c, d : <<a, b, c, d>> \in Seq({a, b, c, d})
  OBVIOUS
<1> QED BY <1>1, <1>2, <1>3, <1>4, <1>5 DEF IsSeq

(* A line begins as its first part does.                                      *)
LEMMA LineBegins ==
    ASSUME NEW s, IsSeq(s), NEW t, IsSeq(t)
    PROVE  \A i \in DOMAIN s : (s \o t)[i] = s[i]
BY HeardTogether

LEMMA NoticeChangesNothing == ASSUME NEW words, IsSeq(words) PROVE ~Changing(Notice(words))
<1>1. Notice(words)[1] = <<"/channelmsg", ":">>[1]
  BY TuplesAreSeqs, LineBegins DEF Notice
<1> QED BY <1>1 DEF Changing

LEMMA SilentSpares == ASSUME NEW s, Silent(s) PROVE Hushed(s) /\ \A e : Spares(s, e)
BY DEF Silent, Hushed, Spares, Heard

(* Each element of two sequences in a row is one of the first or the second.  *)
LEMMA PartsOf ==
    ASSUME NEW s, IsSeq(s), NEW t, IsSeq(t), NEW k \in DOMAIN (s \o t)
    PROVE  (\E i \in DOMAIN s : (s \o t)[k] = s[i]) \/ (\E j \in DOMAIN t : (s \o t)[k] = t[j])
<1> DEFINE u == s \o t
<1>1. PICK S : s \in Seq(S)
  BY DEF IsSeq
<1>2. PICK T : t \in Seq(T)
  BY DEF IsSeq
<1>3. s \in Seq(S \cup T) /\ t \in Seq(S \cup T)
  BY <1>1, <1>2
<1>4. /\ Len(u) = Len(s) + Len(t) /\ u \in Seq(S \cup T)
      /\ \A i \in 1 .. Len(s) + Len(t) : u[i] = IF i <= Len(s) THEN s[i] ELSE t[i - Len(s)]
  BY <1>3, ConcatProperties
<1> HIDE DEF u
<1>5. /\ k \in 1 .. Len(s) + Len(t) /\ DOMAIN s = 1 .. Len(s) /\ DOMAIN t = 1 .. Len(t)
      /\ Len(s) \in Nat /\ Len(t) \in Nat
  BY <1>3, <1>4 DEF u
<1>6. k \in 1 .. Len(s) \/ (k - Len(s) \in 1 .. Len(t) /\ ~(k <= Len(s)))
  BY <1>5
<1>7. (\E i \in DOMAIN s : u[k] = s[i]) \/ (\E j \in DOMAIN t : u[k] = t[j])
  BY <1>4, <1>5, <1>6
<1> QED BY <1>7 DEF u

LEMMA Together2 ==
    ASSUME NEW s, NEW t
    PROVE  /\ Silent(s) /\ Silent(t) => Silent(s \o t)
           /\ Hushed(s) /\ Hushed(t) => Hushed(s \o t)
<1> SUFFICES ASSUME IsSeq(s), IsSeq(t)
             PROVE  /\ Silent(s) /\ Silent(t) => Silent(s \o t)
                    /\ Hushed(s) /\ Hushed(t) => Hushed(s \o t)
  BY DEF Silent, Hushed
<1> DEFINE u == s \o t
<1>1. IsSeq(u)
  BY HeardTogether
<1>2. ASSUME NEW k \in DOMAIN u
      PROVE  (\E i \in DOMAIN s : u[k] = s[i]) \/ (\E j \in DOMAIN t : u[k] = t[j])
  BY PartsOf
<1> HIDE DEF u
<1>3. Silent(s) /\ Silent(t) => Silent(u)
  BY <1>1, <1>2 DEF Silent
<1>4. Hushed(s) /\ Hushed(t) => Hushed(u)
  BY <1>1, <1>2 DEF Hushed
<1> QED BY <1>3, <1>4 DEF u

LEMMA SilentLists ==
    /\ Silent(<<>>)
    /\ \A a : ~Changing(a.line) => Silent(<<a>>)
    /\ \A a, b : ~Changing(a.line) /\ ~Changing(b.line) => Silent(<<a, b>>)
    /\ \A a, b, c : ~Changing(a.line) /\ ~Changing(b.line) /\ ~Changing(c.line)
                       => Silent(<<a, b, c>>)
BY TuplesAreSeqs DEF Silent

(* A line to d alone, and after it nothing that anybody learns from.          *)
LEMMA ToldFirst ==
    ASSUME NEW d, NEW line, Changing(line), NEW t, Silent(t)
    PROVE  LET s == <<One(d, line)>> \o t
           IN  /\ IsSeq(s)
               /\ Tells(s, d, line)
               /\ \A e : e # d => Spares(s, e)
               /\ line \in Welcomes => Hushed(s)
<1> DEFINE h == <<One(d, line)>>
<1>1. IsSeq(h) /\ IsSeq(t) /\ DOMAIN h = {1} /\ h[1].line = line /\ h[1].to = {d}
  BY TuplesAreSeqs DEF Silent, One
<1> HIDE DEF h
<1>2. Tells(h, d, line) /\ \A e : e # d => Spares(h, e)
  BY <1>1 DEF Tells, Spares, Heard
<1>3. \A e : Spares(t, e)
  BY SilentSpares
<1>4. IsSeq(h \o t) /\ Tells(h \o t, d, line)
  BY <1>1, <1>2, <1>3, TellsTogether, HeardTogether
<1>5. \A e : e # d => Spares(h \o t, e)
  BY <1>1, <1>2, <1>3, SparesTogether
<1>6. line \in Welcomes => Hushed(h \o t)
  <2>1. Hushed(t)
    BY SilentSpares
  <2>2. line \in Welcomes => Hushed(h)
    BY <1>1 DEF Hushed
  <2> QED BY <2>1, <2>2, Together2
<1> QED BY <1>4, <1>5, <1>6 DEF h

(* CHANNEL_broadcast: what is said of who is in a channel, of who             *)
(* administers it, and of what its administrator does.                        *)
LEMMA NamesAreSeq ==
    ASSUME NEW r \in Room
    PROVE  IsSeq(CHANNEL_list_participants(r))
<1> DEFINE n == 2 * Len(r.arrived)
           W == {CHANNEL_list_participants(r)[k] : k \in 1 .. n}
<1>1. n \in Nat
  BY DEF Room
<1>2. CHANNEL_list_participants(r) \in [1 .. n -> W]
  BY DEF CHANNEL_list_participants
<1> HIDE DEF W, n
<1>3. CHANNEL_list_participants(r) \in Seq(W)
  BY <1>1, <1>2
<1> QED BY <1>3 DEF IsSeq

LEMMA PlainMembership ==
    ASSUME NEW ch, NEW r, NEW c, NEW me, NEW arg,
           NEW type \in {"MESSAGE_CLIENT", "MESSAGE_CHANGE_NICKNAME", "MESSAGE_QUIT_CHANNEL",
                         "ERR_INVITEONLYCHAN", "ERR_BANNEDFROMCHAN"}
    PROVE  Silent(Membership(ch, r, c, me, type, arg))
<1>1. CASE type = "MESSAGE_CLIENT"
  <2>1. Membership(ch, r, c, me, type, arg) = <<All(r, <<"/msg", Role(r, me), me, ":", arg>>)>>
    BY <1>1 DEF Membership
  <2> QED BY <2>1, SilentLists DEF All, Changing
<1>2. CASE type = "MESSAGE_CHANGE_NICKNAME"
  <2>1. Membership(ch, r, c, me, type, arg) =
           <<All(r, Notice(<<Role(r, me), arg, Role(r, me), me>>))>>
    BY <1>2 DEF Membership
  <2>2. ~Changing(Notice(<<Role(r, me), arg, Role(r, me), me>>))
    BY TuplesAreSeqs, NoticeChangesNothing
  <2> QED BY <2>1, <2>2, SilentLists DEF All
<1>3. CASE type = "MESSAGE_QUIT_CHANNEL"
  <2>1. Membership(ch, r, c, me, type, arg) = <<All(r, Notice(<<Role(r, me), me, "out", ch>>))>>
    BY <1>3 DEF Membership
  <2>2. ~Changing(Notice(<<Role(r, me), me, "out", ch>>))
    BY TuplesAreSeqs, NoticeChangesNothing
  <2> QED BY <2>1, <2>2, SilentLists DEF All
<1>4. CASE type \in {"ERR_INVITEONLYCHAN", "ERR_BANNEDFROMCHAN"}
  <2>1. Membership(ch, r, c, me, type, arg) = <<One(c, <<"/join", type>>)>>
    BY <1>4 DEF Membership
  <2> QED BY <1>4, <2>1, SilentLists DEF One, Changing
<1> QED BY <1>1, <1>2, <1>3, <1>4

(* The role with which a type of answer lets its client into a channel.       *)
RoleIn(type) == IF type = "MESSAGE_JOIN_CHANNEL" THEN "role:user" ELSE "role:admin"

(* Of all that listen, only c is told something to learn from: line.          *)
Invites(s, c, line) == Hushed(s) /\ Tells(s, c, line) /\ \A e : e # c => Spares(s, e)

LEMMA EnteringMembership ==
    ASSUME NEW ch \in Channel, NEW r \in Room, NEW c, NEW me, NEW arg,
           NEW type \in {"MESSAGE_NEW_JOIN_CHANNEL", "MESSAGE_JOIN_CHANNEL",
                         "MESSAGE_NEW_ADMIN_CHANNEL"}
    PROVE  Invites(Membership(ch, r, c, me, type, arg), c, <<"/join", "SUCCESS", ch, RoleIn(type)>>)
<1> DEFINE line == <<"/join", "SUCCESS", ch, RoleIn(type)>>
           s == Membership(ch, r, c, me, type, arg)
<1>1. Changing(line) /\ line \in Welcomes
  BY DEF Changing, Welcomes, Roles, RoleIn
<1>2. \E t : Silent(t) /\ s = <<One(c, line)>> \o t
  <2>1. CASE type = "MESSAGE_NEW_JOIN_CHANNEL"
    <3> DEFINE b == One(c, <<"/join", "RPL_NAMREPLY", ch, "#", me>>)
    <3>1. s = <<One(c, line), b>>
      BY <2>1 DEF Membership, RoleIn
    <3>2. Silent(<<b>>)
      BY SilentLists DEF One, Changing
    <3> HIDE DEF b, line, s
    <3>3. <<One(c, line), b>> = <<One(c, line)>> \o <<b>>
      OBVIOUS
    <3> QED BY <3>1, <3>2, <3>3
  <2>2. CASE type = "MESSAGE_JOIN_CHANNEL"
    <3> DEFINE b == One(c, <<"/join", "RPL_NAMREPLY", ch>> \o CHANNEL_list_participants(r))
               d == All(r, Notice(<<Role(r, me), me, "in", ch>>))
    <3>1. s = <<One(c, line), b, d>>
      BY <2>2 DEF Membership, RoleIn
    <3>2. ~Changing(b.line)
      <4> DEFINE p == <<"/join", "RPL_NAMREPLY", ch>>
                 q == CHANNEL_list_participants(r)
      <4>1. IsSeq(p) /\ IsSeq(q)
        BY NamesAreSeq, TuplesAreSeqs
      <4>2. DOMAIN p = {1, 2, 3} /\ p[2] = "RPL_NAMREPLY"
        OBVIOUS
      <4>3. b.line = p \o q
        BY DEF One
      <4> HIDE DEF p, q
      <4>4. (p \o q)[2] = "RPL_NAMREPLY"
        BY <4>1, <4>2, LineBegins
      <4> HIDE DEF b
      <4> QED BY <4>3, <4>4 DEF Changing
    <3>3. ~Changing(d.line)
      BY TuplesAreSeqs, NoticeChangesNothing DEF All
    <3>4. Silent(<<b, d>>)
      BY <3>2, <3>3, SilentLists
    <3> HIDE DEF b, d, line, s
    <3>5. <<One(c, line), b, d>> = <<One(c, line)>> \o <<b, d>>
      OBVIOUS
    <3> QED BY <3>1, <3>4, <3>5
  <2>3. CASE type = "MESSAGE_NEW_ADMIN_CHANNEL"
    <3> DEFINE b == All(r, Notice(<<"#", me, "administers">>))
    <3>1. s = <<One(c, line), b>>
      BY <2>3 DEF Membership, RoleIn
    <3>2. Silent(<<b>>)
      BY SilentLists, TuplesAreSeqs, NoticeChangesNothing DEF All
    <3> HIDE DEF b, line, s
    <3>3. <<One(c, line), b>> = <<One(c, line)>> \o <<b>>
      OBVIOUS
    <3> QED BY <3>1, <3>2, <3>3
  <2> QED BY <2>1, <2>2, <2>3
<1> HIDE DEF line
<1>3. PICK t : Silent(t) /\ s = <<One(c, line)>> \o t
  BY <1>2
<1> HIDE DEF s
<1>4. Tells(s, c, line) /\ (\A e : e # c => Spares(s, e)) /\ Hushed(s)
  BY <1>1, <1>3, ToldFirst
<1> QED BY <1>4 DEF s, line, Invites

LEMMA AdministrationIsSilent ==
    ASSUME NEW ch, NEW r, NEW c, NEW keyword \in AdminKeywords \cup {"/mode"}, NEW outcome, NEW arg
    PROVE  Silent(Administration(ch, r, c, keyword, outcome, arg))
<1> DEFINE s == Administration(ch, r, c, keyword, outcome, arg)
<1>1. \A words : IsSeq(words) => ~Changing(All(r, Notice(words)).line)
  BY NoticeChangesNothing DEF All
<1>2. \A a, b : IsSeq(<<a, b>>)
  BY TuplesAreSeqs
<1>3. CASE outcome = "SUCCESS" /\ keyword = "/kick"
  <2>1. s = <<All(r, Notice(<<arg, "banned">>)), One(c, <<"/kick", "SUCCESS", arg>>)>>
    BY <1>3 DEF Administration
  <2>2. ~Changing(One(c, <<"/kick", "SUCCESS", arg>>).line)
    BY DEF One, Changing
  <2> QED BY <1>1, <1>2, <2>1, <2>2, SilentLists
<1>4. CASE outcome = "SUCCESS" /\ keyword = "/mute"
  <2>1. s = <<All(r, Notice(<<arg, "silenced">>)), One(c, <<"/mute", "SUCCESS", arg>>)>>
    BY <1>4 DEF Administration
  <2>2. ~Changing(One(c, <<"/mute", "SUCCESS", arg>>).line)
    BY DEF One, Changing
  <2> QED BY <1>1, <1>2, <2>1, <2>2, SilentLists
<1>5. CASE outcome = "SUCCESS" /\ keyword = "/unmute"
  <2>1. s = <<All(r, Notice(<<arg, "may speak">>)), One(c, <<"/unmute", "SUCCESS", arg>>)>>
    BY <1>5 DEF Administration
  <2>2. ~Changing(One(c, <<"/unmute", "SUCCESS", arg>>).line)
    BY DEF One, Changing
  <2> QED BY <1>1, <1>2, <2>1, <2>2, SilentLists
<1>6. CASE outcome = "SUCCESS" /\ keyword = "/mode"
  <2>1. s = <<One(c, <<"/mode", "SUCCESS">>), All(r, Notice(<<ch, arg>>))>>
    BY <1>6 DEF Administration
  <2>2. ~Changing(One(c, <<"/mode", "SUCCESS">>).line)
    BY DEF One, Changing
  <2> QED BY <1>1, <1>2, <2>1, <2>2, SilentLists
<1>7. CASE \/ outcome = "SUCCESS" /\ keyword = "/whois"
           \/ outcome = "SUCCESS" /\ keyword \in {"/unkick", "/invite"}
           \/ outcome # "SUCCESS"
  <2>1. \/ s = <<One(c, <<"/whois", "SUCCESS", arg, "address">>)>>
        \/ s = <<One(c, <<keyword, "SUCCESS", arg>>)>>
        \/ s = <<One(c, <<keyword, "ERR_NOSUCHNICK", arg>>)>>
        \/ s = <<One(c, <<keyword, "ERR_CHANOPRIVSNEEDED", Unended>>)>>
        \/ s = <<>>
    BY <1>7 DEF Administration
  <2>2. /\ ~Changing(One(c, <<"/whois", "SUCCESS", arg, "address">>).line)
        /\ ~Changing(One(c, <<keyword, "SUCCESS", arg>>).line)
        /\ ~Changing(One(c, <<keyword, "ERR_NOSUCHNICK", arg>>).line)
        /\ ~Changing(One(c, <<keyword, "ERR_CHANOPRIVSNEEDED", Unended>>).line)
    BY DEF One, Changing, AdminKeywords
  <2> QED BY <2>1, <2>2, SilentLists
<1>8. keyword \in {"/kick", "/mute", "/unmute", "/mode", "/whois", "/unkick", "/invite"}
  BY DEF AdminKeywords
<1> QED BY <1>3, <1>4, <1>5, <1>6, <1>7, <1>8

-----------------------------------------------------------------------------
\* The session's invariant.

(* What a client sends, and what one recv of the server makes of it.          *)
Request ==
    {<<k, n>> : k \in AdminKeywords \cup {"/nickname"}, n \in Nick}
      \cup {<<"/nickname", Unnamed>>, <<"/mode", "+i">>, <<"/mode", "-i">>, <<"/ping">>,
            <<"/list">>, <<Scrap>>}
      \cup {<<"/join", ch>> : ch \in Channel}
      \cup {<<"/msg", rank, n, ":", "text">> : rank \in {"#", "@"}, n \in Target}

Received ==
    Request \cup {<<Echo>>} \cup {<<k>> : k \in ServerKeywords}
      \cup {<<k, n>> : k \in AdminKeywords, n \in Nick}
      \cup {<<"/nickname", n>> : n \in Target}
      \cup {<<"/join", ch>> : ch \in Channel \cup {"&"}}

View ==
    [open : BOOLEAN, has_nick : BOOLEAN, nickname : Target,
     has_channel : BOOLEAN, channel : Channel \cup {NULL}, is_admin : BOOLEAN]

SessionTypes ==
    /\ conn \in [Client -> {"new", "served", "leaving", "gone"}]
    /\ nickname \in [Client -> Target]
    /\ channelOf \in [Client -> Channel \cup {NULL}]
    /\ view \in [Client -> View]
    /\ requests \in [Client -> Seq(Request)]
    /\ answers \in [Client -> Seq(Welcomes \cup Namings)]

(* While the server runs, it is in a state that ChatServer reaches.           *)
ServerHolds == fault = "none" => Inv /\ NameInv /\ Together

(* Only who is served has an open session, and a closed one is empty.         *)
Sessions ==
    \A c \in Client :
        /\ view[c].open => conn[c] = "served"
        /\ ~view[c].open => view[c] = Blank /\ answers[c] = <<>>

(* Of the lines a, none is in K, or the last that is in K is at k.            *)
Free(a, K) == \A i \in DOMAIN a : a[i] \notin K

LastAt(a, K, k) == k \in DOMAIN a /\ a[k] \in K /\ \A j \in DOMAIN a : j > k => a[j] \notin K

(* Who has been told a name, or will be, or asks to join, has one; and so has *)
(* who sends a message, whose text may contain a request to join.             *)
NamedByThen ==
    \A c \in Client :
        /\ view[c].has_nick => HasName(c)
        /\ Free(answers[c], Namings) \/ HasName(c)
        /\ \A i \in DOMAIN requests[c] : requests[c][i][1] \in {"/join", "/msg"} => HasName(c)

(* Whoever is in the state v and reads the lines a ends by knowing the name.  *)
NameInSight(a, v, name) ==
    \/ /\ Free(a, Namings)
       /\ v.has_nick <=> name # Unnamed
       /\ v.has_nick => v.nickname = name
    \/ \E k : LastAt(a, Namings, k) /\ a[k] = <<"/nickname", "SUCCESS", name>>

(* The same for the channel and the role in it; who believes to be in a       *)
(* channel and is in none was put out.                                        *)
ChannelInSight(a, v, ch, admin, out) ==
    \/ /\ Free(a, Welcomes)
       /\ ch # NULL => v.has_channel /\ v.channel = ch /\ (v.is_admin <=> admin)
       /\ ch = NULL /\ v.has_channel => out
    \/ \E k :
          /\ LastAt(a, Welcomes, k)
          /\ ch # NULL => a[k][3] = ch /\ (a[k][4] = "role:admin" <=> admin)
          /\ ch = NULL => out

Follows(c) == view[c].open /\ c \notin cut

NamesInSight == \A c \in Client : Follows(c) => NameInSight(answers[c], view[c], nickname[c])

ChannelsInSight ==
    fault = "none" /\ "ghost" \notin damage =>
        \A c \in Client : Follows(c) =>
            ChannelInSight(answers[c], view[c], channelOf[c], Privileged(c), c \in ousted)

-----------------------------------------------------------------------------
\* What the server makes of a line.

LEMMA ReceivedIs ==
    ASSUME NEW line \in Received
    PROVE  /\ IsSeq(line) /\ IsSeq(Tail(line))
           /\ line[1] \in AdminKeywords /\ HasArgument(line) => Argument(line) \in Nick
<1>1. \/ \E a : line = <<a>>
      \/ \E a, b : line = <<a, b>>
      \/ \E a, b, n, d, e : line = <<a, b, n, d, e>>
  BY DEF Received, Request
<1>2. IsSeq(line) /\ IsSeq(Tail(line))
  <2>1. CASE \E a : line = <<a>>
    <3>1. PICK a : line = <<a>>
      BY <2>1
    <3>2. Tail(line) = <<>>
      BY <3>1
    <3> QED BY <3>1, <3>2, TuplesAreSeqs
  <2>2. CASE \E a, b : line = <<a, b>>
    <3>1. PICK a, b : line = <<a, b>>
      BY <2>2
    <3>2. Tail(line) = <<b>>
      BY <3>1
    <3> QED BY <3>1, <3>2, TuplesAreSeqs
  <2>3. CASE \E a, b, n, d, e : line = <<a, b, n, d, e>>
    <3>1. PICK a, b, n, d, e : line = <<a, b, n, d, e>>
      BY <2>3
    <3> DEFINE W == {a, b, n, d, e}
    <3>2. line \in Seq(W) /\ line # <<>>
      BY <3>1
    <3> HIDE DEF W
    <3>3. Tail(line) \in Seq(W)
      BY <3>2
    <3> QED BY <3>2, <3>3 DEF IsSeq
  <2> QED BY <1>1, <2>1, <2>2, <2>3
<1>3. line[1] \in AdminKeywords /\ HasArgument(line) => Argument(line) \in Nick
  BY DEF Received, Request, AdminKeywords, HasArgument, Argument, ServerKeywords, Echo, Scrap
<1> QED BY <1>2, <1>3

(* What a line leaves when it is cut: something that may be sent, and a       *)
(* command only if the line was a message.                                    *)
LEMMA RestIs ==
    ASSUME NEW line, NEW rest \in Rests(line)
    PROVE  /\ rest \in Request
           /\ rest = <<Scrap>> \/ line[1] = "/msg"
<1>1. CASE rest = <<Scrap>>
  BY <1>1 DEF Request
<1>2. CASE rest \in Inputs /\ line[1] = "/msg" /\ rest[1] # "/msg"
  BY <1>2 DEF Inputs, Request
<1> QED BY <1>1, <1>2 DEF Rests

(* Where a line that recv leaves comes from.                                  *)
Remains(q, l) ==
    \/ l = <<Scrap>>
    \/ \E j \in DOMAIN q : l = q[j] \/ q[j][1] = "/msg"

(* One recv leaves lines that were sent, behind what is left of a cut one.    *)
LEMMA ReceptionIs ==
    ASSUME NEW q \in Seq(Request), q # <<>>, NEW got \in Receptions(q)
    PROVE  /\ got.line \in Received
           /\ got.left \in Seq(Request)
           /\ \A i \in DOMAIN got.left : Remains(q, got.left[i])
<1>1. Len(q) \in Nat /\ Len(q) >= 1 /\ DOMAIN q = 1 .. Len(q) /\ Head(q) = q[1] /\ Head(q) \in Request
  BY DEF Request
<1>3. ASSUME NEW k \in 1 .. Len(q)
      PROVE  /\ SubSeq(q, k + 1, Len(q)) \in Seq(Request)
             /\ \A i \in DOMAIN SubSeq(q, k + 1, Len(q)) :
                  \E j \in DOMAIN q : SubSeq(q, k + 1, Len(q))[i] = q[j]
  <2> DEFINE s == SubSeq(q, k + 1, Len(q))
  <2>1. /\ s \in Seq(Request) /\ Len(s) = Len(q) - k
        /\ \A i \in 1 .. Len(q) - k : s[i] = q[k + i]
    BY <1>1, SubSeqProperties
  <2> HIDE DEF s
  <2>2. \A i \in DOMAIN s : k + i \in DOMAIN q /\ s[i] = q[k + i]
    BY <1>1, <2>1
  <2> QED BY <2>1, <2>2 DEF s
<1>4. /\ Tail(q) \in Seq(Request)
      /\ \A i \in DOMAIN Tail(q) : \E j \in DOMAIN q : Tail(q)[i] = q[j]
  <2>1. /\ Tail(q) \in Seq(Request) /\ Len(Tail(q)) = Len(q) - 1
        /\ \A i \in 1 .. Len(q) - 1 : Tail(q)[i] = q[i + 1]
    BY <1>1, HeadTailProperties
  <2>2. \A i \in DOMAIN Tail(q) : i + 1 \in DOMAIN q /\ Tail(q)[i] = q[i + 1]
    BY <1>1, <2>1
  <2> QED BY <2>1, <2>2
<1>5. ASSUME NEW t \in Seq(Request), \A i \in DOMAIN t : \E j \in DOMAIN q : t[i] = q[j],
             NEW k \in DOMAIN q, NEW rest \in Rests(q[k])
      PROVE  /\ <<rest>> \o t \in Seq(Request)
             /\ \A i \in DOMAIN (<<rest>> \o t) : Remains(q, (<<rest>> \o t)[i])
  <2> DEFINE s == <<rest>>
             u == s \o t
  <2>0. rest \in Request /\ Remains(q, rest)
    BY <1>5, RestIs DEF Remains
  <2>1. s \in Seq(Request) /\ Len(s) = 1 /\ s[1] = rest
    BY <2>0
  <2> HIDE DEF s
  <2>2. /\ u \in Seq(Request) /\ Len(u) = 1 + Len(t)
        /\ \A i \in 1 .. 1 + Len(t) : u[i] = IF i <= 1 THEN s[i] ELSE t[i - 1]
    <3>1. /\ u \in Seq(Request) /\ Len(u) = Len(s) + Len(t)
          /\ \A i \in 1 .. Len(s) + Len(t) : u[i] = IF i <= Len(s) THEN s[i] ELSE t[i - Len(s)]
      BY <2>1, ConcatProperties
    <3> HIDE DEF u
    <3> QED BY <2>1, <3>1
  <2> HIDE DEF u
  <2>3. DOMAIN u = 1 .. 1 + Len(t) /\ DOMAIN t = 1 .. Len(t) /\ Len(t) \in Nat
    BY <2>2
  <2>4. ASSUME NEW i \in DOMAIN u  PROVE u[i] = rest \/ (i - 1 \in DOMAIN t /\ u[i] = t[i - 1])
    <3>1. CASE i = 1
      BY <2>1, <2>2, <2>3, <3>1
    <3>2. CASE i # 1
      BY <2>2, <2>3, <3>2
    <3> QED BY <3>1, <3>2
  <2>5. ASSUME NEW i \in DOMAIN u  PROVE Remains(q, u[i])
    <3>1. CASE u[i] = rest
      BY <2>0, <3>1
    <3>2. CASE i - 1 \in DOMAIN t /\ u[i] = t[i - 1]
      BY <1>5, <3>2 DEF Remains
    <3> QED BY <2>4, <3>1, <3>2
  <2> QED BY <2>2, <2>5 DEF s, u
<1>6. Request \subseteq Received /\ (Head(q) # <<Scrap>> => Beginnings(Head(q)) \subseteq Received)
  <2>1. Request \subseteq Received
    BY DEF Received
  <2>2. ASSUME Head(q) # <<Scrap>>, NEW l \in Beginnings(Head(q))  PROVE l \in Received
    <3> DEFINE w == Head(q)[1]
    <3>1. w \in ServerKeywords
      BY <1>1, <2>2 DEF Request, ServerKeywords, AdminKeywords
    <3>2. CASE l \in {<<Echo>>, <<w>>}
      BY <3>1, <3>2 DEF Received
    <3>3. CASE w = "/join" /\ \E short \in Channel \cup {"&"} : l = <<w, short>>
      BY <3>3 DEF Received
    <3>4. CASE w = "/nickname" /\ \E short \in Target : l = <<w, short>>
      BY <3>4 DEF Received
    <3>5. CASE w \in AdminKeywords /\ \E short \in Nick : l = <<w, short>>
      BY <3>5 DEF Received
    <3>6. \/ l \in {<<Echo>>, <<w>>}
          \/ w = "/join" /\ \E short \in Channel \cup {"&"} : l = <<w, short>>
          \/ w = "/nickname" /\ \E short \in Target : l = <<w, short>>
          \/ w \in AdminKeywords /\ \E short \in Nick : l = <<w, short>>
      BY <2>2 DEF Beginnings
    <3> QED BY <3>2, <3>3, <3>4, <3>5, <3>6
  <2> QED BY <2>1, <2>2
<1>7. \/ \E k \in 1 .. Len(q) : got = [line |-> Head(q), left |-> SubSeq(q, k + 1, Len(q))]
      \/ \E k \in 2 .. Len(q) : \E rest \in Rests(q[k]) :
            got = [line |-> Head(q), left |-> <<rest>> \o SubSeq(q, k + 1, Len(q))]
      \/ \E c \in Cuts(Head(q)) : got = [line |-> c[1], left |-> <<c[2]>> \o Tail(q)]
  <2> DEFINE A == {[line |-> Head(q), left |-> SubSeq(q, k + 1, Len(q))] : k \in 1 .. Len(q)}
             F(k) == {[line |-> Head(q), left |-> <<rest>> \o SubSeq(q, k + 1, Len(q))] :
                        rest \in Rests(q[k])}
             U == {F(k) : k \in 2 .. Len(q)}
             C == {[line |-> c[1], left |-> <<c[2]>> \o Tail(q)] : c \in Cuts(Head(q))}
  <2>1. Receptions(q) = A \cup C \cup UNION U
    BY DEF Receptions
  <2>2. got \in UNION U => \E k \in 2 .. Len(q) : got \in F(k)
    <3> HIDE DEF F
    <3> QED OBVIOUS
  <2>3. \A k : got \in F(k) => \E rest \in Rests(q[k]) :
                  got = [line |-> Head(q), left |-> <<rest>> \o SubSeq(q, k + 1, Len(q))]
    BY Zenon
  <2>4. got \in A => \E k \in 1 .. Len(q) : got = [line |-> Head(q), left |-> SubSeq(q, k + 1, Len(q))]
    BY Zenon
  <2>5. got \in C =>
          \E c \in Cuts(Head(q)) : got = [line |-> c[1], left |-> <<c[2]>> \o Tail(q)]
    BY Zenon
  <2>6. got \in A \/ got \in UNION U \/ got \in C
    <3> HIDE DEF A, U, C
    <3> QED BY <2>1
  <2>7. got \in UNION U => \E k \in 2 .. Len(q) : \E rest \in Rests(q[k]) :
          got = [line |-> Head(q), left |-> <<rest>> \o SubSeq(q, k + 1, Len(q))]
    <3> HIDE DEF F, U
    <3> QED BY <2>2, <2>3, Zenon
  <2> HIDE DEF A, F, U, C
  <2> QED BY <2>4, <2>5, <2>6, <2>7, Zenon
<1>8. CASE \E k \in 1 .. Len(q) : got = [line |-> Head(q), left |-> SubSeq(q, k + 1, Len(q))]
  BY <1>1, <1>3, <1>6, <1>8 DEF Remains
<1>9. CASE \E k \in 2 .. Len(q) : \E rest \in Rests(q[k]) :
            got = [line |-> Head(q), left |-> <<rest>> \o SubSeq(q, k + 1, Len(q))]
  <2>1. PICK k \in 2 .. Len(q) : \E rest \in Rests(q[k]) :
            got = [line |-> Head(q), left |-> <<rest>> \o SubSeq(q, k + 1, Len(q))]
    BY <1>9
  <2>2. PICK rest \in Rests(q[k]) :
            got = [line |-> Head(q), left |-> <<rest>> \o SubSeq(q, k + 1, Len(q))]
    BY <2>1
  <2> DEFINE t == SubSeq(q, k + 1, Len(q))
  <2>3. t \in Seq(Request) /\ \A i \in DOMAIN t : \E j \in DOMAIN q : t[i] = q[j]
    BY <1>1, <1>3
  <2>4. got.line = Head(q) /\ got.left = <<rest>> \o t
    BY <2>2
  <2> HIDE DEF t
  <2>5. k \in DOMAIN q /\ rest \in Rests(q[k])
    BY <1>1, <2>1, <2>2
  <2> QED BY <1>1, <1>5, <1>6, <2>3, <2>4, <2>5
<1>10. CASE \E c \in Cuts(Head(q)) : got = [line |-> c[1], left |-> <<c[2]>> \o Tail(q)]
  <2>1. PICK c \in Cuts(Head(q)) : got = [line |-> c[1], left |-> <<c[2]>> \o Tail(q)]
    BY <1>10
  <2>2. Head(q) # <<Scrap>> /\ c[1] \in Beginnings(Head(q)) /\ c[2] \in Rests(q[1]) /\ 1 \in DOMAIN q
    BY <1>1, <2>1 DEF Cuts
  <2>3. got.line = c[1] /\ got.left = <<c[2]>> \o Tail(q)
    BY <2>1
  <2> QED BY <1>4, <1>5, <1>6, <2>2, <2>3
<1> QED BY <1>7, <1>8, <1>9, <1>10

-----------------------------------------------------------------------------
\* What a command does and says.

(* Nobody learns anything, and nobody is put out.                             *)
Quietly == UNCHANGED ousted /\ \E sends : Silent(sends) /\ Say(sends)

(* The commands that are answered so: they move and rename nobody.            *)
Steady(c) ==
    \/ Idle
    \/ Message(c)
    \/ \E public \in BOOLEAN : Mode(c, public)
    \/ \E n \in Nick : Invite(c, n) \/ Unkick(c, n) \/ Mute(c, n) \/ Unmute(c, n)

(* The other three.                                                           *)
Renames(c, n) ==
    /\ Nickname(c, n)
    /\ Say(<<One(c, <<"/nickname", "SUCCESS", n>>)>> \o
           IF channelOf[c] = NULL THEN <<>>
           ELSE Reports(channelOf[c], c, n, "MESSAGE_CHANGE_NICKNAME", nickname[c]))
    /\ UNCHANGED ousted

Enters(c, ch, rs) ==
    /\ channelOf'[c] = ch
    /\ Say(Leaves(c, rs) \o
           Reports(ch, c, nickname[c],
                   IF rs[ch].live THEN "MESSAGE_JOIN_CHANNEL" ELSE "MESSAGE_NEW_JOIN_CHANNEL", ""))
    /\ ousted' = ousted \ {c}

IsRefused(c, ch, rs) ==
    /\ channelOf'[c] = NULL
    /\ \E reason \in Reasons(rs[ch], nickname[c]) :
         Say(Leaves(c, rs) \o Membership(ch, rs[ch], c, nickname[c], reason, ""))
    /\ ousted' = IF channelOf[c] = NULL THEN ousted ELSE ousted \cup {c}

Joins(c, ch) ==
    /\ Join(c, ch)
    /\ \E rs \in AfterLeaving(c) : Enters(c, ch, rs) \/ IsRefused(c, ch, rs)

Kicks(c, n) ==
    /\ Kick(c, n)
    /\ Say(Before(c, "/kick", n) \o Answered(c, "/kick", Outcome, n) \o <<>>)
    /\ ousted' = ousted \cup Named(n)

LEMMA RefusedQuietly ==
    ASSUME NEW sends, Silent(sends), Refuse(sends), NEW c
    PROVE  Quietly /\ Steady(c)
BY DEF Refuse, Quietly, Steady

LEMMA ToldQuietly ==
    ASSUME NEW c, NEW line, ~Changing(line), Refuse(<<One(c, line)>>)
    PROVE  Quietly /\ Steady(c)
<1>1. Silent(<<One(c, line)>>)
  BY SilentLists DEF One
<1> QED BY <1>1, RefusedQuietly

LEMMA PlainWords ==
    /\ \A a, b : b # "SUCCESS" => ~Changing(<<a, b>>)
    /\ \A a, b, d : b # "SUCCESS" => ~Changing(<<a, b, d>>)
    /\ \A text : ~Changing(Servermsg(text))
    /\ \A words : IsSeq(words) => ~Changing(Notice(words))
BY NoticeChangesNothing DEF Changing, Servermsg

LEMMA RunNicknameIs ==
    ASSUME NEW c \in Client, NEW line \in Received, RunNickname(c, line)
    PROVE  \/ Quietly /\ Steady(c)
           \/ \E n \in Nick : Renames(c, n)
<1> DEFINE n == IF HasArgument(line) THEN Argument(line) ELSE Unnamed
           error == <<"/nickname", "ERR_ERRONEUSNICKNAME">>
<1>1. ~Changing(error \o Tail(line))
  <2>1. IsSeq(error) /\ IsSeq(Tail(line)) /\ 2 \in DOMAIN error /\ error[2] = "ERR_ERRONEUSNICKNAME"
    BY ReceivedIs, TuplesAreSeqs
  <2> HIDE DEF error
  <2>2. (error \o Tail(line))[2] = "ERR_ERRONEUSNICKNAME"
    BY <2>1, LineBegins
  <2> QED BY <2>2 DEF Changing
<1>2. ~Changing(<<"/nickname", "ERR_NICKNAMEINUSE", n>>)
  BY PlainWords
<1>3. \/ n \in Nick /\ Renames(c, n)
      \/ Refuse(<<One(c, <<"/nickname", "ERR_NICKNAMEINUSE", n>>)>>)
      \/ Refuse(<<One(c, error \o Tail(line))>>)
  BY DEF RunNickname, Renames
<1> HIDE DEF n, error
<1> QED BY <1>1, <1>2, <1>3, ToldQuietly

LEMMA RunJoinIs ==
    ASSUME NEW c \in Client, NEW line \in Received, RunJoin(c, line)
    PROVE  \/ Quietly /\ Steady(c)
           \/ \E ch \in Channel : Joins(c, ch)
<1>1. /\ ~Changing(<<"/nickname", "ERR_NICKNAMEINUSE", nickname[c]>>)
      /\ ~Changing(<<"/join", "ERR_BADCHANNELKEY", nickname[c]>>)
  BY PlainWords
<1>2. \/ Refuse(<<One(c, <<"/nickname", "ERR_NICKNAMEINUSE", nickname[c]>>)>>)
      \/ Refuse(<<One(c, <<"/join", "ERR_BADCHANNELKEY", nickname[c]>>)>>)
      \/ \E ch \in Channel : Joins(c, ch)
  BY DEF RunJoin, Joins, Enters, IsRefused
<1> QED BY <1>1, <1>2, ToldQuietly

LEMMA FailsQuietly ==
    ASSUME NEW c, NEW keyword \in AdminKeywords \cup {"/mode"}, NEW n, Fails(c, keyword, n),
           UNCHANGED ousted
    PROVE  Quietly /\ Steady(c)
BY AdministrationIsSilent DEF Fails, Answered, Quietly, Steady

LEMMA RunModeIs ==
    ASSUME NEW c \in Client, NEW line, RunMode(c, line)
    PROVE  Quietly /\ Steady(c)
<1> DEFINE mode == decode_mode(line)
<1>1. ~Changing(<<"/mode", "ERR_CHANOPRIVSNEEDED">>) /\ ~Changing(Servermsg("Invalid protocol."))
  BY PlainWords
<1>2. \/ Refuse(<<One(c, <<"/mode", "ERR_CHANOPRIVSNEEDED">>)>>)
      \/ Refuse(<<One(c, Servermsg("Invalid protocol."))>>)
      \/ Mode(c, mode = "INVITE_ONLY_ON") /\ Say(Answered(c, "/mode", "SUCCESS", mode))
           /\ UNCHANGED ousted
      \/ Fails(c, "/mode", mode) /\ UNCHANGED ousted
  BY DEF RunMode
<1>3. Silent(Answered(c, "/mode", "SUCCESS", mode))
  BY AdministrationIsSilent DEF Answered
<1>4. (mode = "INVITE_ONLY_ON") \in BOOLEAN
  OBVIOUS
<1> HIDE DEF mode
<1>5. CASE Mode(c, mode = "INVITE_ONLY_ON") /\ Say(Answered(c, "/mode", "SUCCESS", mode))
           /\ UNCHANGED ousted
  <2>1. \E public \in BOOLEAN : Mode(c, public)
    BY <1>4, <1>5
  <2> QED BY <1>3, <1>5, <2>1 DEF Quietly, Steady
<1> QED BY <1>1, <1>2, <1>5, ToldQuietly, FailsQuietly

LEMMA RunAdminIs ==
    ASSUME NEW c \in Client, NEW line \in Received, line[1] \in AdminKeywords, RunAdmin(c, line)
    PROVE  \/ Quietly /\ Steady(c)
           \/ \E n \in Nick : Kicks(c, n)
<1> DEFINE keyword == line[1]
           n == Argument(line)
           lack == <<IF keyword = "/whois" THEN keyword ELSE Echo, "ERR_NOSUCHNICK">>
<1>1. ~Changing(<<keyword, "ERR_CHANOPRIVSNEEDED">>) /\ ~Changing(lack)
  BY PlainWords
<1>2. HasArgument(line) => n \in Nick
  BY ReceivedIs
<1>3. \/ Refuse(<<One(c, <<keyword, "ERR_CHANOPRIVSNEEDED">>)>>)
      \/ Refuse(<<One(c, lack)>>)
      \/ /\ HasArgument(line)
         /\ Does(c, keyword, n)
         /\ Say(Before(c, keyword, n) \o Answered(c, keyword, Outcome, n) \o After(keyword, n))
         /\ ousted' = IF keyword = "/kick" THEN ousted \cup Named(n) ELSE ousted
      \/ Fails(c, keyword, n) /\ UNCHANGED ousted
  BY DEF RunAdmin
<1> HIDE DEF n, lack
<1>4. ASSUME HasArgument(line), Does(c, keyword, n),
             Say(Before(c, keyword, n) \o Answered(c, keyword, Outcome, n) \o After(keyword, n)),
             ousted' = IF keyword = "/kick" THEN ousted \cup Named(n) ELSE ousted
      PROVE  \/ Quietly /\ Steady(c)
             \/ \E m \in Nick : Kicks(c, m)
  <2>1. CASE keyword = "/kick"
    <3>1. After(keyword, n) = <<>> /\ Kick(c, n)
      BY <1>4, <2>1 DEF After, Does
    <3> QED BY <1>2, <1>4, <2>1, <3>1 DEF Kicks
  <2>2. CASE keyword # "/kick"
    <3>1. Before(c, keyword, n) = <<>> /\ UNCHANGED ousted
      BY <1>4, <2>2 DEF Before
    <3>2. Silent(Before(c, keyword, n)) /\ Silent(Answered(c, keyword, Outcome, n))
      BY <3>1, AdministrationIsSilent, SilentLists DEF Answered
    <3>3. Silent(After(keyword, n))
      <4>1. \A d : Silent(<<One(d, Servermsg("welcome"))>>)
        BY PlainWords, SilentLists DEF One
      <4> QED BY <4>1, SilentLists DEF After
    <3>4. Quietly
      BY <1>4, <3>1, <3>2, <3>3, Together2 DEF Quietly
    <3>5. Steady(c)
      BY <1>2, <1>4, <2>2 DEF Does, Steady, AdminKeywords
    <3> QED BY <3>4, <3>5
  <2> QED BY <2>1, <2>2
<1> QED BY <1>1, <1>3, <1>4, ToldQuietly, FailsQuietly

LEMMA RunMessageIs ==
    ASSUME NEW c \in Client, NEW line, RunMessage(c, line)
    PROVE  Quietly /\ Steady(c)
<1>1. ~Changing(Servermsg("Invalid protocol.")) /\ ~Changing(Notice(<<"silenced">>))
  BY PlainWords, TuplesAreSeqs
<1>2. \/ Refuse(<<One(c, Servermsg("Invalid protocol."))>>)
      \/ Message(c) /\ Say(Reports(channelOf[c], c, nickname[c], "MESSAGE_CLIENT", "text"))
           /\ UNCHANGED ousted
      \/ Refuse(<<One(c, Notice(<<"silenced">>))>>)
  BY DEF RunMessage
<1>3. Silent(Reports(channelOf[c], c, nickname[c], "MESSAGE_CLIENT", "text"))
  BY PlainMembership DEF Reports
<1> QED BY <1>1, <1>2, <1>3, ToldQuietly DEF Quietly, Steady

(* Whatever was received, the server renames its client, lets it in or out of *)
(* a channel, kicks, or leaves everybody where they are.                      *)
LEMMA RunIs ==
    ASSUME NEW c \in Client, NEW line \in Received, clt_run(c, line)
    PROVE  \/ Quietly /\ Steady(c)
           \/ \E n \in Nick : Renames(c, n) \/ Kicks(c, n)
           \/ \E ch \in Channel : Joins(c, ch)
<1>1. \/ RunNickname(c, line) \/ RunJoin(c, line) \/ RunMode(c, line)
      \/ line[1] \in AdminKeywords /\ RunAdmin(c, line)
      \/ RunMessage(c, line)
      \/ Refuse(EnterFirst(c))
      \/ Refuse(<<One(c, Servermsg("pong"))>>)
      \/ Refuse(<<One(c, CHANNEL_list)>>)
      \/ Refuse(<<>>)
  <2>1. detect_action(line) \in AdminKeywords => line[1] \in AdminKeywords
    BY DEF detect_action, AdminKeywords
  <2> QED BY <2>1 DEF clt_run
<1>2. Silent(EnterFirst(c))
  BY PlainWords, SilentLists DEF EnterFirst, One
<1>3. ~Changing(Servermsg("pong")) /\ ~Changing(CHANNEL_list)
  BY PlainWords, TuplesAreSeqs DEF CHANNEL_list
<1>4. Silent(<<>>)
  BY SilentLists
<1> QED BY <1>1, <1>2, <1>3, <1>4, RunNicknameIs, RunJoinIs, RunModeIs, RunAdminIs, RunMessageIs,
           RefusedQuietly, ToldQuietly

(* Every command is a step of ChatServer, or leaves the server as it is.      *)
LEMMA RunIsServerStep ==
    ASSUME NEW c \in Client, NEW line \in Received, clt_run(c, line)
    PROVE  Next \/ Idle
BY RunIs DEF Steady, Renames, Kicks, Joins, Next, Administer, Target

-----------------------------------------------------------------------------
\* Names.

(* A step either names nobody, or gives c a name and tells c alone.           *)
Naming(c, sends) ==
    \/ Hushed(sends) /\ UNCHANGED nickname
    \/ \E n \in Nick :
          /\ nickname' = [nickname EXCEPT ![c] = n]
          /\ IsSeq(sends)
          /\ Tells(sends, c, <<"/nickname", "SUCCESS", n>>)
          /\ \A e \in Client : e # c => Spares(sends, e)

NamesOnly(c) == \E sends : Say(sends) /\ Naming(c, sends)

LEMMA SuccessionHushed ==
    ASSUME NEW ch \in Channel, NEW before, NEW r \in Room
    PROVE  Hushed(Succeeds(ch, before, r))
<1> DEFINE heir == CHOOSE d \in Named(r.admin) : TRUE
<1>1. Hushed(Membership(ch, r, heir, r.admin, "MESSAGE_NEW_ADMIN_CHANNEL", ""))
  BY EnteringMembership DEF Invites
<1>2. Hushed(<<>>)
  BY SilentLists, SilentSpares
<1> QED BY <1>1, <1>2 DEF Succeeds

LEMMA LeavesHushed ==
    ASSUME Inv, NEW c \in Client, Runs(c), NEW rs \in AfterLeaving(c)
    PROVE  Hushed(Leaves(c, rs))
<1> DEFINE ch == channelOf[c]
           farewell == Membership(ch, rs[ch], c, nickname[c], "MESSAGE_QUIT_CHANNEL", "")
<1>1. Hushed(<<>>) /\ Hushed(farewell)
  BY SilentLists, PlainMembership, SilentSpares
<1>2. CASE ch = NULL
  BY <1>1, <1>2 DEF Leaves
<1>3. CASE ch # NULL
  <2>1. ch \in Channel /\ rs[ch] \in Room
    BY <1>3, AfterLeavingIsSound DEF Inv, Scalars, SoundRooms
  <2>2. Hushed(Succeeds(ch, rooms[ch], rs[ch]) \o farewell)
    BY <1>1, <2>1, SuccessionHushed, Together2
  <2>3. Leaves(c, rs) = <<>> \/ Leaves(c, rs) = Succeeds(ch, rooms[ch], rs[ch]) \o farewell
    BY <1>3 DEF Leaves
  <2> QED BY <1>1, <2>2, <2>3
<1> QED BY <1>2, <1>3

LEMMA RenameNames ==
    ASSUME NEW c \in Client, NEW n \in Nick, Renames(c, n)
    PROVE  NamesOnly(c)
<1> DEFINE t == IF channelOf[c] = NULL THEN <<>>
                ELSE Reports(channelOf[c], c, n, "MESSAGE_CHANGE_NICKNAME", nickname[c])
           line == <<"/nickname", "SUCCESS", n>>
           s == <<One(c, line)>> \o t
<1>1. Silent(t)
  BY SilentLists, PlainMembership DEF Reports
<1>2. Changing(line)
  BY DEF Changing
<1>3. Say(s) /\ nickname' = [nickname EXCEPT ![c] = n]
  BY DEF Renames, Nickname
<1> HIDE DEF t, line
<1>4. IsSeq(s) /\ Tells(s, c, line) /\ \A e : e # c => Spares(s, e)
  BY <1>1, <1>2, ToldFirst
<1> QED BY <1>3, <1>4 DEF NamesOnly, Naming, line

LEMMA KickNames ==
    ASSUME Inv, Inv', NEW c \in Client, NEW n \in Nick, Kicks(c, n)
    PROVE  NamesOnly(c)
<1> DEFINE ch == channelOf[c]
           banned == <<One(CHOOSE d \in Named(n) : TRUE, Servermsg("banned"))>>
           first == Before(c, "/kick", n)
           answer == Answered(c, "/kick", Outcome, n)
<1>1. ch \in Channel /\ rooms'[ch] \in Room /\ UNCHANGED nickname
  BY DEF Kicks, Kick, Privileged, Inv, Scalars, SoundRooms
<1>2. Hushed(banned) /\ Hushed(answer) /\ Hushed(<<>>)
  <2>1. Silent(banned)
    BY PlainWords, SilentLists DEF One
  <2>2. Silent(answer)
    BY AdministrationIsSilent DEF Answered, AdminKeywords
  <2> HIDE DEF banned, answer
  <2> QED BY <2>1, <2>2, SilentLists, SilentSpares
<1>3. first = Succeeds(ch, rooms[ch], rooms'[ch]) \o banned
  BY DEF Before
<1>4. Say(first \o answer \o <<>>)
  BY DEF Kicks
<1> HIDE DEF first, answer, banned
<1>5. Hushed(first)
  BY <1>1, <1>2, <1>3, SuccessionHushed, Together2
<1>6. Hushed(first \o answer)
  BY <1>2, <1>5, Together2
<1>7. Hushed(first \o answer \o <<>>)
  BY <1>2, <1>6, Together2
<1> QED BY <1>1, <1>4, <1>7 DEF NamesOnly, Naming

LEMMA JoinNames ==
    ASSUME Inv, Inv', NEW c \in Client, NEW ch \in Channel, Joins(c, ch)
    PROVE  NamesOnly(c)
<1>1. Runs(c) /\ UNCHANGED nickname /\ rooms'[ch] \in Room
  BY DEF Joins, Join, Sends, Inv, SoundRooms
<1>2. PICK rs \in AfterLeaving(c) : Enters(c, ch, rs) \/ IsRefused(c, ch, rs)
  BY DEF Joins
<1>3. Hushed(Leaves(c, rs))
  BY <1>1, LeavesHushed
<1>4. CASE Enters(c, ch, rs)
  <2> DEFINE type == IF rs[ch].live THEN "MESSAGE_JOIN_CHANNEL" ELSE "MESSAGE_NEW_JOIN_CHANNEL"
  <2>1. Hushed(Reports(ch, c, nickname[c], type, ""))
    BY <1>1, EnteringMembership DEF Reports, Invites
  <2>2. Say(Leaves(c, rs) \o Reports(ch, c, nickname[c], type, ""))
    BY <1>4 DEF Enters
  <2> HIDE DEF type
  <2> QED BY <1>1, <1>3, <2>1, <2>2, Together2 DEF NamesOnly, Naming
<1>5. CASE IsRefused(c, ch, rs)
  <2>1. PICK reason \in Reasons(rs[ch], nickname[c]) :
          Say(Leaves(c, rs) \o Membership(ch, rs[ch], c, nickname[c], reason, ""))
    BY <1>5 DEF IsRefused
  <2>2. reason \in {"ERR_BANNEDFROMCHAN", "ERR_INVITEONLYCHAN"}
    BY DEF Reasons
  <2>3. Hushed(Membership(ch, rs[ch], c, nickname[c], reason, ""))
    BY <2>2, PlainMembership, SilentSpares
  <2> QED BY <1>1, <1>3, <2>1, <2>3, Together2 DEF NamesOnly, Naming
<1> QED BY <1>2, <1>4, <1>5

LEMMA QuietNames ==
    ASSUME NEW c \in Client, Quietly, Steady(c)
    PROVE  NamesOnly(c)
<1>1. UNCHANGED nickname
  BY DEF Steady, Idle, Message, Mode, Invite, Unkick, Mute, Unmute
<1> QED BY <1>1, SilentSpares DEF Quietly, NamesOnly, Naming

LEMMA RunNames ==
    ASSUME Inv, Inv', NEW c \in Client, NEW line \in Received, clt_run(c, line)
    PROVE  NamesOnly(c)
BY RunIs, QuietNames, RenameNames, KickNames, JoinNames

LEMMA DepartureNames ==
    ASSUME Inv, Inv', NEW c \in Client, Departs(c)
    PROVE  NamesOnly(c)
<1> DEFINE ch == channelOf[c]
           farewell == Membership(ch, rooms[ch], c, nickname[c], "MESSAGE_QUIT_CHANNEL", "")
           heir == Succeeds(ch, rooms[ch], rooms'[ch])
<1>1. Hushed(<<>>) /\ Hushed(farewell)
  BY SilentLists, PlainMembership, SilentSpares
<1>2. UNCHANGED nickname /\ Say(IF ch = NULL THEN <<>> ELSE farewell \o heir)
  BY DEF Departs, HangUp
<1>3. ch # NULL => Hushed(farewell \o heir)
  <2> SUFFICES ASSUME ch # NULL  PROVE Hushed(farewell \o heir)
    OBVIOUS
  <2>1. ch \in Channel /\ rooms'[ch] \in Room
    BY DEF Inv, Scalars, SoundRooms
  <2> HIDE DEF farewell
  <2> QED BY <1>1, <2>1, SuccessionHushed, Together2
<1> QED BY <1>1, <1>2, <1>3 DEF NamesOnly, Naming

-----------------------------------------------------------------------------
\* What is under way to a client.

(* What l appended to a does to the last line in K.                           *)
AppendedTo(a, l, K) ==
    /\ Free(l, K) /\ Free(a, K) => Free(a \o l, K)
    /\ \A k : Free(l, K) /\ LastAt(a, K, k) => LastAt(a \o l, K, k) /\ (a \o l)[k] = a[k]
    /\ \A x \in K : l = <<x>> => LastAt(a \o l, K, Len(a) + 1) /\ (a \o l)[Len(a) + 1] = x

LEMMA AppendedLines ==
    ASSUME NEW S, NEW a \in Seq(S), NEW l \in Seq(S), NEW K
    PROVE  AppendedTo(a, l, K)
<1> DEFINE u == a \o l
<1>1. /\ u \in Seq(S) /\ Len(u) = Len(a) + Len(l)
      /\ \A i \in 1 .. Len(a) + Len(l) : u[i] = IF i <= Len(a) THEN a[i] ELSE l[i - Len(a)]
  BY ConcatProperties
<1> HIDE DEF u
<1>2. /\ DOMAIN u = 1 .. Len(a) + Len(l) /\ DOMAIN a = 1 .. Len(a) /\ DOMAIN l = 1 .. Len(l)
      /\ Len(a) \in Nat /\ Len(l) \in Nat
  BY <1>1
<1>3. \A i \in DOMAIN a : i \in DOMAIN u /\ u[i] = a[i]
  BY <1>1, <1>2
<1>4. ASSUME NEW i \in DOMAIN u, i \notin DOMAIN a
      PROVE  i - Len(a) \in DOMAIN l /\ u[i] = l[i - Len(a)]
  BY <1>1, <1>2, <1>4
<1>5. ASSUME Free(l, K), Free(a, K)  PROVE Free(u, K)
  BY <1>3, <1>4, <1>5 DEF Free
<1>6. ASSUME Free(l, K), NEW k, LastAt(a, K, k)  PROVE LastAt(u, K, k) /\ u[k] = a[k]
  BY <1>3, <1>4, <1>6 DEF Free, LastAt
<1>7. ASSUME NEW x \in K, l = <<x>>  PROVE LastAt(u, K, Len(a) + 1) /\ u[Len(a) + 1] = x
  <2>1. Len(l) = 1 /\ l[1] = x
    BY <1>7
  <2>2. DOMAIN u = 1 .. Len(a) + 1 /\ u[Len(a) + 1] = x
    BY <1>1, <1>2, <2>1
  <2>3. \A j \in 1 .. Len(a) + 1 : ~(j > Len(a) + 1)
    BY <1>2
  <2> QED BY <1>2, <2>2, <2>3 DEF LastAt
<1> QED BY <1>5, <1>6, <1>7 DEF u, AppendedTo

LEMMA RemainingLines ==
    ASSUME NEW S, NEW a \in Seq(S), a # <<>>, NEW K
    PROVE  /\ Tail(a) \in Seq(S) /\ Head(a) \in S
           /\ Free(a, K) => Free(Tail(a), K) /\ Head(a) \notin K
           /\ \A k : LastAt(a, K, k) =>
                IF k = 1 THEN Free(Tail(a), K) /\ a[k] = Head(a)
                ELSE LastAt(Tail(a), K, k - 1) /\ Tail(a)[k - 1] = a[k]
<1> DEFINE t == Tail(a)
<1>1. /\ t \in Seq(S) /\ Len(t) = Len(a) - 1
      /\ \A i \in 1 .. Len(a) - 1 : t[i] = a[i + 1]
      /\ Head(a) \in S /\ Head(a) = a[1] /\ 1 \in DOMAIN a
  BY HeadTailProperties
<1> HIDE DEF t
<1>2. DOMAIN a = 1 .. Len(a) /\ DOMAIN t = 1 .. Len(a) - 1 /\ Len(a) \in Nat
  BY <1>1
<1>3. \A i \in DOMAIN t : i + 1 \in DOMAIN a /\ t[i] = a[i + 1] /\ i + 1 > 1
  BY <1>1, <1>2
<1>4. ASSUME Free(a, K)  PROVE Free(t, K) /\ Head(a) \notin K
  BY <1>1, <1>3, <1>4 DEF Free
<1>5. ASSUME LastAt(a, K, 1)  PROVE Free(t, K)
  BY <1>3, <1>5 DEF LastAt, Free
<1>6. ASSUME NEW k, LastAt(a, K, k), k # 1  PROVE LastAt(t, K, k - 1) /\ t[k - 1] = a[k]
  <2>1. k \in 1 .. Len(a) /\ k - 1 \in 1 .. Len(a) - 1 /\ (k - 1) + 1 = k
    BY <1>2, <1>6 DEF LastAt
  <2>2. t[k - 1] = a[k] /\ k - 1 \in DOMAIN t
    BY <1>1, <1>2, <2>1
  <2>3. \A j \in DOMAIN t : j > k - 1 => j + 1 \in DOMAIN a /\ t[j] = a[j + 1] /\ j + 1 > k
    BY <1>2, <1>3, <2>1
  <2> QED BY <1>6, <2>2, <2>3 DEF LastAt
<1> QED BY <1>1, <1>4, <1>5, <1>6 DEF t

LEMMA WelcomesAreNotNamings == Welcomes \cap Namings = {}
<1> SUFFICES ASSUME NEW line \in Welcomes, line \in Namings  PROVE FALSE
  OBVIOUS
<1>1. line[1] = "/join"
  BY DEF Welcomes
<1>2. line[1] = "/nickname"
  BY DEF Namings
<1> QED BY <1>1, <1>2

(* What a client makes of the lines that change what it knows.                *)
LEMMA LearnedIs ==
    ASSUME NEW v \in View
    PROVE  /\ \A line \in Namings :
                /\ line[3] \in Nick
                /\ Learned(v, line) = [v EXCEPT !.nickname = line[3], !.has_nick = TRUE]
           /\ \A line \in Welcomes :
                /\ line[3] \in Channel
                /\ Learned(v, line) = [v EXCEPT !.channel = line[3], !.has_channel = TRUE,
                                                !.is_admin = line[4] = "role:admin"]
<1>1. ASSUME NEW line \in Namings
      PROVE  line[3] \in Nick
             /\ Learned(v, line) = [v EXCEPT !.nickname = line[3], !.has_nick = TRUE]
  <2>0. PICK n \in Nick : line = <<"/nickname", "SUCCESS", n>>
    BY DEF Namings
  <2>1. Len(line) = 3 /\ line[1] = "/nickname" /\ line[2] = "SUCCESS" /\ line[3] = n
    BY <2>0
  <2>2. cdc_detectar_act(line) = "/nickname"
    BY <2>1 DEF cdc_detectar_act, ClientKeywords, ServerKeywords
  <2>3. cdc_decode_nickname(line) = "SUCCESS"
    BY <2>1 DEF cdc_decode_nickname, is_valid_nickname, Target, Code
  <2>4. Understood(line) = "SUCCESS"
    BY <2>2, <2>3 DEF Understood, AdminKeywords
  <2> QED BY <2>1, <2>4 DEF Learned
<1>2. ASSUME NEW line \in Welcomes
      PROVE  /\ line[3] \in Channel
             /\ Learned(v, line) = [v EXCEPT !.channel = line[3], !.has_channel = TRUE,
                                             !.is_admin = line[4] = "role:admin"]
  <2>0. PICK ch \in Channel, role \in Roles : line = <<"/join", "SUCCESS", ch, role>>
    BY DEF Welcomes
  <2>1. Len(line) = 4 /\ line[1] = "/join" /\ line[2] = "SUCCESS" /\ line[3] = ch /\ line[4] = role
    BY <2>0
  <2>2. cdc_detectar_act(line) = "/join"
    BY <2>1 DEF cdc_detectar_act, ClientKeywords, ServerKeywords
  <2>3. cdc_decode_join(line) = "SUCCESS"
    BY <2>1 DEF cdc_decode_join
  <2>4. Understood(line) = "SUCCESS"
    BY <2>2, <2>3 DEF Understood, AdminKeywords
  <2> QED BY <2>1, <2>4 DEF Learned
<1> QED BY <1>1, <1>2

LEMMA LearnedView ==
    ASSUME NEW v \in View, NEW line \in Welcomes \cup Namings
    PROVE  /\ Learned(v, line) \in View
           /\ Learned(v, line).open = v.open
           /\ line \in Namings =>
                /\ Learned(v, line).has_nick /\ Learned(v, line).nickname = line[3]
                /\ Learned(v, line).has_channel = v.has_channel
                /\ Learned(v, line).channel = v.channel /\ Learned(v, line).is_admin = v.is_admin
           /\ line \in Welcomes =>
                /\ Learned(v, line).has_channel /\ Learned(v, line).channel = line[3]
                /\ (Learned(v, line).is_admin <=> line[4] = "role:admin")
                /\ Learned(v, line).has_nick = v.has_nick
                /\ Learned(v, line).nickname = v.nickname
<1> DEFINE w == Learned(v, line)
<1>1. CASE line \in Namings
  <2>1. line[3] \in Target /\ w = [v EXCEPT !.nickname = line[3], !.has_nick = TRUE]
    BY <1>1, LearnedIs DEF Target
  <2>2. line \notin Welcomes
    BY <1>1, WelcomesAreNotNamings
  <2> HIDE DEF w
  <2> QED BY <1>1, <2>1, <2>2 DEF View, w
<1>2. CASE line \in Welcomes
  <2>1. /\ line[3] \in Channel
        /\ w = [v EXCEPT !.channel = line[3], !.has_channel = TRUE,
                         !.is_admin = line[4] = "role:admin"]
    BY <1>2, LearnedIs
  <2>2. line \notin Namings
    BY <1>2, WelcomesAreNotNamings
  <2> HIDE DEF w
  <2> QED BY <1>2, <2>1, <2>2 DEF View, w
<1> QED BY <1>1, <1>2

(* Reading a line, or being sent one, a client stays in sight of its name.    *)
LEMMA NameReadOn ==
    ASSUME NEW a \in Seq(Welcomes \cup Namings), a # <<>>, NEW v \in View, NEW name,
           NameInSight(a, v, name)
    PROVE  NameInSight(Tail(a), Learned(v, Head(a)), name)
<1> DEFINE t == Tail(a)
           w == Learned(v, Head(a))
<1>1. /\ Head(a) \in Welcomes \cup Namings
      /\ Free(a, Namings) => Free(t, Namings) /\ Head(a) \notin Namings
      /\ \A k : LastAt(a, Namings, k) =>
           IF k = 1 THEN Free(t, Namings) /\ a[k] = Head(a)
           ELSE LastAt(t, Namings, k - 1) /\ t[k - 1] = a[k]
  BY RemainingLines
<1>2. /\ Head(a) \in Namings => w.has_nick /\ w.nickname = Head(a)[3]
      /\ Head(a) \in Welcomes => w.has_nick = v.has_nick /\ w.nickname = v.nickname
  BY <1>1, LearnedView
<1> HIDE DEF w, t
<1>3. CASE /\ Free(a, Namings)
           /\ v.has_nick <=> name # Unnamed
           /\ v.has_nick => v.nickname = name
  BY <1>1, <1>2, <1>3 DEF NameInSight, w, t
<1>4. CASE \E k : LastAt(a, Namings, k) /\ a[k] = <<"/nickname", "SUCCESS", name>>
  <2>1. PICK k : LastAt(a, Namings, k) /\ a[k] = <<"/nickname", "SUCCESS", name>>
    BY <1>4
  <2>2. CASE k = 1
    <3>1. Head(a) \in Namings /\ Head(a)[3] = name /\ Free(t, Namings)
      BY <1>1, <2>1, <2>2 DEF LastAt
    <3>2. name # Unnamed
      <4>1. PICK n \in Nick : Head(a) = <<"/nickname", "SUCCESS", n>>
        BY <3>1 DEF Namings
      <4>2. Head(a)[3] = n
        BY <4>1
      <4> QED BY <3>1, <4>2, NamesAssumption
    <3> QED BY <1>2, <3>1, <3>2 DEF NameInSight, w, t
  <2>3. CASE k # 1
    BY <1>1, <2>1, <2>3, ZenonT(40) DEF NameInSight, t
  <2> QED BY <2>2, <2>3
<1> QED BY <1>3, <1>4 DEF NameInSight

LEMMA HushedLines ==
    ASSUME NEW sends, Hushed(sends), NEW e
    PROVE  Lines(sends, e) \in Seq(Welcomes)
<1>0. PICK n \in Nat : \E f \in Bijection(1 .. n, Heard(sends, e)) :
         Lines(sends, e) = [k \in 1 .. n |-> sends[f[k]].line]
  BY LinesAre DEF Hushed
<1>1. PICK f \in Bijection(1 .. n, Heard(sends, e)) :
         Lines(sends, e) = [k \in 1 .. n |-> sends[f[k]].line]
  BY <1>0
<1>2. \A k \in 1 .. n : sends[f[k]].line \in Welcomes
  BY DEF Bijection, Injection, Heard, Hushed
<1> QED BY <1>1, <1>2

(* What a step tells e about names.                                           *)
NameTold(e, l) ==
    \/ l \in Seq(Welcomes) /\ nickname'[e] = nickname[e]
    \/ nickname'[e] \in Nick /\ l = <<<<"/nickname", "SUCCESS", nickname'[e]>>>>

LEMMA NamingTells ==
    ASSUME nickname \in [Client -> Target], NEW c \in Client, NEW sends, Naming(c, sends),
           NEW e \in Client
    PROVE  NameTold(e, Lines(sends, e))
<1>1. CASE Hushed(sends) /\ UNCHANGED nickname
  BY <1>1, HushedLines DEF NameTold
<1>2. CASE \E n \in Nick :
              /\ nickname' = [nickname EXCEPT ![c] = n]
              /\ IsSeq(sends)
              /\ Tells(sends, c, <<"/nickname", "SUCCESS", n>>)
              /\ \A d \in Client : d # c => Spares(sends, d)
  <2>1. PICK n \in Nick :
              /\ nickname' = [nickname EXCEPT ![c] = n]
              /\ IsSeq(sends)
              /\ Tells(sends, c, <<"/nickname", "SUCCESS", n>>)
              /\ \A d \in Client : d # c => Spares(sends, d)
    BY <1>2
  <2>2. CASE e = c
    <3>1. Lines(sends, e) = <<<<"/nickname", "SUCCESS", n>>>>
      BY <2>1, <2>2, ToldHearOne
    <3> QED BY <2>1, <2>2, <3>1 DEF NameTold
  <2>3. CASE e # c
    <3>1. Lines(sends, e) = <<>> /\ nickname'[e] = nickname[e]
      BY <2>1, <2>3, SparedHearNothing
    <3> QED BY <3>1 DEF NameTold
  <2> QED BY <2>2, <2>3
<1> QED BY <1>1, <1>2 DEF Naming

LEMMA NameSent ==
    ASSUME NEW e \in Client, nickname \in [Client -> Target], NEW l, NameTold(e, l),
           NEW a \in Seq(Welcomes \cup Namings)
    PROVE  /\ a \o l \in Seq(Welcomes \cup Namings)
           /\ HasName(e) => nickname'[e] # Unnamed
           /\ (Free(a, Namings) \/ HasName(e)) => (Free(a \o l, Namings) \/ nickname'[e] # Unnamed)
           /\ \A v : NameInSight(a, v, nickname[e]) => NameInSight(a \o l, v, nickname'[e])
<1> DEFINE told_ == <<"/nickname", "SUCCESS", nickname'[e]>>
           S == Welcomes \cup Namings
<1>1. ASSUME l \in Seq(Welcomes), nickname'[e] = nickname[e]
      PROVE  /\ l \in Seq(S) /\ Free(l, Namings)
  <2>1. \A i \in DOMAIN l : l[i] \in Welcomes
    BY <1>1
  <2> QED BY <1>1, <2>1, WelcomesAreNotNamings DEF Free
<1>2. ASSUME nickname'[e] \in Nick, l = <<told_>>
      PROVE  l \in Seq(S) /\ told_ \in Namings /\ nickname'[e] # Unnamed
  <2>1. told_ \in Namings /\ nickname'[e] # Unnamed
    BY <1>2, NamesAssumption DEF Namings
  <2> HIDE DEF told_
  <2> QED BY <1>2, <2>1
<1> HIDE DEF S
<1>3. l \in Seq(S) /\ a \in Seq(S)
  BY <1>1, <1>2 DEF NameTold, S
<1>4. AppendedTo(a, l, Namings)
  BY <1>3, AppendedLines
<1>5. a \o l \in Seq(S)
  BY <1>3, ConcatProperties
<1>6. CASE l \in Seq(Welcomes) /\ nickname'[e] = nickname[e]
  BY <1>1, <1>4, <1>5, <1>6 DEF NameInSight, HasName, S, AppendedTo
<1>7. CASE nickname'[e] \in Nick /\ l = <<told_>>
  <2>1. LastAt(a \o l, Namings, Len(a) + 1) /\ (a \o l)[Len(a) + 1] = told_
    BY <1>2, <1>4, <1>7 DEF AppendedTo
  <2> QED BY <1>2, <1>5, <1>7, <2>1 DEF NameInSight, S
<1> QED BY <1>6, <1>7 DEF NameTold

-----------------------------------------------------------------------------
\* The server within the session.

LEMMA NextRuns == Next => fault = "none"
<1>1. ASSUME NEW c \in Client, Administer(c)  PROVE fault = "none"
  BY <1>1 DEF Administer, Mode, Invite, Kick, Unkick, Mute, Unmute, WhoisFindsNobody,
              KickUsesDestroyed, Sends, Runs
<1>2. ASSUME NEW c \in Client,
             \/ Connect(c) \/ Destroy(c) \/ HangUp(c) \/ Message(c)
             \/ \E n \in Nick : Nickname(c, n)
             \/ \E ch \in Channel : Join(c, ch)
             \/ JoinUsesDestroyed(c) \/ HeirIsNull(c) \/ ChannelIsFreed(c)
      PROVE  fault = "none"
  BY <1>2 DEF Connect, Destroy, HangUp, Message, Nickname, Join, JoinUsesDestroyed, HeirIsNull,
              ChannelIsFreed, Sends, Runs
<1> QED BY <1>1, <1>2 DEF Next

LEMMA DeathStops ==
    ASSUME NEW c, NEW line, Dies(c, line)
    PROVE  /\ fault' # "none" /\ UNCHANGED <<conn, nickname, channelOf, rooms, damage>>
           /\ UNCHANGED <<answers, ousted>>
BY DEF Dies, JoinUsesDestroyed, KickUsesDestroyed, Crash

(* What one recv of the server leads to.                                      *)
LEMMA HandleIs ==
    ASSUME SessionTypes, NEW c \in Client, Handle(c)
    PROVE  /\ Runs(c) /\ UNCHANGED <<view, cut>>
           /\ \E line \in Received : clt_run(c, line) \/ Dies(c, line)
           /\ \E left \in Seq(Request) :
                /\ requests' = [requests EXCEPT ![c] = left]
                /\ \A i \in DOMAIN left : Remains(requests[c], left[i])
<1>1. /\ requests[c] \in Seq(Request) /\ requests[c] # <<>>
      /\ Runs(c) /\ UNCHANGED <<view, cut>>
  BY DEF SessionTypes, Handle
<1>2. PICK got \in Receptions(requests[c]) :
         /\ requests' = [requests EXCEPT ![c] = got.left]
         /\ clt_run(c, got.line) \/ Dies(c, got.line)
  BY DEF Handle
<1>3. /\ got.line \in Received
      /\ got.left \in Seq(Request)
      /\ \A i \in DOMAIN got.left : Remains(requests[c], got.left[i])
  BY <1>1, ReceptionIs
<1> QED BY <1>1, <1>2, <1>3

(* For the server every step is one of its own, or none, or its end.          *)
LEMMA ServerSteps ==
    ASSUME SessionTypes, SNext
    PROVE  \/ Next
           \/ fault = "none" /\ Idle
           \/ UNCHANGED vars
           \/ fault' # "none" /\ UNCHANGED <<conn, nickname, channelOf, rooms, damage>>
<1>1. PICK c \in Client :
        \/ Open(c) \/ Type(c) \/ Read(c) \/ ReadCut(c) \/ Close(c)
        \/ Handle(c) \/ Departs(c) \/ Forget(c)
  BY DEF SNext
<1>2. CASE Open(c) \/ Departs(c) \/ Forget(c)
  BY <1>2 DEF Open, Departs, Forget, Next
<1>3. CASE Type(c) \/ Read(c) \/ ReadCut(c) \/ Close(c)
  BY <1>3 DEF Type, Read, ReadCut, Close, vars
<1>4. CASE Handle(c)
  <2>1. PICK line \in Received : clt_run(c, line) \/ Dies(c, line)
    BY <1>4, HandleIs
  <2>2. fault = "none"
    BY <1>4, HandleIs DEF Runs
  <2> QED BY <2>1, <2>2, RunIsServerStep, DeathStops
<1> QED BY <1>1, <1>2, <1>3, <1>4

LEMMA IdleHolds ==
    ASSUME Inv, NameInv, Together, Idle \/ UNCHANGED vars
    PROVE  Inv' /\ NameInv' /\ Together'
<1>1. UNCHANGED <<conn, nickname, channelOf, rooms, damage, fault>> /\ relayed' \subseteq Client \X Client
  BY DEF Idle, Quiet, vars, Inv, Scalars
<1>2. Inv'
  BY <1>1 DEF Inv, Scalars, SoundRooms
<1>3. NameInv'
  BY <1>1 DEF NameInv, UniqueNicknames, NewAreUnnamed, Named
<1>4. Together'
  BY <1>1 DEF Together, Agrees, Members
<1> QED BY <1>2, <1>3, <1>4

(* The process that still runs did before, in a state that ChatServer reaches *)
(* as well; and no ghost is forgotten.                                        *)
LEMMA ServerHoldsNext ==
    ASSUME ServerHolds, SessionTypes, SNext
    PROVE  /\ ServerHolds'
           /\ fault' = "none" => fault = "none"
           /\ damage \subseteq damage'
<1>1. fault' = "none" => fault = "none"
  BY ServerSteps, NextRuns DEF Idle, Quiet, vars
<1>2. ASSUME fault' = "none"  PROVE Inv' /\ NameInv' /\ Together'
  <2>1. fault = "none" /\ Inv /\ NameInv /\ Together
    BY <1>1, <1>2 DEF ServerHolds
  <2>2. CASE Next
    <3>1. Inv' /\ NameInv'
      BY <2>1, <2>2, NextInv, NameInvNext
    <3>2. Together'
      BY <2>1, <2>2, TogetherNext DEF NameInv
    <3> QED BY <3>1, <3>2
  <2>3. CASE Idle \/ UNCHANGED vars
    BY <2>1, <2>3, IdleHolds
  <2> QED BY <1>2, <2>2, <2>3, ServerSteps
<1>3. damage \subseteq damage'
  <2>1. Next => damage \subseteq damage'
    BY DamageStays
  <2> QED BY <2>1, ServerSteps DEF Idle, vars
<1> QED BY <1>1, <1>2, <1>3 DEF ServerHolds

LEMMA ServerTypes ==
    ASSUME ServerHolds, SessionTypes, SNext
    PROVE  /\ conn' \in [Client -> {"new", "served", "leaving", "gone"}]
           /\ nickname' \in [Client -> Target]
           /\ channelOf' \in [Client -> Channel \cup {NULL}]
<1>1. CASE fault' = "none"
  BY <1>1, ServerHoldsNext DEF ServerHolds, Inv, Scalars, Target
<1>2. CASE fault' # "none"
  <2>1. Next => UNCHANGED <<conn, nickname, channelOf>>
    <3>1. ASSUME NEW c \in Client, Administer(c)  PROVE UNCHANGED <<conn, nickname, channelOf>>
      BY <1>2, <3>1 DEF Administer, Mode, Invite, Kick, Unkick, Mute, Unmute, WhoisFindsNobody,
              KickUsesDestroyed, Sends, Runs, Quiet, Crash
    <3>2. ASSUME NEW c \in Client,
             \/ Connect(c) \/ Destroy(c) \/ HangUp(c) \/ Message(c)
             \/ \E n \in Nick : Nickname(c, n)
             \/ \E ch \in Channel : Join(c, ch)
             \/ JoinUsesDestroyed(c) \/ HeirIsNull(c) \/ ChannelIsFreed(c)
          PROVE  UNCHANGED <<conn, nickname, channelOf>>
      BY <1>2, <3>2 DEF Connect, Destroy, HangUp, Message, Nickname, Join, JoinUsesDestroyed,
              HeirIsNull, ChannelIsFreed, Sends, Runs, Quiet, Crash
    <3> QED BY <3>1, <3>2 DEF Next
  <2>2. UNCHANGED <<conn, nickname, channelOf>>
    BY <2>1, ServerSteps DEF Idle, vars
  <2> QED BY <2>2 DEF SessionTypes
<1> QED BY <1>1, <1>2

-----------------------------------------------------------------------------
\* What clients know of their names.

Acquainted == SessionTypes /\ Sessions /\ NamedByThen /\ NamesInSight

(* A step that names one client at most.                                      *)
LEMMA SaidNames ==
    ASSUME Acquainted, NEW c \in Client, NamesOnly(c), UNCHANGED <<view, cut>>
    PROVE  /\ answers' \in [Client -> Seq(Welcomes \cup Namings)]
           /\ \A e \in Client :
                /\ ~view[e].open => answers'[e] = <<>>
                /\ HasName(e) => HasName(e)'
                /\ Free(answers'[e], Namings) \/ HasName(e)'
           /\ NamesInSight'
<1>1. PICK sends : Say(sends) /\ Naming(c, sends)
  BY DEF NamesOnly
<1>2. ASSUME NEW e \in Client
      PROVE  /\ answers'[e] \in Seq(Welcomes \cup Namings)
             /\ ~view[e].open => answers'[e] = <<>>
             /\ HasName(e) => nickname'[e] # Unnamed
             /\ Free(answers'[e], Namings) \/ nickname'[e] # Unnamed
             /\ Follows(e) => NameInSight(answers'[e], view[e], nickname'[e])
  <2> DEFINE l == Lines(sends, e)
             a == answers[e]
  <2>1. NameTold(e, l)
    BY <1>1, NamingTells DEF Acquainted, SessionTypes
  <2>2. a \in Seq(Welcomes \cup Namings) /\ nickname \in [Client -> Target]
    BY DEF Acquainted, SessionTypes
  <2>3. answers'[e] = IF view[e].open THEN a \o l ELSE <<>>
    BY <1>1 DEF Say
  <2> HIDE DEF l
  <2>4. /\ a \o l \in Seq(Welcomes \cup Namings)
        /\ HasName(e) => nickname'[e] # Unnamed
        /\ (Free(a, Namings) \/ HasName(e)) => (Free(a \o l, Namings) \/ nickname'[e] # Unnamed)
        /\ \A v : NameInSight(a, v, nickname[e]) => NameInSight(a \o l, v, nickname'[e])
    BY <2>1, <2>2, NameSent
  <2>5. (Free(a, Namings) \/ HasName(e)) /\ (Follows(e) => NameInSight(a, view[e], nickname[e]))
    BY DEF Acquainted, NamedByThen, NamesInSight
  <2>6. CASE view[e].open
    BY <2>3, <2>4, <2>5, <2>6
  <2>7. CASE ~view[e].open
    <3>1. answers'[e] = <<>> /\ Free(<<>>, Namings) /\ <<>> \in Seq(Welcomes \cup Namings)
      BY <2>3, <2>7 DEF Free
    <3> QED BY <2>4, <2>7, <3>1 DEF Follows
  <2> QED BY <2>6, <2>7
<1>3. answers' = [e \in Client |-> answers'[e]]
  BY <1>1 DEF Say
<1>4. answers' \in [Client -> Seq(Welcomes \cup Namings)]
  BY <1>2, <1>3
<1>5. NamesInSight'
  BY <1>2 DEF NamesInSight, Follows, NameInSight
<1> QED BY <1>2, <1>4, <1>5 DEF HasName

(* Its requests are then those of before, or the rest of them.                *)
LEMMA RequestsLeft ==
    ASSUME Acquainted, NEW c \in Client, NEW left \in Seq(Request),
           requests' = [requests EXCEPT ![c] = left],
           \A i \in DOMAIN left : Remains(requests[c], left[i]),
           \A e \in Client : HasName(e) => HasName(e)'
    PROVE  /\ requests' \in [Client -> Seq(Request)]
           /\ \A e \in Client : \A i \in DOMAIN requests'[e] :
                requests'[e][i][1] \in {"/join", "/msg"} => HasName(e)'
<1>1. requests' \in [Client -> Seq(Request)] /\ requests'[c] = left
      /\ \A e \in Client : e # c => requests'[e] = requests[e]
  BY DEF Acquainted, SessionTypes
<1>2. \A e \in Client : \A i \in DOMAIN requests[e] : requests[e][i][1] \in {"/join", "/msg"} => HasName(e)'
  BY DEF Acquainted, NamedByThen
<1>3. <<Scrap>>[1] \notin {"/join", "/msg"}
  BY DEF Scrap
<1>4. \A i \in DOMAIN left : left[i][1] \in {"/join", "/msg"} => HasName(c)'
  BY <1>2, <1>3 DEF Remains
<1> QED BY <1>1, <1>2, <1>4

LEMMA HandleAcquainted ==
    ASSUME Acquainted, ServerHolds, ServerHolds', NEW c \in Client, Handle(c), SNext
    PROVE  Acquainted'
<1>1. SessionTypes
  BY DEF Acquainted
<1>2. /\ Runs(c) /\ UNCHANGED <<view, cut>> /\ fault = "none" /\ Inv
      /\ conn' \in [Client -> {"new", "served", "leaving", "gone"}]
      /\ nickname' \in [Client -> Target]
      /\ channelOf' \in [Client -> Channel \cup {NULL}]
  BY <1>1, HandleIs, ServerTypes DEF Runs, ServerHolds
<1>3. PICK line \in Received : clt_run(c, line) \/ Dies(c, line)
  BY <1>1, HandleIs
<1>4. PICK left \in Seq(Request) :
         /\ requests' = [requests EXCEPT ![c] = left]
         /\ \A i \in DOMAIN left : Remains(requests[c], left[i])
  BY <1>1, HandleIs
<1>5. UNCHANGED conn
  <2>1. Steady(c) \/ (\E n \in Nick : Renames(c, n) \/ Kicks(c, n)) \/ (\E ch \in Channel : Joins(c, ch))
          => UNCHANGED conn
    BY DEF Steady, Renames, Kicks, Joins, Idle, Message, Mode, Invite, Unkick, Mute, Unmute,
           Nickname, Kick, Join
  <2> QED BY <1>3, <2>1, RunIs, DeathStops
<1>6. /\ answers' \in [Client -> Seq(Welcomes \cup Namings)]
      /\ \A e \in Client :
           /\ ~view[e].open => answers'[e] = <<>>
           /\ HasName(e) => HasName(e)'
           /\ Free(answers'[e], Namings) \/ HasName(e)'
      /\ NamesInSight'
  <2>1. CASE clt_run(c, line)
    <3>1. UNCHANGED fault
      BY <2>1, RunIs DEF Steady, Renames, Kicks, Joins, Idle, Message, Mode, Invite, Unkick, Mute,
         Unmute, Nickname, Kick, Join, Quiet
    <3>2. Inv'
      BY <1>2, <3>1 DEF ServerHolds
    <3> QED BY <1>2, <2>1, <3>2, RunNames, SaidNames
  <2>2. CASE Dies(c, line)
    <3>1. UNCHANGED <<answers, nickname, view, cut>>
      BY <1>2, <2>2, DeathStops
    <3> QED BY <3>1 DEF Acquainted, SessionTypes, Sessions, NamedByThen, NamesInSight, HasName,
                        Follows, NameInSight
  <2> QED BY <1>3, <2>1, <2>2
<1>7. /\ requests' \in [Client -> Seq(Request)]
      /\ \A e \in Client : \A i \in DOMAIN requests'[e] :
           requests'[e][i][1] \in {"/join", "/msg"} => HasName(e)'
  BY <1>4, <1>6, RequestsLeft
<1>8. SessionTypes'
  BY <1>1, <1>2, <1>6, <1>7 DEF SessionTypes
<1>9. Sessions' /\ NamedByThen'
  BY <1>2, <1>5, <1>6, <1>7 DEF Acquainted, Sessions, NamedByThen, Free
<1> QED BY <1>6, <1>8, <1>9 DEF Acquainted

LEMMA DepartureAcquainted ==
    ASSUME Acquainted, ServerHolds, ServerHolds', NEW c \in Client, Departs(c), SNext
    PROVE  Acquainted'
<1>1. /\ fault = "none" /\ fault' = "none" /\ Inv /\ Inv' /\ SessionTypes
      /\ UNCHANGED <<view, cut>> /\ ~view[c].open /\ conn' = [conn EXCEPT ![c] = "leaving"]
      /\ requests' = [requests EXCEPT ![c] = <<>>]
  BY DEF Departs, HangUp, Runs, Quiet, ServerHolds, Acquainted
<1>2. /\ conn' \in [Client -> {"new", "served", "leaving", "gone"}]
      /\ nickname' \in [Client -> Target]
      /\ channelOf' \in [Client -> Channel \cup {NULL}]
  BY <1>1, ServerTypes
<1>3. /\ answers' \in [Client -> Seq(Welcomes \cup Namings)]
      /\ \A e \in Client :
           /\ ~view[e].open => answers'[e] = <<>>
           /\ HasName(e) => HasName(e)'
           /\ Free(answers'[e], Namings) \/ HasName(e)'
      /\ NamesInSight'
  BY <1>1, DepartureNames, SaidNames
<1>4. /\ requests' \in [Client -> Seq(Request)]
      /\ \A e \in Client : \A i \in DOMAIN requests'[e] :
           requests'[e][i][1] \in {"/join", "/msg"} => HasName(e)'
  <2>1. <<>> \in Seq(Request) /\ DOMAIN <<>> = {}
    OBVIOUS
  <2> QED BY <1>1, <1>3, <2>1, RequestsLeft
<1>5. SessionTypes'
  BY <1>1, <1>2, <1>3, <1>4 DEF SessionTypes
<1>6. \A e \in Client : view[e].open => conn'[e] = "served"
  BY <1>1 DEF Acquainted, Sessions, SessionTypes
<1>7. Sessions' /\ NamedByThen'
  BY <1>1, <1>3, <1>4, <1>6 DEF Acquainted, Sessions, NamedByThen, Free
<1> QED BY <1>3, <1>5, <1>7 DEF Acquainted

(* A client of which the server has no name yet opens its session.            *)
LEMMA OpenAcquainted ==
    ASSUME Acquainted, ServerHolds, NEW c \in Client, Open(c), SNext
    PROVE  Acquainted'
<1>1. /\ conn[c] = "new" /\ conn' = [conn EXCEPT ![c] = "served"] /\ NameInv
      /\ view' = [view EXCEPT ![c].open = TRUE] /\ SessionTypes
      /\ UNCHANGED <<nickname, channelOf, requests, answers, cut>>
  BY DEF Open, Connect, Acquainted, ServerHolds
<1>2. /\ conn' \in [Client -> {"new", "served", "leaving", "gone"}]
      /\ nickname' \in [Client -> Target]
      /\ channelOf' \in [Client -> Channel \cup {NULL}]
  BY <1>1, ServerTypes
<1>3. nickname[c] = Unnamed /\ view[c] = Blank /\ answers[c] = <<>>
  BY <1>1 DEF NameInv, NewAreUnnamed, Acquainted, Sessions
<1>4. view'[c] = [Blank EXCEPT !.open = TRUE] /\ \A e \in Client : e # c => view'[e] = view[e]
  BY <1>1, <1>3 DEF SessionTypes
<1>5. view'[c].open /\ ~view'[c].has_nick
  BY <1>4 DEF Blank
<1>6. SessionTypes'
  <2>1. view' \in [Client -> View]
    BY <1>1, <1>3 DEF SessionTypes, View, Blank
  <2> QED BY <1>1, <1>2, <2>1 DEF SessionTypes
<1>7. Sessions'
  BY <1>1, <1>4, <1>5 DEF Acquainted, Sessions, SessionTypes
<1>8. NamedByThen'
  BY <1>1, <1>4, <1>5 DEF Acquainted, NamedByThen, HasName, Free
<1>9. NamesInSight'
  <2> SUFFICES ASSUME NEW e \in Client, Follows(e)'
               PROVE  NameInSight(answers'[e], view'[e], nickname'[e])
    BY DEF NamesInSight, NameInSight
  <2>1. CASE e = c
    <3>1. Free(<<>>, Namings)
      BY DEF Free
    <3> QED BY <1>1, <1>3, <1>5, <2>1, <3>1 DEF NameInSight
  <2>2. CASE e # c
    BY <1>1, <1>4, <2>2 DEF Acquainted, NamesInSight, Follows
  <2> QED BY <2>1, <2>2
<1> QED BY <1>6, <1>7, <1>8, <1>9 DEF Acquainted

(* What a client sends, and that it joins and writes under a name only.           *)
LEMMA EncodedIs ==
    ASSUME NEW v \in View, NEW input \in Inputs, Encoded(v, input) # NoLine, Passes(v, input)
    PROVE  /\ Encoded(v, input) \in Request
           /\ Encoded(v, input)[1] \in {"/join", "/msg"} => v.has_nick
<1>1. CASE input \in {<<k, n>> : k \in AdminKeywords \cup {"/nickname"}, n \in Nick}
  <2>0. PICK k \in AdminKeywords \cup {"/nickname"}, n \in Nick : input = <<k, n>>
    BY <1>1
  <2>1. input[1] = k /\ input[2] = n
    BY <2>0
  <2>2. Encoded(v, input) = <<k, n>>
    BY <2>0, <2>1 DEF Encoded, cdc_encode_nickname, cdc_encode_admin_pattern, AdminKeywords, NoLine
  <2> QED BY <2>0, <2>1, <2>2 DEF Request, AdminKeywords
<1>2. CASE input \in {<<"/nickname", Unnamed>>, <<"/mode", "+i">>, <<"/mode", "-i">>, <<"/ping">>, <<"/list">>}
  <2>1. Encoded(v, input) \in {input, NoLine}
    BY <1>2 DEF Encoded, cdc_encode_nickname, cdc_encode_mode, AdminKeywords
  <2> QED BY <1>2, <2>1 DEF Request
<1>3. CASE input \in {<<"/join", ch>> : ch \in Channel}
  <2>1. Encoded(v, input) \in {input, NoLine} /\ v.has_nick
    BY <1>3 DEF Encoded, cdc_encode_join, AdminKeywords, Passes
  <2> QED BY <1>3, <2>1 DEF Request
<1>4. CASE input = <<"/msg">>
  <2>1. /\ v.nickname \in Target /\ v.has_nick
        /\ Encoded(v, input) = <<"/msg", IF v.is_admin THEN "#" ELSE "@", v.nickname, ":", "text">>
    BY <1>4 DEF Encoded, cdc_encode_client_message, AdminKeywords, View, Passes
  <2> QED BY <2>1 DEF Request
<1> QED BY <1>1, <1>2, <1>3, <1>4 DEF Inputs

LEMMA TypeAcquainted ==
    ASSUME Acquainted, NEW c \in Client, Type(c)
    PROVE  Acquainted'
<1>1. UNCHANGED <<conn, nickname, channelOf, view, answers, cut>> /\ SessionTypes
  BY DEF Type, vars, Acquainted
<1>2. PICK input \in Inputs :
         /\ Passes(view[c], input)
         /\ Encoded(view[c], input) # NoLine
         /\ requests' = [requests EXCEPT ![c] = Append(@, Encoded(view[c], input))]
  BY DEF Type
<1> DEFINE line == Encoded(view[c], input)
           q == requests[c]
<1>3. line \in Request /\ (line[1] \in {"/join", "/msg"} => HasName(c))
  <2>1. view[c] \in View /\ (view[c].has_nick => HasName(c))
    BY DEF Acquainted, SessionTypes, NamedByThen
  <2> QED BY <1>2, <2>1, EncodedIs
<1>4. q \in Seq(Request) /\ requests' = [requests EXCEPT ![c] = Append(q, line)]
  BY <1>1, <1>2 DEF SessionTypes
<1> HIDE DEF line, q
<1>5. /\ Append(q, line) \in Seq(Request)
      /\ \A i \in DOMAIN Append(q, line) :
            Append(q, line)[i] = line \/ (i \in DOMAIN q /\ Append(q, line)[i] = q[i])
  BY <1>3, <1>4, AppendProperties
<1>6. requests' \in [Client -> Seq(Request)]
  BY <1>1, <1>4, <1>5 DEF SessionTypes
<1>7. NamedByThen'
  <2>1. requests'[c] = Append(q, line) /\ \A e \in Client : e # c => requests'[e] = requests[e]
    BY <1>1, <1>4 DEF SessionTypes
  <2>2. \A i \in DOMAIN requests'[c] : requests'[c][i][1] \in {"/join", "/msg"} => HasName(c)
    BY <1>3, <1>5, <2>1 DEF Acquainted, NamedByThen, q
  <2>3. \A e \in Client : \A i \in DOMAIN requests'[e] : requests'[e][i][1] \in {"/join", "/msg"} => HasName(e)
    BY <2>1, <2>2 DEF Acquainted, NamedByThen
  <2> QED BY <1>1, <2>3 DEF Acquainted, NamedByThen, HasName
<1>8. SessionTypes'
  BY <1>1, <1>6 DEF SessionTypes
<1>9. Sessions' /\ NamesInSight'
  BY <1>1 DEF Acquainted, Sessions, NamesInSight, Follows
<1> QED BY <1>7, <1>8, <1>9 DEF Acquainted

(* A client that has read a line, or what it took for one.                    *)
LEMMA HeardAcquainted ==
    ASSUME Acquainted, NEW c \in Client, NEW v \in View,
           view[c].open, v.open, v.has_nick => HasName(c), answers[c] # <<>>,
           view' = [view EXCEPT ![c] = v],
           answers' = [answers EXCEPT ![c] = Tail(answers[c])],
           UNCHANGED <<conn, nickname, channelOf, requests>>,
           cut \subseteq cut',
           c \notin cut' => NameInSight(Tail(answers[c]), v, nickname[c])
    PROVE  Acquainted'
<1>1. SessionTypes
  BY DEF Acquainted
<1>2. /\ Tail(answers[c]) \in Seq(Welcomes \cup Namings)
      /\ Free(answers[c], Namings) => Free(Tail(answers[c]), Namings)
  BY <1>1, RemainingLines DEF SessionTypes
<1>3. /\ view'[c] = v /\ answers'[c] = Tail(answers[c])
      /\ \A e \in Client : e # c => view'[e] = view[e] /\ answers'[e] = answers[e]
  BY <1>1 DEF SessionTypes
<1>4. SessionTypes'
  BY <1>1, <1>2 DEF SessionTypes
<1>5. Sessions'
  BY <1>3 DEF Acquainted, Sessions
<1>6. NamedByThen'
  BY <1>2, <1>3 DEF Acquainted, NamedByThen, HasName
<1>7. NamesInSight'
  <2> SUFFICES ASSUME NEW e \in Client, Follows(e)'
               PROVE  NameInSight(answers'[e], view'[e], nickname'[e])
    BY DEF NamesInSight, NameInSight
  <2>1. CASE e = c
    BY <1>3, <2>1 DEF Follows
  <2>2. CASE e # c
    BY <1>3, <2>2 DEF Acquainted, NamesInSight, Follows
  <2> QED BY <2>1, <2>2
<1> QED BY <1>4, <1>5, <1>6, <1>7 DEF Acquainted

LEMMA ReadAcquainted ==
    ASSUME Acquainted, NEW c \in Client, Read(c)
    PROVE  Acquainted'
<1> DEFINE v == Learned(view[c], Head(answers[c]))
<1>1. /\ view[c].open /\ answers[c] # <<>>
      /\ view' = [view EXCEPT ![c] = v]
      /\ answers' = [answers EXCEPT ![c] = Tail(answers[c])]
      /\ UNCHANGED <<conn, nickname, channelOf, requests, cut>>
  BY DEF Read, vars
<1>2. view[c] \in View /\ answers[c] \in Seq(Welcomes \cup Namings)
  BY DEF Acquainted, SessionTypes
<1>3. Head(answers[c]) \in Welcomes \cup Namings
      /\ (Head(answers[c]) \in Namings => ~Free(answers[c], Namings))
  BY <1>1, <1>2, RemainingLines
<1>4. v \in View /\ v.open /\ (v.has_nick => view[c].has_nick \/ Head(answers[c]) \in Namings)
  BY <1>1, <1>2, <1>3, LearnedView
<1>5. v.has_nick => HasName(c)
  BY <1>3, <1>4 DEF Acquainted, NamedByThen
<1>6. c \notin cut' => NameInSight(Tail(answers[c]), v, nickname[c])
  BY <1>1, <1>2, NameReadOn DEF Acquainted, NamesInSight, Follows
<1> HIDE DEF v
<1> QED BY <1>1, <1>4, <1>5, <1>6, HeardAcquainted

LEMMA ReadCutAcquainted ==
    ASSUME Acquainted, NEW c \in Client, ReadCut(c)
    PROVE  Acquainted'
<1> DEFINE a == answers[c]
<1>1. /\ view[c].open /\ a # <<>>
      /\ answers' = [answers EXCEPT ![c] = Tail(a)]
      /\ cut' = cut \cup {c}
      /\ UNCHANGED <<conn, nickname, channelOf, requests>>
  BY DEF ReadCut, vars
<1>2. view[c] \in View /\ a \in Seq(Welcomes \cup Namings)
  BY DEF Acquainted, SessionTypes
<1>3. Head(a) \in Welcomes \cup Namings /\ (Head(a) \in Namings => ~Free(a, Namings))
  BY <1>1, <1>2, RemainingLines
<1>4. PICK v : /\ view' = [view EXCEPT ![c] = v]
               /\ \/ v = view[c]
                  \/ /\ Head(a)[1] = "/nickname"
                     /\ \E short \in Nick : v = Learned(view[c], [Head(a) EXCEPT ![3] = short])
  BY DEF ReadCut
<1>5. v \in View /\ v.open /\ (v.has_nick => HasName(c))
  <2>1. CASE v = view[c]
    BY <1>1, <1>2, <2>1 DEF Acquainted, NamedByThen
  <2>2. CASE /\ Head(a)[1] = "/nickname"
             /\ \E short \in Nick : v = Learned(view[c], [Head(a) EXCEPT ![3] = short])
    <3>1. PICK short \in Nick : v = Learned(view[c], [Head(a) EXCEPT ![3] = short])
      BY <2>2
    <3>2. Head(a) \in Namings
      BY <1>3, <2>2 DEF Welcomes
    <3>3. [Head(a) EXCEPT ![3] = short] \in Namings
      BY <3>2 DEF Namings
    <3>4. HasName(c)
      BY <1>3, <3>2 DEF Acquainted, NamedByThen
    <3> QED BY <1>1, <1>2, <3>1, <3>3, <3>4, LearnedView
  <2> QED BY <1>4, <2>1, <2>2
<1> QED BY <1>1, <1>4, <1>5, HeardAcquainted

LEMMA CloseAcquainted ==
    ASSUME Acquainted, NEW c \in Client, Close(c)
    PROVE  Acquainted'
<1>1. /\ SessionTypes
      /\ view' = [view EXCEPT ![c] = Blank] /\ answers' = [answers EXCEPT ![c] = <<>>]
      /\ UNCHANGED <<conn, nickname, channelOf, requests, cut>>
  BY DEF Acquainted, Close, vars
<1>2. /\ view'[c] = Blank /\ answers'[c] = <<>> /\ ~view'[c].open /\ ~view'[c].has_nick
      /\ \A e \in Client : e # c => view'[e] = view[e] /\ answers'[e] = answers[e]
  BY <1>1 DEF SessionTypes, Blank
<1>3. SessionTypes'
  <2>1. Blank \in View /\ <<>> \in Seq(Welcomes \cup Namings)
    BY DEF Blank, View, Target
  <2> QED BY <1>1, <2>1 DEF SessionTypes
<1>4. Sessions' /\ NamedByThen' /\ NamesInSight'
  <2>1. Sessions'
    BY <1>1, <1>2 DEF Acquainted, Sessions
  <2>2. NamedByThen'
    BY <1>1, <1>2 DEF Acquainted, NamedByThen, HasName, Free
  <2>3. NamesInSight'
    BY <1>1, <1>2 DEF Acquainted, NamesInSight, Follows
  <2> QED BY <2>1, <2>2, <2>3
<1> QED BY <1>3, <1>4 DEF Acquainted

LEMMA ForgetAcquainted ==
    ASSUME Acquainted, ServerHolds, NEW c \in Client, Forget(c), SNext
    PROVE  Acquainted'
<1>1. /\ SessionTypes /\ conn[c] = "leaving" /\ conn' = [conn EXCEPT ![c] = "gone"]
      /\ UNCHANGED <<nickname, channelOf, view, requests, answers, cut>>
  BY DEF Acquainted, Forget, Destroy
<1>2. SessionTypes'
  BY <1>1, ServerTypes DEF SessionTypes
<1>3. Sessions'
  BY <1>1 DEF Acquainted, Sessions, SessionTypes
<1>4. NamedByThen' /\ NamesInSight'
  BY <1>1 DEF Acquainted, NamedByThen, HasName, NamesInSight, Follows
<1> QED BY <1>2, <1>3, <1>4 DEF Acquainted

(* With every step the clients stay in sight of their names.                  *)
LEMMA AcquaintedNext ==
    ASSUME ServerHolds, Acquainted, [SNext]_<<vars, session>>
    PROVE  ServerHolds' /\ Acquainted'
<1>1. CASE SNext
  <2>1. ServerHolds'
    BY <1>1, ServerHoldsNext DEF Acquainted
  <2>2. PICK c \in Client :
          \/ Open(c) \/ Type(c) \/ Read(c) \/ ReadCut(c) \/ Close(c)
          \/ Handle(c) \/ Departs(c) \/ Forget(c)
    BY <1>1 DEF SNext
  <2>3. CASE Type(c) \/ Read(c) \/ ReadCut(c) \/ Close(c)
    BY <2>1, <2>3, TypeAcquainted, ReadAcquainted, ReadCutAcquainted, CloseAcquainted
  <2>4. CASE Open(c) \/ Handle(c) \/ Departs(c) \/ Forget(c)
    BY <1>1, <2>1, <2>4, OpenAcquainted, HandleAcquainted, DepartureAcquainted, ForgetAcquainted
  <2> QED BY <2>1, <2>2, <2>3, <2>4
<1>2. CASE UNCHANGED <<vars, session>>
  <2>1. UNCHANGED vars /\ UNCHANGED <<view, requests, answers, cut, ousted>>
    BY <1>2 DEF session
  <2>2. UNCHANGED <<conn, nickname, channelOf, fault>>
    BY <2>1 DEF vars
  <2>3. ServerHolds'
    BY <2>1, <2>2, IdleHolds DEF ServerHolds
  <2>4. Acquainted'
    BY <2>1, <2>2 DEF Acquainted, SessionTypes, Sessions, NamedByThen, NamesInSight, HasName, Follows
  <2> QED BY <2>3, <2>4
<1> QED BY <1>1, <1>2

LEMMA AcquaintedFirst == SInit => ServerHolds /\ Acquainted
<1> SUFFICES ASSUME SInit  PROVE ServerHolds /\ Acquainted
  OBVIOUS
<1>1. Init /\ nickname = [c \in Client |-> Unnamed] /\ conn = [c \in Client |-> "new"]
      /\ channelOf = [c \in Client |-> NULL]
  BY DEF SInit, Init
<1>2. ServerHolds
  <2>1. NameInv
    BY <1>1, NamesAssumption DEF NameInv, UniqueNicknames, NewAreUnnamed, Named
  <2> QED BY <1>1, <2>1, InitInv, InitTogether DEF ServerHolds
<1>3. \A c \in Client : view[c] = Blank /\ requests[c] = <<>> /\ answers[c] = <<>>
  BY DEF SInit
<1>4. SessionTypes
  <2>1. Blank \in View
    BY DEF Blank, View, Target
  <2>2. <<>> \in Seq(Request) /\ <<>> \in Seq(Welcomes \cup Namings)
    OBVIOUS
  <2> QED BY <1>1, <2>1, <2>2 DEF SInit, SessionTypes, Target
<1>5. Sessions /\ NamedByThen /\ NamesInSight
  <2>1. ~Blank.open /\ ~Blank.has_nick /\ DOMAIN <<>> = {}
    BY DEF Blank
  <2>2. Sessions /\ NamesInSight
    BY <1>3, <2>1 DEF Sessions, NamesInSight, Follows
  <2>3. NamedByThen
    BY <1>3, <2>1 DEF NamedByThen, Free
  <2> QED BY <2>2, <2>3
<1> QED BY <1>2, <1>4, <1>5 DEF Acquainted

LEMMA AlwaysAcquainted == SSpec => [](ServerHolds /\ Acquainted)
BY AcquaintedFirst, AcquaintedNext, PTL DEF SSpec

(* However many lines a recv drops or cuts, a request to join that is under   *)
(* way comes from a client that the server has named: the client's guard has  *)
(* waited for the answer.                                                     *)
THEOREM NobodyJoinsUnnamed == SSpec => []JoinsAreNamed
<1>1. Acquainted => JoinsAreNamed
  BY DEF Acquainted, NamedByThen, JoinsAreNamed
<1> QED BY <1>1, AlwaysAcquainted, PTL

(* Whoever has read all its answers, and read them whole, knows the name      *)
(* under which the server has it, after any sequence of renames, refusals,    *)
(* dropped and cut lines.                                                     *)
THEOREM NamesAreLearned == SSpec => []NicknameKnown
<1>1. Acquainted => NicknameKnown
  <2> SUFFICES ASSUME Acquainted, NEW c \in Client, CaughtUp(c)
               PROVE  /\ view[c].has_nick <=> nickname[c] # Unnamed
                      /\ view[c].has_nick => view[c].nickname = nickname[c]
    BY DEF NicknameKnown
  <2>1. NameInSight(<<>>, view[c], nickname[c])
    BY DEF Acquainted, NamesInSight, Follows, CaughtUp
  <2>2. \A k : ~LastAt(<<>>, Namings, k)
    BY DEF LastAt
  <2> QED BY <2>1, <2>2 DEF NameInSight
<1> QED BY <1>1, AlwaysAcquainted, PTL

(* A message under way was cut into packets of which none is empty or too     *)
(* long, and which hold the whole text: the theorem above for the lengths     *)
(* that make up to four packets, and every name that the server takes.        *)
THEOREM NoTextIsLost == SSpec => []PacketsWhole
<1>1. PacketsWhole
  BY TextsAreCutWhole DEF PacketsWhole
<1> QED BY <1>1, PTL

(* What fits into a packet fits on the screen of whoever receives it under    *)
(* the name for which it was cut.                                             *)
THEOREM NoTextIsClipped == SSpec => []ShownWhole
<1>1. ShownWhole
  BY PacketsFit DEF ShownWhole
<1> QED BY <1>1, PTL

-----------------------------------------------------------------------------
\* Who leads a channel, and who is told.

Leads(q, e) == q # <<>> /\ Head(q) = e

(* Among the members of a channel, the first in its line is the               *)
(* administrator.                                                             *)
LEMMA PrivilegedLeads ==
    Sane => \A e \in Client :
              Privileged(e) <=> channelOf[e] # NULL /\ Leads(Line[channelOf[e]], e)
<1> SUFFICES ASSUME Sane, NEW e \in Client, channelOf[e] # NULL
             PROVE  rooms[channelOf[e]].admin = nickname[e] <=> Leads(Line[channelOf[e]], e)
  BY DEF Privileged
<1> DEFINE ch == channelOf[e]
           q == Line[ch]
<1>1. ch \in Channel /\ e \in Members(ch)
  BY OwnMember DEF Sane
<1>2. /\ Lined(q, rooms[ch], Members(ch), nickname)
      /\ q \in Seq(Client) /\ ToSet(q) = Members(ch)
      /\ Distinct(Members(ch), nickname) /\ Agrees(rooms[ch], Members(ch), nickname)
      /\ rooms[ch] \in Room /\ Sound(rooms[ch])
  BY <1>1, LineNow, MembersAre DEF Sane, Inv, SoundRooms
<1> HIDE DEF q, ch
<1>3. q # <<>> /\ Head(q) = q[1] /\ 1 \in DOMAIN q
  BY <1>1, <1>2 DEF ToSet
<1>4. rooms[ch].live /\ rooms[ch].admin = rooms[ch].arrived[1]
  BY <1>1, <1>2 DEF Agrees, Sound, Room
<1>5. q[1] \in Members(ch) /\ nickname[q[1]] = rooms[ch].arrived[1]
  BY <1>2, <1>3 DEF Lined
<1>6. rooms[ch].admin = nickname[e] <=> Leads(q, e)
  BY <1>1, <1>2, <1>3, <1>4, <1>5 DEF Leads, Distinct
<1> QED BY <1>6 DEF q, ch

LEMMA PrivilegedLeadsAfter ==
    Sane' => \A e \in Client :
               Privileged(e)' <=> channelOf'[e] # NULL /\ Leads(Line'[channelOf'[e]], e)
<1>1. (Sane => \A e \in Client :
                 Privileged(e) <=> channelOf[e] # NULL /\ Leads(Line[channelOf[e]], e))'
  BY PrivilegedLeads, PTL
<1> QED BY <1>1 DEF Leads

(* e comes to lead the channel that p leaves.                                 *)
Inherits(p, e) ==
    /\ channelOf[p] # NULL
    /\ Leads(Line[channelOf[p]], p)
    /\ Leads(RemoveFirst(Line[channelOf[p]], p), e)

(* Of all that listen only the heir is told something: that it administers    *)
(* the channel that p leaves.                                                 *)
HeirHears(s, p, e) ==
    IF Inherits(p, e) THEN Tells(s, e, <<"/join", "SUCCESS", channelOf[p], "role:admin">>)
    ELSE Spares(s, e)

TellsHeir(s, p) == IsSeq(s) /\ \A e : HeirHears(s, p, e)

(* The channel that p leaves is r then; its heir is told, and nobody else.    *)
LEMMA SuccessionTold ==
    ASSUME Sane, NEW p \in Client, NEW ch \in Channel, ch = channelOf[p],
           NEW r, Sound(r), Agrees(r, Members(ch) \ {p}, nickname),
           Lined(RemoveFirst(Line[ch], p), r, Members(ch) \ {p}, nickname)
    PROVE  Hushed(Succeeds(ch, rooms[ch], r)) /\ TellsHeir(Succeeds(ch, rooms[ch], r), p)
<1> DEFINE q == Line[ch]
           t == RemoveFirst(q, p)
           M == Members(ch) \ {p}
           s == Succeeds(ch, rooms[ch], r)
<1> SUFFICES /\ Hushed(s)
             /\ \A e : IF Inherits(p, e) THEN Tells(s, e, <<"/join", "SUCCESS", ch, "role:admin">>)
                       ELSE Spares(s, e)
  BY DEF TellsHeir, HeirHears, Hushed
<1>1. /\ p \in Members(ch) /\ channelOf[p] # NULL
      /\ Members(ch) \in SUBSET Client /\ Distinct(Members(ch), nickname)
      /\ Agrees(rooms[ch], Members(ch), nickname) /\ Sound(rooms[ch]) /\ rooms[ch] \in Room
      /\ \A d \in Members(ch) : nickname[d] \in Nick /\ d \in Named(nickname[d])
      /\ r \in Room
  BY MembersAre, NamesAssumption DEF Members, Sane, Inv, SoundRooms, Sound
<1>2. /\ Lined(q, rooms[ch], Members(ch), nickname)
      /\ q \in Seq(Client) /\ IsInjective(q) /\ ToSet(q) = Members(ch)
  BY LineNow
<1>3. /\ t \in Seq(Client) /\ ToSet(t) = M
      /\ q # <<>> /\ Head(q) # p => t # <<>> /\ Head(t) = Head(q)
  BY <1>2, RemoveFirstMembers, RemoveFirstIs
<1>4. Hushed(s) /\ IsSeq(<<>>) /\ (\A e : Spares(<<>>, e)) /\ Hushed(<<>>)
  BY <1>1, SuccessionHushed, SilentLists, SilentSpares DEF Hushed
<1>5. Lined(t, r, M, nickname)
  OBVIOUS
<1>6. q # <<>> /\ Head(q) = q[1] /\ 1 \in DOMAIN q
  BY <1>1, <1>2 DEF ToSet
<1>7. rooms[ch].admin = nickname[Head(q)] /\ Head(q) \in Members(ch)
  <2>1. rooms[ch].live /\ rooms[ch].admin = rooms[ch].arrived[1]
    BY <1>1 DEF Agrees, Sound, Room
  <2> QED BY <1>2, <1>6, <2>1 DEF Lined
<1> HIDE DEF t, q, s
<1>8. CASE ~r.live
  <2>1. M = {}
    BY <1>8 DEF Agrees
  <2>2. t = <<>>
    <3>1. t # <<>> => 1 \in DOMAIN t
      BY <1>3
    <3> QED BY <1>3, <2>1, <3>1 DEF ToSet
  <2>3. s = <<>> /\ \A e : ~Inherits(p, e)
    BY <1>8, <2>2 DEF s, Succeeds, Inherits, Leads, t, q
  <2> QED BY <1>4, <2>3 DEF s
<1>9. CASE r.live
  <2> DEFINE h == Head(t)
  <2>1. M # {}
    BY <1>9 DEF Agrees
  <2>2. t # <<>> /\ h = t[1] /\ 1 \in DOMAIN t
    BY <1>3, <2>1 DEF ToSet
  <2>3. h \in M /\ nickname[h] = r.arrived[1]
    BY <1>5, <2>2 DEF Lined
  <2>4. r.admin = nickname[h]
    BY <1>1, <1>9, <2>3 DEF Sound, Room
  <2> HIDE DEF h
  <2>5. r.admin # rooms[ch].admin <=> Head(q) = p
    <3>1. Head(q) = p => h # Head(q)
      BY <2>3
    <3>2. Head(q) # p => h = Head(q)
      BY <1>3, <1>6, <2>2 DEF h
    <3> QED BY <1>1, <1>7, <2>3, <2>4, <3>1, <3>2 DEF Distinct
  <2>6. \A e : Inherits(p, e) <=> Head(q) = p /\ e = h
    BY <1>1, <1>6, <2>2 DEF Inherits, Leads, t, q, h
  <2>7. Named(r.admin) = {h}
    BY <1>1, <2>3, <2>4 DEF Sane, UniqueNicknames
  <2>8. CASE Head(q) = p
    <3>1. s = Membership(ch, r, h, r.admin, "MESSAGE_NEW_ADMIN_CHANNEL", "")
      BY <1>9, <2>5, <2>7, <2>8 DEF s, Succeeds
    <3>2. /\ Tells(s, h, <<"/join", "SUCCESS", ch, "role:admin">>)
          /\ \A e : e # h => Spares(s, e)
      <4>1. RoleIn("MESSAGE_NEW_ADMIN_CHANNEL") = "role:admin"
        BY DEF RoleIn
      <4>2. ch \in Channel /\ r \in Room
        BY <1>1
      <4>3. Invites(Membership(ch, r, h, r.admin, "MESSAGE_NEW_ADMIN_CHANNEL", ""), h,
                    <<"/join", "SUCCESS", ch, RoleIn("MESSAGE_NEW_ADMIN_CHANNEL")>>)
        BY <4>2, EnteringMembership
      <4> QED BY <3>1, <4>1, <4>3 DEF Invites
    <3> QED BY <1>4, <2>6, <2>8, <3>2 DEF s
  <2>9. CASE Head(q) # p
    <3>1. s = <<>>
      BY <2>5, <2>9 DEF s, Succeeds
    <3> QED BY <1>4, <2>6, <2>9, <3>1 DEF s
  <2> QED BY <2>8, <2>9
<1> QED BY <1>8, <1>9

-----------------------------------------------------------------------------
\* Places in the lines.

LEMMA LeadsAfter ==
    ASSUME NEW q \in Seq(Client), IsInjective(q), NEW p, NEW e \in ToSet(q), e # p,
           NEW l, l = RemoveFirst(q, p) \/ l = Append(RemoveFirst(q, p), p)
    PROVE  /\ Leads(l, e) <=> Leads(RemoveFirst(q, p), e)
           /\ ~Leads(q, p) => (Leads(RemoveFirst(q, p), e) <=> Leads(q, e))
<1> DEFINE t == RemoveFirst(q, p)
<1>1. t \in Seq(Client) /\ ToSet(t) = ToSet(q) \ {p}
  BY RemoveFirstMembers
<1>2. q # <<>> /\ Head(q) # p => t # <<>> /\ Head(t) = Head(q)
  BY RemoveFirstIs
<1> HIDE DEF t
<1>3. t # <<>> /\ q # <<>>
  BY <1>1 DEF ToSet
<1>4. Append(t, p) # <<>> /\ Head(Append(t, p)) = Head(t)
  BY <1>1, <1>3
<1> QED BY <1>2, <1>3, <1>4 DEF Leads, t

(* Who stays while p parts, or parts and enters somewhere, keeps its place,   *)
(* but for the heir.                                                          *)
LEMMA PlacesAfter ==
    ASSUME Sane, Sane', NEW p \in Client,
           Line' = Parting(p) \/ \E to \in Channel : Line' = Entering(p, to),
           NEW e \in Client, e # p, channelOf'[e] = channelOf[e]
    PROVE  IF Inherits(p, e) THEN channelOf'[e] = channelOf[p] /\ Privileged(e)'
           ELSE Privileged(e)' <=> Privileged(e)
<1> DEFINE ch == channelOf[e]
           q == Line[ch]
           t == RemoveFirst(q, p)
<1>1. /\ Privileged(e) <=> ch # NULL /\ Leads(q, e)
      /\ Privileged(e)' <=> ch # NULL /\ Leads(Line'[ch], e)
  BY PrivilegedLeads, PrivilegedLeadsAfter
<1>2. Inherits(p, e) => ch # NULL /\ ch = channelOf[p]
  <2> SUFFICES ASSUME Inherits(p, e)  PROVE ch # NULL /\ ch = channelOf[p]
    OBVIOUS
  <2> DEFINE s == RemoveFirst(Line[channelOf[p]], p)
  <2>1. channelOf[p] # NULL /\ channelOf[p] \in Channel /\ s # <<>> /\ Head(s) = e
    BY OwnMember DEF Inherits, Leads, Sane
  <2>2. s \in Seq(Client) /\ ToSet(s) = Members(channelOf[p]) \ {p}
    BY <2>1, LineNow, RemoveFirstMembers
  <2> HIDE DEF s
  <2>3. e \in Members(channelOf[p])
    BY <2>1, <2>2 DEF ToSet
  <2> QED BY <2>1, <2>3 DEF Members
<1>3. CASE ch = NULL
  BY <1>1, <1>2, <1>3
<1>4. CASE ch # NULL
  <2>1. ch \in Channel /\ e \in Members(ch)
    BY <1>4, OwnMember DEF Sane
  <2>2. q \in Seq(Client) /\ IsInjective(q) /\ ToSet(q) = Members(ch)
    BY <2>1, LineNow
  <2>3. Line'[ch] = t \/ Line'[ch] = Append(t, p)
    BY <2>1 DEF Parting, Entering
  <2>4. /\ Leads(Line'[ch], e) <=> Leads(t, e)
        /\ ~Leads(q, p) => (Leads(t, e) <=> Leads(q, e))
    <3> DEFINE l == Line'[ch]
    <3>1. l = RemoveFirst(q, p) \/ l = Append(RemoveFirst(q, p), p)
      BY <2>3
    <3> HIDE DEF l, q
    <3>2. /\ Leads(l, e) <=> Leads(RemoveFirst(q, p), e)
          /\ ~Leads(q, p) => (Leads(RemoveFirst(q, p), e) <=> Leads(q, e))
      BY <2>1, <2>2, <3>1, LeadsAfter
    <3> QED BY <3>2 DEF l
  <2>5. Leads(q, p) => channelOf[p] = ch /\ ~Leads(q, e)
    <3> SUFFICES ASSUME Leads(q, p)  PROVE channelOf[p] = ch /\ ~Leads(q, e)
      OBVIOUS
    <3>1. q # <<>> /\ Head(q) = p
      BY DEF Leads
    <3>2. p \in ToSet(q)
      BY <2>2, <3>1 DEF ToSet
    <3> QED BY <2>2, <3>1, <3>2 DEF Members, Leads
  <2>6. Inherits(p, e) <=> Leads(q, p) /\ Leads(t, e)
    BY <1>2, <1>4, <2>5 DEF Inherits
  <2> HIDE DEF ch, q, t
  <2> QED BY <1>1, <1>2, <1>4, <2>4, <2>5, <2>6 DEF ch
<1> QED BY <1>3, <1>4

(* One who inherits is not the one who leaves.                                *)
LEMMA NobodyInheritsFromItself ==
    ASSUME Sane, NEW p \in Client
    PROVE  ~Inherits(p, p)
<1> SUFFICES ASSUME Inherits(p, p)  PROVE FALSE
  OBVIOUS
<1> DEFINE t == RemoveFirst(Line[channelOf[p]], p)
<1>1. channelOf[p] # NULL /\ channelOf[p] \in Channel /\ t # <<>> /\ Head(t) = p
  BY OwnMember DEF Inherits, Leads, Sane
<1>2. t \in Seq(Client) /\ ToSet(t) = Members(channelOf[p]) \ {p}
  BY <1>1, LineNow, RemoveFirstMembers
<1> HIDE DEF t
<1>3. 1 \in DOMAIN t /\ t[1] = p
  BY <1>1, <1>2
<1>4. p \in ToSet(t)
  BY <1>3 DEF ToSet
<1> QED BY <1>2, <1>4

(* Nothing else that is said with it matters to what anybody learns.          *)
LEMMA HeirAmongOthers ==
    ASSUME NEW p, NEW s, TellsHeir(s, p), NEW t, Silent(t)
    PROVE  TellsHeir(s \o t, p) /\ TellsHeir(t \o s, p)
<1>1. IsSeq(s) /\ IsSeq(t) /\ IsSeq(s \o t) /\ IsSeq(t \o s) /\ \A e : Spares(t, e)
  BY SilentSpares, HeardTogether DEF TellsHeir, Silent
<1>2. ASSUME NEW e  PROVE HeirHears(s \o t, p, e) /\ HeirHears(t \o s, p, e)
  <2>1. HeirHears(s, p, e) /\ Spares(t, e)
    BY <1>1 DEF TellsHeir
  <2>2. CASE Inherits(p, e)
    BY <1>1, <2>1, <2>2, TellsTogether DEF HeirHears
  <2>3. CASE ~Inherits(p, e)
    BY <1>1, <2>1, <2>3, SparesTogether DEF HeirHears
  <2> QED BY <2>2, <2>3
<1> QED BY <1>1, <1>2 DEF TellsHeir

LEMMA NoHeirToTell ==
    ASSUME NEW p, NEW s, Silent(s), \A e : ~Inherits(p, e)
    PROVE  TellsHeir(s, p)
BY SilentSpares DEF TellsHeir, HeirHears, Silent

(* What is said when c leaves for another channel.                            *)
LEMMA LeavesTold ==
    ASSUME Sane, NEW c \in Client, Runs(c), NEW rs \in AfterLeaving(c)
    PROVE  TellsHeir(Leaves(c, rs), c)
<1> DEFINE ch == channelOf[c]
           s == Succeeds(ch, rooms[ch], rs[ch])
           farewell == Membership(ch, rs[ch], c, nickname[c], "MESSAGE_QUIT_CHANNEL", "")
<1>1. Silent(farewell) /\ Silent(<<>>)
  BY PlainMembership, SilentLists
<1>2. CASE ch = NULL
  <2>1. Leaves(c, rs) = <<>> /\ \A e : ~Inherits(c, e)
    BY <1>2 DEF Leaves, Inherits
  <2> QED BY <1>1, <2>1, NoHeirToTell
<1>3. CASE ch # NULL
  <2>1. ch \in Channel
    BY <1>3, OwnMember DEF Sane
  <2>2. /\ Lined(RemoveFirst(Line[ch], c), rs[ch], Members(ch) \ {c}, nickname)
        /\ Agrees(rs[ch], Members(ch) \ {c}, nickname)
        /\ Sound(rs[ch])
    BY <2>1, LeavingLines, AfterLeavingAgrees, AfterLeavingIsSound DEF SoundRooms, Sane
  <2> DEFINE r == rs[ch]
  <2>3. TellsHeir(s, c)
    <3> HIDE DEF r
    <3>1. TellsHeir(Succeeds(ch, rooms[ch], r), c)
      <4> HIDE DEF ch
      <4> QED BY <2>1, <2>2, SuccessionTold DEF r, ch
    <3> QED BY <3>1 DEF r
  <2>4. /\ ~rs[ch].live => Leaves(c, rs) = <<>> /\ s = <<>>
        /\ rs[ch].live => Leaves(c, rs) = s \o farewell
    BY <1>3 DEF Leaves, Succeeds
  <2> HIDE DEF s, farewell
  <2> QED BY <1>1, <2>3, <2>4, HeirAmongOthers
<1> QED BY <1>2, <1>3

LEMMA LineNowAfter ==
    Sane' => \A ch \in Channel : Lined(Line'[ch], rooms'[ch], Members(ch)', nickname')
<1>1. Sane => \A ch \in Channel : Lined(Line[ch], rooms[ch], Members(ch), nickname)
  BY LineNow
<1>2. (Sane => \A ch \in Channel : Lined(Line[ch], rooms[ch], Members(ch), nickname))'
  BY <1>1, PTL
<1> QED BY <1>2 DEF Lined

(* What is said when p leaves and the channel becomes what it is after the    *)
(* step.                                                                      *)
LEMMA DepartedTold ==
    ASSUME Sane, Sane', NEW p \in Client, NEW ch \in Channel, ch = channelOf[p],
           Line' = Parting(p), Members(ch)' = Members(ch) \ {p}, UNCHANGED nickname
    PROVE  TellsHeir(Succeeds(ch, rooms[ch], rooms'[ch]), p)
<1>1. Line'[ch] = RemoveFirst(Line[ch], p)
  BY DEF Parting
<1>2. /\ Lined(RemoveFirst(Line[ch], p), rooms'[ch], Members(ch) \ {p}, nickname)
      /\ Agrees(rooms'[ch], Members(ch) \ {p}, nickname)
      /\ Sound(rooms'[ch])
  BY <1>1, LineNowAfter, MembersDifferAfter DEF Sane, Inv, SoundRooms
<1> QED BY <1>2, SuccessionTold

-----------------------------------------------------------------------------
\* What a step tells of places.

(* Somebody hears l in a step that leaves it where it is, puts it out of its  *)
(* channel, or lets it in somewhere, as a user or as the administrator.       *)
Stays(e, l) ==
    /\ l \in Seq(Namings)
    /\ channelOf'[e] = channelOf[e] /\ (Privileged(e)' <=> Privileged(e))
    /\ e \in ousted => e \in ousted'

IsPutOut(e, l) == l \in Seq(Namings) /\ channelOf'[e] = NULL /\ e \in ousted'

IsWelcomed(e, l) ==
    \E role \in Roles :
        /\ channelOf'[e] \in Channel
        /\ l = <<<<"/join", "SUCCESS", channelOf'[e], role>>>>
        /\ role = "role:admin" <=> Privileged(e)'

PlaceTold(e, l) == Stays(e, l) \/ IsPutOut(e, l) \/ IsWelcomed(e, l)

TellsPlace(e) == \E sends : Say(sends) /\ PlaceTold(e, Lines(sends, e))

LEMMA NothingIsNaming == <<>> \in Seq(Namings) /\ \A x \in Namings : <<x>> \in Seq(Namings)
OBVIOUS

(* Where the lines stand still.                                               *)
LEMMA StandStill ==
    ASSUME Sane, Sane', Line' = Line, UNCHANGED channelOf, NEW e \in Client
    PROVE  Privileged(e)' <=> Privileged(e)
BY PrivilegedLeads, PrivilegedLeadsAfter

LEMMA SteadyLines ==
    ASSUME Sane, Sane', NEW c \in Client, Steady(c)
    PROVE  Line' = Line /\ UNCHANGED channelOf
<1>1. CASE Idle
  BY <1>1, SameLines DEF Idle
<1>2. CASE Message(c)
  BY <1>2, UntouchedLines DEF Message
<1>3. CASE \E public \in BOOLEAN : Mode(c, public)
  BY <1>3, ModeLines DEF Mode
<1>4. CASE \E n \in Nick : Invite(c, n) \/ Unkick(c, n) \/ Mute(c, n) \/ Unmute(c, n)
  <2>1. PICK n \in Target : Invite(c, n) \/ Unkick(c, n) \/ Mute(c, n) \/ Unmute(c, n)
    BY <1>4 DEF Target
  <2>2. UNCHANGED channelOf
    BY <2>1 DEF Invite, Unkick, Mute, Unmute
  <2> QED BY <2>1, <2>2, InviteLines, ListsLines
<1> QED BY <1>1, <1>2, <1>3, <1>4 DEF Steady

LEMMA QuietPlaces ==
    ASSUME Sane, Sane', NEW c \in Client, Quietly, Steady(c), NEW e \in Client
    PROVE  TellsPlace(e)
<1>1. Line' = Line /\ UNCHANGED channelOf /\ (Privileged(e)' <=> Privileged(e))
  BY SteadyLines, StandStill
<1>2. PICK sends : Silent(sends) /\ Say(sends)
  BY DEF Quietly
<1>3. Lines(sends, e) = <<>>
  BY <1>2, SilentSpares, SparedHearNothing DEF Silent
<1>4. UNCHANGED ousted
  BY DEF Quietly
<1> QED BY <1>1, <1>2, <1>3, <1>4, NothingIsNaming DEF TellsPlace, PlaceTold, Stays

LEMMA RenamePlaces ==
    ASSUME Sane, Sane', NEW c \in Client, NEW n \in Nick, Renames(c, n), NEW e \in Client
    PROVE  TellsPlace(e)
<1> DEFINE t == IF channelOf[c] = NULL THEN <<>>
                ELSE Reports(channelOf[c], c, n, "MESSAGE_CHANGE_NICKNAME", nickname[c])
           line == <<"/nickname", "SUCCESS", n>>
           s == <<One(c, line)>> \o t
<1>1. Silent(t)
  BY SilentLists, PlainMembership DEF Reports
<1>2. Changing(line) /\ line \in Namings
  BY DEF Changing, Namings
<1>3. Say(s) /\ Nickname(c, n) /\ UNCHANGED ousted
  BY DEF Renames
<1>4. Line' = Line /\ UNCHANGED channelOf
  BY <1>3, NicknameLines DEF Nickname
<1>5. Privileged(e)' <=> Privileged(e)
  BY <1>4, StandStill
<1> HIDE DEF t, line
<1>6. IsSeq(s) /\ Tells(s, c, line) /\ \A d : d # c => Spares(s, d)
  BY <1>1, <1>2, ToldFirst
<1>7. Lines(s, e) \in Seq(Namings)
  <2> HIDE DEF s
  <2>1. CASE e = c
    <3>1. Lines(s, e) = <<line>>
      BY <1>6, <2>1, ToldHearOne
    <3>2. <<line>> \in Seq(Namings)
      BY <1>2, NothingIsNaming
    <3> QED BY <3>1, <3>2
  <2>2. CASE e # c
    BY <1>6, <2>2, SparedHearNothing, NothingIsNaming
  <2> QED BY <2>1, <2>2
<1> HIDE DEF s
<1> QED BY <1>3, <1>4, <1>5, <1>7 DEF TellsPlace, PlaceTold, Stays

(* Those who stay where somebody left.                                        *)
LEMMA StayersTold ==
    ASSUME Sane, Sane', NEW p \in Client,
           Line' = Parting(p) \/ \E to \in Channel : Line' = Entering(p, to),
           NEW e \in Client, e # p, channelOf'[e] = channelOf[e], e \in ousted => e \in ousted',
           NEW s, IsSeq(s), HeirHears(s, p, e)
    PROVE  PlaceTold(e, Lines(s, e))
<1>1. IF Inherits(p, e) THEN channelOf'[e] = channelOf[p] /\ Privileged(e)'
      ELSE Privileged(e)' <=> Privileged(e)
  BY PlacesAfter
<1>2. CASE Inherits(p, e)
  <2> DEFINE ch == channelOf[p]
  <2>1. Lines(s, e) = <<<<"/join", "SUCCESS", ch, "role:admin">>>>
    BY <1>2, ToldHearOne DEF HeirHears
  <2>2. ch \in Channel /\ "role:admin" \in Roles
    BY <1>2, OwnMember DEF Inherits, Roles, Sane
  <2> QED BY <1>1, <1>2, <2>1, <2>2 DEF PlaceTold, IsWelcomed
<1>3. CASE ~Inherits(p, e)
  <2>1. Lines(s, e) = <<>>
    BY <1>3, SparedHearNothing DEF HeirHears
  <2> QED BY <1>1, <1>3, <2>1, NothingIsNaming DEF PlaceTold, Stays
<1> QED BY <1>2, <1>3

LEMMA KickPlaces ==
    ASSUME Sane, Sane', NEW c \in Client, NEW n \in Nick, Kicks(c, n), NEW e \in Client
    PROVE  TellsPlace(e)
<1>0. PICK ch \in Channel : ch = channelOf[c]
  BY OwnMember DEF Kicks, Kick, Privileged, Sane
<1> DEFINE banned == <<One(CHOOSE d \in Named(n) : TRUE, Servermsg("banned"))>>
           heir == Succeeds(ch, rooms[ch], rooms'[ch])
           first == Before(c, "/kick", n)
           answer == Answered(c, "/kick", Outcome, n)
           s == first \o answer \o <<>>
<1>1. Kick(c, n) /\ UNCHANGED nickname /\ Say(s) /\ ousted' = ousted \cup Named(n)
  BY DEF Kicks, Kick
<1>2. PICK p \in Client : /\ p \in Members(ch) /\ Named(n) = {p} /\ Line' = Parting(p)
                          /\ channelOf' = [channelOf EXCEPT ![p] = NULL] /\ channelOf'[p] = NULL
  <2>1. n \in Target
    BY DEF Target
  <2> QED BY <1>0, <1>1, <2>1, KickLines
<1>3. channelOf[p] = ch /\ Members(ch)' = Members(ch) \ {p}
  BY <1>0, <1>2, NamesAssumption DEF Members, Sane, Inv, Scalars
<1>4. TellsHeir(heir, p)
  BY <1>1, <1>2, <1>3, DepartedTold
<1>5. Silent(banned) /\ Silent(answer) /\ Silent(<<>>)
  <2>1. Silent(banned)
    BY PlainWords, SilentLists DEF One
  <2>2. Silent(answer)
    BY AdministrationIsSilent DEF Answered, AdminKeywords
  <2> HIDE DEF banned, answer
  <2> QED BY <2>1, <2>2, SilentLists
<1>6. first = heir \o banned
  BY <1>0 DEF Before
<1> HIDE DEF heir, first, answer, banned
<1>7. TellsHeir(first, p)
  BY <1>4, <1>5, <1>6, HeirAmongOthers
<1>8. TellsHeir(first \o answer, p)
  BY <1>5, <1>7, HeirAmongOthers
<1>9. TellsHeir(s, p)
  BY <1>5, <1>8, HeirAmongOthers
<1> HIDE DEF s
<1>10. CASE e = p
  <2>1. Lines(s, e) = <<>>
    BY <1>9, <1>10, NobodyInheritsFromItself, SparedHearNothing DEF TellsHeir, HeirHears
  <2>2. e \in ousted' /\ channelOf'[e] = NULL
    BY <1>1, <1>2, <1>10
  <2> QED BY <1>1, <2>1, <2>2, NothingIsNaming DEF TellsPlace, PlaceTold, IsPutOut
<1>11. CASE e # p
  <2>1. channelOf'[e] = channelOf[e] /\ (e \in ousted => e \in ousted')
    BY <1>1, <1>2, <1>11 DEF Sane, Inv, Scalars
  <2>2. PlaceTold(e, Lines(s, e))
    BY <1>2, <1>9, <1>11, <2>1, StayersTold DEF TellsHeir
  <2> QED BY <1>1, <2>2 DEF TellsPlace
<1> QED BY <1>10, <1>11

LEMMA DeparturePlaces ==
    ASSUME Sane, Sane', NEW c \in Client, Departs(c), NEW e \in Client, e # c
    PROVE  TellsPlace(e)
<1>0. PICK ch \in Channel \cup {NULL} : ch = channelOf[c]
  BY DEF Sane, Inv, Scalars
<1> DEFINE farewell == Membership(ch, rooms[ch], c, nickname[c], "MESSAGE_QUIT_CHANNEL", "")
           heir == Succeeds(ch, rooms[ch], rooms'[ch])
           s == IF ch = NULL THEN <<>> ELSE farewell \o heir
<1>1. HangUp(c) /\ Say(s) /\ UNCHANGED <<nickname, ousted>>
      /\ channelOf' = [channelOf EXCEPT ![c] = NULL]
  BY <1>0 DEF Departs, HangUp
<1>2. Line' = Parting(c)
  BY <1>1, HangUpLines
<1>3. TellsHeir(s, c)
  <2>1. CASE ch = NULL
    BY <1>0, <2>1, NoHeirToTell, SilentLists DEF Inherits
  <2>2. CASE ch # NULL
    <3>1. ch \in Channel /\ Members(ch)' = Members(ch) \ {c}
      BY <1>0, <1>1, <2>2, NamesAssumption DEF Members, Sane, Inv, Scalars
    <3>2. TellsHeir(heir, c)
      BY <1>0, <1>1, <1>2, <3>1, DepartedTold
    <3>3. Silent(farewell)
      BY PlainMembership
    <3> HIDE DEF farewell, heir
    <3> QED BY <2>2, <3>2, <3>3, HeirAmongOthers
  <2> QED BY <2>1, <2>2
<1> HIDE DEF s
<1>4. channelOf'[e] = channelOf[e] /\ (e \in ousted => e \in ousted')
  BY <1>1 DEF Sane, Inv, Scalars
<1>5. PlaceTold(e, Lines(s, e))
  BY <1>2, <1>3, <1>4, StayersTold DEF TellsHeir
<1> QED BY <1>1, <1>5 DEF TellsPlace

(* Whoever enters leads the channel if nobody else was in it.                 *)
LEMMA EnteringLeads ==
    ASSUME Sane, Sane', NEW c \in Client, NEW ch \in Channel, Runs(c),
           NEW rs \in AfterLeaving(c), channelOf'[c] = ch,
           Line' = Parting(c) \/ Line' = Entering(c, ch)
    PROVE  Privileged(c)' <=> ~rs[ch].live
<1> DEFINE t == RemoveFirst(Line[ch], c)
<1>1. t \in Seq(Client) /\ ToSet(t) = Members(ch) \ {c}
  BY LineNow, RemoveFirstMembers
<1>2. Line'[ch] = t \/ Line'[ch] = Append(t, c)
  BY DEF Parting, Entering
<1>3. c \in ToSet(Line'[ch])
  BY LinesHoldMembersAfter DEF Members
<1> HIDE DEF t
<1>4. Line'[ch] = Append(t, c)
  BY <1>1, <1>2, <1>3
<1>5. Append(t, c) # <<>> /\ (t = <<>> => Head(Append(t, c)) = c)
      /\ (t # <<>> => Head(Append(t, c)) = Head(t) /\ Head(t) \in ToSet(t))
  <2>1. t # <<>> => Head(t) = t[1] /\ 1 \in DOMAIN t
    BY <1>1
  <2>2. t # <<>> => Head(t) \in ToSet(t)
    BY <2>1 DEF ToSet
  <2>3. t = <<>> => Append(t, c) = <<c>>
    OBVIOUS
  <2>4. t # <<>> => Head(Append(t, c)) = Head(t)
    BY <1>1
  <2>5. Append(t, c) \in Seq(Client) /\ Len(Append(t, c)) = Len(t) + 1 /\ Len(t) \in Nat
    BY <1>1
  <2>6. Append(t, c) # <<>>
    BY <2>5
  <2>7. t = <<>> => Head(Append(t, c)) = c
    BY <2>3
  <2> QED BY <2>2, <2>4, <2>6, <2>7
<1>6. Leads(Line'[ch], c) <=> t = <<>>
  BY <1>1, <1>4, <1>5 DEF Leads
<1>7. t = <<>> <=> Members(ch) \ {c} = {}
  <2>1. t = <<>> => ToSet(t) = {}
    BY DEF ToSet
  <2> QED BY <1>1, <1>5, <2>1
<1>8. rs[ch].live <=> Members(ch) \ {c} # {}
  BY AfterLeavingAgrees DEF Agrees
<1>9. channelOf'[c] # NULL
  BY NamesAssumption
<1> QED BY <1>6, <1>7, <1>8, <1>9, PrivilegedLeadsAfter

LEMMA JoinPlaces ==
    ASSUME Sane, Sane', NEW c \in Client, NEW ch \in Channel, Joins(c, ch), NEW e \in Client
    PROVE  TellsPlace(e)
<1>1. /\ Join(c, ch) /\ Runs(c) /\ UNCHANGED nickname
      /\ Line' = Parting(c) \/ Line' = Entering(c, ch)
  BY JoinLines DEF Joins, Join, Sends
<1>2. PICK rs \in AfterLeaving(c) : Enters(c, ch, rs) \/ IsRefused(c, ch, rs)
  BY DEF Joins
<1>3. TellsHeir(Leaves(c, rs), c)
  BY <1>1, LeavesTold
<1>4. e # c => channelOf'[e] = channelOf[e]
  BY <1>1 DEF Join, Sane, Inv, Scalars
<1>5. CASE Enters(c, ch, rs)
  <2> DEFINE type == IF rs[ch].live THEN "MESSAGE_JOIN_CHANNEL" ELSE "MESSAGE_NEW_JOIN_CHANNEL"
             reply == Reports(ch, c, nickname[c], type, "")
             s == Leaves(c, rs) \o reply
             line == <<"/join", "SUCCESS", ch, RoleIn(type)>>
  <2>1. Say(s) /\ channelOf'[c] = ch /\ ousted' = ousted \ {c}
    BY <1>5 DEF Enters
  <2>2. Invites(reply, c, line)
    <3>1. rooms'[ch] \in Room
      BY DEF Sane, Inv, SoundRooms
    <3>2. type \in {"MESSAGE_NEW_JOIN_CHANNEL", "MESSAGE_JOIN_CHANNEL", "MESSAGE_NEW_ADMIN_CHANNEL"}
      OBVIOUS
    <3> HIDE DEF type
    <3> QED BY <3>1, <3>2, EnteringMembership DEF Reports
  <2>3. RoleIn(type) \in Roles /\ (RoleIn(type) = "role:admin" <=> Privileged(c)')
    BY <1>1, <2>1, EnteringLeads DEF RoleIn, Roles
  <2> HIDE DEF type, reply
  <2>4. CASE e = c
    <3>1. Spares(Leaves(c, rs), c) /\ IsSeq(Leaves(c, rs))
      BY <1>3, NobodyInheritsFromItself DEF TellsHeir, HeirHears
    <3>2. Lines(s, c) = <<line>>
      <4> HIDE DEF line
      <4>1. IsSeq(reply) /\ Tells(reply, c, line)
        BY <2>2 DEF Invites, Hushed
      <4>2. Tells(s, c, line) /\ IsSeq(s)
        BY <3>1, <4>1, TellsTogether, HeardTogether
      <4> QED BY <4>2, ToldHearOne
    <3> HIDE DEF s
    <3> QED BY <2>1, <2>3, <2>4, <3>2 DEF TellsPlace, PlaceTold, IsWelcomed
  <2>5. CASE e # c
    <3>1. IsSeq(reply) /\ Spares(reply, e) /\ IsSeq(Leaves(c, rs)) /\ HeirHears(Leaves(c, rs), c, e)
      BY <1>3, <2>2, <2>5 DEF Invites, Hushed, TellsHeir
    <3>2. IsSeq(s) /\ HeirHears(s, c, e)
      BY <3>1, TellsTogether, SparesTogether, HeardTogether DEF HeirHears
    <3>3. e \in ousted => e \in ousted'
      BY <2>1, <2>5
    <3> HIDE DEF s
    <3>4. PlaceTold(e, Lines(s, e))
      BY <1>1, <1>4, <2>5, <3>2, <3>3, StayersTold
    <3> QED BY <2>1, <3>4 DEF TellsPlace
  <2> QED BY <2>4, <2>5
<1>6. CASE IsRefused(c, ch, rs)
  <2>1. PICK reason \in Reasons(rs[ch], nickname[c]) :
          Say(Leaves(c, rs) \o Membership(ch, rs[ch], c, nickname[c], reason, ""))
    BY <1>6 DEF IsRefused
  <2> DEFINE reply == Membership(ch, rs[ch], c, nickname[c], reason, "")
             s == Leaves(c, rs) \o reply
  <2>2. reason \in {"ERR_BANNEDFROMCHAN", "ERR_INVITEONLYCHAN"}
    BY DEF Reasons
  <2>3. Silent(reply)
    BY <2>2, PlainMembership
  <2>4. Say(s) /\ channelOf'[c] = NULL
        /\ ousted' = IF channelOf[c] = NULL THEN ousted ELSE ousted \cup {c}
    BY <1>6, <2>1 DEF IsRefused
  <2> HIDE DEF reply
  <2>5. TellsHeir(s, c)
    BY <1>3, <2>3, HeirAmongOthers
  <2> HIDE DEF s
  <2>6. CASE e = c
    <3>1. Lines(s, e) = <<>>
      BY <2>5, <2>6, NobodyInheritsFromItself, SparedHearNothing DEF TellsHeir, HeirHears
    <3>2. CASE channelOf[c] = NULL
      <4>1. ~Privileged(c) /\ ~Privileged(c)'
        BY <2>4, <3>2 DEF Privileged
      <4> QED BY <2>4, <2>6, <3>1, <3>2, <4>1, NothingIsNaming DEF TellsPlace, PlaceTold, Stays
    <3>3. CASE channelOf[c] # NULL
      BY <2>4, <2>6, <3>1, <3>3, NothingIsNaming DEF TellsPlace, PlaceTold, IsPutOut
    <3> QED BY <3>2, <3>3
  <2>7. CASE e # c
    <3>1. e \in ousted => e \in ousted'
      BY <2>4
    <3>2. PlaceTold(e, Lines(s, e))
      BY <1>1, <1>4, <2>5, <2>7, <3>1, StayersTold DEF TellsHeir
    <3> QED BY <2>4, <3>2 DEF TellsPlace
  <2> QED BY <2>6, <2>7
<1> QED BY <1>2, <1>5, <1>6

LEMMA RunPlaces ==
    ASSUME Sane, Sane', NEW c \in Client, NEW line \in Received, clt_run(c, line),
           NEW e \in Client
    PROVE  TellsPlace(e)
BY RunIs, QuietPlaces, RenamePlaces, KickPlaces, JoinPlaces

-----------------------------------------------------------------------------
\* What clients know of their places.

LEMMA PlaceReadOn ==
    ASSUME NEW a \in Seq(Welcomes \cup Namings), a # <<>>, NEW v \in View,
           NEW ch, NEW admin, NEW out, ChannelInSight(a, v, ch, admin, out)
    PROVE  ChannelInSight(Tail(a), Learned(v, Head(a)), ch, admin, out)
<1> DEFINE t == Tail(a)
           w == Learned(v, Head(a))
<1>1. /\ Head(a) \in Welcomes \cup Namings
      /\ Free(a, Welcomes) => Free(t, Welcomes) /\ Head(a) \notin Welcomes
      /\ \A k : LastAt(a, Welcomes, k) =>
           IF k = 1 THEN Free(t, Welcomes) /\ a[k] = Head(a)
           ELSE LastAt(t, Welcomes, k - 1) /\ t[k - 1] = a[k]
  BY RemainingLines
<1>2. /\ Head(a) \in Namings =>
           w.has_channel = v.has_channel /\ w.channel = v.channel /\ w.is_admin = v.is_admin
      /\ Head(a) \in Welcomes =>
           w.has_channel /\ w.channel = Head(a)[3] /\ (w.is_admin <=> Head(a)[4] = "role:admin")
  BY <1>1, LearnedView
<1> HIDE DEF w, t
<1>3. CASE /\ Free(a, Welcomes)
           /\ ch # NULL => v.has_channel /\ v.channel = ch /\ (v.is_admin <=> admin)
           /\ ch = NULL /\ v.has_channel => out
  BY <1>1, <1>2, <1>3 DEF ChannelInSight, w, t
<1>4. CASE \E k : /\ LastAt(a, Welcomes, k)
                  /\ ch # NULL => a[k][3] = ch /\ (a[k][4] = "role:admin" <=> admin)
                  /\ ch = NULL => out
  <2>1. PICK k : /\ LastAt(a, Welcomes, k)
                 /\ ch # NULL => a[k][3] = ch /\ (a[k][4] = "role:admin" <=> admin)
                 /\ ch = NULL => out
    BY <1>4
  <2>2. CASE k = 1
    <3>1. Head(a) \in Welcomes /\ a[k] = Head(a) /\ Free(t, Welcomes)
      BY <1>1, <2>1, <2>2 DEF LastAt
    <3> QED BY <1>2, <2>1, <3>1 DEF ChannelInSight, w, t
  <2>3. CASE k # 1
    <3>1. LastAt(t, Welcomes, k - 1) /\ t[k - 1] = a[k]
      BY <1>1, <2>1, <2>3
    <3> DEFINE j == k - 1
    <3>2. LastAt(t, Welcomes, j) /\ t[j] = a[k]
      BY <3>1
    <3> HIDE DEF j
    <3> QED BY <2>1, <3>2 DEF ChannelInSight, t
  <2> QED BY <2>2, <2>3
<1> QED BY <1>3, <1>4 DEF ChannelInSight

LEMMA PlaceSent ==
    ASSUME NEW e \in Client, NEW l, PlaceTold(e, l), NEW a \in Seq(Welcomes \cup Namings), NEW v,
           ChannelInSight(a, v, channelOf[e], Privileged(e), e \in ousted)
    PROVE  ChannelInSight(a \o l, v, channelOf'[e], Privileged(e)', e \in ousted')
<1> DEFINE S == Welcomes \cup Namings
<1>1. ASSUME l \in Seq(Namings)  PROVE l \in Seq(S) /\ Free(l, Welcomes)
  <2>1. \A i \in DOMAIN l : l[i] \in Namings
    BY <1>1
  <2> QED BY <1>1, <2>1, WelcomesAreNotNamings DEF Free
<1>2. IsWelcomed(e, l) => \E x \in Welcomes : l = <<x>>
  BY DEF IsWelcomed, Welcomes
<1>3. l \in Seq(S) /\ a \in Seq(S)
  <2>1. \A x \in Welcomes : <<x>> \in Seq(S)
    OBVIOUS
  <2> QED BY <1>1, <1>2, <2>1 DEF PlaceTold, Stays, IsPutOut
<1> HIDE DEF S
<1>4. AppendedTo(a, l, Welcomes)
  BY <1>3, AppendedLines
<1>5. CASE Stays(e, l)
  BY <1>1, <1>4, <1>5 DEF Stays, ChannelInSight, AppendedTo
<1>6. CASE IsPutOut(e, l)
  BY <1>1, <1>4, <1>6 DEF IsPutOut, ChannelInSight, AppendedTo
<1>7. CASE IsWelcomed(e, l)
  <2>1. PICK role \in Roles :
          /\ channelOf'[e] \in Channel
          /\ l = <<<<"/join", "SUCCESS", channelOf'[e], role>>>>
          /\ role = "role:admin" <=> Privileged(e)'
    BY <1>7 DEF IsWelcomed
  <2> DEFINE line == <<"/join", "SUCCESS", channelOf'[e], role>>
  <2>2. line \in Welcomes /\ line[3] = channelOf'[e] /\ line[4] = role /\ l = <<line>>
    BY <2>1 DEF Welcomes
  <2> HIDE DEF line
  <2>3. LastAt(a \o l, Welcomes, Len(a) + 1) /\ (a \o l)[Len(a) + 1] = line
    BY <1>4, <2>2 DEF AppendedTo
  <2> QED BY <2>1, <2>2, <2>3, NamesAssumption DEF ChannelInSight
<1> QED BY <1>5, <1>6, <1>7 DEF PlaceTold

(* A step of which the server knows something is without ghosts is one in a   *)
(* state without ghosts.                                                      *)
LEMMA SaneSteps ==
    ASSUME ServerHolds, SessionTypes, SNext, fault' = "none", "ghost" \notin damage'
    PROVE  fault = "none" /\ "ghost" \notin damage /\ Sane /\ Sane'
<1>1. ServerHolds' /\ fault = "none" /\ "ghost" \notin damage
  BY ServerHoldsNext
<1>2. Sane
  BY <1>1 DEF ServerHolds, NameInv, Sane
<1>3. Sane'
  BY <1>1 DEF ServerHolds, NameInv, Sane
<1> QED BY <1>1, <1>2, <1>3

PlaceInSight(e) == ChannelInSight(answers[e], view[e], channelOf[e], Privileged(e), e \in ousted)

(* One whose place a step tells keeps it in sight.                            *)
LEMMA SaidPlaces ==
    ASSUME SessionTypes, NEW e \in Client, TellsPlace(e), view[e].open, view'[e] = view[e],
           PlaceInSight(e)
    PROVE  PlaceInSight(e)'
<1>1. PICK sends : Say(sends) /\ PlaceTold(e, Lines(sends, e))
  BY DEF TellsPlace
<1> DEFINE l == Lines(sends, e)
<1>2. answers'[e] = answers[e] \o l
  BY <1>1 DEF Say
<1>3. PlaceTold(e, l) /\ answers[e] \in Seq(Welcomes \cup Namings)
  BY <1>1 DEF SessionTypes
<1> HIDE DEF l
<1>4. ChannelInSight(answers[e] \o l, view[e], channelOf'[e], Privileged(e)', e \in ousted')
  BY <1>3, PlaceSent DEF PlaceInSight
<1> QED BY <1>2, <1>4 DEF PlaceInSight

(* The server has done nothing that matters to e, and e has read nothing.     *)
LEMMA SamePlace ==
    ASSUME UNCHANGED <<nickname, channelOf, rooms, ousted>>, NEW e,
           view'[e] = view[e], answers'[e] = answers[e], PlaceInSight(e)
    PROVE  PlaceInSight(e)'
<1>1. Privileged(e)' <=> Privileged(e)
  BY DEF Privileged
<1> QED BY <1>1 DEF PlaceInSight, ChannelInSight

LEMMA PlacesNext ==
    ASSUME ServerHolds, Acquainted, ChannelsInSight, SNext
    PROVE  ChannelsInSight'
<1> SUFFICES ASSUME fault' = "none", "ghost" \notin damage', NEW e \in Client, Follows(e)'
             PROVE  PlaceInSight(e)'
  BY DEF ChannelsInSight, PlaceInSight, ChannelInSight
<1>1. SessionTypes /\ Sessions
  BY DEF Acquainted
<1>2. fault = "none" /\ "ghost" \notin damage /\ Sane /\ Sane'
  BY <1>1, SaneSteps
<1>3. Follows(e) => PlaceInSight(e)
  BY <1>2 DEF ChannelsInSight, PlaceInSight
<1>4. view'[e].open /\ e \notin cut'
  BY DEF Follows
<1>5. PICK c \in Client :
        \/ Open(c) \/ Type(c) \/ Read(c) \/ ReadCut(c) \/ Close(c)
        \/ Handle(c) \/ Departs(c) \/ Forget(c)
  BY DEF SNext
<1>6. CASE Open(c)
  <2>1. /\ conn[c] = "new" /\ view' = [view EXCEPT ![c].open = TRUE]
        /\ UNCHANGED <<nickname, channelOf, rooms, answers, ousted, cut>>
    BY <1>6 DEF Open, Connect
  <2>2. CASE e = c
    <3>1. channelOf[c] = NULL
      BY <1>2, <2>1 DEF Sane, Together
    <3>2. view[c] = Blank /\ answers[c] = <<>>
      BY <1>1, <2>1 DEF Sessions
    <3>3. ~view'[c].has_channel
      BY <1>1, <2>1, <3>2 DEF Blank, SessionTypes
    <3>4. Free(<<>>, Welcomes)
      BY DEF Free
    <3> QED BY <2>1, <2>2, <3>1, <3>2, <3>3, <3>4 DEF PlaceInSight, ChannelInSight
  <2>3. CASE e # c
    <3>1. view'[e] = view[e]
      BY <1>1, <2>1, <2>3 DEF SessionTypes
    <3> QED BY <1>3, <1>4, <2>1, <3>1, SamePlace DEF Follows
  <2> QED BY <2>2, <2>3
<1>7. CASE Type(c)
  BY <1>3, <1>4, <1>7, SamePlace DEF Type, vars, Follows
<1>8. CASE Read(c) \/ ReadCut(c) \/ Close(c)
  <2>1. /\ UNCHANGED <<nickname, channelOf, rooms, ousted>> /\ cut \subseteq cut'
        /\ \E v : view' = [view EXCEPT ![c] = v]
        /\ \E a : answers' = [answers EXCEPT ![c] = a]
    BY <1>8 DEF Read, ReadCut, Close, vars
  <2>2. CASE e # c
    <3>1. view'[e] = view[e] /\ answers'[e] = answers[e]
      BY <1>1, <2>1, <2>2 DEF SessionTypes
    <3> QED BY <1>3, <1>4, <2>1, <3>1, SamePlace DEF Follows
  <2>3. CASE e = c
    <3>1. CASE Read(c)
      <4>1. /\ view[c].open /\ answers[c] # <<>> /\ UNCHANGED cut
            /\ view' = [view EXCEPT ![c] = Learned(view[c], Head(answers[c]))]
            /\ answers' = [answers EXCEPT ![c] = Tail(answers[c])]
        BY <3>1 DEF Read
      <4>2. /\ view'[c] = Learned(view[c], Head(answers[c])) /\ answers'[c] = Tail(answers[c])
            /\ view[c] \in View /\ answers[c] \in Seq(Welcomes \cup Namings)
        BY <1>1, <4>1 DEF SessionTypes
      <4>3. PlaceInSight(c)
        BY <1>3, <1>4, <2>3, <4>1 DEF Follows
      <4>4. ChannelInSight(Tail(answers[c]), Learned(view[c], Head(answers[c])),
                           channelOf[c], Privileged(c), c \in ousted)
        BY <4>1, <4>2, <4>3, PlaceReadOn DEF PlaceInSight
      <4>5. Privileged(c)' <=> Privileged(c)
        BY <2>1 DEF Privileged
      <4> QED BY <2>1, <2>3, <4>2, <4>4, <4>5 DEF PlaceInSight, ChannelInSight
    <3>2. CASE ReadCut(c)
      BY <1>4, <2>3, <3>2 DEF ReadCut
    <3>3. CASE Close(c)
      <4>1. view'[c] = Blank
        BY <1>1, <3>3 DEF Close, SessionTypes
      <4> QED BY <1>4, <2>3, <4>1 DEF Blank
    <3> QED BY <1>8, <3>1, <3>2, <3>3
  <2> QED BY <2>2, <2>3
<1>9. CASE Handle(c)
  <2>1. /\ UNCHANGED <<view, cut>>
        /\ \E line \in Received : clt_run(c, line) \/ Dies(c, line)
    BY <1>1, <1>9, HandleIs
  <2>2. PICK line \in Received : clt_run(c, line) \/ Dies(c, line)
    BY <2>1
  <2>3. clt_run(c, line)
    BY <2>2, DeathStops
  <2>4. TellsPlace(e)
    BY <1>2, <2>3, RunPlaces
  <2> QED BY <1>1, <1>3, <1>4, <2>1, <2>4, SaidPlaces DEF Follows
<1>10. CASE Departs(c)
  <2>1. UNCHANGED <<view, cut>> /\ ~view[c].open
    BY <1>10 DEF Departs
  <2>2. e # c /\ view[e].open
    BY <1>4, <2>1
  <2>3. TellsPlace(e)
    BY <1>2, <1>10, <2>2, DeparturePlaces
  <2> QED BY <1>1, <1>3, <1>4, <2>1, <2>2, <2>3, SaidPlaces DEF Follows
<1>11. CASE Forget(c)
  BY <1>3, <1>4, <1>11, SamePlace DEF Forget, Destroy, Follows
<1> QED BY <1>5, <1>6, <1>7, <1>8, <1>9, <1>10, <1>11

LEMMA AlwaysInSight == SSpec => [](ServerHolds /\ Acquainted /\ ChannelsInSight)
<1>1. SInit => ChannelsInSight
  <2> SUFFICES ASSUME SInit, NEW e \in Client  PROVE ~Follows(e)
    BY DEF ChannelsInSight
  <2> QED BY DEF SInit, Blank, Follows
<1>2. ASSUME ServerHolds, Acquainted, ChannelsInSight, UNCHANGED <<vars, session>>
      PROVE  ChannelsInSight'
  BY <1>2 DEF ChannelsInSight, ChannelInSight, Follows, Privileged, vars, session
<1>3. ServerHolds /\ Acquainted /\ ChannelsInSight /\ [SNext]_<<vars, session>>
        => ChannelsInSight'
  BY <1>2, PlacesNext
<1> QED BY <1>1, <1>3, AcquaintedFirst, AcquaintedNext, PTL DEF SSpec

(* Until a ghost is inserted, whoever has read all its answers, and read them *)
(* whole, knows the channel it is in; and who believes to be in one and is in *)
(* none was put out of it by others.                                          *)
THEOREM ChannelsAreLearned == SSpec => []("ghost" \notin damage => ChannelKnown)
<1>1. Acquainted /\ ChannelsInSight => ("ghost" \notin damage => ChannelKnown)
  <2> SUFFICES ASSUME ChannelsInSight, "ghost" \notin damage, NEW c \in Client, CaughtUp(c)
               PROVE  /\ channelOf[c] # NULL => /\ view[c].has_channel
                                                /\ view[c].channel = channelOf[c]
                      /\ channelOf[c] = NULL /\ view[c].has_channel => c \in ousted
    BY DEF ChannelKnown
  <2>1. ChannelInSight(<<>>, view[c], channelOf[c], Privileged(c), c \in ousted)
    BY DEF ChannelsInSight, Follows, CaughtUp
  <2>2. \A k : ~LastAt(<<>>, Welcomes, k)
    BY DEF LastAt
  <2> QED BY <2>1, <2>2 DEF ChannelInSight
<1> QED BY <1>1, AlwaysInSight, PTL

(* Nor does any succession, rename, departure or return escape it: it knows   *)
(* whether it administers the channel.                                        *)
THEOREM RolesAreLearned == SSpec => []("ghost" \notin damage => RoleKnown)
<1>1. Acquainted /\ ChannelsInSight => ("ghost" \notin damage => RoleKnown)
  <2> SUFFICES ASSUME ChannelsInSight, "ghost" \notin damage, NEW c \in Client, CaughtUp(c),
                      channelOf[c] # NULL
               PROVE  view[c].is_admin <=> Privileged(c)
    BY DEF RoleKnown
  <2>1. ChannelInSight(<<>>, view[c], channelOf[c], Privileged(c), c \in ousted)
    BY DEF ChannelsInSight, Follows, CaughtUp
  <2>2. \A k : ~LastAt(<<>>, Welcomes, k)
    BY DEF LastAt
  <2> QED BY <2>1, <2>2 DEF ChannelInSight
<1> QED BY <1>1, AlwaysInSight, PTL

-----------------------------------------------------------------------------
\* What all answers have in common.

(* What the properties of the answers ask of a line.                          *)
Excused(line) ==
    \/ line \in Strays
    \/ line \in {<<"/nickname", "ERR_ERRONEUSNICKNAME">>, <<Echo, "ERR_NOSUCHNICK">>}
    \/ line[1] = "/join" /\ line[2] = "ERR_BADCHANNELKEY"

Proper(line) ==
    /\ Last(line) # Unended
    /\ Understood(line) # INVALID_PROTOCOL \/ Excused(line)

Properly(sends) == IsSeq(sends) /\ \A i \in DOMAIN sends : Proper(sends[i].line)

SaysProperly == \E sends : Say(sends) /\ Properly(sends)

LEMMA ProperLists ==
    /\ Properly(<<>>)
    /\ \A a : Proper(a.line) => Properly(<<a>>)
    /\ \A a, b : Proper(a.line) /\ Proper(b.line) => Properly(<<a, b>>)
    /\ \A a, b, c : Proper(a.line) /\ Proper(b.line) /\ Proper(c.line) => Properly(<<a, b, c>>)
BY TuplesAreSeqs DEF Properly

LEMMA ProperTogether ==
    ASSUME NEW s, NEW t, Properly(s), Properly(t)
    PROVE  Properly(s \o t)
BY PartsOf, HeardTogether DEF Properly

(* A line that begins with a keyword is left to the decoder of that keyword.  *)
LEMMA UnderstoodIs ==
    ASSUME NEW line
    PROVE  /\ line[1] = "/nickname" => Understood(line) = cdc_decode_nickname(line)
           /\ line[1] = "/join" => Understood(line) = cdc_decode_join(line)
           /\ line[1] = "/list" => Understood(line) = cdc_decode_list(line)
           /\ line[1] = "/mode" => Understood(line) = cdc_decode_mode(line)
           /\ line[1] = "/whois" => Understood(line) = cdc_decode_whois(line)
           /\ line[1] \in AdminKeywords \ {"/whois"} =>
                Understood(line) = cdc_decode_admin_pattern(line)
           /\ line[1] = "/msg" => Understood(line) = cdc_decode_client_message(line)
           /\ line[1] \in {"/servermsg", "/channelmsg"} =>
                Understood(line) = cdc_decode_X_message(line)
<1>1. line[1] \in ClientKeywords => cdc_detectar_act(line) = line[1]
  BY DEF cdc_detectar_act
<1> QED BY <1>1 DEF Understood, ClientKeywords, ServerKeywords, AdminKeywords

LEMMA WordsOf ==
    /\ \A a, b : LET l == <<a, b>>
                 IN  Len(l) = 2 /\ l[1] = a /\ l[2] = b /\ Last(l) = b
    /\ \A a, b, c : LET l == <<a, b, c>>
                    IN  Len(l) = 3 /\ l[1] = a /\ l[2] = b /\ l[3] = c /\ Last(l) = c
    /\ \A a, b, c, d : LET l == <<a, b, c, d>>
                       IN  /\ Len(l) = 4 /\ l[1] = a /\ l[2] = b /\ l[3] = c /\ l[4] = d
                           /\ Last(l) = d
    /\ \A a, b, c, d, e : LET l == <<a, b, c, d, e>>
                          IN  Len(l) = 5 /\ l[1] = a /\ l[2] = b /\ Last(l) = e
BY DEF Last

LEMMA WordAdded ==
    ASSUME NEW a, NEW b, NEW d
    PROVE  <<a, b>> \o <<d>> = <<a, b, d>>
<1> DEFINE W == {a, b, d}
           p == <<a, b>>
           q == <<d>>
           u == p \o q
           w == <<a, b, d>>
<1>1. /\ p \in Seq(W) /\ q \in Seq(W) /\ w \in Seq(W)
      /\ Len(p) = 2 /\ Len(q) = 1 /\ Len(w) = 3
      /\ p[1] = w[1] /\ p[2] = w[2] /\ q[1] = w[3]
  OBVIOUS
<1> HIDE DEF W, p, q, w
<1>2. /\ u \in Seq(W) /\ Len(u) = 3
      /\ \A i \in 1 .. 3 : u[i] = IF i <= 2 THEN p[i] ELSE q[i - 2]
  BY <1>1, ConcatProperties
<1> HIDE DEF u
<1>3. \A i \in 1 .. 3 : u[i] = w[i]
  BY <1>1, <1>2
<1>4. u = w
  BY <1>1, <1>2, <1>3, SeqEqual
<1> QED BY <1>4 DEF u, p, q, w

LEMMA NicknameAnswers ==
    ASSUME NEW n \in Target
    PROVE  /\ \A code \in {"SUCCESS", "ERR_NICKNAMEINUSE", "ERR_ERRONEUSNICKNAME"} :
                Proper(<<"/nickname", code, n>>)
           /\ Proper(<<"/nickname", "ERR_ERRONEUSNICKNAME">>)
<1>1. ASSUME NEW code \in {"SUCCESS", "ERR_NICKNAMEINUSE", "ERR_ERRONEUSNICKNAME"}
      PROVE  Proper(<<"/nickname", code, n>>)
  <2> DEFINE line == <<"/nickname", code, n>>
  <2>1. Len(line) = 3 /\ line[1] = "/nickname" /\ line[2] = code /\ line[3] = n /\ Last(line) = n
    BY WordsOf
  <2> HIDE DEF line
  <2>2. Understood(line) = code
    BY <2>1, UnderstoodIs DEF cdc_decode_nickname, Code, is_valid_nickname
  <2> QED BY <2>1, <2>2, UnendedAssumption DEF Proper, INVALID_PROTOCOL, line
<1>2. Proper(<<"/nickname", "ERR_ERRONEUSNICKNAME">>)
  BY WordsOf DEF Proper, Excused, Unended
<1> QED BY <1>1, <1>2

LEMMA JoinAnswers ==
    ASSUME NEW n \in Target, NEW ch \in Channel
    PROVE  /\ Proper(<<"/join", "ERR_BADCHANNELKEY", n>>)
           /\ \A code \in {"ERR_INVITEONLYCHAN", "ERR_BANNEDFROMCHAN"} : Proper(<<"/join", code>>)
           /\ \A role \in Roles : Proper(<<"/join", "SUCCESS", ch, role>>)
           /\ Proper(<<"/join", "RPL_NAMREPLY", ch, "#", n>>)
<1>1. Proper(<<"/join", "ERR_BADCHANNELKEY", n>>)
  BY WordsOf, UnendedAssumption DEF Proper, Excused
<1>2. ASSUME NEW code \in {"ERR_INVITEONLYCHAN", "ERR_BANNEDFROMCHAN"}
      PROVE  Proper(<<"/join", code>>)
  <2> DEFINE line == <<"/join", code>>
  <2>1. Len(line) = 2 /\ line[1] = "/join" /\ line[2] = code /\ Last(line) = code
    BY WordsOf
  <2> HIDE DEF line
  <2>2. Understood(line) = code
    BY <2>1, UnderstoodIs DEF cdc_decode_join, Code
  <2> QED BY <2>1, <2>2 DEF Proper, INVALID_PROTOCOL, Unended, line
<1>3. ASSUME NEW role \in Roles  PROVE Proper(<<"/join", "SUCCESS", ch, role>>)
  <2> DEFINE line == <<"/join", "SUCCESS", ch, role>>
  <2>1. /\ Len(line) = 4 /\ line[1] = "/join" /\ line[2] = "SUCCESS" /\ line[4] = role
        /\ Last(line) = role
    BY WordsOf
  <2> HIDE DEF line
  <2>2. Understood(line) = "SUCCESS"
    BY <2>1, UnderstoodIs DEF cdc_decode_join
  <2> QED BY <2>1, <2>2 DEF Proper, INVALID_PROTOCOL, Unended, Roles, line
<1>4. Proper(<<"/join", "RPL_NAMREPLY", ch, "#", n>>)
  <2> DEFINE line == <<"/join", "RPL_NAMREPLY", ch, "#", n>>
  <2>1. Len(line) = 5 /\ line[1] = "/join" /\ line[2] = "RPL_NAMREPLY" /\ Last(line) = n
    BY WordsOf
  <2> HIDE DEF line
  <2>2. Understood(line) = "RPL_NAMREPLY"
    BY <2>1, UnderstoodIs DEF cdc_decode_join, Code
  <2> QED BY <2>1, <2>2, UnendedAssumption DEF Proper, INVALID_PROTOCOL, line
<1> QED BY <1>1, <1>2, <1>3, <1>4

LEMMA AdminAnswers ==
    ASSUME NEW k \in AdminKeywords, NEW n \in Target
    PROVE  /\ Proper(<<k, "ERR_CHANOPRIVSNEEDED">>)
           /\ Proper(<<k, "ERR_NOSUCHNICK", n>>)
           /\ k # "/whois" => Proper(<<k, "SUCCESS", n>>)
           /\ Proper(<<"/whois", "SUCCESS", n, "address">>)
           /\ Proper(<<"/whois", "ERR_NOSUCHNICK">>)
           /\ Proper(<<Echo, "ERR_NOSUCHNICK">>)
<1>1. ASSUME NEW word \in {k, "/whois"}, NEW code \in {"ERR_CHANOPRIVSNEEDED", "ERR_NOSUCHNICK"}
      PROVE  Proper(<<word, code>>)
  <2> DEFINE line == <<word, code>>
  <2>1. Len(line) = 2 /\ line[1] = word /\ line[2] = code /\ Last(line) = code
    BY WordsOf
  <2> HIDE DEF line
  <2>2. Understood(line) = code
    BY <2>1, UnderstoodIs DEF cdc_decode_whois, cdc_decode_admin_pattern, Code, AdminKeywords
  <2> QED BY <2>1, <2>2 DEF Proper, INVALID_PROTOCOL, Unended, line
<1>2. ASSUME NEW code \in {"ERR_NOSUCHNICK", "SUCCESS"}, code = "SUCCESS" => k # "/whois"
      PROVE  Proper(<<k, code, n>>)
  <2> DEFINE line == <<k, code, n>>
  <2>1. Len(line) = 3 /\ line[1] = k /\ line[2] = code /\ Last(line) = n
    BY WordsOf
  <2> HIDE DEF line
  <2>2. Understood(line) = code
    BY <1>2, <2>1, UnderstoodIs DEF cdc_decode_whois, cdc_decode_admin_pattern, Code
  <2> QED BY <2>1, <2>2, UnendedAssumption DEF Proper, INVALID_PROTOCOL, line
<1>3. Proper(<<"/whois", "SUCCESS", n, "address">>)
  <2> DEFINE line == <<"/whois", "SUCCESS", n, "address">>
  <2>1. Len(line) = 4 /\ line[1] = "/whois" /\ line[2] = "SUCCESS" /\ Last(line) = "address"
    BY WordsOf
  <2> HIDE DEF line
  <2>2. Understood(line) = "SUCCESS"
    BY <2>1, UnderstoodIs DEF cdc_decode_whois, Code
  <2> QED BY <2>1, <2>2 DEF Proper, INVALID_PROTOCOL, Unended, line
<1>4. Proper(<<Echo, "ERR_NOSUCHNICK">>)
  BY WordsOf DEF Proper, Excused, Unended
<1> QED BY <1>1, <1>2, <1>3, <1>4

(* The rest of what the server says.                                          *)
LEMMA NoticeIsProper ==
    ASSUME NEW words, IsSeq(words), words # <<>>, Last(words) # Unended
    PROVE  Proper(Notice(words))
<1> DEFINE p == <<"/channelmsg", ":">>
           line == p \o words
<1>1. PICK S : words \in Seq(S)
  BY DEF IsSeq
<1>2. p \in Seq(S \cup {"/channelmsg", ":"}) /\ words \in Seq(S \cup {"/channelmsg", ":"}) /\ Len(p) = 2
  BY <1>1
<1>3. p[1] = "/channelmsg" /\ p[2] = ":" /\ Len(words) \in Nat /\ Len(words) > 0
  BY <1>1
<1> HIDE DEF p
<1>4. /\ Len(line) = 2 + Len(words)
      /\ \A i \in 1 .. 2 + Len(words) : line[i] = IF i <= 2 THEN p[i] ELSE words[i - 2]
  <2>1. /\ Len(line) = Len(p) + Len(words)
        /\ \A i \in 1 .. Len(p) + Len(words) :
             line[i] = IF i <= Len(p) THEN p[i] ELSE words[i - Len(p)]
    BY <1>2, ConcatProperties
  <2> QED BY <1>2, <2>1
<1> HIDE DEF line
<1>5. line[1] = "/channelmsg" /\ line[2] = ":" /\ Len(line) > 2
  BY <1>3, <1>4
<1>6. Last(line) = Last(words)
  BY <1>3, <1>4 DEF Last
<1>7. Understood(line) = "SUCCESS"
  BY <1>5, UnderstoodIs DEF cdc_decode_X_message
<1>8. Notice(words) = line
  BY DEF Notice, line, p
<1> QED BY <1>6, <1>7, <1>8 DEF Proper, INVALID_PROTOCOL

LEMMA Remarks ==
    /\ \A text : text # Unended => Proper(Servermsg(text))
    /\ \A a : a # Unended => Proper(Notice(<<a>>))
    /\ \A a, b : b # Unended => Proper(Notice(<<a, b>>))
    /\ \A a, b, c : c # Unended => Proper(Notice(<<a, b, c>>))
    /\ \A a, b, c, d : d # Unended => Proper(Notice(<<a, b, c, d>>))
    /\ Proper(<<"/list", "names">>)
    /\ Proper(<<"/mode", "SUCCESS">>) /\ Proper(<<"/mode", "ERR_CHANOPRIVSNEEDED">>)
    /\ \A line \in Strays : Proper(line)
    /\ \A rank, n : Proper(<<"/msg", rank, n, ":", "text">>)
<1>1. ASSUME NEW text, text # Unended  PROVE Proper(Servermsg(text))
  <2> DEFINE line == <<"/servermsg", ":", text>>
  <2>1. Len(line) = 3 /\ line[1] = "/servermsg" /\ line[2] = ":" /\ Last(line) = text
    BY WordsOf
  <2> HIDE DEF line
  <2>2. Understood(line) = "SUCCESS"
    BY <2>1, UnderstoodIs DEF cdc_decode_X_message
  <2> QED BY <1>1, <2>1, <2>2 DEF Proper, INVALID_PROTOCOL, Servermsg, line
<1>2. /\ \A a : Last(<<a>>) = a /\ <<a>> # <<>>
      /\ \A a, b : <<a, b>> # <<>> /\ \A c : <<a, b, c>> # <<>> /\ \A d : <<a, b, c, d>> # <<>>
  BY DEF Last
<1>3. /\ \A a : a # Unended => Proper(Notice(<<a>>))
      /\ \A a, b : b # Unended => Proper(Notice(<<a, b>>))
      /\ \A a, b, c : c # Unended => Proper(Notice(<<a, b, c>>))
      /\ \A a, b, c, d : d # Unended => Proper(Notice(<<a, b, c, d>>))
  BY <1>2, WordsOf, TuplesAreSeqs, NoticeIsProper
<1>4. Proper(<<"/list", "names">>)
  <2> DEFINE line == <<"/list", "names">>
  <2>1. Len(line) = 2 /\ line[1] = "/list" /\ Last(line) = "names"
    BY WordsOf
  <2> HIDE DEF line
  <2>2. Understood(line) = "SUCCESS"
    BY <2>1, UnderstoodIs DEF cdc_decode_list
  <2> QED BY <2>1, <2>2 DEF Proper, INVALID_PROTOCOL, Unended, line
<1>5. ASSUME NEW code \in {"SUCCESS", "ERR_CHANOPRIVSNEEDED"}  PROVE Proper(<<"/mode", code>>)
  <2> DEFINE line == <<"/mode", code>>
  <2>1. Len(line) = 2 /\ line[1] = "/mode" /\ line[2] = code /\ Last(line) = code
    BY WordsOf
  <2> HIDE DEF line
  <2>2. Understood(line) = code
    BY <2>1, UnderstoodIs DEF cdc_decode_mode, Code
  <2> QED BY <2>1, <2>2 DEF Proper, INVALID_PROTOCOL, Unended, line
<1>6. \A line \in Strays : Proper(line)
  <2>1. Last(<<"\t/join", "to enter">>) = "to enter" /\ Last(<<"\t/list", "to see">>) = "to see"
    BY WordsOf
  <2>2. \A line \in Strays : line = <<"\t/join", "to enter">> \/ line = <<"\t/list", "to see">>
    BY DEF Strays
  <2> QED BY <2>1, <2>2 DEF Proper, Excused, Unended
<1>7. ASSUME NEW rank, NEW n  PROVE Proper(<<"/msg", rank, n, ":", "text">>)
  <2> DEFINE line == <<"/msg", rank, n, ":", "text">>
  <2>1. Len(line) = 5 /\ line[1] = "/msg" /\ Last(line) = "text"
    BY WordsOf
  <2> HIDE DEF line
  <2>2. Understood(line) = "SUCCESS"
    BY <2>1, UnderstoodIs DEF cdc_decode_client_message
  <2> QED BY <2>1, <2>2 DEF Proper, INVALID_PROTOCOL, Unended, line
<1> QED BY <1>1, <1>3, <1>4, <1>5, <1>6, <1>7
-----------------------------------------------------------------------------
\* What each command answers.

LEMMA NamesListed ==
    ASSUME NEW r \in Room, NEW ch \in Channel
    PROVE  Proper(<<"/join", "RPL_NAMREPLY", ch>> \o CHANNEL_list_participants(r))
<1> DEFINE p == <<"/join", "RPL_NAMREPLY", ch>>
           q == CHANNEL_list_participants(r)
           line == p \o q
           n == 2 * Len(r.arrived)
           W == Nick \cup Channel \cup {"#", "@", "/join", "RPL_NAMREPLY"}
<1>1. r.arrived \in Seq(Nick) /\ Len(r.arrived) \in Nat /\ n \in Nat
  BY DEF Room
<1>2. q = [k \in 1 .. n |-> IF k % 2 = 0 THEN r.arrived[k \div 2] ELSE IF k = 1 THEN "#" ELSE "@"]
  BY DEF CHANNEL_list_participants
<1>3. ASSUME NEW k \in 1 .. n, k % 2 = 0  PROVE r.arrived[k \div 2] \in Nick
  <2>1. k \div 2 \in 1 .. Len(r.arrived)
    BY <1>1, <1>3
  <2> QED BY <1>1, <2>1
<1>4. q \in [1 .. n -> W]
  BY <1>2, <1>3
<1>5. q \in Seq(W) /\ Len(q) = n
  BY <1>1, <1>4
<1>6. p \in Seq(W) /\ Len(p) = 3 /\ p[1] = "/join" /\ p[2] = "RPL_NAMREPLY" /\ p[3] = ch
  OBVIOUS
<1> HIDE DEF p, q, n
<1>7. /\ Len(line) = 3 + n
      /\ \A i \in 1 .. 3 + n : line[i] = IF i <= 3 THEN p[i] ELSE q[i - 3]
  <2>1. /\ Len(line) = Len(p) + Len(q)
        /\ \A i \in 1 .. Len(p) + Len(q) : line[i] = IF i <= Len(p) THEN p[i] ELSE q[i - Len(p)]
    BY <1>5, <1>6, ConcatProperties
  <2> QED BY <1>5, <1>6, <2>1
<1> HIDE DEF line
<1>8. line[1] = "/join" /\ line[2] = "RPL_NAMREPLY" /\ Len(line) > 1
  BY <1>1, <1>6, <1>7
<1>9. Last(line) \in W
  <2>1. CASE n = 0
    BY <1>6, <1>7, <2>1 DEF Last
  <2>2. CASE n # 0
    <3>1. n \in 1 .. n /\ 3 + n \in 1 .. 3 + n /\ ~(3 + n <= 3) /\ (3 + n) - 3 = n
      BY <1>1, <2>2
    <3> QED BY <1>4, <1>7, <3>1 DEF Last
  <2> QED BY <2>1, <2>2
<1>10. Understood(line) = "RPL_NAMREPLY"
  BY <1>8, UnderstoodIs DEF cdc_decode_join, Code
<1>11. Unended \notin W
  BY UnendedAssumption DEF Target, Unended
<1>12. Proper(line)
  BY <1>9, <1>10, <1>11 DEF Proper, INVALID_PROTOCOL
<1> QED BY <1>12 DEF line, p, q

LEMMA MembershipIsProper ==
    ASSUME NEW ch \in Channel, NEW r \in Room, NEW c, NEW me \in Target, NEW arg,
           NEW type \in {"MESSAGE_CLIENT", "MESSAGE_CHANGE_NICKNAME", "MESSAGE_QUIT_CHANNEL",
                         "MESSAGE_NEW_JOIN_CHANNEL", "MESSAGE_JOIN_CHANNEL",
                         "MESSAGE_NEW_ADMIN_CHANNEL", "ERR_INVITEONLYCHAN", "ERR_BANNEDFROMCHAN"},
           type = "MESSAGE_CLIENT" => arg = "text"
    PROVE  Properly(Membership(ch, r, c, me, type, arg))
<1> DEFINE s == Membership(ch, r, c, me, type, arg)
<1>1. me # Unended /\ ch # Unended
  BY UnendedAssumption
<1>2. CASE type = "MESSAGE_CLIENT"
  <2>1. s = <<All(r, <<"/msg", Role(r, me), me, ":", "text">>)>>
    BY <1>2 DEF Membership
  <2>2. Proper(<<"/msg", Role(r, me), me, ":", "text">>)
    BY Remarks
  <2> QED BY <2>1, <2>2, ProperLists DEF All
<1>3. CASE type = "MESSAGE_CHANGE_NICKNAME"
  <2>1. s = <<All(r, Notice(<<Role(r, me), arg, Role(r, me), me>>))>>
    BY <1>3 DEF Membership
  <2>2. Proper(Notice(<<Role(r, me), arg, Role(r, me), me>>))
    BY <1>1, Remarks
  <2> QED BY <2>1, <2>2, ProperLists DEF All
<1>4. CASE type = "MESSAGE_QUIT_CHANNEL"
  <2>1. s = <<All(r, Notice(<<Role(r, me), me, "out", ch>>))>>
    BY <1>4 DEF Membership
  <2>2. Proper(Notice(<<Role(r, me), me, "out", ch>>))
    BY <1>1, Remarks
  <2> QED BY <2>1, <2>2, ProperLists DEF All
<1>5. CASE type = "MESSAGE_NEW_JOIN_CHANNEL"
  <2> DEFINE a == <<"/join", "SUCCESS", ch, "role:admin">>
             b == <<"/join", "RPL_NAMREPLY", ch, "#", me>>
  <2>1. s = <<One(c, a), One(c, b)>>
    BY <1>5 DEF Membership
  <2>2. Proper(a) /\ Proper(b)
    BY JoinAnswers DEF Roles
  <2> HIDE DEF a, b
  <2> QED BY <2>1, <2>2, ProperLists DEF One
<1>6. CASE type = "MESSAGE_JOIN_CHANNEL"
  <2> DEFINE a == <<"/join", "SUCCESS", ch, "role:user">>
             b == <<"/join", "RPL_NAMREPLY", ch>> \o CHANNEL_list_participants(r)
             d == Notice(<<Role(r, me), me, "in", ch>>)
  <2>1. s = <<One(c, a), One(c, b), All(r, d)>>
    BY <1>6 DEF Membership
  <2>2. Proper(a)
    BY JoinAnswers DEF Roles
  <2>3. Proper(b)
    BY NamesListed
  <2>4. Proper(d)
    BY <1>1, Remarks
  <2> HIDE DEF a, b, d
  <2> QED BY <2>1, <2>2, <2>3, <2>4, ProperLists DEF One, All
<1>7. CASE type = "MESSAGE_NEW_ADMIN_CHANNEL"
  <2> DEFINE a == <<"/join", "SUCCESS", ch, "role:admin">>
             d == Notice(<<"#", me, "administers">>)
  <2>1. s = <<One(c, a), All(r, d)>>
    BY <1>7 DEF Membership
  <2>2. Proper(a)
    BY JoinAnswers DEF Roles
  <2>3. Proper(d)
    BY Remarks DEF Unended
  <2> HIDE DEF a, d
  <2> QED BY <2>1, <2>2, <2>3, ProperLists DEF One, All
<1>8. CASE type \in {"ERR_INVITEONLYCHAN", "ERR_BANNEDFROMCHAN"}
  <2>1. s = <<One(c, <<"/join", type>>)>>
    BY <1>8 DEF Membership
  <2>2. Proper(<<"/join", type>>)
    BY <1>8, JoinAnswers
  <2> QED BY <2>1, <2>2, ProperLists DEF One
<1> QED BY <1>2, <1>3, <1>4, <1>5, <1>6, <1>7, <1>8

(* Of an administrator: privilege, whose lack would be told without an end,   *)
(* it does not lack.                                                          *)
LEMMA AdministrationIsProper ==
    ASSUME NEW ch \in Channel, NEW r, NEW c, NEW keyword \in AdminKeywords,
           NEW outcome \in {"SUCCESS", "ERR_NOSUCHNICK"}, NEW n \in Target
    PROVE  Properly(Administration(ch, r, c, keyword, outcome, n))
<1> DEFINE s == Administration(ch, r, c, keyword, outcome, n)
<1>1. /\ Proper(<<keyword, "ERR_NOSUCHNICK", n>>)
      /\ keyword # "/whois" => Proper(<<keyword, "SUCCESS", n>>)
      /\ Proper(<<"/whois", "SUCCESS", n, "address">>)
  BY AdminAnswers
<1>2. \A text \in {"banned", "silenced", "may speak"} : Proper(Notice(<<n, text>>))
  BY Remarks DEF Unended
<1>3. CASE outcome = "SUCCESS" /\ keyword \in {"/kick", "/mute", "/unmute"}
  <2>1. PICK text \in {"banned", "silenced", "may speak"} :
          s = <<All(r, Notice(<<n, text>>)), One(c, <<keyword, "SUCCESS", n>>)>>
    BY <1>3 DEF Administration
  <2> QED BY <1>1, <1>2, <1>3, <2>1, ProperLists DEF All, One
<1>4. CASE outcome = "SUCCESS" /\ keyword = "/whois"
  <2>1. s = <<One(c, <<"/whois", "SUCCESS", n, "address">>)>>
    BY <1>4 DEF Administration
  <2> QED BY <1>1, <2>1, ProperLists DEF One
<1>5. CASE outcome = "SUCCESS" /\ keyword \in {"/unkick", "/invite"}
  <2>1. s = <<One(c, <<keyword, "SUCCESS", n>>)>>
    BY <1>5 DEF Administration
  <2> QED BY <1>1, <1>5, <2>1, ProperLists DEF One
<1>6. CASE outcome = "ERR_NOSUCHNICK"
  <2>1. s = <<One(c, <<keyword, "ERR_NOSUCHNICK", n>>)>> \/ s = <<>>
    BY <1>6 DEF Administration
  <2> QED BY <1>1, <2>1, ProperLists DEF One
<1> QED BY <1>3, <1>4, <1>5, <1>6 DEF AdminKeywords

LEMMA RefusedProperly ==
    ASSUME NEW c, NEW line, Proper(line), Refuse(<<One(c, line)>>)
    PROVE  SaysProperly
<1>1. Properly(<<One(c, line)>>)
  BY ProperLists DEF One
<1> QED BY <1>1 DEF Refuse, SaysProperly

LEMMA SuccessionIsProper ==
    ASSUME NEW ch \in Channel, NEW before, NEW r \in Room
    PROVE  Properly(Succeeds(ch, before, r))
<1> DEFINE heir == CHOOSE d \in Named(r.admin) : TRUE
<1>1. r.admin \in Target
  BY DEF Room, Target
<1>2. Properly(Membership(ch, r, heir, r.admin, "MESSAGE_NEW_ADMIN_CHANNEL", ""))
  BY <1>1, MembershipIsProper
<1> QED BY <1>2, ProperLists DEF Succeeds

LEMMA NicknameAnswered ==
    ASSUME Inv, Inv', NEW c \in Client, NEW line \in Received, line[1] = "/nickname",
           RunNickname(c, line)
    PROVE  SaysProperly
<1> DEFINE n == IF HasArgument(line) THEN Argument(line) ELSE Unnamed
           error == <<"/nickname", "ERR_ERRONEUSNICKNAME">>
           ch == channelOf[c]
           t == IF ch = NULL THEN <<>>
                ELSE Reports(ch, c, n, "MESSAGE_CHANGE_NICKNAME", nickname[c])
           first == <<"/nickname", "SUCCESS", n>>
<1>1. \/ line = <<"/nickname">> /\ Tail(line) = <<>>
      \/ \E m \in Target : line = <<"/nickname", m>> /\ Tail(line) = <<m>>
  <2>1. line = <<"/nickname">> \/ \E m \in Target : line = <<"/nickname", m>>
    BY DEF Received, Request, Target, AdminKeywords, ServerKeywords, Echo, Scrap
  <2>2. CASE line = <<"/nickname">>
    BY <2>2
  <2>3. CASE \E m \in Target : line = <<"/nickname", m>>
    <3>1. PICK m \in Target : line = <<"/nickname", m>>
      BY <2>3
    <3>2. Tail(line) = <<m>>
      BY <3>1
    <3> QED BY <3>1, <3>2
  <2> QED BY <2>1, <2>2, <2>3
<1>2. n \in Target
  BY <1>1 DEF Target, HasArgument, Argument
<1>3. Proper(error \o Tail(line))
  <2>1. error \o <<>> = error /\ \A m : error \o <<m>> = <<"/nickname", "ERR_ERRONEUSNICKNAME", m>>
    <3>1. error \o <<>> = error
      OBVIOUS
    <3>2. \A m : error \o <<m>> = <<"/nickname", "ERR_ERRONEUSNICKNAME", m>>
      BY WordAdded
    <3> QED BY <3>1, <3>2
  <2>2. error \o Tail(line) = error \/
        \E m \in Target : error \o Tail(line) = <<"/nickname", "ERR_ERRONEUSNICKNAME", m>>
    BY <1>1, <2>1
  <2>3. Proper(error)
    BY <1>2, NicknameAnswers
  <2> HIDE DEF error
  <2> QED BY <2>2, <2>3, NicknameAnswers
<1>4. Proper(first) /\ Proper(<<"/nickname", "ERR_NICKNAMEINUSE", n>>)
  BY <1>2, NicknameAnswers
<1>5. Properly(t)
  <2>1. ch # NULL => ch \in Channel /\ rooms'[ch] \in Room
    BY DEF Inv, Scalars, SoundRooms
  <2> HIDE DEF n
  <2>2. ch # NULL => Properly(Reports(ch, c, n, "MESSAGE_CHANGE_NICKNAME", nickname[c]))
    BY <1>2, <2>1, MembershipIsProper DEF Reports
  <2> QED BY <2>2, ProperLists
<1>6. Properly(<<One(c, first)>>)
  BY <1>4, ProperLists DEF One
<1>7. \/ Say(<<One(c, first)>> \o t)
      \/ Refuse(<<One(c, <<"/nickname", "ERR_NICKNAMEINUSE", n>>)>>)
      \/ Refuse(<<One(c, error \o Tail(line))>>)
  BY DEF RunNickname
<1> HIDE DEF n, error, t, first
<1>8. Properly(<<One(c, first)>> \o t)
  BY <1>5, <1>6, ProperTogether
<1> QED BY <1>3, <1>4, <1>7, <1>8, RefusedProperly DEF SaysProperly

LEMMA JoinAnswered ==
    ASSUME Inv, Inv', NEW c \in Client, NEW line, RunJoin(c, line)
    PROVE  SaysProperly
<1> DEFINE me == nickname[c]
<1>1. me \in Target /\ nickname \in [Client -> Target]
  BY DEF Inv, Scalars, Target
<1>2. \/ Refuse(<<One(c, <<"/nickname", "ERR_NICKNAMEINUSE", me>>)>>)
      \/ Refuse(<<One(c, <<"/join", "ERR_BADCHANNELKEY", me>>)>>)
      \/ \E ch \in Channel : Joins(c, ch)
  BY DEF RunJoin, Joins, Enters, IsRefused
<1>3. Proper(<<"/nickname", "ERR_NICKNAMEINUSE", me>>)
  BY <1>1, NicknameAnswers
<1>4. CASE Refuse(<<One(c, <<"/join", "ERR_BADCHANNELKEY", me>>)>>)
  <2>1. Proper(<<"/join", "ERR_BADCHANNELKEY", me>>)
    BY <1>1, WordsOf, UnendedAssumption DEF Proper, Excused
  <2> QED BY <1>4, <2>1, RefusedProperly
<1>5. ASSUME NEW ch \in Channel, Joins(c, ch)  PROVE SaysProperly
  <2>1. Runs(c) /\ rooms'[ch] \in Room
    BY <1>5 DEF Joins, Join, Sends, Inv, SoundRooms
  <2>2. PICK rs \in AfterLeaving(c) : Enters(c, ch, rs) \/ IsRefused(c, ch, rs)
    BY <1>5 DEF Joins
  <2>3. SoundRooms(rs)
    BY <2>1, AfterLeavingIsSound
  <2>4. Properly(Leaves(c, rs))
    <3> DEFINE own == channelOf[c]
               farewell == Membership(own, rs[own], c, me, "MESSAGE_QUIT_CHANNEL", "")
    <3>1. CASE own = NULL
      BY <3>1, ProperLists DEF Leaves
    <3>2. CASE own # NULL
      <4>1. own \in Channel /\ rs[own] \in Room
        BY <2>3, <3>2 DEF Inv, Scalars, SoundRooms
      <4>2. Properly(farewell) /\ Properly(Succeeds(own, rooms[own], rs[own]))
        BY <1>1, <4>1, MembershipIsProper, SuccessionIsProper
      <4>3. Leaves(c, rs) = <<>> \/ Leaves(c, rs) = Succeeds(own, rooms[own], rs[own]) \o farewell
        BY <3>2 DEF Leaves
      <4> QED BY <4>2, <4>3, ProperLists, ProperTogether
    <3> QED BY <3>1, <3>2
  <2>5. CASE Enters(c, ch, rs)
    <3> DEFINE type == IF rs[ch].live THEN "MESSAGE_JOIN_CHANNEL" ELSE "MESSAGE_NEW_JOIN_CHANNEL"
    <3>1. Properly(Reports(ch, c, me, type, ""))
      BY <1>1, <2>1, MembershipIsProper DEF Reports
    <3>2. Say(Leaves(c, rs) \o Reports(ch, c, me, type, ""))
      BY <2>5 DEF Enters
    <3> HIDE DEF type
    <3> QED BY <2>4, <3>1, <3>2, ProperTogether DEF SaysProperly
  <2>6. CASE IsRefused(c, ch, rs)
    <3>1. PICK reason \in Reasons(rs[ch], me) :
            Say(Leaves(c, rs) \o Membership(ch, rs[ch], c, me, reason, ""))
      BY <2>6 DEF IsRefused
    <3>2. reason \in {"ERR_BANNEDFROMCHAN", "ERR_INVITEONLYCHAN"} /\ rs[ch] \in Room
      BY <2>3 DEF Reasons, SoundRooms
    <3>3. Properly(Membership(ch, rs[ch], c, me, reason, ""))
      BY <1>1, <3>2, MembershipIsProper
    <3> QED BY <2>4, <3>1, <3>3, ProperTogether DEF SaysProperly
  <2> QED BY <2>2, <2>5, <2>6
<1> QED BY <1>2, <1>3, <1>4, <1>5, RefusedProperly
(* Whoever may give a command is answered by an operation that asks once more *)
(* and finds the same, so that only what it is about can be wrong.            *)
LEMMA FailsProperly ==
    ASSUME Inv, NEW c \in Client, NEW keyword \in AdminKeywords, NEW n \in Target,
           channelOf[c] # NULL, ~Denied(c), Fails(c, keyword, n)
    PROVE  SaysProperly
<1>1. channelOf[c] \in Channel /\ Privileged(c)
  BY DEF Inv, Scalars, Denied
<1>2. PICK error \in Errors(c, keyword, n) : Say(Answered(c, keyword, error, n))
  BY DEF Fails
<1>3. error = "ERR_NOSUCHNICK"
  BY <1>1 DEF Errors
<1> QED BY <1>1, <1>2, <1>3, AdministrationIsProper DEF Answered, SaysProperly

LEMMA ModeAnswered ==
    ASSUME Inv, NEW c \in Client, NEW line, RunMode(c, line)
    PROVE  SaysProperly
<1> DEFINE mode == decode_mode(line)
           ch == channelOf[c]
           answer == Answered(c, "/mode", "SUCCESS", mode)
<1>1. mode # Unended
  BY DEF decode_mode, Unended
<1>2. Proper(<<"/mode", "ERR_CHANOPRIVSNEEDED">>) /\ Proper(Servermsg("Invalid protocol."))
  BY Remarks DEF Unended
<1>3. ~Fails(c, "/mode", mode) \/ ~(channelOf[c] # NULL /\ ~Denied(c))
  BY DEF Fails, Errors, NoSuchNick, Denied, AdminKeywords
<1>4. Properly(answer)
  <2> DEFINE notice == Notice(<<ch, mode>>)
  <2>1. answer = <<One(c, <<"/mode", "SUCCESS">>), All(rooms'[ch], notice)>>
    BY DEF Answered, Administration
  <2>2. Proper(notice) /\ Proper(<<"/mode", "SUCCESS">>)
    BY <1>1, Remarks
  <2> HIDE DEF notice, answer
  <2> QED BY <2>1, <2>2, ProperLists DEF One, All
<1>5. \/ Refuse(<<One(c, <<"/mode", "ERR_CHANOPRIVSNEEDED">>)>>)
      \/ Refuse(<<One(c, Servermsg("Invalid protocol."))>>)
      \/ Say(answer)
  BY <1>3 DEF RunMode
<1> HIDE DEF answer
<1> QED BY <1>2, <1>4, <1>5, RefusedProperly DEF SaysProperly

LEMMA AdminAnswered ==
    ASSUME Inv, Inv', NEW c \in Client, NEW line \in Received, line[1] \in AdminKeywords,
           RunAdmin(c, line)
    PROVE  SaysProperly
<1> DEFINE keyword == line[1]
           n == Argument(line)
           ch == channelOf[c]
           lack == <<IF keyword = "/whois" THEN keyword ELSE Echo, "ERR_NOSUCHNICK">>
           first == Before(c, keyword, n)
           answer == Answered(c, keyword, Outcome, n)
           last == After(keyword, n)
<1>1. Unnamed \in Target
  BY DEF Target
<1>2. Proper(<<keyword, "ERR_CHANOPRIVSNEEDED">>) /\ Proper(lack)
  BY <1>1, AdminAnswers
<1>3. HasArgument(line) => n \in Nick
  BY ReceivedIs
<1>4. \/ Refuse(<<One(c, <<keyword, "ERR_CHANOPRIVSNEEDED">>)>>)
      \/ Refuse(<<One(c, lack)>>)
      \/ HasArgument(line) /\ ch # NULL /\ Say(first \o answer \o last)
      \/ HasArgument(line) /\ ch # NULL /\ ~Denied(c) /\ Fails(c, keyword, n)
  BY DEF RunAdmin
<1>5. ASSUME HasArgument(line), ch # NULL
      PROVE  Properly(first) /\ Properly(answer) /\ Properly(last)
  <2> HIDE DEF n
  <2>1. n \in Target /\ ch \in Channel /\ rooms'[ch] \in Room
    BY <1>3, <1>5 DEF Inv, Scalars, SoundRooms, Target
  <2>2. \A d : /\ Properly(<<One(d, Servermsg("banned"))>>)
               /\ Properly(<<One(d, Servermsg("welcome"))>>)
    BY Remarks, ProperLists DEF One, Unended
  <2>3. Properly(Succeeds(ch, rooms[ch], rooms'[ch]))
    BY <2>1, SuccessionIsProper
  <2>4. Properly(first)
    <3> DEFINE d == CHOOSE d \in Named(n) : TRUE
    <3>1. \/ first = <<>>
          \/ first = Succeeds(ch, rooms[ch], rooms'[ch]) \o <<One(d, Servermsg("banned"))>>
      BY DEF Before
    <3> HIDE DEF d, first
    <3> QED BY <2>2, <2>3, <3>1, ProperLists, ProperTogether
  <2>5. Properly(answer)
    <3>1. Outcome \in {"SUCCESS", "ERR_NOSUCHNICK"}
      BY DEF Outcome
    <3> HIDE DEF keyword
    <3> QED BY <2>1, <3>1, AdministrationIsProper DEF Answered, keyword
  <2>6. Properly(last)
    BY <2>2, ProperLists DEF After
  <2> QED BY <2>4, <2>5, <2>6
<1>6. ASSUME HasArgument(line), ch # NULL, ~Denied(c), Fails(c, keyword, n)
      PROVE  SaysProperly
  BY <1>3, <1>6, FailsProperly DEF Target
<1> HIDE DEF first, answer, last, lack
<1>7. ASSUME HasArgument(line), ch # NULL, Say(first \o answer \o last)  PROVE SaysProperly
  BY <1>5, <1>7, ProperTogether DEF SaysProperly
<1> QED BY <1>2, <1>4, <1>6, <1>7, RefusedProperly

LEMMA MessageAnswered ==
    ASSUME Inv, Inv', NEW c \in Client, NEW line, RunMessage(c, line)
    PROVE  SaysProperly
<1> DEFINE ch == channelOf[c]
<1>1. Proper(Servermsg("Invalid protocol.")) /\ Proper(Notice(<<"silenced">>))
  BY Remarks DEF Unended
<1>2. \/ Refuse(<<One(c, Servermsg("Invalid protocol."))>>)
      \/ Message(c) /\ Say(Reports(ch, c, nickname[c], "MESSAGE_CLIENT", "text"))
      \/ Refuse(<<One(c, Notice(<<"silenced">>))>>)
  BY DEF RunMessage
<1>3. CASE Message(c) /\ Say(Reports(ch, c, nickname[c], "MESSAGE_CLIENT", "text"))
  <2>1. ch \in Channel /\ nickname[c] \in Target /\ rooms'[ch] \in Room
    BY <1>3 DEF Message, Inv, Scalars, SoundRooms, Target
  <2>2. Properly(Reports(ch, c, nickname[c], "MESSAGE_CLIENT", "text"))
    BY <2>1, MembershipIsProper DEF Reports
  <2> QED BY <1>3, <2>2 DEF SaysProperly
<1> QED BY <1>1, <1>2, <1>3, RefusedProperly

LEMMA RunAnswered ==
    ASSUME Inv, Inv', NEW c \in Client, NEW line \in Received, clt_run(c, line)
    PROVE  SaysProperly
<1>1. \/ line[1] = "/nickname" /\ RunNickname(c, line)
      \/ RunJoin(c, line) \/ RunMode(c, line)
      \/ line[1] \in AdminKeywords /\ RunAdmin(c, line)
      \/ RunMessage(c, line)
      \/ Refuse(EnterFirst(c))
      \/ Refuse(<<One(c, Servermsg("pong"))>>)
      \/ Refuse(<<One(c, CHANNEL_list)>>)
      \/ Refuse(<<>>)
  <2>1. /\ detect_action(line) \in AdminKeywords => line[1] \in AdminKeywords
        /\ detect_action(line) = "/nickname" => line[1] = "/nickname"
    BY DEF detect_action, AdminKeywords
  <2> QED BY <2>1 DEF clt_run
<1>2. Properly(EnterFirst(c))
  <2>1. Proper(Servermsg("enter a channel"))
    BY Remarks DEF Unended
  <2>2. Proper(<<"\t/join", "to enter">>) /\ Proper(<<"\t/list", "to see">>)
    BY Remarks DEF Strays
  <2> QED BY <2>1, <2>2, ProperLists DEF EnterFirst, One
<1>3. Proper(Servermsg("pong")) /\ Proper(CHANNEL_list)
  BY Remarks DEF CHANNEL_list, Unended
<1>4. Properly(<<>>)
  BY ProperLists
<1>5. CASE Refuse(EnterFirst(c)) \/ Refuse(<<>>)
  BY <1>2, <1>4, <1>5 DEF Refuse, SaysProperly
<1> QED BY <1>1, <1>3, <1>5, NicknameAnswered, JoinAnswered, ModeAnswered, AdminAnswered,
           MessageAnswered, RefusedProperly

LEMMA DepartureAnswered ==
    ASSUME Inv, Inv', NEW c \in Client, Departs(c)
    PROVE  SaysProperly
<1> DEFINE ch == channelOf[c]
           farewell == Membership(ch, rooms[ch], c, nickname[c], "MESSAGE_QUIT_CHANNEL", "")
           heir == Succeeds(ch, rooms[ch], rooms'[ch])
<1>1. Say(IF ch = NULL THEN <<>> ELSE farewell \o heir)
  BY DEF Departs
<1>2. CASE ch # NULL
  <2>1. ch \in Channel /\ rooms[ch] \in Room /\ rooms'[ch] \in Room /\ nickname[c] \in Target
    BY <1>2 DEF Inv, Scalars, SoundRooms, Target
  <2>2. Properly(farewell) /\ Properly(heir)
    BY <2>1, MembershipIsProper, SuccessionIsProper
  <2> HIDE DEF farewell, heir
  <2> QED BY <1>1, <1>2, <2>2, ProperTogether DEF SaysProperly
<1>3. CASE ch = NULL
  BY <1>1, <1>3, ProperLists DEF SaysProperly
<1> QED BY <1>2, <1>3

LEMMA StepAnswered ==
    ASSUME ServerHolds, ServerHolds', Acquainted, SNext
    PROVE  \A line \in told' : Proper(line)
<1>1. PICK c \in Client :
        \/ Open(c) \/ Type(c) \/ Read(c) \/ ReadCut(c) \/ Close(c)
        \/ Handle(c) \/ Departs(c) \/ Forget(c)
  BY DEF SNext
<1>2. SaysProperly => \A line \in told' : Proper(line)
  BY DEF SaysProperly, Properly, Say
<1>3. CASE Open(c) \/ Type(c) \/ Read(c) \/ ReadCut(c) \/ Close(c) \/ Forget(c)
  BY <1>3 DEF Open, Type, Read, ReadCut, Close, Forget
<1>4. CASE Handle(c)
  <2>1. PICK line \in Received : clt_run(c, line) \/ Dies(c, line)
    BY <1>4, HandleIs DEF Acquainted
  <2>2. fault = "none" /\ Inv
    BY <1>4 DEF Handle, Runs, ServerHolds
  <2>3. CASE clt_run(c, line)
    <3>1. UNCHANGED fault
      BY <2>3, RunIs DEF Steady, Renames, Kicks, Joins, Idle, Message, Mode, Invite, Unkick, Mute,
         Unmute, Nickname, Kick, Join, Quiet
    <3>2. Inv'
      BY <2>2, <3>1 DEF ServerHolds
    <3> QED BY <1>2, <2>2, <2>3, <3>2, RunAnswered
  <2>4. CASE Dies(c, line)
    BY <2>4 DEF Dies
  <2> QED BY <2>1, <2>3, <2>4
<1>5. CASE Departs(c)
  <2>1. fault = "none" /\ fault' = "none"
    BY <1>5 DEF Departs, HangUp, Runs, Quiet
  <2> QED BY <1>2, <1>5, <2>1, DepartureAnswered DEF ServerHolds
<1> QED BY <1>1, <1>3, <1>4, <1>5

(* Each line that the server sends ends, although the refusals of the channel *)
(* operations do not: clt_run has asked for the privilege before they do.     *)
THEOREM EveryAnswerEnds == SSpec => AnswersEnd
<1>1. ServerHolds /\ Acquainted /\ (ServerHolds /\ Acquainted)' /\ [SNext]_<<vars, session>>
        => [\A line \in told' : Last(line) # Unended]_told
  BY StepAnswered DEF Proper, session
<1> QED BY <1>1, AlwaysAcquainted, PTL DEF SSpec, AnswersEnd

(* And the codec of the client understands each, but for the advice to enter  *)
(* a channel and the answers to commands that a recv cut.                     *)
THEOREM EveryAnswerIsUnderstood == SSpec => AnswersUnderstood
<1> DEFINE Judged ==
             \A line \in told' :
                 \/ Understood(line) # INVALID_PROTOCOL
                 \/ line \in Strays
                 \/ line \in {<<"/nickname", "ERR_ERRONEUSNICKNAME">>, <<Echo, "ERR_NOSUCHNICK">>}
                 \/ line[1] = "/join" /\ line[2] = "ERR_BADCHANNELKEY"
<1>1. ServerHolds /\ Acquainted /\ (ServerHolds /\ Acquainted)' /\ [SNext]_<<vars, session>>
        => [Judged]_told
  BY StepAnswered DEF Proper, Excused, session
<1> QED BY <1>1, AlwaysAcquainted, PTL DEF SSpec, AnswersUnderstood

=============================================================================
