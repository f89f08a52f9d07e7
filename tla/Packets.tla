------------------------------- MODULE Packets -------------------------------
(***************************************************************************)
(* The sizes of a long message: how cdc_encode_client_message (codec.cpp   *)
(* 152-196) cuts what was typed into packets, and how much of a packet the *)
(* client that receives it shows (codec.cpp 356-377, main.cpp 679-683).    *)
(* Lengths are in bytes; nothing here depends on the bytes themselves.     *)
(***************************************************************************)
EXTENDS Naturals

MAX_MESSAGE_LENGHT == 512

NICKNAME_MAXLENGHT == 50

(* "/msg ", the rank, the name, " :" and the newline.                         *)
message_overhead(nick_len) == 9 + nick_len

(* How many packets a text of len bytes is given.                             *)
qtd_mensagens(len, nick_len) ==
    LET body == MAX_MESSAGE_LENGHT - message_overhead(nick_len)
    IN  (len \div body) + (IF len % body > 0 THEN 1 ELSE 0)

Lesser(a, b) == IF a < b THEN a ELSE b

Space_wide(nick_len) ==    \* mutant: the newline is not counted
    MAX_MESSAGE_LENGHT - (8 + nick_len)

(* The loop that fills a packet runs from behind the ':' up to the byte that  *)
(* the newline takes.                                                         *)
Space(nick_len) == (MAX_MESSAGE_LENGHT - 1) - (8 + nick_len)

(* Where packet i starts in the text, and how much of it the packet holds.    *)
raw_it(len, nick_len, i) == Lesser(len, (i - 1) * Space(nick_len))

Body(len, nick_len, i) == raw_it(len, nick_len, i + 1) - raw_it(len, nick_len, i)

PacketLength(len, nick_len, i) ==
    message_overhead(nick_len) + Body(len, nick_len, i)

(* A relayed line carries the name that the server knows.  The receiver takes *)
(* at most 512 bytes for a line, and of these 50 for rank and name and 500    *)
(* for the text.                                                              *)
Shown(body, nick_len) ==
    /\ 1 + nick_len <= NICKNAME_MAXLENGHT
    /\ body <= 500
    /\ 8 + nick_len + body <= MAX_MESSAGE_LENGHT

-----------------------------------------------------------------------------

NickLengths == 2 .. NICKNAME_MAXLENGHT

(* Texts of up to four packets.                                               *)
TextLengths == 1 .. 1510

(* What a sender needs of its packets: they hold the whole text, none of them *)
(* is empty, each of them fits in one recv of the server (clients.cpp 301),   *)
(* and the byte after the last is not reached.                                *)
CutWhole ==
    \A nick_len \in NickLengths : \A len \in TextLengths :
        LET n == qtd_mensagens(len, nick_len)
        IN  /\ raw_it(len, nick_len, n + 1) = len
            /\ \A i \in 1 .. n :
                 /\ Body(len, nick_len, i) > 0
                 /\ PacketLength(len, nick_len, i) <= MAX_MESSAGE_LENGHT

(* What a receiver needs of them, if the name has between 3 and 49 letters:   *)
(* with 2 a full packet holds a byte more than the receiver's 500, and 50 and *)
(* the rank are more than its 50.                                             *)
Fits ==
    \A nick_len \in 3 .. 49 : \A body \in 1 .. Space(nick_len) : Shown(body, nick_len)

=============================================================================
