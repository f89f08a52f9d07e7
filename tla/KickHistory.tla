----------------------------- MODULE KickHistory -----------------------------
(***************************************************************************)
(* ChatServer, and who has been kicked from which channel.  The code has no *)
(* such record: a ban is a pointer to a nickname buffer, put in a set that  *)
(* compares what the buffers say.  The history is what channel.h says of    *)
(* /kick, and the module asks whether the set does the same.                *)
(***************************************************************************)
EXTENDS ChatServer

VARIABLE kicked    \* kicked[ch]: who was kicked from ch and not let in since

(* The history of a channel ends with the channel, also if its last member   *)
(* leaves it by joining it again.                                            *)
Record(history) ==
    kicked' = [ch \in Channel |-> IF rooms'[ch].live THEN history[ch] ELSE {}]

(* /unkick and /invite forgive every client that bears the name.             *)
Forgiven(c, n) ==
    [kicked EXCEPT ![channelOf[c]] = {d \in @ : nickname[d] # n}]

KInit == Init /\ kicked = [ch \in Channel |-> {}]

KNext ==
    \E c \in Client :
        \/ \E n \in Target :
              \/ /\ Kick(c, n)
                 /\ Record([kicked EXCEPT ![channelOf[c]] = @ \cup Named(n)])
              \/ /\ Unkick(c, n) \/ Invite(c, n)
                 /\ Record(Forgiven(c, n))
        \/ /\ \/ Connect(c) \/ HangUp(c) \/ Destroy(c)
              \/ \E n \in Nick : Nickname(c, n)
           /\ Record(kicked)
        \/ \E ch \in Channel :
              /\ Join(c, ch)
              /\ Record(IF Members(ch) = {c} THEN [kicked EXCEPT ![ch] = {}] ELSE kicked)

KSpec == KInit /\ [][KNext]_<<vars, kicked>>

(* channel.h 305: a kicked user is put out of the channel and kept from       *)
(* entering it again, and channel.h 269: under whatever name.  But the ban is *)
(* not recorded if the set holds that name already, as it does when somebody  *)
(* banned earlier under it has gone and the name was taken anew.              *)
KickedStaysOut ==
    \A ch \in Channel : kicked[ch] \cap Members(ch) = {}

=============================================================================
