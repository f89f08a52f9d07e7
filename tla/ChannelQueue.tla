----------------------------- MODULE ChannelQueue -----------------------------
(***************************************************************************)
(* What a user is promised of channels (README.md 7): a channel is a line  *)
(* of people in the order in which they came, a person stands in at most   *)
(* one line, and the administrator is whoever stands first.  Nothing else  *)
(* that happens on the server, names and renames included, is visible      *)
(* here.  ChatServer implements it as long as no ghost is inserted.        *)
(***************************************************************************)
EXTENDS Naturals, SequencesExt

CONSTANTS Person, Channel, Nobody

VARIABLES
    line,    \* line[ch]: the people in ch, longest there first
    chair    \* chair[ch]: its administrator, or Nobody

vars == <<line, chair>>

In(p, ch) == p \in ToSet(line[ch])

(* The line q once p has stepped out of it. *)
Without(q, p) == RemoveFirst(q, p)

(* The lines become l, and whoever is first in each takes the chair. *)
Becomes(l) ==
    /\ line' = l
    /\ chair' = [ch \in Channel |-> IF l[ch] = <<>> THEN Nobody ELSE Head(l[ch])]

Init ==
    /\ line = [ch \in Channel |-> <<>>]
    /\ chair = [ch \in Channel |-> Nobody]

Enter(p, ch) ==
    /\ \A other \in Channel : ~In(p, other)
    /\ Becomes([line EXCEPT ![ch] = Append(@, p)])

Leave(p, ch) ==
    /\ In(p, ch)
    /\ Becomes([line EXCEPT ![ch] = Without(@, p)])

(* To the end of another line, or of the same. *)
Move(p, from, to) ==
    /\ In(p, from)
    /\ Becomes([[line EXCEPT ![from] = Without(@, p)] EXCEPT ![to] = Append(@, p)])

Next ==
    \E p \in Person, ch \in Channel :
        \/ Enter(p, ch)
        \/ Leave(p, ch)
        \/ \E to \in Channel : Move(p, ch, to)

Spec == Init /\ [][Next]_vars

-----------------------------------------------------------------------------

(* Nobody stands in two lines or twice in one. *)
OneLineEach ==
    \A ch, other \in Channel : \A i \in DOMAIN line[ch], j \in DOMAIN line[other] :
        line[ch][i] = line[other][j] => ch = other /\ i = j

=============================================================================
