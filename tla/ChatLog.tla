------------------------------ MODULE ChatLog ------------------------------
(***************************************************************************)
(* What a chat promises its user: the log of every chat is a list of whole *)
(* turns.  A turn is added as a whole or not at all, and the only turns    *)
(* that leave are the oldest ones, when the same call adds a new one.      *)
(***************************************************************************)
EXTENDS Integers, Sequences

CONSTANTS Chat, WholeTurn(_, _)

VARIABLE turns

Init == turns = [c \in Chat |-> <<>>]

\* The oldest turns make room for the new one.
Add(c, dropped) ==
    LET new == turns'[c][Len(turns'[c])] IN
    /\ turns'[c] # <<>> /\ WholeTurn(c, new)
    /\ turns' = [turns EXCEPT ![c] = Append(SubSeq(@, dropped + 1, Len(@)), new)]

Next == \E c \in Chat : \E dropped \in 0 .. Len(turns[c]) : Add(c, dropped)

Spec == Init /\ [][Next]_turns
=============================================================================
