-------------------------------- MODULE Rounds --------------------------------
(***************************************************************************)
(* What the card game of lab06/sop-cards promises, whatever synchronises   *)
(* it: the game goes in rounds.  Every player present lays a card, then    *)
(* the round is scored, then every player decides whether to stay, and     *)
(* only then does anyone lay the next card.                                *)
(***************************************************************************)
EXTENDS Naturals

CONSTANTS Players, M  \* M rounds at most
VARIABLES present,    \* the players in the game
          laid,       \* laid[p]: how many cards p has laid
          decided,    \* decided[p]: after how many rounds p has decided
          scored      \* how many rounds were scored

vars == <<present, laid, decided, scored>>

Init == /\ present = Players
        /\ laid = [p \in Players |-> 0]
        /\ decided = [p \in Players |-> 0]
        /\ scored = 0

Lay(p) ==
    /\ p \in present /\ scored < M
    /\ laid[p] = scored
    /\ \A q \in present : decided[q] = scored
    /\ laid' = [laid EXCEPT ![p] = scored + 1]
    /\ UNCHANGED <<present, decided, scored>>

Score ==
    /\ present # {}
    /\ \A p \in present : laid[p] = scored + 1
    /\ scored' = scored + 1
    /\ UNCHANGED <<present, laid, decided>>

Decide(p) ==
    /\ p \in present
    /\ laid[p] = scored /\ decided[p] = scored - 1
    /\ decided' = [decided EXCEPT ![p] = scored]
    /\ present' \in {present, present \ {p}}
    /\ UNCHANGED <<laid, scored>>

Next == Score \/ \E p \in Players : Lay(p) \/ Decide(p)

Spec == Init /\ [][Next]_vars
=============================================================================
