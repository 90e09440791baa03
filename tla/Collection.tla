----------------------------- MODULE Collection -----------------------------
(***************************************************************************)
(* What the decks promise of a user's words: a word has a card from the    *)
(* moment it is added until it is removed, and words come and go one at a  *)
(* time.  What moves cards between decks neither loses one nor brings one  *)
(* back.                                                                   *)
(***************************************************************************)
CONSTANT Words

VARIABLE words      \* the words that have a card

Init == words = {}

Add(w) == w \notin words /\ words' = words \cup {w}

RemoveWord(w) == w \in words /\ words' = words \ {w}

Next == \E w \in Words : Add(w) \/ RemoveWord(w)

Spec == Init /\ [][Next]_words
=============================================================================
