------------------------------- MODULE MCDeck -------------------------------
EXTENDS Deck, TLC

Symmetry == Permutations(Words) \cup Permutations(Requests)

=============================================================================
