------------------------ MODULE MCTokenizationQueue ------------------------
EXTENDS TokenizationQueue, TLC

\* One text a call.
OneText == {<<t>> : t \in Texts}

\* One text, a text twice (the bulk endpoint does not forbid it), or two texts.
ShortLists == OneText \cup (Texts \X Texts)

Symmetry == Permutations(Texts) \cup Permutations(Clients) \cup Permutations(Drains)

=============================================================================
