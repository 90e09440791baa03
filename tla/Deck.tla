--------------------------------- MODULE Deck ---------------------------------
(***************************************************************************)
(* The learning decks of one user: DeckService                             *)
(* (src/src/deck/deck.service.ts).                                         *)
(*                                                                         *)
(* A new card goes to NEW; what overflows NEW goes to OLD, then RETIRED,   *)
(* then the numbered decks.  addWord does all of it in statements of its   *)
(* own, on counts and cards read earlier, and a client may send several    *)
(* requests together: each statement is a step.  updateMany finds cards by *)
(* id, so a card that was removed is not found, even if its word was added *)
(* again.                                                                  *)
(*                                                                         *)
(* Left out: movedAt, which chooses the cards that overflow (any may, in   *)
(* the model) and which rateCard renews; deckNumber and the origin of a    *)
(* card whose deck type gives them no meaning, which nothing reads; the    *)
(* reads and the log; the rotation of the numbered decks (getDueCards).    *)
(***************************************************************************)
EXTENDS Naturals, FiniteSets

CONSTANTS
  Words,            \* lemmas
  Requests,         \* calls that may be under way at the same time
  DefaultLimit,     \* DEFAULT_DECK_LIMIT
  Limits            \* the values the user may set deckMaxSize to

ASSUME WordsAssumption == IsFiniteSet(Words)
ASSUME LimitsAssumption == Limits \cup {DefaultLimit} \subseteq Nat \ {0}

VARIABLES
  card,             \* the UserDeckCard of each word
  limit,            \* UserDeckState.deckMaxSize
  req,              \* what each request is doing
  bound,            \* history: the largest deckMaxSize so far
  grown             \* history: decks that a card came back to, or that a failed
                    \* rebalance left, since a rebalance last counted them

vars == <<card, limit, req, bound, grown>>

Overflowing == {"NEW", "OLD", "RETIRED"}
Below == [NEW |-> "OLD", OLD |-> "RETIRED"]
\* A plan fills the numbered decks one after the other, with the cards it selected on top
\* of those it counted there, some of them perhaps the same.
Numbers == 1..(2 * Cardinality(Words))

\* A deck: its type, and for a numbered one its number.  "OUT": the word has no card.
Deck == [type : Overflowing \cup {"REPEAT", "OUT"}, number : {0}]
          \cup [type : {"NUMBERED"}, number : Numbers]
Typed(t) == [type |-> t, number |-> 0]
Numbered(n) == [type |-> "NUMBERED", number |-> n]
Out == Typed("OUT")

\* A UserDeckCard row: its deck, and while that is REPEAT the one it came from.
Card == [deck : Deck, home : Deck]
In(d) == [deck |-> d, home |-> Out]
None == 0

(***************************************************************************)
(* addWord: has found no card ("creating"), is to read the settings        *)
(* ("reading"), to count deck `deck' ("counting"), to select the `over'    *)
(* oldest ("picking"), to move the `cards' selected to the deck below      *)
(* ("moving").  RETIRED overflows into the numbered decks: their `sizes'   *)
(* are still to be read ("shelving", `gone' being cards removed since they *)
(* were selected), or were read before the cards are selected              *)
(* ("choosing"); then the cards move as `plan' says ("archiving").         *)
(* addToRepeat ("repeating") and returnFromRepeat ("returning") are about  *)
(* to write the deck and number they read.                                 *)
(***************************************************************************)
Rebalancing ==
  {"reading", "counting", "picking", "shelving", "choosing", "moving", "archiving"}
Adding == Rebalancing \cup {"creating"}
Request == [at : Adding \cup {"idle", "repeating", "returning"}, word : Words \cup {None},
            deck : Deck, limit : Nat, over : Nat,
            cards : SUBSET Words, gone : SUBSET Words, sizes : [Numbers -> Nat],
            plan : [Words -> Numbers \cup {None}]]
NoPlan == [w \in Words |-> None]
NoSizes == [n \in Numbers |-> 0]
IdleRequest == [at |-> "idle", word |-> None, deck |-> Out,
                limit |-> None, over |-> 0, cards |-> {}, gone |-> {}, sizes |-> NoSizes,
                plan |-> NoPlan]

InDeck(d) == {w \in Words : card[w].deck = d}
Size(t) == Cardinality(InDeck(Typed(t)))

TypeOK ==
  /\ card \in [Words -> Card]
  /\ limit \in Nat \ {0}
  /\ req \in [Requests -> Request]
  /\ bound \in Nat /\ limit <= bound
  /\ grown \subseteq Overflowing

Init ==
  /\ card = [w \in Words |-> In(Out)]
  /\ limit = DefaultLimit /\ bound = DefaultLimit
  /\ req = [r \in Requests |-> IdleRequest]
  /\ grown = {}
-----------------------------------------------------------------------------
Goto(r, rec) == req' = [req EXCEPT ![r] = rec]
End(r) == Goto(r, IdleRequest)

\* The cards of S in deck d.
Moved(S, d) == [w \in Words |-> IF w \in S THEN In(d) ELSE card[w]]
-----------------------------------------------------------------------------
(* addWord and its rebalance *)

\* A word that has a card already is answered at once.
AddRead(r, w) ==
  /\ req[r].at = "idle"
  /\ card[w].deck = Out
  /\ Goto(r, [IdleRequest EXCEPT !.at = "creating", !.word = w])
  /\ UNCHANGED <<card, limit, bound, grown>>

\* The insert is rejected by @@unique([userId, lemmaId]) if the card exists now.
Create(r) ==
  /\ req[r].at = "creating"
  /\ IF card[req[r].word].deck = Out
     THEN /\ card' = Moved({req[r].word}, Typed("NEW"))
          /\ Goto(r, [IdleRequest EXCEPT !.at = "reading"])
     ELSE End(r) /\ UNCHANGED card
  /\ UNCHANGED <<limit, bound, grown>>

ReadLimit(r) ==
  /\ req[r].at = "reading"
  /\ Goto(r, [IdleRequest EXCEPT !.at = "counting", !.deck = Typed("NEW"), !.limit = limit])
  /\ UNCHANGED <<card, limit, bound, grown>>

\* On to the next deck, once deck d needs nothing more.
Onwards(r, d) ==
  IF d = "RETIRED" THEN End(r)
  ELSE Goto(r, [IdleRequest EXCEPT !.at = "counting", !.deck = Typed(Below[d]), !.limit = req[r].limit])

\* The count that takes a full deck for an overflowing one too late.
CountLate(r) ==
  /\ req[r].at = "counting"
  /\ LET d == req[r].deck.type  n == Size(d)
     IN  /\ IF n <= req[r].limit + 1
            THEN Onwards(r, d)
            ELSE Goto(r, [req[r] EXCEPT !.at = "picking", !.over = n - req[r].limit])
         /\ grown' = grown \ {d}
  /\ UNCHANGED <<card, limit, bound>>

Count(r) ==
  /\ req[r].at = "counting"
  /\ LET d == req[r].deck.type  n == Size(d)
     IN  /\ IF n <= req[r].limit
            THEN Onwards(r, d)
            ELSE Goto(r, [req[r] EXCEPT !.at = "picking", !.over = n - req[r].limit])
         /\ grown' = grown \ {d}
  /\ UNCHANGED <<card, limit, bound>>

\* `take: overflow' of the cards in deck d; which ones, movedAt tells.
Selections(d, over) ==
  {S \in SUBSET InDeck(Typed(d)) :
     Cardinality(S) <= over /\ (Cardinality(S) < over => S = InDeck(Typed(d)))}

\* The cards in each numbered deck.
ShelfSizes == [n \in Numbers |-> Cardinality(InDeck(Numbered(n)))]

\* Each id of S goes to the first numbered deck that is not full yet with the `sizes' read
\* and those that went before; which ids are of cards removed by now, it cannot know.
Plans(S, sizes, lim) ==
  {p \in [Words -> Numbers \cup {None}] :
     LET Filled(n) == sizes[n] + Cardinality({w \in S : p[w] = n})
     IN  \A w \in Words : IF w \in S
                           THEN /\ p[w] # None /\ Filled(p[w]) <= lim
                                /\ \A n \in Numbers : n < p[w] => Filled(n) >= lim
                           ELSE p[w] = None}

\* The select of the oldest cards.  For RETIRED it is one of the two of Promise.all, which
\* the database may run in either order and with other requests' statements between.
PickOldest(r) ==
  /\ req[r].at \in {"picking", "choosing"}
  /\ LET d == req[r].deck.type
     IN  \E S \in Selections(d, req[r].over) :
           \/ /\ req[r].at = "picking"
              /\ Goto(r, [req[r] EXCEPT !.at = IF d = "RETIRED" THEN "shelving" ELSE "moving",
                                        !.cards = S, !.over = 0])
           \/ /\ req[r].at = "choosing"
              /\ \E p \in Plans(S, req[r].sizes, req[r].limit) :
                   Goto(r, [req[r] EXCEPT !.at = "archiving", !.cards = S, !.over = 0,
                                          !.sizes = NoSizes, !.plan = p])
  /\ UNCHANGED <<card, limit, bound, grown>>

\* The other one, which counts the cards of the numbered decks.
ReadShelves(r) ==
  /\ \/ /\ req[r].at = "picking" /\ req[r].deck = Typed("RETIRED")
        /\ Goto(r, [req[r] EXCEPT !.at = "choosing", !.sizes = ShelfSizes])
     \/ /\ req[r].at = "shelving"
        /\ \E p \in Plans(req[r].cards \cup req[r].gone, ShelfSizes, req[r].limit) :
             Goto(r, [req[r] EXCEPT !.at = "archiving", !.gone = {},
                        !.plan = [w \in Words |-> IF w \in req[r].cards THEN p[w] ELSE None]])
  /\ UNCHANGED <<card, limit, bound, grown>>

Move(r) ==
  /\ req[r].at = "moving"
  /\ LET d == req[r].deck.type
     IN  card' = Moved(req[r].cards, Typed(Below[d])) /\ Onwards(r, d)
  /\ UNCHANGED <<limit, bound, grown>>

\* One updateMany for each deck number of the plan, in any order.
Archive(r) ==
  /\ req[r].at = "archiving"
  /\ \/ /\ req[r].cards = {}
        /\ End(r) /\ UNCHANGED card
     \/ \E n \in Numbers :
          LET S == {w \in req[r].cards : req[r].plan[w] = n}
          IN  /\ S # {}
              /\ card' = Moved(S, Numbered(n))
              /\ Goto(r, [req[r] EXCEPT !.cards = @ \ S,
                            !.plan = [w \in Words |-> IF w \in S THEN None ELSE @[w]]])
  /\ UNCHANGED <<limit, bound, grown>>
-----------------------------------------------------------------------------
(* The other handlers *)

\* addToRepeat without its check that the card is not in REPEAT already.
RepeatReadAgain(r, w) ==
  /\ req[r].at = "idle"
  /\ card[w].deck # Out
  /\ Goto(r, [IdleRequest EXCEPT !.at = "repeating", !.word = w, !.deck = card[w].deck])
  /\ UNCHANGED <<card, limit, bound, grown>>

\* addToRepeat reads the card...
RepeatRead(r, w) ==
  /\ req[r].at = "idle"
  /\ card[w].deck.type \notin {"OUT", "REPEAT"}
  /\ Goto(r, [IdleRequest EXCEPT !.at = "repeating", !.word = w, !.deck = card[w].deck])
  /\ UNCHANGED <<card, limit, bound, grown>>

\* ... and stores where it was.
Repeat(r) ==
  /\ req[r].at = "repeating"
  /\ LET w == req[r].word
     IN  IF card[w].deck = Out THEN UNCHANGED card
         ELSE card' = [card EXCEPT ![w] = [deck |-> Typed("REPEAT"), home |-> req[r].deck]]
  /\ End(r)
  /\ UNCHANGED <<limit, bound, grown>>

ReturnRead(r, w) ==
  /\ req[r].at = "idle"
  /\ card[w].deck = Typed("REPEAT")
  /\ Goto(r, [IdleRequest EXCEPT !.at = "returning", !.word = w,
                !.deck = IF card[w].home = Out THEN Typed("NEW") ELSE card[w].home])
  /\ UNCHANGED <<card, limit, bound, grown>>

\* The card goes back where it was, whatever the size of that deck by now.
Return(r) ==
  /\ req[r].at = "returning"
  /\ LET w == req[r].word
     IN  IF card[w].deck = Out THEN UNCHANGED <<card, grown>>
         ELSE /\ card' = Moved({w}, req[r].deck)
              /\ grown' = grown \cup ({req[r].deck.type} \cap Overflowing)
  /\ End(r)
  /\ UNCHANGED <<limit, bound>>

\* A removal that the requests under way do not notice.
RemoveUnseen(w) ==
  /\ card[w].deck # Out
  /\ card' = Moved({w}, Out)
  /\ UNCHANGED <<req, limit, bound, grown>>

\* removeWord, or the deletion of the lemma; selected ids then find nothing.
Remove(w) ==
  /\ card[w].deck # Out
  /\ card' = Moved({w}, Out)
  /\ req' = [r \in Requests |-> [req[r] EXCEPT
               !.cards = @ \ {w}, !.plan = [@ EXCEPT ![w] = None],
               !.gone = @ \cup (IF req[r].at = "shelving" THEN req[r].cards \cap {w} ELSE {})]]
  /\ UNCHANGED <<limit, bound, grown>>

\* updateSettings
SetLimit ==
  /\ \E n \in Limits \ {limit} : limit' = n /\ bound' = IF n > bound THEN n ELSE bound
  /\ UNCHANGED <<card, req, grown>>

\* A statement is rejected, or the server dies under the request.
Fail(r) ==
  /\ req[r].at \in Rebalancing
  /\ End(r)
  /\ grown' = Overflowing
  /\ UNCHANGED <<card, limit, bound>>

NextStep ==
  \/ \E r \in Requests :
       \/ \E w \in Words : AddRead(r, w) \/ RepeatRead(r, w) \/ ReturnRead(r, w)
       \/ Create(r) \/ ReadLimit(r) \/ Count(r) \/ PickOldest(r) \/ ReadShelves(r) \/ Move(r) \/ Archive(r)
       \/ Repeat(r) \/ Return(r) \/ Fail(r)
  \/ \E w \in Words : Remove(w)
  \/ SetLimit

Spec == Init /\ [][NextStep]_vars
-----------------------------------------------------------------------------
(* A card in REPEAT knows the deck it came from, which is not REPEAT itself, and what
   a request is about to write keeps it so, however old what it read is. *)
CardState ==
  /\ TypeOK
  /\ \A w \in Words : /\ card[w].deck = Typed("REPEAT") => card[w].home # Out
                      /\ card[w].home # Typed("REPEAT")
  /\ \A r \in Requests : req[r].at \in {"repeating", "returning"} =>
                            req[r].deck \notin {Out, Typed("REPEAT")}

(* Once no addition is under way, NEW, OLD and RETIRED are within the largest limit
   the user has set, however many additions ran side by side on counts of each other's
   half-done work; except a deck that a card was returned to, or that a failed addition
   left, and that no addition has counted since. *)
SettledWithinLimit ==
  (\A r \in Requests : req[r].at \notin Rebalancing) =>
    \A d \in Overflowing \ grown : Size(d) <= bound

Cards == INSTANCE Collection WITH words <- {w \in Words : card[w].deck # Out}

(* The decks implement Collection: an addition that moves cards it selected before others
   were removed, a return on a card read before and a word added again while they are under
   way neither lose a card nor bring one back. *)
KeepsCards == Cards!Spec
=============================================================================
