----------------------------- MODULE DeckProofs -----------------------------
(***************************************************************************)
(* Safety of Deck for any number of words, requests and limits.            *)
(***************************************************************************)
EXTENDS Deck, FiniteSetTheorems, TLAPS

USE DEF None

\* What a request holds: a deck of the rebalance and the limit it has read, or the deck
\* a card comes from.
RequestOK(r) ==
  /\ req[r].at \in {"counting", "picking", "shelving", "choosing", "moving", "archiving"} =>
       /\ req[r].deck \in {Typed(t) : t \in Overflowing}
       /\ req[r].limit <= bound
  /\ req[r].at = "moving" => req[r].deck.type # "RETIRED"
  /\ req[r].at \in {"shelving", "choosing", "archiving"} => req[r].deck.type = "RETIRED"
  /\ req[r].at \in {"creating", "repeating", "returning"} => req[r].word \in Words

Requested == \A r \in Requests : RequestOK(r)

\* Request r is going to bring deck t to the largest limit or below: it has not come to
\* t yet, or it has read enough of t to leave no more than that.
Order == [NEW |-> 1, OLD |-> 2, RETIRED |-> 3]
Claims(r, t) ==
  \/ req[r].at = "reading"
  \/ req[r].at = "counting" /\ Order[req[r].deck.type] <= Order[t]
  \/ req[r].at \in {"picking", "shelving", "choosing", "moving", "archiving"}
     /\ Order[req[r].deck.type] < Order[t]
  \/ /\ req[r].at \in {"picking", "choosing"} /\ req[r].deck.type = t
     /\ Size(t) <= req[r].over + bound
  \/ /\ req[r].at \in {"shelving", "moving", "archiving"} /\ req[r].deck.type = t
     /\ Cardinality(InDeck(Typed(t)) \ req[r].cards) <= bound

Settled(t) == Size(t) <= bound \/ \E r \in Requests : Claims(r, t)
Claimed == \A t \in Overflowing \ grown : Settled(t)

\* The cards that r is going to add to the numbered deck n.
Planned(r, n) == {w \in req[r].cards : req[r].plan[w] = n}

Inv == CardState /\ Requested /\ Claimed
-----------------------------------------------------------------------------
(* Decks and their sizes *)

\* A part of the cards is finite, and no larger than the whole.
LEMMA Sizes ==
  ASSUME NEW S \in SUBSET Words, NEW T \in SUBSET S
  PROVE  /\ IsFiniteSet(S) /\ Cardinality(S) \in Nat /\ Cardinality(T) \in Nat
         /\ Cardinality(T) <= Cardinality(S)
<1>1. IsFiniteSet(S)
  BY FS_Subset, WordsAssumption
<1>2. IsFiniteSet(T) /\ Cardinality(T) <= Cardinality(S)
  BY <1>1, FS_Subset
<1> QED BY <1>1, <1>2, FS_CardinalityType

LEMMA Decks ==
  /\ \A t \in Overflowing : Typed(t) \in Deck /\ Typed(t).type = t
                            /\ Typed(t) \notin {Out, Typed("REPEAT")}
  /\ \A n \in Numbers : Numbered(n) \in Deck /\ Numbered(n) \notin {Out, Typed("REPEAT")}
                        /\ \A t : Numbered(n) # Typed(t)
  /\ Out \in Deck /\ Typed("REPEAT") \in Deck /\ Out # Typed("REPEAT")
  /\ \A t, u : Typed(t) = Typed(u) => t = u
  /\ \A m, n : Numbered(n) = Numbered(m) => m = n
<1>1. /\ \A t : Typed(t).type = t
      /\ \A n : Numbered(n).type = "NUMBERED" /\ Numbered(n).number = n
  BY DEF Typed, Numbered
<1>2. \A t \in Overflowing : Typed(t) \in Deck
  BY DEF Typed, Deck
<1>3. \A n \in Numbers : Numbered(n) \in Deck
  BY DEF Numbered, Deck
<1>4. Out \in Deck /\ Typed("REPEAT") \in Deck
  BY DEF Typed, Deck, Out
<1>5. ASSUME NEW n \in Numbers, NEW t PROVE Numbered(n) # Typed(t)
  <2>1. Numbered(n).number = n /\ Typed(t).number = 0 /\ n # 0
    BY DEF Numbered, Typed, Numbers
  <2> QED BY <2>1
<1> QED BY <1>1, <1>2, <1>3, <1>4, <1>5 DEF Overflowing, Out
-----------------------------------------------------------------------------
(* What a step does to the cards and the requests *)

Homes == \A w \in Words : /\ card[w].deck = Typed("REPEAT") => card[w].home # Out
                          /\ card[w].home # Typed("REPEAT")
Target(r) == req[r].at \in {"repeating", "returning"} => req[r].deck \notin {Out, Typed("REPEAT")}
Sound == CardState /\ Requested

LEMMA MovedCards ==
  ASSUME CardState, NEW S \in SUBSET Words, NEW d \in Deck, d # Typed("REPEAT"),
         card' = Moved(S, d)
  PROVE  /\ card' \in [Words -> Card] /\ Homes'
         /\ InDeck(d)' = InDeck(d) \cup S
         /\ \A e : e # d => InDeck(e)' = InDeck(e) \ S
<1>1. \A w \in Words : card'[w] = IF w \in S THEN In(d) ELSE card[w]
  BY DEF Moved
<1>2. In(d) \in Card /\ In(d).deck = d /\ In(d).home = Out /\ Out # Typed("REPEAT")
  BY Decks DEF In, Card
<1>3. \A w \in Words : card[w] \in Card
  BY DEF CardState, TypeOK
<1>4. card' \in [Words -> Card]
  <2>1. card' = [w \in Words |-> card'[w]]
    BY DEF Moved
  <2> QED BY <1>1, <1>2, <1>3, <2>1
<1>5. Homes'
  BY <1>1, <1>2 DEF CardState, Homes
<1>6. \A e : InDeck(e)' = {w \in Words : card'[w].deck = e}
  BY DEF InDeck
<1>7. InDeck(d)' = InDeck(d) \cup S
  BY <1>1, <1>2, <1>6 DEF InDeck
<1>8. ASSUME NEW e, e # d PROVE InDeck(e)' = InDeck(e) \ S
  BY <1>1, <1>2, <1>6, <1>8 DEF InDeck
<1> QED BY <1>4, <1>5, <1>7, <1>8

LEMMA GoneTo ==
  ASSUME req \in [Requests -> Request], NEW r \in Requests, NEW rec \in Request, Goto(r, rec)
  PROVE  /\ req' \in [Requests -> Request]
         /\ req'[r] = rec /\ \A q \in Requests : q # r => req'[q] = req[q]
BY DEF Goto

\* Requests that a step leaves alone stay as they have to be.
LEMMA OthersOK ==
  ASSUME CardState, Requested, NEW r \in Requests,
         \A q \in Requests : q # r => req'[q] = req[q],
         RequestOK(r)', Target(r)', bound' \in Nat, bound <= bound'
  PROVE  Requested' /\ \A q \in Requests : Target(q)'
<1>1. bound \in Nat /\ \A q \in Requests : req[q].limit \in Nat
  BY DEF CardState, TypeOK, Request
<1>2. \A q \in Requests : Target(q)
  BY DEF CardState, Target
<1>3. ASSUME NEW q \in Requests, q # r PROVE RequestOK(q)' /\ Target(q)'
  <2>1. req'[q] = req[q] /\ RequestOK(q)
    BY <1>3 DEF Requested
  <2>2. req[q].limit <= bound => req[q].limit <= bound'
    BY <1>1
  <2> QED BY <1>2, <2>1, <2>2 DEF RequestOK, Target
<1> QED BY <1>3 DEF Requested

LEMMA IdleOK ==
  /\ IdleRequest \in Request /\ IdleRequest.at = "idle"
  /\ \A t \in Overflowing, l \in Nat :
       [IdleRequest EXCEPT !.at = "counting", !.deck = Typed(t), !.limit = l] \in Request
<1>1. NoPlan \in [Words -> Numbers \cup {None}] /\ NoSizes \in [Numbers -> Nat] /\ Out \in Deck
  BY Decks DEF NoPlan, NoSizes
<1>2. IdleRequest \in Request
  BY <1>1 DEF IdleRequest, Request
<1>3. \A t \in Overflowing : Typed(t) \in Deck
  BY Decks
<1> QED BY <1>2, <1>3 DEF IdleRequest, Request, Adding, Rebalancing

\* The next deck, or the end.
LEMMA Onward ==
  ASSUME req \in [Requests -> Request], NEW r \in Requests, NEW t \in Overflowing, Onwards(r, t),
         bound' \in Nat, req[r].limit <= bound'
  PROVE  /\ req' \in [Requests -> Request]
         /\ \A q \in Requests : q # r => req'[q] = req[q]
         /\ RequestOK(r)' /\ Target(r)'
         /\ IF t = "RETIRED" THEN req'[r].at = "idle"
            ELSE req'[r].at = "counting" /\ req'[r].deck.type = Below[t]
<1>1. req[r].limit \in Nat
  BY DEF Request
<1>2. CASE t = "RETIRED"
  <2>1. Goto(r, IdleRequest)
    BY <1>2 DEF Onwards, End
  <2>2. req' \in [Requests -> Request] /\ req'[r] = IdleRequest
        /\ \A q \in Requests : q # r => req'[q] = req[q]
    BY <2>1, IdleOK, GoneTo
  <2> QED BY <1>2, <2>2, IdleOK DEF RequestOK, Target
<1>3. CASE t # "RETIRED"
  <2>1. Below[t] \in Overflowing
    BY <1>3 DEF Below, Overflowing
  <2> DEFINE rec == [IdleRequest EXCEPT !.at = "counting", !.deck = Typed(Below[t]), !.limit = req[r].limit]
  <2>2. rec \in Request /\ rec.at = "counting" /\ rec.deck = Typed(Below[t]) /\ rec.limit = req[r].limit
    BY <1>1, <2>1, IdleOK DEF IdleRequest
  <2>3. Goto(r, rec)
    BY <1>3 DEF Onwards
  <2> HIDE DEF rec
  <2>4. req' \in [Requests -> Request] /\ req'[r] = rec
        /\ \A q \in Requests : q # r => req'[q] = req[q]
    BY <2>2, <2>3, GoneTo
  <2>5. req'[r].deck.type = Below[t]
    BY <2>1, <2>2, <2>4, Decks
  <2> QED BY <1>3, <2>1, <2>2, <2>4, <2>5 DEF RequestOK, Target
<1> QED BY <1>2, <1>3
-----------------------------------------------------------------------------
(* The cards and the requests stay as they have to be *)

\* What is left to show of a step of request r.
LEMMA Compose ==
  ASSUME Sound, NEW r \in Requests,
         card' \in [Words -> Card], Homes', limit' \in Nat \ {0}, bound' \in Nat,
         limit' <= bound', bound <= bound', grown' \subseteq Overflowing,
         req' \in [Requests -> Request], \A q \in Requests : q # r => req'[q] = req[q],
         RequestOK(r)', Target(r)'
  PROVE  Sound'
<1>1. Requested' /\ \A q \in Requests : Target(q)'
  BY OthersOK DEF Sound
<1> QED BY <1>1 DEF Sound, CardState, TypeOK, Homes, Target

LEMMA Unchanged ==
  ASSUME Sound
  PROVE  /\ card \in [Words -> Card] /\ Homes /\ limit \in Nat \ {0} /\ bound \in Nat
         /\ limit <= bound /\ grown \subseteq Overflowing
         /\ req \in [Requests -> Request] /\ \A r \in Requests : RequestOK(r) /\ Target(r)
BY DEF Sound, CardState, TypeOK, Homes, Requested, Target

\* A step of r that leaves all but the requests.
LEMMA OnlyRequests ==
  ASSUME Sound, NEW r \in Requests, UNCHANGED <<card, limit, bound>>,
         grown' \subseteq Overflowing,
         req' \in [Requests -> Request], \A q \in Requests : q # r => req'[q] = req[q],
         RequestOK(r)', Target(r)'
  PROVE  Sound'
<1>1. /\ card' \in [Words -> Card] /\ Homes' /\ limit' \in Nat \ {0} /\ bound' \in Nat
      /\ limit' <= bound' /\ bound <= bound'
  BY Unchanged DEF Homes
<1> QED BY <1>1, Compose

\* A step of r that moves cards.
LEMMA CardsAndRequests ==
  ASSUME Sound, NEW r \in Requests, NEW S \in SUBSET Words, NEW d \in Deck, d # Typed("REPEAT"),
         card' = Moved(S, d), UNCHANGED <<limit, bound>>, grown' \subseteq Overflowing,
         req' \in [Requests -> Request], \A q \in Requests : q # r => req'[q] = req[q],
         RequestOK(r)', Target(r)'
  PROVE  Sound'
<1>1. card' = Moved(S, d)
  BY Unchanged
<1>2. card' \in [Words -> Card] /\ Homes'
  BY <1>1, MovedCards DEF Sound
<1>3. limit' \in Nat \ {0} /\ bound' \in Nat /\ limit' <= bound' /\ bound <= bound'
  BY Unchanged
<1> QED BY <1>1, <1>2, <1>3, Compose

\* The end of request r.
LEMMA Ended ==
  ASSUME Sound, NEW r \in Requests, End(r)
  PROVE  /\ req' \in [Requests -> Request] /\ \A q \in Requests : q # r => req'[q] = req[q]
         /\ req'[r] = IdleRequest /\ RequestOK(r)' /\ Target(r)'
<1>1. /\ req' \in [Requests -> Request] /\ \A q \in Requests : q # r => req'[q] = req[q]
      /\ req'[r] = IdleRequest
  BY Unchanged, IdleOK, GoneTo DEF End
<1> QED BY <1>1, IdleOK DEF RequestOK, Target

LEMMA AddSound ==
  ASSUME Sound, NEW r \in Requests, NEW w \in Words, AddRead(r, w) \/ Create(r)
  PROVE  Sound'
<1>u. /\ grown \subseteq Overflowing /\ limit \in Nat
      /\ req \in [Requests -> Request] /\ RequestOK(r) /\ limit <= bound
  BY Unchanged
<1>1. CASE AddRead(r, w)
  <2> DEFINE rec == [IdleRequest EXCEPT !.at = "creating", !.word = w]
  <2>1. rec \in Request /\ rec.at = "creating" /\ rec.word = w
    BY IdleOK DEF IdleRequest, Request, Adding
  <2>2. Goto(r, rec)
    BY <1>1 DEF AddRead
  <2> HIDE DEF rec
  <2>3. /\ req' \in [Requests -> Request] /\ req'[r] = rec
        /\ \A q \in Requests : q # r => req'[q] = req[q]
    BY <1>u, <2>1, <2>2, GoneTo
  <2>4. RequestOK(r)' /\ Target(r)'
    BY <2>1, <2>3 DEF RequestOK, Target
  <2> QED BY <1>u, <1>1, <2>3, <2>4, OnlyRequests DEF AddRead
<1>2. CASE Create(r)
  <2>1. CASE card[req[r].word].deck # Out
    <3>1. End(r) /\ UNCHANGED <<card, limit, bound, grown>>
      BY <1>2, <2>1 DEF Create
    <3> QED BY <1>u, <3>1, Ended, OnlyRequests
  <2>2. CASE card[req[r].word].deck = Out
    <3> DEFINE rec == [IdleRequest EXCEPT !.at = "reading"]
    <3>1. rec \in Request /\ rec.at = "reading"
      BY IdleOK DEF IdleRequest, Request, Adding, Rebalancing
    <3>2. /\ Goto(r, rec) /\ UNCHANGED <<limit, bound, grown>>
          /\ card' = Moved({req[r].word}, Typed("NEW"))
      BY <1>2, <2>2 DEF Create
    <3> HIDE DEF rec
    <3>3. /\ req' \in [Requests -> Request] /\ req'[r] = rec
          /\ \A q \in Requests : q # r => req'[q] = req[q]
      BY <1>u, <3>1, <3>2, GoneTo
    <3>4. RequestOK(r)' /\ Target(r)'
      BY <3>1, <3>3 DEF RequestOK, Target
    <3>5. {req[r].word} \in SUBSET Words /\ Typed("NEW") \in Deck /\ Typed("NEW") # Typed("REPEAT")
      BY <1>u, <1>2, Decks DEF Create, RequestOK, Overflowing
    <3> QED BY <1>u, <3>2, <3>3, <3>4, <3>5, CardsAndRequests
  <2> QED BY <2>1, <2>2
<1> QED BY <1>1, <1>2

LEMMA ReadSound ==
  ASSUME Sound, NEW r \in Requests, ReadLimit(r)
  PROVE  Sound' /\ req'[r].at = "counting" /\ req'[r].deck.type = "NEW"
         /\ \A q \in Requests : q # r => req'[q] = req[q]
<1>u. /\ grown \subseteq Overflowing /\ limit \in Nat
      /\ req \in [Requests -> Request] /\ RequestOK(r) /\ limit <= bound
  BY Unchanged
<1> DEFINE rec == [IdleRequest EXCEPT !.at = "counting", !.deck = Typed("NEW"), !.limit = limit]
<1>1. "NEW" \in Overflowing /\ Typed("NEW").type = "NEW"
  BY DEF Overflowing, Typed
<1>2. rec \in Request /\ rec.at = "counting" /\ rec.deck = Typed("NEW") /\ rec.limit = limit
  BY <1>u, <1>1, IdleOK DEF IdleRequest
<1>3. Goto(r, rec) /\ UNCHANGED <<card, limit, bound, grown>>
  BY DEF ReadLimit
<1> HIDE DEF rec
<1>4. /\ req' \in [Requests -> Request] /\ req'[r] = rec
      /\ \A q \in Requests : q # r => req'[q] = req[q]
  BY <1>u, <1>2, <1>3, GoneTo
<1>5. RequestOK(r)' /\ Target(r)'
  BY <1>u, <1>1, <1>2, <1>3, <1>4 DEF RequestOK, Target
<1> QED BY <1>u, <1>1, <1>2, <1>3, <1>4, <1>5, OnlyRequests

\* Where the rebalance of request r stands.
LEMMA AtDeck ==
  ASSUME Sound, NEW r \in Requests, req[r].at \in {"counting", "picking", "shelving", "choosing", "moving", "archiving"}
  PROVE  /\ req[r].deck.type \in Overflowing /\ req[r].deck = Typed(req[r].deck.type)
         /\ req[r].limit <= bound /\ req[r].limit \in Nat /\ req[r].over \in Nat
         /\ req[r].cards \in SUBSET Words /\ req[r] \in Request
<1>1. req[r] \in Request /\ RequestOK(r)
  BY Unchanged
<1> QED BY <1>1, Decks DEF RequestOK, Request

\* A request goes on at its deck.
LEMMA Further ==
  ASSUME Sound, NEW r \in Requests, req[r].at \in {"counting", "picking", "shelving", "choosing", "moving", "archiving"},
         NEW rec \in Request, rec.at \in {"picking", "shelving", "choosing", "moving", "archiving"},
         rec.deck = req[r].deck, rec.limit = req[r].limit,
         rec.at = "moving" => req[r].deck.type # "RETIRED",
         rec.at \in {"shelving", "choosing", "archiving"} => req[r].deck.type = "RETIRED",
         Goto(r, rec), bound' = bound
  PROVE  /\ req' \in [Requests -> Request] /\ \A q \in Requests : q # r => req'[q] = req[q]
         /\ req'[r] = rec /\ RequestOK(r)' /\ Target(r)'
<1>1. req \in [Requests -> Request] /\ RequestOK(r)
  BY Unchanged
<1>2. /\ req' \in [Requests -> Request] /\ \A q \in Requests : q # r => req'[q] = req[q]
      /\ req'[r] = rec
  BY <1>1, GoneTo
<1>3. RequestOK(r)'
  BY <1>1, <1>2 DEF RequestOK
<1>4. Target(r)'
  BY <1>2 DEF Target
<1> QED BY <1>2, <1>3, <1>4

\* A count lets the request go on, or shows how many cards are too many.
LEMMA Counted ==
  ASSUME Sound, NEW r \in Requests, Count(r)
  PROVE  LET t == req[r].deck.type
         IN  /\ t \in Overflowing /\ Size(t) \in Nat
             /\ \/ Size(t) <= req[r].limit /\ Onwards(r, t)
                \/ /\ req'[r].at = "picking" /\ req'[r].over \in Nat
                   /\ req'[r].deck = req[r].deck /\ Size(t) = req'[r].over + req[r].limit
             /\ req' \in [Requests -> Request] /\ \A q \in Requests : q # r => req'[q] = req[q]
             /\ RequestOK(r)' /\ Target(r)'
<1> DEFINE t == req[r].deck.type
<1>1. req[r].at = "counting" /\ bound' = bound /\ bound \in Nat
  BY Unchanged DEF Count
<1>2. t \in Overflowing /\ req[r].limit \in Nat /\ req[r].limit <= bound /\ req[r] \in Request
  BY <1>1, AtDeck
<1>3. Size(t) \in Nat
  BY Sizes DEF Size, InDeck
<1>4. CASE Size(t) <= req[r].limit
  <2>1. Onwards(r, t)
    BY <1>4 DEF Count
  <2> QED BY <1>1, <1>2, <1>3, <1>4, <2>1, Onward, Unchanged
<1>5. CASE ~(Size(t) <= req[r].limit)
  <2> DEFINE n == Size(t) - req[r].limit
  <2>1. n \in Nat /\ Size(t) = n + req[r].limit
    BY <1>2, <1>3, <1>5
  <2> DEFINE rec == [req[r] EXCEPT !.at = "picking", !.over = n]
  <2>2. Goto(r, rec)
    BY <1>5 DEF Count
  <2> HIDE DEF n
  <2>3. rec \in Request /\ rec.at = "picking" /\ rec.over = n /\ rec.deck = req[r].deck
        /\ rec.limit = req[r].limit
    BY <1>2, <2>1 DEF Request, Adding, Rebalancing
  <2> HIDE DEF rec
  <2>6. /\ req' \in [Requests -> Request] /\ \A q \in Requests : q # r => req'[q] = req[q]
        /\ req'[r] = rec /\ RequestOK(r)' /\ Target(r)'
    BY <1>1, <2>2, <2>3, Further
  <2> QED BY <1>2, <1>3, <2>1, <2>3, <2>6
<1> QED BY <1>4, <1>5

\* A selection takes as many cards as are too many, or all there are.
LEMMA Picked ==
  ASSUME Sound, NEW r \in Requests, PickOldest(r)
  PROVE  LET t == req[r].deck.type  S == req'[r].cards
         IN  /\ t \in Overflowing /\ req[r].at \in {"picking", "choosing"}
             /\ S \in Selections(t, req[r].over)
             /\ req'[r].deck = req[r].deck /\ req'[r].at \in {"shelving", "moving", "archiving"}
             /\ req' \in [Requests -> Request] /\ \A q \in Requests : q # r => req'[q] = req[q]
             /\ RequestOK(r)' /\ Target(r)'
<1> DEFINE t == req[r].deck.type
<1>1. req[r].at \in {"picking", "choosing"} /\ bound' = bound
  BY DEF PickOldest
<1>2. t \in Overflowing /\ req[r] \in Request
  BY <1>1, AtDeck
<1>r. req[r].at = "choosing" => t = "RETIRED"
  BY Unchanged DEF RequestOK
<1>3. PICK S \in Selections(t, req[r].over) :
        \/ /\ req[r].at = "picking"
           /\ Goto(r, [req[r] EXCEPT !.at = IF t = "RETIRED" THEN "shelving" ELSE "moving",
                                     !.cards = S, !.over = 0])
        \/ /\ req[r].at = "choosing"
           /\ \E p \in Plans(S, req[r].sizes, req[r].limit) :
                Goto(r, [req[r] EXCEPT !.at = "archiving", !.cards = S, !.over = 0,
                                       !.sizes = NoSizes, !.plan = p])
  BY DEF PickOldest
<1>4. S \in SUBSET Words
  BY DEF Selections, InDeck
<1>5. CASE req[r].at = "picking"
  <2> DEFINE to == IF t = "RETIRED" THEN "shelving" ELSE "moving"
             rec == [req[r] EXCEPT !.at = to, !.cards = S, !.over = 0]
  <2>1. Goto(r, rec)
    BY <1>3, <1>5
  <2>2. to \in {"shelving", "moving"} /\ (to = "shelving" <=> t = "RETIRED")
    OBVIOUS
  <2> HIDE DEF to
  <2>3. rec \in Request /\ rec.at = to /\ rec.cards = S /\ rec.deck = req[r].deck
        /\ rec.limit = req[r].limit
    BY <1>2, <1>4, <2>2 DEF Request, Adding, Rebalancing
  <2> HIDE DEF rec
  <2>4. /\ req' \in [Requests -> Request] /\ \A q \in Requests : q # r => req'[q] = req[q]
        /\ req'[r] = rec /\ RequestOK(r)' /\ Target(r)'
    BY <1>1, <2>1, <2>2, <2>3, Further
  <2> QED BY <1>1, <1>2, <1>3, <2>2, <2>3, <2>4
<1>6. CASE req[r].at = "choosing"
  <2>1. PICK p \in Plans(S, req[r].sizes, req[r].limit) :
          Goto(r, [req[r] EXCEPT !.at = "archiving", !.cards = S, !.over = 0,
                                 !.sizes = NoSizes, !.plan = p])
    BY <1>3, <1>6
  <2> DEFINE rec == [req[r] EXCEPT !.at = "archiving", !.cards = S, !.over = 0,
                                   !.sizes = NoSizes, !.plan = p]
  <2>2. Goto(r, rec)
    BY <2>1
  <2>3. p \in [Words -> Numbers \cup {None}] /\ NoSizes \in [Numbers -> Nat]
    BY DEF Plans, NoSizes
  <2>4. rec \in Request /\ rec.at = "archiving" /\ rec.cards = S /\ rec.deck = req[r].deck
        /\ rec.limit = req[r].limit
    BY <1>2, <1>4, <2>3 DEF Request, Adding, Rebalancing
  <2> HIDE DEF rec
  <2>5. /\ req' \in [Requests -> Request] /\ \A q \in Requests : q # r => req'[q] = req[q]
        /\ req'[r] = rec /\ RequestOK(r)' /\ Target(r)'
    BY <1>1, <1>6, <1>r, <2>2, <2>4, Further
  <2> QED BY <1>1, <1>2, <1>3, <2>4, <2>5
<1> QED BY <1>1, <1>5, <1>6

\* The numbered decks are read before the selection or after it.
LEMMA ShelvesRead ==
  ASSUME Sound, NEW r \in Requests, ReadShelves(r)
  PROVE  /\ \/ req[r].at = "picking" /\ req'[r].at = "choosing"
            \/ req[r].at = "shelving" /\ req'[r].at = "archiving"
         /\ req'[r].deck = req[r].deck /\ req'[r].over = req[r].over /\ req'[r].cards = req[r].cards
         /\ req' \in [Requests -> Request] /\ \A q \in Requests : q # r => req'[q] = req[q]
         /\ RequestOK(r)' /\ Target(r)'
<1>1. req[r].at \in {"picking", "shelving"} /\ bound' = bound
  BY DEF ReadShelves
<1>2. req[r] \in Request /\ RequestOK(r)
  BY <1>1, AtDeck, Unchanged
<1>3. CASE req[r].at = "picking"
  <2> DEFINE rec == [req[r] EXCEPT !.at = "choosing", !.sizes = ShelfSizes]
  <2>1. Goto(r, rec) /\ req[r].deck.type = "RETIRED"
    BY <1>3, Decks DEF ReadShelves, Overflowing
  <2>2. ShelfSizes \in [Numbers -> Nat]
    BY Sizes DEF ShelfSizes, InDeck
  <2>3. /\ rec \in Request /\ rec.at = "choosing" /\ rec.deck = req[r].deck
        /\ rec.limit = req[r].limit /\ rec.over = req[r].over /\ rec.cards = req[r].cards
    BY <1>2, <2>2 DEF Request, Adding, Rebalancing
  <2> HIDE DEF rec
  <2>4. /\ req' \in [Requests -> Request] /\ \A q \in Requests : q # r => req'[q] = req[q]
        /\ req'[r] = rec /\ RequestOK(r)' /\ Target(r)'
    BY <1>1, <1>3, <2>1, <2>3, Further
  <2> QED BY <1>3, <2>3, <2>4
<1>4. CASE req[r].at = "shelving"
  <2>1. PICK p \in Plans(req[r].cards \cup req[r].gone, ShelfSizes, req[r].limit) :
             Goto(r, [req[r] EXCEPT !.at = "archiving", !.gone = {},
                        !.plan = [w \in Words |-> IF w \in req[r].cards THEN p[w] ELSE None]])
    BY <1>4 DEF ReadShelves
  <2> DEFINE plan == [w \in Words |-> IF w \in req[r].cards THEN p[w] ELSE None]
             rec == [req[r] EXCEPT !.at = "archiving", !.gone = {}, !.plan = plan]
  <2>2. Goto(r, rec)
    BY <2>1
  <2>3. plan \in [Words -> Numbers \cup {None}]
    BY DEF Plans
  <2> HIDE DEF plan
  <2>4. /\ rec \in Request /\ rec.at = "archiving" /\ rec.deck = req[r].deck
        /\ rec.limit = req[r].limit /\ rec.over = req[r].over /\ rec.cards = req[r].cards
    BY <1>2, <2>3 DEF Request, Adding, Rebalancing
  <2> HIDE DEF rec
  <2>5. req[r].deck.type = "RETIRED"
    BY <1>2, <1>4 DEF RequestOK
  <2>6. /\ req' \in [Requests -> Request] /\ \A q \in Requests : q # r => req'[q] = req[q]
        /\ req'[r] = rec /\ RequestOK(r)' /\ Target(r)'
    BY <1>1, <1>4, <2>2, <2>4, <2>5, Further
  <2> QED BY <1>4, <2>4, <2>6
<1> QED BY <1>1, <1>3, <1>4

\* The cards selected go to the deck below, and the request on to that.
LEMMA MovedOn ==
  ASSUME Sound, NEW r \in Requests, Move(r)
  PROVE  LET t == req[r].deck.type
         IN  /\ t \in {"NEW", "OLD"} /\ req[r].at = "moving"
             /\ req[r].cards \in SUBSET Words /\ card' = Moved(req[r].cards, Typed(Below[t]))
             /\ req'[r].at = "counting" /\ req'[r].deck.type = Below[t]
             /\ req' \in [Requests -> Request] /\ \A q \in Requests : q # r => req'[q] = req[q]
             /\ RequestOK(r)' /\ Target(r)' /\ UNCHANGED <<limit, bound, grown>>
<1> DEFINE t == req[r].deck.type
<1>1. /\ req[r].at = "moving" /\ UNCHANGED <<limit, bound, grown>> /\ Onwards(r, t)
      /\ card' = Moved(req[r].cards, Typed(Below[t]))
  BY DEF Move
<1>2. t \in Overflowing /\ req[r].cards \in SUBSET Words /\ req[r].limit <= bound /\ RequestOK(r)
  BY <1>1, AtDeck, Unchanged
<1>3. t # "RETIRED"
  BY <1>1, <1>2 DEF RequestOK
<1>4. bound' \in Nat /\ req[r].limit <= bound' /\ req \in [Requests -> Request]
  BY <1>1, <1>2, Unchanged
<1>5. /\ req' \in [Requests -> Request] /\ \A q \in Requests : q # r => req'[q] = req[q]
      /\ RequestOK(r)' /\ Target(r)'
      /\ req'[r].at = "counting" /\ req'[r].deck.type = Below[t]
  BY <1>1, <1>2, <1>3, <1>4, Onward
<1> QED BY <1>1, <1>2, <1>3, <1>5 DEF Overflowing

\* The cards planned for one numbered deck go there; the request ends with none left.
LEMMA Archived ==
  ASSUME Sound, NEW r \in Requests, Archive(r)
  PROVE  /\ req[r].at = "archiving" /\ req[r].deck.type = "RETIRED" /\ req[r].cards \in SUBSET Words
         /\ req' \in [Requests -> Request] /\ \A q \in Requests : q # r => req'[q] = req[q]
         /\ RequestOK(r)' /\ Target(r)' /\ UNCHANGED <<limit, bound, grown>>
         /\ \/ req[r].cards = {} /\ req'[r].at = "idle" /\ card' = card
            \/ \E n \in Numbers :
                 /\ card' = Moved(Planned(r, n), Numbered(n))
                 /\ req'[r].at = "archiving" /\ req'[r].deck = req[r].deck
                 /\ req'[r].cards = req[r].cards \ Planned(r, n)
<1>1. req[r].at = "archiving" /\ UNCHANGED <<limit, bound, grown>>
  BY DEF Archive
<1>2. req[r] \in Request /\ req[r].cards \in SUBSET Words /\ req[r].deck.type = "RETIRED" /\ RequestOK(r)
  BY <1>1, AtDeck, Unchanged DEF RequestOK
<1>3. CASE req[r].cards = {} /\ End(r) /\ UNCHANGED card
  BY <1>1, <1>2, <1>3, Ended, IdleOK
<1>4. CASE \E n \in Numbers :
             /\ card' = Moved(Planned(r, n), Numbered(n))
             /\ Goto(r, [req[r] EXCEPT !.cards = @ \ Planned(r, n),
                           !.plan = [w \in Words |-> IF w \in Planned(r, n) THEN None ELSE @[w]]])
  <2>1. PICK n \in Numbers :
             /\ card' = Moved(Planned(r, n), Numbered(n))
             /\ Goto(r, [req[r] EXCEPT !.cards = @ \ Planned(r, n),
                           !.plan = [w \in Words |-> IF w \in Planned(r, n) THEN None ELSE @[w]]])
    BY <1>4
  <2> DEFINE S == Planned(r, n)
             p == [w \in Words |-> IF w \in S THEN None ELSE req[r].plan[w]]
             rec == [req[r] EXCEPT !.cards = req[r].cards \ S, !.plan = p]
  <2>2. [req[r] EXCEPT !.cards = @ \ S, !.plan = [w \in Words |-> IF w \in S THEN None ELSE @[w]]] = rec
    BY <1>2 DEF Request
  <2>3. p \in [Words -> Numbers \cup {None}] /\ \A w \in req[r].cards \ S : p[w] = req[r].plan[w]
    BY <1>2 DEF Request
  <2>4. card' = Moved(S, Numbered(n))
    BY <2>1
  <2>5. Goto(r, rec)
    BY <2>1, <2>2
  <2> HIDE DEF p
  <2>6. /\ rec \in Request /\ rec.at = "archiving" /\ rec.cards = req[r].cards \ S /\ rec.plan = p
        /\ rec.deck = req[r].deck /\ rec.limit = req[r].limit
    BY <1>1, <1>2, <2>3 DEF Request
  <2> HIDE DEF rec
  <2>7. /\ req' \in [Requests -> Request] /\ \A q \in Requests : q # r => req'[q] = req[q]
        /\ req'[r] = rec /\ RequestOK(r)' /\ Target(r)'
    BY <1>1, <1>2, <2>5, <2>6, Further
  <2> QED BY <1>1, <1>2, <2>3, <2>4, <2>6, <2>7
<1> QED BY <1>3, <1>4 DEF Archive, Planned

LEMMA RebalanceSound ==
  ASSUME Sound, NEW r \in Requests, Count(r) \/ PickOldest(r) \/ ReadShelves(r) \/ Move(r) \/ Archive(r)
  PROVE  Sound'
<1>u. /\ grown \subseteq Overflowing /\ bound \in Nat
      /\ req \in [Requests -> Request]
  BY Unchanged
<1>1. CASE Count(r)
  <2>1. UNCHANGED <<card, limit, bound>> /\ grown' \subseteq Overflowing
    BY <1>u, <1>1 DEF Count
  <2> QED BY <1>u, <1>1, <2>1, Counted, OnlyRequests
<1>2. CASE PickOldest(r) \/ ReadShelves(r)
  <2>1. UNCHANGED <<card, limit, bound, grown>>
    BY <1>2 DEF PickOldest, ReadShelves
  <2> QED BY <1>u, <1>2, <2>1, Picked, ShelvesRead, OnlyRequests
<1>3. CASE Move(r)
  <2>1. req[r].deck.type \in {"NEW", "OLD"} => Below[req[r].deck.type] \in Overflowing
    BY DEF Below, Overflowing
  <2> QED BY <1>u, <1>3, <2>1, MovedOn, Decks, CardsAndRequests
<1>4. CASE Archive(r)
  <2>1. CASE card' = card
    BY <1>u, <1>4, <2>1, Archived, OnlyRequests
  <2>2. CASE \E n \in Numbers : card' = Moved(Planned(r, n), Numbered(n))
    <3>1. \A n : Planned(r, n) \in SUBSET Words
      BY <1>4, Archived DEF Planned
    <3>2. UNCHANGED <<limit, bound, grown>> /\ RequestOK(r)' /\ Target(r)'
          /\ req' \in [Requests -> Request] /\ \A q \in Requests : q # r => req'[q] = req[q]
      BY <1>4, Archived
    <3> QED BY <1>u, <2>2, <3>1, <3>2, Decks, CardsAndRequests
  <2> QED BY <1>4, <2>1, <2>2, Archived
<1> QED BY <1>1, <1>2, <1>3, <1>4

LEMMA RepeatSound ==
  ASSUME Sound, NEW r \in Requests, NEW w \in Words, RepeatRead(r, w) \/ ReturnRead(r, w)
  PROVE  Sound'
<1> DEFINE at == IF card[w].deck = Typed("REPEAT") THEN "returning" ELSE "repeating"
           d == IF card[w].deck # Typed("REPEAT") THEN card[w].deck
                ELSE IF card[w].home = Out THEN Typed("NEW") ELSE card[w].home
           rec == [IdleRequest EXCEPT !.at = at, !.word = w, !.deck = d]
<1>u. /\ card[w] \in Card /\ Homes /\ req \in [Requests -> Request]
      /\ grown \subseteq Overflowing
  BY Unchanged
<1>1. Goto(r, rec) /\ UNCHANGED <<card, limit, bound, grown>>
  <2>1. CASE RepeatRead(r, w)
    <3>1. card[w].deck # Typed("REPEAT")
      BY <2>1 DEF RepeatRead, Typed
    <3> QED BY <2>1, <3>1 DEF RepeatRead
  <2>2. CASE ReturnRead(r, w)
    <3>1. card[w].deck = Typed("REPEAT")
      BY <2>2 DEF ReturnRead
    <3> QED BY <2>2, <3>1 DEF ReturnRead
  <2> QED BY <2>1, <2>2
<1>2. d \in Deck /\ d \notin {Out, Typed("REPEAT")}
  <2>1. CASE card[w].deck = Typed("REPEAT")
    BY <1>u, <2>1, Decks DEF Card, Homes, Overflowing
  <2>2. CASE card[w].deck # Typed("REPEAT")
    BY <1>u, <2>2 DEF Card, RepeatRead, ReturnRead, Out, Typed
  <2> QED BY <2>1, <2>2
<1>3. at \in {"repeating", "returning"}
  OBVIOUS
<1> HIDE DEF d, at
<1>4. rec \in Request /\ rec.at \in {"repeating", "returning"} /\ rec.word = w /\ rec.deck = d
  BY <1>2, <1>3, IdleOK DEF IdleRequest, Request
<1> HIDE DEF rec
<1>5. /\ req' \in [Requests -> Request] /\ \A q \in Requests : q # r => req'[q] = req[q]
      /\ req'[r] = rec
  BY <1>u, <1>1, <1>4, GoneTo
<1>6. RequestOK(r)' /\ Target(r)'
  BY <1>1, <1>2, <1>4, <1>5 DEF RequestOK, Target, Out, Typed
<1> QED BY <1>u, <1>1, <1>5, <1>6, OnlyRequests

\* A step of addToRepeat or returnFromRepeat ends the request; only a returned card
\* enters a deck, which is then grown.
LEMMA Written ==
  ASSUME Sound, NEW r \in Requests, Repeat(r) \/ Return(r)
  PROVE  /\ Sound' /\ req'[r] = IdleRequest /\ \A q \in Requests : q # r => req'[q] = req[q]
         /\ grown \subseteq grown' /\ UNCHANGED <<limit, bound>>
         /\ \A t \in Overflowing \ grown' : InDeck(Typed(t))' \subseteq InDeck(Typed(t))
<1>u. /\ card \in [Words -> Card] /\ Homes /\ req \in [Requests -> Request] /\ Target(r) /\ RequestOK(r)
      /\ grown \subseteq Overflowing /\ req[r] \in Request
  BY Unchanged
<1> DEFINE w == req[r].word  d == req[r].deck
<1>1. End(r) /\ UNCHANGED <<limit, bound>> /\ req[r].at \in {"repeating", "returning"}
  BY DEF Repeat, Return
<1>2. /\ req' \in [Requests -> Request] /\ \A q \in Requests : q # r => req'[q] = req[q]
      /\ req'[r] = IdleRequest /\ RequestOK(r)' /\ Target(r)'
  BY <1>1, Ended
<1>3. w \in Words /\ d \in Deck /\ d \notin {Out, Typed("REPEAT")}
  BY <1>u, <1>1 DEF RequestOK, Target, Request
<1>4. CASE card[w].deck = Out
  <2>1. UNCHANGED <<card, grown>>
    BY <1>4 DEF Repeat, Return
  <2>2. \A t : InDeck(Typed(t))' = InDeck(Typed(t))
    BY <2>1 DEF InDeck
  <2> QED BY <1>u, <1>1, <1>2, <2>1, <2>2, OnlyRequests
<1>5. CASE card[w].deck # Out /\ Return(r)
  <2>1. card' = Moved({w}, d) /\ grown' = grown \cup ({d.type} \cap Overflowing)
    BY <1>5 DEF Return
  <2>2. Sound'
    BY <1>u, <1>1, <1>2, <1>3, <2>1, CardsAndRequests
  <2>3. ASSUME NEW t \in Overflowing \ grown' PROVE InDeck(Typed(t))' \subseteq InDeck(Typed(t))
    <3>1. Typed(t) # d
      BY <2>1, <2>3, Decks
    <3>2. card' = Moved({w}, d) /\ {w} \in SUBSET Words /\ CardState
      BY <1>3, <2>1 DEF Sound
    <3>3. \A e : e # d => InDeck(e)' = InDeck(e) \ {w}
      BY <1>3, <3>2, MovedCards
    <3> QED BY <3>1, <3>3
  <2> QED BY <1>1, <1>2, <2>1, <2>2, <2>3
<1>6. CASE card[w].deck # Out /\ Repeat(r)
  <2> DEFINE new == [deck |-> Typed("REPEAT"), home |-> d]
  <2>1. card' = [card EXCEPT ![w] = new] /\ grown' = grown
    BY <1>6 DEF Repeat
  <2>2. new \in Card /\ new.deck = Typed("REPEAT") /\ new.home = d
    BY <1>3, Decks DEF Card
  <2> HIDE DEF new
  <2>3. /\ card' = [card EXCEPT ![w] = new] /\ card' \in [Words -> Card]
        /\ \A v \in Words : card'[v] = IF v = w THEN new ELSE card[v]
    BY <1>u, <1>3, <2>1, <2>2
  <2>4. Homes'
    BY <1>u, <1>3, <2>2, <2>3 DEF Homes
  <2>5. limit' \in Nat \ {0} /\ bound' \in Nat /\ limit' <= bound' /\ bound <= bound'
    BY <1>1, Unchanged
  <2>6. Sound'
    BY <1>u, <1>2, <2>1, <2>3, <2>4, <2>5, Compose
  <2>7. ASSUME NEW t \in Overflowing PROVE InDeck(Typed(t))' \subseteq InDeck(Typed(t))
    BY <1>3, <2>2, <2>3, Decks DEF InDeck
  <2> QED BY <1>1, <1>2, <2>1, <2>6, <2>7
<1> QED BY <1>4, <1>5, <1>6

\* A card removed is gone from the deck and from the selections.
LEMMA Removed ==
  ASSUME Sound, NEW w \in Words, Remove(w)
  PROVE  /\ Sound' /\ UNCHANGED <<limit, bound, grown>>
         /\ \A e : e # Out => InDeck(e)' = InDeck(e) \ {w}
         /\ \A r \in Requests :
              /\ req'[r].cards = req[r].cards \ {w}
              /\ req'[r].at = req[r].at /\ req'[r].deck = req[r].deck /\ req'[r].limit = req[r].limit
              /\ req'[r].over = req[r].over
<1>u. /\ limit \in Nat \ {0} /\ bound \in Nat /\ limit <= bound /\ req \in [Requests -> Request]
      /\ grown \subseteq Overflowing
      /\ \A r \in Requests : RequestOK(r) /\ Target(r)
  BY Unchanged
<1>1. card' = Moved({w}, Out) /\ UNCHANGED <<limit, bound, grown>>
  BY DEF Remove
<1>2. /\ card' \in [Words -> Card] /\ Homes'
      /\ \A e : e # Out => InDeck(e)' = InDeck(e) \ {w}
  BY <1>1, Decks, MovedCards DEF Sound
<1>3. ASSUME NEW r \in Requests
      PROVE  /\ req'[r] \in Request /\ req'[r].cards = req[r].cards \ {w}
             /\ req'[r].at = req[r].at /\ req'[r].deck = req[r].deck /\ req'[r].limit = req[r].limit
             /\ req'[r].over = req[r].over /\ req'[r].word = req[r].word
  <2> DEFINE p == [req[r].plan EXCEPT ![w] = None]
  <2> DEFINE g == req[r].gone \cup (IF req[r].at = "shelving" THEN req[r].cards \cap {w} ELSE {})
  <2>1. req'[r] = [req[r] EXCEPT !.cards = req[r].cards \ {w}, !.plan = p, !.gone = g]
    BY <1>u DEF Remove, Request
  <2>2. req[r] \in Request /\ p \in [Words -> Numbers \cup {None}] /\ g \in SUBSET Words
    BY <1>u DEF Request
  <2> HIDE DEF p, g
  <2> QED BY <2>1, <2>2 DEF Request
<1>4. req' \in [Requests -> Request]
  <2>1. req' = [r \in Requests |-> req'[r]]
    BY DEF Remove
  <2> QED BY <1>3, <2>1
<1>5. \A r \in Requests : RequestOK(r)' /\ Target(r)'
  BY <1>u, <1>1, <1>3 DEF RequestOK, Target
<1>6. Sound'
  BY <1>u, <1>1, <1>2, <1>4, <1>5 DEF Sound, CardState, TypeOK, Homes, Requested, Target
<1> QED BY <1>1, <1>2, <1>3, <1>6

LEMMA SetSound ==
  ASSUME Sound, SetLimit
  PROVE  Sound' /\ UNCHANGED <<card, req, grown>> /\ bound <= bound' /\ bound' \in Nat
<1>u. /\ card \in [Words -> Card] /\ Homes /\ limit \in Nat \ {0} /\ bound \in Nat /\ limit <= bound
      /\ grown \subseteq Overflowing /\ req \in [Requests -> Request]
      /\ \A r \in Requests : RequestOK(r) /\ Target(r)
  BY Unchanged
<1>1. UNCHANGED <<card, req, grown>>
  BY DEF SetLimit
<1>2. PICK n \in Limits : limit' = n /\ bound' = IF n > bound THEN n ELSE bound
  BY DEF SetLimit
<1>3. n \in Nat \ {0}
  BY LimitsAssumption
<1>4. limit' \in Nat \ {0} /\ bound' \in Nat /\ limit' <= bound' /\ bound <= bound'
  BY <1>u, <1>2, <1>3
<1>5. \A r \in Requests : req[r].limit \in Nat /\ (req[r].limit <= bound => req[r].limit <= bound')
  BY <1>u, <1>4 DEF Request
<1>6. Requested'
  BY <1>u, <1>1, <1>5 DEF Requested, RequestOK
<1>7. Homes' /\ \A r \in Requests : Target(r)'
  BY <1>u, <1>1 DEF Homes, Target
<1> QED BY <1>u, <1>1, <1>4, <1>6, <1>7 DEF Sound, CardState, TypeOK, Homes, Target

LEMMA FailSound ==
  ASSUME Sound, NEW r \in Requests, Fail(r)
  PROVE  Sound' /\ req'[r] = IdleRequest /\ \A q \in Requests : q # r => req'[q] = req[q]
<1>1. /\ UNCHANGED <<card, limit, bound>> /\ End(r) /\ grown' = Overflowing
  BY Unchanged DEF Fail
<1> QED BY <1>1, Ended, OnlyRequests

LEMMA SoundInitially == Init => Sound
<1> SUFFICES ASSUME Init PROVE Sound
  OBVIOUS
<1>1. /\ card = [w \in Words |-> In(Out)] /\ limit = DefaultLimit /\ bound = DefaultLimit
      /\ req = [r \in Requests |-> IdleRequest] /\ grown = {}
  BY DEF Init
<1>2. In(Out) \in Card /\ In(Out).deck = Out /\ In(Out).home = Out
  BY Decks DEF In, Card
<1>3. card \in [Words -> Card] /\ Homes
  BY <1>1, <1>2, Decks DEF Homes
<1>4. DefaultLimit \in Nat \ {0}
  BY LimitsAssumption
<1>5. limit \in Nat \ {0} /\ bound \in Nat /\ limit <= bound
  BY <1>1, <1>4
<1>6. req \in [Requests -> Request] /\ \A r \in Requests : req[r].at = "idle"
  BY <1>1, IdleOK
<1>7. Requested /\ \A r \in Requests : Target(r)
  BY <1>6 DEF Requested, RequestOK, Target
<1> QED BY <1>1, <1>3, <1>5, <1>6, <1>7 DEF Sound, CardState, TypeOK, Homes, Target

LEMMA SoundNext == Sound /\ [NextStep]_vars => Sound'
<1> SUFFICES ASSUME Sound, [NextStep]_vars PROVE Sound'
  OBVIOUS
<1>1. CASE UNCHANGED vars
  BY <1>1 DEF vars, Sound, CardState, TypeOK, Requested, RequestOK, InDeck
<1>2. ASSUME NEW r \in Requests, NEW w \in Words, AddRead(r, w) \/ RepeatRead(r, w) \/ ReturnRead(r, w)
      PROVE  Sound'
  BY <1>2, AddSound, RepeatSound
<1>3. ASSUME NEW r \in Requests,
             \/ Create(r) \/ ReadLimit(r) \/ Count(r) \/ PickOldest(r) \/ ReadShelves(r) \/ Move(r) \/ Archive(r)
             \/ Repeat(r) \/ Return(r) \/ Fail(r)
      PROVE  Sound'
  <2>1. CASE Create(r)
    <3>1. req[r].word \in Words
      BY <2>1, Unchanged DEF Create, RequestOK
    <3> QED BY <2>1, <3>1, AddSound
  <2>2. CASE ReadLimit(r)
    BY <2>2, ReadSound
  <2> QED BY <1>3, <2>1, <2>2, RebalanceSound, Written, FailSound
<1>4. ASSUME NEW w \in Words, Remove(w) PROVE Sound'
  BY <1>4, Removed
<1>5. CASE SetLimit
  BY <1>5, SetSound
<1> QED BY <1>1, <1>2, <1>3, <1>4, <1>5 DEF NextStep
-----------------------------------------------------------------------------
(* Decks settle within the limit *)

\* A claim holds on when no card comes to the deck.
LEMMA ClaimsKept ==
  ASSUME Sound, NEW q \in Requests, NEW t \in Overflowing, bound' \in Nat, bound <= bound',
         InDeck(Typed(t))' \subseteq InDeck(Typed(t)),
         req'[q].at = req[q].at, req'[q].deck = req[q].deck, req'[q].over = req[q].over,
         req[q].cards \subseteq req'[q].cards \cup (InDeck(Typed(t)) \ InDeck(Typed(t))'),
         req'[q].cards \subseteq Words, Claims(q, t)
  PROVE  Claims(q, t)'
<1>1. /\ InDeck(Typed(t)) \subseteq Words /\ bound \in Nat
      /\ req[q].over \in Nat /\ req[q].cards \subseteq Words
  BY Unchanged DEF InDeck, Request
<1>2. /\ Size(t) \in Nat /\ Size(t)' \in Nat /\ Size(t)' <= Size(t)
  BY <1>1, Sizes DEF Size
<1> DEFINE A == InDeck(Typed(t)) \ req[q].cards
           B == InDeck(Typed(t))' \ req'[q].cards
<1>3. B \subseteq A /\ A \subseteq Words
  BY <1>1
<1>4. Cardinality(A) \in Nat /\ Cardinality(B) \in Nat /\ Cardinality(B) <= Cardinality(A)
  BY <1>3, Sizes
<1>5. Cardinality(A) <= bound => Cardinality(B) <= bound'
  BY <1>1, <1>4
<1>6. Size(t) <= req[q].over + bound => Size(t)' <= req'[q].over + bound'
  BY <1>1, <1>2
<1> QED BY <1>5, <1>6 DEF Claims

\* A deck that is small or claimed stays so in a step of request r that brings no card to
\* it, unless r drops its claim.
LEMMA SettledKept ==
  ASSUME Sound, NEW r \in Requests, NEW t \in Overflowing, bound' \in Nat, bound <= bound',
         InDeck(Typed(t))' \subseteq InDeck(Typed(t)),
         \A q \in Requests : q # r => req'[q] = req[q],
         Claims(r, t) => Settled(t)', Settled(t)
  PROVE  Settled(t)'
<1>1. /\ InDeck(Typed(t)) \subseteq Words /\ bound \in Nat
      /\ \A q \in Requests : req[q].cards \subseteq Words
  BY Unchanged DEF InDeck, Request
<1>2. CASE Size(t) <= bound
  <2>1. Size(t) \in Nat /\ Size(t)' \in Nat /\ Size(t)' <= Size(t)
    BY <1>1, Sizes DEF Size
  <2> QED BY <1>1, <1>2, <2>1 DEF Settled
<1>3. ASSUME NEW q \in Requests, q # r, Claims(q, t) PROVE Settled(t)'
  <2>1. req'[q] = req[q] /\ req[q].cards \subseteq Words
    BY <1>1, <1>3
  <2>2. Claims(q, t)'
    BY <1>3, <2>1, ClaimsKept
  <2> QED BY <2>2 DEF Settled
<1> QED BY <1>2, <1>3 DEF Settled

LEMMA CountClaims ==
  ASSUME Sound, Claimed, NEW r \in Requests, Count(r)
  PROVE  Claimed'
<1> SUFFICES ASSUME NEW t \in Overflowing, t \notin grown' PROVE Settled(t)'
  BY DEF Claimed
<1> DEFINE d == req[r].deck.type
<1>1. /\ UNCHANGED <<card, bound>> /\ bound \in Nat /\ grown' = grown \ {d} /\ req[r].at = "counting"
  BY Unchanged DEF Count
<1>2. /\ d \in Overflowing /\ Size(d) \in Nat
      /\ \/ Size(d) <= req[r].limit /\ Onwards(r, d)
         \/ /\ req'[r].at = "picking" /\ req'[r].over \in Nat
            /\ req'[r].deck = req[r].deck /\ Size(d) = req'[r].over + req[r].limit
      /\ \A q \in Requests : q # r => req'[q] = req[q]
  BY Counted
<1>3. req[r].limit \in Nat /\ req[r].limit <= bound /\ req \in [Requests -> Request]
  BY <1>1, AtDeck, Unchanged
<1>4. Size(t)' = Size(t) /\ InDeck(Typed(t))' = InDeck(Typed(t))
  BY <1>1 DEF Size, InDeck
<1>5. CASE t = d
  <2>1. CASE Size(d) <= req[r].limit
    <3>1. Size(t)' <= bound'
      BY <1>1, <1>2, <1>3, <1>4, <1>5, <2>1
    <3> QED BY <3>1 DEF Settled
  <2>2. CASE /\ req'[r].at = "picking" /\ req'[r].over \in Nat
             /\ req'[r].deck = req[r].deck /\ Size(d) = req'[r].over + req[r].limit
    <3>1. Size(t)' <= req'[r].over + bound'
      BY <1>1, <1>2, <1>3, <1>4, <1>5, <2>2
    <3> QED BY <1>5, <2>2, <3>1 DEF Settled, Claims
  <2> QED BY <1>2, <2>1, <2>2
<1>6. CASE t # d
  <2>1. t \notin grown /\ Settled(t)
    BY <1>1, <1>6 DEF Claimed
  <2>2. ASSUME Claims(r, t) PROVE Claims(r, t)'
    <3>1. Order[d] <= Order[t]
      BY <1>1, <2>2 DEF Claims
    <3>2. Order[d] < Order[t] /\ d # "RETIRED"
      BY <1>2, <1>6, <3>1 DEF Order, Overflowing
    <3>3. Order[Below[d]] <= Order[t]
      BY <1>2, <3>2 DEF Order, Below, Overflowing
    <3>4. CASE Onwards(r, d)
      <4>1. req'[r].at = "counting" /\ req'[r].deck.type = Below[d]
        BY <1>1, <1>2, <1>3, <3>2, <3>4, Onward
      <4> QED BY <3>3, <4>1 DEF Claims
    <3>5. CASE req'[r].at = "picking" /\ req'[r].deck = req[r].deck
      BY <3>2, <3>5 DEF Claims
    <3> QED BY <1>2, <3>4, <3>5
  <2> QED BY <1>1, <1>2, <1>4, <2>1, <2>2, SettledKept DEF Settled
<1> QED BY <1>5, <1>6

LEMMA PickClaims ==
  ASSUME Sound, Claimed, NEW r \in Requests, PickOldest(r)
  PROVE  Claimed'
<1> SUFFICES ASSUME NEW t \in Overflowing, t \notin grown PROVE Settled(t)'
  BY DEF Claimed, PickOldest
<1> DEFINE d == req[r].deck.type  S == req'[r].cards
<1>1. UNCHANGED <<card, bound>> /\ bound \in Nat /\ Settled(t)
  BY Unchanged DEF PickOldest, Claimed
<1>2. /\ d \in Overflowing /\ req[r].at \in {"picking", "choosing"} /\ S \in Selections(d, req[r].over)
      /\ req'[r].deck = req[r].deck /\ req'[r].at \in {"shelving", "moving", "archiving"}
      /\ \A q \in Requests : q # r => req'[q] = req[q]
  BY Picked
<1>3. req[r].over \in Nat
  BY <1>2, AtDeck
<1>4. Size(t)' = Size(t) /\ InDeck(Typed(t))' = InDeck(Typed(t))
  BY <1>1 DEF Size, InDeck
<1>5. ASSUME Claims(r, t) PROVE Claims(r, t)'
  <2>1. CASE Order[d] < Order[t]
    BY <1>2, <2>1 DEF Claims
  <2>2. CASE d = t /\ Size(t) <= req[r].over + bound
    <3> DEFINE C == InDeck(Typed(t))
    <3>1. /\ S \in SUBSET C /\ C \in SUBSET Words /\ Cardinality(S) <= req[r].over
          /\ Cardinality(S) < req[r].over => S = C
      BY <1>2, <2>2 DEF Selections, InDeck
    <3>2. IsFiniteSet(C) /\ Cardinality(C) \in Nat /\ Cardinality(S) \in Nat
      BY <3>1, Sizes
    <3>3. Cardinality(C \ S) = Cardinality(C) - Cardinality(S)
      <4>1. C \cap S = S
        BY <3>1
      <4> QED BY <3>2, <4>1, FS_Difference
    <3>4. Cardinality(C \ S) <= bound
      <4>1. CASE S = C
        BY <1>1, <3>2, <3>3, <4>1
      <4>2. CASE Cardinality(S) = req[r].over
        BY <1>1, <1>3, <2>2, <3>2, <3>3, <4>2 DEF Size
      <4> QED BY <1>3, <3>1, <3>2, <4>1, <4>2
    <3>5. Cardinality(InDeck(Typed(t))' \ req'[r].cards) <= bound'
      BY <1>1, <1>4, <3>4
    <3> QED BY <1>2, <2>2, <3>5 DEF Claims
  <2> QED BY <1>2, <1>5, <2>1, <2>2 DEF Claims
<1> QED BY <1>1, <1>2, <1>4, <1>5, SettledKept DEF Settled

LEMMA ShelvesClaims ==
  ASSUME Sound, Claimed, NEW r \in Requests, ReadShelves(r)
  PROVE  Claimed'
<1> SUFFICES ASSUME NEW t \in Overflowing, t \notin grown PROVE Settled(t)'
  BY DEF Claimed, ReadShelves
<1>1. UNCHANGED <<card, bound>> /\ bound \in Nat /\ Settled(t)
  BY Unchanged DEF ReadShelves, Claimed
<1>2. Size(t)' = Size(t) /\ InDeck(Typed(t))' = InDeck(Typed(t))
  BY <1>1 DEF Size, InDeck
<1>3. Claims(r, t) => Claims(r, t)'
  BY <1>1, <1>2, ShelvesRead DEF Claims
<1> QED BY <1>1, <1>2, <1>3, ShelvesRead, SettledKept DEF Settled

LEMMA MoveClaims ==
  ASSUME Sound, Claimed, NEW r \in Requests, Move(r)
  PROVE  Claimed'
<1> SUFFICES ASSUME NEW t \in Overflowing, t \notin grown PROVE Settled(t)'
  BY DEF Claimed, Move
<1> DEFINE d == req[r].deck.type  S == req[r].cards
<1>1. /\ d \in {"NEW", "OLD"} /\ req[r].at = "moving" /\ S \in SUBSET Words
      /\ card' = Moved(S, Typed(Below[d]))
      /\ req'[r].at = "counting" /\ req'[r].deck.type = Below[d] /\ bound' = bound
      /\ \A q \in Requests : q # r => req'[q] = req[q]
  BY MovedOn
<1>2. bound \in Nat /\ Settled(t) /\ CardState
  BY Unchanged DEF Claimed, Sound
<1>3. Below[d] \in Overflowing /\ Order[Below[d]] = Order[d] + 1 /\ Order[d] \in Nat /\ Order[t] \in Nat
  BY <1>1 DEF Below, Overflowing, Order
<1>4. CASE Order[Below[d]] <= Order[t]
  BY <1>1, <1>4 DEF Settled, Claims
<1>5. CASE ~(Order[Below[d]] <= Order[t])
  <2>1. t # Below[d] /\ Order[t] <= Order[d]
    BY <1>3, <1>5
  <2>2. Typed(t) # Typed(Below[d]) /\ Typed(Below[d]) \in Deck /\ Typed(Below[d]) # Typed("REPEAT")
    BY <1>3, <2>1, Decks
  <2>3. InDeck(Typed(t))' = InDeck(Typed(t)) \ S
    BY <1>1, <1>2, <2>2, MovedCards
  <2>4. ASSUME Claims(r, t) PROVE Settled(t)'
    <3>1. d = t /\ Cardinality(InDeck(Typed(t)) \ S) <= bound
      BY <1>1, <1>3, <2>1, <2>4 DEF Claims
    <3> QED BY <1>1, <2>3, <3>1 DEF Settled, Size
  <2> QED BY <1>1, <1>2, <2>3, <2>4, SettledKept
<1> QED BY <1>4, <1>5

LEMMA ArchiveClaims ==
  ASSUME Sound, Claimed, NEW r \in Requests, Archive(r)
  PROVE  Claimed'
<1> SUFFICES ASSUME NEW t \in Overflowing, t \notin grown PROVE Settled(t)'
  BY DEF Claimed, Archive
<1>1. /\ req[r].at = "archiving" /\ req[r].deck.type = "RETIRED" /\ req[r].cards \in SUBSET Words
      /\ \A q \in Requests : q # r => req'[q] = req[q]
      /\ bound' = bound
      /\ \/ req[r].cards = {} /\ req'[r].at = "idle" /\ card' = card
         \/ \E n \in Numbers :
              /\ card' = Moved(Planned(r, n), Numbered(n))
              /\ req'[r].at = "archiving" /\ req'[r].deck = req[r].deck
              /\ req'[r].cards = req[r].cards \ Planned(r, n)
  BY Archived
<1>2. bound \in Nat /\ Settled(t) /\ CardState /\ Order["RETIRED"] = 3 /\ Order[t] \in 1..3
  BY Unchanged DEF Claimed, Sound, Order, Overflowing
<1>3. Claims(r, t) => t = "RETIRED" /\ Cardinality(InDeck(Typed(t)) \ req[r].cards) <= bound
  BY <1>1, <1>2 DEF Claims
<1>4. CASE req[r].cards = {} /\ req'[r].at = "idle" /\ card' = card
  <2>1. InDeck(Typed(t))' = InDeck(Typed(t)) /\ InDeck(Typed(t)) \ req[r].cards = InDeck(Typed(t))
    BY <1>4 DEF InDeck
  <2>2. Claims(r, t) => Settled(t)'
    BY <1>1, <1>3, <2>1 DEF Settled, Size
  <2> QED BY <1>1, <1>2, <2>1, <2>2, SettledKept
<1>5. ASSUME NEW n \in Numbers, card' = Moved(Planned(r, n), Numbered(n)),
             req'[r].at = "archiving", req'[r].deck = req[r].deck,
             req'[r].cards = req[r].cards \ Planned(r, n)
      PROVE  Settled(t)'
  <2> DEFINE S == Planned(r, n)
  <2>1. S \in SUBSET Words /\ card' = Moved(S, Numbered(n)) /\ S \subseteq req[r].cards
    BY <1>1, <1>5 DEF Planned
  <2>2. InDeck(Typed(t))' = InDeck(Typed(t)) \ S
    BY <1>2, <2>1, Decks, MovedCards
  <2>3. InDeck(Typed(t))' \ req'[r].cards = InDeck(Typed(t)) \ req[r].cards
    BY <1>5, <2>1, <2>2
  <2>4. Claims(r, t) => Settled(t)'
    BY <1>1, <1>3, <1>5, <2>3 DEF Settled, Claims
  <2> QED BY <1>1, <1>2, <2>2, <2>4, SettledKept
<1> QED BY <1>1, <1>4, <1>5

LEMMA ClaimedNext ==
  ASSUME Sound, Claimed, [NextStep]_vars
  PROVE  Claimed'
<1>u. bound \in Nat /\ CardState
  BY Unchanged DEF Sound
<1>1. CASE UNCHANGED vars
  <2>1. card' = card /\ req' = req /\ bound' = bound /\ grown' = grown
    BY <1>1 DEF vars
  <2>2. \A t : InDeck(Typed(t))' = InDeck(Typed(t)) /\ Size(t)' = Size(t)
    BY <2>1 DEF InDeck, Size
  <2>3. \A r, t : Claims(r, t)' = Claims(r, t)
    BY <2>1, <2>2 DEF Claims
  <2> QED BY <2>1, <2>2, <2>3 DEF Claimed, Settled
<1>2. ASSUME NEW r \in Requests, UNCHANGED <<card, bound, grown>>,
             req[r].at \in {"idle", "creating"}, \A q \in Requests : q # r => req'[q] = req[q]
      PROVE  Claimed'
  <2> SUFFICES ASSUME NEW t \in Overflowing \ grown PROVE Settled(t)'
    BY <1>2 DEF Claimed
  <2>1. Settled(t) /\ InDeck(Typed(t))' = InDeck(Typed(t)) /\ ~Claims(r, t)
    BY <1>2 DEF Claimed, InDeck, Claims
  <2> QED BY <1>u, <1>2, <2>1, SettledKept
<1>3. ASSUME NEW r \in Requests, NEW w \in Words, AddRead(r, w) \/ RepeatRead(r, w) \/ ReturnRead(r, w)
      PROVE  Claimed'
  BY <1>2, <1>3, Unchanged DEF AddRead, RepeatRead, ReturnRead, Goto
<1>4. ASSUME NEW r \in Requests, Create(r) PROVE Claimed'
  <2>1. CASE card[req[r].word].deck = Out
    <3> DEFINE rec == [IdleRequest EXCEPT !.at = "reading"]
    <3>1. rec.at = "reading" /\ Goto(r, rec) /\ req \in [Requests -> Request]
      BY <1>4, <2>1, Unchanged DEF Create, IdleRequest
    <3>2. req'[r].at = "reading"
      BY <3>1 DEF Goto
    <3> QED BY <3>2 DEF Claimed, Settled, Claims
  <2>2. CASE card[req[r].word].deck # Out
    BY <1>2, <1>4, <2>2, Ended DEF Create
  <2> QED BY <2>1, <2>2
<1>5. ASSUME NEW r \in Requests, ReadLimit(r) PROVE Claimed'
  <2>1. req'[r].at = "counting" /\ req'[r].deck.type = "NEW"
    BY <1>5, ReadSound
  <2>2. \A t \in Overflowing : Order["NEW"] <= Order[t]
    BY DEF Order, Overflowing
  <2> QED BY <2>1, <2>2 DEF Claimed, Settled, Claims
<1>6. ASSUME NEW r \in Requests, Repeat(r) \/ Return(r) PROVE Claimed'
  <2> SUFFICES ASSUME NEW t \in Overflowing, t \notin grown' PROVE Settled(t)'
    BY DEF Claimed
  <2>1. /\ \A q \in Requests : q # r => req'[q] = req[q]
        /\ t \notin grown /\ bound' = bound /\ InDeck(Typed(t))' \subseteq InDeck(Typed(t))
    BY <1>6, Written
  <2>2. Settled(t) /\ ~Claims(r, t)
    BY <1>6, <2>1 DEF Claimed, Claims, Repeat, Return
  <2> QED BY <1>u, <2>1, <2>2, SettledKept
<1>7. ASSUME NEW r \in Requests, Fail(r) PROVE Claimed'
  BY <1>7 DEF Claimed, Fail
<1>8. ASSUME NEW w \in Words, Remove(w) PROVE Claimed'
  <2> SUFFICES ASSUME NEW t \in Overflowing \ grown PROVE Settled(t)'
    BY <1>8, Removed DEF Claimed
  <2>1. InDeck(Typed(t))' = InDeck(Typed(t)) \ {w} /\ bound' = bound /\ InDeck(Typed(t)) \subseteq Words
    <3>1. Typed(t) # Out
      BY Decks
    <3>2. bound' = bound /\ \A e : e # Out => InDeck(e)' = InDeck(e) \ {w}
      BY <1>8, Removed
    <3> QED BY <3>1, <3>2 DEF InDeck
  <2>2. CASE Size(t) <= bound
    <3>1. Size(t) \in Nat /\ Size(t)' \in Nat /\ Size(t)' <= Size(t)
      BY <2>1, Sizes DEF Size
    <3> QED BY <1>u, <2>1, <2>2, <3>1 DEF Settled
  <2>3. ASSUME NEW q \in Requests, Claims(q, t) PROVE Settled(t)'
    <3>1. /\ req'[q].at = req[q].at /\ req'[q].deck = req[q].deck /\ req'[q].over = req[q].over
          /\ req'[q].cards = req[q].cards \ {w} /\ req[q].cards \subseteq Words
      BY <1>8, Removed, Unchanged DEF Request
    <3>2. CASE w \in InDeck(Typed(t))
      <4>1. req[q].cards \subseteq req'[q].cards \cup (InDeck(Typed(t)) \ InDeck(Typed(t))')
        BY <2>1, <3>1, <3>2
      <4>2. Claims(q, t)'
        BY <1>u, <2>1, <2>3, <3>1, <4>1, ClaimsKept
      <4> QED BY <4>2 DEF Settled
    <3>3. CASE w \notin InDeck(Typed(t))
      <4>1. InDeck(Typed(t))' = InDeck(Typed(t)) /\ Size(t)' = Size(t)
            /\ InDeck(Typed(t))' \ req'[q].cards = InDeck(Typed(t)) \ req[q].cards
        BY <2>1, <3>1, <3>3 DEF Size
      <4>2. Claims(q, t)'
        BY <2>1, <2>3, <3>1, <4>1 DEF Claims
      <4> QED BY <4>2 DEF Settled
    <3> QED BY <3>2, <3>3
  <2> QED BY <2>2, <2>3 DEF Settled, Claimed
<1>9. CASE SetLimit
  <2> SUFFICES ASSUME NEW t \in Overflowing \ grown PROVE Settled(t)'
    BY <1>9, SetSound DEF Claimed
  <2>1. UNCHANGED <<card, req>> /\ bound <= bound' /\ bound' \in Nat
    BY <1>9, SetSound
  <2>2. InDeck(Typed(t))' = InDeck(Typed(t)) /\ Size(t)' = Size(t) /\ Size(t) \in Nat /\ Settled(t)
    BY <2>1, Sizes DEF InDeck, Size, Claimed
  <2>3. CASE Size(t) <= bound
    BY <1>u, <2>1, <2>2, <2>3 DEF Settled
  <2>4. ASSUME NEW q \in Requests, Claims(q, t) PROVE Settled(t)'
    <3>1. req[q].cards \subseteq Words /\ req' = req
      BY <2>1, Unchanged DEF Request
    <3>2. Claims(q, t)'
      BY <2>1, <2>2, <2>4, <3>1, ClaimsKept
    <3> QED BY <3>2 DEF Settled
  <2> QED BY <2>2, <2>3, <2>4 DEF Settled
<1> QED BY <1>1, <1>3, <1>4, <1>5, <1>6, <1>7, <1>8, <1>9, CountClaims, PickClaims, ShelvesClaims,
           MoveClaims, ArchiveClaims DEF NextStep
-----------------------------------------------------------------------------
LEMMA InitInv == Init => Inv
<1> SUFFICES ASSUME Init PROVE Inv
  OBVIOUS
<1>1. Sound
  BY SoundInitially
<1>2. \A t \in Overflowing : InDeck(Typed(t)) = {}
  BY Decks DEF Init, InDeck, In
<1>3. \A t \in Overflowing : Size(t) = 0
  BY <1>2, FS_EmptySet DEF Size
<1>4. Claimed
  BY <1>1, <1>3, Unchanged DEF Claimed, Settled
<1> QED BY <1>1, <1>4 DEF Inv, Sound

\* The inductive invariant: the shape of the cards and requests, and the claim on every
\* deck that is too large.
THEOREM Invariance == Spec => []Inv
<1>1. Inv /\ [NextStep]_vars => Inv'
  <2> SUFFICES ASSUME Inv, [NextStep]_vars PROVE Inv'
    OBVIOUS
  <2>1. Sound /\ Claimed
    BY DEF Inv, Sound
  <2>2. Sound' /\ Claimed'
    BY <2>1, SoundNext, ClaimedNext
  <2> QED BY <2>2 DEF Inv, Sound
<1> QED BY <1>1, InitInv, PTL DEF Spec

\* Where cards are, and what requests are about to write.
THEOREM CardsAreKept == Spec => []CardState
BY Invariance, PTL DEF Inv

\* No overlap of additions leaves a deck too large for good.
THEOREM DecksSettle == Spec => []SettledWithinLimit
<1>1. Inv => SettledWithinLimit
  BY DEF Inv, Claimed, Settled, Claims, SettledWithinLimit, Rebalancing
<1> QED BY <1>1, Invariance, PTL

-----------------------------------------------------------------------------
(* The decks implement Collection *)

WithCard == {w \in Words : card[w].deck # Out}

\* What a request is about to move still has a card.
Held == \A r \in Requests : req[r].cards \subseteq WithCard

LEMMA MovedStay ==
  ASSUME CardState, NEW S \in SUBSET Words, NEW d \in Deck, d \notin {Out, Typed("REPEAT")},
         card' = Moved(S, d)
  PROVE  WithCard' = WithCard \cup S
<1>1. \A w \in Words : card'[w] = IF w \in S THEN In(d) ELSE card[w]
  BY DEF Moved
<1> QED BY <1>1 DEF WithCard, In

\* A request goes on with cards that it held before.
LEMMA HeldKept ==
  ASSUME Held, NEW r \in Requests, \A q \in Requests : q # r => req'[q] = req[q],
         WithCard \subseteq WithCard', req'[r].cards \subseteq WithCard'
  PROVE  Held'
BY DEF Held

LEMMA OneGoes ==
  ASSUME req \in [Requests -> Request], NEW r \in Requests, NEW rec, Goto(r, rec)
  PROVE  req'[r] = rec /\ \A q \in Requests : q # r => req'[q] = req[q]
BY DEF Goto

LEMMA NothingHeld == IdleRequest.cards = {}
BY DEF IdleRequest

\* An addition brings one word in, if it has no card by then.
LEMMA CreateHeld ==
  ASSUME Sound, Held, NEW r \in Requests, Create(r)
  PROVE  Held' /\ (WithCard' = WithCard \/ Cards!Next)
<1>u. req \in [Requests -> Request] /\ RequestOK(r)
  BY Unchanged
<1> DEFINE w == req[r].word
<1>1. w \in Words
  BY <1>u DEF Create, RequestOK
<1>2. CASE card[w].deck # Out
  <2>1. End(r) /\ card' = card
    BY <1>2 DEF Create
  <2>2. WithCard' = WithCard /\ req'[r] = IdleRequest /\ \A q \in Requests : q # r => req'[q] = req[q]
    BY <2>1, Ended DEF WithCard
  <2> QED BY <2>2, NothingHeld, HeldKept
<1>3. CASE card[w].deck = Out
  <2>1. card' = Moved({w}, Typed("NEW")) /\ Goto(r, [IdleRequest EXCEPT !.at = "reading"])
    BY <1>3 DEF Create
  <2>2. WithCard' = WithCard \cup {w} /\ w \notin WithCard
    BY <1>1, <1>3, <2>1, Decks, MovedStay DEF Sound, WithCard, Overflowing
  <2>3. req'[r].cards = {} /\ \A q \in Requests : q # r => req'[q] = req[q]
    BY <1>u, <2>1, NothingHeld DEF Goto, IdleRequest
  <2>4. Held'
    BY <2>2, <2>3, HeldKept
  <2> QED BY <1>1, <2>2, <2>4 DEF Cards!Next, Cards!Add, WithCard
<1> QED BY <1>2, <1>3

\* What only reads selects among the cards there are.
LEMMA ReadHeld ==
  ASSUME Sound, Held, NEW r \in Requests, card' = card,
         \/ \E w \in Words : AddRead(r, w) \/ RepeatRead(r, w) \/ ReturnRead(r, w)
         \/ ReadLimit(r) \/ Count(r) \/ PickOldest(r) \/ ReadShelves(r) \/ Fail(r)
  PROVE  Held' /\ WithCard' = WithCard
<1>u. req \in [Requests -> Request] /\ req[r] \in Request
  BY Unchanged
<1>1. WithCard' = WithCard
  BY DEF WithCard
<1>f. ASSUME NEW w \in Words, AddRead(r, w) \/ RepeatRead(r, w) \/ ReturnRead(r, w)
      PROVE  req'[r].cards = {} /\ \A q \in Requests : q # r => req'[q] = req[q]
  <2> DEFINE add == [IdleRequest EXCEPT !.at = "creating", !.word = w]
             repeat == [IdleRequest EXCEPT !.at = "repeating", !.word = w, !.deck = card[w].deck]
             d == IF card[w].home = Out THEN Typed("NEW") ELSE card[w].home
             return == [IdleRequest EXCEPT !.at = "returning", !.word = w, !.deck = d]
  <2>1. add.cards = {} /\ repeat.cards = {} /\ return.cards = {}
    BY DEF IdleRequest
  <2>2. Goto(r, add) \/ Goto(r, repeat) \/ Goto(r, return)
    BY <1>f DEF AddRead, RepeatRead, ReturnRead
  <2> HIDE DEF add, repeat, return
  <2> QED BY <1>u, <2>1, <2>2, OneGoes
<1>c. ASSUME Count(r)
      PROVE  /\ req'[r].cards \in {{}, req[r].cards}
             /\ \A q \in Requests : q # r => req'[q] = req[q]
  <2> DEFINE t == req[r].deck.type
             on == [IdleRequest EXCEPT !.at = "counting", !.deck = Typed(Below[t]), !.limit = req[r].limit]
             more == [req[r] EXCEPT !.at = "picking", !.over = Size(t) - req[r].limit]
  <2>1. on.cards = {} /\ more.cards = req[r].cards
    BY <1>u DEF IdleRequest, Request
  <2>2. Goto(r, on) \/ Goto(r, more) \/ Goto(r, IdleRequest)
    BY <1>c DEF Count, Onwards, End
  <2> HIDE DEF on, more
  <2> QED BY <1>u, <2>1, <2>2, NothingHeld, OneGoes
<1>l. ASSUME ReadLimit(r)
      PROVE  req'[r].cards = {} /\ \A q \in Requests : q # r => req'[q] = req[q]
  <2> DEFINE rec == [IdleRequest EXCEPT !.at = "counting", !.deck = Typed("NEW"), !.limit = limit]
  <2>1. rec.cards = {}
    BY DEF IdleRequest
  <2>2. Goto(r, rec)
    BY <1>l DEF ReadLimit
  <2> HIDE DEF rec
  <2> QED BY <1>u, <2>1, <2>2, OneGoes
<1>2. \A q \in Requests : q # r => req'[q] = req[q]
  BY <1>f, <1>c, <1>l, Picked, ShelvesRead, FailSound
<1>3. CASE PickOldest(r)
  <2>1. /\ req[r].deck.type \in Overflowing
        /\ req'[r].cards \subseteq InDeck(Typed(req[r].deck.type))
    BY <1>3, Picked DEF Selections
  <2>2. req'[r].cards \subseteq WithCard
    BY <2>1, Decks DEF InDeck, WithCard
  <2> QED BY <1>1, <1>2, <2>2, HeldKept
<1>4. CASE ~PickOldest(r)
  <2>1. req'[r].cards \in {{}, req[r].cards}
    BY <1>4, <1>f, <1>c, <1>l, ShelvesRead, FailSound, NothingHeld
  <2>2. req'[r].cards \subseteq WithCard'
    BY <1>1, <2>1 DEF Held
  <2> QED BY <1>1, <1>2, <2>2, HeldKept
<1> QED BY <1>3, <1>4

\* Cards move to decks; a word without a card gets none.
LEMMA MoveHeld ==
  ASSUME Sound, Held, NEW r \in Requests, Move(r) \/ Archive(r)
  PROVE  Held' /\ WithCard' = WithCard
<1>u. req \in [Requests -> Request] /\ req[r] \in Request /\ CardState /\ req[r].cards \subseteq WithCard
  BY Unchanged DEF Sound, Held
<1>1. CASE Move(r)
  <2> DEFINE t == Below[req[r].deck.type]
  <2>1. /\ card' = Moved(req[r].cards, Typed(t)) /\ req[r].cards \in SUBSET Words
        /\ req[r].deck.type \in {"NEW", "OLD"}
        /\ \A q \in Requests : q # r => req'[q] = req[q]
    BY <1>1, MovedOn
  <2>2. t \in Overflowing
    BY <2>1 DEF Below, Overflowing
  <2>3. WithCard' = WithCard \cup req[r].cards
    BY <1>u, <2>1, <2>2, Decks, MovedStay
  <2>4. req'[r].cards = {}
    BY <1>u, <1>1, NothingHeld DEF Move, Onwards, End, Goto, IdleRequest
  <2> QED BY <1>u, <2>1, <2>3, <2>4, HeldKept
<1>2. CASE Archive(r)
  <2>1. req'[r].cards \subseteq req[r].cards /\ \A q \in Requests : q # r => req'[q] = req[q]
    <3>1. CASE req[r].cards = {} /\ End(r)
      BY <1>u, <3>1, NothingHeld DEF End, Goto
    <3>2. CASE \E n \in Numbers : req'[r].cards = req[r].cards \ Planned(r, n)
      BY <1>2, <3>2, Archived
    <3>3. CASE /\ req[r].cards # {} \/ ~End(r)
               /\ ~\E n \in Numbers : req'[r].cards = req[r].cards \ Planned(r, n)
      <4>1. req'[r].at = "idle" /\ req[r].cards = {} /\ card' = card
        BY <1>2, <3>3, Archived
      <4> QED BY <1>u, <1>2, <3>3, <4>1 DEF Archive
    <3> QED BY <3>1, <3>2, <3>3
  <2>2. CASE card' = card
    <3>1. WithCard' = WithCard
      BY <2>2 DEF WithCard
    <3> QED BY <1>u, <2>1, <3>1, HeldKept
  <2>3. CASE \E n \in Numbers : card' = Moved(Planned(r, n), Numbered(n))
    <3>1. PICK n \in Numbers : card' = Moved(Planned(r, n), Numbered(n))
      BY <2>3
    <3>2. Planned(r, n) \subseteq req[r].cards /\ Planned(r, n) \in SUBSET Words
      BY <1>2, Archived DEF Planned
    <3>3. WithCard' = WithCard \cup Planned(r, n)
      BY <1>u, <3>1, <3>2, Decks, MovedStay
    <3> QED BY <1>u, <2>1, <3>2, <3>3, HeldKept
  <2> QED BY <1>2, <2>2, <2>3, Archived
<1> QED BY <1>1, <1>2

\* Repeat and Return write to a card that is there.
LEMMA WriteHeld ==
  ASSUME Sound, Held, NEW r \in Requests, Repeat(r) \/ Return(r)
  PROVE  Held' /\ WithCard' = WithCard
<1>u. card \in [Words -> Card] /\ req[r] \in Request /\ Target(r) /\ RequestOK(r) /\ CardState
  BY Unchanged DEF Sound
<1> DEFINE w == req[r].word  d == req[r].deck
<1>1. w \in Words /\ d \in Deck
  BY <1>u DEF RequestOK, Repeat, Return, Request
<1>2. req'[r].cards = {} /\ \A q \in Requests : q # r => req'[q] = req[q]
  BY Written, NothingHeld
<1>3. CASE card[w].deck = Out
  <2>1. card' = card
    BY <1>3 DEF Repeat, Return
  <2> QED BY <1>2, <2>1, HeldKept DEF WithCard
<1>4. CASE card[w].deck # Out /\ Return(r)
  <2>1. card' = Moved({w}, d) /\ d \notin {Out, Typed("REPEAT")}
    BY <1>u, <1>4 DEF Return, Target
  <2>2. WithCard' = WithCard \cup {w}
    BY <1>u, <1>1, <2>1, MovedStay
  <2>3. w \in WithCard
    BY <1>1, <1>4 DEF WithCard
  <2> QED BY <1>2, <2>2, <2>3, HeldKept
<1>5. CASE card[w].deck # Out /\ Repeat(r)
  <2>1. card' = [card EXCEPT ![w] = [deck |-> Typed("REPEAT"), home |-> d]]
    BY <1>5 DEF Repeat
  <2>2. \A v \in Words : card'[v].deck = IF v = w THEN Typed("REPEAT") ELSE card[v].deck
    BY <1>u, <1>1, <2>1
  <2>3. WithCard' = WithCard
    BY <1>1, <1>5, <2>2, Decks DEF WithCard
  <2> QED BY <1>2, <2>3, HeldKept
<1> QED BY <1>3, <1>4, <1>5

\* One word goes, and the requests under way no longer hold it.
LEMMA RemoveHeld ==
  ASSUME Sound, Held, NEW w \in Words, Remove(w)
  PROVE  Held' /\ Cards!Next
<1>1. card' = Moved({w}, Out) /\ w \in WithCard
  BY DEF Remove, WithCard
<1>2. \A v \in Words : card'[v] = IF v = w THEN In(Out) ELSE card[v]
  BY <1>1 DEF Moved
<1>3. WithCard' = WithCard \ {w}
  BY <1>2 DEF WithCard, In
<1>4. \A r \in Requests : req'[r].cards = req[r].cards \ {w}
  BY Removed
<1> QED BY <1>1, <1>3, <1>4 DEF Held, WithCard, Cards!Next, Cards!RemoveWord

\* Each step of the decks is a step of the collection, or none.
LEMMA HeldNext ==
  ASSUME Sound, Held, [NextStep]_vars
  PROVE  Held' /\ [Cards!Next]_WithCard
<1>1. CASE UNCHANGED vars
  BY <1>1 DEF vars, Held, WithCard
<1>2. ASSUME NEW r \in Requests,
             \/ \E w \in Words : AddRead(r, w) \/ RepeatRead(r, w) \/ ReturnRead(r, w)
             \/ ReadLimit(r) \/ Count(r) \/ PickOldest(r) \/ ReadShelves(r) \/ Fail(r)
      PROVE  Held' /\ WithCard' = WithCard
  <2>1. card' = card
    BY <1>2 DEF AddRead, RepeatRead, ReturnRead, ReadLimit, Count, PickOldest, ReadShelves, Fail
  <2> QED BY <1>2, <2>1, ReadHeld
<1>3. ASSUME NEW r \in Requests, Move(r) \/ Archive(r) \/ Repeat(r) \/ Return(r)
      PROVE  Held' /\ WithCard' = WithCard
  BY <1>3, MoveHeld, WriteHeld
<1>4. CASE SetLimit
  BY <1>4 DEF SetLimit, Held, WithCard
<1> QED BY <1>1, <1>2, <1>3, <1>4, CreateHeld, RemoveHeld DEF NextStep

\* The decks implement Collection.
THEOREM ImplementsCollection == Spec => KeepsCards
<1>1. Init => Held /\ Cards!Init
  <2>1. Init => Cards!Init
    BY Decks DEF Init, Cards!Init, In
  <2> QED BY <2>1, NothingHeld DEF Init, Held
<1>2. Inv /\ Held /\ [NextStep]_vars => Held' /\ [Cards!Next]_WithCard
  BY HeldNext DEF Inv, Sound
<1>3. Inv /\ Held /\ [NextStep]_vars => [Cards!Next]_{w \in Words : card[w].deck # Out}
  BY <1>2 DEF WithCard
<1> QED BY <1>1, <1>2, <1>3, Invariance, PTL DEF Spec, KeepsCards, Cards!Spec
=============================================================================
