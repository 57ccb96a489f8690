-------------------------------- MODULE Pack --------------------------------
(***************************************************************************)
(* The card pack of both programs (shared/pack.cpp): an array whose first  *)
(* "undealt" slots hold the cards left. A card leaves by moving the last   *)
(* undealt card into its slot; the slots beyond hold garbage.              *)
(***************************************************************************)
EXTENDS Integers

CONSTANTS PACK_SIZE, NULL

ASSUME SizeAssumption == PACK_SIZE \in Nat \ {0}

CardCode == 0 .. (PACK_SIZE - 1)
Slot     == 0 .. (PACK_SIZE - 1)
Array    == [Slot -> CardCode]

ASSUME NullAssumption ==
  /\ NULL \notin [cards: Array, undealt: 0 .. PACK_SIZE]
  /\ \A S \in SUBSET CardCode : NULL # S

Missing == -1
AnyCard == -2

VARIABLES
  cards,     (* the array                                                  *)
  undealt,   (* how many of its slots are in use                           *)
  asked,     (* history: the argument of the last rem_card(), or AnyCard   *)
  card,      (* what the last deal_card() or rem_card() returned           *)
  saved      (* the copy a caller took with save_pack(), or NULL           *)

packVars == <<cards, undealt, asked, card, saved>>

(* Mutant: the slot beyond the last one in use is moved. *)
PostDecrement(i) == [cards EXCEPT ![i] = cards[undealt % PACK_SIZE]]

(* The array once slot i has been vacated. *)
Vacated(i) == [cards EXCEPT ![i] = cards[undealt - 1]]

(* Where rem_card() finds c: in its own slot, else the first that holds it *)
Likely(c) == c < undealt /\ cards[c] = c
Slots(c)  == {i \in 0 .. (undealt - 1) : cards[i] = c}
Found(c)  == IF Likely(c) THEN c ELSE CHOOSE i \in Slots(c) : \A j \in Slots(c) : i <= j

(* Mutant: only the default slot is looked at. *)
OnlyLikely(c) == Likely(c)

InPack(c) == Likely(c) \/ Slots(c) # {}

(* Sorted order: every card in its own slot. *)
InOrder == [j \in Slot |-> j]

-----------------------------------------------------------------------------
(* thePack is a zero-initialised global. *)
PackInit ==
  /\ cards = [j \in Slot |-> 0]
  /\ undealt = 0
  /\ asked = AnyCard
  /\ card = Missing
  /\ saved = NULL

reshuffle ==
  /\ cards' = InOrder
  /\ undealt' = PACK_SIZE
  /\ UNCHANGED <<asked, card, saved>>

(* getRand() % undealt is any slot in use; the callers never deal from an  *)
(* empty pack.                                                             *)
deal_card ==
  \E ndx \in 0 .. (undealt - 1) :
    /\ asked' = AnyCard
    /\ card' = cards[ndx]
    /\ cards' = Vacated(ndx)
    /\ undealt' = undealt - 1
    /\ UNCHANGED saved

rem_card(c) ==
  /\ asked' = c
  /\ \/ /\ InPack(c)
        /\ card' = c
        /\ cards' = Vacated(Found(c))
        /\ undealt' = undealt - 1
     \/ /\ ~ InPack(c)
        /\ card' = Missing
        /\ UNCHANGED <<cards, undealt>>
  /\ UNCHANGED saved

save_pack ==
  /\ saved' = [cards |-> cards, undealt |-> undealt]
  /\ UNCHANGED <<cards, undealt, asked, card>>

restore_pack ==
  /\ saved # NULL
  /\ cards' = saved.cards
  /\ undealt' = saved.undealt
  /\ UNCHANGED <<asked, card, saved>>

PackNext ==
  \/ reshuffle
  \/ deal_card
  \/ \E c \in CardCode : rem_card(c)
  \/ save_pack
  \/ restore_pack

PackSpec == PackInit /\ [][PackNext]_packVars

-----------------------------------------------------------------------------
(* Type invariant: the array holds cards and no more slots are in use than *)
(* it has.                                                                 *)
PackTypeOK ==
  /\ cards \in Array
  /\ undealt \in 0 .. PACK_SIZE
  /\ asked \in CardCode \cup {AnyCard}
  /\ card \in CardCode \cup {Missing}
  /\ saved \in [cards: Array, undealt: 0 .. PACK_SIZE] \cup {NULL}

InUse(a, n) == {a[i] : i \in 0 .. (n - 1)}

NoRepeats(a, n) == \A i, j \in 0 .. (n - 1) : a[i] = a[j] => i = j

(* No card is in two of the slots in use, now or in the saved copy,        *)
(* however removals at random and by name, saving and restoring follow     *)
(* each other: a card that is dealt leaves no copy that is dealt later.    *)
NoDuplicates ==
  /\ NoRepeats(cards, undealt)
  /\ saved # NULL => NoRepeats(saved.cards, saved.undealt)

(* The array implements a set of cards: what is dealt at random was in the *)
(* pack and is gone, a card asked for is found exactly if it is still      *)
(* there, and restoring brings back the cards of the saved copy.           *)
AsSet == INSTANCE PackOfCards WITH
           remaining <- InUse(cards, undealt),
           asked     <- asked,
           card      <- card,
           kept      <- IF saved = NULL THEN NULL ELSE InUse(saved.cards, saved.undealt)

ImplementsSet == AsSet!PSpec
=============================================================================
