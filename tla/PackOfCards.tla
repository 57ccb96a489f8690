---------------------------- MODULE PackOfCards ----------------------------
(***************************************************************************)
(* What a pack promises the dealers: it is a set of cards from which cards *)
(* are taken one at a time, at random or by name, and which can be put     *)
(* back to how it was.                                                     *)
(***************************************************************************)
EXTENDS Integers

CONSTANTS PACK_SIZE,   (* 52 in the code                                   *)
          NULL         (* no snapshot taken                                *)

Card == 0 .. (PACK_SIZE - 1)

(* The answer for a card that is not in the pack, and the question that    *)
(* any card answers.                                                       *)
Missing == -1
AnyCard == -2

VARIABLES
  remaining,  (* the cards that have not been dealt                        *)
  asked,      (* the card that was last asked for, or AnyCard              *)
  card,       (* what was answered                                         *)
  kept        (* the pack as it was saved, or NULL                         *)

pvars == <<remaining, asked, card, kept>>

PInit == remaining = {} /\ asked = AnyCard /\ card = Missing /\ kept = NULL

Refill == remaining' = Card /\ UNCHANGED <<asked, card, kept>>

TakeAny ==
  \E c \in remaining : /\ asked' = AnyCard /\ card' = c
                       /\ remaining' = remaining \ {c}
                       /\ UNCHANGED kept

TakeThis ==
  \E c \in Card : /\ asked' = c
                  /\ card' = IF c \in remaining THEN c ELSE Missing
                  /\ remaining' = remaining \ {c}
                  /\ UNCHANGED kept

Keep == kept' = remaining /\ UNCHANGED <<remaining, asked, card>>

PutBack == kept # NULL /\ remaining' = kept /\ UNCHANGED <<asked, card, kept>>

PNext == Refill \/ TakeAny \/ TakeThis \/ Keep \/ PutBack

PSpec == PInit /\ [][PNext]_pvars
=============================================================================
