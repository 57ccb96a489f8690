---------------------------- MODULE BidEncoding ----------------------------
(***************************************************************************)
(* The integer encoding of calls that bidlab and deallab share             *)
(* (shared/bid.hpp): Pass is 4, a bid of level l in strain s is 5*l + s,   *)
(* and two values below Pass stand for "no bid".                           *)
(***************************************************************************)
EXTENDS Integers

CONSTANT bidMaxBid   (* the highest bid: 39 (7NT) in the code *)

ASSUME MaxBidAssumption == bidMaxBid \in 5 .. 39

bidInvalid  == -1
bidNotFound == 3
bidPass     == 4

(* Every call a seat can make, and the values a "best bid" variable holds. *)
Call    == bidPass .. bidMaxBid
BestBid == bidNotFound .. bidMaxBid

bidStrain(b) == b % 5
bidLevel(b)  == b \div 5

(* Clubs, diamonds, hearts, spades, notrump. *)
Strain == 0 .. 4

(* The two seats the programs bid for; East and West always pass. *)
posNorth == 0
posSouth == 2
Seat     == {posNorth, posSouth}

(* Mutant: the next seat clockwise. *)
ClockwiseSeat(s) == s + 1

nextBidder(s) == IF s = posNorth THEN posSouth ELSE posNorth
=============================================================================
