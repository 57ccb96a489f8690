-------------------------- MODULE AscendingAuction --------------------------
(***************************************************************************)
(* What an auction between two partners is, whatever system they play: the *)
(* seats call in turn from North, every call but the last one that ends    *)
(* the auction is higher than all before it, the last is a Pass or a       *)
(* higher bid that is passed out, and the contract is the highest call.    *)
(***************************************************************************)
EXTENDS BidEncoding, Sequences

VARIABLES
  phase,     (* "idle", "open" or "over"                                  *)
  calls,     (* the calls made, each with its seat                        *)
  contract   (* the highest call, bidNotFound if there is none            *)

avars == <<phase, calls, contract>>

Turn == IF Len(calls) % 2 = 0 THEN posNorth ELSE posSouth

AInit == phase = "idle" /\ calls = <<>> /\ contract = bidNotFound

Open ==
  /\ phase # "open"
  /\ phase' = "open" /\ calls' = <<>> /\ contract' = bidNotFound

Made(b) == calls' = Append(calls, [seat |-> Turn, call |-> b])

(* A call that keeps the auction open outranks all earlier ones: after a   *)
(* bid, a Pass never does.                                                 *)
Raise(b) ==
  /\ phase = "open" /\ b > contract
  /\ Made(b) /\ contract' = b
  /\ UNCHANGED phase

(* A Pass ends the auction and leaves the contract, unless it is the       *)
(* opening call.                                                           *)
PassOut ==
  /\ phase = "open"
  /\ phase' = "over"
  /\ Made(bidPass)
  /\ contract' = IF calls = <<>> THEN bidPass ELSE contract

(* A bid that the partner will not answer ends it too. *)
FinalBid(b) ==
  /\ phase = "open" /\ b > bidPass /\ b > contract
  /\ phase' = "over" /\ Made(b) /\ contract' = b

(* The auction is abandoned without a call. *)
Abandon == phase = "open" /\ phase' = "over" /\ UNCHANGED <<calls, contract>>

ANext == \/ Open \/ PassOut \/ Abandon
         \/ \E b \in Call : Raise(b) \/ FinalBid(b)

ASpec == AInit /\ [][ANext]_avars
=============================================================================
