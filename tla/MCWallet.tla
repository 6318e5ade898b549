------------------------------ MODULE MCWallet ------------------------------
(* A small instance of the wallet for TLC.                                  *)
EXTENDS Wallet, TLC

CONSTANTS a, b, o1, o2, o3, o4, q1, q2, q3

\* Two users refer each other: b placed o1 and o3 with a's code, a placed o2
\* with b's, a guest o4 without one.  One reward covers one request of a, but not
\* both, nor a request and the price of o2.
MCBuyer == o1 :> b @@ o2 :> a @@ o3 :> b @@ o4 :> NoUser
MCReferrer == o1 :> a @@ o2 :> b @@ o3 :> a @@ o4 :> b
MCPrice == o1 :> 2 @@ o2 :> 1 @@ o3 :> 1 @@ o4 :> 1
MCReward == [o \in {o1, o2, o3, o4} |-> 2]
MCRequester == q1 :> a @@ q2 :> a @@ q3 :> b
MCAmount == q1 :> 2 @@ q2 :> 2 @@ q3 :> 1
=============================================================================
