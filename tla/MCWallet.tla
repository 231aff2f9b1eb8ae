------------------------------ MODULE MCWallet ------------------------------
(***************************************************************************)
(* Two accounts' money, in two scenes explored side by side: one account   *)
(* on two connections, where statements raise and peers vanish, or play is *)
(* rewarded; and two accounts with a connection each.                      *)
(***************************************************************************)
EXTENDS Wallet, TLC

CONSTANTS u1, u2, c1, c2, k1, m1

SameUser == c1 :> u1 @@ c2 :> u1
OwnUser == c1 :> u1 @@ c2 :> u2
WorthTwo == k1 :> 2
OnceCode == k1 :> 1
TwiceCode == k1 :> 2
ToFirst == m1 :> u1
ThreeGold == m1 :> 3
FewQuantities == {-1, 1}

VARIABLE scene

TwoUsers == {u1, u2}

Apart == INSTANCE Wallet WITH
    UserOf <- OwnUser, MaxUses <- OnceCode, MaxWins <- 2,
    Quantities <- {-1, 0, 1, 2}, MaxFaults <- 0

MoneyInit ==
    \/ scene = "shared" /\ WalletInit
    \/ scene = "apart" /\ Apart!WalletInit

MoneyNext ==
    /\ UNCHANGED scene
    /\ \/ scene = "shared" /\ WalletNext
       \/ scene = "apart" /\ Apart!WalletNext
    /\ wins' = 0 \/ faults' = 0

MoneySpec == MoneyInit /\ [][MoneyNext]_<<scene, walletVars>>

\* Every variable stays in its type; money is neither lost nor made while
\* nothing fails; and a handler between two requests knows all the money of
\* its account but what the campaign gave it, if the account has no other
\* connection.
MoneyAddsUp ==
    CASE scene = "shared" -> WalletTypeOK /\ SmoothBalances
      [] scene = "apart" ->
            Apart!WalletTypeOK /\ Apart!MoneyBalances /\ Apart!ProfileKeepsUp
=============================================================================
