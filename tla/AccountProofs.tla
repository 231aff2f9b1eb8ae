---------------------------- MODULE AccountProofs ----------------------------
(***************************************************************************)
(* What an account is given for: the money it spends, and the run of the   *)
(* arena it is rewarded for.  The two parts share no variable.             *)
(*                                                                         *)
(* The wallet, for any accounts, connections, codes and mails: no account  *)
(* is ever overdrawn, whatever fails; and as long as nothing fails, a mail *)
(* pays once, a code keeps its limit, no money is lost or made, and a      *)
(* handler knows what its account has.                                     *)
(*                                                                         *)
(* The arena run, for any length of a run and of a tier and any elites,    *)
(* whatever fails on the way: the fights are fought in order, the wins are *)
(* the slots won, the counters are those of the history, a gift is spent   *)
(* once and an answer fits its prompt.  And where no handler outlives its  *)
(* battle, a result enters the record once, no sack is lost, and a run     *)
(* that is called perfect has lost nothing.                                *)
(***************************************************************************)
EXTENDS Wallet, ArenaRun, Inductions

-------------------------------------------------------------------------------
\* The wallet.

RequestRecord ==
    [op : {"none", "buy", "redeem", "claim", "delete"},
     arg : Int \cup Codes \cup Mails, at : Stages, done : BOOLEAN, drawn : Nat]

\* What a request is about is what its kind of request is about.
WellFormed(r) ==
    /\ r \in RequestRecord
    /\ r.op = "buy" => r.arg \in Int
    /\ r.op = "redeem" => r.arg \in Codes
    /\ r.op = "claim" => r.arg \in Mails

RequestsOK == req \in [Conns -> RequestRecord] /\ \A c \in Conns : WellFormed(req[c])

\* The remembered balances are there because the older code of a redemption
\* makes one of them the balance: with gold alone the invariant is not kept.
PursesOK ==
    /\ gold \in [Users -> Nat]
    /\ cached \in [Conns -> Nat]
    /\ RequestsOK

LEMMA QuietIsWellFormed == WellFormed(Quiet)
  BY DEF WellFormed, Quiet, RequestRecord, Stages

\* Writing one request that is well formed keeps them all so.
LEMMA OneRequest ==
  ASSUME RequestsOK, NEW c \in Conns, NEW r, WellFormed(r),
         req' = [req EXCEPT ![c] = r]
  PROVE  RequestsOK'
<1>1. r \in RequestRecord
  BY DEF WellFormed
<1>2. req' \in [Conns -> RequestRecord]
  BY <1>1 DEF RequestsOK
<1>3. \A d \in Conns : WellFormed(req'[d])
  BY DEF RequestsOK
<1> QED BY <1>2, <1>3 DEF RequestsOK

\* A request moves on without changing what it is about.
LEMMA NextStage ==
  ASSUME RequestsOK, NEW c \in Conns, NEW at \in Stages, NEW done \in BOOLEAN,
         NEW drawn \in Nat,
         req' = [req EXCEPT ![c] = [req[c] EXCEPT !.at = at, !.done = done,
                                                  !.drawn = drawn]]
  PROVE  RequestsOK'
<1> DEFINE r == [req[c] EXCEPT !.at = at, !.done = done, !.drawn = drawn]
<1>1. WellFormed(req[c])
  BY DEF RequestsOK
<1>2. WellFormed(r)
  BY <1>1 DEF WellFormed, RequestRecord
<1> QED BY <1>2, OneRequest

LEMMA MoveKeepsRequests ==
  ASSUME RequestsOK, NEW c \in Conns, NEW at \in Stages, Move(c, at)
  PROVE  RequestsOK'
<1>1. req[c] \in RequestRecord
  BY DEF RequestsOK
<1>2. req' = [req EXCEPT ![c] = [req[c] EXCEPT !.at = at, !.done = req[c].done,
                                               !.drawn = req[c].drawn]]
  BY <1>1 DEF Move, RequestsOK, RequestRecord
<1>3. req[c].done \in BOOLEAN /\ req[c].drawn \in Nat
  BY <1>1 DEF RequestRecord
<1> QED BY <1>2, <1>3, NextStage

LEMMA CommitKeepsRequests ==
  ASSUME RequestsOK, NEW c \in Conns, NEW done \in BOOLEAN, Commit(c, done)
  PROVE  RequestsOK'
<1>1. req[c] \in RequestRecord
  BY DEF RequestsOK
<1>2. req' = [req EXCEPT ![c] = [req[c] EXCEPT !.at = "answer", !.done = done,
                                               !.drawn = req[c].drawn]]
  BY <1>1 DEF Commit, RequestsOK, RequestRecord
<1>3. req[c].drawn \in Nat /\ "answer" \in Stages
  BY <1>1 DEF RequestRecord, Stages
<1> QED BY <1>2, <1>3, NextStage

LEMMA EndKeepsRequests ==
  ASSUME RequestsOK, NEW c \in Conns, End(c)
  PROVE  RequestsOK'
  BY QuietIsWellFormed, OneRequest DEF End

LEMMA AskKeepsRequests ==
  ASSUME RequestsOK, NEW c \in Conns, Ask(c)
  PROVE  RequestsOK'
<1>1. PICK q \in Requests :
        req' = [req EXCEPT ![c] =
                    [op |-> q.op, arg |-> q.arg, at |-> "begun",
                     done |-> FALSE, drawn |-> 0]]
  BY DEF Ask
<1> DEFINE r == [op |-> q.op, arg |-> q.arg, at |-> "begun",
                 done |-> FALSE, drawn |-> 0]
<1>2. \/ q.op = "buy" /\ q.arg \in Int
      \/ q.op = "redeem" /\ q.arg \in Codes
      \/ q.op = "claim" /\ q.arg \in Mails
      \/ q.op = "delete" /\ q.arg = 0
  BY WalletAssumption DEF Requests
<1>3. WellFormed(r)
  BY <1>2 DEF WellFormed, RequestRecord, Stages
<1> QED BY <1>1, <1>3, OneRequest

-----------------------------------------------------------------------------
(* The transactions.                                                       *)

\* A balance that grows by a natural number is one.
LEMMA Credited ==
  ASSUME NEW S, NEW f \in [S -> Nat], NEW s \in S, NEW n \in Nat
  PROVE  [f EXCEPT ![s] = @ + n] \in [S -> Nat]
  OBVIOUS

LEMMA PurchaseKeepsPurses ==
  ASSUME PursesOK, NEW c \in Conns, Purchase(c)
  PROVE  PursesOK'
<1> DEFINE q == req[c].arg
           cost == Price * q
           left == gold[UserOf[c]] - cost
<1>1. q \in Int /\ UserOf[c] \in Users /\ Price \in Nat
  BY WalletAssumption DEF PursesOK, RequestsOK, WellFormed, Purchase, At
<1>2. cost \in Int
  BY <1>1
<1>3. gold[UserOf[c]] \in Nat
  BY <1>1 DEF PursesOK
<1>4. RequestsOK'
  <2>1. Affordable(c, q) \in BOOLEAN
    BY DEF Affordable
  <2> QED BY <2>1, CommitKeepsRequests DEF PursesOK, Purchase
<1>5. CASE Affordable(c, q)
  <2>1. left \in Nat
    <3> HIDE DEF cost
    <3> QED BY <1>2, <1>3, <1>5 DEF Affordable, Balance, cost
  <2>2. gold' = [gold EXCEPT ![UserOf[c]] = left] /\ cached' = [cached EXCEPT ![c] = left]
    BY <1>5 DEF Purchase, Balance
  <2> HIDE DEF left
  <2> QED BY <1>4, <2>1, <2>2 DEF PursesOK
<1>6. CASE ~Affordable(c, q)
  <2>1. gold' = gold /\ cached' = [cached EXCEPT ![c] = gold[UserOf[c]]]
    BY <1>6 DEF Purchase, Balance
  <2> QED BY <1>3, <1>4, <2>1 DEF PursesOK
<1> QED BY <1>5, <1>6

LEMMA RedeemKeepsPurses ==
  ASSUME PursesOK, NEW c \in Conns, Redeem(c)
  PROVE  PursesOK'
<1> DEFINE k == req[c].arg
<1>1. k \in Codes /\ UserOf[c] \in Users /\ Worth[k] \in Nat
  BY WalletAssumption DEF PursesOK, RequestsOK, WellFormed, Redeem, At
<1>2. RequestsOK'
  <2>1. PICK done \in BOOLEAN, drawn \in Nat :
          req' = [req EXCEPT ![c].at = "answer", ![c].drawn = drawn]
    BY DEF Redeem
  <2>2. req[c] \in RequestRecord
    BY DEF PursesOK, RequestsOK
  <2>3. req' = [req EXCEPT ![c] = [req[c] EXCEPT !.at = "answer", !.done = req[c].done,
                                                 !.drawn = drawn]]
    BY <2>1, <2>2 DEF PursesOK, RequestsOK, RequestRecord
  <2>4. req[c].done \in BOOLEAN /\ "answer" \in Stages
    BY <2>2 DEF RequestRecord, Stages
  <2> QED BY <2>3, <2>4, NextStage DEF PursesOK
<1>3. CASE UsesLeft(k)
  <2>1. gold' = [gold EXCEPT ![UserOf[c]] = @ + Worth[k]]
        /\ cached' = [cached EXCEPT ![c] = @ + Worth[k]]
    BY <1>3 DEF Redeem, Remembered
  <2>2. gold' \in [Users -> Nat] /\ cached' \in [Conns -> Nat]
    BY <1>1, <2>1, Credited DEF PursesOK
  <2> QED BY <1>2, <2>2 DEF PursesOK
<1>4. CASE ~UsesLeft(k)
  BY <1>2, <1>4 DEF Redeem, PursesOK
<1> QED BY <1>3, <1>4

LEMMA ClaimKeepsPurses ==
  ASSUME PursesOK, NEW c \in Conns, Claim(c)
  PROVE  PursesOK'
<1> DEFINE m == req[c].arg
<1>1. m \in Mails /\ UserOf[c] \in Users /\ MailGold[m] \in Nat
  BY WalletAssumption DEF PursesOK, RequestsOK, WellFormed, Claim, At
<1>2. RequestsOK'
  <2>1. Claimable(c, m) \in BOOLEAN
    BY DEF Claimable
  <2> QED BY <2>1, CommitKeepsRequests DEF PursesOK, Claim
<1>3. CASE Claimable(c, m)
  <2>1. gold' = [gold EXCEPT ![UserOf[c]] = @ + MailGold[m]]
        /\ cached' = [cached EXCEPT ![c] = @ + MailGold[m]]
    BY <1>3 DEF Claim, Remembered
  <2>2. gold' \in [Users -> Nat] /\ cached' \in [Conns -> Nat]
    BY <1>1, <2>1, Credited DEF PursesOK
  <2> QED BY <1>2, <2>2 DEF PursesOK
<1>4. CASE ~Claimable(c, m)
  BY <1>2, <1>4 DEF Claim, PursesOK
<1> QED BY <1>3, <1>4

-----------------------------------------------------------------------------
(* The older code, and the rest.                                           *)

LEMMA OlderKeepsPurses ==
  ASSUME PursesOK, NEW c \in Conns, Older(c)
  PROVE  PursesOK'
<1>1. CASE SendPurchaseFailure(c) \/ LegacyAnswer(c)
  BY <1>1, EndKeepsRequests DEF SendPurchaseFailure, LegacyAnswer, PursesOK, tables
<1>2. CASE LegacyRedeem(c)
  BY <1>2, MoveKeepsRequests DEF LegacyRedeem, PursesOK, tables, Stages
<1>3. CASE LegacyCount(c)
  <2>1. req[c] \in RequestRecord
    BY DEF PursesOK, RequestsOK
  <2>2. req' = [req EXCEPT ![c] = [req[c] EXCEPT !.at = "credit", !.done = req[c].done,
                                                 !.drawn = req[c].drawn + 1]]
    BY <1>3, <2>1 DEF LegacyCount, PursesOK, RequestsOK, RequestRecord
  <2>3. req[c].done \in BOOLEAN /\ "credit" \in Stages /\ req[c].drawn + 1 \in Nat
    BY <2>1 DEF RequestRecord, Stages
  <2>4. RequestsOK'
    BY <2>2, <2>3, NextStage DEF PursesOK
  <2> QED BY <1>3, <2>4 DEF LegacyCount, PursesOK
<1>4. CASE LegacyCredit(c)
  <2> DEFINE sum == cached[c] + Worth[req[c].arg]
  <2>1. Worth[req[c].arg] \in Nat /\ UserOf[c] \in Users
    BY <1>4, WalletAssumption DEF LegacyCredit, At, PursesOK, RequestsOK, WellFormed
  <2>2. sum \in Nat
    BY <2>1 DEF PursesOK
  <2>3. gold' = [gold EXCEPT ![UserOf[c]] = sum] /\ cached' = [cached EXCEPT ![c] = sum]
    BY <1>4 DEF LegacyCredit
  <2>4. RequestsOK'
    BY <1>4, MoveKeepsRequests DEF LegacyCredit, PursesOK, Stages
  <2> HIDE DEF sum
  <2> QED BY <2>2, <2>3, <2>4 DEF PursesOK
<1>5. CASE LegacyClaim(c)
  BY <1>5, MoveKeepsRequests DEF LegacyClaim, PursesOK, tables, Stages
<1>6. CASE LegacyPay(c) \/ LegacyMark(c)
  <2>1. MailGold[req[c].arg] \in Nat /\ UserOf[c] \in Users
    BY <1>6, WalletAssumption
       DEF LegacyPay, LegacyMark, At, PursesOK, RequestsOK, WellFormed
  <2>2. RequestsOK'
    BY <1>6, MoveKeepsRequests DEF LegacyPay, LegacyMark, PursesOK, Stages
  <2>3. CASE LegacyPay(c)
    BY <2>1, <2>2, <2>3, Credited DEF LegacyPay, PursesOK
  <2>4. CASE LegacyMark(c)
    BY <2>1, <2>2, <2>4, Credited DEF LegacyMark, PursesOK
  <2> QED BY <1>6, <2>3, <2>4
<1> QED BY <1>1, <1>2, <1>3, <1>4, <1>5, <1>6 DEF Older

LEMMA RewardKeepsPurses ==
  ASSUME PursesOK, NEW c \in Conns, CampaignReward(c) \/ ArenaCashOut(c)
  PROVE  PursesOK'
<1>1. WinGold(c) /\ UserOf[c] \in Users
  BY WalletAssumption DEF CampaignReward, ArenaCashOut
<1>2. gold' = [gold EXCEPT ![UserOf[c]] = @ + 1]
  BY <1>1 DEF WinGold
<1>3. gold' \in [Users -> Nat]
  BY <1>1, <1>2, Credited DEF PursesOK
<1>4. cached' \in [Conns -> Nat]
  BY <1>1, <1>3 DEF CampaignReward, ArenaCashOut, PursesOK
<1>5. RequestsOK'
  BY DEF CampaignReward, ArenaCashOut, PursesOK, RequestsOK
<1> QED BY <1>3, <1>4, <1>5 DEF PursesOK

LEMMA ConnectionsKeepPurses ==
  ASSUME PursesOK, NEW c \in Conns,
         Login(c) \/ PeerGone(c) \/ Leave(c) \/ Ask(c)
  PROVE  PursesOK'
<1>1. CASE Login(c)
  <2>1. gold[UserOf[c]] \in Nat
    BY WalletAssumption DEF PursesOK
  <2> QED BY <1>1, <2>1 DEF Login, PursesOK, RequestsOK, tables
<1>2. CASE PeerGone(c)
  BY <1>2 DEF PeerGone, PursesOK, RequestsOK, tables
<1>3. CASE Leave(c)
  BY <1>3 DEF Leave, PursesOK, RequestsOK, tables
<1>4. CASE Ask(c)
  <2>1. RequestsOK'
    BY <1>4, AskKeepsRequests DEF PursesOK
  <2> QED BY <1>4, <2>1 DEF Ask, PursesOK, tables
<1> QED BY <1>1, <1>2, <1>3, <1>4

LEMMA AnswersKeepPurses ==
  ASSUME PursesOK, NEW c \in Conns,
         \/ Delete(c) \/ Answer(c) \/ Pushed(c)
         \/ Rollback(c) \/ SendFails(c) \/ PushFails(c)
  PROVE  PursesOK'
<1>1. RequestsOK
  BY DEF PursesOK
<1>2. {"late", "push", "raised"} \subseteq Stages
  BY DEF Stages
<1>3. RequestsOK'
  <2>1. CASE Delete(c)
    BY <1>1, <1>2, <2>1, CommitKeepsRequests, MoveKeepsRequests DEF Delete
  <2>2. CASE Answer(c) \/ Pushed(c)
    BY <1>1, <1>2, <2>2, EndKeepsRequests, MoveKeepsRequests DEF Answer, Pushed
  <2>3. CASE Rollback(c) \/ SendFails(c) \/ PushFails(c)
    BY <1>1, <1>2, <2>3, MoveKeepsRequests DEF Rollback, SendFails, PushFails
  <2> QED BY <2>1, <2>2, <2>3
<1>4. UNCHANGED <<gold, cached>>
  BY DEF Delete, Answer, Pushed, Rollback, SendFails, PushFails, tables
<1> QED BY <1>3, <1>4 DEF PursesOK

LEMMA FirstPurses == WalletInit => PursesOK
  BY QuietIsWellFormed, WalletAssumption
     DEF WalletInit, PursesOK, RequestsOK, WellFormed

LEMMA StepKeepsPurses == PursesOK /\ [WalletNext]_walletVars => PursesOK'
<1> SUFFICES ASSUME PursesOK, [WalletNext]_walletVars
             PROVE  PursesOK'
  OBVIOUS
<1>1. CASE UNCHANGED walletVars
  BY <1>1 DEF walletVars, tables, PursesOK, RequestsOK
<1>2. ASSUME NEW c \in Conns,
             Login(c) \/ PeerGone(c) \/ Leave(c) \/ Ask(c)
      PROVE  PursesOK'
  BY <1>2, ConnectionsKeepPurses
<1>3. ASSUME NEW c \in Conns, Purchase(c) \/ Redeem(c) \/ Claim(c)
      PROVE  PursesOK'
  BY <1>3, PurchaseKeepsPurses, RedeemKeepsPurses, ClaimKeepsPurses
<1>4. ASSUME NEW c \in Conns,
             \/ Delete(c) \/ Answer(c) \/ Pushed(c)
             \/ Rollback(c) \/ SendFails(c) \/ PushFails(c)
      PROVE  PursesOK'
  BY <1>4, AnswersKeepPurses
<1>5. ASSUME NEW c \in Conns, Older(c) \/ CampaignReward(c) \/ ArenaCashOut(c)
      PROVE  PursesOK'
  BY <1>5, OlderKeepsPurses, RewardKeepsPurses
<1> QED BY <1>1, <1>2, <1>3, <1>4, <1>5 DEF WalletNext

\* Whatever fails, and however many connections spend the money of an account
\* at once, its balance never goes below zero (services/store.py:172-180).
THEOREM NobodyIsOverdrawn == WalletSpec => []NoOverdraft
<1>1. WalletSpec => []PursesOK
  BY FirstPurses, StepKeepsPurses, PTL DEF WalletSpec
<1>2. PursesOK => NoOverdraft
  BY DEF PursesOK, NoOverdraft
<1> QED BY <1>1, <1>2, PTL

-----------------------------------------------------------------------------
(* Nothing fails.                                                          *)

\* As long as nothing fails, no thread is at work on older code.
SmoothOK ==
    /\ line \in [Conns -> {"off", "up"}]
    /\ \A c \in Conns : req[c].at \in {"idle", "begun", "answer", "push"}

\* A mail that is still new has paid nothing.
BooksOK ==
    /\ uses \in [Codes -> Nat] /\ UsesLimited
    /\ paid \in [Mails -> {0, 1}]
    /\ mail \in [Mails -> {"new", "claimed", "deleted"}]
    /\ \A m \in Mails : mail[m] = "new" => paid[m] = 0

LEMMA FirstBooks == WalletInit => SmoothOK /\ BooksOK
  BY WalletAssumption DEF WalletInit, SmoothOK, BooksOK, UsesLimited, Quiet

\* What fails stays on record.
LEMMA FaultsAreCounted ==
  ASSUME faults \in Nat, [WalletNext]_walletVars
  PROVE  faults' \in Nat /\ (faults' = 0 => faults = 0)
<1>1. ASSUME faults' = faults PROVE faults' \in Nat /\ (faults' = 0 => faults = 0)
  BY <1>1
<1>2. ASSUME Fault PROVE faults' \in Nat /\ (faults' = 0 => faults = 0)
  BY <1>2 DEF Fault
<1>3. faults' = faults \/ Fault
  <2>1. ASSUME NEW c \in Conns, Older(c)
        PROVE  faults' = faults
    BY <2>1 DEF Older, SendPurchaseFailure, LegacyRedeem, LegacyCount, LegacyCredit,
                LegacyClaim, LegacyPay, LegacyMark, LegacyAnswer, bounds
  <2>2. ASSUME NEW c \in Conns,
               \/ Login(c) \/ Leave(c) \/ Ask(c) \/ Purchase(c) \/ Redeem(c)
               \/ Claim(c) \/ Delete(c) \/ Answer(c) \/ Pushed(c)
               \/ CampaignReward(c) \/ ArenaCashOut(c)
        PROVE  faults' = faults
    BY <2>2 DEF Login, Leave, Ask, Purchase, Redeem, Claim, Delete, Answer, Pushed,
                CampaignReward, ArenaCashOut, WinGold, bounds
  <2>3. ASSUME NEW c \in Conns,
               PeerGone(c) \/ Rollback(c) \/ SendFails(c) \/ PushFails(c)
        PROVE  faults' = faults \/ Fault
    BY <2>3 DEF PeerGone, Rollback, SendFails, PushFails, bounds
  <2>4. CASE UNCHANGED walletVars
    BY <2>4 DEF walletVars, bounds
  <2> QED BY <2>1, <2>2, <2>3, <2>4 DEF WalletNext
<1> QED BY <1>1, <1>2, <1>3

LEMMA StepStaysSmooth ==
  ASSUME faults \in Nat, faults' = 0, PursesOK, SmoothOK, [WalletNext]_walletVars
  PROVE  SmoothOK'
<1>1. CASE UNCHANGED walletVars
  BY <1>1 DEF walletVars, bounds, SmoothOK
<1>2. ~Fault
  BY DEF Fault
<1>3. req \in [Conns -> RequestRecord]
  BY DEF PursesOK, RequestsOK
<1>4. ASSUME NEW c \in Conns, Older(c)
      PROVE  FALSE
  BY <1>4 DEF Older, SendPurchaseFailure, LegacyRedeem, LegacyCount, LegacyCredit,
              LegacyClaim, LegacyPay, LegacyMark, LegacyAnswer, At, SmoothOK
<1>5. ASSUME NEW c \in Conns, PeerGone(c) \/ Rollback(c) \/ PushFails(c) \/ SendFails(c)
      PROVE  FALSE
  BY <1>2, <1>5 DEF PeerGone, Rollback, PushFails, SendFails, SmoothOK
<1>6. ASSUME NEW c \in Conns, Login(c) \/ Leave(c)
      PROVE  SmoothOK'
  BY <1>6 DEF Login, Leave, SmoothOK, bounds
<1>7. ASSUME NEW c \in Conns, Ask(c)
      PROVE  SmoothOK'
  BY <1>3, <1>7 DEF Ask, SmoothOK, bounds
<1>8. ASSUME NEW c \in Conns, Purchase(c) \/ Redeem(c) \/ Claim(c)
      PROVE  SmoothOK'
  <2>1. line' = line /\ faults' = faults
    BY <1>8 DEF Purchase, Redeem, Claim, bounds
  <2>2. PICK r : req' = [req EXCEPT ![c] = r] /\ r.at = "answer"
    <3>1. CASE Purchase(c) \/ Claim(c)
      <4>1. PICK done : Commit(c, done)
        BY <3>1 DEF Purchase, Claim
      <4>2. req' = [req EXCEPT ![c] = [req[c] EXCEPT !.at = "answer", !.done = done]]
        BY <1>3, <4>1 DEF Commit
      <4>3. [req[c] EXCEPT !.at = "answer", !.done = done].at = "answer"
        BY <1>3 DEF RequestRecord
      <4> QED BY <4>2, <4>3
    <3>2. CASE Redeem(c)
      <4>1. PICK n : req' = [req EXCEPT ![c].at = "answer", ![c].drawn = n]
        BY <3>2 DEF Redeem
      <4>2. req' = [req EXCEPT ![c] = [req[c] EXCEPT !.at = "answer", !.drawn = n]]
        BY <1>3, <4>1
      <4>3. [req[c] EXCEPT !.at = "answer", !.drawn = n].at = "answer"
        BY <1>3 DEF RequestRecord
      <4> QED BY <4>2, <4>3
    <3> QED BY <1>8, <3>1, <3>2
  <2>3. \A d \in Conns : req'[d] = IF d = c THEN r ELSE req[d]
    BY <1>3, <2>2
  <2>4. r.at \in {"idle", "begun", "answer", "push"}
    BY <2>2
  <2> QED BY <2>1, <2>3, <2>4 DEF SmoothOK
<1>9. ASSUME NEW c \in Conns, Delete(c) \/ Answer(c) \/ Pushed(c)
      PROVE  SmoothOK'
  <2>1. line' = line /\ faults' = faults
    BY <1>9 DEF Delete, Answer, Pushed, bounds
  <2>2. PICK r : /\ req' = [req EXCEPT ![c] = r]
                 /\ r.at \in {"idle", "answer", "push"}
    <3>1. CASE Delete(c)
      <4>1. Commit(c, TRUE)
        BY <3>1 DEF Delete, At, SmoothOK
      <4>2. req' = [req EXCEPT ![c] = [req[c] EXCEPT !.at = "answer", !.done = TRUE]]
        BY <1>3, <4>1 DEF Commit
      <4>3. [req[c] EXCEPT !.at = "answer", !.done = TRUE].at = "answer"
        BY <1>3 DEF RequestRecord
      <4> QED BY <4>2, <4>3
    <3>2. CASE Move(c, "push")
      <4>1. [req[c] EXCEPT !.at = "push"].at = "push"
        BY <1>3 DEF RequestRecord
      <4>2. req' = [req EXCEPT ![c] = [req[c] EXCEPT !.at = "push"]]
        BY <1>3, <3>2 DEF Move
      <4> QED BY <4>1, <4>2
    <3>3. CASE End(c)
      <4>1. Quiet.at = "idle"
        BY DEF Quiet
      <4>2. req' = [req EXCEPT ![c] = Quiet]
        BY <3>3 DEF End
      <4> QED BY <4>1, <4>2
    <3> QED BY <1>9, <3>1, <3>2, <3>3 DEF Answer, Pushed
  <2>3. \A d \in Conns : req'[d] = IF d = c THEN r ELSE req[d]
    BY <1>3, <2>2
  <2>4. r.at \in {"idle", "begun", "answer", "push"}
    BY <2>2
  <2> QED BY <2>1, <2>3, <2>4 DEF SmoothOK
<1>10. ASSUME NEW c \in Conns, CampaignReward(c) \/ ArenaCashOut(c)
       PROVE  SmoothOK'
  BY <1>10 DEF CampaignReward, ArenaCashOut, WinGold, SmoothOK
<1> QED BY <1>1, <1>4, <1>5, <1>6, <1>7, <1>8, <1>9, <1>10 DEF WalletNext

LEMMA StepKeepsBooks ==
  ASSUME PursesOK, SmoothOK, BooksOK, [WalletNext]_walletVars
  PROVE  BooksOK'
<1>1. ASSUME UNCHANGED <<uses, mail, paid>>
      PROVE  BooksOK'
  BY <1>1 DEF BooksOK, UsesLimited
<1>2. ASSUME NEW c \in Conns, Older(c)
      PROVE  FALSE
  BY <1>2 DEF Older, SendPurchaseFailure, LegacyRedeem, LegacyCount, LegacyCredit,
              LegacyClaim, LegacyPay, LegacyMark, LegacyAnswer, At, SmoothOK
<1>3. ASSUME NEW c \in Conns, Redeem(c)
      PROVE  BooksOK'
  <2> DEFINE k == req[c].arg
  <2>1. k \in Codes /\ MaxUses[k] \in Nat
    BY <1>3, WalletAssumption DEF Redeem, At, PursesOK, RequestsOK, WellFormed
  <2>2. CASE UsesLeft(k)
    <3>1. uses' = [uses EXCEPT ![k] = @ + 1] /\ UNCHANGED <<mail, paid>>
      BY <1>3, <2>2 DEF Redeem
    <3>2. uses[k] + 1 <= MaxUses[k]
      BY <2>1, <2>2 DEF UsesLeft, BooksOK
    <3> QED BY <2>1, <3>1, <3>2 DEF BooksOK, UsesLimited
  <2>3. CASE ~UsesLeft(k)
    BY <1>1, <1>3, <2>3 DEF Redeem
  <2> QED BY <2>2, <2>3
<1>4. ASSUME NEW c \in Conns, Claim(c)
      PROVE  BooksOK'
  <2> DEFINE m == req[c].arg
  <2>1. m \in Mails
    BY <1>4 DEF Claim, At, PursesOK, RequestsOK, WellFormed
  <2>2. CASE Claimable(c, m)
    <3>1. /\ mail' = [mail EXCEPT ![m] = "claimed"]
          /\ paid' = [paid EXCEPT ![m] = @ + 1]
          /\ uses' = uses
      BY <1>4, <2>2 DEF Claim
    <3>2. paid[m] = 0
      BY <2>1, <2>2 DEF Claimable, BooksOK
    <3> QED BY <2>1, <3>1, <3>2 DEF BooksOK, UsesLimited
  <2>3. CASE ~Claimable(c, m)
    BY <1>1, <1>4, <2>3 DEF Claim
  <2> QED BY <2>2, <2>3
<1>5. ASSUME NEW c \in Conns, Delete(c)
      PROVE  BooksOK'
  BY <1>5 DEF Delete, BooksOK, UsesLimited
<1>6. ASSUME NEW c \in Conns,
             \/ Login(c) \/ PeerGone(c) \/ Leave(c) \/ Ask(c) \/ Purchase(c)
             \/ Answer(c) \/ Pushed(c) \/ Rollback(c) \/ SendFails(c) \/ PushFails(c)
             \/ CampaignReward(c) \/ ArenaCashOut(c)
      PROVE  UNCHANGED <<uses, mail, paid>>
  BY <1>6 DEF Login, PeerGone, Leave, Ask, Purchase, Answer, Pushed, Rollback,
              SendFails, PushFails, CampaignReward, ArenaCashOut, tables
<1>7. CASE UNCHANGED walletVars
  BY <1>1, <1>7 DEF walletVars, tables
<1> QED BY <1>1, <1>2, <1>3, <1>4, <1>5, <1>6, <1>7 DEF WalletNext

\* What the accounts rely on holds as long as nothing has failed.
BooksWhileSmooth ==
    PursesOK /\ faults \in Nat /\ (faults = 0 => SmoothOK /\ BooksOK)

LEMMA BooksAlwaysOK == WalletSpec => []BooksWhileSmooth
<1>1. WalletInit => BooksWhileSmooth
  BY FirstPurses, FirstBooks DEF WalletInit, BooksWhileSmooth
<1>2. BooksWhileSmooth /\ [WalletNext]_walletVars => BooksWhileSmooth'
  <2> SUFFICES ASSUME BooksWhileSmooth, [WalletNext]_walletVars
               PROVE  BooksWhileSmooth'
    OBVIOUS
  <2>1. PursesOK'
    BY StepKeepsPurses DEF BooksWhileSmooth
  <2>2. faults' \in Nat /\ (faults' = 0 => faults = 0)
    BY FaultsAreCounted DEF BooksWhileSmooth
  <2>3. ASSUME faults' = 0 PROVE SmoothOK' /\ BooksOK'
    BY <2>2, <2>3, StepStaysSmooth, StepKeepsBooks DEF BooksWhileSmooth
  <2> QED BY <2>1, <2>2, <2>3 DEF BooksWhileSmooth
<1> QED BY <1>1, <1>2, PTL DEF WalletSpec

\* While nothing fails, a mail pays its gold at most once however many
\* connections of its account claim it at once (profile_db.py:934-968).
THEOREM MailPaysOnce == WalletSpec => []SmoothPaidOnce
<1>1. BooksWhileSmooth => SmoothPaidOnce
  BY DEF BooksWhileSmooth, BooksOK, SmoothPaidOnce, PaidOnce
<1> QED BY <1>1, BooksAlwaysOK, PTL

\* While nothing fails, a code is redeemed no more often than it allows
\* (profile_db.py:1283-1300).
THEOREM CodeKeepsLimit == WalletSpec => []SmoothUses
<1>1. BooksWhileSmooth => SmoothUses
  BY DEF BooksWhileSmooth, BooksOK, SmoothUses
<1> QED BY <1>1, BooksAlwaysOK, PTL

\* Both: what comes from outside comes in once.
THEOREM NothingPaysTwice == WalletSpec => []PaysOnce
<1>1. BooksWhileSmooth => PaysOnce
  BY DEF BooksWhileSmooth, BooksOK, PaysOnce, SmoothPaidOnce, SmoothUses, PaidOnce
<1> QED BY <1>1, BooksAlwaysOK, PTL

-----------------------------------------------------------------------------
(* Whose mail it is.                                                        *)

\* The older code has looked whose mail it pays before it does.
OwnClaims ==
    \A c \in Conns : At(c, "claim", "pay") => MailTo[req[c].arg] = UserOf[c]

\* One thread's request changes, and it is not about to pay another's mail.
LEMMA OneClaim ==
  ASSUME OwnClaims, NEW c \in Conns,
         \A d \in Conns \ {c} : req'[d] = req[d],
         At(c, "claim", "pay")' => MailTo[req'[c].arg] = UserOf[c]
  PROVE  OwnClaims'
  BY DEF OwnClaims, At

LEMMA StepKeepsClaims == RequestsOK /\ OwnClaims /\ [WalletNext]_walletVars => OwnClaims'
<1> SUFFICES ASSUME RequestsOK, OwnClaims, [WalletNext]_walletVars
             PROVE  OwnClaims'
  OBVIOUS
<1> USE DEF RequestsOK
<1>1. CASE UNCHANGED req
  BY <1>1 DEF OwnClaims, At
<1>2. ASSUME NEW c \in Conns, End(c)
      PROVE  OwnClaims'
  BY <1>2, OneClaim DEF End, Quiet, At
<1>3. ASSUME NEW c \in Conns, NEW at \in Stages \ {"pay"}, Move(c, at)
      PROVE  OwnClaims'
  <2>1. req'[c].at = at
    BY <1>3 DEF Move, RequestRecord
  <2> QED BY <1>3, <2>1, OneClaim DEF Move, At
<1>4. ASSUME NEW c \in Conns, NEW done, Commit(c, done)
      PROVE  OwnClaims'
  <2>1. req'[c].at = "answer"
    BY <1>4 DEF Commit, RequestRecord
  <2> QED BY <1>4, <2>1, OneClaim DEF Commit, At
<1>5. ASSUME NEW c \in Conns, Ask(c) \/ Redeem(c) \/ LegacyCount(c)
      PROVE  OwnClaims'
  <2>1. req'[c].at \in {"begun", "answer", "credit"}
    BY <1>5 DEF Ask, Redeem, LegacyCount, RequestRecord
  <2> QED BY <1>5, <2>1, OneClaim DEF Ask, Redeem, LegacyCount, At
<1>6. ASSUME NEW c \in Conns, LegacyClaim(c)
      PROVE  OwnClaims'
  <2>1. CASE Claimable(c, req[c].arg)
    <3>1. req'[c].arg = req[c].arg
      BY <1>6, <2>1 DEF LegacyClaim, Move, RequestRecord
    <3> QED BY <1>6, <2>1, <3>1, OneClaim DEF LegacyClaim, Move, Claimable
  <2>2. CASE ~Claimable(c, req[c].arg)
    BY <1>6, <2>2, <1>3 DEF LegacyClaim, Stages
  <2> QED BY <2>1, <2>2
<1>7. ASSUME NEW c \in Conns,
             Login(c) \/ PeerGone(c) \/ Leave(c) \/ CampaignReward(c) \/ ArenaCashOut(c)
      PROVE  UNCHANGED req
  BY <1>7 DEF Login, PeerGone, Leave, CampaignReward, ArenaCashOut
<1>8. ASSUME NEW c \in Conns, Purchase(c) \/ Claim(c) \/ Delete(c)
      PROVE  OwnClaims'
  BY <1>8, <1>3, <1>4 DEF Purchase, Claim, Delete, Stages
<1>9. ASSUME NEW c \in Conns,
             Answer(c) \/ Pushed(c) \/ Rollback(c) \/ SendFails(c) \/ PushFails(c)
      PROVE  OwnClaims'
  BY <1>9, <1>2, <1>3 DEF Answer, Pushed, Rollback, SendFails, PushFails, Stages
<1>10. ASSUME NEW c \in Conns,
              \/ SendPurchaseFailure(c) \/ LegacyRedeem(c) \/ LegacyCredit(c)
              \/ LegacyPay(c) \/ LegacyMark(c) \/ LegacyAnswer(c)
      PROVE  OwnClaims'
  BY <1>10, <1>2, <1>3 DEF SendPurchaseFailure, LegacyRedeem, LegacyCredit, LegacyPay,
                           LegacyMark, LegacyAnswer, Stages
<1> QED BY <1>1, <1>5, <1>6, <1>7, <1>8, <1>9, <1>10 DEF WalletNext, Older, walletVars

PaidOK == paid \in [Mails -> Nat]

LEMMA WhoPays ==
  ASSUME [WalletNext]_walletVars
  PROVE  (\E c \in Conns : Claim(c) \/ LegacyPay(c)) \/ paid' = paid
<1>1. ASSUME NEW c \in Conns,
             \/ Login(c) \/ PeerGone(c) \/ Leave(c) \/ Ask(c) \/ Purchase(c) \/ Redeem(c)
             \/ Delete(c) \/ Answer(c) \/ Pushed(c) \/ Rollback(c) \/ SendFails(c)
             \/ PushFails(c) \/ CampaignReward(c) \/ ArenaCashOut(c)
      PROVE  paid' = paid
  BY <1>1 DEF Login, PeerGone, Leave, Ask, Purchase, Redeem, Delete, Answer, Pushed,
              Rollback, SendFails, PushFails, CampaignReward, ArenaCashOut
<1>2. ASSUME NEW c \in Conns,
             \/ SendPurchaseFailure(c) \/ LegacyRedeem(c) \/ LegacyCount(c)
             \/ LegacyCredit(c) \/ LegacyClaim(c) \/ LegacyMark(c) \/ LegacyAnswer(c)
      PROVE  paid' = paid
  BY <1>2 DEF SendPurchaseFailure, LegacyRedeem, LegacyCount, LegacyCredit, LegacyClaim,
              LegacyMark, LegacyAnswer
<1> QED BY <1>1, <1>2 DEF WalletNext, Older, walletVars

LEMMA StepKeepsPaid == RequestsOK /\ PaidOK /\ [WalletNext]_walletVars => PaidOK'
<1> SUFFICES ASSUME RequestsOK, PaidOK, [WalletNext]_walletVars
             PROVE  PaidOK'
  OBVIOUS
<1>1. ASSUME NEW c \in Conns, Claim(c)
      PROVE  PaidOK'
  BY <1>1 DEF Claim, At, PaidOK, RequestsOK, WellFormed
<1>2. ASSUME NEW c \in Conns, LegacyPay(c)
      PROVE  PaidOK'
  BY <1>2 DEF LegacyPay, At, PaidOK, RequestsOK, WellFormed
<1> QED BY <1>1, <1>2, WhoPays DEF PaidOK

\* The two places that pay a mail pay the account of the connection.
LEMMA PaysItsAccount ==
  ASSUME PursesOK, PaidOK, OwnClaims, [WalletNext]_walletVars
  PROVE  OwnMailOnlyStep
<1> SUFFICES ASSUME NEW m \in Mails, NEW u \in Users, u # MailTo[m], paid'[m] # paid[m]
             PROVE  gold'[u] = gold[u]
  BY DEF OwnMailOnlyStep
<1>1. ASSUME NEW c \in Conns, Claim(c)
      PROVE  gold'[u] = gold[u]
  BY <1>1, WalletAssumption DEF Claim, Claimable, PursesOK, PaidOK
<1>2. ASSUME NEW c \in Conns, LegacyPay(c)
      PROVE  gold'[u] = gold[u]
  BY <1>2, WalletAssumption DEF LegacyPay, OwnClaims, PursesOK, PaidOK
<1>3. (\E c \in Conns : Claim(c) \/ LegacyPay(c)) \/ paid' = paid
  BY WhoPays
<1> QED BY <1>1, <1>2, <1>3

\* The gold of a mail goes to the account it was delivered to and to no other,
\* whatever fails between the claim and its older code (profile_db.py:934-968).
THEOREM MailPaysItsOwner == WalletSpec => OwnMailOnly
<1>1. WalletInit => OwnClaims /\ PaidOK
  BY DEF WalletInit, OwnClaims, PaidOK, At, Quiet
<1>2. WalletSpec => []PursesOK
  BY FirstPurses, StepKeepsPurses, PTL DEF WalletSpec
<1>3. PursesOK => RequestsOK
  BY DEF PursesOK
<1>4. WalletSpec => [](OwnClaims /\ PaidOK)
  BY <1>1, <1>2, <1>3, StepKeepsClaims, StepKeepsPaid, PTL DEF WalletSpec
<1> QED BY <1>2, <1>3, <1>4, PaysItsAccount, PTL DEF WalletSpec, OwnMailOnly

-----------------------------------------------------------------------------
(* That the money adds up.                                                  *)

\* There are finitely many accounts, codes and mails, as in any database.
FiniteBooks == IsFiniteSet(Users) /\ IsFiniteSet(Codes) /\ IsFiniteSet(Mails)

BalanceOf == [u \in Users |-> gold[u] + Price * goods[u]]
RedeemedOf == [k \in Codes |-> Worth[k] * uses[k]]
MailedOf == [m \in Mails |-> MailGold[m] * paid[m]]

Balanced ==
    SumFunction(BalanceOf)
        = Start * Cardinality(Users) + wins + SumFunction(RedeemedOf) + SumFunction(MailedOf)

\* The numbers of the sum.
AmountsOK ==
    /\ gold \in [Users -> Nat] /\ goods \in [Users -> Nat]
    /\ uses \in [Codes -> Nat] /\ paid \in [Mails -> Nat] /\ wins \in Nat

LEMMA Amounts ==
  ASSUME AmountsOK
  PROVE  /\ BalanceOf \in [Users -> Int]
         /\ RedeemedOf \in [Codes -> Int] /\ MailedOf \in [Mails -> Int]
<1>1. \A u \in Users : gold[u] + Price * goods[u] \in Int
  BY WalletAssumption DEF AmountsOK
<1>2. \A k \in Codes : Worth[k] * uses[k] \in Int
  <2> SUFFICES ASSUME NEW k \in Codes PROVE Worth[k] * uses[k] \in Int
    OBVIOUS
  <2>1. Worth[k] \in Nat /\ uses[k] \in Nat
    BY WalletAssumption DEF AmountsOK
  <2> QED
    BY <2>1
<1>3. \A m \in Mails : MailGold[m] * paid[m] \in Int
  <2> SUFFICES ASSUME NEW m \in Mails PROVE MailGold[m] * paid[m] \in Int
    OBVIOUS
  <2>1. MailGold[m] \in Nat /\ paid[m] \in Nat
    BY WalletAssumption DEF AmountsOK
  <2> QED
    BY <2>1
<1> QED
  BY <1>1, <1>2, <1>3 DEF BalanceOf, RedeemedOf, MailedOf

LEMMA SumsAreNumbers ==
  ASSUME FiniteBooks, AmountsOK
  PROVE  /\ SumFunction(BalanceOf) \in Int /\ SumFunction(RedeemedOf) \in Int
         /\ SumFunction(MailedOf) \in Int /\ Start * Cardinality(Users) \in Nat
<1>1. PICK w \in [Users -> Int] : w = BalanceOf
  BY Amounts
<1>2. PICK v \in [Codes -> Int] : v = RedeemedOf
  BY Amounts
<1>3. PICK t \in [Mails -> Int] : t = MailedOf
  BY Amounts
<1>4. SumFunction(w) \in Int /\ SumFunction(v) \in Int /\ SumFunction(t) \in Int
  BY SumIsNumber DEF FiniteBooks
<1>5. Cardinality(Users) \in Nat /\ Start \in Nat
  BY FS_CardinalityType, WalletAssumption DEF FiniteBooks
<1> QED
  BY <1>1, <1>2, <1>3, <1>4, <1>5

\* Balances change for one account, redemptions for one code, pay for one mail.
LEMMA BalanceChanges ==
  ASSUME FiniteBooks, AmountsOK, AmountsOK', NEW u \in Users,
         \A x \in Users \ {u} : gold'[x] = gold[x] /\ goods'[x] = goods[x]
  PROVE  SumFunction(BalanceOf)'
            = SumFunction(BalanceOf)
                + ((gold'[u] + Price * goods'[u]) - (gold[u] + Price * goods[u]))
<1>1. PICK w \in [Users -> Int] : w = BalanceOf
  BY Amounts
<1>2. BalanceOf' \in [Users -> Int]
  <2>1. \A x \in Users : gold'[x] + Price * goods'[x] \in Int
    BY WalletAssumption DEF AmountsOK
  <2> QED
    BY <2>1 DEF BalanceOf
<1>3. PICK v \in [Users -> Int] : v = BalanceOf'
  BY <1>2
<1>4. \A x \in Users \ {u} : v[x] = w[x]
  BY <1>1, <1>3 DEF BalanceOf
<1>5. SumFunction(v) = SumFunction(w) + (v[u] - w[u])
  BY <1>4, SumOfChange DEF FiniteBooks
<1>6. v[u] = gold'[u] + Price * goods'[u] /\ w[u] = gold[u] + Price * goods[u]
  BY <1>1, <1>3 DEF BalanceOf
<1> QED
  BY <1>1, <1>3, <1>5, <1>6

LEMMA RedemptionChanges ==
  ASSUME FiniteBooks, AmountsOK, AmountsOK', NEW k \in Codes,
         \A x \in Codes \ {k} : uses'[x] = uses[x]
  PROVE  SumFunction(RedeemedOf)'
            = SumFunction(RedeemedOf) + (Worth[k] * uses'[k] - Worth[k] * uses[k])
<1>1. PICK w \in [Codes -> Int] : w = RedeemedOf
  BY Amounts
<1>2. RedeemedOf' \in [Codes -> Int]
  <2>1. ASSUME NEW x \in Codes PROVE Worth[x] * uses'[x] \in Int
    <3>1. Worth[x] \in Nat /\ uses'[x] \in Nat
      BY WalletAssumption DEF AmountsOK
    <3> QED
      BY <3>1
  <2> QED
    BY <2>1 DEF RedeemedOf
<1>3. PICK v \in [Codes -> Int] : v = RedeemedOf'
  BY <1>2
<1>4. \A x \in Codes \ {k} : v[x] = w[x]
  BY <1>1, <1>3 DEF RedeemedOf
<1>5. SumFunction(v) = SumFunction(w) + (v[k] - w[k])
  BY <1>4, SumOfChange DEF FiniteBooks
<1>6. v[k] = Worth[k] * uses'[k] /\ w[k] = Worth[k] * uses[k]
  BY <1>1, <1>3 DEF RedeemedOf
<1> QED
  BY <1>1, <1>3, <1>5, <1>6

LEMMA PayChanges ==
  ASSUME FiniteBooks, AmountsOK, AmountsOK', NEW m \in Mails,
         \A x \in Mails \ {m} : paid'[x] = paid[x]
  PROVE  SumFunction(MailedOf)'
            = SumFunction(MailedOf) + (MailGold[m] * paid'[m] - MailGold[m] * paid[m])
<1>1. PICK w \in [Mails -> Int] : w = MailedOf
  BY Amounts
<1>2. MailedOf' \in [Mails -> Int]
  <2>1. ASSUME NEW x \in Mails PROVE MailGold[x] * paid'[x] \in Int
    <3>1. MailGold[x] \in Nat /\ paid'[x] \in Nat
      BY WalletAssumption DEF AmountsOK
    <3> QED
      BY <3>1
  <2> QED
    BY <2>1 DEF MailedOf
<1>3. PICK v \in [Mails -> Int] : v = MailedOf'
  BY <1>2
<1>4. \A x \in Mails \ {m} : v[x] = w[x]
  BY <1>1, <1>3 DEF MailedOf
<1>5. SumFunction(v) = SumFunction(w) + (v[m] - w[m])
  BY <1>4, SumOfChange DEF FiniteBooks
<1>6. v[m] = MailGold[m] * paid'[m] /\ w[m] = MailGold[m] * paid[m]
  BY <1>1, <1>3 DEF MailedOf
<1> QED
  BY <1>1, <1>3, <1>5, <1>6

\* Prices are paid in full.
LEMMA OneMoreEach ==
  ASSUME NEW a \in Nat, NEW b \in Nat, NEW n \in Int
  PROVE  a * (b + n) = a * b + a * n /\ a * b \in Nat /\ a * n \in Int
  OBVIOUS

LEMMA PurchaseBalances ==
  ASSUME FiniteBooks, PursesOK, AmountsOK, AmountsOK', Balanced,
         NEW c \in Conns, Purchase(c)
  PROVE  Balanced'
<1> DEFINE u == UserOf[c]
           q == req[c].arg
<1>1. u \in Users /\ q \in Int /\ Price \in Nat
  BY WalletAssumption DEF PursesOK, RequestsOK, WellFormed, Purchase, At
<1>2. uses' = uses /\ paid' = paid /\ wins' = wins
  BY DEF Purchase, bounds
<1>3. \A x \in Users \ {u} : gold'[x] = gold[x] /\ goods'[x] = goods[x]
  BY <1>1 DEF Purchase, AmountsOK
<1>4. gold'[u] + Price * goods'[u] = gold[u] + Price * goods[u]
  <2>1. gold[u] \in Nat /\ goods[u] \in Nat
    BY <1>1 DEF AmountsOK
  <2>2. CASE Affordable(c, q)
    <3>1. gold'[u] = gold[u] - Price * q /\ goods'[u] = goods[u] + q
      BY <1>1, <2>1, <2>2 DEF Purchase, Balance, AmountsOK
    <3>2. Price * (goods[u] + q) = Price * goods[u] + Price * q
          /\ Price * goods[u] \in Nat /\ Price * q \in Int
      BY <1>1, <2>1, OneMoreEach
    <3> HIDE DEF u, q
    <3> QED
      BY <2>1, <3>1, <3>2
  <2>3. CASE ~ Affordable(c, q)
    BY <1>1, <2>1, <2>3 DEF Purchase, AmountsOK
  <2> QED
    BY <2>2, <2>3
<1>5. SumFunction(BalanceOf)' = SumFunction(BalanceOf)
  <2>1. gold[u] + Price * goods[u] \in Int
    BY <1>1 DEF AmountsOK
  <2>2. SumFunction(BalanceOf) \in Int
    BY SumsAreNumbers
  <2> HIDE DEF u
  <2>3. SumFunction(BalanceOf)' = SumFunction(BalanceOf)
                + ((gold'[u] + Price * goods'[u]) - (gold[u] + Price * goods[u]))
    BY <1>1, <1>3, BalanceChanges
  <2> QED
    BY <1>4, <2>1, <2>2, <2>3
<1>6. SumFunction(RedeemedOf)' = SumFunction(RedeemedOf)
      /\ SumFunction(MailedOf)' = SumFunction(MailedOf)
  BY <1>2 DEF RedeemedOf, MailedOf
<1> QED
  BY <1>2, <1>5, <1>6 DEF Balanced

LEMMA RedeemBalances ==
  ASSUME FiniteBooks, PursesOK, AmountsOK, AmountsOK', Balanced,
         NEW c \in Conns, Redeem(c)
  PROVE  Balanced'
<1>1. PICK u \in Users, k \in Codes : u = UserOf[c] /\ k = req[c].arg
  BY WalletAssumption DEF PursesOK, RequestsOK, WellFormed, Redeem, At
<1>2. goods' = goods /\ paid' = paid /\ wins' = wins
  BY DEF Redeem, bounds
<1>3. CASE ~ UsesLeft(k)
  BY <1>1, <1>2, <1>3 DEF Redeem, Balanced, BalanceOf, RedeemedOf, MailedOf
<1>4. CASE UsesLeft(k)
  <2>1. uses' = [uses EXCEPT ![k] = @ + 1] /\ gold' = [gold EXCEPT ![u] = @ + Worth[k]]
    BY <1>1, <1>4 DEF Redeem
  <2>2. /\ gold[u] \in Nat /\ goods[u] \in Nat /\ uses[k] \in Nat /\ Worth[k] \in Nat
        /\ Price * goods[u] \in Nat /\ Worth[k] * uses[k] \in Nat
        /\ Worth[k] * (uses[k] + 1) = Worth[k] * uses[k] + Worth[k]
    <3>1. /\ gold[u] \in Nat /\ goods[u] \in Nat /\ uses[k] \in Nat /\ Worth[k] \in Nat
          /\ Price \in Nat
      BY WalletAssumption DEF AmountsOK
    <3> QED
      BY <3>1, OneMoreEach
  <2>3. SumFunction(BalanceOf)' = SumFunction(BalanceOf)
                + ((gold'[u] + Price * goods'[u]) - (gold[u] + Price * goods[u]))
    <3>1. \A x \in Users \ {u} : gold'[x] = gold[x] /\ goods'[x] = goods[x]
      BY <1>2, <2>1 DEF AmountsOK
    <3> QED
      BY <3>1, BalanceChanges
  <2>4. SumFunction(RedeemedOf)' = SumFunction(RedeemedOf)
                + (Worth[k] * uses'[k] - Worth[k] * uses[k])
    <3>1. \A x \in Codes \ {k} : uses'[x] = uses[x]
      BY <2>1 DEF AmountsOK
    <3> QED
      BY <3>1, RedemptionChanges
  <2>5. gold'[u] = gold[u] + Worth[k] /\ goods'[u] = goods[u] /\ uses'[k] = uses[k] + 1
    BY <1>2, <2>1 DEF AmountsOK
  <2>6. SumFunction(BalanceOf)' = SumFunction(BalanceOf) + Worth[k]
    <3>1. SumFunction(BalanceOf) \in Int
      BY SumsAreNumbers
    <3> QED
      BY <2>2, <2>3, <2>5, <3>1
  <2>7. SumFunction(RedeemedOf)' = SumFunction(RedeemedOf) + Worth[k]
    <3>1. SumFunction(RedeemedOf) \in Int
      BY SumsAreNumbers
    <3> QED
      BY <2>2, <2>4, <2>5, <3>1
  <2>8. SumFunction(MailedOf)' = SumFunction(MailedOf)
    BY <1>2 DEF MailedOf
  <2> QED
    BY <1>2, <2>2, <2>6, <2>7, <2>8, SumsAreNumbers DEF Balanced, AmountsOK
<1> QED
  BY <1>3, <1>4

LEMMA ClaimBalances ==
  ASSUME FiniteBooks, PursesOK, AmountsOK, AmountsOK', Balanced,
         NEW c \in Conns, Claim(c)
  PROVE  Balanced'
<1>1. PICK u \in Users, m \in Mails : u = UserOf[c] /\ m = req[c].arg
  BY WalletAssumption DEF PursesOK, RequestsOK, WellFormed, Claim, At
<1>2. goods' = goods /\ uses' = uses /\ wins' = wins
  BY DEF Claim, bounds
<1>3. CASE ~ Claimable(c, m)
  BY <1>1, <1>2, <1>3 DEF Claim, Balanced, BalanceOf, RedeemedOf, MailedOf
<1>4. CASE Claimable(c, m)
  <2>1. paid' = [paid EXCEPT ![m] = @ + 1] /\ gold' = [gold EXCEPT ![u] = @ + MailGold[m]]
    BY <1>1, <1>4 DEF Claim
  <2>2. /\ gold[u] \in Nat /\ goods[u] \in Nat /\ paid[m] \in Nat /\ MailGold[m] \in Nat
        /\ Price * goods[u] \in Nat /\ MailGold[m] * paid[m] \in Nat
        /\ MailGold[m] * (paid[m] + 1) = MailGold[m] * paid[m] + MailGold[m]
    <3>1. /\ gold[u] \in Nat /\ goods[u] \in Nat /\ paid[m] \in Nat /\ MailGold[m] \in Nat
          /\ Price \in Nat
      BY WalletAssumption DEF AmountsOK
    <3> QED
      BY <3>1, OneMoreEach
  <2>3. SumFunction(BalanceOf)' = SumFunction(BalanceOf)
                + ((gold'[u] + Price * goods'[u]) - (gold[u] + Price * goods[u]))
    <3>1. \A x \in Users \ {u} : gold'[x] = gold[x] /\ goods'[x] = goods[x]
      BY <1>2, <2>1 DEF AmountsOK
    <3> QED
      BY <3>1, BalanceChanges
  <2>4. SumFunction(MailedOf)' = SumFunction(MailedOf)
                + (MailGold[m] * paid'[m] - MailGold[m] * paid[m])
    <3>1. \A x \in Mails \ {m} : paid'[x] = paid[x]
      BY <2>1 DEF AmountsOK
    <3> QED
      BY <3>1, PayChanges
  <2>5. gold'[u] = gold[u] + MailGold[m] /\ goods'[u] = goods[u] /\ paid'[m] = paid[m] + 1
    BY <1>2, <2>1 DEF AmountsOK
  <2>6. SumFunction(BalanceOf)' = SumFunction(BalanceOf) + MailGold[m]
    <3>1. SumFunction(BalanceOf) \in Int
      BY SumsAreNumbers
    <3> QED
      BY <2>2, <2>3, <2>5, <3>1
  <2>7. SumFunction(MailedOf)' = SumFunction(MailedOf) + MailGold[m]
    <3>1. SumFunction(MailedOf) \in Int
      BY SumsAreNumbers
    <3> QED
      BY <2>2, <2>4, <2>5, <3>1
  <2>8. SumFunction(RedeemedOf)' = SumFunction(RedeemedOf)
    BY <1>2 DEF RedeemedOf
  <2> QED
    BY <1>2, <2>2, <2>6, <2>7, <2>8, SumsAreNumbers DEF Balanced, AmountsOK
<1> QED
  BY <1>3, <1>4

LEMMA RewardBalances ==
  ASSUME FiniteBooks, AmountsOK, AmountsOK', Balanced, NEW c \in Conns,
         CampaignReward(c) \/ ArenaCashOut(c)
  PROVE  Balanced'
<1>1. PICK u \in Users : u = UserOf[c]
  BY WalletAssumption
<1>2. /\ goods' = goods /\ uses' = uses /\ paid' = paid /\ wins' = wins + 1
      /\ gold' = [gold EXCEPT ![u] = @ + 1]
  BY <1>1 DEF CampaignReward, ArenaCashOut, WinGold
<1>3. gold[u] \in Nat /\ goods[u] \in Nat /\ Price * goods[u] \in Nat
  BY WalletAssumption DEF AmountsOK
<1>4. SumFunction(BalanceOf)' = SumFunction(BalanceOf)
              + ((gold'[u] + Price * goods'[u]) - (gold[u] + Price * goods[u]))
  <2>1. \A x \in Users \ {u} : gold'[x] = gold[x] /\ goods'[x] = goods[x]
    BY <1>2 DEF AmountsOK
  <2> QED
    BY <2>1, BalanceChanges
<1>5. gold'[u] = gold[u] + 1 /\ goods'[u] = goods[u]
  BY <1>2 DEF AmountsOK
<1>6. SumFunction(BalanceOf)' = SumFunction(BalanceOf) + 1
  <2>1. SumFunction(BalanceOf) \in Int
    BY SumsAreNumbers
  <2> QED
    BY <1>3, <1>4, <1>5, <2>1
<1>7. SumFunction(RedeemedOf)' = SumFunction(RedeemedOf)
      /\ SumFunction(MailedOf)' = SumFunction(MailedOf)
  BY <1>2 DEF RedeemedOf, MailedOf
<1> QED
  BY <1>2, <1>6, <1>7, SumsAreNumbers DEF Balanced, AmountsOK

LEMMA StepKeepsAmounts ==
  ASSUME AmountsOK, PursesOK, PursesOK', BooksOK', [WalletNext]_walletVars
  PROVE  AmountsOK'
<1>1. gold' \in [Users -> Nat] /\ uses' \in [Codes -> Nat] /\ paid' \in [Mails -> Nat]
  BY DEF PursesOK, BooksOK
<1>2. goods' \in [Users -> Nat] /\ wins' \in Nat
  <2>1. ASSUME NEW c \in Conns, Purchase(c)
        PROVE  goods' \in [Users -> Nat] /\ wins' = wins
    <3>1. UserOf[c] \in Users /\ req[c].arg \in Int
      BY <2>1, WalletAssumption DEF PursesOK, RequestsOK, WellFormed, Purchase, At
    <3>2. goods' = [goods EXCEPT ![UserOf[c]] = IF Affordable(c, req[c].arg)
                                                THEN @ + req[c].arg ELSE @]
          /\ wins' = wins
      BY <2>1 DEF Purchase, bounds
    <3>3. Affordable(c, req[c].arg) => req[c].arg > 0
      BY DEF Affordable, Orderable
    <3> QED
      BY <3>1, <3>2, <3>3 DEF AmountsOK
  <2>2. ASSUME NEW c \in Conns, CampaignReward(c) \/ ArenaCashOut(c)
        PROVE  goods' = goods /\ wins' = wins + 1
    BY <2>2 DEF CampaignReward, ArenaCashOut, WinGold
  <2>3. ASSUME NEW c \in Conns,
               \/ Login(c) \/ PeerGone(c) \/ Leave(c) \/ Ask(c) \/ Redeem(c) \/ Claim(c)
               \/ Delete(c) \/ Answer(c) \/ Pushed(c) \/ Rollback(c) \/ SendFails(c)
               \/ PushFails(c) \/ Older(c)
        PROVE  goods' = goods /\ wins' = wins
    BY <2>3 DEF Login, PeerGone, Leave, Ask, Redeem, Claim, Delete, Answer, Pushed,
                Rollback, SendFails, PushFails, Older, SendPurchaseFailure, LegacyRedeem,
                LegacyCount, LegacyCredit, LegacyClaim, LegacyPay, LegacyMark,
                LegacyAnswer, Fault, bounds, tables
  <2>4. CASE UNCHANGED walletVars
    BY <2>4 DEF walletVars, tables, bounds, AmountsOK
  <2> QED
    BY <2>1, <2>2, <2>3, <2>4 DEF WalletNext, AmountsOK
<1> QED
  BY <1>1, <1>2 DEF AmountsOK

LEMMA StepKeepsBalance ==
  ASSUME FiniteBooks, AmountsOK, AmountsOK', Balanced, PursesOK, SmoothOK,
         [WalletNext]_walletVars
  PROVE  Balanced'
<1>1. ASSUME UNCHANGED <<gold, goods, uses, paid, wins>> PROVE Balanced'
  BY <1>1 DEF Balanced, BalanceOf, RedeemedOf, MailedOf
<1>2. ASSUME NEW c \in Conns, Older(c)
      PROVE  FALSE
  BY <1>2 DEF Older, SendPurchaseFailure, LegacyRedeem, LegacyCount, LegacyCredit,
              LegacyClaim, LegacyPay, LegacyMark, LegacyAnswer, At, SmoothOK
<1>3. ASSUME NEW c \in Conns,
             \/ Login(c) \/ PeerGone(c) \/ Leave(c) \/ Ask(c) \/ Delete(c)
             \/ Answer(c) \/ Pushed(c) \/ Rollback(c) \/ SendFails(c) \/ PushFails(c)
      PROVE  UNCHANGED <<gold, goods, uses, paid, wins>>
  BY <1>3 DEF Login, PeerGone, Leave, Ask, Delete, Answer, Pushed, Rollback, SendFails,
              PushFails, Fault, bounds, tables
<1>4. CASE UNCHANGED walletVars
  BY <1>1, <1>4 DEF walletVars, tables, bounds
<1>5. ASSUME NEW c \in Conns, Purchase(c) PROVE Balanced'
  BY <1>5, PurchaseBalances
<1>6. ASSUME NEW c \in Conns, Redeem(c) PROVE Balanced'
  BY <1>6, RedeemBalances
<1>7. ASSUME NEW c \in Conns, Claim(c) PROVE Balanced'
  BY <1>7, ClaimBalances
<1>8. ASSUME NEW c \in Conns, CampaignReward(c) \/ ArenaCashOut(c) PROVE Balanced'
  BY <1>8, RewardBalances
<1> QED
  BY <1>1, <1>2, <1>3, <1>4, <1>5, <1>6, <1>7, <1>8 DEF WalletNext

LEMMA FirstBalance ==
  ASSUME FiniteBooks, WalletInit
  PROVE  AmountsOK /\ Balanced
<1>1. AmountsOK
  BY WalletAssumption DEF WalletInit, AmountsOK
<1>2. BalanceOf = [u \in Users |-> Start]
  <2>1. \A u \in Users : gold[u] + Price * goods[u] = Start
    BY WalletAssumption DEF WalletInit
  <2> QED
    BY <2>1 DEF BalanceOf
<1>3. RedeemedOf = [k \in Codes |-> 0]
  <2>1. \A k \in Codes : Worth[k] * uses[k] = 0
    BY WalletAssumption DEF WalletInit
  <2> QED
    BY <2>1 DEF RedeemedOf
<1>4. MailedOf = [m \in Mails |-> 0]
  <2>1. \A m \in Mails : MailGold[m] * paid[m] = 0
    BY WalletAssumption DEF WalletInit
  <2> QED
    BY <2>1 DEF MailedOf
<1>5. SumFunction(BalanceOf) = Start * Cardinality(Users)
  BY <1>2, SumOfEqual, WalletAssumption DEF FiniteBooks
<1>6. SumFunction(RedeemedOf) = 0
  <2>1. SumFunction([k \in Codes |-> 0]) = 0 * Cardinality(Codes)
    BY SumOfEqual DEF FiniteBooks
  <2>2. Cardinality(Codes) \in Nat
    BY FS_CardinalityType DEF FiniteBooks
  <2> QED
    BY <1>3, <2>1, <2>2
<1>7. SumFunction(MailedOf) = 0
  <2>1. SumFunction([m \in Mails |-> 0]) = 0 * Cardinality(Mails)
    BY SumOfEqual DEF FiniteBooks
  <2>2. Cardinality(Mails) \in Nat
    BY FS_CardinalityType DEF FiniteBooks
  <2> QED
    BY <1>4, <2>1, <2>2
<1>8. wins = 0
  BY DEF WalletInit
<1> QED
  BY <1>1, <1>5, <1>6, <1>7, <1>8, SumsAreNumbers DEF Balanced

MoneyWhileSmooth == BooksWhileSmooth /\ (faults = 0 => AmountsOK /\ Balanced)

\* Without older code no redemption is between its count and its credit.
LEMMA NothingIsOnTheWay ==
  ASSUME FiniteBooks, SmoothOK, AmountsOK, Balanced
  PROVE  MoneyBalances
<1>1. ASSUME NEW k \in Codes PROVE Counted(k) = uses[k]
  <2>1. {c \in Conns : At(c, "redeem", "credit") /\ req[c].arg = k} = {}
    BY DEF SmoothOK, At
  <2>2. Cardinality({c \in Conns : At(c, "redeem", "credit") /\ req[c].arg = k}) = 0
    BY <2>1, FS_EmptySet
  <2>3. uses[k] \in Nat
    BY DEF AmountsOK
  <2> QED
    BY <2>2, <2>3 DEF Counted
<1>2. [k \in Codes |-> Worth[k] * Counted(k)] = RedeemedOf
  BY <1>1 DEF RedeemedOf
<1> QED
  BY <1>2 DEF MoneyBalances, Balanced, BalanceOf, MailedOf

\* No money is lost and none is made, however the connections of an account
\* interleave: as long as nothing fails the balances and what was bought with
\* them are what the accounts began with and what codes, mails and play
\* brought in (services/store.py, profile_db.py).
THEOREM MoneyIsKept ==
  ASSUME FiniteBooks
  PROVE  WalletSpec => []SmoothBalances
<1>1. WalletInit => MoneyWhileSmooth
  BY FirstPurses, FirstBooks, FirstBalance DEF WalletInit, BooksWhileSmooth, MoneyWhileSmooth
<1>2. MoneyWhileSmooth /\ BooksWhileSmooth' /\ [WalletNext]_walletVars => MoneyWhileSmooth'
  <2> SUFFICES ASSUME MoneyWhileSmooth, BooksWhileSmooth', [WalletNext]_walletVars,
                      faults' = 0
               PROVE  AmountsOK' /\ Balanced'
    BY DEF MoneyWhileSmooth
  <2>1. faults = 0
    BY FaultsAreCounted DEF MoneyWhileSmooth, BooksWhileSmooth
  <2>2. /\ AmountsOK /\ Balanced /\ PursesOK /\ SmoothOK /\ BooksOK
        /\ PursesOK' /\ BooksOK'
    BY <2>1 DEF MoneyWhileSmooth, BooksWhileSmooth
  <2>3. AmountsOK'
    BY <2>2, StepKeepsAmounts
  <2>4. Balanced'
    BY <2>2, <2>3, StepKeepsBalance
  <2> QED
    BY <2>3, <2>4
<1>3. MoneyWhileSmooth => SmoothBalances
  BY NothingIsOnTheWay DEF MoneyWhileSmooth, BooksWhileSmooth, SmoothBalances
<1> QED
  BY <1>1, <1>2, <1>3, BooksAlwaysOK, PTL DEF WalletSpec

-----------------------------------------------------------------------------
(* What a handler knows of its account.                                     *)

OneConnectionEach == \A c, d \in Conns : UserOf[c] = UserOf[d] => c = d

\* A handler knows all but rewards: also in the middle of a request.
ProfilesOK ==
    wins \in Nat /\ \A c \in Conns : line[c] = "up" => gold[UserOf[c]] - cached[c] \in 0 .. wins

\* The balance and what is remembered of it grow alike, and nobody else's does.
LEMMA OneProfile ==
  ASSUME OneConnectionEach, PursesOK, PursesOK', ProfilesOK, wins' \in {wins, wins + 1},
         NEW c \in Conns,
         \A d \in Conns \ {c} : line'[d] = line[d] /\ cached'[d] = cached[d],
         \A u \in Users \ {UserOf[c]} : gold'[u] = gold[u],
         line'[c] = "up" => gold'[UserOf[c]] - cached'[c] \in 0 .. wins'
  PROVE  ProfilesOK'
<1>1. wins' \in Nat /\ wins <= wins'
  BY DEF ProfilesOK
<1>2. ASSUME NEW d \in Conns \ {c}, line'[d] = "up"
      PROVE  gold'[UserOf[d]] - cached'[d] \in 0 .. wins'
  <2>1. UserOf[d] \in Users \ {UserOf[c]}
    BY WalletAssumption DEF OneConnectionEach
  <2>2. gold[UserOf[d]] - cached[d] \in 0 .. wins
    BY <1>2 DEF ProfilesOK
  <2>3. gold'[UserOf[d]] = gold[UserOf[d]] /\ cached'[d] = cached[d]
    BY <2>1
  <2>4. gold[UserOf[d]] \in Nat /\ cached[d] \in Nat /\ wins \in Nat
    BY <2>1 DEF PursesOK, ProfilesOK
  <2> QED
    BY <1>1, <2>2, <2>3, <2>4
<1> QED
  BY <1>1, <1>2 DEF ProfilesOK

LEMMA StepKeepsProfiles ==
  ASSUME OneConnectionEach, PursesOK, PursesOK', SmoothOK, ProfilesOK, ~ Fault,
         [WalletNext]_walletVars
  PROVE  ProfilesOK'
<1>0. wins \in Nat
  BY DEF ProfilesOK
<1>1. ASSUME UNCHANGED <<gold, line, cached, wins>> PROVE ProfilesOK'
  BY <1>1 DEF ProfilesOK
<1>2. ASSUME NEW c \in Conns, Older(c)
      PROVE  FALSE
  BY <1>2 DEF Older, SendPurchaseFailure, LegacyRedeem, LegacyCount, LegacyCredit,
              LegacyClaim, LegacyPay, LegacyMark, LegacyAnswer, At, SmoothOK
<1>3. ASSUME NEW c \in Conns, PeerGone(c) \/ Rollback(c) \/ PushFails(c) \/ SendFails(c)
      PROVE  FALSE
  BY <1>3 DEF PeerGone, Rollback, PushFails, SendFails, SmoothOK
<1>4. ASSUME NEW c \in Conns, Ask(c) \/ Delete(c) \/ Answer(c) \/ Pushed(c)
      PROVE  UNCHANGED <<gold, line, cached, wins>>
  BY <1>4 DEF Ask, Delete, Answer, Pushed, bounds, tables
<1>5. CASE UNCHANGED walletVars
  BY <1>1, <1>5 DEF walletVars, tables, bounds
<1>6. ASSUME NEW c \in Conns, Login(c) \/ Leave(c)
      PROVE  ProfilesOK'
  <2>1. gold[UserOf[c]] \in Nat
    BY WalletAssumption DEF PursesOK
  <2>2. line'[c] = "up" => gold'[UserOf[c]] - cached'[c] \in 0 .. wins'
    BY <1>0, <1>6, <2>1 DEF Login, Leave, bounds, tables, PursesOK, SmoothOK
  <2>3. /\ gold' = gold /\ wins' = wins
        /\ \A d \in Conns \ {c} : line'[d] = line[d] /\ cached'[d] = cached[d]
    BY <1>6 DEF Login, Leave, bounds, tables, PursesOK, SmoothOK
  <2> QED
    BY <2>2, <2>3, OneProfile
<1>7. ASSUME NEW c \in Conns, Purchase(c)
      PROVE  ProfilesOK'
  <2>1. UserOf[c] \in Users /\ gold[UserOf[c]] \in Nat
    BY WalletAssumption DEF PursesOK
  <2>2. PICK left : /\ gold' = [gold EXCEPT ![UserOf[c]] = left]
                    /\ cached' = [cached EXCEPT ![c] = left]
    <3>1. CASE Affordable(c, req[c].arg)
      BY <1>7, <3>1 DEF Purchase
    <3>2. CASE ~ Affordable(c, req[c].arg)
      <4>1. gold = [gold EXCEPT ![UserOf[c]] = gold[UserOf[c]]]
        BY DEF PursesOK
      <4> QED
        BY <1>7, <3>2, <4>1 DEF Purchase, Balance
    <3> QED
      BY <3>1, <3>2
  <2>3. gold'[UserOf[c]] = left /\ cached'[c] = left /\ left \in Nat
    BY <2>1, <2>2 DEF PursesOK
  <2>4. line' = line /\ wins' = wins
    BY <1>7 DEF Purchase, bounds
  <2>5. /\ \A d \in Conns \ {c} : cached'[d] = cached[d]
        /\ \A u \in Users \ {UserOf[c]} : gold'[u] = gold[u]
    BY <2>2 DEF PursesOK
  <2>6. left - left \in 0 .. wins
    BY <1>0, <2>3
  <2> QED
    BY <2>3, <2>4, <2>5, <2>6, OneProfile
<1>8. ASSUME NEW c \in Conns, Redeem(c) \/ Claim(c)
      PROVE  ProfilesOK'
  <2>1. PICK sum \in Nat : /\ gold' = [gold EXCEPT ![UserOf[c]] = @ + sum]
                           /\ cached' = [cached EXCEPT ![c] = @ + sum]
    <3>1. CASE UNCHANGED <<gold, cached>>
      <4>1. gold = [gold EXCEPT ![UserOf[c]] = @ + 0]
            /\ cached = [cached EXCEPT ![c] = @ + 0]
        BY WalletAssumption DEF PursesOK
      <4> QED
        BY <3>1, <4>1
    <3>2. CASE Redeem(c) /\ UsesLeft(req[c].arg)
      <4>1. Worth[req[c].arg] \in Nat
        BY <3>2, WalletAssumption DEF Redeem, At, PursesOK, RequestsOK, WellFormed
      <4> QED
        BY <3>2, <4>1 DEF Redeem, Remembered
    <3>3. CASE Claim(c) /\ Claimable(c, req[c].arg)
      <4>1. MailGold[req[c].arg] \in Nat
        BY <3>3, WalletAssumption DEF Claim, At, PursesOK, RequestsOK, WellFormed
      <4> QED
        BY <3>3, <4>1 DEF Claim, Remembered
    <3> QED
      BY <1>8, <3>1, <3>2, <3>3 DEF Redeem, Claim
  <2>2. UserOf[c] \in Users /\ gold[UserOf[c]] \in Nat /\ cached[c] \in Nat
    BY WalletAssumption DEF PursesOK
  <2>3. gold'[UserOf[c]] = gold[UserOf[c]] + sum /\ cached'[c] = cached[c] + sum
    BY <2>1, <2>2 DEF PursesOK
  <2>4. line' = line /\ wins' = wins
    BY <1>8 DEF Redeem, Claim, bounds
  <2>5. /\ \A d \in Conns \ {c} : cached'[d] = cached[d]
        /\ \A u \in Users \ {UserOf[c]} : gold'[u] = gold[u]
    BY <2>1 DEF PursesOK
  <2>6. line[c] = "up" => gold[UserOf[c]] - cached[c] \in 0 .. wins
    BY DEF ProfilesOK
  <2>7. line'[c] = "up" => gold'[UserOf[c]] - cached'[c] \in 0 .. wins'
    BY <1>0, <2>2, <2>3, <2>4, <2>6
  <2> QED
    BY <2>4, <2>5, <2>7, OneProfile
<1>9. ASSUME NEW c \in Conns, CampaignReward(c) \/ ArenaCashOut(c)
      PROVE  ProfilesOK'
  <2>1. /\ gold' = [gold EXCEPT ![UserOf[c]] = @ + 1] /\ wins' = wins + 1 /\ line' = line
        /\ line[c] = "up"
    BY <1>9 DEF CampaignReward, ArenaCashOut, WinGold
  <2>2. UserOf[c] \in Users /\ gold[UserOf[c]] \in Nat /\ cached[c] \in Nat
    BY WalletAssumption DEF PursesOK
  <2>3. gold'[UserOf[c]] = gold[UserOf[c]] + 1
    BY <2>1, <2>2 DEF PursesOK
  <2>4. cached'[c] = cached[c] \/ cached'[c] = gold'[UserOf[c]]
    BY <1>9 DEF CampaignReward, ArenaCashOut, PursesOK
  <2>5. /\ \A d \in Conns \ {c} : cached'[d] = cached[d]
        /\ \A u \in Users \ {UserOf[c]} : gold'[u] = gold[u]
    BY <1>9, <2>1 DEF CampaignReward, ArenaCashOut, PursesOK
  <2>6. gold[UserOf[c]] - cached[c] \in 0 .. wins
    BY <2>1 DEF ProfilesOK
  <2>7. gold'[UserOf[c]] - cached'[c] \in 0 .. wins'
    BY <1>0, <2>1, <2>2, <2>3, <2>4, <2>6
  <2> QED
    BY <2>1, <2>5, <2>7, OneProfile
<1> QED
  BY <1>1, <1>2, <1>3, <1>4, <1>5, <1>6, <1>7, <1>8, <1>9 DEF WalletNext

\* Where an account has one connection and nothing fails, its handler between
\* two requests knows all the money of the account but what the campaign gave
\* it: no purchase, code, mail or cash-out leaves the profile behind.
THEOREM ProfilesKeepUp ==
  ASSUME OneConnectionEach, MaxFaults = 0
  PROVE  WalletSpec => []ProfileKeepsUp
<1> DEFINE I == BooksWhileSmooth /\ faults = 0 /\ ProfilesOK
<1>1. WalletInit => I
  BY FirstPurses, FirstBooks DEF WalletInit, BooksWhileSmooth, ProfilesOK
<1>2. I /\ BooksWhileSmooth' /\ [WalletNext]_walletVars => I'
  <2> SUFFICES ASSUME I, BooksWhileSmooth', [WalletNext]_walletVars PROVE I'
    OBVIOUS
  <2>1. ~ Fault
    BY DEF Fault
  <2>2. faults' = 0
    <3>1. ASSUME NEW c \in Conns,
                 PeerGone(c) \/ Rollback(c) \/ PushFails(c)
          PROVE  FALSE
      BY <2>1, <3>1 DEF PeerGone, Rollback, PushFails
    <3>2. ASSUME NEW c \in Conns,
                 \/ Login(c) \/ Leave(c) \/ Ask(c) \/ Purchase(c) \/ Redeem(c)
                 \/ Claim(c) \/ Delete(c) \/ Answer(c) \/ Pushed(c) \/ SendFails(c)
                 \/ CampaignReward(c) \/ ArenaCashOut(c)
          PROVE  faults' = faults
      BY <3>2 DEF Login, Leave, Ask, Purchase, Redeem, Claim, Delete, Answer, Pushed,
                  SendFails, CampaignReward, ArenaCashOut, WinGold, bounds
    <3>3. ASSUME NEW c \in Conns, Older(c)
          PROVE  faults' = faults
      BY <3>3 DEF Older, SendPurchaseFailure, LegacyRedeem, LegacyCount, LegacyCredit,
                  LegacyClaim, LegacyPay, LegacyMark, LegacyAnswer, bounds
    <3>4. CASE UNCHANGED walletVars
      BY <3>4 DEF walletVars, bounds
    <3> QED
      BY <3>1, <3>2, <3>3, <3>4 DEF WalletNext
  <2>3. PursesOK /\ PursesOK' /\ SmoothOK
    BY DEF BooksWhileSmooth
  <2>4. ProfilesOK'
    BY <2>1, <2>3, StepKeepsProfiles
  <2> QED
    BY <2>2, <2>4
<1>3. I => ProfileKeepsUp
  BY DEF BooksWhileSmooth, SmoothOK, ProfilesOK, ProfileKeepsUp
<1> HIDE DEF I
<1> QED
  BY <1>1, <1>2, <1>3, BooksAlwaysOK, PTL DEF WalletSpec

-----------------------------------------------------------------------------
(* The types, whatever fails.                                               *)

\* A request is one of those a client can make, until it is answered.
AskedFor == \A c \in Conns : req[c] # Quiet => [op |-> req[c].op, arg |-> req[c].arg] \in Requests

TablesOK ==
    /\ goods \in [Users -> Nat] /\ uses \in [Codes -> Nat]
    /\ mail \in [Mails -> {"new", "claimed", "deleted"}]
    /\ line \in [Conns -> {"off", "up", "gone"}]
    /\ paid \in [Mails -> Nat]
    /\ wins \in 0 .. MaxWins /\ faults \in 0 .. MaxFaults

\* One thread's request changes: it is over, or still about the same.
LEMMA OneAsked ==
  ASSUME RequestsOK, AskedFor, NEW c \in Conns,
         \A d \in Conns \ {c} : req'[d] = req[d],
         \/ req'[c] = Quiet
         \/ req[c] # Quiet /\ req'[c].op = req[c].op /\ req'[c].arg = req[c].arg
         \/ [op |-> req'[c].op, arg |-> req'[c].arg] \in Requests
  PROVE  AskedFor'
<1>1. Requests' = Requests
  BY DEF Requests
<1> SUFFICES ASSUME NEW d \in Conns, req'[d] # Quiet'
             PROVE  [op |-> req'[d].op, arg |-> req'[d].arg] \in Requests
  BY <1>1 DEF AskedFor
<1>2. CASE d # c
  BY <1>2 DEF AskedFor, Quiet
<1>3. CASE d = c
  BY <1>3 DEF AskedFor, Quiet
<1> QED
  BY <1>2, <1>3

LEMMA MovesAreAsked ==
  ASSUME RequestsOK, AskedFor, NEW c \in Conns, req[c].at # "idle", NEW at, NEW done, NEW drawn,
         req' = [req EXCEPT ![c] = [req[c] EXCEPT !.at = at, !.done = done, !.drawn = drawn]]
  PROVE  AskedFor'
<1>1. req[c] # Quiet
  BY DEF Quiet
<1>2. req[c] \in RequestRecord
  BY DEF RequestsOK
<1>3. req'[c].op = req[c].op /\ req'[c].arg = req[c].arg
  BY <1>2 DEF RequestsOK, RequestRecord
<1>4. \A d \in Conns \ {c} : req'[d] = req[d]
  BY DEF RequestsOK
<1> QED
  BY <1>1, <1>3, <1>4, OneAsked

LEMMA DrawsAreAsked ==
  ASSUME RequestsOK, AskedFor, NEW c \in Conns, req[c].at # "idle", NEW at, NEW drawn,
         req' = [req EXCEPT ![c].at = at, ![c].drawn = drawn]
  PROVE  AskedFor'
<1>1. req[c] # Quiet
  BY DEF Quiet
<1>2. req[c] \in RequestRecord
  BY DEF RequestsOK
<1>3. req'[c].op = req[c].op /\ req'[c].arg = req[c].arg
  BY <1>2 DEF RequestsOK, RequestRecord
<1>4. \A d \in Conns \ {c} : req'[d] = req[d]
  BY DEF RequestsOK
<1> QED
  BY <1>1, <1>3, <1>4, OneAsked

LEMMA StepIsAsked ==
  ASSUME RequestsOK, AskedFor, [WalletNext]_walletVars
  PROVE  AskedFor'
<1>1. ASSUME UNCHANGED req PROVE AskedFor'
  BY <1>1 DEF AskedFor, Requests, Quiet
<1>2. ASSUME NEW c \in Conns, End(c) PROVE AskedFor'
  <2>1. req'[c] = Quiet /\ \A d \in Conns \ {c} : req'[d] = req[d]
    BY <1>2 DEF End, RequestsOK
  <2> QED
    BY <2>1, OneAsked
<1>3. ASSUME NEW c \in Conns, NEW at, Move(c, at), req[c].at # "idle" PROVE AskedFor'
  <2>1. req[c] \in RequestRecord
    BY DEF RequestsOK
  <2>2. req' = [req EXCEPT ![c] = [req[c] EXCEPT !.at = at, !.done = req[c].done,
                                                 !.drawn = req[c].drawn]]
    BY <1>3, <2>1 DEF Move, RequestsOK, RequestRecord
  <2> QED
    BY <1>3, <2>2, MovesAreAsked
<1>4. ASSUME NEW c \in Conns, NEW done, Commit(c, done), req[c].at # "idle" PROVE AskedFor'
  <2>1. req[c] \in RequestRecord
    BY DEF RequestsOK
  <2>2. req' = [req EXCEPT ![c] = [req[c] EXCEPT !.at = "answer", !.done = done,
                                                 !.drawn = req[c].drawn]]
    BY <1>4, <2>1 DEF Commit, RequestsOK, RequestRecord
  <2> QED
    BY <1>4, <2>2, MovesAreAsked
<1>5. ASSUME NEW c \in Conns, NEW at, NEW drawn, req[c].at # "idle",
             req' = [req EXCEPT ![c].at = at, ![c].drawn = drawn]
      PROVE  AskedFor'
  BY <1>5, DrawsAreAsked
<1>6. ASSUME NEW c \in Conns, Ask(c) PROVE AskedFor'
  <2>1. PICK q \in Requests :
          req' = [req EXCEPT ![c] =
                      [op |-> q.op, arg |-> q.arg, at |-> "begun",
                       done |-> FALSE, drawn |-> 0]]
    BY <1>6 DEF Ask
  <2>2. [op |-> q.op, arg |-> q.arg] \in Requests
    BY DEF Requests
  <2>3. req'[c].op = q.op /\ req'[c].arg = q.arg /\ \A d \in Conns \ {c} : req'[d] = req[d]
    BY <2>1 DEF RequestsOK
  <2> QED
    BY <2>2, <2>3, OneAsked
<1>7. ASSUME NEW c \in Conns,
             Login(c) \/ PeerGone(c) \/ Leave(c) \/ CampaignReward(c) \/ ArenaCashOut(c)
      PROVE  AskedFor'
  BY <1>1, <1>7 DEF Login, PeerGone, Leave, CampaignReward, ArenaCashOut
<1>8. ASSUME NEW c \in Conns, Purchase(c) \/ Claim(c) \/ Delete(c)
      PROVE  AskedFor'
  BY <1>3, <1>4, <1>8 DEF Purchase, Claim, Delete, At
<1>9. ASSUME NEW c \in Conns, Redeem(c) PROVE AskedFor'
  <2>1. PICK drawn : req' = [req EXCEPT ![c].at = "answer", ![c].drawn = drawn]
    BY <1>9 DEF Redeem
  <2>2. req[c].at # "idle"
    BY <1>9 DEF Redeem, At
  <2> QED
    BY <1>5, <2>1, <2>2
<1>10. ASSUME NEW c \in Conns,
              Answer(c) \/ Pushed(c) \/ Rollback(c) \/ SendFails(c) \/ PushFails(c)
       PROVE  AskedFor'
  BY <1>2, <1>3, <1>10 DEF Answer, Pushed, Rollback, SendFails, PushFails
<1>11. ASSUME NEW c \in Conns,
              \/ SendPurchaseFailure(c) \/ LegacyRedeem(c) \/ LegacyCredit(c)
              \/ LegacyClaim(c) \/ LegacyPay(c) \/ LegacyMark(c) \/ LegacyAnswer(c)
       PROVE  AskedFor'
  BY <1>2, <1>3, <1>11 DEF SendPurchaseFailure, LegacyRedeem, LegacyCredit, LegacyClaim,
                           LegacyPay, LegacyMark, LegacyAnswer, At
<1>12. ASSUME NEW c \in Conns, LegacyCount(c) PROVE AskedFor'
  <2>1. PICK drawn : req' = [req EXCEPT ![c].at = "credit", ![c].drawn = drawn]
    BY <1>12 DEF LegacyCount
  <2>2. req[c].at # "idle"
    BY <1>12 DEF LegacyCount, At
  <2> QED
    BY <1>5, <2>1, <2>2
<1> QED
  BY <1>1, <1>6, <1>7, <1>8, <1>9, <1>10, <1>11, <1>12 DEF WalletNext, Older, walletVars

LEMMA StepKeepsTables ==
  ASSUME RequestsOK, TablesOK, [WalletNext]_walletVars
  PROVE  TablesOK'
<1>0. \A c \in Conns : WellFormed(req[c]) /\ UserOf[c] \in Users
  BY WalletAssumption DEF RequestsOK
<1>1. CASE UNCHANGED walletVars
  BY <1>1 DEF walletVars, tables, bounds, TablesOK
<1>2. ASSUME NEW c \in Conns, Login(c) \/ Leave(c) \/ Ask(c) \/ Answer(c) \/ Pushed(c)
                              \/ SendFails(c)
      PROVE  TablesOK'
  BY <1>2 DEF Login, Leave, Ask, Answer, Pushed, SendFails, tables, bounds, TablesOK
<1>3. ASSUME NEW c \in Conns, PeerGone(c) \/ Rollback(c) \/ PushFails(c)
      PROVE  TablesOK'
  <2>1. faults' \in 0 .. MaxFaults /\ wins' = wins
    BY <1>3, WalletAssumption DEF PeerGone, Rollback, PushFails, Fault, TablesOK
  <2> QED
    BY <1>3, <2>1 DEF PeerGone, Rollback, PushFails, tables, TablesOK
<1>4. ASSUME NEW c \in Conns, Purchase(c) PROVE TablesOK'
  <2>1. req[c].arg \in Int
    BY <1>0, <1>4 DEF WellFormed, Purchase, At
  <2>2. goods' = [goods EXCEPT ![UserOf[c]] = IF Affordable(c, req[c].arg)
                                              THEN @ + req[c].arg ELSE @]
    BY <1>4 DEF Purchase
  <2>3. Affordable(c, req[c].arg) => req[c].arg > 0
    BY DEF Affordable, Orderable
  <2>4. goods' \in [Users -> Nat]
    BY <1>0, <2>1, <2>2, <2>3 DEF TablesOK
  <2> QED
    BY <1>4, <2>4 DEF Purchase, TablesOK, bounds
<1>5. ASSUME NEW c \in Conns, Redeem(c) \/ LegacyCount(c) PROVE TablesOK'
  <2>1. req[c].arg \in Codes
    BY <1>0, <1>5 DEF WellFormed, Redeem, LegacyCount, At
  <2>2. uses' \in [Codes -> Nat]
    BY <1>5, <2>1 DEF Redeem, LegacyCount, TablesOK
  <2> QED
    BY <1>5, <2>2 DEF Redeem, LegacyCount, TablesOK, bounds
<1>6. ASSUME NEW c \in Conns, Claim(c) \/ LegacyPay(c) \/ LegacyMark(c) \/ Delete(c)
      PROVE  TablesOK'
  <2>1. paid' \in [Mails -> Nat]
    <3>1. CASE Claim(c) \/ LegacyPay(c)
      <4>1. req[c].arg \in Mails
        BY <1>0, <3>1 DEF WellFormed, Claim, LegacyPay, At
      <4> QED
        BY <3>1, <4>1 DEF Claim, LegacyPay, TablesOK
    <3>2. CASE LegacyMark(c) \/ Delete(c)
      BY <3>2 DEF LegacyMark, Delete, TablesOK
    <3> QED
      BY <1>6, <3>1, <3>2
  <2>2. mail' \in [Mails -> {"new", "claimed", "deleted"}]
    BY <1>6 DEF Claim, LegacyPay, LegacyMark, Delete, TablesOK
  <2> QED
    BY <1>6, <2>1, <2>2 DEF Claim, LegacyPay, LegacyMark, Delete, TablesOK, bounds
<1>7. ASSUME NEW c \in Conns,
             \/ SendPurchaseFailure(c) \/ LegacyRedeem(c) \/ LegacyCredit(c)
             \/ LegacyClaim(c) \/ LegacyAnswer(c)
      PROVE  TablesOK'
  BY <1>7 DEF SendPurchaseFailure, LegacyRedeem, LegacyCredit, LegacyClaim, LegacyAnswer,
              tables, bounds, TablesOK
<1>8. ASSUME NEW c \in Conns, CampaignReward(c) \/ ArenaCashOut(c) PROVE TablesOK'
  <2>1. wins' \in 0 .. MaxWins /\ faults' = faults
    BY <1>8, WalletAssumption DEF CampaignReward, ArenaCashOut, WinGold, TablesOK
  <2> QED
    BY <1>8, <2>1 DEF CampaignReward, ArenaCashOut, TablesOK
<1> QED
  BY <1>1, <1>2, <1>3, <1>4, <1>5, <1>6, <1>7, <1>8 DEF WalletNext, Older

\* Every variable of the wallet has its type, whatever fails.
THEOREM WalletTypes == WalletSpec => []WalletTypeOK
<1>1. WalletInit => AskedFor /\ TablesOK
  BY WalletAssumption DEF WalletInit, AskedFor, TablesOK
<1>2. WalletSpec => []PursesOK
  BY FirstPurses, StepKeepsPurses, PTL DEF WalletSpec
<1>3. PursesOK => RequestsOK
  BY DEF PursesOK
<1>4. WalletSpec => [](AskedFor /\ TablesOK)
  BY <1>1, <1>2, <1>3, StepIsAsked, StepKeepsTables, PTL DEF WalletSpec
<1>5. PursesOK /\ AskedFor /\ TablesOK => WalletTypeOK
  BY DEF PursesOK, RequestsOK, RequestRecord, AskedFor, TablesOK, WalletTypeOK
<1> QED
  BY <1>2, <1>4, <1>5, PTL

-------------------------------------------------------------------------------
\* The arena run.

\* A fight of the history, the row, and a battle.
Fights == [result : {"NONE", "WIN", "LOSE", "SKIP"}, session : Nat,
           bossLosses : Nat, shown : {"none", "prompt", "note"},
           prompt : BOOLEAN, notes : SUBSET Slots, chosen : BOOLEAN,
           answered : BOOLEAN, reward : {"none", "strike", "gift"}]
Histories == [Slots -> Fights]
Runs == [deck : BOOLEAN, wins : Nat, losses : Nat, index : 0 .. RunLength,
         sacks : Nat, chests : Nat, history : Histories]
Battled == [kind : {"arena", "practice"}, won : BOOLEAN,
            state : {"on", "stored", "over", "failed", "left"},
            at : 0 .. RunLength, of : 0 .. MaxRuns,
            taken : Seq((0 .. MaxRuns) \X Slots)]

\* What a fight was: all but its challenge.
SameFight(s, t) ==
    /\ s.result = t.result /\ s.session = t.session
    /\ s.bossLosses = t.bossLosses /\ s.notes = t.notes /\ s.reward = t.reward

\* An answer is the shown prompt's.
AsksRight(s) ==
    /\ s.shown = "prompt" => s.prompt
    /\ s.answered => s.shown = "prompt"

----------------------------------------------------------------------------
\* Slots and tiers.

LEMMA SlotsAreNumbers ==
  /\ Slots \subseteq Nat /\ IsFiniteSet(Slots)
  /\ \A i \in Slots : i \in 0 .. RunLength /\ i + 1 \in 0 .. RunLength
  /\ \A i \in 0 .. RunLength : i \in Slots \/ \A j \in Slots : j < i
BY ArenaConstants, FS_Interval DEF Slots

LEMMA Divided ==
  ASSUME NEW a \in Nat
  PROVE  /\ a \div TierLength \in Nat /\ a % TierLength \in 0 .. TierLength - 1
         /\ a = TierLength * (a \div TierLength) + (a % TierLength)
BY ArenaConstants

LEMMA TiersArePositive == \A i \in Slots : TierOf(i) \in Nat \ {0}
BY SlotsAreNumbers, Divided DEF TierOf

LEMMA FirstTierFits == TierLength \in 1 .. RunLength
BY ArenaConstants

\* The boss of an elite's tier comes after the elite.
LEMMA BossIsAhead ==
  ASSUME NEW i \in Elites
  PROVE  i \in Slots /\ ~ IsBoss(i) /\ BossOf(i) \in Int /\ BossOf(i) > i
<1>1. i \in Slots /\ i \in Nat /\ (i + 1) % TierLength # 0
  BY ArenaConstants, SlotsAreNumbers DEF Slots
<1>2. PICK q \in Nat : q = i \div TierLength
  BY <1>1, Divided
<1>3. PICK r \in 0 .. TierLength - 1 : i = TierLength * q + r
  BY <1>1, <1>2, Divided
<1>4. r # TierLength - 1
  <2> SUFFICES ASSUME r = TierLength - 1 PROVE FALSE
    OBVIOUS
  <2>1. i + 1 = TierLength * (q + 1)
    BY <1>3, ArenaConstants
  <2>2. (TierLength * (q + 1)) % TierLength = 0
    BY ArenaConstants
  <2> QED
    BY <1>1, <2>1, <2>2
<1>5. BossOf(i) = TierLength * q + TierLength - 1
  BY <1>2, ArenaConstants DEF BossOf, TierOf
<1> QED
  BY <1>1, <1>3, <1>4, <1>5, ArenaConstants DEF IsBoss

----------------------------------------------------------------------------
\* What the operations make of one fight.

LEMMA PromptedFight ==
  ASSUME NEW s \in Fights, NEW c \in BOOLEAN
  PROVE  /\ Prompted(s) \in Fights /\ [Prompted(s) EXCEPT !.chosen = TRUE] \in Fights
         /\ SameFight(Prompted(s), s)
         /\ SameFight([Prompted(s) EXCEPT !.chosen = TRUE], s)
         /\ AsksRight(s) => /\ AsksRight(Prompted(s))
                            /\ AsksRight([Prompted(s) EXCEPT !.chosen = TRUE])
BY DEF Fights, Prompted, SameFight, AsksRight

LEMMA ChosenFight ==
  ASSUME NEW s \in Fights
  PROVE  LET t == [s EXCEPT !.chosen = TRUE]
         IN  t \in Fights /\ SameFight(t, s) /\ (AsksRight(s) => AsksRight(t))
BY DEF Fights, SameFight, AsksRight

LEMMA AnsweredFight ==
  ASSUME NEW s \in Fights, CanAnswer(s)
  PROVE  LET t == [s EXCEPT !.answered = TRUE]
         IN  t \in Fights /\ SameFight(t, s) /\ (AsksRight(s) => AsksRight(t))
BY DEF Fights, SameFight, AsksRight, CanAnswer

LEMMA SkippedFight ==
  ASSUME NEW s \in Fights
  PROVE  /\ Skipped(s) \in Fights /\ AsksRight(Skipped(s))
         /\ Skipped(s).result = "SKIP" /\ Skipped(s).bossLosses = s.bossLosses
         /\ Skipped(s).notes = {} /\ Skipped(s).reward = s.reward
BY DEF Fights, Skipped, AsksRight

LEMMA UnfoughtFight ==
  /\ Unfought \in Fights /\ AsksRight(Unfought) /\ Unfought.result = "NONE"
  /\ Unfought.bossLosses = 0 /\ Unfought.notes = {} /\ Unfought.reward = "none"
  /\ Unfought.session = 0
BY DEF Fights, Unfought, AsksRight

\* The fight a result is written to.
WrittenRightly(t, s, i, b, won) ==
    /\ t \in Fights /\ (AsksRight(s) => AsksRight(t))
    /\ t.result = IF won THEN "WIN" ELSE "LOSE"
    /\ t.session = b /\ t.reward = s.reward
    /\ IF IsBoss(i) /\ ~ won
       THEN t.bossLosses = s.bossLosses + 1 /\ t.notes = {}
       ELSE t.bossLosses = s.bossLosses /\ t.notes = s.notes

LEMMA WrittenFight ==
  ASSUME NEW s \in Fights, NEW i, NEW b \in Nat, NEW won \in BOOLEAN
  PROVE  WrittenRightly(Written(s, i, b, won), s, i, b, won)
<1> DEFINE told == [s EXCEPT !.result = IF won THEN "WIN" ELSE "LOSE", !.session = b]
           lost == [told EXCEPT !.bossLosses = @ + 1]
<1>1. /\ told \in Fights /\ told.result = (IF won THEN "WIN" ELSE "LOSE")
      /\ told.session = b /\ told.bossLosses = s.bossLosses /\ told.notes = s.notes
      /\ told.reward = s.reward /\ (AsksRight(s) => AsksRight(told))
  BY DEF Fights, AsksRight
<1>2. /\ lost \in Fights /\ lost.result = told.result /\ lost.session = b
      /\ lost.bossLosses = s.bossLosses + 1 /\ lost.reward = s.reward
      /\ (AsksRight(s) => AsksRight(lost))
  <2> HIDE DEF told
  <2> QED
    BY <1>1 DEF Fights, AsksRight
<1> HIDE DEF lost
<1>3. /\ Consume(lost) \in Fights /\ Consume(lost).notes = {}
      /\ Consume(lost).result = lost.result /\ Consume(lost).session = lost.session
      /\ Consume(lost).bossLosses = lost.bossLosses /\ Consume(lost).reward = lost.reward
      /\ (AsksRight(lost) => AsksRight(Consume(lost)))
  BY <1>2 DEF Fights, AsksRight, Consume
<1>4. Written(s, i, b, won) = IF IsBoss(i) /\ ~ won THEN Consume(lost) ELSE told
  BY DEF Written, lost
<1> HIDE DEF told
<1> QED
  BY <1>1, <1>2, <1>3, <1>4 DEF WrittenRightly

\* The challenges of a history are prepared: its fights stay what they were.
KeepsFights(g, h) ==
    /\ g \in Histories
    /\ \A j \in Slots : SameFight(g[j], h[j]) /\ (AsksRight(h[j]) => AsksRight(g[j]))

LEMMA PreparedHistory ==
  ASSUME NEW h \in Histories, NEW i, NEW rolled \in BOOLEAN
  PROVE  KeepsFights(Prepare(h, i, rolled), h)
<1>1. CASE i \notin Slots \/ h[i].chosen
  BY <1>1 DEF Prepare, KeepsFights, SameFight
<1>2. CASE ~ (i \notin Slots \/ h[i].chosen)
  <2>1. PICK t : /\ Prepare(h, i, rolled) = [h EXCEPT ![i] = t]
                 /\ \/ t = [Prompted(h[i]) EXCEPT !.chosen = TRUE]
                    \/ t = [h[i] EXCEPT !.chosen = TRUE]
    BY <1>2 DEF Prepare
  <2>2. h[i] \in Fights
    BY <1>2 DEF Histories
  <2>3. t \in Fights /\ SameFight(t, h[i]) /\ (AsksRight(h[i]) => AsksRight(t))
    BY <2>1, <2>2, PromptedFight, ChosenFight
  <2> QED
    BY <1>2, <2>1, <2>3 DEF KeepsFights, Histories, SameFight
<1> QED
  BY <1>1, <1>2

----------------------------------------------------------------------------
\* The row of a run.

WonOf(h) == {i \in Slots : h[i].result = "WIN"}
BossesOf(h) == {i \in WonOf(h) : IsBoss(i)}

InOrder(r) ==
    \A i \in Slots :
        LET s == r.history[i]
        IN  /\ i < r.index => s.result # "NONE" /\ (IsBoss(i) => s.result # "LOSE")
            /\ i > r.index => s.result = "NONE" /\ s.bossLosses = 0 /\ s.reward = "none"
            /\ i = r.index => s.result = IF s.bossLosses > 0 THEN "LOSE" ELSE "NONE"

\* An elite's gift is older than the current fight and was its reward.
Pinned(r) ==
    \A i \in Slots :
        LET s == r.history[i]
        IN  /\ s.notes # {} => s.bossLosses = 0
            /\ \A e \in s.notes : /\ i = BossOf(e) /\ e < r.index
                                  /\ r.history[e].reward = "gift"

CountedIn(r) ==
    /\ r.wins = Cardinality(WonOf(r.history))
    /\ r.chests = Cardinality(BossesOf(r.history))

RowOK(r) ==
    /\ r \in Runs
    /\ \A i \in Slots : AsksRight(r.history[i])
    /\ InOrder(r) /\ Pinned(r) /\ CountedIn(r)

LEMMA RowIsKept ==
  ASSUME NEW r, RowOK(r), NEW g, KeepsFights(g, r.history)
  PROVE  RowOK([r EXCEPT !.history = g])
<1> DEFINE q == [r EXCEPT !.history = g]
<1>1. /\ q \in Runs /\ q.history = g /\ q.index = r.index /\ q.wins = r.wins
      /\ q.chests = r.chests
  BY DEF RowOK, Runs, KeepsFights
<1> HIDE DEF q
<1>2. \A i \in Slots : AsksRight(g[i])
  BY DEF RowOK, KeepsFights
<1>3. InOrder(q)
  BY <1>1 DEF RowOK, InOrder, KeepsFights, SameFight
<1>4. Pinned(q)
  <2>1. \A i \in Slots : /\ g[i].notes = r.history[i].notes /\ g[i].reward = r.history[i].reward
                         /\ g[i].bossLosses = r.history[i].bossLosses
                         /\ r.history[i].notes \subseteq Slots
    BY DEF RowOK, Runs, Histories, Fights, KeepsFights, SameFight
  <2> QED
    BY <1>1, <2>1 DEF RowOK, Pinned
<1>5. CountedIn(q)
  <2>1. WonOf(g) = WonOf(r.history)
    BY DEF WonOf, KeepsFights, SameFight
  <2> QED
    BY <1>1, <2>1 DEF RowOK, CountedIn, BossesOf
<1>6. RowOK(q)
  BY <1>1, <1>2, <1>3, <1>4, <1>5 DEF RowOK
<1> QED
  BY <1>6 DEF q

LEMMA FreshRow ==
  ASSUME NEW deck \in BOOLEAN
  PROVE  RowOK(Fresh(deck))
<1> DEFINE r == Fresh(deck)
<1>1. /\ r.history = [i \in Slots |-> Unfought] /\ r.index = 0 /\ r.wins = 0 /\ r.chests = 0
  BY DEF Fresh
<1>2. r \in Runs
  BY UnfoughtFight, ArenaConstants DEF Fresh, Runs, Histories
<1> HIDE DEF r
<1>3. \A i \in Slots : r.history[i] = Unfought
  BY <1>1
<1>4. WonOf(r.history) = {} /\ BossesOf(r.history) = {}
  BY <1>3, UnfoughtFight DEF WonOf, BossesOf
<1>5. CountedIn(r)
  BY <1>1, <1>4, FS_EmptySet DEF CountedIn
<1>6. InOrder(r)
  <2>1. \A i \in Slots : /\ r.history[i].result = "NONE" /\ r.history[i].bossLosses = 0
                          /\ r.history[i].reward = "none"
    BY <1>3, UnfoughtFight
  <2>2. \A i \in Slots : ~ (i < r.index)
    BY <1>1, SlotsAreNumbers
  <2> QED
    BY <2>1, <2>2 DEF InOrder
<1>7. Pinned(r)
  BY <1>3, UnfoughtFight DEF Pinned
<1>8. RowOK(r)
  BY <1>2, <1>3, <1>5, <1>6, <1>7, UnfoughtFight DEF RowOK
<1> QED
  BY <1>8 DEF r

\* The first tier is bought out.
LEMMA BoughtRow ==
  ASSUME NEW r, RowOK(r), r.index = 0, r.wins = 0, NEW rolled \in BOOLEAN
  PROVE  RowOK([r EXCEPT !.index = TierLength,
                         !.history = Prepare(
                            [i \in Slots |-> IF i < TierLength THEN Skipped(@[i])
                                             ELSE @[i]], TierLength, rolled)])
<1> DEFINE h == r.history
           g == [i \in Slots |-> IF i < TierLength THEN Skipped(h[i]) ELSE h[i]]
           q == [r EXCEPT !.index = TierLength, !.history = g]
<1>0. r \in Runs /\ h \in Histories /\ \A i \in Slots : h[i] \in Fights
  BY DEF RowOK, Runs, Histories
<1>1. g \in Histories /\ \A i \in Slots : g[i] = IF i < TierLength THEN Skipped(h[i]) ELSE h[i]
  BY <1>0, SkippedFight DEF Histories
<1> HIDE DEF g
<1>2. /\ q \in Runs /\ q.history = g /\ q.index = TierLength /\ q.wins = r.wins
      /\ q.chests = r.chests
  <2>1. TierLength \in 0 .. RunLength
    BY FirstTierFits
  <2>2. /\ q.history = g /\ q.index = TierLength /\ q.wins = r.wins /\ q.chests = r.chests
        /\ q.deck = r.deck /\ q.losses = r.losses /\ q.sacks = r.sacks
    BY <1>0 DEF Runs
  <2>3. q \in Runs
    BY <1>0, <1>1, <2>1 DEF Runs
  <2> QED
    BY <2>2, <2>3
<1>3. \A i \in Slots : AsksRight(g[i])
  BY <1>0, <1>1, SkippedFight DEF RowOK
<1>4. \A i \in Slots : i > 0 => /\ h[i].result = "NONE" /\ h[i].bossLosses = 0
                                /\ h[i].reward = "none"
  BY DEF RowOK, InOrder
<1>5. InOrder(q)
  <2> SUFFICES ASSUME NEW i \in Slots
               PROVE  /\ i < TierLength => g[i].result = "SKIP"
                      /\ i >= TierLength => /\ g[i].result = "NONE" /\ g[i].bossLosses = 0
                                            /\ g[i].reward = "none"
    BY <1>2, SlotsAreNumbers, FirstTierFits DEF InOrder
  <2> QED
    BY <1>0, <1>1, <1>4, SkippedFight, SlotsAreNumbers, FirstTierFits
<1>6. Pinned(q)
  <2>1. \A i \in Slots : h[i].notes = {}
    <3>1. \A i \in Slots : ~ (\E e \in h[i].notes : e < r.index)
      <4>1. \A i \in Slots : \A e \in h[i].notes : e \in Slots
        BY <1>0 DEF Fights
      <4>2. \A e \in Slots : ~ (e < 0)
        BY SlotsAreNumbers
      <4> QED
        BY <4>1, <4>2
    <3> QED
      BY <3>1 DEF RowOK, Pinned
  <2>2. \A i \in Slots : g[i].notes = {}
    BY <1>0, <1>1, <2>1, SkippedFight
  <2> QED
    BY <1>2, <2>2 DEF Pinned
<1>7. CountedIn(q)
  <2>1. WonOf(h) = {}
    <3>1. IsFiniteSet(WonOf(h)) /\ Cardinality(WonOf(h)) = 0
      BY SlotsAreNumbers, FS_Subset DEF WonOf, RowOK, CountedIn
    <3> QED
      BY <3>1, FS_EmptySet
  <2>2. WonOf(g) = {}
    BY <1>0, <1>1, <2>1, SkippedFight DEF WonOf
  <2>3. BossesOf(h) = {} /\ BossesOf(g) = {}
    BY <2>1, <2>2 DEF BossesOf
  <2> QED
    BY <1>2, <2>1, <2>2, <2>3 DEF RowOK, CountedIn
<1>8. RowOK(q)
  BY <1>2, <1>3, <1>5, <1>6, <1>7 DEF RowOK
<1>9. KeepsFights(Prepare(g, TierLength, rolled), q.history)
  BY <1>1, <1>2, PreparedHistory
<1>10. RowOK([q EXCEPT !.history = Prepare(g, TierLength, rolled)])
  BY <1>8, <1>9, RowIsKept
<1>11. [q EXCEPT !.history = Prepare(g, TierLength, rolled)]
         = [r EXCEPT !.index = TierLength, !.history = Prepare(g, TierLength, rolled)]
  BY <1>0 DEF Runs
<1> QED
  BY <1>10, <1>11 DEF g

----------------------------------------------------------------------------
\* A result is recorded.

\* The history before the next challenge is prepared.
Rewarded(b, won) ==
    LET i == run.index
        written == [run.history EXCEPT ![i] = Written(@, i, b, won)]
        reward == RewardOf(written, i, won, run.losses)
        noted == [written EXCEPT ![i].reward = reward]
    IN  IF reward = "gift" THEN Gifted(noted, i) ELSE noted

RewardFor(b, won) ==
    RewardOf([run.history EXCEPT ![run.index] = Written(@, run.index, b, won)],
             run.index, won, run.losses)

Repeats(won) == IsBoss(run.index) /\ ~ won

LEMMA RewardIsOne ==
  ASSUME NEW b, NEW won \in BOOLEAN
  PROVE  /\ RewardFor(b, won) \in {"none", "strike", "gift"}
         /\ RewardFor(b, won) = "gift" => won /\ run.index \in Elites
         /\ RewardFor(b, won) = "strike" => won /\ run.losses > 0
BY DEF RewardFor, RewardOf

\* What the history is then, fight by fight.
LEMMA RewardedHistory ==
  ASSUME RowOK(run), run.index \in Slots, NEW b \in Nat, NEW won \in BOOLEAN
  PROVE  LET i == run.index
             g == Rewarded(b, won)
             h == run.history
         IN  /\ g \in Histories
             /\ \A j \in Slots : AsksRight(g[j])
             /\ \A j \in Slots \ {i} :
                   /\ g[j].result = h[j].result /\ g[j].session = h[j].session
                   /\ g[j].bossLosses = h[j].bossLosses /\ g[j].reward = h[j].reward
                   /\ \/ g[j].notes = h[j].notes
                      \/ /\ g[j].notes = h[j].notes \cup {i} /\ RewardFor(b, won) = "gift"
                         /\ j = BossOf(i)
             /\ g[i].result = (IF won THEN "WIN" ELSE "LOSE") /\ g[i].session = b
             /\ g[i].reward = RewardFor(b, won)
             /\ IF Repeats(won) THEN g[i].bossLosses = h[i].bossLosses + 1 /\ g[i].notes = {}
                ELSE g[i].bossLosses = h[i].bossLosses /\ g[i].notes = h[i].notes
<1> DEFINE h == run.history
<1>0. PICK i \in Slots : i = run.index
  OBVIOUS
<1>a. PICK c \in {"none", "strike", "gift"} : c = RewardFor(b, won)
  BY RewardIsOne
<1>1. h \in Histories /\ \A j \in Slots : h[j] \in Fights /\ AsksRight(h[j])
  BY DEF RowOK, Runs, Histories
<1> DEFINE s == Written(h[i], i, b, won)
<1>2. /\ s \in Fights /\ AsksRight(s)
      /\ s.result = (IF won THEN "WIN" ELSE "LOSE")
      /\ s.session = b
      /\ IF IsBoss(i) /\ ~ won THEN s.bossLosses = h[i].bossLosses + 1 /\ s.notes = {}
         ELSE s.bossLosses = h[i].bossLosses /\ s.notes = h[i].notes
  <2>1. h[i] \in Fights /\ AsksRight(h[i])
    BY <1>1
  <2> HIDE DEF h
  <2>2. WrittenRightly(s, h[i], i, b, won)
    BY <2>1, WrittenFight
  <2> HIDE DEF s
  <2> QED
    BY <2>1, <2>2 DEF WrittenRightly
<1> HIDE DEF s
<1> DEFINE n == [s EXCEPT !.reward = c]
<1>3. n \in Fights /\ AsksRight(n) /\ n.reward = c /\ n.result = s.result
      /\ n.session = s.session /\ n.bossLosses = s.bossLosses /\ n.notes = s.notes
  BY <1>2 DEF Fights, AsksRight
<1> HIDE DEF n
<1> DEFINE noted == [h EXCEPT ![i] = n]
<1>4. /\ noted \in Histories /\ noted[i] = n
      /\ \A j \in Slots \ {i} : noted[j] = h[j]
  BY <1>1, <1>3 DEF Histories
<1>5. Rewarded(b, won) = IF c = "gift" THEN Gifted(noted, i) ELSE noted
  <2> DEFINE w == [h EXCEPT ![i] = s]
  <2>1. w = [run.history EXCEPT ![run.index] = Written(@, run.index, b, won)]
    BY <1>0, <1>1 DEF s, Histories
  <2>2. [w EXCEPT ![i].reward = c] = noted
    BY <1>1 DEF n, Histories
  <2>3. c = RewardOf(w, i, won, run.losses)
    BY <1>0, <1>a, <2>1 DEF RewardFor
  <2> HIDE DEF w, noted
  <2> QED
    BY <1>0, <2>1, <2>2, <2>3 DEF Rewarded
<1> HIDE DEF noted
<1>6. CASE c # "gift"
  BY <1>0, <1>a, <1>1, <1>2, <1>3, <1>4, <1>5, <1>6 DEF Repeats
<1>7. CASE c = "gift"
  <2>1. i \in Elites /\ won /\ BossOf(i) # i
    <3>1. i \in Elites /\ won
      BY <1>0, <1>a, <1>7, RewardIsOne
    <3>2. BossOf(i) \in Int /\ BossOf(i) > i /\ i \in Nat
      BY <3>1, BossIsAhead, SlotsAreNumbers
    <3> QED
      BY <3>1, <3>2
  <2>2. PICK k : k = BossOf(i)
    OBVIOUS
  <2> DEFINE y == [noted[k] EXCEPT !.notes = noted[k].notes \cup {i}]
             x == [y EXCEPT !.shown = IF noted[k].shown = "none" THEN "note"
                                      ELSE noted[k].shown]
  <2>3. Rewarded(b, won) = [noted EXCEPT ![k] = x]
    <3>1. Gifted(noted, i) = [noted EXCEPT ![k] = x]
      BY <2>2 DEF Gifted
    <3> QED
      BY <1>5, <1>7, <3>1
  <2>4. ASSUME k \in Slots
        PROVE  /\ x \in Fights /\ AsksRight(x) /\ x.result = h[k].result
               /\ x.session = h[k].session /\ x.bossLosses = h[k].bossLosses
               /\ x.reward = h[k].reward /\ x.notes = h[k].notes \cup {i}
    <3>1. noted[k] = h[k] /\ h[k] \in Fights /\ AsksRight(h[k])
      BY <1>1, <1>4, <2>1, <2>2, <2>4
    <3> QED
      BY <3>1 DEF Fights, AsksRight
  <2> HIDE DEF x
  <2>5. /\ Rewarded(b, won) \in Histories
        /\ \A j \in Slots : Rewarded(b, won)[j] = IF j = k THEN x ELSE noted[j]
    BY <1>4, <2>3, <2>4 DEF Histories
  <2>6. Rewarded(b, won)[i] = n
    BY <1>4, <2>1, <2>2, <2>5
  <2>7. ASSUME NEW j \in Slots \ {i}
        PROVE  LET g == Rewarded(b, won)
               IN  /\ AsksRight(g[j])
                   /\ g[j].result = h[j].result /\ g[j].session = h[j].session
                   /\ g[j].bossLosses = h[j].bossLosses /\ g[j].reward = h[j].reward
                   /\ \/ g[j].notes = h[j].notes
                      \/ g[j].notes = h[j].notes \cup {i} /\ j = k
    BY <1>1, <1>4, <2>4, <2>5, <2>7
  <2> HIDE DEF h
  <2>8. h = run.history
    BY DEF h
  <2> QED
    BY <1>0, <1>a, <1>2, <1>3, <1>7, <2>1, <2>2, <2>5, <2>6, <2>7, <2>8 DEF Repeats
<1> QED
  BY <1>6, <1>7

\* The row with everything but the next challenge.
NextIndex(won) == IF Repeats(won) THEN run.index ELSE run.index + 1

LEMMA CountOneMore ==
  ASSUME NEW S, NEW T, NEW i, IsFiniteSet(S), NEW new \in BOOLEAN,
         T = IF new THEN S \cup {i} ELSE S, i \notin S
  PROVE  Cardinality(T) = Cardinality(S) + (IF new THEN 1 ELSE 0)
<1>1. CASE new
  BY <1>1, FS_AddElement, FS_CardinalityType
<1>2. CASE ~ new
  BY <1>2, FS_CardinalityType
<1> QED
  BY <1>1, <1>2

LEMMA RecordedRow ==
  ASSUME RowOK(run), NEW b \in Nat, Records(b), NEW won \in BOOLEAN, NEW rolled \in BOOLEAN
  PROVE  LET q == Recorded(b, won, rolled)
         IN  /\ RowOK(q) /\ q.index = NextIndex(won) /\ q.deck = run.deck
             /\ KeepsFights(q.history, Rewarded(b, won))
<1> DEFINE h == run.history
           g == Rewarded(b, won)
           c == RewardFor(b, won)
           q == [run EXCEPT
                  !.wins = @ + (IF won THEN 1 ELSE 0),
                  !.losses = @ + (IF won THEN 0 ELSE 1)
                               - (IF c = "strike" THEN 1 ELSE 0),
                  !.index = NextIndex(won),
                  !.sacks = @ + (IF won THEN TierOf(run.index) ELSE 0),
                  !.chests = @ + (IF won /\ IsBoss(run.index) THEN 1 ELSE 0),
                  !.history = g]
<1>0. /\ run \in Runs /\ h \in Histories /\ h = run.history
      /\ \A i \in Slots : h[i] \in Fights /\ AsksRight(h[i])
  BY DEF RowOK, Runs, Histories
<1>1. PICK i \in Slots : i = run.index
  BY DEF Records
<1>2. h[i].result # "WIN" /\ h[i].result = "LOSE" => IsBoss(i)
  BY <1>1 DEF Records
<1>3. /\ g \in Histories
      /\ \A j \in Slots : AsksRight(g[j])
      /\ \A j \in Slots \ {i} :
            /\ g[j].result = h[j].result /\ g[j].session = h[j].session
            /\ g[j].bossLosses = h[j].bossLosses /\ g[j].reward = h[j].reward
            /\ \/ g[j].notes = h[j].notes
               \/ g[j].notes = h[j].notes \cup {i} /\ c = "gift" /\ j = BossOf(i)
      /\ g[i].result = (IF won THEN "WIN" ELSE "LOSE") /\ g[i].reward = c
      /\ IF Repeats(won) THEN g[i].bossLosses = h[i].bossLosses + 1 /\ g[i].notes = {}
         ELSE g[i].bossLosses = h[i].bossLosses /\ g[i].notes = h[i].notes
  BY <1>1, RewardedHistory
<1>4. c \in {"none", "strike", "gift"} /\ (c = "gift" => won /\ i \in Elites)
      /\ (c = "strike" => won /\ run.losses > 0)
  BY <1>1, RewardIsOne
<1>5. i \in Nat /\ i + 1 \in 0 .. RunLength /\ i \in 0 .. RunLength
      /\ TierOf(i) \in Nat /\ \A j \in Slots : j \in Nat
  BY SlotsAreNumbers, TiersArePositive
<1>6. \A j \in Slots : g[j].notes \subseteq Slots /\ h[j].notes \subseteq Slots
                       /\ h[j].bossLosses \in Nat /\ g[j].bossLosses \in Nat
  BY <1>0, <1>3 DEF Histories, Fights
<1> HIDE DEF g, c, h
<1>7. /\ q.history = g /\ q.index = NextIndex(won) /\ q.deck = run.deck
      /\ q.wins = run.wins + (IF won THEN 1 ELSE 0)
      /\ q.chests = run.chests + (IF won /\ IsBoss(i) THEN 1 ELSE 0)
  BY <1>0, <1>1 DEF Runs
<1>8. q \in Runs
  <2>1. NextIndex(won) \in 0 .. RunLength
    BY <1>1, <1>5 DEF NextIndex
  <2>2. /\ run.wins \in Nat /\ run.losses \in Nat /\ run.sacks \in Nat /\ run.chests \in Nat
    BY <1>0 DEF Runs
  <2>3. run.losses + (IF won THEN 0 ELSE 1) - (IF c = "strike" THEN 1 ELSE 0) \in Nat
    BY <2>2, <1>4
  <2>4. /\ run.wins + (IF won THEN 1 ELSE 0) \in Nat
        /\ run.sacks + (IF won THEN TierOf(run.index) ELSE 0) \in Nat
        /\ run.chests + (IF won /\ IsBoss(run.index) THEN 1 ELSE 0) \in Nat
    BY <2>2, <1>1, <1>5
  <2> QED
    BY <1>0, <1>3, <2>1, <2>3, <2>4 DEF Runs
<1> HIDE DEF q
<1>9. InOrder(q)
  <2>1. \A j \in Slots :
           /\ j < i => h[j].result # "NONE" /\ (IsBoss(j) => h[j].result # "LOSE")
           /\ j > i => h[j].result = "NONE" /\ h[j].bossLosses = 0 /\ h[j].reward = "none"
    BY <1>0, <1>1 DEF RowOK, InOrder
  <2>2. \A j \in Slots \ {i} : /\ g[j].result = h[j].result /\ g[j].reward = h[j].reward
                              /\ g[j].bossLosses = h[j].bossLosses
    BY <1>3
  <2>3. g[i].result \in {"WIN", "LOSE"} /\ (IsBoss(i) /\ ~ Repeats(won) => g[i].result = "WIN")
    BY <1>1, <1>3 DEF Repeats
  <2>4. Repeats(won) => g[i].result = "LOSE" /\ g[i].bossLosses > 0
    BY <1>3, <1>6 DEF Repeats
  <2>5. q.index = IF Repeats(won) THEN i ELSE i + 1
    BY <1>1, <1>7 DEF NextIndex
  <2> SUFFICES ASSUME NEW j \in Slots
               PROVE  /\ j < q.index => g[j].result # "NONE" /\ (IsBoss(j) => g[j].result # "LOSE")
                      /\ j > q.index => /\ g[j].result = "NONE" /\ g[j].bossLosses = 0
                                        /\ g[j].reward = "none"
                      /\ j = q.index => g[j].result = IF g[j].bossLosses > 0 THEN "LOSE" ELSE "NONE"
    BY <1>7 DEF InOrder
  <2>6. CASE j = i
    BY <2>3, <2>4, <2>5, <2>6, <1>5
  <2>7. CASE j < i
    BY <2>1, <2>2, <2>5, <2>7, <1>5
  <2>8. CASE j > i
    BY <2>1, <2>2, <2>5, <2>8, <1>5
  <2>9. j = i \/ j < i \/ j > i
    BY <1>5
  <2> QED
    BY <2>6, <2>7, <2>8, <2>9
<1>10. Pinned(q)
  <2>1. \A j \in Slots : /\ h[j].notes # {} => h[j].bossLosses = 0
                        /\ \A e \in h[j].notes : /\ j = BossOf(e) /\ e < i
                                                 /\ h[e].reward = "gift"
    BY <1>0, <1>1 DEF RowOK, Pinned
  <2>2. q.index = i \/ q.index = i + 1
    BY <1>1, <1>7 DEF NextIndex
  <2>3. c = "gift" => /\ BossOf(i) > i /\ ~ Repeats(won)
                      /\ BossOf(i) \in Slots => h[BossOf(i)].bossLosses = 0
    <3> SUFFICES ASSUME c = "gift"
                 PROVE  /\ BossOf(i) > i /\ ~ Repeats(won)
                        /\ BossOf(i) \in Slots => h[BossOf(i)].bossLosses = 0
      OBVIOUS
    <3>1. i \in Elites /\ won
      BY <1>4
    <3>2. BossOf(i) > i /\ ~ Repeats(won)
      BY <3>1, BossIsAhead DEF Repeats
    <3> QED
      BY <3>2, <1>0, <1>1 DEF RowOK, InOrder
  <2> SUFFICES ASSUME NEW j \in Slots
               PROVE  /\ g[j].notes # {} => g[j].bossLosses = 0
                      /\ \A e \in g[j].notes : /\ j = BossOf(e) /\ e < q.index
                                               /\ g[e].reward = "gift"
    BY <1>7 DEF Pinned
  <2>5. ASSUME NEW e \in h[j].notes
        PROVE  j = BossOf(e) /\ e < q.index /\ g[e].reward = "gift"
    <3>1. j = BossOf(e) /\ e < i /\ h[e].reward = "gift"
      BY <2>1
    <3>2. e \in Slots /\ e \in Nat
      BY <1>5, <1>6
    <3>3. e \in Slots \ {i}
      BY <3>1, <3>2
    <3>4. g[e].reward = h[e].reward
      BY <1>3, <3>3
    <3> QED
      BY <3>1, <3>2, <3>4, <2>2, <1>5
  <2>6. CASE g[j].notes = h[j].notes
    <3>1. g[j].notes # {} => g[j].bossLosses = 0
      BY <2>1, <2>6, <1>3
    <3> QED
      BY <2>5, <2>6, <3>1
  <2>7. CASE g[j].notes = {}
    BY <2>7
  <2>8. CASE j # i /\ g[j].notes = h[j].notes \cup {i} /\ c = "gift" /\ j = BossOf(i)
    <3>1. g[j].bossLosses = 0
      BY <1>3, <2>3, <2>8
    <3>2. i < q.index /\ g[i].reward = "gift"
      BY <1>1, <1>3, <1>5, <1>7, <2>3, <2>8 DEF NextIndex
    <3> QED
      BY <2>5, <2>8, <3>1, <3>2
  <2> QED
    BY <1>3, <2>6, <2>7, <2>8
<1>11. CountedIn(q)
  <2>1. run.wins = Cardinality(WonOf(h)) /\ run.chests = Cardinality(BossesOf(h))
    BY <1>0 DEF RowOK, CountedIn
  <2>2. h[i].result # "WIN"
    BY <1>0, <1>1 DEF Records
  <2>3. IsFiniteSet(WonOf(h)) /\ i \notin WonOf(h) /\ IsFiniteSet(BossesOf(h)) /\ i \notin BossesOf(h)
    BY <2>2, SlotsAreNumbers, FS_Subset DEF WonOf, BossesOf
  <2>4. WonOf(g) = IF won THEN WonOf(h) \cup {i} ELSE WonOf(h)
    <3>1. \A j \in Slots : g[j].result = "WIN" <=> (IF j = i THEN won ELSE h[j].result = "WIN")
      BY <1>3
    <3> QED
      BY <2>2, <3>1 DEF WonOf
  <2>5. PICK new \in BOOLEAN : new <=> won /\ IsBoss(i)
    OBVIOUS
  <2>6. BossesOf(g) = IF new THEN BossesOf(h) \cup {i} ELSE BossesOf(h)
    BY <2>4, <2>5 DEF BossesOf
  <2>7. Cardinality(WonOf(g)) = Cardinality(WonOf(h)) + (IF won THEN 1 ELSE 0)
    BY <2>3, <2>4, CountOneMore
  <2>8. Cardinality(BossesOf(g)) = Cardinality(BossesOf(h)) + (IF new THEN 1 ELSE 0)
    BY <2>3, <2>6, CountOneMore
  <2> QED
    BY <1>7, <2>1, <2>5, <2>7, <2>8 DEF CountedIn
<1>12. RowOK(q)
  BY <1>3, <1>7, <1>8, <1>9, <1>10, <1>11 DEF RowOK
<1>13. ASSUME NEW f, f = Prepare(g, NextIndex(won), rolled)
       PROVE  KeepsFights(f, g) /\ RowOK([q EXCEPT !.history = f])
  BY <1>3, <1>7, <1>12, <1>13, PreparedHistory, RowIsKept
<1>14. Recorded(b, won, rolled) = [q EXCEPT !.history = Prepare(g, NextIndex(won), rolled)]
  <2>1. PICK f : f = Prepare(g, NextIndex(won), rolled)
    OBVIOUS
  <2>2. Recorded(b, won, rolled) =
          [run EXCEPT
                  !.wins = @ + (IF won THEN 1 ELSE 0),
                  !.losses = @ + (IF won THEN 0 ELSE 1)
                               - (IF c = "strike" THEN 1 ELSE 0),
                  !.index = NextIndex(won),
                  !.sacks = @ + (IF won THEN TierOf(run.index) ELSE 0),
                  !.chests = @ + (IF won /\ IsBoss(run.index) THEN 1 ELSE 0),
                  !.history = Prepare(g, NextIndex(won), rolled)]
    BY DEF Recorded, g, c, Rewarded, RewardFor, NextIndex, Repeats
  <2>3. [q EXCEPT !.history = f] =
          [run EXCEPT
                  !.wins = @ + (IF won THEN 1 ELSE 0),
                  !.losses = @ + (IF won THEN 0 ELSE 1)
                               - (IF c = "strike" THEN 1 ELSE 0),
                  !.index = NextIndex(won),
                  !.sacks = @ + (IF won THEN TierOf(run.index) ELSE 0),
                  !.chests = @ + (IF won /\ IsBoss(run.index) THEN 1 ELSE 0),
                  !.history = f]
    BY <1>0 DEF q, Runs
  <2> QED
    BY <2>1, <2>2, <2>3
<1>15. /\ [q EXCEPT !.history = Prepare(g, NextIndex(won), rolled)].history
            = Prepare(g, NextIndex(won), rolled)
       /\ [q EXCEPT !.history = Prepare(g, NextIndex(won), rolled)].index = q.index
       /\ [q EXCEPT !.history = Prepare(g, NextIndex(won), rolled)].deck = q.deck
  BY <1>8 DEF Runs
<1> QED
  BY <1>7, <1>13, <1>14, <1>15 DEF g

----------------------------------------------------------------------------
\* Every state has a good row, and every battle its type.

Typed ==
    /\ RowOK(run)
    /\ roster \in Nat /\ payout \in Nat /\ perfect \in BOOLEAN
    /\ request \in {"none", "roster", "roll", "clear"}
    /\ assigned \in 0 .. MaxRuns /\ here \in 0 .. MaxBattles
    /\ battles \in Seq(Battled)
    /\ forfeited \in Nat /\ again \in 0 .. MaxAgain

\* A deck and a roster come from an assignment.  A run without a deck has the
\* roster of the one before while it is being destroyed, and for longer only
\* if the server dies meanwhile.
Decks ==
    /\ run.deck \/ roster # 0 => assigned > 0
    /\ request \in {"roster", "roll"} => run.deck
    /\ here # 0 => request = "none"
    /\ "practice" \notin Hazards => here = 0 \/ run.deck
    /\ "crash" \notin Hazards => roster = 0 \/ run.deck \/ request = "clear"

\* The challenges of the row may change, its fights do not.
RunKept ==
    /\ RowOK(run') /\ run'.deck = run.deck /\ run'.index = run.index
    /\ run'.sacks = run.sacks /\ run'.losses = run.losses
    /\ \A j \in Slots : SameFight(run'.history[j], run.history[j])

LEMMA RunIsKept ==
  ASSUME RowOK(run),
         \/ run' = run
         \/ \E g : KeepsFights(g, run.history) /\ run' = [run EXCEPT !.history = g]
  PROVE  RunKept
<1>1. CASE run' = run
  BY <1>1 DEF RunKept, SameFight
<1>2. CASE \E g : KeepsFights(g, run.history) /\ run' = [run EXCEPT !.history = g]
  <2>1. PICK g : KeepsFights(g, run.history) /\ run' = [run EXCEPT !.history = g]
    BY <1>2
  <2>2. RowOK(run')
    BY <2>1, RowIsKept
  <2>3. /\ run'.deck = run.deck /\ run'.index = run.index /\ run'.sacks = run.sacks
        /\ run'.losses = run.losses /\ run'.history = g
    BY <2>1 DEF RowOK, Runs
  <2> QED
    BY <2>1, <2>2, <2>3 DEF RunKept, KeepsFights
<1> QED
  BY <1>1, <1>2

LEMMA PrepareKeeps ==
  ASSUME RowOK(run), NEW rolled \in BOOLEAN,
         run' = [run EXCEPT !.history = Prepare(@, run.index, rolled)]
  PROVE  RunKept
<1>1. run.history \in Histories
  BY DEF RowOK, Runs
<1>2. KeepsFights(Prepare(run.history, run.index, rolled), run.history)
  BY <1>1, PreparedHistory
<1> QED
  BY <1>2, RunIsKept

LEMMA OneFightKeeps ==
  ASSUME RowOK(run), NEW i \in Slots, NEW t \in Fights, SameFight(t, run.history[i]),
         AsksRight(run.history[i]) => AsksRight(t),
         run' = [run EXCEPT !.history[i] = t]
  PROVE  RunKept
<1>1. run.history \in Histories
  BY DEF RowOK, Runs
<1>2. KeepsFights([run.history EXCEPT ![i] = t], run.history)
  BY <1>1 DEF KeepsFights, Histories, SameFight
<1>3. run' = [run EXCEPT !.history = [run.history EXCEPT ![i] = t]]
  OBVIOUS
<1> QED
  BY <1>2, <1>3, RunIsKept

LEMMA LookStep ==
  ASSUME Typed, Decks, Look
  PROVE  RunKept /\ Typed' /\ Decks'
<1>1. PICK rolled \in BOOLEAN : run' = [run EXCEPT !.history = Prepare(@, run.index, rolled)]
  BY DEF Look
<1>2. RunKept
  BY <1>1, PrepareKeeps DEF Typed
<1>3. roster' \in Nat /\ run.deck
  BY DEF Look, Typed
<1> QED
  BY <1>2, <1>3 DEF Typed, Decks, RunKept, Look, account, session

LEMMA AssignRollStep ==
  ASSUME Typed, Decks, AssignRoll
  PROVE  RunKept /\ Typed' /\ Decks'
<1>1. RunKept
  <2>1. CASE run' = run
    BY <2>1, RunIsKept DEF Typed
  <2>2. CASE run' # run
    <3>1. 0 \in Slots
      BY ArenaConstants DEF Slots
    <3>2. run' = [run EXCEPT !.history[0] = [Prompted(run.history[0]) EXCEPT !.chosen = TRUE]]
      BY <2>2 DEF AssignRoll
    <3>3. run.history[0] \in Fights
      BY <3>1 DEF Typed, RowOK, Runs, Histories
    <3> QED
      BY <3>1, <3>2, <3>3, PromptedFight, OneFightKeeps DEF Typed
  <2> QED
    BY <2>1, <2>2
<1> QED
  BY <1>1 DEF Typed, Decks, RunKept, AssignRoll, account, session

LEMMA AcceptPromptStep ==
  ASSUME Typed, Decks, AcceptPrompt
  PROVE  RunKept /\ Typed' /\ Decks'
<1>1. PICK i \in Slots : i = run.index
  BY DEF AcceptPrompt
<1>2. PICK t : t = [run.history[i] EXCEPT !.answered = TRUE]
  OBVIOUS
<1>3. run.history[i] \in Fights /\ CanAnswer(run.history[i])
  BY <1>1 DEF Typed, RowOK, Runs, Histories, AcceptPrompt
<1>4. t \in Fights /\ SameFight(t, run.history[i]) /\ (AsksRight(run.history[i]) => AsksRight(t))
  BY <1>2, <1>3, AnsweredFight
<1>5. run' = [run EXCEPT !.history[i] = t]
  BY <1>1, <1>2 DEF AcceptPrompt
<1>6. RunKept
  BY <1>4, <1>5, OneFightKeeps DEF Typed
<1> QED
  BY <1>6 DEF Typed, Decks, RunKept, AcceptPrompt, account, session

LEMMA AssignRosterStep ==
  ASSUME Typed, Decks, AssignRoster
  PROVE  RunKept /\ Typed' /\ Decks'
<1>1. RunKept
  BY RunIsKept DEF Typed, AssignRoster
<1> QED
  BY <1>1 DEF Typed, Decks, RunKept, AssignRoster, account, session

LEMMA ClearRosterStep ==
  ASSUME Typed, Decks, ClearRoster
  PROVE  RunKept /\ Typed' /\ Decks'
<1>1. RunKept
  BY RunIsKept DEF Typed, ClearRoster
<1> QED
  BY <1>1 DEF Typed, Decks, RunKept, ClearRoster, account, session

LEMMA FreshStep ==
  ASSUME Typed, Decks, AssignDeck \/ CashOut \/ DestroyArena
  PROVE  /\ Typed' /\ Decks' /\ here = 0 /\ UNCHANGED <<perfect, battles, here, again>>
         /\ run'.history = [i \in Slots |-> Unfought] /\ run'.index = 0
         /\ \/ run'.deck /\ assigned' = assigned + 1
            \/ ~ run'.deck /\ assigned' = assigned
<1>0. run.sacks \in Nat
  BY DEF Typed, RowOK, Runs
<1>1. PICK deck \in BOOLEAN : run' = Fresh(deck) /\ deck = AssignDeck
  BY DEF AssignDeck, CashOut, DestroyArena
<1>2. /\ RowOK(run') /\ run'.deck = deck /\ run'.index = 0
      /\ run'.history = [i \in Slots |-> Unfought]
  BY <1>1, FreshRow DEF Fresh
<1>3. here = 0 /\ UNCHANGED <<perfect, battles, here, again>>
  BY DEF AssignDeck, CashOut, DestroyArena, InLobby, account, session
<1>4. payout' \in Nat /\ forfeited' \in Nat
  <2>1. payout' \in {payout, payout + run.sacks} /\ forfeited' \in {forfeited, forfeited + run.sacks}
    BY DEF AssignDeck, CashOut, DestroyArena, account
  <2>2. payout \in Nat /\ forfeited \in Nat
    BY DEF Typed
  <2> QED
    BY <1>0, <2>1, <2>2
<1>5. CASE deck
  <2>1. AssignDeck
    BY <1>1, <1>5
  <2>2. /\ assigned' = assigned + 1 /\ assigned' \in 0 .. MaxRuns /\ assigned' > 0
        /\ request' = "roster" /\ roster' = roster
    BY <2>1, ArenaConstants DEF AssignDeck, Typed
  <2>3. Typed'
    BY <1>2, <1>3, <1>4, <2>2 DEF Typed
  <2>4. Decks'
    BY <1>2, <1>3, <1>5, <2>2 DEF Decks
  <2> QED
    BY <1>2, <1>3, <1>5, <2>2, <2>3, <2>4
<1>6. CASE ~ deck
  <2>1. /\ assigned' = assigned
        /\ \/ request' = "none" /\ roster' = 0
           \/ request' = "clear" /\ roster' = roster
    BY <1>1, <1>6 DEF CashOut, DestroyArena, InLobby
  <2>2. Typed'
    BY <1>2, <1>3, <1>4, <2>1 DEF Typed
  <2>3. Decks'
    BY <1>2, <1>3, <1>6, <2>1 DEF Decks
  <2> QED
    BY <1>2, <1>3, <1>6, <2>1, <2>2, <2>3
<1> QED
  BY <1>5, <1>6

LEMMA BuyoutStep ==
  ASSUME Typed, Decks, Buyout
  PROVE  /\ Typed' /\ Decks' /\ here = 0 /\ run'.deck = run.deck /\ run'.index = TierLength
         /\ UNCHANGED <<perfect, battles, here, again, assigned>>
         /\ \A j \in Slots : /\ run'.history[j].result # "WIN" \/ run.history[j].result = "WIN"
                             /\ run'.history[j].bossLosses = run.history[j].bossLosses
<1> DEFINE g == [i \in Slots |-> IF i < TierLength THEN Skipped(run.history[i])
                                 ELSE run.history[i]]
<1>1. PICK rolled \in BOOLEAN : run' =
         [run EXCEPT !.index = TierLength,
                     !.history = Prepare(
                        [i \in Slots |-> IF i < TierLength THEN Skipped(@[i])
                                         ELSE @[i]], TierLength, rolled)]
  BY DEF Buyout
<1>2. run \in Runs /\ \A i \in Slots : run.history[i] \in Fights
  BY DEF Typed, RowOK, Runs, Histories
<1>3. RowOK(run')
  BY <1>1, BoughtRow DEF Typed, Buyout
<1>4. g \in Histories /\ \A j \in Slots : /\ g[j].result # "WIN" \/ run.history[j].result = "WIN"
                                          /\ g[j].bossLosses = run.history[j].bossLosses
  BY <1>2, SkippedFight DEF Histories
<1>5. run'.history = Prepare(g, TierLength, rolled) /\ run'.index = TierLength
      /\ run'.deck = run.deck
  BY <1>1, <1>2 DEF Runs
<1> HIDE DEF g
<1>6. \A j \in Slots : SameFight(run'.history[j], g[j])
  BY <1>4, <1>5, PreparedHistory DEF KeepsFights
<1>7. \A j \in Slots : /\ run'.history[j].result # "WIN" \/ run.history[j].result = "WIN"
                       /\ run'.history[j].bossLosses = run.history[j].bossLosses
  BY <1>4, <1>6 DEF SameFight
<1> QED
  BY <1>3, <1>5, <1>7 DEF Typed, Decks, Buyout, InLobby, account, session

----------------------------------------------------------------------------
\* Battles begin, change their state, and have their results stored.

LEMMA BattlesAreTyped ==
  ASSUME Typed
  PROVE  /\ DOMAIN battles = 1 .. Len(battles) /\ Len(battles) \in Nat
         /\ DOMAIN battles \subseteq Nat
         /\ \A b \in DOMAIN battles : battles[b] \in Battled
BY DEF Typed

LEMMA BeginStep ==
  ASSUME Typed, Decks, Fight \/ Practice
  PROVE  /\ RunKept /\ Typed' /\ Decks' /\ here = 0
         /\ assigned' = assigned /\ perfect' = perfect
         /\ DOMAIN battles \subseteq DOMAIN battles'
         /\ \A b \in DOMAIN battles : battles'[b] = battles[b]
         /\ \A b \in DOMAIN battles' \ DOMAIN battles :
               b = here' /\ battles'[b].state = "on" /\ battles'[b].taken = << >>
<1>1. PICK kind \in {"arena", "practice"} : Begin(kind)
  BY DEF Fight, Practice
<1>2. RunKept
  BY PrepareKeeps, RunIsKept DEF Typed, Fight, Practice
<1> DEFINE n == [kind |-> kind, state |-> "on", won |-> FALSE,
                 at |-> run.index, of |-> assigned, taken |-> << >>]
<1>3. n \in Battled /\ n.state = "on" /\ n.taken = << >>
  BY DEF Typed, RowOK, Runs, Battled
<1>4. battles' = Append(battles, n) /\ here' = Len(battles) + 1 /\ Len(battles) < MaxBattles
      /\ here = 0
  BY <1>1 DEF Begin, InLobby
<1> HIDE DEF n
<1>5. battles' \in Seq(Battled) /\ Len(battles') = Len(battles) + 1
      /\ battles'[Len(battles) + 1] = n /\ \A b \in 1 .. Len(battles) : battles'[b] = battles[b]
  BY <1>3, <1>4 DEF Typed
<1>6. DOMAIN battles' = 1 .. Len(battles) + 1
  BY <1>5, BattlesAreTyped
<1>7. here' \in 0 .. MaxBattles
  BY <1>4, BattlesAreTyped, ArenaConstants
<1>8. UNCHANGED <<roster, payout, perfect, request, assigned, forfeited, again>>
  BY <1>1 DEF Begin, account
<1>9. request = "none" /\ ("practice" \in Hazards \/ run.deck)
  BY DEF Fight, Practice, Begin, InLobby
<1>10. Typed' /\ Decks'
  BY <1>2, <1>5, <1>7, <1>8, <1>9 DEF Typed, Decks, RunKept
<1> QED
  BY <1>2, <1>3, <1>4, <1>5, <1>6, <1>8, <1>10, BattlesAreTyped

Open == {"on", "stored"}

\* No result is stored: a battle may be over, its handler gone or its client.
LEMMA StatusStep ==
  ASSUME Typed, Decks,
         \/ \E b \in DOMAIN battles : Publish(b) \/ RecordFails(b) \/ DeckOut(b)
         \/ Disconnect \/ Crash
  PROVE  /\ run' = run /\ Typed' /\ Decks' /\ assigned' = assigned /\ perfect' = perfect
         /\ DOMAIN battles' = DOMAIN battles
         /\ \A b \in DOMAIN battles :
               /\ battles'[b].taken = battles[b].taken /\ battles'[b].won = battles[b].won
               /\ battles'[b].state \in Open =>
                     /\ battles'[b].state = battles[b].state
                     /\ "orphan" \notin Hazards /\ here = b => here' = b
<1>0. /\ DOMAIN battles = 1 .. Len(battles) /\ Len(battles) \in Nat
      /\ DOMAIN battles \subseteq Nat
      /\ \A b \in DOMAIN battles : battles[b] \in Battled
  BY BattlesAreTyped
<1>1. CASE \E b \in DOMAIN battles : Publish(b) \/ RecordFails(b) \/ DeckOut(b)
  <2>1. PICK b \in DOMAIN battles, s \in {"over", "failed"} :
           /\ battles' = [battles EXCEPT ![b].state = s] /\ ToLobby(b)
           /\ UNCHANGED <<run, roster, account, request, assigned, forfeited, again>>
    BY <1>1 DEF Publish, RecordFails, DeckOut
  <2>2. PICK t : t = [battles[b] EXCEPT !.state = s]
    OBVIOUS
  <2>3. t \in Battled /\ t.state = s /\ t.taken = battles[b].taken /\ t.won = battles[b].won
    BY <1>0, <2>1, <2>2 DEF Battled
  <2>4. battles' = [battles EXCEPT ![b] = t]
    BY <2>1, <2>2
  <2>5. battles' \in Seq(Battled) /\ DOMAIN battles' = DOMAIN battles
        /\ \A c \in DOMAIN battles : battles'[c] = IF c = b THEN t ELSE battles[c]
    BY <1>0, <2>3, <2>4 DEF Typed
  <2>6. here' \in {0, here} /\ (here # b => here' = here) /\ here' \in 0 .. MaxBattles
    BY <2>1, ArenaConstants DEF ToLobby, Typed
  <2>7. Typed' /\ Decks'
    BY <2>1, <2>5, <2>6 DEF Typed, Decks, account
  <2>8. ASSUME NEW c \in DOMAIN battles
        PROVE  /\ battles'[c].taken = battles[c].taken /\ battles'[c].won = battles[c].won
               /\ battles'[c].state \in Open =>
                     battles'[c].state = battles[c].state /\ (here = c => here' = c)
    BY <2>1, <2>3, <2>5, <2>6 DEF Open
  <2> QED
    BY <2>1, <2>5, <2>7, <2>8 DEF account
<1>2. CASE Disconnect
  <2>1. here' = 0 /\ here' \in 0 .. MaxBattles /\ "orphan" \in Hazards
    BY <1>2, ArenaConstants DEF Disconnect
  <2>2. UNCHANGED <<run, roster, payout, perfect, request, assigned, battles, forfeited, again>>
    BY <1>2 DEF Disconnect, account
  <2>3. Typed' /\ Decks'
    BY <2>1, <2>2 DEF Typed, Decks
  <2> QED
    BY <2>1, <2>2, <2>3
<1>3. CASE Crash
  <2>1. /\ UNCHANGED <<run, roster, payout, perfect, assigned, forfeited, again>>
        /\ request' = "none" /\ here' = 0
        /\ battles' = [b \in DOMAIN battles |->
                         IF battles[b].state \in Open
                         THEN [battles[b] EXCEPT !.state = "left"] ELSE battles[b]]
    BY <1>3 DEF Crash, account, Open
  <2>2. ASSUME NEW b \in DOMAIN battles
        PROVE  /\ battles'[b] \in Battled /\ battles'[b].state \notin Open
               /\ battles'[b].taken = battles[b].taken /\ battles'[b].won = battles[b].won
    BY <1>0, <2>1 DEF Battled, Open
  <2>3. battles' \in Seq(Battled)
    <3>1. battles' \in [1 .. Len(battles) -> Battled]
      BY <1>0, <2>1, <2>2
    <3> QED
      BY <1>0, <3>1
  <2>4. here' \in 0 .. MaxBattles
    BY <2>1, ArenaConstants
  <2>5. Typed' /\ Decks'
    BY <1>3, <2>1, <2>3, <2>4 DEF Typed, Decks, Crash
  <2> QED
    BY <2>1, <2>2, <2>5
<1> QED
  BY <1>1, <1>2, <1>3

LEMMA StoreStep ==
  ASSUME Typed, Decks, NEW b \in DOMAIN battles, NEW won \in BOOLEAN, Store(b, won),
         UNCHANGED <<roster, payout, request, assigned, here, forfeited>>,
         again' \in 0 .. MaxAgain
  PROVE  /\ Typed' /\ Decks' /\ DOMAIN battles' = DOMAIN battles
         /\ \A c \in DOMAIN battles \ {b} : battles'[c] = battles[c]
         /\ battles'[b].state = "stored" /\ battles'[b].won = won
         /\ \/ /\ run' = run /\ perfect' = perfect /\ battles'[b].taken = battles[b].taken
            \/ /\ Records(b) /\ RowOK(run) /\ run'.index = NextIndex(won)
               /\ run'.deck = run.deck
               /\ KeepsFights(run'.history, Rewarded(b, won))
               /\ perfect' = (perfect \/ (/\ won /\ run.index = TierLength - 1
                                          /\ Perfected(run'.history, run.index)))
               /\ battles'[b].taken = Append(battles[b].taken, <<assigned, run.index>>)
<1>0. /\ DOMAIN battles = 1 .. Len(battles) /\ b \in Nat
      /\ \A c \in DOMAIN battles : battles[c] \in Battled
  BY BattlesAreTyped
<1>1. CASE Records(b)
  <2>1. PICK rolled \in BOOLEAN : run' = Recorded(b, won, rolled)
    BY <1>1 DEF Store
  <2>2. /\ RowOK(run') /\ run'.index = NextIndex(won) /\ run'.deck = run.deck
        /\ KeepsFights(run'.history, Rewarded(b, won))
    BY <1>0, <1>1, <2>1, RecordedRow DEF Typed
  <2>3. perfect' = (perfect \/ (/\ won /\ run.index = TierLength - 1
                                /\ Perfected(run'.history, run.index)))
    BY <1>1 DEF Store
  <2>4. PICK x : x = Append(battles[b].taken, <<assigned, run.index>>)
    OBVIOUS
  <2>5. x \in Seq((0 .. MaxRuns) \X Slots)
    <3>1. battles[b].taken \in Seq((0 .. MaxRuns) \X Slots)
      BY <1>0 DEF Battled
    <3>2. <<assigned, run.index>> \in (0 .. MaxRuns) \X Slots
      BY <1>1 DEF Records, Typed
    <3> QED
      BY <2>4, <3>1, <3>2
  <2>6. PICK t : t = [battles[b] EXCEPT !.state = "stored", !.won = won, !.taken = x]
    OBVIOUS
  <2>7. t \in Battled /\ t.state = "stored" /\ t.won = won /\ t.taken = x
    BY <1>0, <2>5, <2>6 DEF Battled
  <2>8. battles' = [battles EXCEPT ![b] = t]
    BY <1>0, <1>1, <2>4, <2>6 DEF Store, Battled
  <2>9. battles' \in Seq(Battled) /\ DOMAIN battles' = DOMAIN battles
        /\ \A c \in DOMAIN battles : battles'[c] = IF c = b THEN t ELSE battles[c]
    BY <1>0, <2>7, <2>8 DEF Typed
  <2>10. Typed' /\ Decks'
    <3>1. perfect' \in BOOLEAN
      BY <2>3
    <3> QED
      BY <2>2, <2>9, <3>1 DEF Typed, Decks
  <2> QED
    BY <1>1, <2>2, <2>3, <2>4, <2>7, <2>9, <2>10 DEF Typed
<1>2. CASE ~ Records(b)
  <2>1. PICK t : t = [battles[b] EXCEPT !.state = "stored", !.won = won]
    OBVIOUS
  <2>2. t \in Battled /\ t.state = "stored" /\ t.won = won /\ t.taken = battles[b].taken
    BY <1>0, <2>1 DEF Battled
  <2>3. battles' = [battles EXCEPT ![b] = t] /\ run' = run /\ perfect' = perfect
    BY <1>0, <1>2, <2>1 DEF Store, Battled
  <2>4. battles' \in Seq(Battled) /\ DOMAIN battles' = DOMAIN battles
        /\ \A c \in DOMAIN battles : battles'[c] = IF c = b THEN t ELSE battles[c]
    BY <1>0, <2>2, <2>3 DEF Typed
  <2>5. Typed' /\ Decks'
    BY <2>3, <2>4 DEF Typed, Decks
  <2> QED
    BY <2>2, <2>3, <2>4, <2>5
<1> QED
  BY <1>1, <1>2

----------------------------------------------------------------------------
\* Without orphans a battle's result enters its run once.

Alone == "orphan" \notin Hazards

\* No battle counts for a run without a deck: only a practice battle could, for
\* a roster that a crash has left behind.
DecksOnly == "practice" \notin Hazards \/ "crash" \notin Hazards

\* A battle is open as long as its client is in it; once its result is in the
\* history, the history knows its session.
ReportedOne(b) ==
    /\ battles[b].state \in Open => here = b
    /\ battles[b].state = "on" => battles[b].taken = << >>
    /\ battles[b].state = "stored" => battles[b].taken = << >> \/ Known(b)
    /\ \/ battles[b].taken = << >>
       \/ \E r \in 0 .. assigned, i \in Slots : battles[b].taken = << <<r, i>> >>
Reported == Alone => \A b \in DOMAIN battles : ReportedOne(b)

LEMMA ReportedKept ==
  ASSUME Alone, Reported, RunKept, assigned' = assigned,
         NEW b \in DOMAIN battles, battles'[b].taken = battles[b].taken,
         battles'[b].state \in Open =>
            battles'[b].state = battles[b].state /\ (here = b => here' = b)
  PROVE  ReportedOne(b)'
<1>1. Known(b) => Known(b)'
  BY DEF Known, RunKept, SameFight
<1> QED
  BY <1>1 DEF Reported, ReportedOne, Open

LEMMA FirstTaken ==
  ASSUME NEW r, NEW i, NEW s, s = << >>
  PROVE  Append(s, <<r, i>>) = << <<r, i>> >>
OBVIOUS

\* The step of a battle that is open: its own, and there is no other.
LEMMA StoredOnce ==
  ASSUME Typed, Alone, Reported, NEW b \in DOMAIN battles, battles[b].state \in Open,
         Records(b)
  PROVE  battles[b].taken = << >> /\ here = b
         /\ \A c \in DOMAIN battles \ {b} : battles[c].state \notin Open
BY DEF Reported, ReportedOne, Open, Records

LEMMA ReportedStored ==
  ASSUME Typed, Decks, Reported, NEW b \in DOMAIN battles, battles[b].state \in Open,
         NEW won \in BOOLEAN, Store(b, won),
         UNCHANGED <<roster, payout, request, assigned, here, forfeited>>,
         again' \in 0 .. MaxAgain
  PROVE  Reported'
<1> SUFFICES ASSUME Alone, NEW c \in DOMAIN battles PROVE ReportedOne(c)'
  BY StoreStep DEF Reported, Alone
<1>1. here = b /\ \A d \in DOMAIN battles \ {b} : battles[d].state \notin Open
  BY DEF Reported, ReportedOne
<1>2. CASE c # b
  <2>1. battles'[c] = battles[c] /\ battles[c].state \notin Open
    BY <1>1, <1>2, StoreStep
  <2> QED
    BY <2>1 DEF Reported, ReportedOne, Open
<1>3. CASE c = b /\ run' = run /\ battles'[b].taken = battles[b].taken
  <2>1. battles'[b].state = "stored"
    BY StoreStep
  <2>2. Known(b) => Known(b)'
    BY <1>3 DEF Known
  <2> QED
    BY <1>1, <1>3, <2>1, <2>2 DEF Reported, ReportedOne, Open
<1>4. CASE c = b /\ Records(b) /\ KeepsFights(run'.history, Rewarded(b, won))
           /\ battles'[b].taken = Append(battles[b].taken, <<assigned, run.index>>)
  <2>1. battles[b].taken = << >>
    BY <1>4, StoredOnce
  <2>2. battles'[b].taken = << <<assigned, run.index>> >> /\ run.index \in Slots
    BY <1>4, <2>1, FirstTaken DEF Records
  <2>3. assigned \in 0 .. assigned
    BY DEF Typed
  <2>4. Known(b)'
    <3>1. b \in Nat /\ RowOK(run)
      BY BattlesAreTyped DEF Typed
    <3>2. Rewarded(b, won)[run.index].session = b
      BY <2>2, <3>1, RewardedHistory
    <3>3. run'.history[run.index].session = b
      BY <1>4, <2>2, <3>2 DEF KeepsFights, SameFight
    <3> QED
      BY <2>2, <3>3 DEF Known
  <2>5. battles'[b].state = "stored"
    BY StoreStep
  <2> QED
    BY <1>1, <1>4, <2>2, <2>3, <2>4, <2>5 DEF ReportedOne, Open
<1> QED
  BY <1>2, <1>3, <1>4, StoreStep

\* What the lobby does to the run, it does while no battle is open.
LEMMA ReportedInLobby ==
  ASSUME Typed, Reported, here = 0, UNCHANGED <<battles, here>>,
         assigned' \in {assigned, assigned + 1}
  PROVE  Reported'
<1> SUFFICES ASSUME Alone, NEW b \in DOMAIN battles PROVE ReportedOne(b)'
  BY DEF Reported, Alone
<1>1. battles[b].state \notin Open
  BY BattlesAreTyped DEF Reported, ReportedOne
<1>2. 0 .. assigned \subseteq 0 .. assigned'
  BY DEF Typed
<1>3. \/ battles[b].taken = << >>
      \/ \E r \in 0 .. assigned', i \in Slots : battles[b].taken = << <<r, i>> >>
  BY <1>2 DEF Reported, ReportedOne
<1> QED
  BY <1>1, <1>3 DEF ReportedOne, Open

----------------------------------------------------------------------------
\* Nobody is called perfect without the wins.

Boss1 == TierLength - 1
WonBy(b, r, i) == battles[b].won /\ battles[b].taken = << <<r, i>> >>

\* A win on record is a battle's, and a lost boss is remembered.
WinsWereFought ==
    \A i \in 0 .. Boss1 : run.history[i].result = "WIN" =>
        \E b \in DOMAIN battles : WonBy(b, assigned, i)
LossesCount ==
    run.deck => \A b \in DOMAIN battles :
        battles[b].taken = << <<assigned, Boss1>> >> /\ ~ battles[b].won
            => run.history[Boss1].bossLosses > 0

\* The run that earned the name is over, or past its first tier.
PerfectRun(r) ==
    /\ \A i \in 0 .. Boss1 : \E b \in DOMAIN battles : WonBy(b, r, i)
    /\ \A b \in DOMAIN battles :
          battles[b].taken = << <<r, Boss1>> >> => battles[b].won
    /\ r = assigned /\ run.deck => run.index >= TierLength
NamedRightly == perfect => \E r \in 1 .. assigned : PerfectRun(r)

Earned == Alone /\ DecksOnly => WinsWereFought /\ LossesCount /\ NamedRightly

LEMMA FirstTierSlots ==
  /\ 0 .. Boss1 \subseteq Slots /\ Boss1 \in 0 .. Boss1 /\ IsBoss(Boss1)
  /\ \A j : j \in (Boss1 - TierLength + 1) .. Boss1 <=> j \in 0 .. Boss1
<1>1. TierLength \in Nat \ {0} /\ TierLength <= RunLength
  BY FirstTierFits, ArenaConstants
<1>2. (TierLength - 1 + 1) % TierLength = 0
  BY <1>1
<1> QED
  BY <1>1, <1>2, ArenaConstants DEF Boss1, Slots, IsBoss

\* The stored results stay, and no other battle has one.
SameResults ==
    /\ DOMAIN battles \subseteq DOMAIN battles'
    /\ \A b \in DOMAIN battles : battles[b].taken # << >> =>
          battles'[b].taken = battles[b].taken /\ battles'[b].won = battles[b].won
    /\ \A b \in DOMAIN battles' : battles'[b].taken # << >> =>
          b \in DOMAIN battles /\ battles[b].taken # << >>

LEMMA TakenIsSome ==
  \A r, i, s, j : /\ << <<r, i>> >> # << >>
                  /\ << <<r, i>> >> = << <<s, j>> >> => r = s /\ i = j
OBVIOUS

LEMMA WonStays ==
  ASSUME SameResults, NEW r, NEW i, \E b \in DOMAIN battles : WonBy(b, r, i)
  PROVE  (\E b \in DOMAIN battles : WonBy(b, r, i))'
<1>1. PICK b \in DOMAIN battles : WonBy(b, r, i)
  OBVIOUS
<1>2. b \in DOMAIN battles' /\ WonBy(b, r, i)'
  BY <1>1, TakenIsSome DEF SameResults, WonBy
<1> QED
  BY <1>2

LEMMA RightlyStays ==
  ASSUME SameResults, NamedRightly, perfect' = perfect, Typed,
         assigned' \in {assigned, assigned + 1},
         assigned' = assigned /\ run'.deck =>
            run.deck /\ (run.index >= TierLength => run'.index >= TierLength)
  PROVE  NamedRightly'
<1> SUFFICES ASSUME perfect PROVE \E r \in 1 .. assigned' : PerfectRun(r)'
  BY DEF NamedRightly
<1>1. PICK r \in 1 .. assigned : PerfectRun(r)
  BY DEF NamedRightly
<1>2. r \in 1 .. assigned' /\ r # assigned + 1
  BY <1>1 DEF Typed
<1>3. ASSUME NEW i \in 0 .. Boss1 PROVE (\E b \in DOMAIN battles : WonBy(b, r, i))'
  BY <1>1, WonStays DEF PerfectRun
<1>4. ASSUME NEW b \in DOMAIN battles', battles'[b].taken = << <<r, Boss1>> >>
      PROVE  battles'[b].won
  <2>1. b \in DOMAIN battles /\ battles[b].taken = << <<r, Boss1>> >>
        /\ battles'[b].won = battles[b].won
    BY <1>4, TakenIsSome DEF SameResults
  <2> QED
    BY <1>1, <2>1 DEF PerfectRun
<1>5. r = assigned' /\ run'.deck => run'.index >= TierLength
  BY <1>1, <1>2 DEF PerfectRun
<1>6. PerfectRun(r)'
  BY <1>3, <1>4, <1>5 DEF PerfectRun, Boss1
<1> QED
  BY <1>2, <1>6

LEMMA EarnedKept ==
  ASSUME Earned, SameResults, Typed, perfect' = perfect, assigned' = assigned,
         run'.deck = run.deck, run.index >= TierLength => run'.index >= TierLength,
         \A j \in Slots : /\ run'.history[j].result # "WIN" \/ run.history[j].result = "WIN"
                          /\ run'.history[j].bossLosses = run.history[j].bossLosses
  PROVE  Earned'
<1> SUFFICES ASSUME Alone, DecksOnly
             PROVE  (WinsWereFought /\ LossesCount /\ NamedRightly)'
  BY DEF Earned, Alone, DecksOnly
<1>1. WinsWereFought /\ LossesCount /\ NamedRightly
  BY DEF Earned
<1>2. NamedRightly'
  BY <1>1, RightlyStays
<1>3. WinsWereFought'
  <2> SUFFICES ASSUME NEW i \in 0 .. Boss1, run'.history[i].result = "WIN"
               PROVE  (\E b \in DOMAIN battles : WonBy(b, assigned, i))'
    BY DEF WinsWereFought, Boss1
  <2>1. \E b \in DOMAIN battles : WonBy(b, assigned, i)
    BY <1>1, FirstTierSlots DEF WinsWereFought
  <2>2. PICK r : r = assigned
    OBVIOUS
  <2>3. (\E b \in DOMAIN battles : WonBy(b, r, i))'
    BY <2>1, <2>2, WonStays
  <2> QED
    BY <2>2, <2>3 DEF WonBy
<1>4. LossesCount'
  <2> SUFFICES ASSUME run'.deck, NEW b \in DOMAIN battles',
                      battles'[b].taken = << <<assigned', Boss1>> >>, ~ battles'[b].won
               PROVE  run'.history[Boss1].bossLosses > 0
    BY DEF LossesCount, Boss1
  <2>1. b \in DOMAIN battles /\ battles[b].taken = << <<assigned, Boss1>> >> /\ ~ battles[b].won
    BY TakenIsSome DEF SameResults
  <2> QED
    BY <1>1, <2>1, FirstTierSlots DEF LossesCount
<1> QED
  BY <1>2, <1>3, <1>4

LEMMA EarnedFresh ==
  ASSUME Earned, Reported, Typed, UNCHANGED <<perfect, battles>>,
         run'.history = [i \in Slots |-> Unfought],
         \/ run'.deck /\ assigned' = assigned + 1
         \/ ~ run'.deck /\ assigned' = assigned
  PROVE  Earned'
<1> SUFFICES ASSUME Alone, DecksOnly
             PROVE  (WinsWereFought /\ LossesCount /\ NamedRightly)'
  BY DEF Earned, Alone, DecksOnly
<1>1. NamedRightly'
  <2>1. SameResults
    BY DEF SameResults
  <2>2. assigned' \in {assigned, assigned + 1} /\ ~ (assigned' = assigned /\ run'.deck)
    BY DEF Typed
  <2>3. NamedRightly /\ perfect' = perfect
    BY DEF Earned
  <2> QED
    BY <2>1, <2>2, <2>3, RightlyStays
<1>2. WinsWereFought'
  BY FirstTierSlots, UnfoughtFight DEF WinsWereFought, Boss1
<1>3. LossesCount'
  <2> SUFFICES ASSUME run'.deck, NEW b \in DOMAIN battles,
                      battles[b].taken = << <<assigned', Boss1>> >>
               PROVE  FALSE
    BY DEF LossesCount, Boss1
  <2>1. assigned' = assigned + 1 /\ assigned' \notin 0 .. assigned
    BY DEF Typed
  <2>2. PICK r \in 0 .. assigned, i \in Slots : battles[b].taken = << <<r, i>> >>
    BY TakenIsSome DEF Reported, ReportedOne
  <2>3. r = assigned'
    BY <2>2, TakenIsSome
  <2> QED
    BY <2>1, <2>2, <2>3
<1> QED
  BY <1>1, <1>2, <1>3

LEMMA EarnedStored ==
  ASSUME Typed, Decks, Reported, Earned, NEW b \in DOMAIN battles, battles[b].state \in Open,
         NEW won \in BOOLEAN, Store(b, won), battles[b].taken # << >> => won = battles[b].won,
         UNCHANGED <<roster, payout, request, assigned, here, forfeited>>,
         again' \in 0 .. MaxAgain
  PROVE  Earned'
<1> SUFFICES ASSUME Alone, DecksOnly PROVE Earned'
  BY DEF Earned, Alone, DecksOnly
<1>1. CASE run' = run /\ perfect' = perfect /\ battles'[b].taken = battles[b].taken
  <2>1. SameResults
    BY <1>1, StoreStep DEF SameResults
  <2> QED
    BY <1>1, <2>1, EarnedKept
<1>2. CASE /\ Records(b) /\ RowOK(run) /\ run'.index = NextIndex(won)
           /\ run'.deck = run.deck
           /\ KeepsFights(run'.history, Rewarded(b, won))
           /\ perfect' = (perfect \/ (/\ won /\ run.index = TierLength - 1
                                      /\ Perfected(run'.history, run.index)))
           /\ battles'[b].taken = Append(battles[b].taken, <<assigned, run.index>>)
  <2> DEFINE h == run.history
             g == run'.history
  <2>1. PICK i \in Slots : i = run.index
    BY <1>2 DEF Records
  <2>2. PICK a \in Nat : a = assigned /\ assigned' = a
    BY DEF Typed
  <2>3. run.deck /\ a > 0
    <3>1. here = b /\ b # 0
      BY BattlesAreTyped DEF Reported, ReportedOne
    <3> QED
      BY <1>2, <2>2, <3>1 DEF Records, Decks, DecksOnly
  <2>4. battles[b].taken = << >> /\ battles'[b].taken = << <<a, i>> >>
        /\ battles'[b].won = won
    BY <1>2, <2>1, <2>2, StoredOnce, FirstTaken, StoreStep
  <2>5. DOMAIN battles' = DOMAIN battles
        /\ \A c \in DOMAIN battles \ {b} : battles'[c] = battles[c]
    BY StoreStep
  <2>6. /\ \A j \in Slots \ {i} : g[j].result = h[j].result /\ g[j].bossLosses = h[j].bossLosses
        /\ g[i].result = (IF won THEN "WIN" ELSE "LOSE")
        /\ g[i].bossLosses = h[i].bossLosses + (IF Repeats(won) THEN 1 ELSE 0)
        /\ h[i].bossLosses \in Nat
    <3>1. b \in Nat
      BY BattlesAreTyped
    <3>2. h \in Histories /\ h[i].bossLosses \in Nat
      BY <1>2 DEF RowOK, Runs, Histories, Fights
    <3> QED
      BY <1>2, <2>1, <3>1, <3>2, RewardedHistory DEF KeepsFights, SameFight
  <2> HIDE DEF g, h
  <2>7. ASSUME NEW r, NEW j, \E c \in DOMAIN battles : WonBy(c, r, j)
        PROVE  (\E c \in DOMAIN battles : WonBy(c, r, j))'
    <3>1. PICK c \in DOMAIN battles : WonBy(c, r, j)
      BY <2>7
    <3>2. c # b
      BY <2>4, <3>1, TakenIsSome DEF WonBy
    <3> QED
      BY <2>5, <3>1, <3>2 DEF WonBy
  <2>8. WinsWereFought'
    <3> SUFFICES ASSUME NEW j \in 0 .. Boss1, g[j].result = "WIN"
                 PROVE  (\E c \in DOMAIN battles : WonBy(c, a, j))'
      BY <2>2 DEF WinsWereFought, Boss1, WonBy, g
    <3>1. CASE j = i
      <4>1. won
        BY <2>6, <3>1
      <4>2. WonBy(b, a, j)'
        BY <2>4, <3>1, <4>1 DEF WonBy
      <4> QED
        BY <2>5, <4>2
    <3>2. CASE j # i
      <4>1. h[j].result = "WIN"
        BY <2>6, <3>2, FirstTierSlots
      <4> QED
        BY <2>2, <2>7, <4>1 DEF Earned, WinsWereFought, h
    <3> QED
      BY <3>1, <3>2
  <2>9. LossesCount'
    <3> SUFFICES ASSUME NEW c \in DOMAIN battles,
                        battles'[c].taken = << <<a, Boss1>> >>, ~ battles'[c].won
                 PROVE  g[Boss1].bossLosses > 0
      BY <2>2, <2>5 DEF LossesCount, Boss1, g
    <3>1. CASE c = b
      <4>1. i = Boss1 /\ ~ won
        BY <2>4, <3>1, TakenIsSome
      <4>2. Repeats(won)
        BY <2>1, <4>1, FirstTierSlots DEF Repeats
      <4> QED
        BY <2>6, <4>1, <4>2
    <3>2. CASE c # b
      <4>1. h[Boss1].bossLosses > 0
        BY <2>2, <2>3, <2>5, <3>2 DEF Earned, LossesCount, h
      <4>2. CASE i = Boss1
        BY <2>6, <4>1, <4>2
      <4>3. CASE i # Boss1
        BY <2>6, <4>1, <4>3, FirstTierSlots
      <4> QED
        BY <4>2, <4>3
    <3> QED
      BY <3>1, <3>2
  <2>10. ASSUME perfect PROVE NamedRightly'
    <3>1. PICK r \in 1 .. a : PerfectRun(r)
      BY <2>2, <2>10 DEF Earned, NamedRightly
    <3>2. r = a => i >= TierLength
      BY <2>1, <2>2, <2>3, <3>1 DEF PerfectRun
    <3>3. \A j \in 0 .. Boss1 : (\E c \in DOMAIN battles : WonBy(c, r, j))'
      BY <2>7, <3>1 DEF PerfectRun
    <3>4. ASSUME NEW c \in DOMAIN battles', battles'[c].taken = << <<r, Boss1>> >>
          PROVE  battles'[c].won
      <4>1. c # b
        <5> SUFFICES ASSUME c = b PROVE FALSE
          OBVIOUS
        <5>1. r = a /\ i = Boss1
          BY <2>4, <3>4, TakenIsSome
        <5> QED
          BY <3>2, <5>1, FirstTierFits DEF Boss1
      <4> QED
        BY <2>5, <3>1, <3>4, <4>1 DEF PerfectRun
    <3>5. r = a => run'.index >= TierLength
      BY <1>2, <2>1, <3>2, SlotsAreNumbers, FirstTierFits DEF NextIndex
    <3>6. PerfectRun(r)'
      BY <2>2, <3>3, <3>4, <3>5 DEF PerfectRun, Boss1
    <3> QED
      BY <2>2, <3>1, <3>6 DEF NamedRightly
  <2>11. ASSUME ~ perfect, perfect' PROVE NamedRightly'
    <3>1. won /\ i = Boss1 /\ \A j \in 0 .. Boss1 : g[j].result = "WIN" /\ g[j].bossLosses = 0
      BY <1>2, <2>1, <2>11, FirstTierSlots DEF Perfected, Boss1, g
    <3>2. \A j \in 0 .. Boss1 : (\E c \in DOMAIN battles : WonBy(c, a, j))'
      BY <2>2, <2>8, <3>1 DEF WinsWereFought, Boss1, g, WonBy
    <3>3. ASSUME NEW c \in DOMAIN battles', battles'[c].taken = << <<a, Boss1>> >>
          PROVE  battles'[c].won
      <4> SUFFICES ASSUME ~ battles'[c].won PROVE FALSE
        OBVIOUS
      <4>1. g[Boss1].bossLosses > 0
        BY <1>2, <2>2, <2>3, <2>9, <3>3 DEF LossesCount, Boss1, g
      <4> QED
        BY <3>1, <4>1, FirstTierSlots
    <3>4. run'.index >= TierLength
      <4>1. ~ Repeats(won)
        BY <3>1 DEF Repeats
      <4> QED
        BY <1>2, <2>1, <3>1, <4>1, FirstTierFits DEF NextIndex, Boss1
    <3>5. PerfectRun(a)'
      BY <2>2, <3>2, <3>3, <3>4 DEF PerfectRun, Boss1
    <3> QED
      BY <2>2, <2>3, <3>5 DEF NamedRightly
  <2> QED
    BY <2>8, <2>9, <2>10, <2>11 DEF Earned, NamedRightly
<1> QED
  BY <1>1, <1>2, StoreStep

----------------------------------------------------------------------------
\* The invariant, and what it gives.

ArenaInv == Typed /\ Decks /\ Reported /\ Earned

LEMMA LobbyKeeps ==
  ASSUME ArenaInv, Look \/ AssignRoll \/ AcceptPrompt \/ AssignRoster \/ ClearRoster
  PROVE  ArenaInv'
<1>1. RunKept /\ Typed' /\ Decks'
  BY LookStep, AssignRollStep, AcceptPromptStep, AssignRosterStep,
     ClearRosterStep DEF ArenaInv
<1>2. UNCHANGED <<battles, here, assigned, perfect>>
  BY DEF Look, AssignRoll, AcceptPrompt, AssignRoster, ClearRoster, account,
              session
<1>3. Reported'
  <2> SUFFICES ASSUME Alone, NEW b \in DOMAIN battles PROVE ReportedOne(b)'
    BY <1>2 DEF Reported, Alone
  <2> QED
    BY <1>1, <1>2, ReportedKept DEF ArenaInv
<1>4. Earned'
  <2>1. SameResults
    BY <1>2 DEF SameResults
  <2>2. \A j \in Slots : /\ run'.history[j].result # "WIN" \/ run.history[j].result = "WIN"
                         /\ run'.history[j].bossLosses = run.history[j].bossLosses
    BY <1>1 DEF RunKept, SameFight
  <2> QED
    BY <1>1, <1>2, <2>1, <2>2, EarnedKept DEF ArenaInv, RunKept
<1> QED
  BY <1>1, <1>3, <1>4 DEF ArenaInv

LEMMA ResetKeeps ==
  ASSUME ArenaInv, AssignDeck \/ CashOut \/ DestroyArena
  PROVE  ArenaInv'
<1>1. /\ Typed' /\ Decks' /\ here = 0 /\ UNCHANGED <<perfect, battles, here, again>>
      /\ run'.history = [i \in Slots |-> Unfought] /\ run'.index = 0
      /\ \/ run'.deck /\ assigned' = assigned + 1
         \/ ~ run'.deck /\ assigned' = assigned
  BY FreshStep DEF ArenaInv
<1>2. Reported'
  BY <1>1, ReportedInLobby DEF ArenaInv
<1>3. Earned'
  BY <1>1, EarnedFresh DEF ArenaInv
<1> QED
  BY <1>1, <1>2, <1>3 DEF ArenaInv

LEMMA BuyoutKeeps ==
  ASSUME ArenaInv, Buyout
  PROVE  ArenaInv'
<1>1. /\ Typed' /\ Decks' /\ here = 0 /\ run'.deck = run.deck /\ run'.index = TierLength
      /\ UNCHANGED <<perfect, battles, here, again, assigned>>
      /\ \A j \in Slots : /\ run'.history[j].result # "WIN" \/ run.history[j].result = "WIN"
                          /\ run'.history[j].bossLosses = run.history[j].bossLosses
  BY BuyoutStep DEF ArenaInv
<1>2. Reported'
  BY <1>1, ReportedInLobby DEF ArenaInv
<1>3. SameResults /\ run'.index >= TierLength
  BY <1>1, FirstTierFits DEF SameResults
<1>4. Earned'
  BY <1>1, <1>3, EarnedKept DEF ArenaInv
<1> QED
  BY <1>1, <1>2, <1>4 DEF ArenaInv

LEMMA BeginKeeps ==
  ASSUME ArenaInv, Fight \/ Practice
  PROVE  ArenaInv'
<1>1. /\ RunKept /\ Typed' /\ Decks' /\ here = 0
      /\ assigned' = assigned /\ perfect' = perfect
      /\ DOMAIN battles \subseteq DOMAIN battles'
      /\ \A b \in DOMAIN battles : battles'[b] = battles[b]
      /\ \A b \in DOMAIN battles' \ DOMAIN battles :
            b = here' /\ battles'[b].state = "on" /\ battles'[b].taken = << >>
  BY BeginStep DEF ArenaInv
<1>2. Reported'
  <2> SUFFICES ASSUME Alone, NEW b \in DOMAIN battles' PROVE ReportedOne(b)'
    BY DEF Reported, Alone
  <2>1. CASE b \in DOMAIN battles
    <3>1. battles[b].state \notin Open
      BY <1>1, <2>1, BattlesAreTyped DEF ArenaInv, Reported, ReportedOne
    <3> QED
      BY <1>1, <2>1, <3>1, ReportedKept DEF ArenaInv
  <2>2. CASE b \notin DOMAIN battles
    BY <1>1, <2>2 DEF ReportedOne
  <2> QED
    BY <2>1, <2>2
<1>3. Earned'
  <2>1. SameResults
    BY <1>1 DEF SameResults
  <2>2. \A j \in Slots : /\ run'.history[j].result # "WIN" \/ run.history[j].result = "WIN"
                         /\ run'.history[j].bossLosses = run.history[j].bossLosses
    BY <1>1 DEF RunKept, SameFight
  <2> QED
    BY <1>1, <2>1, <2>2, EarnedKept DEF ArenaInv, RunKept
<1> QED
  BY <1>1, <1>2, <1>3 DEF ArenaInv

LEMMA StatusKeeps ==
  ASSUME ArenaInv,
         \/ \E b \in DOMAIN battles : Publish(b) \/ RecordFails(b) \/ DeckOut(b)
         \/ Disconnect \/ Crash
  PROVE  ArenaInv'
<1>1. /\ run' = run /\ Typed' /\ Decks' /\ assigned' = assigned /\ perfect' = perfect
      /\ DOMAIN battles' = DOMAIN battles
      /\ \A b \in DOMAIN battles :
            /\ battles'[b].taken = battles[b].taken /\ battles'[b].won = battles[b].won
            /\ battles'[b].state \in Open =>
                  /\ battles'[b].state = battles[b].state
                  /\ "orphan" \notin Hazards /\ here = b => here' = b
  BY StatusStep DEF ArenaInv
<1>2. RunKept
  BY <1>1, RunIsKept DEF ArenaInv, Typed
<1>3. Reported'
  <2> SUFFICES ASSUME Alone, NEW b \in DOMAIN battles PROVE ReportedOne(b)'
    BY <1>1 DEF Reported, Alone
  <2> QED
    BY <1>1, <1>2, ReportedKept DEF ArenaInv, Alone
<1>4. Earned'
  <2>1. SameResults
    BY <1>1 DEF SameResults
  <2> QED
    BY <1>1, <2>1, EarnedKept DEF ArenaInv
<1> QED
  BY <1>1, <1>3, <1>4 DEF ArenaInv

LEMMA FinishKeeps ==
  ASSUME ArenaInv, NEW b \in DOMAIN battles,
         (\E won \in BOOLEAN : Finish(b, won)) \/ FinishAgain(b)
  PROVE  ArenaInv'
<1>1. PICK won \in BOOLEAN : Finish(b, won) \/ (FinishAgain(b) /\ won = battles[b].won)
  BY BattlesAreTyped DEF ArenaInv, Battled
<1>2. /\ battles[b].state \in Open /\ Store(b, won)
      /\ UNCHANGED <<roster, payout, request, assigned, here, forfeited>>
      /\ again' \in 0 .. MaxAgain
  BY <1>1, ArenaConstants DEF Finish, FinishAgain, Open, ArenaInv, Typed
<1>3. Alone => (battles[b].taken # << >> => won = battles[b].won)
  BY <1>1 DEF ArenaInv, Reported, ReportedOne, Finish, FinishAgain
<1>4. Typed' /\ Decks'
  BY <1>2, StoreStep DEF ArenaInv
<1>5. Reported'
  BY <1>2, ReportedStored DEF ArenaInv
<1>6. Earned'
  <2>1. CASE Alone
    BY <1>2, <1>3, <2>1, EarnedStored DEF ArenaInv
  <2>2. CASE ~ Alone
    BY <2>2 DEF Earned, Alone
  <2> QED
    BY <2>1, <2>2
<1> QED
  BY <1>4, <1>5, <1>6 DEF ArenaInv

LEMMA ArenaBegins == Init => ArenaInv
<1> SUFFICES ASSUME Init PROVE ArenaInv
  OBVIOUS
<1>1. run = Fresh(FALSE) /\ RowOK(run) /\ ~ run.deck
  BY FreshRow DEF Init, Fresh
<1>2. battles \in Seq(Battled) /\ DOMAIN battles = {}
  BY DEF Init
<1>3. Typed
  <2>1. 0 \in 0 .. MaxRuns /\ 0 \in 0 .. MaxBattles /\ 0 \in 0 .. MaxAgain
    BY ArenaConstants
  <2>2. /\ roster = 0 /\ payout = 0 /\ perfect = FALSE /\ request = "none"
        /\ assigned = 0 /\ here = 0 /\ forfeited = 0 /\ again = 0
    BY DEF Init
  <2> QED
    BY <1>1, <1>2, <2>1, <2>2 DEF Typed
<1>4. Decks
  BY <1>1 DEF Init, Decks
<1>5. Reported
  BY <1>2 DEF Reported
<1>6. WinsWereFought /\ LossesCount /\ NamedRightly
  <2>1. \A i \in Slots : run.history[i].result = "NONE"
    BY <1>1, UnfoughtFight DEF Fresh
  <2>2. ~ perfect
    BY DEF Init
  <2> QED
    BY <1>1, <2>1, <2>2, FirstTierSlots DEF WinsWereFought, LossesCount, NamedRightly
<1> QED
  BY <1>3, <1>4, <1>5, <1>6 DEF ArenaInv, Earned

LEMMA ArenaStep ==
  ASSUME ArenaInv, [Next]_vars
  PROVE  ArenaInv'
<1>1. CASE Lobby
  BY <1>1, LobbyKeeps, ResetKeeps, BuyoutKeeps DEF Lobby
<1>2. CASE Battle
  BY <1>2, BeginKeeps, StatusKeeps, FinishKeeps DEF Battle
<1>3. CASE Crash
  BY <1>3, StatusKeeps
<1>4. CASE UNCHANGED vars
  BY <1>4 DEF vars, ArenaInv, Typed, Decks, Reported, ReportedOne, Known, Alone, DecksOnly,
              Earned, WinsWereFought, LossesCount, NamedRightly, PerfectRun, WonBy, Boss1
<1> QED
  BY <1>1, <1>2, <1>3, <1>4 DEF Next

LEMMA ArenaAlways == Spec => []ArenaInv
  BY ArenaBegins, ArenaStep, PTL DEF Spec

----------------------------------------------------------------------------
\* The sums of a run.

SacksOf(h) == [i \in Slots |-> IF h[i].result = "WIN" THEN TierOf(i) ELSE 0]
StrikesIn(h) == [i \in Slots |-> StrikesOf(h[i])]

TotalsOK(r) ==
    /\ \A i \in Slots : r.history[i].reward # "none" => r.history[i].result = "WIN"
    /\ r.sacks = SumFunction(SacksOf(r.history))
    /\ r.losses = SumFunction(StrikesIn(r.history))

LEMMA TotalsAreNumbers ==
  ASSUME NEW h \in Histories
  PROVE  SacksOf(h) \in [Slots -> Int] /\ StrikesIn(h) \in [Slots -> Int]
<1>1. \A i \in Slots : h[i] \in Fights
  BY DEF Histories
<1>2. \A i \in Slots : StrikesOf(h[i]) \in Int
  BY <1>1 DEF Fights, StrikesOf
<1> QED
  BY <1>2, TiersArePositive DEF SacksOf, StrikesIn

LEMMA SameTotals ==
  ASSUME NEW h, NEW g, \A i \in Slots : SameFight(g[i], h[i])
  PROVE  SacksOf(g) = SacksOf(h) /\ StrikesIn(g) = StrikesIn(h)
<1>1. \A i \in Slots : StrikesOf(g[i]) = StrikesOf(h[i]) /\ g[i].result = h[i].result
  BY DEF SameFight, StrikesOf
<1> QED
  BY <1>1 DEF SacksOf, StrikesIn

LEMMA TotalsKept ==
  ASSUME TotalsOK(run), RunKept
  PROVE  TotalsOK(run)'
<1>1. \A i \in Slots : SameFight(run'.history[i], run.history[i])
  BY DEF RunKept
<1>2. /\ SacksOf(run'.history) = SacksOf(run.history)
      /\ StrikesIn(run'.history) = StrikesIn(run.history)
  BY <1>1, SameTotals
<1>3. \A i \in Slots : /\ run'.history[i].reward = run.history[i].reward
                        /\ run'.history[i].result = run.history[i].result
  BY <1>1 DEF SameFight
<1> QED
  BY <1>2, <1>3 DEF TotalsOK, RunKept

LEMMA FreshTotals ==
  ASSUME NEW deck
  PROVE  TotalsOK(Fresh(deck))
<1> DEFINE h == [i \in Slots |-> Unfought]
<1>1. Fresh(deck).history = h /\ Fresh(deck).sacks = 0 /\ Fresh(deck).losses = 0
  BY DEF Fresh
<1>2. SacksOf(h) = [i \in Slots |-> 0] /\ StrikesIn(h) = [i \in Slots |-> 0]
  <2>1. StrikesOf(Unfought) = 0
    BY UnfoughtFight DEF StrikesOf
  <2> QED
    BY <2>1, UnfoughtFight DEF SacksOf, StrikesIn
<1>3. SumFunction([i \in Slots |-> 0]) = 0
  <2>1. SumFunction([i \in Slots |-> 0]) = 0 * Cardinality(Slots)
    BY SumOfEqual, SlotsAreNumbers
  <2>2. Cardinality(Slots) \in Nat
    BY FS_CardinalityType, SlotsAreNumbers
  <2> QED
    BY <2>1, <2>2
<1>4. \A i \in Slots : h[i].reward = "none"
  BY UnfoughtFight
<1> QED
  BY <1>1, <1>2, <1>3, <1>4 DEF TotalsOK

LEMMA BoughtTotals ==
  ASSUME RowOK(run), TotalsOK(run), Buyout
  PROVE  TotalsOK(run)' /\ run'.sacks = run.sacks
<1> DEFINE h == run.history
           g == [i \in Slots |-> IF i < TierLength THEN Skipped(h[i]) ELSE h[i]]
<1>1. PICK rolled \in BOOLEAN : run' =
         [run EXCEPT !.index = TierLength,
                     !.history = Prepare(
                        [i \in Slots |-> IF i < TierLength THEN Skipped(@[i])
                                         ELSE @[i]], TierLength, rolled)]
  BY DEF Buyout
<1>2. run \in Runs /\ h \in Histories /\ \A i \in Slots : h[i] \in Fights
  BY DEF RowOK, Runs, Histories
<1>3. /\ run'.history = Prepare(g, TierLength, rolled)
      /\ run'.sacks = run.sacks /\ run'.losses = run.losses
  BY <1>1, <1>2 DEF Runs
<1>4. \A i \in Slots : h[i].result # "WIN"
  <2>1. Cardinality(WonOf(h)) = 0 /\ IsFiniteSet(WonOf(h))
    BY SlotsAreNumbers, FS_Subset DEF Buyout, RowOK, CountedIn, WonOf
  <2>2. WonOf(h) = {}
    BY <2>1, FS_EmptySet
  <2> QED
    BY <2>2 DEF WonOf
<1>5. \A i \in Slots : h[i].reward = "none"
  BY <1>2, <1>4 DEF TotalsOK
<1>6. \A i \in Slots : h[i].result = "LOSE" => h[i].bossLosses # 0
  <2>1. run.index = 0
    BY DEF Buyout
  <2>2. \A i \in Slots : i = 0 \/ i > 0
    BY SlotsAreNumbers
  <2> QED
    BY <1>2, <2>1, <2>2 DEF RowOK, InOrder, Fights
<1>7. g \in Histories /\ \A i \in Slots :
         /\ g[i].bossLosses = h[i].bossLosses /\ g[i].reward = "none"
         /\ g[i].result \in {h[i].result, "SKIP"}
  BY <1>2, <1>5, SkippedFight DEF Histories
<1> HIDE DEF g, h
<1>8. SacksOf(g) = SacksOf(h) /\ StrikesIn(g) = StrikesIn(h)
  <2>1. \A i \in Slots : StrikesOf(g[i]) = StrikesOf(h[i])
    BY <1>5, <1>6, <1>7 DEF StrikesOf
  <2> QED
    BY <1>4, <1>7, <2>1 DEF SacksOf, StrikesIn
<1>9. PICK f : f = Prepare(g, TierLength, rolled)
  OBVIOUS
<1>10. \A i \in Slots : SameFight(f[i], g[i])
  BY <1>7, <1>9, PreparedHistory DEF KeepsFights
<1>11. SacksOf(f) = SacksOf(g) /\ StrikesIn(f) = StrikesIn(g)
  BY <1>10, SameTotals
<1>12. \A i \in Slots : f[i].reward = "none"
  BY <1>7, <1>10 DEF SameFight
<1> QED
  BY <1>3, <1>8, <1>9, <1>11, <1>12 DEF TotalsOK, h

LEMMA RecordedCounters ==
  ASSUME run \in Runs, NEW b, NEW won \in BOOLEAN, NEW rolled \in BOOLEAN
  PROVE  /\ Recorded(b, won, rolled).sacks
               = run.sacks + (IF won THEN TierOf(run.index) ELSE 0)
         /\ Recorded(b, won, rolled).losses
               = run.losses + (IF won THEN 0 ELSE 1)
                     - (IF RewardFor(b, won) = "strike" THEN 1 ELSE 0)
  BY DEF Recorded, RewardFor, Runs

\* One slot counts for the result that was recorded in it, and for the strike
\* its reward takes back.
LEMMA RecordedTotals ==
  ASSUME RowOK(run), TotalsOK(run), NEW b \in Nat, Records(b), NEW won \in BOOLEAN,
         NEW rolled \in BOOLEAN
  PROVE  TotalsOK(Recorded(b, won, rolled))
<1> DEFINE h == run.history
           g == Rewarded(b, won)
           c == RewardFor(b, won)
           q == Recorded(b, won, rolled)
<1>0. run \in Runs /\ h \in Histories /\ h = run.history /\ \A j \in Slots : h[j] \in Fights
  BY DEF RowOK, Runs, Histories
<1>1. PICK i \in Slots : i = run.index
  BY DEF Records
<1>2. /\ g \in Histories
      /\ \A j \in Slots \ {i} :
            /\ g[j].result = h[j].result /\ g[j].bossLosses = h[j].bossLosses
            /\ g[j].reward = h[j].reward
      /\ g[i].result = (IF won THEN "WIN" ELSE "LOSE") /\ g[i].reward = c
      /\ g[i].bossLosses = IF Repeats(won) THEN h[i].bossLosses + 1 ELSE h[i].bossLosses
  BY <1>1, RewardedHistory
<1>3. KeepsFights(q.history, g)
  BY RecordedRow
<1>4. /\ q.sacks = run.sacks + (IF won THEN TierOf(i) ELSE 0)
      /\ q.losses = run.losses + (IF won THEN 0 ELSE 1) - (IF c = "strike" THEN 1 ELSE 0)
  BY <1>0, <1>1, RecordedCounters
<1>5. c # "none" => won
  BY RewardIsOne
<1>6. /\ h[i].result = (IF h[i].bossLosses > 0 THEN "LOSE" ELSE "NONE")
      /\ h[i].bossLosses > 0 => IsBoss(i)
      /\ h[i].bossLosses \in Nat /\ h[i].reward = "none"
  <2>1. h[i].result = (IF h[i].bossLosses > 0 THEN "LOSE" ELSE "NONE")
    BY <1>0, <1>1 DEF RowOK, InOrder
  <2>2. h[i].bossLosses \in Nat /\ h[i].reward \in {"none", "strike", "gift"}
    BY <1>0 DEF Fights
  <2> QED
    BY <1>1, <2>1, <2>2 DEF Records, TotalsOK
<1> HIDE DEF h, g, c, q
<1>7. StrikesOf(g[i]) = StrikesOf(h[i]) + (IF won THEN 0 ELSE 1) - (IF c = "strike" THEN 1 ELSE 0)
  BY <1>1, <1>2, <1>5, <1>6 DEF StrikesOf, Repeats
<1>8. \A j \in Slots \ {i} : StrikesOf(g[j]) = StrikesOf(h[j])
  BY <1>2 DEF StrikesOf
<1>9. /\ SacksOf(h) \in [Slots -> Int] /\ StrikesIn(h) \in [Slots -> Int]
      /\ SacksOf(g) \in [Slots -> Int] /\ StrikesIn(g) \in [Slots -> Int]
  BY <1>0, <1>2, TotalsAreNumbers
<1>10. SumFunction(StrikesIn(g)) = SumFunction(StrikesIn(h)) + (StrikesOf(g[i]) - StrikesOf(h[i]))
  <2>1. \A j \in Slots \ {i} : StrikesIn(g)[j] = StrikesIn(h)[j]
    BY <1>8 DEF StrikesIn
  <2>2. SumFunction(StrikesIn(g)) = SumFunction(StrikesIn(h)) + (StrikesIn(g)[i] - StrikesIn(h)[i])
    BY <1>9, <2>1, SlotsAreNumbers, SumOfChange
  <2> QED
    BY <2>2 DEF StrikesIn
<1>11. SumFunction(SacksOf(g)) = SumFunction(SacksOf(h)) + (IF won THEN TierOf(i) ELSE 0)
  <2>1. \A j \in Slots \ {i} : SacksOf(g)[j] = SacksOf(h)[j]
    BY <1>2 DEF SacksOf
  <2>2. SumFunction(SacksOf(g)) = SumFunction(SacksOf(h)) + (SacksOf(g)[i] - SacksOf(h)[i])
    BY <1>9, <2>1, SlotsAreNumbers, SumOfChange
  <2>3. SacksOf(h)[i] = 0 /\ SacksOf(g)[i] = IF won THEN TierOf(i) ELSE 0
    BY <1>2, <1>6 DEF SacksOf
  <2>4. SumFunction(SacksOf(h)) \in Int
    BY <1>9, SlotsAreNumbers, SumIsNumber
  <2>5. TierOf(i) \in Int
    BY TiersArePositive
  <2> QED
    BY <2>2, <2>3, <2>4, <2>5
<1>12. run.sacks = SumFunction(SacksOf(h)) /\ run.losses = SumFunction(StrikesIn(h))
  BY <1>0 DEF TotalsOK
<1>13. \A j \in Slots : SameFight(q.history[j], g[j])
  BY <1>3 DEF KeepsFights
<1>14. SacksOf(q.history) = SacksOf(g) /\ StrikesIn(q.history) = StrikesIn(g)
  BY <1>13, SameTotals
<1>15. q.sacks = SumFunction(SacksOf(q.history))
  BY <1>4, <1>11, <1>12, <1>14
<1>16. q.losses = SumFunction(StrikesIn(q.history))
  <2>1. StrikesOf(h[i]) \in Int /\ SumFunction(StrikesIn(h)) \in Int
    <3>1. StrikesOf(h[i]) \in Int
      BY <1>6 DEF StrikesOf
    <3> QED
      BY <1>9, <3>1, SlotsAreNumbers, SumIsNumber
  <2> QED
    BY <1>4, <1>7, <1>10, <1>12, <1>14, <2>1
<1>17. \A j \in Slots : q.history[j].reward # "none" => q.history[j].result = "WIN"
  <2>1. \A j \in Slots : h[j].reward # "none" => h[j].result = "WIN"
    BY <1>0 DEF TotalsOK
  <2>2. \A j \in Slots : g[j].reward # "none" => g[j].result = "WIN"
    BY <1>2, <1>5, <2>1
  <2> QED
    BY <1>13, <2>2 DEF SameFight
<1>18. TotalsOK(q)
  BY <1>15, <1>16, <1>17 DEF TotalsOK
<1> QED
  BY <1>18 DEF q

LEMMA StoredTotals ==
  ASSUME RowOK(run), TotalsOK(run), NEW b \in Nat, NEW won \in BOOLEAN, Store(b, won)
  PROVE  /\ TotalsOK(run)'
         /\ IF Records(b) THEN run'.sacks = run.sacks + (IF won THEN TierOf(run.index) ELSE 0)
            ELSE run' = run
<1>1. CASE Records(b)
  <2>1. PICK rolled \in BOOLEAN : run' = Recorded(b, won, rolled)
    BY <1>1 DEF Store
  <2>2. run'.sacks = run.sacks + (IF won THEN TierOf(run.index) ELSE 0)
    BY <2>1, RecordedCounters DEF RowOK
  <2>3. TotalsOK(Recorded(b, won, rolled))
    BY <1>1, RecordedTotals
  <2>4. TotalsOK(run')
    BY <2>1, <2>3
  <2> QED
    BY <1>1, <2>2, <2>4 DEF TotalsOK
<1>2. CASE ~ Records(b)
  BY <1>2 DEF Store, TotalsOK
<1> QED
  BY <1>1, <1>2

LEMMA TotalsStep ==
  ASSUME ArenaInv, TotalsOK(run), [Next]_vars
  PROVE  TotalsOK(run)'
<1>1. CASE Look \/ AssignRoll \/ AcceptPrompt \/ AssignRoster \/ ClearRoster
  <2>1. RunKept
    BY <1>1, LookStep, AssignRollStep, AcceptPromptStep, AssignRosterStep,
     ClearRosterStep DEF ArenaInv
  <2> QED
    BY <2>1, TotalsKept
<1>2. CASE AssignDeck \/ CashOut \/ DestroyArena
  <2>1. PICK deck : run' = Fresh(deck)
    BY <1>2 DEF AssignDeck, CashOut, DestroyArena
  <2>2. TotalsOK(Fresh(deck))
    BY FreshTotals
  <2> QED
    BY <2>1, <2>2 DEF TotalsOK
<1>3. CASE Buyout
  BY <1>3, BoughtTotals DEF ArenaInv, Typed
<1>4. CASE Fight \/ Practice
  <2>1. RunKept
    BY <1>4, BeginStep DEF ArenaInv
  <2> QED
    BY <2>1, TotalsKept
<1>5. CASE \E b \in DOMAIN battles : (\E won \in BOOLEAN : Finish(b, won)) \/ FinishAgain(b)
  <2>1. PICK b \in DOMAIN battles : (\E won \in BOOLEAN : Finish(b, won)) \/ FinishAgain(b)
    BY <1>5
  <2>2. b \in Nat /\ RowOK(run) /\ battles[b].won \in BOOLEAN
    BY <2>1, BattlesAreTyped DEF ArenaInv, Typed, Battled
  <2>3. PICK won \in BOOLEAN : Store(b, won)
    BY <2>1, <2>2 DEF Finish, FinishAgain
  <2> QED
    BY <2>2, <2>3, StoredTotals
<1>6. CASE UNCHANGED run
  BY <1>6 DEF TotalsOK
<1>7. CASE (\E b \in DOMAIN battles : Publish(b) \/ RecordFails(b) \/ DeckOut(b))
           \/ Disconnect \/ Crash \/ UNCHANGED vars
  BY <1>6, <1>7 DEF Publish, RecordFails, DeckOut, Disconnect, Crash, vars
<1> QED
  BY <1>1, <1>2, <1>3, <1>4, <1>5, <1>7 DEF Next, Lobby, Battle

----------------------------------------------------------------------------
\* The sacks a battle earned are somewhere.

EarnedOf(x) == IF x.won /\ x.taken # << >> THEN TierOf(x.taken[1][2]) ELSE 0
EarnedIn == [b \in DOMAIN battles |-> EarnedOf(battles[b])]
Kept == payout + run.sacks + forfeited

LEMMA EarnedIsNumber ==
  ASSUME NEW x \in Battled
  PROVE  EarnedOf(x) \in Int
<1>1. x.taken \in Seq((0 .. MaxRuns) \X Slots)
  BY DEF Battled
<1>2. x.taken # << >> => x.taken[1][2] \in Slots
  <2>1. ASSUME NEW t \in Seq((0 .. MaxRuns) \X Slots), t # << >>
        PROVE  t[1] \in (0 .. MaxRuns) \X Slots
    BY <2>1
  <2> QED
    BY <1>1, <2>1
<1> QED
  BY <1>2, TiersArePositive DEF EarnedOf

LEMMA EarnedAreNumbers ==
  ASSUME Typed
  PROVE  /\ IsFiniteSet(DOMAIN battles) /\ EarnedIn \in [DOMAIN battles -> Int]
         /\ \A b \in DOMAIN battles : EarnedOf(battles[b]) \in Int
         /\ SumFunction(EarnedIn) \in Int /\ Kept \in Int
<1>1. IsFiniteSet(DOMAIN battles)
  BY BattlesAreTyped, FS_Interval
<1>2. \A b \in DOMAIN battles : EarnedOf(battles[b]) \in Int
  BY BattlesAreTyped, EarnedIsNumber
<1>3. EarnedIn \in [DOMAIN battles -> Int]
  BY <1>2 DEF EarnedIn
<1>4. SumFunction(EarnedIn) \in Int
  BY <1>1, <1>3, SumIsNumber
<1>5. Kept \in Int
  BY DEF Kept, Typed, RowOK, Runs
<1> QED
  BY <1>1, <1>2, <1>3, <1>4, <1>5

\* Nothing is won and nothing is lost.
LEMMA SacksStay ==
  ASSUME SacksAreKept, DOMAIN battles' = DOMAIN battles, Kept' = Kept,
         \A b \in DOMAIN battles : /\ battles'[b].won = battles[b].won
                                   /\ battles'[b].taken = battles[b].taken
  PROVE  SacksAreKept'
<1>1. EarnedIn' = EarnedIn
  BY DEF EarnedIn, EarnedOf
<1>2. SacksAreKept <=> Kept = SumFunction(EarnedIn)
  BY DEF SacksAreKept, Kept, EarnedIn, EarnedOf
<1>3. SacksAreKept' <=> Kept' = SumFunction(EarnedIn')
  BY DEF SacksAreKept, Kept, EarnedIn, EarnedOf
<1> QED
  BY <1>1, <1>2, <1>3

LEMMA SacksOfBegun ==
  ASSUME ArenaInv, SacksAreKept, Fight \/ Practice
  PROVE  SacksAreKept'
<1>1. PICK kind : Begin(kind)
  BY DEF Fight, Practice
<1> DEFINE n == [kind |-> kind, state |-> "on", won |-> FALSE,
                 at |-> run.index, of |-> assigned, taken |-> << >>]
           y == Len(battles) + 1
           S == DOMAIN battles
<1>2. battles' = Append(battles, n) /\ UNCHANGED <<payout, forfeited>>
  BY <1>1 DEF Begin, account
<1>3. n.won = FALSE
  OBVIOUS
<1> HIDE DEF n
<1>4. /\ S = 1 .. Len(battles) /\ Len(battles) \in Nat
      /\ IsFiniteSet(S) /\ EarnedIn \in [S -> Int] /\ SumFunction(EarnedIn) \in Int
  BY BattlesAreTyped, EarnedAreNumbers DEF ArenaInv
<1>5. /\ DOMAIN battles' = S \cup {y} /\ y \notin S /\ battles'[y] = n
      /\ \A b \in S : battles'[b] = battles[b]
  BY <1>2, <1>4 DEF ArenaInv, Typed
<1>6. Typed' /\ run'.sacks = run.sacks
  BY BeginStep DEF ArenaInv, RunKept
<1>7. EarnedIn' \in [S \cup {y} -> Int] /\ EarnedIn'[y] = 0
      /\ \A b \in S : EarnedIn'[b] = EarnedIn[b]
  <2>1. \A b \in DOMAIN battles' : EarnedOf(battles'[b]) \in Int
    <3>1. \A b \in DOMAIN battles' : battles'[b] \in Battled
      BY <1>6 DEF Typed
    <3> QED
      BY <3>1, EarnedIsNumber
  <2>2. EarnedIn' \in [DOMAIN battles' -> Int]
    BY <2>1 DEF EarnedIn
  <2>3. EarnedIn'[y] = 0 /\ \A b \in S : EarnedIn'[b] = EarnedIn[b]
    BY <1>3, <1>5 DEF EarnedIn, EarnedOf
  <2> QED
    BY <1>5, <2>2, <2>3
<1>8. PICK v, w : v = EarnedIn' /\ w = EarnedIn
  OBVIOUS
<1>9. SumFunction(v) = SumFunction(w) + v[y]
  <2>1. w \in [S -> Int] /\ v \in [S \cup {y} -> Int] /\ \A b \in S : v[b] = w[b]
    BY <1>4, <1>7, <1>8
  <2>2. IsFiniteSet(S) /\ y \notin S
    BY <1>4, <1>5
  <2> HIDE DEF S, y
  <2> QED
    BY <2>1, <2>2, SumOfMore
<1>10. SumFunction(EarnedIn') = SumFunction(EarnedIn)
  BY <1>4, <1>7, <1>8, <1>9
<1>11. Kept' = Kept
  BY <1>2, <1>6 DEF Kept
<1>12. SacksAreKept <=> Kept = SumFunction(EarnedIn)
  BY DEF SacksAreKept, Kept, EarnedIn, EarnedOf
<1>13. SacksAreKept' <=> Kept' = SumFunction(EarnedIn')
  BY DEF SacksAreKept, Kept, EarnedIn, EarnedOf
<1> QED
  BY <1>10, <1>11, <1>12, <1>13

\* A result brings its sacks once.
LEMMA SacksOfStored ==
  ASSUME Alone, ArenaInv, TotalsOK(run), SacksAreKept, NEW b \in DOMAIN battles,
         (\E won \in BOOLEAN : Finish(b, won)) \/ FinishAgain(b)
  PROVE  SacksAreKept'
<1>1. PICK won \in BOOLEAN : Finish(b, won) \/ (FinishAgain(b) /\ won = battles[b].won)
  BY BattlesAreTyped DEF ArenaInv, Battled
<1>2. /\ battles[b].state \in Open /\ Store(b, won)
      /\ UNCHANGED <<roster, payout, request, assigned, here, forfeited>>
      /\ again' \in 0 .. MaxAgain
  BY <1>1, ArenaConstants DEF Finish, FinishAgain, Open, ArenaInv, Typed
<1>3. battles[b].taken # << >> => won = battles[b].won
  BY <1>1 DEF ArenaInv, Reported, ReportedOne, Finish, FinishAgain
<1>4. /\ Typed' /\ DOMAIN battles' = DOMAIN battles
      /\ \A c \in DOMAIN battles \ {b} : battles'[c] = battles[c]
      /\ battles'[b].won = won
  BY <1>2, StoreStep DEF ArenaInv
<1>5. b \in Nat /\ RowOK(run) /\ run.sacks \in Nat /\ payout \in Nat /\ forfeited \in Nat
  BY BattlesAreTyped DEF ArenaInv, Typed, RowOK, Runs
<1>6. IF Records(b) THEN run'.sacks = run.sacks + (IF won THEN TierOf(run.index) ELSE 0)
      ELSE run' = run
  BY <1>2, <1>5, StoredTotals
<1>7. Kept' = Kept + (EarnedOf(battles'[b]) - EarnedOf(battles[b]))
  <2>1. CASE Records(b)
    <3>1. battles[b].taken = << >> /\ run.index \in Slots
      BY <1>2, <2>1, StoredOnce DEF ArenaInv, Records
    <3>2. battles'[b].taken = Append(battles[b].taken, <<assigned, run.index>>)
      <4>1. PICK x : x = Append(battles[b].taken, <<assigned, run.index>>)
        OBVIOUS
      <4>2. battles[b] \in Battled /\ battles \in Seq(Battled)
        BY BattlesAreTyped DEF ArenaInv, Typed
      <4>3. PICK t : t = [battles[b] EXCEPT !.state = "stored", !.won = won, !.taken = x]
        OBVIOUS
      <4>4. t.taken = x
        BY <4>2, <4>3 DEF Battled
      <4>5. battles' = [battles EXCEPT ![b] = t]
        BY <1>2, <2>1, <4>1, <4>2, <4>3 DEF Store, Battled
      <4> QED
        BY <4>1, <4>2, <4>4, <4>5
    <3>3. battles'[b].taken = << <<assigned, run.index>> >>
      BY <3>1, <3>2, FirstTaken
    <3>4. EarnedOf(battles[b]) = 0 /\ EarnedOf(battles'[b]) = IF won THEN TierOf(run.index) ELSE 0
      BY <1>4, <3>1, <3>3 DEF EarnedOf
    <3>5. TierOf(run.index) \in Nat
      BY <3>1, TiersArePositive
    <3> QED
      BY <1>2, <1>5, <1>6, <2>1, <3>4, <3>5 DEF Kept
  <2>2. CASE ~ Records(b)
    <3>1. battles'[b].taken = battles[b].taken
      BY <1>2, <2>2, BattlesAreTyped DEF Store, ArenaInv, Battled
    <3>2. EarnedOf(battles'[b]) = EarnedOf(battles[b])
      BY <1>3, <1>4, <3>1 DEF EarnedOf
    <3>3. EarnedOf(battles[b]) \in Int /\ Kept \in Int
      BY EarnedAreNumbers DEF ArenaInv
    <3>4. Kept' = Kept
      BY <1>2, <1>6, <2>2 DEF Kept
    <3> QED
      BY <3>2, <3>3, <3>4
  <2> QED
    BY <2>1, <2>2
<1>8. SumFunction(EarnedIn') = SumFunction(EarnedIn) + (EarnedOf(battles'[b]) - EarnedOf(battles[b]))
  <2>1. /\ IsFiniteSet(DOMAIN battles) /\ EarnedIn \in [DOMAIN battles -> Int]
    BY EarnedAreNumbers DEF ArenaInv
  <2>2. \A c \in DOMAIN battles' : EarnedOf(battles'[c]) \in Int
    <3>1. \A c \in DOMAIN battles' : battles'[c] \in Battled
      BY <1>4 DEF Typed
    <3> QED
      BY <3>1, EarnedIsNumber
  <2>3. PICK v : v = EarnedIn'
    OBVIOUS
  <2>4. v \in [DOMAIN battles -> Int] /\ \A c \in DOMAIN battles : v[c] = EarnedOf(battles'[c])
    BY <1>4, <2>2, <2>3 DEF EarnedIn
  <2>5. \A c \in DOMAIN battles \ {b} : v[c] = EarnedIn[c]
    BY <1>4, <2>4 DEF EarnedIn, EarnedOf
  <2>6. SumFunction(v) = SumFunction(EarnedIn) + (v[b] - EarnedIn[b])
    BY <2>1, <2>4, <2>5, SumOfChange
  <2> QED
    BY <2>3, <2>4, <2>6 DEF EarnedIn
<1>9. SacksAreKept <=> Kept = SumFunction(EarnedIn)
  BY DEF SacksAreKept, Kept, EarnedIn, EarnedOf
<1>10. SacksAreKept' <=> Kept' = SumFunction(EarnedIn')
  BY DEF SacksAreKept, Kept, EarnedIn, EarnedOf
<1> QED
  BY <1>7, <1>8, <1>9, <1>10

LEMMA SacksStep ==
  ASSUME Alone, ArenaInv, TotalsOK(run), SacksAreKept, [Next]_vars
  PROVE  SacksAreKept'
<1>0. run.sacks \in Nat /\ payout \in Nat /\ forfeited \in Nat
  BY DEF ArenaInv, Typed, RowOK, Runs
<1>1. CASE Look \/ AssignRoll \/ AcceptPrompt \/ AssignRoster \/ ClearRoster
  <2>1. run'.sacks = run.sacks
    BY <1>1, LookStep, AssignRollStep, AcceptPromptStep, AssignRosterStep,
     ClearRosterStep DEF ArenaInv, RunKept
  <2>2. UNCHANGED <<payout, forfeited, battles>>
    BY <1>1 DEF Look, AssignRoll, AcceptPrompt, AssignRoster, ClearRoster, account,
              session
  <2> QED
    BY <2>1, <2>2, SacksStay DEF Kept
<1>2. CASE AssignDeck \/ CashOut \/ DestroyArena
  <2>1. run'.sacks = 0 /\ battles' = battles
    BY <1>2 DEF AssignDeck, CashOut, DestroyArena, Fresh, session
  <2>2. \/ payout' = payout /\ forfeited' = forfeited + run.sacks
        \/ payout' = payout + run.sacks /\ forfeited' = forfeited
    BY <1>2 DEF AssignDeck, CashOut, DestroyArena, account
  <2>3. Kept' = Kept
    BY <1>0, <2>1, <2>2 DEF Kept
  <2> QED
    BY <2>1, <2>3, SacksStay
<1>3. CASE Buyout
  <2>1. run'.sacks = run.sacks
    BY <1>3, BoughtTotals DEF ArenaInv, Typed
  <2>2. UNCHANGED <<payout, forfeited, battles>>
    BY <1>3 DEF Buyout, account, session
  <2> QED
    BY <2>1, <2>2, SacksStay DEF Kept
<1>4. CASE Fight \/ Practice
  BY <1>4, SacksOfBegun
<1>5. CASE \E b \in DOMAIN battles : (\E won \in BOOLEAN : Finish(b, won)) \/ FinishAgain(b)
  BY <1>5, SacksOfStored
<1>6. CASE (\E b \in DOMAIN battles : Publish(b) \/ RecordFails(b) \/ DeckOut(b))
           \/ Disconnect \/ Crash
  <2>1. UNCHANGED <<run, payout, forfeited>>
    BY <1>6 DEF Publish, RecordFails, DeckOut, Disconnect, Crash, account
  <2>2. /\ DOMAIN battles' = DOMAIN battles
        /\ \A b \in DOMAIN battles :
              battles'[b].taken = battles[b].taken /\ battles'[b].won = battles[b].won
    BY <1>6, StatusStep DEF ArenaInv
  <2> QED
    BY <2>1, <2>2, SacksStay DEF Kept
<1>7. CASE UNCHANGED vars
  BY <1>7, SacksStay DEF vars, Kept
<1> QED
  BY <1>1, <1>2, <1>3, <1>4, <1>5, <1>6, <1>7 DEF Next, Lobby, Battle

\* Every record of an arena run has its type.
THEOREM ArenaTypes == Spec => []TypeOK
<1>1. ArenaInv => TypeOK
  BY DEF ArenaInv, Typed, RowOK, Runs, Histories, Fights, Battled, TypeOK
<1> QED
  BY <1>1, ArenaAlways, PTL

\* The history of a run is in the order of its index: what lies behind is
\* settled, a boss by a win, and what lies ahead is untouched
\* (_db_record_arena_fight, pve_db.py:619-745).
THEOREM HistoryKeepsOrder == Spec => []HistoryInOrder
<1>1. ArenaInv => HistoryInOrder
  BY DEF ArenaInv, Typed, RowOK, InOrder, HistoryInOrder
<1> QED
  BY <1>1, ArenaAlways, PTL

\* The wins and the chests of the row are those of the history, however often
\* results are repeated, whatever client or server goes away.
THEOREM WinsAreOnRecord == Spec => []WinsAreSlots
<1>1. ArenaInv => WinsAreSlots
  <2> SUFFICES ASSUME ArenaInv PROVE WinsAreSlots
    OBVIOUS
  <2>1. SlotsWith(Won) = WonOf(run.history)
    BY DEF SlotsWith, Won, WonOf
  <2> QED
    BY <2>1 DEF ArenaInv, Typed, RowOK, CountedIn, BossesOf, WinsAreSlots
<1> QED
  BY <1>1, ArenaAlways, PTL

\* What an elite's win pins to the boss of its tier is there for the first
\* attempt only, and an acceptance is the shown prompt's.
THEOREM GiftsAndAnswersFit == Spec => [](GiftsAreSpent /\ AnswerFitsPrompt)
<1>1. ArenaInv => GiftsAreSpent /\ AnswerFitsPrompt
  BY DEF ArenaInv, Typed, RowOK, Pinned, AsksRight, GiftsAreSpent, AnswerFitsPrompt
<1> QED
  BY <1>1, ArenaAlways, PTL

\* A battle's result enters one run once, however often its end is reported,
\* also through deaths of the server, unless a handler plays on without its
\* client (campaign.py:6578, pve_db.py:626-631).
THEOREM ResultsEnterOnce ==
  ASSUME Alone
  PROVE  Spec => []RecordedOnce
<1>1. ArenaInv => RecordedOnce
  <2> SUFFICES ASSUME ArenaInv, NEW b \in DOMAIN battles PROVE Len(battles[b].taken) <= 1
    BY DEF RecordedOnce
  <2>1. battles[b].taken = << >>
        \/ \E r \in 0 .. assigned, i \in Slots : battles[b].taken = << <<r, i>> >>
    BY DEF ArenaInv, Reported, ReportedOne
  <2> QED
    BY <2>1
<1> QED
  BY <1>1, ArenaAlways, PTL

\* And the account is called perfect for one run whose first tier was won,
\* its boss at the first attempt (pve_db.py:568-578), unless practice battles
\* count for a run whose destruction a crash cut short.
THEOREM PerfectWasEarned ==
  ASSUME Alone, DecksOnly
  PROVE  Spec => []PerfectIsEarned
<1>1. ArenaInv => PerfectIsEarned
  <2> SUFFICES ASSUME ArenaInv, perfect
               PROVE  \E r \in 1 .. MaxRuns :
                         /\ \A i \in 0 .. TierLength - 1 :
                               \E b \in DOMAIN battles :
                                   battles[b].won /\ battles[b].taken = << <<r, i>> >>
                         /\ \A b \in DOMAIN battles :
                               battles[b].taken = << <<r, TierLength - 1>> >> => battles[b].won
    BY DEF PerfectIsEarned
  <2>1. PICK r \in 1 .. assigned : PerfectRun(r)
    BY DEF ArenaInv, Earned, NamedRightly
  <2>2. r \in 1 .. MaxRuns
    BY ArenaConstants DEF ArenaInv, Typed
  <2> QED
    BY <2>1, <2>2 DEF PerfectRun, WonBy, Boss1
<1> QED
  BY <1>1, ArenaAlways, PTL

\* All five counters of the row are those of the history: besides, the sacks
\* are the tiers won, and the losses the strikes of the slots less those a
\* reward took back (_db_record_arena_fight, pve_db.py:619-745), whatever goes
\* wrong on the way.
THEOREM CountersAgree == Spec => []CountsAgree
<1>1. Init => TotalsOK(run)
  BY FreshTotals DEF Init
<1>2. Spec => []TotalsOK(run)
  BY <1>1, ArenaAlways, TotalsStep, PTL DEF Spec
<1>3. ArenaInv /\ TotalsOK(run) => run.sacks = SumFunction(SacksOf(run.history))
                                   /\ run.losses = SumFunction(StrikesIn(run.history))
  BY DEF TotalsOK
<1>4. HistoryInOrder /\ WinsAreSlots /\ ArenaInv /\ TotalsOK(run) => CountsAgree
  BY <1>3 DEF CountsAgree, SacksOf, StrikesIn, Won
<1> QED
  BY <1>2, <1>4, ArenaAlways, HistoryKeepsOrder, WinsAreOnRecord, PTL

\* No sack is lost and none is paid twice: what was won is in the run, in the
\* account or given up by a reset, also when a claim is repeated or the server
\* dies, unless a handler plays on without its client.
THEOREM SacksStayKept ==
  ASSUME Alone
  PROVE  Spec => []SacksAreKept
<1>1. Init => TotalsOK(run) /\ SacksAreKept
  <2> SUFFICES ASSUME Init PROVE TotalsOK(run) /\ SacksAreKept
    OBVIOUS
  <2>1. TotalsOK(run)
    BY FreshTotals DEF Init
  <2>2. Kept = 0
    BY DEF Init, Kept, Fresh
  <2>3. EarnedIn = [b \in {} |-> 0]
    BY DEF Init, EarnedIn
  <2>4. SumFunction([b \in {} |-> 0]) = 0 * Cardinality({})
    BY SumOfEqual, FS_EmptySet
  <2>5. Cardinality({}) = 0
    BY FS_EmptySet
  <2>6. SumFunction(EarnedIn) = 0
    BY <2>3, <2>4, <2>5
  <2> QED
    BY <2>1, <2>2, <2>6 DEF SacksAreKept, Kept, EarnedIn, EarnedOf
<1>2. ArenaInv /\ TotalsOK(run) /\ SacksAreKept /\ [Next]_vars => (TotalsOK(run) /\ SacksAreKept)'
  BY TotalsStep, SacksStep
<1> QED
  BY <1>1, <1>2, ArenaAlways, PTL DEF Spec

==============================================================================
