------------------------------- MODULE Wallet -------------------------------
(***************************************************************************)
(* Money (services/store.py, services/mail.py, the currency columns of the  *)
(* users table): purchases, redeem codes, the money a mail carries and the  *)
(* rewards of play.  A request is one transaction, then an answer.  When    *)
(* its handler raises, before or after the commit, the router runs the     *)
(* older code of the same request, statement by statement, on the balance  *)
(* the connection remembers.  One currency is modelled; the code treats    *)
(* the other in the same way.                                              *)
(***************************************************************************)
EXTENDS Integers, FiniteSets, Functions

CONSTANTS
    Users, Conns,
    UserOf,         \* the account each connection logs in to
    Codes, Worth,   \* redeem codes and the gold each is worth
    MaxUses,        \* how many redemptions each code allows
    Mails, MailTo,  \* mails with gold, and the account each is delivered to
    MailGold,
    Price,          \* of the item in the store
    Quantities,     \* a client may ask for, any integers
    Start,          \* the balance of a new account
    MaxWins,        \* bound on the rewards of play
    MaxFaults       \* bound on the statements that raise and peers that vanish

ASSUME WalletAssumption ==
    /\ UserOf \in [Conns -> Users]
    /\ Worth \in [Codes -> Nat] /\ MaxUses \in [Codes -> Nat]
    /\ MailTo \in [Mails -> Users] /\ MailGold \in [Mails -> Nat]
    /\ Quantities \subseteq Int
    /\ {Price, Start, MaxWins, MaxFaults} \subseteq Nat

VARIABLES
    gold, goods,    \* user -> balance, items bought (tables users, inventory)
    uses,           \* code -> redemptions so far (table redeem_codes)
    mail,           \* mail -> "new", "claimed", "deleted" (table emails)
    line,           \* connection -> "off", "up", "gone" (the peer vanished)
    cached,         \* connection -> user_profile["gold"] of its handler
    req,            \* connection -> the request its thread is handling, and
                    \*   how many uses of a code it has made
    paid,           \* mail -> times its gold was credited
    wins, faults    \* rewards of play, faults so far

tables == <<gold, goods, uses, mail>>
bounds == <<wins, faults>>
walletVars == <<tables, line, cached, req, paid, bounds>>

Quiet == [op |-> "none", arg |-> 0, at |-> "idle", done |-> FALSE, drawn |-> 0]

Requests ==
    {[op |-> "buy", arg |-> q] : q \in Quantities}
        \cup {[op |-> "redeem", arg |-> k] : k \in Codes}
        \cup {[op |-> "claim", arg |-> m] : m \in Mails}
        \cup {[op |-> "delete", arg |-> 0]}

Stages == {"idle", "begun", "answer", "push", "raised",
           "count", "credit", "pay", "mark", "late"}

WalletTypeOK ==
    /\ gold \in [Users -> Int] /\ goods \in [Users -> Nat]
    /\ uses \in [Codes -> Nat]
    /\ mail \in [Mails -> {"new", "claimed", "deleted"}]
    /\ line \in [Conns -> {"off", "up", "gone"}]
    /\ cached \in [Conns -> Int]
    /\ \A c \in Conns :
        /\ req[c].at \in Stages
        /\ req[c] # Quiet => [op |-> req[c].op, arg |-> req[c].arg] \in Requests
    /\ paid \in [Mails -> Nat]
    /\ wins \in 0..MaxWins /\ faults \in 0..MaxFaults

WalletInit ==
    /\ gold = [u \in Users |-> Start]
    /\ goods = [u \in Users |-> 0]
    /\ uses = [k \in Codes |-> 0]
    /\ mail = [m \in Mails |-> "new"]
    /\ line = [c \in Conns |-> "off"]
    /\ cached = [c \in Conns |-> 0]
    /\ req = [c \in Conns |-> Quiet]
    /\ paid = [m \in Mails |-> 0]
    /\ wins = 0 /\ faults = 0

At(c, op, at) == req[c].op = op /\ req[c].at = at
Move(c, at) == req' = [req EXCEPT ![c].at = at]
Commit(c, done) == req' = [req EXCEPT ![c].at = "answer", ![c].done = done]
End(c) == req' = [req EXCEPT ![c] = Quiet]
Fault == faults < MaxFaults /\ faults' = faults + 1 /\ wins' = wins

-----------------------------------------------------------------------------
(* Connections.                                                            *)

\* auth:req: the profile is read once, and kept by the handler.
Login(c) ==
    /\ line[c] = "off"
    /\ line' = [line EXCEPT ![c] = "up"]
    /\ cached' = [cached EXCEPT ![c] = gold[UserOf[c]]]
    /\ UNCHANGED <<tables, req, paid, bounds>>

PeerGone(c) ==
    /\ line[c] = "up"
    /\ Fault
    /\ line' = [line EXCEPT ![c] = "gone"]
    /\ UNCHANGED <<tables, cached, req, paid>>

\* The client leaves, or its thread finds that it has.
Leave(c) ==
    /\ line[c] # "off" /\ req[c] = Quiet
    /\ line' = [line EXCEPT ![c] = "off"]
    /\ cached' = [cached EXCEPT ![c] = 0]
    /\ UNCHANGED <<tables, req, paid, bounds>>

\* A request is taken up; the thread serves no other until it is answered.
Ask(c) ==
    /\ line[c] = "up" /\ req[c] = Quiet
    /\ \E r \in Requests :
        req' = [req EXCEPT ![c] =
                    [op |-> r.op, arg |-> r.arg, at |-> "begun",
                     done |-> FALSE, drawn |-> 0]]
    /\ UNCHANGED <<tables, line, cached, paid, bounds>>

-----------------------------------------------------------------------------
(* The transactions (db.transaction: BEGIN IMMEDIATE ... commit), and what   *)
(* the handler does with their value before it answers.                     *)

Orderable(q) == q > 0

\* The balance a purchase is charged to is read in its transaction.
Balance(c) == gold[UserOf[c]]

OnCredit(c, q) == Orderable(q)
Affordable(c, q) == Orderable(q) /\ Price * q <= Balance(c)

\* apply_purchase, handle_purchase
Purchase(c) ==
    LET u == UserOf[c]
        q == req[c].arg
        ok == Affordable(c, q)
        remaining == IF ok THEN Balance(c) - Price * q ELSE Balance(c) IN
    /\ At(c, "buy", "begun")
    /\ gold' = IF ok THEN [gold EXCEPT ![u] = remaining] ELSE gold
    /\ goods' = [goods EXCEPT ![u] = IF ok THEN @ + q ELSE @]
    /\ cached' = [cached EXCEPT ![c] = remaining]
    /\ Commit(c, ok)
    /\ UNCHANGED <<uses, mail, line, paid, bounds>>

OneTooMany(k) == uses[k] <= MaxUses[k]
UsesLeft(k) == uses[k] < MaxUses[k]

NotRemembered(c, sum) == cached
Remembered(c, sum) == [cached EXCEPT ![c] = @ + sum]

\* apply_redeem, handle_redeem
Redeem(c) ==
    LET u == UserOf[c]
        k == req[c].arg IN
    /\ At(c, "redeem", "begun")
    /\ IF UsesLeft(k)
       THEN /\ uses' = [uses EXCEPT ![k] = @ + 1]
            /\ gold' = [gold EXCEPT ![u] = @ + Worth[k]]
            /\ cached' = Remembered(c, Worth[k])
       ELSE UNCHANGED <<uses, gold, cached>>
    /\ req' = [req EXCEPT ![c].at = "answer", ![c].drawn = IF UsesLeft(k) THEN 1 ELSE 0]
    /\ UNCHANGED <<goods, mail, line, paid, bounds>>

ByAnyone(c, m) == mail[m] = "new"
Claimable(c, m) == MailTo[m] = UserOf[c] /\ mail[m] = "new"

\* db_claim_mail_for_user in ClaimMailCommand, handle_delete (60003)
Claim(c) ==
    LET u == UserOf[c]
        m == req[c].arg IN
    /\ At(c, "claim", "begun")
    /\ IF Claimable(c, m)
       THEN /\ mail' = [mail EXCEPT ![m] = "claimed"]
            /\ paid' = [paid EXCEPT ![m] = @ + 1]
            /\ gold' = [gold EXCEPT ![u] = @ + MailGold[m]]
            /\ cached' = Remembered(c, MailGold[m])
       ELSE UNCHANGED <<mail, paid, gold, cached>>
    /\ Commit(c, Claimable(c, m))
    /\ UNCHANGED <<goods, uses, line, bounds>>

OwnMail(c) == {m \in Mails : MailTo[m] = UserOf[c]}

\* handle_claim (60006): all the mail of the account goes, claimed or not.
\* The older code does the same in one statement.
Delete(c) ==
    /\ At(c, "delete", "begun") \/ At(c, "delete", "raised")
    /\ mail' = [m \in Mails |-> IF m \in OwnMail(c) THEN "deleted" ELSE mail[m]]
    /\ IF req[c].at = "begun" THEN Commit(c, TRUE) ELSE Move(c, "late")
    /\ UNCHANGED <<gold, goods, uses, line, cached, paid, bounds>>

-----------------------------------------------------------------------------
(* Answers, and what a handler that raises leads to.                        *)

\* The answer is sent; a purchase pushes the new items after it.
Answer(c) ==
    /\ req[c].at = "answer"
    /\ IF req[c].op = "buy" /\ req[c].done THEN Move(c, "push") ELSE End(c)
    /\ UNCHANGED <<tables, line, cached, paid, bounds>>

Pushed(c) ==
    /\ req[c].at = "push"
    /\ End(c)
    /\ UNCHANGED <<tables, line, cached, paid, bounds>>

\* The transaction raises (the database stays locked) and is rolled back.
Rollback(c) ==
    /\ req[c].at = "begun"
    /\ Fault
    /\ Move(c, "raised")
    /\ UNCHANGED <<tables, line, cached, paid>>

\* The answer, or a push, cannot be sent.
SendFails(c) ==
    /\ req[c].at \in {"answer", "push"} /\ line[c] = "gone"
    /\ Move(c, "raised")
    /\ UNCHANGED <<tables, line, cached, paid, bounds>>

\* What is to be pushed cannot be read.
PushFails(c) ==
    /\ req[c].at = "push"
    /\ Fault
    /\ Move(c, "raised")
    /\ UNCHANGED <<tables, line, cached, paid>>

\* A purchase that raised is answered as failed, and never tried again.
SendPurchaseFailure(c) ==
    /\ At(c, "buy", "raised")
    /\ End(c)
    /\ UNCHANGED <<tables, line, cached, paid, bounds>>

\* A redemption that raised goes on with the older code: the code is read...
LegacyRedeem(c) ==
    /\ At(c, "redeem", "raised")
    /\ Move(c, IF UsesLeft(req[c].arg) THEN "count" ELSE "late")
    /\ UNCHANGED <<tables, line, cached, paid, bounds>>

\* ... its use is counted ...
LegacyCount(c) ==
    /\ At(c, "redeem", "count")
    /\ uses' = [uses EXCEPT ![req[c].arg] = @ + 1]
    /\ req' = [req EXCEPT ![c].at = "credit", ![c].drawn = @ + 1]
    /\ UNCHANGED <<gold, goods, mail, line, cached, paid, bounds>>

\* ... and the balance is overwritten with the remembered one and the sum.
LegacyCredit(c) ==
    LET sum == cached[c] + Worth[req[c].arg] IN
    /\ At(c, "redeem", "credit")
    /\ gold' = [gold EXCEPT ![UserOf[c]] = sum]
    /\ cached' = [cached EXCEPT ![c] = sum]
    /\ Move(c, "late")
    /\ UNCHANGED <<goods, uses, mail, line, paid, bounds>>

\* A claim that raised goes on with the same helper, outside a transaction.
LegacyClaim(c) ==
    /\ At(c, "claim", "raised")
    /\ Move(c, IF Claimable(c, req[c].arg) THEN "pay" ELSE "late")
    /\ UNCHANGED <<tables, line, cached, paid, bounds>>

LegacyPay(c) ==
    LET m == req[c].arg IN
    /\ At(c, "claim", "pay")
    /\ gold' = [gold EXCEPT ![UserOf[c]] = @ + MailGold[m]]
    /\ paid' = [paid EXCEPT ![m] = @ + 1]
    /\ Move(c, "mark")
    /\ UNCHANGED <<goods, uses, mail, line, cached, bounds>>

\* The row is marked if it is still there.
LegacyMark(c) ==
    LET m == req[c].arg IN
    /\ At(c, "claim", "mark")
    /\ mail' = [mail EXCEPT ![m] = IF @ = "deleted" THEN @ ELSE "claimed"]
    /\ cached' = [cached EXCEPT ![c] = @ + MailGold[m]]
    /\ Move(c, "late")
    /\ UNCHANGED <<gold, goods, uses, line, paid, bounds>>

\* The older code answers too; an exception here ends the connection.
LegacyAnswer(c) ==
    /\ req[c].at = "late"
    /\ End(c)
    /\ UNCHANGED <<tables, line, cached, paid, bounds>>

-----------------------------------------------------------------------------
(* Rewards of play.                                                        *)

WinGold(c) ==
    /\ line[c] = "up" /\ req[c] = Quiet
    /\ wins < MaxWins
    /\ wins' = wins + 1 /\ faults' = faults
    /\ gold' = [gold EXCEPT ![UserOf[c]] = @ + 1]

\* The campaign credits the account and tells the client the new balance; the
\* handler's profile keeps the old one.
CampaignReward(c) ==
    /\ WinGold(c)
    /\ UNCHANGED <<goods, uses, mail, line, cached, req, paid>>

\* The cash-out of an arena run copies the new balance to the profile.
ArenaCashOut(c) ==
    /\ WinGold(c)
    /\ cached' = [cached EXCEPT ![c] = gold'[UserOf[c]]]
    /\ UNCHANGED <<goods, uses, mail, line, req, paid>>

-----------------------------------------------------------------------------
Older(c) ==
    \/ SendPurchaseFailure(c)
    \/ LegacyRedeem(c) \/ LegacyCount(c) \/ LegacyCredit(c)
    \/ LegacyClaim(c) \/ LegacyPay(c) \/ LegacyMark(c) \/ LegacyAnswer(c)

WalletNext == \E c \in Conns :
    \/ Login(c) \/ PeerGone(c) \/ Leave(c) \/ Ask(c)
    \/ Purchase(c) \/ Redeem(c) \/ Claim(c) \/ Delete(c)
    \/ Answer(c) \/ Pushed(c)
    \/ Rollback(c) \/ SendFails(c) \/ PushFails(c)
    \/ Older(c)
    \/ CampaignReward(c) \/ ArenaCashOut(c)

WalletSpec == WalletInit /\ [][WalletNext]_walletVars

-----------------------------------------------------------------------------
(* Properties.                                                             *)

\* Nobody spends what he has not got: no mixture of purchases on several
\* connections, older code and remembered balances overdraws an account
\* (apply_purchase and its balance check).
NoOverdraft == \A u \in Users : gold[u] >= 0

\* Uses of k whose gold the older code has still to credit are left out.
Counted(k) == uses[k] - Cardinality({c \in Conns :
                                        At(c, "redeem", "credit") /\ req[c].arg = k})

\* No money is lost and none is made: all the balances together are what the
\* accounts started with, what codes, mails and play brought in and what
\* purchases took (db_adjust_user_currency: rewards do not overwrite one
\* another).
MoneyBalances ==
    LET balance == [u \in Users |-> gold[u] + Price * goods[u]]
        redeemed == [k \in Codes |-> Worth[k] * Counted(k)]
        mailed == [m \in Mails |-> MailGold[m] * paid[m]] IN
    SumFunction(balance)
        = Start * Cardinality(Users) + wins + SumFunction(redeemed)
              + SumFunction(mailed)

\* A mail is paid once, however many connections of its account claim it
\* (db_claim_mail_for_user).
PaidOnce == \A m \in Mails : paid[m] <= 1

\* A code is redeemed no more often than it allows (db_redeem_code).
UsesLimited == \A k \in Codes : uses[k] <= MaxUses[k]

\* As long as nothing has failed, so that no thread has entered the older code:
\* no money is lost and none is made, ...
SmoothBalances == faults = 0 => MoneyBalances

\* ... a mail pays once (db_claim_mail_for_user), ...
SmoothPaidOnce == faults = 0 => PaidOnce

\* ... and a code keeps its limit (db_redeem_code).
SmoothUses == faults = 0 => UsesLimited

\* Both.
PaysOnce == SmoothPaidOnce /\ SmoothUses

\* The mail of an account is paid to nobody else: a claim for it, by the new
\* or the older code, never changes another balance.
OwnMailOnlyStep ==
    \A m \in Mails, u \in Users :
        (u # MailTo[m] /\ paid'[m] # paid[m]) => gold'[u] = gold[u]

OwnMailOnly == [][OwnMailOnlyStep]_walletVars

\* With one connection an account, a handler between two requests knows all
\* the money of its account but what the campaign gave it: every other
\* operation brings the profile up to date.
ProfileKeepsUp == \A c \in Conns :
    line[c] # "off" /\ req[c] = Quiet
        => gold[UserOf[c]] - cached[c] \in 0..wins
=============================================================================
