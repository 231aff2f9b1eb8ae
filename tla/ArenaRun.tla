------------------------------ MODULE ArenaRun ------------------------------
(***************************************************************************)
(* One player's Frost Ring Arena run: the row of arena_state with its      *)
(* fight history, the saved roster, the account's gold and its flag for a  *)
(* perfect first tier (pve_db.py), the arena requests of the lobby         *)
(* (services/arena.py) and the way a finished battle reaches the run       *)
(* (campaign.prepare_fra_battle_gameend, which every PvE battle that is    *)
(* not a campaign goes through).                                           *)
(*                                                                         *)
(* The run is the player's own: his client is in the lobby or in one       *)
(* battle.  What is not sequential is the server: a handler thread may     *)
(* still be playing out the computer's turn for a connection that broke    *)
(* (an orphan), and the server may die between two commits of one request. *)
(* Slots, sessions and runs are numbers; a challenge is either an ordinary *)
(* prompt or the notification an elite win pins to its boss.  A roster is  *)
(* written as a whole: that the server dies between two of its twenty      *)
(* inserts, each a commit of its own, is left out.                         *)
(***************************************************************************)
EXTENDS Integers, Sequences, FiniteSets, Functions

CONSTANTS
    TierLength,     \* fights of a tier, the last one its boss (5 in the code)
    RunLength,      \* fights of a run (20)
    Elites,         \* the slots whose opponent is elite (FIXED_ELITE_RANKS)
    LastUnrolled,   \* the last slot no ordinary challenge is rolled for (5)
    MaxBattles,     \* bound: battles a behaviour starts
    MaxRuns,        \* bound: decks a behaviour assigns
    MaxAgain,       \* bound: times a finished battle is reported again
    Hazards         \* what a behaviour may meet besides arena battles

ASSUME ArenaConstants ==
    /\ TierLength \in Nat \ {0} /\ RunLength \in Nat \ {0}
    /\ RunLength % TierLength = 0
    /\ Elites \subseteq {i \in 0 .. RunLength - 1 : (i + 1) % TierLength # 0}
    /\ LastUnrolled \in Int
    /\ MaxBattles \in Nat /\ MaxRuns \in Nat /\ MaxAgain \in Nat
    /\ Hazards \subseteq {"practice", "orphan", "deckout", "failure",
                          "crash"}

Slots == 0 .. RunLength - 1
IsBoss(i) == (i + 1) % TierLength = 0
TierOf(i) == i \div TierLength + 1
BossOf(i) == TierOf(i) * TierLength - 1

VARIABLES
    run,        \* the row of arena_state
    roster,     \* the assignment fra_challengers was selected for, 0: no rows
    payout,     \* gold sacks paid into the account
    perfect,    \* ARENA_TIER1_PERFECT
    request,    \* what a request has still to commit: none, roster, roll, clear
    assigned,   \* decks assigned so far
    battles,    \* the game sessions, oldest first
    here,       \* the battle the client is in, 0: the lobby
    forfeited,  \* sacks given up by a reset, for the properties
    again       \* reports repeated so far

vars == <<run, roster, payout, perfect, request, assigned, battles, here,
          forfeited, again>>
account == <<payout, perfect>>
session == <<battles, here, again>>

----------------------------------------------------------------------------
(* The run *)

Unfought ==
    [result |-> "NONE", session |-> 0, bossLosses |-> 0, shown |-> "none",
     prompt |-> FALSE, notes |-> {}, chosen |-> FALSE, answered |-> FALSE,
     reward |-> "none"]

Fresh(deck) ==
    [deck |-> deck, wins |-> 0, losses |-> 0, index |-> 0, sacks |-> 0,
     chests |-> 0, history |-> [i \in Slots |-> Unfought]]

\* A boss attempt that failed uses up the notifications pinned to the boss;
\* the slot shows its prompt again, if it has one, without the old answer.
Consume(slot) ==
    [slot EXCEPT !.notes = {},
                 !.shown = IF @ # "note" THEN @
                           ELSE IF slot.prompt THEN "prompt" ELSE "none",
                 !.answered = @ /\ slot.shown # "note"]

Prompted(slot) ==
    [slot EXCEPT !.prompt = TRUE,
                 !.shown = IF @ = "none" THEN "prompt" ELSE @]

\* The challenge of a fight is selected once: always for an elite, by a roll
\* for an ordinary opponent late enough, never for a boss.
Prepare(history, i, rolled) ==
    IF i \notin Slots \/ history[i].chosen THEN history
    ELSE LET asked == i \in Elites
                        \/ (~ IsBoss(i) /\ i > LastUnrolled /\ rolled)
             slot == IF asked THEN Prompted(history[i]) ELSE history[i]
         IN  [history EXCEPT ![i] = [slot EXCEPT !.chosen = TRUE]]

Perfected(history, i) ==
    /\ IsBoss(i)
    /\ \A j \in (i - TierLength + 1) .. i :
          history[j].result = "WIN" /\ history[j].bossLosses = 0

\* The slot with the result of the battle written into it.
Written(slot, i, b, won) ==
    LET told == [slot EXCEPT !.result = IF won THEN "WIN" ELSE "LOSE",
                             !.session = b]
    IN  IF IsBoss(i) /\ ~ won
        THEN Consume([told EXCEPT !.bossLosses = @ + 1]) ELSE told

\* What a win earns besides its sacks: a strike taken back, for a perfect
\* tier or an answered prompt, or else an elite's gift for the tier's boss.
RewardOf(history, i, won, losses) ==
    CASE won /\ losses > 0 /\ (Perfected(history, i) \/ history[i].prompt)
            -> "strike"
      [] won /\ losses = 0 /\ i \in Elites -> "gift"
      [] OTHER -> "none"

Gifted(history, i) ==
    [history EXCEPT ![BossOf(i)].notes = @ \cup {i},
                    ![BossOf(i)].shown = IF @ = "none" THEN "note" ELSE @]

\* _db_record_arena_fight once it has decided to record.
Recorded(b, won, rolled) ==
    LET i == run.index
        written == [run.history EXCEPT ![i] = Written(@, i, b, won)]
        reward == RewardOf(written, i, won, run.losses)
        noted == [written EXCEPT ![i].reward = reward]
        next == IF IsBoss(i) /\ ~ won THEN i ELSE i + 1
    IN  [run EXCEPT
            !.wins = @ + (IF won THEN 1 ELSE 0),
            !.losses = @ + (IF won THEN 0 ELSE 1)
                         - (IF reward = "strike" THEN 1 ELSE 0),
            !.index = next,
            !.sacks = @ + (IF won THEN TierOf(i) ELSE 0),
            !.chests = @ + (IF won /\ IsBoss(i) THEN 1 ELSE 0),
            !.history = Prepare(IF reward = "gift" THEN Gifted(noted, i)
                                ELSE noted, next, rolled)]

Unknown(b) == FALSE
Known(b) == \E i \in Slots : run.history[i].session = b

\* Nothing is recorded for a session the history knows, nor past the roster,
\* nor on a slot that is settled: a lost boss is the only one fought again.
Records(b) ==
    /\ ~ Known(b)
    /\ roster # 0
    /\ run.index \in Slots
    /\ \/ run.history[run.index].result \notin {"WIN", "LOSE"}
       \/ IsBoss(run.index) /\ run.history[run.index].result = "LOSE"

----------------------------------------------------------------------------
(* The requests of the lobby *)

Init ==
    /\ run = Fresh(FALSE)
    /\ roster = 0
    /\ payout = 0
    /\ perfect = FALSE
    /\ request = "none"
    /\ assigned = 0
    /\ battles = << >>
    /\ here = 0
    /\ forfeited = 0
    /\ again = 0

InLobby == here = 0 /\ request = "none"

\* AssignArenaDeck: three commits, the row, the roster and the roll.
AssignDeck ==
    /\ InLobby
    /\ assigned < MaxRuns
    /\ run' = Fresh(TRUE)
    /\ assigned' = assigned + 1
    /\ forfeited' = forfeited + run.sacks
    /\ request' = "roster"
    /\ UNCHANGED <<roster, account, session>>

AssignRoster ==
    /\ request = "roster"
    /\ roster' = assigned
    /\ request' = "roll"
    /\ UNCHANGED <<run, account, assigned, session, forfeited>>

AssignRoll ==
    /\ request = "roll"
    /\ request' = "none"
    /\ \E rolled \in BOOLEAN :
          run' = IF rolled /\ run.index = 0 /\ run.history[0].shown = "none"
                 THEN [run EXCEPT !.history[0] =
                         [Prompted(@) EXCEPT !.chosen = TRUE]]
                 ELSE run
    /\ UNCHANGED <<roster, account, assigned, session, forfeited>>

\* Join, refresh and pick all build the same payload, which selects a roster
\* that is missing and prepares the current fight.
Look ==
    /\ request = "none"
    /\ run.deck
    /\ roster' = IF roster = 0 THEN assigned ELSE roster
    /\ \E rolled \in BOOLEAN :
          run' = [run EXCEPT !.history = Prepare(@, run.index, rolled)]
    /\ UNCHANGED <<account, request, assigned, session, forfeited>>

Skipped(slot) ==
    [slot EXCEPT !.result = "SKIP", !.shown = "none", !.prompt = FALSE,
                 !.notes = {}, !.answered = FALSE]

Buyout ==
    /\ InLobby
    /\ run.deck /\ run.index = 0 /\ run.wins = 0 /\ run.losses = 0
    /\ perfect
    /\ roster # 0
    /\ \E rolled \in BOOLEAN :
          run' = [run EXCEPT
                    !.index = TierLength,
                    !.history = Prepare(
                        [i \in Slots |-> IF i < TierLength THEN Skipped(@[i])
                                         ELSE @[i]], TierLength, rolled)]
    /\ UNCHANGED <<roster, account, request, assigned, session, forfeited>>

CashOutKeepingRun ==
    /\ InLobby
    /\ run.deck /\ run.sacks > 0
    /\ payout' = payout + run.sacks
    /\ UNCHANGED <<run, roster, perfect, request, assigned, session, forfeited>>

\* The claim pays and closes the run in one transaction; without a sack it
\* is refused.
CashOut ==
    /\ InLobby
    /\ run.deck /\ run.sacks > 0
    /\ payout' = payout + run.sacks
    /\ run' = Fresh(FALSE)
    /\ roster' = 0
    /\ UNCHANGED <<perfect, request, assigned, session, forfeited>>

\* DestroyArenaData: two commits, the row and then the roster.
DestroyArena ==
    /\ InLobby
    /\ run' = Fresh(FALSE)
    /\ forfeited' = forfeited + run.sacks
    /\ request' = "clear"
    /\ UNCHANGED <<roster, account, assigned, session>>

ClearRoster ==
    /\ request = "clear"
    /\ roster' = 0
    /\ request' = "none"
    /\ UNCHANGED <<run, account, assigned, session, forfeited>>

\* Closing the conversation of the current fight's prompt accepts it.
CanAnswer(slot) == slot.shown = "prompt"

AcceptPrompt ==
    /\ here # 0
    /\ run.index \in Slots
    /\ CanAnswer(run.history[run.index])
    /\ run' = [run EXCEPT !.history[run.index].answered = TRUE]
    /\ UNCHANGED <<roster, account, request, assigned, session, forfeited>>

----------------------------------------------------------------------------
(* The battles *)

\* "at" and "of" remember the slot and the run the battle was begun on,
\* "taken" the slots and runs its result was written to: for the properties.
Begin(kind) ==
    /\ InLobby
    /\ Len(battles) < MaxBattles
    /\ battles' = Append(battles,
                    [kind |-> kind, state |-> "on", won |-> FALSE,
                     at |-> run.index, of |-> assigned, taken |-> << >>])
    /\ here' = Len(battles) + 1
    /\ UNCHANGED <<roster, account, request, assigned, forfeited, again>>

\* Setting up an arena battle prepares its challenge like the lobby does.
Fight ==
    /\ run.deck /\ roster # 0 /\ run.index \in Slots
    /\ Begin("arena")
    /\ \E rolled \in BOOLEAN :
          run' = [run EXCEPT !.history = Prepare(@, run.index, rolled)]

Practice ==
    /\ "practice" \in Hazards
    /\ Begin("practice")
    /\ UNCHANGED run

\* The transaction that puts a result into the run.
Store(b, won) ==
    IF Records(b)
    THEN /\ \E rolled \in BOOLEAN : run' = Recorded(b, won, rolled)
         /\ perfect' = (perfect \/ (/\ won /\ run.index = TierLength - 1
                                    /\ Perfected(run'.history, run.index)))
         /\ battles' = [battles EXCEPT
                          ![b].state = "stored", ![b].won = won,
                          ![b].taken = Append(@, <<assigned, run.index>>)]
    ELSE /\ UNCHANGED <<run, perfect>>
         /\ battles' = [battles EXCEPT ![b].state = "stored", ![b].won = won]

\* The handler of a battle ends it: the client's own, or one whose client is
\* gone.  The name of the session decides nothing here: a practice battle is
\* no campaign and no tournament either.
Finish(b, won) ==
    /\ battles[b].state = "on"
    /\ b = here \/ "orphan" \in Hazards
    /\ Store(b, won)
    /\ UNCHANGED <<roster, payout, request, assigned, here, forfeited, again>>

\* A second check of the same battle reports its result once more.
FinishAgain(b) ==
    /\ battles[b].state = "stored"
    /\ again < MaxAgain
    /\ again' = again + 1
    /\ Store(b, battles[b].won)
    /\ UNCHANGED <<roster, payout, request, assigned, here, forfeited>>

\* The session's rows are deleted and GameEnded takes the client back.
ToLobby(b) == here' = IF here = b THEN 0 ELSE here

Publish(b) ==
    /\ battles[b].state = "stored"
    /\ battles' = [battles EXCEPT ![b].state = "over"]
    /\ ToLobby(b)
    /\ UNCHANGED <<run, roster, account, request, assigned, forfeited, again>>

\* The record fails and is rolled back: GameEnded is published all the same.
RecordFails(b) ==
    /\ "failure" \in Hazards
    /\ battles[b].state = "on" /\ b = here
    /\ battles' = [battles EXCEPT ![b].state = "failed"]
    /\ ToLobby(b)
    /\ UNCHANGED <<run, roster, account, request, assigned, forfeited, again>>

\* The computer must draw from an empty deck: GameEnded is published and a
\* hook is asked for that the server's handler does not have.
DeckOut(b) ==
    /\ "deckout" \in Hazards
    /\ battles[b].state = "on" /\ b = here
    /\ battles' = [battles EXCEPT ![b].state = "over"]
    /\ ToLobby(b)
    /\ UNCHANGED <<run, roster, account, request, assigned, forfeited, again>>

\* The connection breaks; the battle stays in its handler's hands, which
\* may yet come to its end or never does.
Disconnect ==
    /\ "orphan" \in Hazards
    /\ here # 0
    /\ battles[here].state = "on"
    /\ here' = 0
    /\ UNCHANGED <<run, roster, account, request, assigned, battles, forfeited,
                   again>>

\* Every handler dies; the database keeps what was committed.
Crash ==
    /\ "crash" \in Hazards
    /\ request # "none" \/ here # 0
    /\ request' = "none"
    /\ here' = 0
    /\ battles' = [b \in DOMAIN battles |->
                      IF battles[b].state \in {"on", "stored"}
                      THEN [battles[b] EXCEPT !.state = "left"]
                      ELSE battles[b]]
    /\ UNCHANGED <<run, roster, account, assigned, forfeited, again>>

Lobby == AssignDeck \/ AssignRoster \/ AssignRoll \/ Look \/ Buyout
           \/ CashOut \/ DestroyArena \/ ClearRoster \/ AcceptPrompt

Battle ==
    \/ Fight \/ Practice \/ Disconnect
    \/ \E b \in DOMAIN battles :
          \/ \E won \in BOOLEAN : Finish(b, won)
          \/ FinishAgain(b) \/ Publish(b) \/ RecordFails(b) \/ DeckOut(b)

Next == Lobby \/ Battle \/ Crash

Spec == Init /\ [][Next]_vars
----------------------------------------------------------------------------
(* Properties *)

TypeOK ==
    /\ run \in [deck : BOOLEAN, wins : Nat, losses : Nat,
                index : 0 .. RunLength, sacks : Nat, chests : Nat,
                history : [Slots ->
                    [result : {"NONE", "WIN", "LOSE", "SKIP"}, session : Nat,
                     bossLosses : Nat, shown : {"none", "prompt", "note"},
                     prompt : BOOLEAN, notes : SUBSET Slots,
                     chosen : BOOLEAN, answered : BOOLEAN,
                     reward : {"none", "strike", "gift"}]]]
    /\ roster \in Nat /\ payout \in Nat /\ perfect \in BOOLEAN
    /\ request \in {"none", "roster", "roll", "clear"}
    /\ assigned \in 0 .. MaxRuns /\ here \in 0 .. MaxBattles
    /\ battles \in Seq([kind : {"arena", "practice"}, won : BOOLEAN,
                       state : {"on", "stored", "over", "failed", "left"},
                       at : 0 .. RunLength, of : 0 .. MaxRuns,
                       taken : Seq((0 .. MaxRuns) \X Slots)])
    /\ forfeited \in Nat /\ again \in 0 .. MaxAgain

SlotsWith(P(_)) == {i \in Slots : P(run.history[i])}
Won(slot) == slot.result = "WIN"

\* The slots before the current one are settled, a tier's boss by a win, and
\* no later one is touched.
HistoryInOrder ==
    LET h == run.history
    IN  \A i \in Slots :
            /\ i < run.index => h[i].result # "NONE"
            /\ i < run.index /\ IsBoss(i) => h[i].result # "LOSE"
            /\ i > run.index => h[i].result = "NONE"
            /\ i = run.index =>
                  h[i].result = IF h[i].bossLosses > 0 THEN "LOSE" ELSE "NONE"

\* The wins of the row are the slots won, and the chests the bosses among them.
WinsAreSlots ==
    /\ run.wins = Cardinality(SlotsWith(Won))
    /\ run.chests = Cardinality({i \in SlotsWith(Won) : IsBoss(i)})

\* The strikes a slot stands for: its losses, less the one its reward took back.
StrikesOf(slot) ==
    slot.bossLosses
        + (IF slot.result = "LOSE" /\ slot.bossLosses = 0 THEN 1 ELSE 0)
        - (IF slot.reward = "strike" THEN 1 ELSE 0)

\* The five counters of the row and the history tell the same story: besides,
\* the sacks are the tiers won, and the losses the strikes of all the slots.
CountsAgree ==
    LET sacks == [i \in Slots |-> IF Won(run.history[i]) THEN TierOf(i) ELSE 0]
        strikes == [i \in Slots |-> StrikesOf(run.history[i])]
    IN  /\ HistoryInOrder
        /\ WinsAreSlots
        /\ run.sacks = SumFunction(sacks)
        /\ run.losses = SumFunction(strikes)

\* A battle's result enters a run once, however often its end is reported:
\* docs/FROST_RING_ARENA.md calls the update idempotent per game session.
RecordedOnce == \A b \in DOMAIN battles : Len(battles[b].taken) <= 1

\* Every sack won is in the run, in the account or given up by a reset: a
\* claim that is sent again pays nothing, and no sack is paid for a tier
\* that was bought out.
SacksAreKept ==
    LET earned == [b \in DOMAIN battles |->
                      IF battles[b].won /\ battles[b].taken # << >>
                      THEN TierOf(battles[b].taken[1][2]) ELSE 0]
    IN  payout + run.sacks + forfeited = SumFunction(earned)

\* The account is called perfect only after one run in which every fight of
\* the first tier was won and its boss at the first attempt.
PerfectIsEarned ==
    perfect =>
        \E r \in 1 .. MaxRuns :
            /\ \A i \in 0 .. TierLength - 1 :
                  \E b \in DOMAIN battles :
                      battles[b].won /\ battles[b].taken = << <<r, i>> >>
            /\ \A b \in DOMAIN battles :
                  battles[b].taken = << <<r, TierLength - 1>> >> => battles[b].won

\* What an elite win pins to the tier's boss is for the first attempt at it.
GiftsAreSpent ==
    \A i \in Slots :
        /\ run.history[i].notes # {} => run.history[i].bossLosses = 0
        /\ \A e \in run.history[i].notes :
              i = BossOf(e) /\ run.history[e].reward = "gift"

\* An acceptance on record belongs to the prompt the slot shows: it is never
\* carried to a notification, nor left behind by one.
AnswerFitsPrompt ==
    \A i \in Slots :
        run.history[i].answered =>
            run.history[i].shown = "prompt" /\ run.history[i].prompt

=============================================================================
