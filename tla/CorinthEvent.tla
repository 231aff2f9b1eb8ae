---------------------------- MODULE CorinthEvent ----------------------------
(* The persistent asynchronous tournament (the Corinth Merry Melee):         *)
(* entering, searching, matching, game results, forfeits, the retirement of  *)
(* a run at its win or loss limit, and the scheduler process that recovers   *)
(* stale matches.  gamemodes/tournament_engine.py, tournament_server.py,     *)
(* tournament_db.py and the handlers of hconnect_server.py.                  *)
(*                                                                           *)
(* The server runs a thread per client and the scheduler is a process of its *)
(* own.  The database commits every statement on its own, so a handler is a  *)
(* list of statements, todo[th], other threads may run between: a step is    *)
(* one write, or the reads one decision is made from.                        *)
EXTENDS Naturals, Sequences, FiniteSets, SequencesExt

CONSTANTS
  Players,      \* the players' uids
  Entered,      \* those who have entered before the run starts
  RunWins,      \* CORINTH_RUN_WINS
  RunLosses,    \* CORINTH_RUN_LOSSES
  Kinds,        \* the requests of the instance
  MaxRequests,  \* bound: client requests and timeouts in a behaviour
  MaxRestarts,  \* bound: restarts of the game server
  Overlap,      \* do requests of different threads interleave?
  NoOne

ASSUME EventAssumption ==
  /\ Entered \subseteq Players /\ IsFiniteSet(Players)
  /\ Players \cap {"watchdog", "scheduler"} = {}
  /\ RunWins \in Nat \ {0} /\ RunLosses \in Nat \ {0}
  /\ NoOne \notin Players /\ Overlap \in BOOLEAN

Threads == Players \cup {"watchdog", "scheduler"}

VARIABLES
  started,   \* tournaments.status is "started", no longer "waiting"
  slots,     \* tournaments.players_json
  signup,    \* tournament_signups, a row or "none" for each player
  pool,      \* does the player have a saved pool of cards?
  rows,      \* tournament_matches, whose ids grow
  nextId,    \* the next id of a match row
  games,     \* the game sessions, in the order of their creation
  results,   \* tournament_results of each player, in run_number order
  mail,      \* the ids of the final matches a player got reward mail for
  online,    \* player_handlers
  todo,      \* the statements each thread has left to run
  matcher,   \* the holder of _corinth_match_lock
  ending,    \* the games whose session lock is held
  stale,     \* the games whose match is older than the recovery age
  left,      \* requests left, a bound
  restarts   \* restarts so far, a bound

entry == <<started, slots, signup, pool>>
play == <<rows, nextId, games>>
outcome == <<results, mail>>
db == <<entry, play, outcome>>
bounds == <<stale, left, restarts>>
vars == <<db, online, todo, matcher, ending, bounds>>

--------------------------------------------------------------------------
\* Reads.

NewSignup == [status |-> "active", ready |-> FALSE, searching |-> FALSE]
NoSignup == [status |-> "none", ready |-> FALSE, searching |-> FALSE]
Active(p) == signup[p].status = "active"
Plays(r, p) == p \in Range(r.pair)
Other(pair, p) == IF pair[1] = p THEN pair[2] ELSE pair[1]

Unfinished(p) == {r \in rows : ~r.done /\ Plays(r, p)}
RunLive(p) == \E r \in Unfinished(p) : p \in r.live
CompletedRun(p) == {r \in rows : r.done /\ p \in r.live}
Wins(p) == Cardinality({r \in CompletedRun(p) : r.winner = p})
Losses(p) == Cardinality({r \in CompletedRun(p) : r.winner # p})
AtLimit(p) == Wins(p) >= RunWins \/ Losses(p) >= RunLosses

\* The newest unfinished match, the one a forfeit closes.
CurrentRow(p) == CHOOSE r \in Unfinished(p) : \A s \in Unfinished(p) : s.id <= r.id
NewestFirst(S) == {list \in SetToSeqs(S) :
                     \A i, j \in DOMAIN list : i < j => list[j].id < list[i].id}
FinalMatch(p) ==
  LET live == {r.id : r \in {s \in rows : p \in s.live}}
  IN  CHOOSE i \in live : \A j \in live : j <= i

Ready(p) == /\ Active(p) /\ signup[p].ready /\ signup[p].searching
            /\ Unfinished(p) = {}

--------------------------------------------------------------------------
\* The conditions of the statements.

AnyRow(r) == ~r.done
IsStale(r) == ~r.done /\ r.game \in stale

FreeSlots == {q \in slots : ~RunLive(q)}

Enough(fit) == Len(fit) >= 2

StillHeld == matcher
Released == NoOne

NeverThere(g) == FALSE
HasRow(g) == \E r \in rows : r.game = g

NewRow(g) == [id |-> nextId, game |-> g, pair |-> games[g].pair, done |-> FALSE,
              winner |-> NoOne, live |-> Range(games[g].pair)]

NotDiscarded(r, g) == r.game # g \/ r.done

Open(r) == ~r.done

Cleared(r, p) == [r EXCEPT !.live = @ \ {p}]

AnyCompleted(run) == run.as = "completed"
Rewarded(run) == run.as = "completed" /\ run.wins >= RunWins

SearchingOnly == {p \in Players : Active(p) /\ signup[p].searching}
Candidates == {p \in Players : Active(p)}

--------------------------------------------------------------------------
\* Statements, and the lists of statements the handlers are made of.

Async(p, r, s) == [op |-> "async", who |-> p, ready |-> r, searching |-> s]
SetStatus(p, st) == [op |-> "status", who |-> p, status |-> st]
On(op, p) == [op |-> op, who |-> p]
OnGame(op, g) == [op |-> op, game |-> g]
\* A forfeit, and the result it brings, retire the quitter without a match.
Result(g, w, pair, quitter) ==
  [op |-> "result", game |-> g, winner |-> w, pair |-> pair, quitter |-> quitter]
Forfeit(p, quitter) == [op |-> "forfeit", who |-> p, quitter |-> quitter]
Final(p, as) == [op |-> "final", who |-> p, as |-> as]
Quit(p) == IF p = NoOne THEN <<>> ELSE <<Final(p, "quit")>>

\* What follows a recorded result: both runs are checked against the limits,
\* the room is started and both players return to deck construction.
AfterResult(pair) ==
  <<On("limit", pair[1]), On("limit", pair[2]), [op |-> "start"],
    On("return", pair[1]), On("return", pair[2])>>

Idle(th) == todo[th] = <<>>
AtRest == \A th \in Threads : Idle(th)
MayBegin(th) == /\ Idle(th) /\ left > 0
                /\ Overlap \/ AtRest
Do(th, op) == ~Idle(th) /\ Head(todo[th]).op = op
Now(th) == Head(todo[th])
Then(th, steps) == todo' = [todo EXCEPT ![th] = steps \o Tail(@)]
Begin(th, kind, steps) ==
  /\ kind \in Kinds /\ MayBegin(th)
  /\ left' = left - 1
  /\ todo' = [todo EXCEPT ![th] = steps]

\* An exception leaves the handler: only the with blocks and the game's end,
\* which swallows it, go on (they come last); a client's handler closes the
\* connection.
Raise(th) ==
  LET last == Last(todo[th])
      kept == IF last.op \in {"unlock", "ended"} THEN <<last>> ELSE <<>>
      drop == IF th \in Players /\ last.op # "ended" THEN <<On("drop", th)>> ELSE <<>>
  IN  todo' = [todo EXCEPT ![th] = kept \o drop]

--------------------------------------------------------------------------
\* Requests.

Enter(p) == /\ Begin(p, "enter", <<On("join", p), On("register", p), On("seed", p)>>)
            /\ UNCHANGED <<db, online, matcher, ending, stale, restarts>>

\* TryReconnection: enter again without a signup, else revive the signup.
Reconnect(p) ==
  /\ Begin(p, "reconnect",
           (IF signup[p] = NoSignup THEN <<On("join", p)>> ELSE <<>>)
             \o <<On("revive", p)>>)
  /\ UNCHANGED <<db, online, matcher, ending, stale, restarts>>

SaveDeck(p) ==
  /\ online[p] /\ pool[p]
  /\ Begin(p, "save", <<On("unpool", p), On("fill", p), Async(p, TRUE, FALSE)>>)
  /\ UNCHANGED <<db, online, matcher, ending, stale, restarts>>

Search(p) ==
  /\ online[p]
  /\ Begin(p, "search", <<[op |-> "search", who |-> p, deck |-> pool[p]]>>)
  /\ UNCHANGED <<db, online, matcher, ending, stale, restarts>>

CancelSearch(p) ==
  /\ online[p]
  /\ Begin(p, "cancel", <<On("cancel", p)>>)
  /\ UNCHANGED <<db, online, matcher, ending, stale, restarts>>

\* LeaveTournament: forfeit the active match; without one, retire the run.
Leave(p) ==
  /\ online[p]
  /\ Begin(p, "leave", <<Forfeit(p, p)>>)
  /\ UNCHANGED <<db, online, matcher, ending, stale, restarts>>

GamesOf(p) == {g \in DOMAIN games : p \in Range(games[g].pair) /\ games[g].state # "gone"}

\* pvp_concede in the newest session of the player, ended or not.
Concede(p) ==
  /\ online[p] /\ GamesOf(p) # {}
  /\ LET g == CHOOSE x \in GamesOf(p) : \A y \in GamesOf(p) : y <= x
     IN  Begin(p, "concede", <<[op |-> "endgame", game |-> g, loser |-> p]>>)
  /\ UNCHANGED <<db, online, matcher, ending, stale, restarts>>

Disconnect(p) ==
  /\ online[p]
  /\ Begin(p, "disconnect", <<On("drop", p)>>)
  /\ UNCHANGED <<db, online, matcher, ending, stale, restarts>>

\* The watchdog ends a running game against the player holding priority.
Timeout(g, p) ==
  /\ games[g].state = "playing" /\ p \in Range(games[g].pair)
  /\ Begin("watchdog", "timeout", <<[op |-> "endgame", game |-> g, loser |-> p]>>)
  /\ UNCHANGED <<db, online, matcher, ending, stale, restarts>>

\* The scheduler lists the stale matches and the player holding priority in
\* each, forfeits those players one by one, then retires finished runs.
StaleRows == {r \in rows : IsStale(r) /\ games[r.game].state # "gone"}
Sweep ==
  \E list \in SetToSeqs(StaleRows), loser \in [StaleRows -> Players] :
    /\ \A r \in StaleRows : Plays(r, loser[r])
    /\ "sweep" \in Kinds /\ Idle("scheduler") /\ (Overlap \/ AtRest)
    /\ todo' = [todo EXCEPT !["scheduler"] =
                  [i \in DOMAIN list |-> Forfeit(loser[list[i]], NoOne)]
                    \o <<[op |-> "retire"]>>]
    /\ UNCHANGED <<db, online, matcher, ending, bounds>>

Age(g) ==
  /\ "sweep" \in Kinds /\ g \notin stale /\ games[g].state = "playing"
  /\ stale' = stale \cup {g}
  /\ UNCHANGED <<db, online, todo, matcher, ending, left, restarts>>

--------------------------------------------------------------------------
\* Steps: signups, slots and pools.

\* join_tournament: a registered slot is kept; once the room has started, a
\* newcomer takes the slot of a player without an unfinished match.
Join(th) ==
  /\ Do(th, "join")
  /\ LET p == Now(th).who
         add == On("signup", p)
         fresh == Async(p, FALSE, FALSE)
     IN  \/ /\ p \in slots
            /\ Then(th, <<add>> \o (IF RunLive(p) THEN <<>> ELSE <<fresh>>))
         \/ /\ p \notin slots /\ ~started
            /\ Then(th, <<add, fresh, [op |-> "slots", to |-> slots \cup {p}]>>)
         \/ \E q \in FreeSlots :
              /\ p \notin slots /\ started
              /\ Then(th, <<SetStatus(q, "withdrew"), add, fresh,
                            [op |-> "slots", to |-> (slots \ {q}) \cup {p}]>>)
         \/ /\ p \notin slots /\ started /\ FreeSlots = {}
            /\ IF signup[p] = NoSignup THEN todo' = [todo EXCEPT ![th] = <<>>]
               ELSE Then(th, <<>>)
  /\ UNCHANGED <<db, online, matcher, ending, bounds>>

AddSignup(th) ==
  /\ Do(th, "signup")
  /\ LET p == Now(th).who
     IN  signup' = [signup EXCEPT ![p] = IF @ = NoSignup THEN NewSignup
                                         ELSE [@ EXCEPT !.status = "active"]]
  /\ Then(th, <<>>)
  /\ UNCHANGED <<started, slots, pool, online, matcher, ending, play, outcome, bounds>>

SetAsync(th) ==
  /\ Do(th, "async")
  /\ LET s == Now(th)
     IN  signup' = [signup EXCEPT ![s.who].ready = s.ready,
                                  ![s.who].searching = s.searching]
  /\ Then(th, <<>>)
  /\ UNCHANGED <<started, slots, pool, online, matcher, ending, play, outcome, bounds>>

\* A search is cancelled, by the player or because a match was found.
StopSearching(th) ==
  /\ Do(th, "cancel")
  /\ signup' = [signup EXCEPT ![Now(th).who].searching = FALSE]
  /\ Then(th, <<>>)
  /\ UNCHANGED <<started, slots, pool, online, matcher, ending, play, outcome, bounds>>

SignupStatus(th) ==
  /\ Do(th, "status")
  /\ signup' = [signup EXCEPT ![Now(th).who].status = Now(th).status]
  /\ Then(th, <<>>)
  /\ UNCHANGED <<started, slots, pool, online, matcher, ending, play, outcome, bounds>>

WriteSlots(th) ==
  /\ Do(th, "slots")
  /\ slots' = Now(th).to
  /\ Then(th, <<>>)
  /\ UNCHANGED <<started, signup, pool, online, matcher, ending, play, outcome, bounds>>

Revive(th) ==
  /\ Do(th, "revive")
  /\ LET p == Now(th).who
     IN  Then(th, IF signup[p] = NoSignup \/ ~(Active(p) \/ ~RunLive(p)) THEN <<>>
                  ELSE (IF Active(p) THEN <<>>
                        ELSE <<SetStatus(p, "active"), Async(p, FALSE, FALSE)>>)
                         \o <<On("register", p), On("seed", p)>>)
  /\ UNCHANGED <<db, online, matcher, ending, bounds>>

Register(th) ==
  /\ Do(th, "register")
  /\ online' = [online EXCEPT ![Now(th).who] = TRUE]
  /\ Then(th, <<>>)
  /\ UNCHANGED <<db, matcher, ending, bounds>>

\* A pool is deleted by a retirement, by the first half of a replacement, and
\* filled by its second half or when a player returns to deck construction.
WritePool(th) ==
  /\ \/ Do(th, "unpool") /\ pool' = [pool EXCEPT ![Now(th).who] = FALSE]
     \/ (Do(th, "seed") \/ Do(th, "fill")) /\ pool' = [pool EXCEPT ![Now(th).who] = TRUE]
     \/ /\ Do(th, "return")
        /\ pool' = [pool EXCEPT ![Now(th).who] =
                      @ \/ (Active(Now(th).who) /\ online[Now(th).who])]
  /\ Then(th, <<>>)
  /\ UNCHANGED <<started, slots, signup, online, matcher, ending, play, outcome, bounds>>

\* db_tournament_clear_player_searching, then the handler is forgotten.
Drop(th) ==
  /\ Do(th, "drop")
  /\ LET p == Now(th).who
     IN  /\ signup' = [signup EXCEPT ![p].searching =
                         @ /\ ~(Active(p) /\ Unfinished(p) = {})]
         /\ online' = [online EXCEPT ![p] = FALSE]
  /\ Then(th, <<>>)
  /\ UNCHANGED <<started, slots, pool, matcher, ending, play, outcome, bounds>>

--------------------------------------------------------------------------
\* Steps: searching and matching.

\* GameEntrance: a player still assigned to an unfinished match asks for a
\* new search; the second of the pair to ask discards the match.
SearchStep(th) ==
  /\ Do(th, "search")
  /\ LET p == Now(th).who
         queue == <<[op |-> "queue", who |-> p, deck |-> Now(th).deck]>>
     IN  \/ Unfinished(p) = {} /\ Then(th, queue)
         \/ \E r \in Unfinished(p) :
              LET q == Other(r.pair, p)
              IN  Then(th, (IF Active(q) /\ signup[q].searching
                            THEN <<OnGame("discard", r.game), OnGame("erase", r.game)>>
                            ELSE <<Async(p, TRUE, TRUE)>>) \o queue)
  /\ UNCHANGED <<db, online, matcher, ending, bounds>>

Enqueue(th) ==
  /\ Do(th, "queue")
  /\ LET p == Now(th).who
     IN  Then(th, IF ~Now(th).deck THEN <<>>
                  ELSE (IF Active(p) \/ signup[p] = NoSignup THEN <<>>
                        ELSE <<SetStatus(p, "active")>>)
                         \o (IF signup[p] = NoSignup THEN <<>> ELSE <<Async(p, TRUE, TRUE)>>)
                         \o <<[op |-> "pair"]>>)
  /\ UNCHANGED <<db, online, matcher, ending, bounds>>

\* try_start_corinth_match takes the lock and reads the ready players, in the
\* order they signed up: any order here.
LockMatcher(th) ==
  /\ Do(th, "pair") /\ matcher = NoOne
  /\ matcher' = th
  /\ \E list \in SetToSeqs({p \in Players : Ready(p)}) :
       Then(th, <<[op |-> "elect", list |-> list, fit |-> <<>>], [op |-> "unlock"]>>)
  /\ UNCHANGED <<db, online, ending, bounds>>

\* A ready player at the limit is retired instead of being matched.
Elect(th) ==
  /\ Do(th, "elect")
  /\ LET s == Now(th)
     IN  \/ /\ s.list # <<>>
            /\ LET p == Head(s.list)
                   more(fit) == [op |-> "elect", list |-> Tail(s.list), fit |-> fit]
               IN  IF AtLimit(p) THEN Then(th, <<On("limit", p), more(s.fit)>>)
                   ELSE Then(th, <<more(Append(s.fit, p))>>)
         \/ /\ s.list = <<>>
            /\ Then(th, IF Enough(s.fit)
                     THEN <<On("cancel", s.fit[1]), On("cancel", s.fit[2]),
                            [op |-> "game", pair |-> <<s.fit[1], s.fit[2]>>]>>
                     ELSE <<>>)
  /\ UNCHANGED <<db, online, matcher, ending, bounds>>

UnlockMatcher(th) ==
  /\ Do(th, "unlock")
  /\ matcher' = Released
  /\ Then(th, <<>>)
  /\ UNCHANGED <<db, online, ending, bounds>>

\* start_waiting_room_game: the session is persisted, then the match row.
CreateGame(th) ==
  /\ Do(th, "game")
  /\ games' = Append(games, [pair |-> Now(th).pair, state |-> "playing"])
  /\ Then(th, <<OnGame("insert", Len(games) + 1)>>)
  /\ UNCHANGED <<rows, nextId, online, matcher, ending, entry, outcome, bounds>>

\* db_tournament_match_start: INSERT OR IGNORE by session id.
InsertRow(th) ==
  /\ Do(th, "insert")
  /\ LET g == Now(th).game
     IN  IF HasRow(g) THEN UNCHANGED <<rows, nextId>>
         ELSE /\ rows' = rows \cup {NewRow(g)}
              /\ nextId' = nextId + 1
  /\ Then(th, <<>>)
  /\ UNCHANGED <<games, online, matcher, ending, entry, outcome, bounds>>

\* db_tournament_discard_match: only an unfinished row is deleted.
DiscardRow(th) ==
  /\ Do(th, "discard")
  /\ rows' = {r \in rows : NotDiscarded(r, Now(th).game)}
  /\ Then(th, <<>>)
  /\ UNCHANGED <<nextId, games, online, matcher, ending, entry, outcome, bounds>>

EraseGame(th) ==
  /\ Do(th, "erase")
  /\ games' = [games EXCEPT ![Now(th).game].state = "gone"]
  /\ Then(th, <<>>)
  /\ UNCHANGED <<rows, nextId, online, matcher, ending, entry, outcome, bounds>>

--------------------------------------------------------------------------
\* Steps: results and forfeits.

\* _pvp_end_game under the session lock.  The watchdog checks that the game
\* has not ended; a concession does not.
EndGame(th) ==
  /\ Do(th, "endgame")
  /\ LET g == Now(th).game
         w == Other(games[g].pair, Now(th).loser)
         over == games[g].state = "gone"
                   \/ (th = "watchdog" /\ games[g].state = "ended")
     IN  /\ g \notin ending
         /\ IF over THEN Then(th, <<>>) /\ UNCHANGED ending
            ELSE /\ ending' = ending \cup {g}
                 /\ Then(th, <<OnGame("insert", g),
                               Result(g, w, games[g].pair, NoOne),
                               OnGame("ended", g)>>)
  /\ UNCHANGED <<db, online, matcher, bounds>>

GameEnded(th) ==
  /\ Do(th, "ended")
  /\ LET g == Now(th).game
     IN  /\ games' = [games EXCEPT ![g].state = IF @ = "gone" THEN @ ELSE "ended"]
         /\ ending' = ending \ {g}
  /\ Then(th, <<>>)
  /\ UNCHANGED <<rows, nextId, online, matcher, entry, outcome, bounds>>

\* record_tournament_forfeit closes the loser's current match.
ForfeitStep(th) ==
  /\ Do(th, "forfeit")
  /\ LET p == Now(th).who
     IN  IF Unfinished(p) = {} THEN Then(th, Quit(Now(th).quitter))
         ELSE LET r == CurrentRow(p)
              IN  Then(th, <<Result(r.game, Other(r.pair, p), r.pair, Now(th).quitter)>>)
  /\ UNCHANGED <<db, online, matcher, ending, bounds>>

\* db_tournament_match_result reads the row: none, already complete, or open.
ReadResult(th) ==
  /\ Do(th, "result")
  /\ LET s == Now(th)
         its == {r \in rows : r.game = s.game}
     IN  \/ its = {} /\ Then(th, Quit(s.quitter))
         \/ \E r \in its :
              Then(th, (IF Open(r)
                        THEN <<[op |-> "complete", id |-> r.id, winner |-> s.winner]>>
                        ELSE <<>>)
                         \o AfterResult(s.pair))
  /\ UNCHANGED <<db, online, matcher, ending, bounds>>

\* Its UPDATE names the row by id alone.
CompleteRow(th) ==
  /\ Do(th, "complete")
  /\ rows' = {IF r.id # Now(th).id THEN r
               ELSE [r EXCEPT !.done = TRUE, !.winner = Now(th).winner] : r \in rows}
  /\ Then(th, <<>>)
  /\ UNCHANGED <<nextId, games, online, matcher, ending, entry, outcome, bounds>>

StartRoom(th) ==
  /\ Do(th, "start")
  /\ started' = TRUE
  /\ Then(th, <<>>)
  /\ UNCHANGED <<slots, signup, pool, online, matcher, ending, play, outcome, bounds>>

--------------------------------------------------------------------------
\* Steps: the retirement of a run.

CheckLimit(th) ==
  /\ Do(th, "limit")
  /\ Then(th, IF AtLimit(Now(th).who)
              THEN <<Final(Now(th).who, "completed")>>
              ELSE <<>>)
  /\ UNCHANGED <<db, online, matcher, ending, bounds>>

\* db_tournament_finalize_player_run: what it reads before it writes.
Finalize(th) ==
  /\ Do(th, "final")
  /\ LET p == Now(th).who
         run == [wins |-> Wins(p), losses |-> Losses(p), as |-> Now(th).as,
                 final |-> FinalMatch(p)]
     IN  Then(th, IF ~RunLive(p) /\ CompletedRun(p) = {} THEN <<>>
                  ELSE <<[op |-> "record", who |-> p, run |-> run,
                           number |-> Len(results[p]) + 1],
                         On("unlive", p), [op |-> "purge"], On("unpool", p),
                         SetStatus(p, "withdrew")>>
                       \o (IF Rewarded(run)
                           THEN <<[op |-> "mail", who |-> p, final |-> run.final]>>
                           ELSE <<>>))
  /\ UNCHANGED <<db, online, matcher, ending, bounds>>

\* The INSERT of a run number that has been taken meanwhile raises.
RecordRun(th) ==
  /\ Do(th, "record")
  /\ LET s == Now(th)
     IN  IF s.number = Len(results[s.who]) + 1
         THEN /\ results' = [results EXCEPT ![s.who] = Append(@, s.run)]
              /\ Then(th, <<>>)
         ELSE Raise(th) /\ UNCHANGED results
  /\ UNCHANGED <<mail, online, matcher, ending, entry, play, bounds>>

ClearLive(th) ==
  /\ Do(th, "unlive")
  /\ rows' = {Cleared(r, Now(th).who) : r \in rows}
  /\ Then(th, <<>>)
  /\ UNCHANGED <<nextId, games, online, matcher, ending, entry, outcome, bounds>>

PurgeRows(th) ==
  /\ Do(th, "purge")
  /\ rows' = {r \in rows : r.live # {}}
  /\ Then(th, <<>>)
  /\ UNCHANGED <<nextId, games, online, matcher, ending, entry, outcome, bounds>>

\* _email_tournament_rewards
SendReward(th) ==
  /\ Do(th, "mail")
  /\ mail' = [mail EXCEPT ![Now(th).who] = Append(@, Now(th).final)]
  /\ Then(th, <<>>)
  /\ UNCHANGED <<results, online, matcher, ending, entry, play, bounds>>

\* retire_completed_corinth_runs: the unfinished matches of a run at its
\* limit are discarded before the run is retired.
RetireRuns(th) ==
  /\ Do(th, "retire")
  /\ \E list \in SetToSeqs(Candidates) :
       Then(th, [i \in DOMAIN list |-> On("overdue", list[i])])
  /\ UNCHANGED <<db, online, matcher, ending, bounds>>

Overdue(th) ==
  /\ Do(th, "overdue")
  /\ LET p == Now(th).who
     IN  \/ ~AtLimit(p) /\ Then(th, <<>>)
         \/ \E own \in NewestFirst(Unfinished(p)) :
              /\ AtLimit(p)
              /\ Then(th, [i \in 1..2 * Len(own) |->
                             IF i % 2 = 1 THEN OnGame("discard", own[(i + 1) \div 2].game)
                             ELSE OnGame("erase", own[i \div 2].game)]
                            \o <<On("limit", p)>>)
  /\ UNCHANGED <<db, online, matcher, ending, bounds>>

--------------------------------------------------------------------------
\* A process is restarted: what its threads had left to do is lost.
RestartServer ==
  /\ restarts < MaxRestarts
  /\ restarts' = restarts + 1
  /\ todo' = [th \in Threads |-> IF th = "scheduler" THEN todo[th] ELSE <<>>]
  /\ online' = [p \in Players |-> FALSE]
  /\ matcher' = NoOne
  /\ ending' = {}
  /\ UNCHANGED <<db, stale, left>>

\* The scheduler cleans up once and clears the orphaned searches as it starts.
RestartScheduler ==
  /\ restarts < MaxRestarts
  /\ restarts' = restarts + 1
  /\ todo' = [todo EXCEPT !["scheduler"] = <<[op |-> "retire"], [op |-> "orphans"]>>]
  /\ UNCHANGED <<db, online, matcher, ending, stale, left>>

\* db_tournament_clear_orphaned_searches
ClearOrphans(th) ==
  /\ Do(th, "orphans")
  /\ signup' = [p \in Players |->
                  [signup[p] EXCEPT !.searching = @ /\ ~(Active(p) /\ Unfinished(p) = {})]]
  /\ Then(th, <<>>)
  /\ UNCHANGED <<started, slots, pool, online, matcher, ending, play, outcome, bounds>>

Init ==
  /\ started \in {FALSE, TRUE}
  /\ slots = Entered
  /\ signup = [p \in Players |-> IF p \in Entered THEN NewSignup ELSE NoSignup]
  /\ pool = [p \in Players |-> p \in Entered]
  /\ rows = {} /\ nextId = 1 /\ games = <<>>
  /\ results = [p \in Players |-> <<>>]
  /\ mail = [p \in Players |-> <<>>]
  /\ online = [p \in Players |-> p \in Entered]
  /\ todo = [th \in Threads |-> <<>>]
  /\ matcher = NoOne /\ ending = {} /\ stale = {}
  /\ left = MaxRequests /\ restarts = 0

Request == \/ \E p \in Players : \/ Enter(p) \/ Reconnect(p) \/ SaveDeck(p) \/ Search(p)
                                 \/ CancelSearch(p) \/ Leave(p) \/ Concede(p) \/ Disconnect(p)
           \/ \E g \in DOMAIN games, p \in Players : Timeout(g, p)
           \/ Sweep

SignupStep(th) == \/ Join(th) \/ AddSignup(th) \/ SetAsync(th) \/ StopSearching(th)
                  \/ SignupStatus(th) \/ WriteSlots(th) \/ Revive(th) \/ Register(th)
                  \/ WritePool(th) \/ Drop(th)
MatchStep(th) == \/ SearchStep(th) \/ Enqueue(th) \/ LockMatcher(th) \/ Elect(th)
                 \/ UnlockMatcher(th) \/ CreateGame(th) \/ InsertRow(th) \/ DiscardRow(th)
                 \/ EraseGame(th)
ResultStep(th) == \/ EndGame(th) \/ GameEnded(th) \/ ForfeitStep(th) \/ ReadResult(th)
                  \/ CompleteRow(th) \/ StartRoom(th)
RetireStep(th) == \/ CheckLimit(th) \/ Finalize(th) \/ RecordRun(th) \/ ClearLive(th)
                  \/ PurgeRows(th) \/ SendReward(th) \/ RetireRuns(th) \/ Overdue(th)
                  \/ ClearOrphans(th)
ThreadStep(th) == SignupStep(th) \/ MatchStep(th) \/ ResultStep(th) \/ RetireStep(th)

Next == \/ Request
        \/ \E th \in Threads : ThreadStep(th)
        \/ \E g \in DOMAIN games : Age(g)
        \/ RestartServer \/ RestartScheduler

Spec == Init /\ [][Next]_vars
\* Threads run on, and the scheduler wakes up every minute.
FairSpec == Spec /\ WF_vars(Sweep) /\ \A th \in Threads : WF_vars(ThreadStep(th))

--------------------------------------------------------------------------
\* Properties.

Match == [id : Nat \ {0}, game : Nat \ {0}, pair : Seq(Players), done : BOOLEAN,
          winner : Players \cup {NoOne}, live : SUBSET Players]
Run == [wins : Nat, losses : Nat, as : {"completed", "quit"}, final : Nat]

TypeOK ==
  /\ started \in BOOLEAN /\ slots \subseteq Players
  /\ signup \in [Players -> [status : {"none", "active", "withdrew"},
                             ready : BOOLEAN, searching : BOOLEAN]]
  /\ pool \in [Players -> BOOLEAN] /\ online \in [Players -> BOOLEAN]
  /\ \A r \in rows : r \in Match /\ r.id < nextId
  /\ \A g \in DOMAIN games : games[g].state \in {"playing", "ended", "gone"}
  /\ \A p \in Players : results[p] \in Seq(Run) /\ mail[p] \in Seq(Nat)
  /\ matcher \in Threads \cup {NoOne} /\ ending \cup stale \subseteq DOMAIN games

\* A player is never in two matches that are still to be decided: the matcher's
\* lock and the exclusion of assigned players hold against every other request.
\* A match whose end is under way does not count, for the result of a discarded
\* or retired match inserts its row again.
OneMatch == \A p \in Players : Cardinality({r \in Unfinished(p) : r.game \notin ending}) <= 1

\* A run is finalized once: no two results of a player end in one match, as
\* the retirement's docstring says.
RunOnce == \A p \in Players : \A i, j \in DOMAIN results[p] :
             results[p][i].final = results[p][j].final => i = j

\* At rest a player has one reward mail for each completed run that reached
\* the wins, and none besides.
RewardPerRun ==
  AtRest => \A p \in Players :
    LET won == {run \in Range(results[p]) : run.as = "completed" /\ run.wins >= RunWins}
    IN  /\ Range(mail[p]) = {run.final : run \in won}
        /\ \A i, j \in DOMAIN mail[p] : mail[p][i] = mail[p][j] => i = j

\* A finished run scores within its limits.
ScoreInLimits == \A p \in Players : \A i \in DOMAIN results[p] :
  results[p][i].wins <= RunWins /\ results[p][i].losses <= RunLosses

\* A completed match keeps its winner for as long as its row exists.
ResultStands ==
  [][\A r \in rows, s \in rows' : r.done /\ s.id = r.id
       => s.done /\ s.winner = r.winner]_vars

\* When all handlers are done, the two players of an event are never left ready
\* and waiting for each other: the second one to become ready brings the match.
\* With a third one they may be: a player who asks for a new search in the middle
\* of a match becomes ready by its end, and nobody calls the matcher then.
ReadyPaired ==
  AtRest /\ Cardinality({p \in Players : signup[p] # NoSignup}) <= 2
    => Cardinality({p \in Players : Ready(p)}) < 2

\* A match that was discarded for a new search is neither a win nor a loss.
DiscardNotCounted ==
  \A r \in rows : r.done => games[r.game].state # "gone"

\* Recovery closes stale matches only.
RecoverStaleOnly ==
  [][\A r \in rows :
       Do("scheduler", "complete") /\ ~r.done /\ r.id = Now("scheduler").id
         => todo'["scheduler"] = todo["scheduler"] \/ r.game \in stale]_vars

\* Nobody loses a slot in the middle of a match.
SlotKept == [][\A q \in slots \ slots' : ~RunLive(q)]_vars

\* Every handler comes to its end, and with it the locks it holds.
HandlersFinish == \A th \in Threads : ~Idle(th) ~> Idle(th)

\* A run at its limit is retired in the end, whatever restart cut it short.
RunsRetire == \A p \in Players : (Active(p) /\ AtLimit(p)) ~> ~(Active(p) /\ AtLimit(p))

=============================================================================
