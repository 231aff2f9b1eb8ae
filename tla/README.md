# A TLA+ model of hex-server

hex-server is a Python re-implementation of the server of a two-player trading
card game: it speaks the original client's protocol, keeps accounts, decks,
tournaments and campaigns in SQLite, and runs the rules of a battle on the
server. This directory holds TLA+ modules that model the parts of it where the
order of events matters, the TLC configurations that check them on small
instances, and TLAPS proofs of what holds for every instance.

    tlc -workers 2 -config MCPvp.cfg MCPvp.tla      # check one run
    tlapm RulesSchedulerProofs.tla                  # check the proofs of a module

`PROJECT.json` lists the components, runs, mutants, findings, hazards and
theorems, and maps every definition to the source lines it models.

## 1. The system and its parts

One process serves all clients: a handler with a thread of its own for each
connection (`hconnect_server.py`), which decodes a request and calls a service.
A second process, the tournament scheduler, works on the same database. SQLite
is in autocommit mode: a statement outside an explicit transaction commits on
its own. What the threads share otherwise is kept in module-level dictionaries:
the registry of active clients, the queues of the matchmaker, the shared rules
ports and locks of the running games. Locks exist per game and for the
tournament's matcher; nearly everything else relies on single statements.

A battle's rules are in `rules_port/`: a session that is handed intents and is
ticked until it waits again. What a battle keeps is in three places that must
agree: the live session object, the battle-state dictionary of the older engine
("the projection") and a JSON snapshot in SQLite.

| Part | State it keeps | Operations | Interacts through | What makes it correct | Module |
|---|---|---|---|---|---|
| Turn phase graph (`rules_port/phases.py`, `turn_states.py`) | none | successors, priority policy of each phase | the scheduler | no selected successor is refused | `TurnPhases` |
| Action stack (`kernel.py`, `actions.py`) | stack, mirror of the priority player, per window its queue | push, enter, pass, pop | the scheduler | the mirror names whom the top window asks; turn order | `ActionStack` |
| Scheduler (`session.py`, `pvp_session.py`) | phase, active player, stack, chain, queued intents, last snapshot | submit, handle, tick, queue, resolve, advance, attach | hooks of the host, the snapshot | items resolve once, LIFO, after everyone answered; battles progress | `RulesScheduler`, `ResponseChain` |
| Snapshot restore (`session.py`, `pvp_session.py`) | the row: battle state and snapshot | rebuild a session | SQLite | a restart loses nothing that is pending | `RulesReconnect` |
| Combat (`combat.py`, `combat_damage.py`, the three hosts) | combat objects and checkpoint maps | declare, block, order, damage, leave, return | phases, effects | blocked stays blocked; who is there strikes, who left does not | `Combat` |
| UI event bus (`async_bridge.py`) | pending futures by key | request, respond, cancel | coroutines of one loop | the first answer ends the request it is for | `UIEventBus`, `RequestReply` |
| Tournament engine (`gamemodes/`, `tournament_db.py`) | entries, matches, runs, rewards | enter, search, pair, result, forfeit, recover, retire | client threads, watchdogs and a scheduler process over one database | a match has one result, a run one reward | `CorinthEvent` |
| PvP play (`services/tournament_game.py`, `hconnect_server.py`) | row, shared port, lock, watchdog | pick, keep, redraw, pass, concede, time out, reconnect | connection threads, watchdog | both seats see one battle with one verdict | `PvpOpening`, `PvpEnding` |
| Client registry, friends, presence (`services/social.py`, `profile_db.py`) | registry, friend and request rows | six requests, login, disconnect | transactions and pushes | friendships are mutual; clients show the rows | `Clients`, `Friends` |
| Chat (`services/chat.py`) | members, stored messages | join, leave, say | registry | a member misses nothing | `ChatRoom` |
| Matchmaking (`services/matchmaking.py`) | ladder queues, pending challenges | search, cancel, challenge, answer | handlers kept in queues | who is paired is told; what is accepted is played | `Matchmaking` |
| Money (`services/store.py`, `mail.py`, redeem codes) | balances, goods, uses, mails; balance remembered per connection | buy, redeem, claim, reward | transactions; two generations of code | nothing is paid twice, overdrawn or lost | `Wallet` |
| Arena run (`services/arena.py`, `pve_db.py`) | the run's row, its history and roster | assign, challenge, fight, record, buy out, cash out | battles' ends | counters, history and rewards tell one story | `ArenaRun` |
| Campaign dungeon (`campaign.py`) | node chain, fog, quest, report | start, walk, fight, listen, finish | battles' ends, three commits | no battle is skipped, lost or counted twice | `CrayburnCastle` |
| Practice AI | none | choose a play or a pass | server seat | acts only when asked | free choices of `RulesScheduler` |
| Card effects, battle engine | the board | some hundred effect handlers | resolutions | per-card rules | not modelled |
| Proxy, replay, encoder, profile stream, extraction | cursors, files | route, encode, record | sockets, files | formats | not modelled |

**Where it is hard.** Requests read a session, a balance or a row before they
wait for a lock, and write it back after. Statements of one request commit one
by one, between threads and deaths of the process. A request whose handler
raises is answered a second time by older code. Pushes go to connections that
may have gone. Several facts are kept twice (mirror and queue, chain in battle
state and snapshot, combat object and checkpoint map, row and port). `PROJECT.json`
"hazards" lists these places at their lines, with the properties that cover them.

## 2. The modules

| Module | Extends or instantiates | Kind |
|---|---|---|
| `TurnPhases`, `ActionStack` | `ActionStack` extends `TurnPhases` | constant operators |
| `RulesScheduler` | extends `ActionStack`; instantiates `ResponseChain` | state machine |
| `ResponseChain` | | abstract: LIFO, a round before each resolution and phase end |
| `RulesReconnect` | extends `RulesScheduler` | adds restarts and rebuilding |
| `Combat` | | one side's combats, for three kinds of battle |
| `UIEventBus` | instantiates `RequestReply` | state machine |
| `RequestReply` | | abstract: one open request per key, the first answer counts |
| `CorinthEvent` | | statements of threads |
| `PvpOpening`, `PvpEnding` | | requests of two connections on one game |
| `Clients` | | connections and registry, shared by the next three |
| `Friends`, `ChatRoom`, `Matchmaking` | extend `Clients` | handlers with the pushes they have left |
| `Wallet` | | requests, commits, failures |
| `ArenaRun`, `CrayburnCastle` | | one player, with commits, crashes and late results |
| `MC*` | extend or instantiate the above | TLC instances |
| `*Proofs` | extend the component's module and `TLAPS` (`PvpEntryProofs`: `Matchmaking` and `PvpOpening`; `AccountProofs`: `Wallet` and `ArenaRun`; `ClientProofs`: `UIEventBus`, `Friends` and `ChatRoom`; `BattleProofs`: `PvpEnding` and `Combat`) | lemmas and theorems |
| `Inductions` | extended by `AccountProofs` and `BattleProofs` | lemmas: least numbers and sets, functions built step by step, sums |

An MC module explores several *scenes* side by side: a scene, chosen in the
initial state and never changed, is one instance of the component, with its own
constants (`INSTANCE ... WITH`) or its own part of the actions. A property names
the scenes it is about; where it names none it is checked in all.

### The rules session

| Variable | Code |
|---|---|
| `phase`, `active`, `turns` | `current_turn_phase`, `active_player_id`, turns begun |
| `acts` | `action_stack._stack`; the flag `cur` of a record is `current_action is action`, `hit` is `was_interrupted`, `queue` the window's private `_priority_players`, `who` its policy |
| `prio` | `action_stack.priority_player_id`, the mirror |
| `chain` | `chain._instance_ids`, bottom first, with their descriptors |
| `fresh` | items not queued yet: it makes the items of a run distinct |
| `prompt`, `txs` | the battle state waits for a client's choice; `_transactions` |
| `autoPass`, `gone`, `terminated` | `auto_pass_states`, `eliminated_player_ids`, `terminated` |
| `savedPrio`, `savedChain` | priority and chain in the snapshot `persist()` last wrote |
| `heard`, `settled`, `applied`, `nominee`, `restarts` | history: no guard reads them but the bound on restarts |

Sessions are driven under one lock per battle (`hconnect_server.py:870`), so a
call is one action even where it makes many assignments: it computes the record
`Queues` and `Become` assigns it.

| Action | Code |
|---|---|
| `Begin` | `materialize_current_phase` on a fresh checkpoint |
| `Submit(tx)` | `submit_transaction`: `reconcile_projected_chain_priority`, the requirements, the queue |
| `Consume`, `HandleTransaction` | `handle_transaction` and the handlers of pass, play / activate, auto-pass, cancel, quit, answer |
| `TickPrompt` ... `TickPauses` | one action per exit of `tick()` |
| `AdvanceTurnPhase`, `Entered` | `advance_turn_phase`, `transition_to`, `TurnPhaseState.on_entry`, the host's stop policy |
| `QueuedOn`, `WithItem`, `Resolved` | `queue_projected_chain`, `resolve_top_of_chain` |
| `ServerPass`, `ServerPlay`, `AutoPassInternal` | `pass_player_priority`, the AI's plays, `auto_pass_internal_priority` |
| `Checkpoint`, `Attach(c)` | `persist()`; `prune_orphan_actions`, `sync_checkpoint`, `ensure_projected_chain_action` |
| `Restart`, `RestartInResolution` | a death between two calls, or between a resolution's two commits; then `restore_snapshot`, `sync_checkpoint`, `rehydrate_projected_chain` |

A card is its kind (`ability`, `trigger`, `card`) and whether it is quick or
ignores the chain; whether a hook finds something is a free choice bounded by
`HookItems` / `EntryItems`; the branch facts of the phase graph are free at each
phase change. `hand_larger_than_maximum` returns False in the session, so the
discard guard of `pass_priority` never holds; nothing clears `was_interrupted`.

### Combat

`combat` and `listed` are the combat manager's map and its list of ids,
`attackers`, `blockers`, `sticky`, `order` the checkpoint's maps, `warzone` and
`damage` the board. `Host` selects which declarations (`DeclareComputer`,
`Commit` and `DeclareForced`, `DeclarePvp`), blocks and damage code run, since
`ai.py`, `hconnect_server.py` and `tournament_game.py` resolve the same fight
from different copies. `FirstStrikeStep` and `StandardStep` are the two damage
transactions, with deaths and the pruning each makes. Effects between the steps
(`Leave`, `Return`, `AssignBlocker`), `AssignOrder` and `Restart` complete it.
`log` is history. Between two people a troop the server declares, since it must
attack, is in the checkpoint but has no combat in the manager, so nobody can block it
and it brings about no first-strike step (`Committed` are the others).

### The event bus

A coroutine runs from one suspension to the next without a break, in the order
in which coroutines became ready: `ready` is the loop's queue, an action is one
such piece (`Begin`, `Resume`, `Return`). `pending` and `reply` are the registered
futures and their results; `Respond`, `Cancel` and `RequestNowait` are what
transport code calls.

### The tournament event

`todo[th]` is the list of statements thread `th` has left; an action runs one
write, or the reads one decision is made from. `slots`, `signup`, `pool`,
`rows`, `results`, `mail` are tables, `games` the game sessions, `matcher` and
`ending` the holders of the locks. Requests: enter, reconnect, save, search,
cancel, leave, concede, disconnect, timeout; the scheduler sweeps stale matches
and finished runs. Server and scheduler may restart, which drops `todo`.

### The two ends of a PvP game

`PvpOpening`: a request loads a private copy of the row (`ServeOpening` up to `loaded`),
takes the lock and then plays, on its copy; other requests attach the shared
port and write the port's checkpoint over the row. `durable`, `live` and `port` are
the three places; `client` is what the clients show (external).

`PvpEnding`: `th[a]` is the thread of a player or of the watchdog: which stage it
is in, its copy of the row, the port and lock it holds. `entry` and `shared` are
the registries of locks and ports. `Work(a)` runs a stage; `Ask`, `Serve`, `Drop`,
`Back` are requests and connections, `Look` and `Tick` the watchdog and time. The
result is read at the end of one stage (`AfterRead`, `Undecided`: no winner is on
record) and written in the next (`Record`), as two statements with other threads
in between.

### Lobby services

`Clients` has connections (`sock`), the registry and the idle timeout, and is
extended by the three services. In `Friends` a request is one transaction and a
list of pushes (`todo`); `view` is what a client shows. `ChatRoom` stores a message
before it is sent. In `Matchmaking` queue entries and challenges hold connections,
which may close; `job` is what a thread has left after an answer.

### Money

`gold`, `goods`, `uses`, `mail` are tables, `cached` the balance a handler
remembers. `req[c]` is the request a thread is serving: asked, committed,
answered, or raised, after which the older branch of the router runs statement by
statement (`Older`). `Rollback`, `SendFails`, `PushFails`, `PeerGone` are what may fail.
Both currencies are treated alike by the code; one is modelled.

### Arena run and dungeon

`ArenaRun.run` is the row with its fight history, `battles` the sessions, each with
the slot and the run it was started for (which the code does not store) and how
its end was noticed. The three commits of a deck assignment, and the second of the
destruction of a run, are `request`.
`CrayburnCastle.castle` is the row of the dungeon (page and completion of each
node, active node, last node, fog, pending victory), `quest` and `report` the
journal, `job` what the request being served has still to commit.

## 3. What is checked

Each run asks one question of one part; `PROJECT.json` "runs" names its
properties, and each property has a mutant: a plausible bug of the code (a
dropped guard, a missing reset, a swapped order) that the run refutes. The
properties are defined in the component's module, or in its MC module where they
are limited to some scenes, each under a comment that states it.

| Run | Distinct states | Scenes and bounds | Question |
|---|---|---|---|
| `rules` | 378,518 | `duel`, `practice`, `stops`, `promise`, `rebuilt`, `crashed`: two seats, one or two items, one queued intent, one turn (`stops`: two), one restart in the last two | items take effect once and in order, the mirror names whom a window asks, everyone owed a response is asked, phases keep the chain, a rebuilt session keeps the chain and asks somebody, `ResponseChain` is implemented |
| `rulesliveness` | 47,929 | two seats, an ability that prompts, two turns, one restart | `ResponseChain` is implemented; every item leaves the chain and the battle gets to its last turn, also when it is rebuilt on the way |
| `corinth` | 342,760 | `serial` (two players, six requests), `overlap` (four searches and timeouts, interleaved), `rematch` (three of them, the players are matched already), `live` (three, one restart), `join` (five, a third player) | nobody has two matches to play, results stand, runs are finalized and rewarded once, only stale matches are recovered, no slot is taken, overlapping handlers end, runs retire |
| `bus` | 38,702 | two requests on two keys, two subscribers, repeated answers, cancellations | `RequestReply` is implemented, no wake-up is lost, an answered request ends |
| `lobby` | 1,203,563 | `friends` (one thread at a time, five calls), `overlap` (interleaved, three calls, faults), `chat`, `faulty` | friendships are mutual whatever interleaves; calm clients show the rows and who is there; the room misses nothing |
| `matchmaking` | 290,668 | `ladder`, `challenges`, `faulty`: two players, three connections | pairs are acknowledged, a challenge is taken once, what is accepted is played |
| `wallet` | 1,644,880 | `shared` (one account, two connections, a fault or a reward), `apart` (two accounts) | nobody is overdrawn; while nothing fails, nothing is paid twice or lost |
| `pvp` | 534,855 | `opening`, `quick` (two requests a player), `broken` (one request or reconnection a player, drops, a crash) | the opening keeps its decisions and comes to the first turn; a game ends once, with the result on record, and does end |
| `combat` | 74,232 | `raid`, `assault`, `duel`: two attackers, three defenders, two or three effects, two turns in `duel` | blocked stays blocked, who fights strikes, who left does not, orders are obeyed |
| `arena` | 1,178,168 | `misses` (three battles, every mishap), `full` (seven battles), `tiers` (six battles, two decks) | counters, history, rewards and challenges agree |
| `castle` | 277,746 | `rude`, `played`, `story`, `broken`: the code's castle or a shorter one, two to four wins, one crash | no battle is skipped, lost or counted twice; the player is never stranded; who perseveres wins |
| `staleresolver` | finding | two seats against the server, three items, no restart, a host that attaches at rest (`RestingSpec`) | see below |

**Bounds.** They are the constants whose names begin with `Max`, and the sets of
seats, items, connections and accounts. *Rules:* one queued intent
already lets every state change happen between validation and use; two items
give a resolution that triggers over a pending item and an item answered by
another; the session keeps nothing from an earlier turn except the snapshot's
mirror, so a second turn meets every state the hand-over leaves. *Event:* a run
of one win or two losses ends within the requests of a scene. Six serial
requests are a match, its result, a forfeit and a second run. *Lobby and
money:* two users are all a friendship or a claim concerns; three connections
let one of the two be there twice, which is where "per connection" and "per
user" differ. *PvP:* two players is what the code has; one request or
reconnection of each, with the watchdog, already interleaves three actors on one
lock. *Combat:* two attackers make an order of damage and the memory of another
attacker's block matter; three defenders let one attacker be blocked twice.
*Arena and castle:* lengths shrink (tiers of two or three instead of five, a
castle with two of its three battles), the kinds of slot and node do not.

**Fairness.**

* `RulesScheduler.Fairness`: the host ticks again while a session can progress
  (WF of `Tick`); a resolution asks its client finitely many questions (SF of
  `TickResolves`); a turn has finitely many extra combats (SF of the step to
  `EndPhase`); the player who is asked does answer in the end, though other
  intents come between (SF of an accepted pass and of an accepted answer), since
  a PvP watchdog ends the battle of a player who holds priority for five minutes
  and a practice battle waits for its one human by design; the server's seat
  passes (WF). `rulesliveness` assumes the same of a rebuilt session. Nothing is
  assumed of plays, hooks or attachments.
* `CorinthEvent`: client threads run on, and the scheduler wakes up every minute.
* `UIEventBus`: the loop runs what is ready, and subscribers return.
* `Matchmaking`: a handler's thread runs on; clients are owed nothing.
* `PvpOpening`: connection threads run on, and the player who holds the green
  light of an open dialog answers it.
* `PvpEnding`: connection threads run on, the watchdog wakes every five seconds,
  and time passes.
* `CrayburnCastle`: the server finishes what it serves; a player who perseveres
  goes on again and again, listens, fights and wins some time.

**Where a hazard is only partly met.** Some properties hold only where the
ingredients of a divergence (listed below) are not all present, and then the run does
not meet the hazard in full: requests of the event that are not served in turn
(`RunsAreSettled`), a forfeit beside an ending, logins and departures that cross
(the friends of `ClientsAreTold`), a peer that vanishes from the ladder
(`PairedAcknowledged`), money after a fault (`PaysOnce`, `MoneyAddsUp`), two keeps at once
(`OpeningIsOrderly`), a late result or an orphaned handler (`RecordedOnce`), a victory
through a death (`VictoryArrives`). An attachment is met over one or two items and without
a trigger from a hook, troops come back only where the computer attacks, and the
answer a boss's lost attempt would discard (`AnswerFitsPrompt`) never comes up, since a
boss is never given a prompt. `PROJECT.json` says it at each hazard.

**Deadlock.** Checking is off where the modelled system may stop: all of a
scene's bounded requests are made, a battle is over, everybody is disconnected.

### The finding

`staleresolver` (`StaleResolver.cfg`): an attachment that finds a finished
resolver above a pending chain rebuilds the stack and drops the interrupted phase
window (`session.py:2395`), the fault the comment at `session.py:2376` says is
fixed. The host attaches only when the session is at rest (`RestingSpec`).

### Other divergences

The steps below are in the models: they are what the code does, and it is not
what the named line says. They are the reason why a property names the scenes it
is about: `serial`, `friends`, `full`, `quick` and `story` are the scenes in which
the ingredients of a divergence are not all present.

| Part | Where | What the code does | What it contradicts |
|---|---|---|---|
| Rules | `session.py:2593` | server-side passes go on with the window they started with after a check put another above it, and clear its mirror | `session.py:2586` |
| | `session.py:1532` | a pass accepted in one phase is consumed in the next | `tests/tests_rules_port_kernel.py:418` |
| | `turn_states.py:54` | a trigger queued on phase entry lies above the phase's window, which moves the mirror: whom it asks cannot pass | `pvp_session.py:128` |
| | `session.py:2399` | the rebuilt window of a trigger asks the active player alone | `session.py:2392` |
| | `session.py:2334` | a nominated responder is forgotten when the window is interrupted | `session.py:2317` |
| | `pvp_session.py:71` | only the last of several pending items is rebuilt | `session.py:2477` |
| | `chain_items.py:339` | effects are saved before the item is off the snapshot: after a death between the two they are applied again | `session.py:2066` |
| Bus | `async_bridge.py:61` | a repeated answer ends the next request of the same key | `async_bridge.py:16` |
| Event | `tournament_db.py:517` | two finalizers both record and reward one run | `tournament_engine.py:114` |
| | `tournament_engine.py:735` | a concession or a timeout after a forfeit inserts the retired match again, or decides a match that was decided | `tournament_db.py:488` |
| | `tournament_engine.py:733` | a match discarded for a new search while its end is under way is inserted again, and counted | `hconnect_server.py:18122` |
| | `tournament_engine.py:806` | a match that ends while one of its players has asked for a new search leaves him ready and unpaired beside a third who waits | `hconnect_server.py:18178` |
| | `tournament_engine.py:869` | recovery forfeits a player's new match for an old one | `tournament_engine.py:826` |
| | `tournament_server.py:162` | the slot of a player between two matches is given away | `tournament_server.py:158` |
| | `tournament_server.py:180` | of two concurrent joins one is lost | `tournament_server.py:133` |
| Lobby | `social.py:174` | a raising answer keeps the new friendship from the other client | `social.py:181` |
| | `social.py:510` | friends are told offline of a player who is back already | `social.py:509` |
| | `chat.py:206` | only chat renews a session, so a busy client is dropped as idle | `hconnect_server.py:475` |
| | `chat.py:23` | the departure of an old connection is shown as the player's | `chat.py:49` |
| Matchmaking | `matchmaking.py:61` | a waiting player is popped and never told when the searcher's send raises; a searcher may be paired with itself or with a closed connection | `matchmaking.py:1` |
| | `matchmaking.py:462` | the session is announced on the connection the challenge was made on | `matchmaking.py:456` |
| Money | `hconnect_server.py:17805` | the older code writes back a balance read at login | `profile_db.py:1041` |
| | `profile_db.py:937` | a claim outside a transaction pays a mail twice | `profile_db.py:935` |
| | `hconnect_server.py:15249` | a failed answer redeems the code again | `services/__init__.py:8` |
| | `store.py:306` | a purchase that was made is reported as failed | `hconnect_server.py:15257` |
| PvP opening | `hconnect_server.py:12618` | of two simultaneous keeps one is lost | `hconnect_server.py:12611` |
| | `hconnect_server.py:2350` | another request writes the port's checkpoint over a keep | `tournament_game.py:471` |
| | `pvp_session.py:265` | a port attached before the pick cannot start the first turn | `tournament_game.py:331` |
| | `hconnect_server.py:12625` | a duplicate keep is not recognised after such a rollback | `hconnect_server.py:12620` |
| | `tournament_game.py:1519` | stops are stored under the opponent's key | `hconnect_server.py:14947` |
| PvP ending | `tournament_game.py:1586` | the copy marked ended is not the one saved: the row says the game runs | `tournament_game.py:8288` |
| | `tournament_game.py:8208` | a second ending is announced with the other verdict | `tests/tests_tournament.py:24` |
| | `tournament_game.py:8280` | the lock is dropped while held, so two requests work on one game | `tournament_game.py:241` |
| | `tournament_game.py:8001` | a handoff changes the row but not the port | `tournament_game.py:7980` |
| | `tournament_game.py:10721` | a reconnection saves a row older than the lock: a player who passed is timed out | `tournament_game.py:1916` |
| | `tournament_game.py:8226` | a result on record survives a crash its game does not notice | `tournament_game.py:8209` |
| Combat | `hconnect_server.py:8386` | a damage step restores troops that were removed | `combat.py:243` |
| | `tournament_game.py:10450` | the memory of a block does not reach the second step | `tournament_game.py:10440` |
| | `session.py:2258` | a troop's second attack is not listed and cannot be blocked | `ai.py:758` |
| | `hconnect_server.py:8387` | a forced second attack is dropped when another is committed | `hconnect_server.py:14590` |
| | `combat_effects.py:116` | a blocker an effect posts is dropped before damage | `hconnect_server.py:8356` |
| | `session.py:1690` | between two people a troop that must attack has no combat in the manager: a block against it is refused, and if it strikes first and nobody else does it deals no damage | `tournament_game.py:9970` |
| | `combat.py:135` | a refused order is applied in part | `combat.py:124` |
| | `tournament_game.py:10395` | an order of damage outlives its combat | `tournament_game.py:10434` |
| Arena | `campaign.py:6578` | a practice battle counts for the run, and for one whose destruction a crash cut short (`arena.py:516`): without a deck it may earn a perfect tier | `hconnect_server.py:19930` |
| | `hconnect_server.py:11719` | a win by an empty deck is recorded nowhere | `hconnect_server.py:8152` |
| | `pve_db.py:625` | a late result is written to another fight | `docs/FROST_RING_ARENA.md` |
| | `pve_db.py:627` | after a reset or a new attempt a session is counted again | `docs/FROST_RING_ARENA.md` |
| | `arena.py:385` | a crash keeps the old roster for a new run | `arena.py:438` |
| Castle | `campaign.py:6660` | a death between the commits loses a victory | `docs/CAMPAIGN.md:43` |
| | `campaign.py:3585` | a death in the last step closes the quest without its report | `campaign.py:1007` |
| | `campaign.py:7239` | client and server both count a battle | `campaign.py:7227` |
| | `campaign.py:7537` | `FinishLoc` completes a battle that was not fought | `campaign.py:7353` |
| | `campaign.py:5009` | a repeated acknowledgement unbeats a node | `campaign.py:5007` |
| | `campaign.py:4598` | a re-entry puts the player at a later battle | `campaign.py:3511` |

## 4. What is proved

The theorems hold for every value of the constants that satisfies the named
assumptions, which TLC evaluates in the runs. The pattern is the same
everywhere: an inductive invariant, one lemma per action, temporal logic last.
The stronger invariants were checked by TLC on small instances before they were
proved (`Fair` on a scene of 104,663 states, `Orderly` on one of 70,027, `Books` on
one of 27,378, `OnePort` on one of 4,435,405, `Decided` on one of 5.6 million).

**The rules session** (`RulesSchedulerProofs`). A call is a function on records,
so each operation is shown to take good records to good records
(`GoodWithItem`, `GoodHooked`, ...). There are two invariants.

* `Good == TypeOK /\ Queues \in GoodQueues`, for every session: the conjuncts of
  `EffectOnce` and, without attachments, `ChainOwned`, strengthened by *no resolver
  is for an item that is still fresh*: resolvers of items that already resolved
  stay until they reach the top, so without it a new item could find an old
  resolver of its own. It gives `TypeCorrect`, `NextPhasesAreLegal`,
  `ItemsTakeEffectOnce`, and, in a session no host attaches a checkpoint to
  (`SyncClients = {}`), `ChainIsOwned` and `PhasesKeepTheChain`.
* `Fair == Good /\ Rounds`, when also every stop policy asks everyone
  (`StopPolicies \subseteq {"All"}`): it gives the refinement
  `SchedulerKeepsPromise` (`Spec => KeepsPromise`, that is, of `ResponseChain`), and
  from it `EveryoneIsHeard`, `PhasesAreAnswered` and `WindowsKeepTheirPolicy`. What has
  to be known of the stack in between is where the windows stand: a phase window
  only at the bottom, an item's window right above its resolver and with the
  policy it was queued with (`PlacedIn`); one current action (`EnteredOnceIn`); a
  window under others was interrupted, so it will ask anew, or was never asked
  (`CoveredIn`); and whoever the top window will not ask any more has declined in
  this round (`HeardIn`). Then an item without its window, or a phase without
  its own, has been answered (`AnsweredIn`, `PhaseAskedIn`), which is the guard of
  the abstract step.

The two assumptions are not conveniences. An attachment rebuilds the stack for
the top item alone (`staleresolver` is the counterexample to `PhaseAnswered`), and a
stop policy such as "Active" has a window ask fewer players than its phase's
state does. In the runs the promise is checked for exactly the scenes without
them, and with restarts, which the theorem does not cover.

**The event bus** (`ClientProofs`). `BooksAlwaysAgree` (`[]BooksAgree`, with its
parts `TypeCorrect`, `KeysAreFreed`, `NoLostWakeUp`, `OnlyLateStrays`),
`FirstAnswerIsFinal`, and the refinement `BusKeepsPromise` (`Spec => KeepsPromise`, of
`RequestReply`). The invariant adds to these properties that a registered future
belongs to a running request (`Registered`), that what is in the loop's queue is
under way and there once (`QueuedUnderWay`), and that unbegun requests are
untouched (`Unbegun`).

**Friends and the registry** (`ClientProofs`). `TablesStaySettled`: friendships are
mutual and requests settled, whatever interleaves. The property is inductive as
it stands since each request is one transaction that tests both directions.
`ClosedIsNeverRegistered`: no closed connection is in a registry entry. Its invariant
`RegistryOK` follows the handlers' threads: a thread closes its socket only after
it has left the registry (`Leaving`), from then on nothing it has left registers
it again, and a connection that was never made has nothing left.

**The chat room** (`ClientProofs`), for any users, connections, messages and joins, with
lost peers and clients the registry drops while their threads still run.
`EveryoneHears` (`[]NothingMissed`): once all threads are free a registered member has
every message since it joined, and the earlier ones the history holds. In between a
message a member lacks is on its way, with a thread of somebody else's that still has
to send it, or it will be in the history the member's own thread has yet to read or
to show (`Delivered`); a join makes the thread a member before it reads, so there is no
gap between the two. `GoneAreGone` (`[]LeftIsGone`) assumes one connection of a player at a
time (`OneEach`; with two, the first farewell hides the player who is still there):
whoever is shown as gone is between its farewell and its last step out of the room,
between its return and the announcement of it, or its peer is lost (`GoneTold`).

**Matchmaking** (`PvpEntryProofs`). `MatchesAreAlwaysMade` (`[]MatchesAreMade`): at
most one player waits in a ladder, a challenge is taken once, an accepted one
becomes a session that both clients have heard of once all threads are free, as
far as they are still connected -- with peers that vanish. The invariant says what each thread has still to do (`JobsOK`), how a
challenge's answer is tied to its place in the table (`AnswersOK`), and what the
clients have heard or will hear (`EarsOK`). `PairedAreTold` (`[]PairedAcknowledged`)
assumes `Faults = FALSE`: with a peer that vanishes while it waits the code pops a
player it never tells, as listed above.

**Money** (`AccountProofs`). `NobodyIsOverdrawn` whatever fails (`PursesOK` includes the
remembered balances, for the older code makes one of them the balance).
`NothingPaysTwice` (`[]PaysOnce`, from `MailPaysOnce` and `CodeKeepsLimit`): as long as
nothing has failed, a mail pays once and a code keeps its limit
(`BooksWhileSmooth`: without a fault no thread is in the older code, `SmoothOK`, and
the tables count what was paid, `BooksOK`; faults are never forgotten,
`FaultsAreCounted`). `MailPaysItsOwner` (`OwnMailOnly`), whatever fails: a mail's money
reaches the account it was sent to. The older code looks whose mail it is and
pays a step later, so the invariant keeps the answer in between (`OwnClaims`).
`MoneyIsKept` (`[]SmoothBalances`), for finitely many accounts, codes and mails
(`FiniteBooks`): as long as nothing has failed no money is lost and none is made,
however the connections of an account interleave. `ProfilesKeepUp`
(`[]ProfileKeepsUp`): where no statement raises (`MaxFaults = 0`) and an account has one
connection, its handler knows, between two requests, all the account's money but what
the campaign gave it. With `WalletTypes` these are all the conjuncts of `MoneyAddsUp`. A balance is compared with
sums over the codes and the mails, so there is a small theory of sums (`Inductions`):
over a finite set `SumFunction` does not depend on the order of summation, and a change in one place
changes the sum by as much (`SumOfChange`, by induction over the finite subsets,
ordered by inclusion: the least set that violates the claim, `LeastSet`).

**The opening of a PvP game** (`PvpEntryProofs`, which shares no variable between its
two parts). `StartsAccepted`: for any clients
the scheduler starts only when both hands are accepted. Checkpoints may be rolled
back, so the invariant `CopiesHonest` is about every copy: each records accepted
keeps only. `OpeningStaysOrderly` (all of `OpeningIsOrderly`) is about clients that wait
for the green light and send other requests only in the first turn (`Patient`):
with an eager client, or phase stops set during the mulligan, TLC finds a keep
rolled back. Its invariant `Orderly` walks through the three stages (`AtPick`,
`AtMulligan`, `AtPlay`) and says which threads can be under way in each and what
their copies are worth: the asked player's is the row itself, and anybody
else's is a keep sent again, whose copy already has it. Both rest on
`OpeningConstants` and neither on the number of requests or on the size of a hand.

**The end of a PvP game** (`BattleProofs`). `TypeCorrect`; `OneEndsAtATime`: until a
result is announced one actor at a time ends the game (`LocksOK`: there is one lock
until then); `AnnouncedIsRecorded`: without a restart the record is one of the
announced results (`RecordOK`: the actor inside holds the verdict it recorded, and
whoever is about to record one still finds none on record); `ResultIsFinal`
(`RecordStands`): a recorded result is never replaced, through restarts as well. The
update by id would replace it: that nobody else records between an ending's read and
its write rests on the lock. In a game without lost connections, restarts and clients that
come back (`Calm`): `RowNamesWhoIsAwaited` (`RowFollowsPort`) and `TimeoutsAreFair`
(`TimeoutIsEarned`), what `QuickIsFair` says beyond types, for any number of passes,
killing plays and concessions. Their invariant `OnePort` says that until a result
is announced the row is the shared port's checkpoint, which needs no flush; that
the watchdog's verdict stays true till it is announced rests on the lock.

**Combat** (`BattleProofs`), for any troops, strengths and abilities, any effects between
the steps, any number of turns. Each theorem is a conjunct of `BattleIsFought`, or
`PierceKillsBlockers`; its hypothesis leaves out a battle in which the code does
otherwise, as listed above. `CombatIsTyped`; and no troop that is in play
has damage enough to be dead (`Healthy`). `PierceKillsTheBlockers`: whatever copy the
host reads, a blocker that still stands against its attacker is in the line the damage
goes through (`Standing`), and what is left of the damage has killed the whole line
(`HitsAre`, `KilledIs`) -- unless an effect posts a blocker against a player's attack,
which the manager does not learn of (`NoLateBlocks`). `BlockedNeverHits`: whoever was
blocked faces somebody, is remembered as blocked, or has had its turn (`BlocksCount`);
between two people that needs `NoDualAttackers`. `AttackersAlwaysStrike` and
`BlockersAlwaysStrike`: who is declared, or posted, and has not left is in the
fight the host reads (`Fielded`, `Answered`), and the test for a first step sees every
swift combatant, but not a swift late blocker (`SlowLateBlockers`), nor, between two
people, a forced attacker (`ForcedStrikeLate`: none that strikes only first); against the
computer a forced attacker is not listed in a second turn (`ForcedFightOnce`).
`LeftTakesNoPart`: where the computer attacks, whoever left is in no map (`Outside`).
`OnlyPostedSoak`: between two people what the order of damage names was posted in this
combat (`Soaked`), since the final step forgets it; it does not when swift defenders
killed every attacker in the first (`SlowDefenders`). `OrdersAreObeyed`: after pass i the
first i cards are in their places, if no card is named twice (`SortingIs`). What
the recursive functions of the model compute (`AmongIs`, `SpendingIs`, `SortingIs`) is proved by
way of a least counterexample (`Inductions`).

**The castle** (`CrayburnCastleProofs`). `TypeCorrect`, and `BattlesAreReached`: no battle
starts past an unfinished node, for every chain, habit and crash. The invariant
says that the player is, and was last, only where every node before is finished
(`OnTheWay`), also in the row a request has not yet written (`Jobs`). The others are
about a client that may walk away, forfeit or report results itself, but does not
go back to beaten battles, restart them, repeat messages or finish nodes
(`Plays`: the scenes `played`, `story` and `broken`), through any number of deaths:
`BeatenIsFought` (`BattlesAreFought`), `NobodyIsPutThere` (`WalkedThere`),
`NobodyIsStranded` (`NeverStranded`) and `BeatenStaysBeaten` (`StaysBeatenStep`), all
conjuncts of `CastleAddsUp` and `BattlesHaveTheirOrder`. Their invariant `Books` says
that the row is `Kept` (a victory page is a battle paid for, a pending victory is
the first unfinished node's, who stands on a battle node has not beaten it), that
a row not yet written is as good, and that from the start of a battle until its
result is applied the player stays on its node (`AtTheBattle`): the code applies
the result to the node he stands on and pays the one he launched, and nothing
but this keeps the two the same.

Beside the books stand `Accounts` (`AccountsAreKept`): the fog is never ahead of the
finished nodes (`FogIsRight`, of `FogHolds`), with any deaths. Quest, report and castle
agree between requests (`QuestKeepsUp`, of `QuestFollowsCastle`) and a battle won is
there to be heard once it was served (`VictoriesArrive`) where the server does not die
(`Undisturbed == MaxCrashes = 0`): both are written in commits of their own, and `broken` shows what is lost in between. What is owed at each step of a
request is what these two need to be inductive (`Told`, `Arrived`). The wins of the row
are the battles won (`WinsAreCounted`, of `WinsAreBattles`) where, besides, the client
does not report results itself (`Honest`): the code counts a battle for the client's
report and for the server's.

**The arena run** (`AccountProofs`, whose two parts share no variable either). For any
length of a run and of its tiers, any elites, any crash, repeated result or
handler that plays on without its client: `ArenaTypes`; `HistoryKeepsOrder`
(`HistoryInOrder`): what is behind the index is settled, what is ahead untouched;
`WinsAreOnRecord` (`WinsAreSlots`): the row's wins and chests are those of its
history; `GiftsAndAnswersFit` (`GiftsAreSpent`, `AnswerFitsPrompt`). All but the types
are parts of `RecordsAgree` or `RewardsAreEarned`. The invariant is about the row
(`RowOK`), so each change of the row is one lemma, whoever makes it. An elite's gift
must also lie behind the index (`Pinned`): that is why a boss fought again cannot
be given one.

`ResultsEnterOnce` (`RecordedOnce`) and `PerfectWasEarned` (`PerfectIsEarned`) assume
that no handler outlives its client (`Alone == "orphan" \notin Hazards`), crashes
included, and the latter besides that practice battles or crashes are left out
(`DecksOnly`), since a roster that a crash has left behind lets practice battles count: the history recognises a battle by its session, and an orphan of the run
before a reset is unknown to the new history and is recorded in it, which is the
divergence of `pve_db.py:627`. The invariant says that whoever's end is still to
come is the battle the player is in, and that a stored result not yet taken back
is known (`Reported`); that a win on record is a battle's of this run, and a lost
boss remembered (`Earned`). The counters are sums over the slots and the battles, with
the same theory as the money's: `CountersAgree` (`[]CountsAgree`), without hypothesis, says
that the sacks and the losses of the row are those of its history, strikes bought back
included; `SacksStayKept` (`[]SacksAreKept`), where again no handler outlives its client,
that the sacks held, paid out or forfeited with a run are those the recorded wins
earned. So all
of `RecordsAgree` and `RewardsAreEarned` is proved.

**The tournament event** (`CorinthEventProofs`). `TypeCorrect`, without hypothesis.
`OneMatchAtATime` (`[]OneMatch`): nobody is in two matches that are still to be
decided, whoever searches, cancels, leaves or joins at the same time. What a thread
has still to do is a list of statements, so the invariant `IInv` is about lists: each
statement fits its thread (`Contents`), those that must follow each other do
(`Places`: who elects or creates a game unlocks next, a result is recorded by the
thread that ends the game and right after the row was inserted), and what a list
still has to unlock is what its thread holds (`Locks`). A pair that was elected, or
is about to get its game, has no other match (`Elected`); two undecided games share
no player (`Disjoint`). A row its game's end is about to complete is *doomed* and does
not count, nor does `OneMatch` count a match whose end is under way: a search may
discard that match and pair its players anew, and the result then inserts the
discarded row again, as listed above. The theorem assumes that no restart happens or
that no battle comes to its end: a restart in the middle of an end releases the game
and leaves the row undecided beside the new match, which TLC finds when both are
allowed. In `corinth` every scene satisfies one of the two.

`DecidedIsFinal` (`ResultStands`, a conjunct of `RecordsStand`): a decided match keeps
its winner, whatever searches, timeouts, concessions, discards and restarts do, where
nobody leaves and the scheduler forfeits nobody (`NoForfeits`). The row a thread is
about to complete is open and the row of the game it ends (`Decided`), and the lock on
that end makes it the only one. A forfeit completes a row without that lock, which
is the divergence of `tournament_engine.py:735`.

`RunsEndOnce` (`RunOnce`, `RewardPerRun`, `ScoreInLimits` and `DiscardNotCounted`) is
about requests served in turn (`Serial`: no two handlers at once, no restart), any
number of them; interleaved handlers record a run twice, as listed above. One thread at most has statements left
(`Alone`); what is live was played after every run on record, unless its rows are
about to be cleared (`RunsInOrder`), so the next run ends in a newer match; and a
retirement under way is of such a run, clears its rows right after it is recorded,
and has its reward in its list until it is sent (`Settlements`, `Rewards`). A
list without a statement of a retirement is `Lazy`, and those are all the lists
the other handlers write.

The scores need a second argument (`Tally`), for no statement checks a limit before it
counts a win. A match is live for its own two players at most (`Theirs`), and whoever
completes its row checks both of them next (`Counted`); so a player at a limit is
always settled, with nothing but the statements of a retirement before (`Limited`), and
when a row is completed nobody is at one. Nobody passes a limit (`Within`),
and what is about to be recorded is within both. A game is erased only after its row,
which was open (`Dumped`), so the game of a row is always there (`Kept`). Statements
that leave the scores alone and add none of these are `Calm`.

**Only model-checked,** and why:

* Liveness (`TurnsPass`, `ChainDrains`, `AnsweredEnds`, `AcceptedIsPlayed`,
  `OverlapFinishes`, `LiveRunsRetire`, `EveryGameMovesOn`, `CastleIsBeatenInTheEnd`): fairness
  and ENABLED are out of the prover's reach.
* `RestartKeepsGoing`: the rebuilt stack is a fold over the snapshot's chain.
* In the rules session the mirror (`AsksTheRightPlayer`) and the phase a pass was made
  in, which hold only while no hook triggers on a phase entry.
* Of `CorinthEvent` that its two players are not left waiting for each other
  (`ReadyPaired`), which holds only for requests served in turn and without a third
  player (see the table above).
* Properties of an MC module that join several scenes are checked as a whole; the
  theorems state their parts where a component defines them.

## 5. What is not modelled

* **Card effects and the battle engine.** What a card does to the board: data
  over some 30,000 lines, sequential, covered by the repository's tests. Of it the
  models keep that a resolution may queue items, ask a client, kill, move or
  post a troop.
* **Instance ids.** Items are distinct by construction: two allocators of ids
  (`card_transactions.py:292`, `hconnect_server.py:4672`) are a hazard without a
  property.
* **Parts of a session.** Native ability paths (`finish_ability_on_chain`), the
  passes inside commit attack and commit defence, the passes a PvP checkpoint
  remembers, restarts inside a phase transition, restored combats.
* **Combat arithmetic** beyond attack, defence, lethal and piercing damage:
  shields, multipliers, legality of attacks and blocks, how the computer chooses.
* **Between two people in combat:** a damage step whose attacker is not connected, or
  whose cards raise, resolves nothing and keeps the checkpoint
  (`tournament_game.py:10404`, `10433`); a rebuilt session's manager; a forced attacker
  that attacks untapped, which its player may commit as well.
* **The twenty inserts of an arena roster** (`pve_db.py:402`): each is a commit of its
  own, and the model writes the roster in one step, so that a crash leaves no part of it.
* **Classic tournaments** (brackets, rounds, drafts): the event is the one that
  is always open. The clock of a whole PvP game and its prompts.
* **The rest of the campaign:** the race panorama before the castle, the overworld
  areas with their paths and taming, the creation of campaigns, the cheats.
* **The auction house,** a stub that answers with empty lists.
* **Profile stream, dispatch, proxy, replay, encoding, persistence formats,
  asset extraction, ability data:** formats and pure I/O.
* **SQLite itself:** a statement, or an explicit transaction, is atomic.

## 6. Plan

1. The mirror: `MirrorAgrees` and `ApnapOrder` as theorems, for a session without
   entry triggers.
2. Restarts: that `RulesReconnect` without a restart inside a resolution keeps
   `EffectOnce`, stated over the set of pending items so that no fold is unrolled.
3. `Combat`: shields and prevention, and that nobody strikes twice in a step.
4. `CorinthEvent`: how many players may be ready and unpaired at rest.
5. `InstanceIds`: the two allocators and the silent reuse of a pending item; the
   overworld of the campaign, and classic brackets.
