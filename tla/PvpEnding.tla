----------------------------- MODULE PvpEnding -----------------------------
(***************************************************************************)
(* How a tournament game between two people ends: by a play that kills a   *)
(* champion, by a concession, or by the priority watchdog that times an    *)
(* idle player out (services/tournament_game.py).                          *)
(*                                                                         *)
(* Every request of a player runs on that player's connection thread.  It  *)
(* loads its own copy of the session row first, and only then takes the    *)
(* lock of the game, once to attach the native rules port and once to play *)
(* its transaction.  The port is one object that both connections share    *)
(* until the game ends; the session copy that created it stays inside its  *)
(* callbacks, so an ending reached through the port marks THAT copy ended, *)
(* while the port is persisted through the copy of the current request.    *)
(*                                                                         *)
(* The result of the match is read in one statement and written in         *)
(* another, so that two endings could both find it open: only the lock of  *)
(* the game keeps them apart.  Leaving the tournament in the lobby decides *)
(* the match without that lock; it is modelled in CorinthEvent.            *)
(*                                                                         *)
(* Left out: the cards and phases (a pass hands priority over, a killing   *)
(* play ends the game), the deletion of a finished tournament's session,   *)
(* the cumulative clock, prompts that stand open, and a database that      *)
(* fails while the result is recorded.                                     *)
(***************************************************************************)
EXTENDS Naturals, FiniteSets

CONSTANTS
    Players,      \* the two participants
    Dog,          \* the watchdog thread of the game
    NoOne,
    Kinds,        \* the requests made: a subset of Requests
    Faults,       \* a subset of {"drop", "crash"}
    Patience,     \* ticks of idleness after which the watchdog ends the game
    MaxAsks       \* bound: requests and reconnections of one player

Requests == {"pass", "kill", "quit", "back"}

ASSUME PvpEndingAssumption ==
    /\ IsFiniteSet(Players) /\ Cardinality(Players) = 2
    /\ NoOne \notin Players /\ Dog \notin Players
    /\ Kinds \subseteq Requests
    /\ Faults \subseteq {"drop", "crash"}
    /\ Patience \in Nat \ {0} /\ MaxAsks \in Nat

Actors == Players \cup {Dog}
Locks  == 1 .. 4      \* one in the registry and one in the hands of each actor
Ports  == 1 .. 3
None   == 0           \* no lock, no port

VARIABLES
    row,       \* the row of game_sessions: is it ended, and its checkpoint
    entry,     \* the lock _session_locks holds for the game
    shared,    \* the port _pvp_ports holds for the game
    ports,     \* the live checkpoint of each port
    th,        \* the thread of each actor
    online,    \* the players whose connection is up
    match,     \* the loser tournament_matches records
    told,      \* the losers GameEnded has announced to the clients
    asks,      \* requests made so far
    crashed

vars == <<row, entry, shared, ports, th, online, match, told, asks, crashed>>

Other(p) == CHOOSE q \in Players : q # p

-----------------------------------------------------------------------------
(* The checkpoint, its clock and the objects that hold it. *)

\* A checkpoint: who has priority, the inactivity window (whose it is and its
\* age), and who has conceded.
Checkpoint == [pri : Players, win : Players, age : 0 .. Patience, out : SUBSET Players]
Opening == LET p == CHOOSE q \in Players : TRUE
           IN  [pri |-> p, win |-> p, age |-> 0, out |-> {}]

\* _pvp_flush_priority_clock, the part the timeout reads: a new window opens
\* when another player is seen with priority at a save.
FlushAlways(d) == [d EXCEPT !.win = d.pri, !.age = 0]
Flush(d) == IF d.pri = d.win THEN d ELSE FlushAlways(d)

Stage == {"idle", "off", "attach", "act", "save", "handoff", "look",
          "record", "tell", "tail"}
Resting == [pc |-> "idle", kind |-> "pass", over |-> FALSE, data |-> Opening,
            port |-> None, mine |-> FALSE, lock |-> None, loser |-> NoOne]

\* Inside the critical section for more than a step: an ending is under way.
Inside == {a \in Actors : th[a].pc \in {"record", "tell", "tail"}}

\* pvp_session_lock hands out the registered lock, or registers a new one.
NewLock == CHOOSE l \in Locks : \A a \in Actors : th[a].lock # l
UnsharedLock == NewLock
LockOfGame == IF entry = None THEN NewLock ELSE entry
FreeToRecord(l) == \A a \in Inside : th[a].pc # "record" => th[a].lock # l
Free(l) == \A a \in Inside : th[a].lock # l

\* A port nobody can reach any more is forgotten.
Reachable(ps, s, t) ==
    [i \in Ports |-> IF s = i \/ \E a \in Actors : t[a].port = i THEN ps[i] ELSE Opening]
NewPort == CHOOSE i \in Ports : shared # i /\ \A a \in Actors : th[a].port # i

Saved(over, d) == row' = [over |-> over, data |-> d]

-----------------------------------------------------------------------------
(* A player's requests. *)

\* find_session_by_player: a fresh copy of the row, with no look at its state.
Ask(p, k) ==
    /\ k \in Kinds \ {"back"}
    /\ p \in online /\ th[p].pc = "idle" /\ asks[p] < MaxAsks
    /\ asks' = [asks EXCEPT ![p] = @ + 1]
    /\ th' = [th EXCEPT ![p] = [Resting EXCEPT !.pc = "attach", !.kind = k,
                                               !.over = row.over, !.data = row.data]]
    /\ UNCHANGED <<row, entry, shared, ports, online, match, told, crashed>>

\* An actor at the door of the critical section looks its lock up first.
TakeLock(a) ==
    /\ th[a].pc \in {"attach", "act", "save", "handoff", "look"}
    /\ th[a].lock = None
    /\ entry' = LockOfGame
    /\ th' = [th EXCEPT ![a].lock = entry']
    /\ UNCHANGED <<row, shared, ports, online, match, told, asks, crashed>>

\* The one port of the game, if a request has built it already.
NoCache == None
CachedPort == shared

\* attach_pvp_rules_port: point the request at the shared port, or build one
\* from the request's own copy of the checkpoint and persist it.
Attach(p) ==
    /\ th[p].pc = "attach" /\ th[p].lock # None /\ Free(th[p].lock)
    /\ IF CachedPort # None
       THEN /\ th' = [th EXCEPT ![p].pc = "act", ![p].lock = None, ![p].port = shared]
            /\ UNCHANGED <<row, shared, ports>>
       ELSE /\ shared' = NewPort
            /\ ports' = [ports EXCEPT ![NewPort] = th[p].data]
            /\ th' = [th EXCEPT ![p].pc = "act", ![p].lock = None,
                                ![p].port = NewPort, ![p].mine = TRUE]
            /\ Saved(th[p].over, th[p].data)
    /\ UNCHANGED <<entry, online, match, told, asks, crashed>>

Finish(p) == th' = [th EXCEPT ![p] = Resting]

\* The dispatcher saves the live checkpoint through the request's own copy of
\* the session before it validates anything.
Refuse(p) ==
    /\ th[p].pc = "act" /\ th[p].lock # None /\ Free(th[p].lock)
    /\ LET d == ports[th[p].port]
       IN  /\ IF th[p].kind = "quit" THEN p \in d.out ELSE d.pri # p
           /\ Saved(th[p].over, d)
    /\ Finish(p)
    /\ ports' = Reachable(ports, shared, th')
    /\ UNCHANGED <<entry, shared, online, match, told, asks, crashed>>

\* pvp_pass: priority moves on in the port, and the row follows.
Pass(p) ==
    /\ th[p].pc = "act" /\ th[p].kind = "pass"
    /\ th[p].lock # None /\ Free(th[p].lock)
    /\ LET i == th[p].port
           d == Flush([ports[i] EXCEPT !.pri = Other(p)])
       IN  /\ ports[i].pri = p
           /\ Finish(p)
           /\ ports' = Reachable([ports EXCEPT ![i] = d], shared, th')
           /\ Saved(th[p].over, d)
    /\ UNCHANGED <<entry, shared, online, match, told, asks, crashed>>

-----------------------------------------------------------------------------
(* _pvp_end_game, called from a request or by the watchdog. *)

\* db_tournament_match_result selects the state of the match first: where it
\* is complete there is nothing to record, but the clients are told all the same.
Unread == TRUE
Undecided == match = NoOne
AfterRead == IF Undecided THEN "record" ELSE "tell"

\* A killing play or a concession reaches _pvp_end_game, which reads the match.
End(p) ==
    /\ th[p].pc = "act" /\ th[p].lock # None /\ Free(th[p].lock)
    /\ LET d == ports[th[p].port]
           l == IF th[p].kind = "quit" THEN p ELSE Other(p)
       IN  /\ \/ th[p].kind = "kill" /\ d.pri = p
              \/ th[p].kind = "quit" /\ p \notin d.out
           /\ Saved(th[p].over, d)
           /\ th' = [th EXCEPT ![p].pc = AfterRead, ![p].loser = l]
    /\ UNCHANGED <<entry, shared, ports, online, match, told, asks, crashed>>

\* The match is updated by its id, whatever its state is by now.
Record(a) ==
    /\ th[a].pc = "record"
    /\ match' = th[a].loser
    /\ th' = [th EXCEPT ![a].pc = "tell"]
    /\ UNCHANGED <<row, entry, shared, ports, online, told, asks, crashed>>

\* Both clients are told, the session of the caller is marked ended, and the
\* lock leaves the registry while it is still held.
EndingData(a) == IF a = Dog THEN Flush(th[a].data) ELSE ports[th[a].port]
Tell(a) ==
    /\ th[a].pc = "tell"
    /\ told' = told \cup {th[a].loser}
    /\ Saved(TRUE, EndingData(a))
    /\ th' = [th EXCEPT ![a].pc = "tail", ![a].over = (a = Dog) \/ th[a].mine]
    /\ entry' = None
    /\ UNCHANGED <<shared, ports, online, match, asks, crashed>>

\* The port leaves the registry; a transaction then notes who conceded and
\* persists the port through the copy of its own request.
Unregister(a) ==
    /\ th[a].pc = "tail"
    /\ shared' = None
    /\ IF a = Dog
       THEN /\ th' = [th EXCEPT ![a] = [Resting EXCEPT !.pc = "off"]]
            /\ ports' = Reachable(ports, None, th')
            /\ UNCHANGED row
       ELSE LET i == th[a].port
                d == [ports[i] EXCEPT !.out = @ \cup (IF th[a].kind = "quit" THEN {a} ELSE {})]
            IN  /\ Finish(a)
                /\ ports' = Reachable([ports EXCEPT ![i] = d], None, th')
                /\ Saved(th[a].over, d)
    /\ UNCHANGED <<entry, online, match, told, asks, crashed>>

-----------------------------------------------------------------------------
(* The watchdog: every few seconds, a fresh row under the lock. *)

TimedOut(d) == d.pri = d.win /\ d.age = Patience

Look ==
    /\ th[Dog].pc = "look" /\ th[Dog].lock # None /\ Free(th[Dog].lock)
    /\ LET d == Flush(row.data)
       IN  \/ /\ row.over
              /\ th' = [th EXCEPT ![Dog] = [Resting EXCEPT !.pc = "off"]]
              /\ UNCHANGED row
           \/ /\ ~row.over /\ ~TimedOut(d)
              /\ Saved(FALSE, d)
              /\ th' = [th EXCEPT ![Dog].lock = None]
           \/ /\ ~row.over /\ TimedOut(d)
              /\ Saved(FALSE, d)
              /\ th' = [th EXCEPT ![Dog].pc = AfterRead, ![Dog].loser = d.pri,
                                  ![Dog].data = d]
    /\ UNCHANGED <<entry, shared, ports, online, match, told, asks, crashed>>

\* Wall-clock time passes for every copy of the checkpoint.
Older(d) == [d EXCEPT !.age = IF @ = Patience THEN @ ELSE @ + 1]
Tick ==
    /\ row' = [row EXCEPT !.data = Older(@)]
    /\ ports' = Reachable([i \in Ports |-> Older(ports[i])], shared, th)
    /\ th' = [a \in Actors |->
                IF th[a].pc \in {"attach", "act", "save", "handoff", "record", "tell", "tail"}
                THEN [th[a] EXCEPT !.data = Older(@)] ELSE th[a]]
    /\ UNCHANGED <<entry, shared, online, match, told, asks, crashed>>

-----------------------------------------------------------------------------
(* Lost connections, reconnections, and a restart of the server. *)

\* notify_pvp_player_disconnected: a fresh copy of the row, without a port;
\* nothing to do when the game is over or the opponent is away as well.
Drop(p) ==
    /\ "drop" \in Faults /\ p \in online /\ th[p].pc = "idle"
    /\ online' = online \ {p}
    /\ th' = IF row.over \/ Other(p) \notin online THEN th
             ELSE [th EXCEPT ![p] = [Resting EXCEPT !.pc = "handoff", !.data = row.data]]
    /\ UNCHANGED <<row, entry, shared, ports, match, told, asks, crashed>>

\* _pvp_reassign_priority_after_disconnect.
Handoff(p) ==
    /\ th[p].pc = "handoff" /\ th[p].lock # None /\ Free(th[p].lock)
    /\ Saved(FALSE, Flush([th[p].data EXCEPT !.pri = Other(p)]))
    /\ Finish(p)
    /\ UNCHANGED <<entry, shared, ports, online, match, told, asks, crashed>>

\* handle_ready_to_continue_game: the watchdog is started unless it runs, and
\* the snapshot closes the priority interval before it is rebuilt.
Back(p) ==
    /\ "back" \in Kinds /\ th[p].pc = "idle" /\ asks[p] < MaxAsks /\ ~row.over
    /\ online' = online \cup {p}
    /\ asks' = [asks EXCEPT ![p] = @ + 1]
    /\ th' = [th EXCEPT ![p] = [Resting EXCEPT !.pc = "save", !.data = row.data],
                        ![Dog].pc = IF @ = "off" THEN "look" ELSE @]
    /\ UNCHANGED <<row, entry, shared, ports, match, told, crashed>>

Save(p) ==
    /\ th[p].pc = "save" /\ th[p].lock # None /\ Free(th[p].lock)
    /\ Saved(FALSE, Flush(th[p].data))
    /\ Finish(p)
    /\ UNCHANGED <<entry, shared, ports, online, match, told, asks, crashed>>

\* Everything but the database is lost; the clients have to come back.
Crash ==
    /\ "crash" \in Faults /\ ~crashed
    /\ crashed' = TRUE
    /\ entry' = None /\ shared' = None
    /\ th' = [a \in Actors |-> IF a = Dog THEN [Resting EXCEPT !.pc = "off"] ELSE Resting]
    /\ ports' = [i \in Ports |-> Opening]
    /\ online' = {}
    /\ UNCHANGED <<row, match, told, asks>>

-----------------------------------------------------------------------------
\* The mulligan is over: the port that dealt it is shared, the watchdog runs.
Init ==
    /\ row = [over |-> FALSE, data |-> Opening]
    /\ entry = None
    /\ shared = 1
    /\ ports = [i \in Ports |-> Opening]
    /\ th = [a \in Actors |-> IF a = Dog THEN [Resting EXCEPT !.pc = "look"] ELSE Resting]
    /\ online = Players
    /\ match = NoOne
    /\ told = {}
    /\ asks = [p \in Players |-> 0]
    /\ crashed = FALSE

Work(a) == TakeLock(a) \/ Record(a) \/ Tell(a) \/ Unregister(a)
Serve(p) == Attach(p) \/ Refuse(p) \/ Pass(p) \/ End(p) \/ Handoff(p) \/ Save(p)

Next ==
    \/ \E p \in Players, k \in Requests : Ask(p, k)
    \/ \E p \in Players : Serve(p) \/ Drop(p) \/ Back(p)
    \/ \E a \in Actors : Work(a)
    \/ Look \/ Tick \/ Crash

Spec == Init /\ [][Next]_vars

\* Threads that can run do run, the watchdog wakes every five seconds, and
\* time passes.
FairSpec ==
    /\ Spec
    /\ \A p \in Players : WF_vars(Work(p) \/ Serve(p))
    /\ WF_vars(Work(Dog) \/ Look)
    /\ WF_vars(Tick)

-----------------------------------------------------------------------------
(* What holds. *)

\* Every variable has its type.
Thread == [pc : Stage, kind : Requests, over : BOOLEAN, data : Checkpoint,
           port : Ports \cup {None}, mine : BOOLEAN, lock : Locks \cup {None},
           loser : Players \cup {NoOne}]
TypeOK ==
    /\ row \in [over : BOOLEAN, data : Checkpoint]
    /\ entry \in Locks \cup {None}
    /\ shared \in Ports \cup {None}
    /\ ports \in [Ports -> Checkpoint]
    /\ th \in [Actors -> Thread]
    /\ online \subseteq Players
    /\ match \in Players \cup {NoOne}
    /\ told \subseteq Players
    /\ asks \in [Players -> 0 .. MaxAsks]
    /\ crashed \in BOOLEAN

\* Until somebody has been told that the game is over, the lock lets one
\* actor at a time end it: two endings that start together do not interleave.
OneInsideUntilEnd == told = {} => Cardinality(Inside) <= 1

\* While the game is undecided and nobody is inside, the row names the player
\* the shared port waits for: what a reconnecting client and the watchdog
\* read is what the scheduler would accept.
RowFollowsPort ==
    told = {} /\ shared # None /\ Inside = {} => row.data.pri = ports[shared].pri

\* The watchdog declares a loser only if the scheduler has been waiting for
\* that very player, and for as long as the inactivity limit.
TimeoutIsEarned ==
    th[Dog].pc \in {"record", "tell"} /\ told = {} /\ shared # None =>
        /\ ports[shared].pri = th[Dog].loser
        /\ ports[shared].win = th[Dog].loser
        /\ ports[shared].age = Patience

\* Once the clients have been told of a result, the tournament has recorded
\* one of the results they were told (a server that restarts between the record
\* and the announcement may have the game end another way).
VerdictIsRecord == told # {} /\ ~crashed => match \in told

\* A recorded result is never replaced, however often the game is ended and
\* whoever was under way to record another: whoever updates the match has found
\* it open under the lock, and the lock is let go only with the announcement.
RecordStands == [][match # NoOne => match' = match]_vars

\* An abandoned game is ended: once the requests have stopped, the watchdog
\* times the player with priority out (a restarted server waits for a client).
AbandonedGameEnds == <>(told # {} \/ crashed)
=============================================================================
