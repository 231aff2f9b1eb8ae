---------------------------- MODULE BattleProofs -----------------------------
(***************************************************************************)
(* How a game between two players ends, and how its combats, and those of  *)
(* a game against the computer, are fought.                                *)
(*                                                                         *)
(* The ending.  However many requests the players make, and whatever       *)
(* connections drop: until a result is announced one actor at a time ends  *)
(* the game, across restarts too; and, as long as the server is not        *)
(* restarted, the result the tournament has recorded is one the clients    *)
(* were told.  In a game in which nothing breaks, the row follows the      *)
(* shared port and the watchdog times out only the player the scheduler    *)
(* waits for.                                                              *)
(*                                                                         *)
(* The combats.  With any troops, strengths and abilities: damage goes     *)
(* past a blocker only by killing it, a blocked attack stays blocked, who  *)
(* fights deals its damage, who left takes no part, and an order of damage *)
(* is obeyed.                                                              *)
(***************************************************************************)
EXTENDS PvpEnding, Combat, Inductions

(***************************************************************************)
(* The ending.                                                             *)
(***************************************************************************)

\* What a thread is doing says what it holds.
Ending == {"record", "tell", "tail"}
RoleOK(a, t) ==
    /\ a = Dog => t.pc \in {"look", "off"} \cup Ending /\ t.port = None
    /\ a # Dog => /\ t.pc \notin {"look", "off"}
                  /\ t.pc \in {"act"} \cup Ending => t.port \in Ports
                  /\ t.pc \notin {"act"} \cup Ending => t.port = None
    /\ t.pc \in {"record", "tell"} => t.loser \in Players
RolesOK == \A a \in Actors : RoleOK(a, th[a])

\* Before the first announcement there is one lock at most, and it keeps the
\* actors that end the game apart.
LocksOK == told = {} =>
    /\ \A a \in Actors : th[a].lock \in {None, entry}
    /\ \A a \in Inside : th[a].lock # None
    /\ \A a, b \in Inside : a = b

\* Who is about to record a result has found the match open and is the only
\* one to end the game; what is announced has been recorded.  Without a
\* restart the first announcement is that of the recorded result.
RecordOK ==
    /\ told # {} => match # NoOne
    /\ \A a \in Actors : /\ th[a].pc = "record" => match = NoOne
                         /\ th[a].pc = "tell" => match # NoOne
    /\ ~crashed =>
          /\ VerdictIsRecord
          /\ told = {} =>
                /\ \A a \in Inside : /\ th[a].pc \in {"record", "tell"}
                                     /\ th[a].pc = "tell" => th[a].loser = match
                /\ Inside = {} => match = NoOne

IInv == TypeOK /\ RolesOK /\ LocksOK /\ RecordOK

-----------------------------------------------------------------------------
(* Helpers. *)

\* Two players are two names.
LEMMA TwoPlayers ==
    ASSUME PvpEndingAssumption
    PROVE  \E p, q \in Players : p # q /\ Players = {p, q}
<1>1. Cardinality({}) = 0
    BY FS_EmptySet
<1>2. PICK p \in Players : TRUE
    BY <1>1 DEF PvpEndingAssumption
<1>3. IsFiniteSet(Players \ {p}) /\ Cardinality(Players \ {p}) = 1
    BY <1>2, FS_RemoveElement DEF PvpEndingAssumption
<1>4. PICK q : Players \ {p} = {q}
    BY <1>3, FS_Singleton
<1>. QED
    BY <1>2, <1>4

\* Every player has an opponent.
LEMMA OtherType ==
    ASSUME PvpEndingAssumption, NEW p \in Players
    PROVE  Other(p) \in Players
<1>1. \E q \in Players : q # p
    BY TwoPlayers
<1>. QED
    BY <1>1 DEF Other

\* The opening checkpoint is a checkpoint.
LEMMA OpeningType ==
    ASSUME PvpEndingAssumption
    PROVE  Opening \in Checkpoint
<1>1. (CHOOSE q \in Players : TRUE) \in Players
    BY TwoPlayers
<1>2. 0 \in 0 .. Patience
    BY DEF PvpEndingAssumption
<1>. QED
    BY <1>1, <1>2 DEF Opening, Checkpoint

\* A flush keeps a checkpoint a checkpoint.
LEMMA FlushType ==
    ASSUME PvpEndingAssumption, NEW d \in Checkpoint
    PROVE  Flush(d) \in Checkpoint
<1>1. 0 \in 0 .. Patience
    BY DEF PvpEndingAssumption
<1>. QED
    BY <1>1 DEF Flush, FlushAlways, Checkpoint

\* So does the passing of time.
LEMMA OlderType ==
    ASSUME PvpEndingAssumption, NEW d \in Checkpoint
    PROVE  Older(d) \in Checkpoint
<1>1. d.age \in 0 .. Patience /\ (d.age # Patience => d.age + 1 \in 0 .. Patience)
    BY DEF PvpEndingAssumption, Checkpoint
<1>. QED
    BY <1>1 DEF Older, Checkpoint

\* Forgetting ports leaves checkpoints.
LEMMA ReachableType ==
    ASSUME PvpEndingAssumption, NEW ps \in [Ports -> Checkpoint], NEW s, NEW t
    PROVE  Reachable(ps, s, t) \in [Ports -> Checkpoint]
BY OpeningType DEF Reachable

\* A thread at rest has the type of a thread.
LEMMA RestingType ==
    ASSUME PvpEndingAssumption
    PROVE  /\ Resting \in Thread
           /\ Resting.pc = "idle" /\ Resting.port = None /\ Resting.lock = None
BY OpeningType DEF Resting, Thread, Stage, Requests

\* There is a lock left for an actor that holds none.
LEMMA NewLockType ==
    ASSUME PvpEndingAssumption, TypeOK, NEW a \in Actors, th[a].lock = None
    PROVE  NewLock \in Locks
<1>1. PICK p, q \in Players : Players = {p, q}
    BY TwoPlayers
<1>2. /\ th[p].lock \in 0 .. 4 /\ th[q].lock \in 0 .. 4 /\ th[Dog].lock \in 0 .. 4
      /\ th[p].lock = 0 \/ th[q].lock = 0 \/ th[Dog].lock = 0
    BY <1>1 DEF TypeOK, Thread, Actors, Locks, None
<1>3. \E l \in Locks : l # th[p].lock /\ l # th[q].lock /\ l # th[Dog].lock
    <2>1. 1 \in Locks /\ 2 \in Locks /\ 3 \in Locks
        BY DEF Locks
    <2>. QED
        BY <1>2, <2>1
<1>4. \E l \in Locks : \A b \in Actors : th[b].lock # l
    BY <1>1, <1>3 DEF Actors
<1>. QED
    BY <1>4 DEF NewLock

\* There is a port left for a request that has none.
LEMMA NewPortType ==
    ASSUME PvpEndingAssumption, TypeOK, RolesOK,
           NEW r \in Players, th[r].port = None, shared = None
    PROVE  NewPort \in Ports
<1>1. PICK p, q \in Players : Players = {p, q}
    BY TwoPlayers
<1>2. th[p].port = 0 \/ th[q].port = 0
    BY <1>1 DEF None
<1>3. th[Dog].port = 0 /\ shared = 0
    BY DEF RolesOK, RoleOK, Actors, None
<1>4. \E i \in Ports : i # shared /\ i # th[p].port /\ i # th[q].port /\ i # th[Dog].port
    <2>1. 1 \in Ports /\ 2 \in Ports
        BY DEF Ports
    <2>. QED
        BY <1>2, <1>3, <2>1
<1>5. \E i \in Ports : shared # i /\ \A b \in Actors : th[b].port # i
    BY <1>1, <1>4 DEF Actors
<1>. QED
    BY <1>5 DEF NewPort

\* Nobody else is inside when an actor with the lock may enter.
LEMMA AloneInside ==
    ASSUME TypeOK, LocksOK, told = {}, NEW a \in Actors,
           th[a].lock # None, Free(th[a].lock)
    PROVE  Inside = {}
BY DEF LocksOK, Inside, Free

\* A step of one thread that stays outside keeps roles and locks in order.
LEMMA OneSteps ==
    ASSUME PvpEndingAssumption, IInv, NEW a \in Actors,
           \A b \in Actors \ {a} : th'[b] = th[b],
           RoleOK(a, th'[a])
    PROVE  /\ RolesOK'
           /\ /\ th'[a].pc \notin Ending /\ th'[a].lock \in {None, th[a].lock}
              /\ told' = told /\ entry' = entry
              => LocksOK'
           /\ /\ th[a].pc \notin Ending \/ crashed \/ told # {}
              /\ th'[a].pc \notin Ending
              /\ told' = told /\ match' = match /\ crashed' = crashed
              => RecordOK'
<1>1. RolesOK'
    <2>1. \A b \in Actors : RoleOK(b, th'[b])
        BY DEF IInv, RolesOK
    <2>. QED
        BY <2>1 DEF RolesOK, RoleOK
<1>2. ASSUME th'[a].pc \notin Ending, th'[a].lock \in {None, th[a].lock},
             told' = told, entry' = entry
      PROVE  LocksOK'
    BY <1>2 DEF IInv, LocksOK, Inside, Ending
<1>3. ASSUME th[a].pc \notin Ending \/ crashed \/ told # {}, th'[a].pc \notin Ending,
             told' = told, match' = match, crashed' = crashed
      PROVE  RecordOK'
    <2>1. \A b \in Actors : /\ th'[b].pc = "record" => th[b].pc = "record"
                            /\ th'[b].pc = "tell" => th[b].pc = "tell"
        BY <1>3 DEF Ending
    <2>2. CASE crashed \/ told # {}
        BY <1>3, <2>1, <2>2 DEF IInv, RecordOK, VerdictIsRecord
    <2>3. CASE th[a].pc \notin Ending
        <3>1. Inside' = Inside /\ \A b \in Inside : th'[b] = th[b]
            BY <1>3, <2>3 DEF Inside, Ending
        <3>. QED
            BY <1>3, <2>1, <3>1 DEF IInv, RecordOK, VerdictIsRecord
    <2>. QED
        BY <1>3, <2>2, <2>3
<1>. QED
    BY <1>1, <1>2, <1>3

-----------------------------------------------------------------------------
(* One lemma for each action. *)

LEMMA InitIInv == ASSUME PvpEndingAssumption, Init PROVE IInv
<1>1. TypeOK
    <2>1. th \in [Actors -> Thread]
        <3>1. [Resting EXCEPT !.pc = "look"] \in Thread
            BY RestingType DEF Thread, Stage
        <3>. QED
            BY <3>1, RestingType DEF Init
    <2>2. asks \in [Players -> 0 .. MaxAsks]
        BY DEF Init, PvpEndingAssumption
    <2>3. row \in [over : BOOLEAN, data : Checkpoint] /\ ports \in [Ports -> Checkpoint]
        BY OpeningType DEF Init
    <2>4. shared \in Ports \cup {None} /\ entry \in Locks \cup {None}
        BY DEF Init, Ports, Locks, None
    <2>. QED
        BY <2>1, <2>2, <2>3, <2>4 DEF Init, TypeOK
<1>2. RolesOK
    BY RestingType DEF Init, RolesOK, RoleOK, Ending, Resting, None, Actors,
                       PvpEndingAssumption
<1>3. LocksOK
    BY RestingType DEF Init, LocksOK, Inside, Resting, None, Actors
<1>4. RecordOK
    BY RestingType DEF Init, RecordOK, VerdictIsRecord, Inside, Resting, Actors
<1>. QED
    BY <1>1, <1>2, <1>3, <1>4 DEF IInv

LEMMA AskIInv ==
    ASSUME PvpEndingAssumption, IInv, NEW p \in Players, NEW k \in Requests,
           Ask(p, k)
    PROVE  IInv'
<1>. DEFINE t == [Resting EXCEPT !.pc = "attach", !.kind = k,
                                 !.over = row.over, !.data = row.data]
<1>1. /\ t \in Thread
      /\ t.pc = "attach" /\ t.port = None /\ t.lock = None
    BY RestingType DEF IInv, TypeOK, Thread, Stage
<1>2. th' = [th EXCEPT ![p] = t]
    BY DEF Ask
<1>. HIDE DEF t
<1>3. /\ th' \in [Actors -> Thread] /\ th'[p] = t
      /\ \A b \in Actors \ {p} : th'[b] = th[b]
    BY <1>1, <1>2 DEF IInv, TypeOK, Actors
<1>4. asks' \in [Players -> 0 .. MaxAsks]
    BY DEF Ask, IInv, TypeOK, PvpEndingAssumption
<1>5. TypeOK'
    BY <1>3, <1>4 DEF Ask, IInv, TypeOK
<1>6. RoleOK(p, t)
    BY <1>1 DEF RoleOK, Ending, PvpEndingAssumption
<1>. QED
    BY <1>1, <1>3, <1>5, <1>6, OneSteps DEF Ask, IInv, Ending, Actors

LEMMA TakeLockIInv ==
    ASSUME PvpEndingAssumption, IInv, NEW a \in Actors, TakeLock(a)
    PROVE  IInv'
<1>1. entry' \in Locks /\ (entry # None => entry' = entry)
    BY NewLockType DEF TakeLock, LockOfGame, IInv, TypeOK
<1>2. /\ th' \in [Actors -> Thread]
      /\ th'[a].pc = th[a].pc /\ th'[a].port = th[a].port
      /\ th'[a].loser = th[a].loser /\ th'[a].lock = entry'
      /\ \A b \in Actors \ {a} : th'[b] = th[b]
    BY <1>1 DEF TakeLock, IInv, TypeOK, Thread
<1>3. TypeOK'
    BY <1>1, <1>2 DEF TakeLock, IInv, TypeOK
<1>4. RoleOK(a, th'[a])
    BY <1>2 DEF IInv, RolesOK, RoleOK
<1>5. LocksOK'
    BY <1>1, <1>2 DEF TakeLock, IInv, LocksOK, Inside
<1>. QED
    BY <1>2, <1>3, <1>4, <1>5, OneSteps DEF TakeLock, IInv, Ending

\* A thread that comes to rest: roles and locks follow.
LEMMA OneRests ==
    ASSUME PvpEndingAssumption, IInv, NEW p \in Players, Finish(p)
    PROVE  /\ th' \in [Actors -> Thread]
           /\ RolesOK'
           /\ told' = told /\ entry' = entry => LocksOK'
           /\ /\ th[p].pc \notin Ending \/ crashed \/ told # {}
              /\ told' = told /\ match' = match /\ crashed' = crashed
              => RecordOK'
<1>1. /\ th' \in [Actors -> Thread] /\ th'[p] = Resting
      /\ \A b \in Actors \ {p} : th'[b] = th[b]
    BY RestingType DEF Finish, IInv, TypeOK, Actors
<1>2. RoleOK(p, Resting)
    BY RestingType DEF RoleOK, Ending, PvpEndingAssumption
<1>3. p \in Actors /\ Resting.pc \notin Ending /\ Resting.lock = None
    BY RestingType DEF Actors, Ending
<1>. QED
    BY <1>1, <1>2, <1>3, OneSteps

LEMMA AttachIInv ==
    ASSUME PvpEndingAssumption, IInv, NEW p \in Players, Attach(p)
    PROVE  IInv'
<1>. USE DEF IInv
<1>1. p \in Actors /\ p # Dog /\ th[p].port = None /\ th[p].pc = "attach"
    BY DEF Attach, RolesOK, RoleOK, Ending, Actors, PvpEndingAssumption
<1>2. CASE CachedPort # None
    <2>1. shared \in Ports
        BY <1>2 DEF CachedPort, TypeOK
    <2>2. /\ th' \in [Actors -> Thread]
          /\ th'[p].pc = "act" /\ th'[p].port = shared /\ th'[p].lock = None
          /\ \A b \in Actors \ {p} : th'[b] = th[b]
        BY <1>1, <1>2, <2>1 DEF Attach, TypeOK, Thread, Stage
    <2>3. TypeOK'
        BY <1>2, <2>2 DEF Attach, TypeOK
    <2>4. RoleOK(p, th'[p]) /\ th'[p].pc \notin Ending
        BY <1>1, <2>1, <2>2 DEF RoleOK, Ending
    <2>. QED
        BY <1>1, <2>2, <2>3, <2>4, OneSteps DEF Attach, Ending
<1>3. CASE CachedPort = None
    <2>. DEFINE n == NewPort
    <2>1. n \in Ports
        BY <1>1, <1>3, NewPortType DEF CachedPort
    <2>2. /\ th' = [th EXCEPT ![p].pc = "act", ![p].lock = None,
                              ![p].port = n, ![p].mine = TRUE]
          /\ shared' = n /\ ports' = [ports EXCEPT ![n] = th[p].data]
          /\ row' = [over |-> th[p].over, data |-> th[p].data]
          /\ UNCHANGED <<entry, online, match, told, asks, crashed>>
        BY <1>3 DEF Attach, Saved
    <2>. HIDE DEF n
    <2>3. /\ th' \in [Actors -> Thread]
          /\ th'[p].pc = "act" /\ th'[p].port = n /\ th'[p].lock = None
          /\ \A b \in Actors \ {p} : th'[b] = th[b]
        <3>1. PICK t \in Thread : t = th[p]
            BY <1>1 DEF TypeOK
        <3>. DEFINE u == [t EXCEPT !.pc = "act", !.lock = None, !.port = n, !.mine = TRUE]
        <3>2. th' = [th EXCEPT ![p] = u]
            BY <1>1, <2>2, <3>1 DEF TypeOK
        <3>3. u \in Thread
            BY <2>1 DEF Thread, Stage
        <3>4. u.pc = "act" /\ u.port = n /\ u.lock = None
            BY DEF Thread
        <3>. HIDE DEF u
        <3>. QED
            BY <1>1, <3>2, <3>3, <3>4 DEF TypeOK
    <2>4. th[p].data \in Checkpoint /\ th[p].over \in BOOLEAN
        BY <1>1 DEF TypeOK, Thread
    <2>5. TypeOK'
        BY <2>1, <2>2, <2>3, <2>4 DEF TypeOK
    <2>6. RoleOK(p, th'[p]) /\ th'[p].pc \notin Ending
        BY <1>1, <2>1, <2>3 DEF RoleOK, Ending
    <2>. QED
        BY <1>1, <2>2, <2>3, <2>5, <2>6, OneSteps DEF Ending
<1>. QED
    BY <1>2, <1>3

LEMMA RefuseIInv ==
    ASSUME PvpEndingAssumption, IInv, NEW p \in Players, Refuse(p)
    PROVE  IInv'
<1>. USE DEF IInv
<1>1. p \in Actors /\ th[p].port \in Ports /\ th[p].over \in BOOLEAN
    BY DEF Refuse, RolesOK, RoleOK, Ending, Actors, TypeOK, Thread, PvpEndingAssumption
<1>2. /\ Finish(p) /\ th[p].pc \notin Ending
      /\ UNCHANGED <<told, entry, match, crashed>>
    BY DEF Refuse, Ending
<1>3. ports' \in [Ports -> Checkpoint]
    BY ReachableType DEF Refuse, TypeOK
<1>4. row' \in [over : BOOLEAN, data : Checkpoint]
    BY <1>1 DEF Refuse, Saved, TypeOK
<1>5. TypeOK'
    BY <1>2, <1>3, <1>4, OneRests DEF Refuse, TypeOK
<1>. QED
    BY <1>2, <1>5, OneRests

LEMMA PassIInv ==
    ASSUME PvpEndingAssumption, IInv, NEW p \in Players, Pass(p)
    PROVE  IInv'
<1>. USE DEF IInv
<1>1. p \in Actors /\ th[p].port \in Ports /\ th[p].over \in BOOLEAN
    BY DEF Pass, RolesOK, RoleOK, Ending, Actors, TypeOK, Thread, PvpEndingAssumption
<1>2. /\ Finish(p) /\ th[p].pc \notin Ending
      /\ UNCHANGED <<told, entry, match, crashed>>
    BY DEF Pass, Ending
<1>. DEFINE d == Flush([ports[th[p].port] EXCEPT !.pri = Other(p)])
<1>3. d \in Checkpoint
    <2>1. [ports[th[p].port] EXCEPT !.pri = Other(p)] \in Checkpoint
        BY <1>1, OtherType DEF TypeOK, Checkpoint
    <2>. QED
        BY <2>1, FlushType
<1>4. /\ ports' = Reachable([ports EXCEPT ![th[p].port] = d], shared, th')
      /\ row' = [over |-> th[p].over, data |-> d]
      /\ UNCHANGED <<shared, online, match, asks, crashed>>
    BY DEF Pass, Saved
<1>. HIDE DEF d
<1>5. ports' \in [Ports -> Checkpoint]
    <2>1. [ports EXCEPT ![th[p].port] = d] \in [Ports -> Checkpoint]
        BY <1>3 DEF TypeOK
    <2>. QED
        BY <1>4, <2>1, ReachableType
<1>6. TypeOK'
    BY <1>1, <1>2, <1>3, <1>4, <1>5, OneRests DEF TypeOK
<1>. QED
    BY <1>2, <1>6, OneRests

\* An ending that starts under the lock finds the match as it will be recorded.
LEMMA EndingStarts ==
    ASSUME PvpEndingAssumption, IInv, NEW a \in Actors, NEW s \in {"record", "tell"},
           s = "record" <=> match = NoOne,
           th[a].lock # None, Free(th[a].lock), th'[a].pc = s,
           \A b \in Actors \ {a} : th'[b] = th[b],
           UNCHANGED <<match, told, crashed>>
    PROVE  RecordOK'
<1>. USE DEF IInv
<1>1. \A b \in Actors : /\ th'[b].pc = "record" => match = NoOne
                        /\ th'[b].pc = "tell" => match # NoOne
    BY DEF RecordOK
<1>2. ASSUME ~crashed, told = {}
      PROVE  match = NoOne /\ s = "record" /\ Inside' = {a}
    <2>1. Inside = {}
        BY <1>2, AloneInside
    <2>2. match = NoOne /\ s = "record"
        BY <1>2, <2>1 DEF RecordOK
    <2>. QED
        BY <2>1, <2>2 DEF Inside
<1>. QED
    BY <1>1, <1>2 DEF RecordOK, VerdictIsRecord

LEMMA EndIInv ==
    ASSUME PvpEndingAssumption, IInv, NEW p \in Players, End(p)
    PROVE  IInv'
<1>. USE DEF IInv
<1>. DEFINE l == IF th[p].kind = "quit" THEN p ELSE Other(p)
<1>1. /\ p \in Actors /\ p # Dog /\ th[p].port \in Ports
      /\ th[p].over \in BOOLEAN /\ l \in Players
    BY OtherType DEF End, RolesOK, RoleOK, Ending, Actors, TypeOK, Thread,
                     PvpEndingAssumption
<1>2. PICK s \in {"record", "tell"} : s = AfterRead
    BY DEF AfterRead
<1>3. s = "record" <=> match = NoOne
    BY <1>2 DEF AfterRead, Undecided
<1>4. /\ row' = [over |-> th[p].over, data |-> ports[th[p].port]]
      /\ th' = [th EXCEPT ![p].pc = s, ![p].loser = l]
      /\ th[p].lock # None /\ Free(th[p].lock)
      /\ UNCHANGED <<entry, shared, ports, online, match, told, asks, crashed>>
    BY <1>2 DEF End, Saved
<1>. HIDE DEF l
<1>5. /\ th' \in [Actors -> Thread]
      /\ th'[p].pc = s /\ th'[p].loser = l
      /\ th'[p].port = th[p].port /\ th'[p].lock = th[p].lock
      /\ \A b \in Actors \ {p} : th'[b] = th[b]
    <2>1. PICK t \in Thread : t = th[p]
        BY <1>1 DEF TypeOK
    <2>. DEFINE u == [t EXCEPT !.pc = s, !.loser = l]
    <2>2. th' = [th EXCEPT ![p] = u]
        BY <1>1, <1>4, <2>1 DEF TypeOK
    <2>3. u \in Thread
        BY <1>1, <1>2 DEF Thread, Stage
    <2>4. u.pc = s /\ u.loser = l /\ u.port = t.port /\ u.lock = t.lock
        BY DEF Thread
    <2>. HIDE DEF u
    <2>. QED
        BY <1>1, <2>1, <2>2, <2>3, <2>4 DEF TypeOK
<1>6. TypeOK'
    BY <1>1, <1>4, <1>5 DEF TypeOK
<1>7. RoleOK(p, th'[p])
    BY <1>1, <1>2, <1>5 DEF RoleOK, Ending
<1>8. LocksOK'
    BY <1>1, <1>4, <1>5, AloneInside DEF LocksOK, Inside
<1>9. RecordOK'
    BY <1>1, <1>2, <1>3, <1>4, <1>5, EndingStarts
<1>. QED
    BY <1>1, <1>5, <1>6, <1>7, <1>8, <1>9, OneSteps

\* The match is written by the only actor that ends the game.
LEMMA RecordIInv ==
    ASSUME PvpEndingAssumption, IInv, NEW a \in Actors, Record(a)
    PROVE  IInv'
<1>. USE DEF IInv
<1>1. PICK t \in Thread : t = th[a]
    BY DEF TypeOK
<1>2. /\ t.pc = "record" /\ t.loser \in Players /\ RoleOK(a, t)
      /\ match = NoOne /\ told = {} /\ Inside = {a}
    BY <1>1 DEF Record, RolesOK, RoleOK, RecordOK, LocksOK, Inside
<1>. DEFINE u == [t EXCEPT !.pc = "tell"]
<1>3. u \in Thread
    BY DEF Thread, Stage
<1>4. u.pc = "tell" /\ u.port = t.port /\ u.lock = t.lock /\ u.loser = t.loser
    BY DEF Thread
<1>5. /\ th' = [th EXCEPT ![a] = u] /\ match' = t.loser
      /\ UNCHANGED <<row, entry, shared, ports, online, told, asks, crashed>>
    BY <1>1 DEF Record, TypeOK
<1>. HIDE DEF u
<1>6. /\ th' \in [Actors -> Thread] /\ th'[a] = u
      /\ \A b \in Actors \ {a} : th'[b] = th[b]
    BY <1>3, <1>5 DEF TypeOK
<1>7. TypeOK'
    BY <1>2, <1>5, <1>6 DEF TypeOK
<1>8. RoleOK(a, th'[a])
    BY <1>2, <1>4, <1>6 DEF RoleOK, Ending
<1>9. Inside' = {a}
    BY <1>1, <1>2, <1>4, <1>6 DEF Inside
<1>10. LocksOK'
    BY <1>1, <1>2, <1>4, <1>5, <1>6, <1>9 DEF LocksOK
<1>11. RecordOK'
    <2>1. \A b \in Actors \ {a} : th'[b].pc \notin {"record", "tell"}
        BY <1>9 DEF Inside
    <2>. QED
        BY <1>2, <1>4, <1>5, <1>6, <1>9, <2>1
           DEF RecordOK, VerdictIsRecord, PvpEndingAssumption
<1>. QED
    BY <1>6, <1>7, <1>8, <1>10, <1>11, OneSteps

LEMMA TellIInv ==
    ASSUME PvpEndingAssumption, IInv, NEW a \in Actors, Tell(a)
    PROVE  IInv'
<1>. USE DEF IInv
<1>1. PICK t \in Thread : t = th[a]
    BY DEF TypeOK
<1>2. t.pc = "tell" /\ t.loser \in Players /\ RoleOK(a, t)
    BY <1>1 DEF Tell, RolesOK, RoleOK
<1>3. EndingData(a) \in Checkpoint
    <2>1. CASE a = Dog
        BY <1>1, <2>1, FlushType DEF EndingData, Thread
    <2>2. CASE a # Dog
        <3>1. t.port \in Ports
            BY <1>2, <2>2 DEF RoleOK, Ending
        <3>. QED
            BY <1>1, <2>2, <3>1 DEF EndingData, TypeOK
    <2>. QED
        BY <2>1, <2>2
<1>. DEFINE o == (a = Dog) \/ t.mine
            u == [t EXCEPT !.pc = "tail", !.over = o]
<1>4. u \in Thread
    BY DEF Thread, Stage
<1>5. u.pc = "tail" /\ u.port = t.port
    BY DEF Thread
<1>6. /\ told' = told \cup {t.loser} /\ entry' = None
      /\ row' = [over |-> TRUE, data |-> EndingData(a)]
      /\ UNCHANGED <<shared, ports, online, match, asks, crashed>>
    BY <1>1 DEF Tell, Saved
<1>7. th' = [th EXCEPT ![a] = u]
    BY <1>1 DEF Tell, TypeOK
<1>. HIDE DEF u
<1>8. /\ th' \in [Actors -> Thread] /\ th'[a] = u
      /\ \A b \in Actors \ {a} : th'[b] = th[b]
    BY <1>4, <1>7 DEF TypeOK
<1>9. TypeOK'
    BY <1>2, <1>3, <1>6, <1>8 DEF TypeOK
<1>10. RoleOK(a, th'[a])
    BY <1>2, <1>5, <1>8 DEF RoleOK, Ending
<1>11. LocksOK'
    BY <1>6 DEF LocksOK
<1>12. RecordOK'
    <2>1. match # NoOne /\ (~crashed /\ told = {} => t.loser = match)
        BY <1>1, <1>2 DEF RecordOK, Inside
    <2>2. \A b \in Actors : /\ th'[b].pc = "record" => th[b].pc = "record"
                            /\ th'[b].pc = "tell" => th[b].pc = "tell"
        BY <1>5, <1>8
    <2>. QED
        BY <1>6, <2>1, <2>2 DEF RecordOK, VerdictIsRecord
<1>. QED
    BY <1>8, <1>9, <1>10, <1>11, <1>12, OneSteps

LEMMA UnregisterIInv ==
    ASSUME PvpEndingAssumption, IInv, NEW a \in Actors, Unregister(a)
    PROVE  IInv'
<1>. USE DEF IInv
<1>0. crashed \/ told # {}
    BY DEF Unregister, RecordOK, Inside
<1>1. CASE a = Dog
    <2>. DEFINE u == [Resting EXCEPT !.pc = "off"]
    <2>1. u \in Thread
        BY RestingType DEF Thread, Stage
    <2>2. u.pc = "off" /\ u.port = None /\ u.lock = None
        BY RestingType DEF Thread
    <2>3. /\ th' = [th EXCEPT ![a] = u] /\ shared' = None
          /\ ports' = Reachable(ports, None, th')
          /\ UNCHANGED <<row, entry, online, match, told, asks, crashed>>
        BY <1>1 DEF Unregister
    <2>. HIDE DEF u
    <2>4. /\ th' \in [Actors -> Thread] /\ th'[a] = u
          /\ \A b \in Actors \ {a} : th'[b] = th[b]
        BY <2>1, <2>3 DEF TypeOK
    <2>5. TypeOK'
        BY <2>3, <2>4, ReachableType DEF TypeOK
    <2>6. RoleOK(a, u)
        BY <1>1, <2>2 DEF RoleOK
    <2>. QED
        BY <1>0, <2>2, <2>3, <2>4, <2>5, <2>6, OneSteps DEF Ending
<1>2. CASE a # Dog
    <2>1. a \in Players /\ th[a].port \in Ports /\ th[a].over \in BOOLEAN
        BY <1>2 DEF Unregister, RolesOK, RoleOK, Ending, Actors, TypeOK, Thread
    <2>. DEFINE q == IF th[a].kind = "quit" THEN {a} ELSE {}
                d == [ports[th[a].port] EXCEPT !.out = @ \cup q]
    <2>2. d \in Checkpoint
        <3>1. PICK c \in Checkpoint : c = ports[th[a].port]
            BY <2>1 DEF TypeOK
        <3>2. q \subseteq Players
            BY <2>1
        <3>. HIDE DEF q
        <3>3. [c EXCEPT !.out = c.out \cup q] \in Checkpoint
            BY <3>2 DEF Checkpoint
        <3>. QED
            BY <3>1, <3>3
    <2>3. /\ Finish(a) /\ shared' = None
          /\ ports' = Reachable([ports EXCEPT ![th[a].port] = d], None, th')
          /\ row' = [over |-> th[a].over, data |-> d]
          /\ UNCHANGED <<entry, online, match, told, asks, crashed>>
        BY <1>2 DEF Unregister, Saved
    <2>. HIDE DEF d
    <2>4. ports' \in [Ports -> Checkpoint]
        <3>1. [ports EXCEPT ![th[a].port] = d] \in [Ports -> Checkpoint]
            BY <2>2 DEF TypeOK
        <3>. QED
            BY <2>3, <3>1, ReachableType
    <2>5. TypeOK'
        BY <2>1, <2>2, <2>3, <2>4, OneRests DEF TypeOK
    <2>. QED
        BY <1>0, <2>1, <2>3, <2>5, OneRests
<1>. QED
    BY <1>1, <1>2

LEMMA SaveIInv ==
    ASSUME PvpEndingAssumption, IInv, NEW p \in Players, Save(p) \/ Handoff(p)
    PROVE  IInv'
<1>. USE DEF IInv
<1>1. PICK d \in Checkpoint : d = th[p].data
    BY DEF TypeOK, Thread, Actors
<1>2. [d EXCEPT !.pri = Other(p)] \in Checkpoint
    BY OtherType DEF Checkpoint
<1>3. row' \in [over : BOOLEAN, data : Checkpoint]
    <2>1. CASE Save(p)
        BY <1>1, <2>1, FlushType DEF Save, Saved
    <2>2. CASE Handoff(p)
        BY <1>1, <1>2, <2>2, FlushType DEF Handoff, Saved
    <2>. QED
        BY <2>1, <2>2
<1>4. /\ Finish(p) /\ th[p].pc \notin Ending
      /\ UNCHANGED <<entry, shared, ports, online, match, told, asks, crashed>>
    BY DEF Save, Handoff, Ending
<1>5. TypeOK'
    BY <1>3, <1>4, OneRests DEF TypeOK
<1>. QED
    BY <1>4, <1>5, OneRests

LEMMA DropIInv ==
    ASSUME PvpEndingAssumption, IInv, NEW p \in Players, Drop(p)
    PROVE  IInv'
<1>. USE DEF IInv
<1>1. p \in Actors /\ th[p].pc = "idle"
    BY DEF Drop, Actors
<1>2. /\ online' = online \ {p}
      /\ UNCHANGED <<row, entry, shared, ports, match, told, asks, crashed>>
    BY DEF Drop
<1>3. CASE row.over \/ Other(p) \notin online
    <2>1. th' = th
        BY <1>3 DEF Drop
    <2>. QED
        BY <1>2, <2>1 DEF TypeOK, RolesOK, RoleOK, LocksOK, Inside,
                          RecordOK, VerdictIsRecord
<1>4. CASE ~(row.over \/ Other(p) \notin online)
    <2>. DEFINE u == [Resting EXCEPT !.pc = "handoff", !.data = row.data]
    <2>1. u \in Thread
        BY RestingType DEF TypeOK, Thread, Stage
    <2>2. u.pc = "handoff" /\ u.port = None /\ u.lock = None
        BY RestingType DEF Thread
    <2>3. th' = [th EXCEPT ![p] = u]
        BY <1>4 DEF Drop
    <2>. HIDE DEF u
    <2>4. /\ th' \in [Actors -> Thread] /\ th'[p] = u
          /\ \A b \in Actors \ {p} : th'[b] = th[b]
        BY <1>1, <2>1, <2>3 DEF TypeOK
    <2>5. TypeOK'
        BY <1>2, <2>4 DEF TypeOK
    <2>6. RoleOK(p, u)
        BY <2>2 DEF RoleOK, Ending, PvpEndingAssumption
    <2>. QED
        BY <1>1, <1>2, <2>2, <2>4, <2>5, <2>6, OneSteps DEF Ending
<1>. QED
    BY <1>3, <1>4

\* A reconnection touches two threads: the player's and the watchdog.
LEMMA BackIInv ==
    ASSUME PvpEndingAssumption, IInv, NEW p \in Players, Back(p)
    PROVE  IInv'
<1>. USE DEF IInv
<1>1. /\ p \in Actors /\ p # Dog /\ Dog \in Actors
      /\ th[p].pc = "idle"
    BY DEF Back, Actors, PvpEndingAssumption
<1>. DEFINE u == [Resting EXCEPT !.pc = "save", !.data = row.data]
            w == [th[Dog] EXCEPT !.pc = IF @ = "off" THEN "look" ELSE @]
<1>2. u \in Thread
    BY RestingType DEF TypeOK, Thread, Stage
<1>3. u.pc = "save" /\ u.port = None /\ u.lock = None
    BY RestingType DEF Thread
<1>4. /\ w \in Thread /\ w.port = th[Dog].port /\ w.lock = th[Dog].lock
      /\ w.loser = th[Dog].loser
      /\ w.pc \in Ending <=> th[Dog].pc \in Ending
      /\ w.pc \in {"look"} \cup Ending
      /\ w.pc \in Ending => w.pc = th[Dog].pc
    <2>1. PICK t \in Thread : t = th[Dog]
        BY <1>1 DEF TypeOK
    <2>2. RoleOK(Dog, t)
        BY <1>1, <2>1 DEF RolesOK
    <2>3. CASE t.pc = "off"
        <3>. DEFINE x == [t EXCEPT !.pc = "look"]
        <3>1. x \in Thread
            BY DEF Thread, Stage
        <3>2. x.pc = "look" /\ x.port = t.port /\ x.lock = t.lock /\ x.loser = t.loser
            BY DEF Thread
        <3>3. w = x
            BY <2>1, <2>3
        <3>. HIDE DEF x, w
        <3>. QED
            BY <2>1, <2>3, <3>1, <3>2, <3>3 DEF Ending
    <2>4. CASE t.pc # "off"
        <3>1. w = t
            BY <2>1, <2>4 DEF Thread
        <3>. HIDE DEF w
        <3>. QED
            BY <2>1, <2>2, <2>4, <3>1 DEF Ending, RoleOK
    <2>. QED
        BY <2>3, <2>4
<1>5. /\ th' = [th EXCEPT ![p] = u, ![Dog] = w]
      /\ online' = online \cup {p} /\ asks' = [asks EXCEPT ![p] = @ + 1]
      /\ UNCHANGED <<row, entry, shared, ports, match, told, crashed>>
    BY <1>1 DEF Back, TypeOK
<1>. HIDE DEF u, w
<1>6. /\ th' \in [Actors -> Thread] /\ th'[p] = u /\ th'[Dog] = w
      /\ \A b \in Actors \ {p, Dog} : th'[b] = th[b]
    BY <1>1, <1>2, <1>4, <1>5 DEF TypeOK
<1>7. asks' \in [Players -> 0 .. MaxAsks]
    BY DEF Back, TypeOK, PvpEndingAssumption
<1>8. TypeOK'
    BY <1>5, <1>6, <1>7 DEF TypeOK
<1>9. RolesOK'
    <2>1. RoleOK(p, u)
        BY <1>1, <1>3 DEF RoleOK, Ending
    <2>2. RoleOK(Dog, w)
        BY <1>1, <1>4 DEF RoleOK, RolesOK, Ending, PvpEndingAssumption
    <2>3. \A b \in Actors : RoleOK(b, th'[b])
        BY <1>6, <2>1, <2>2 DEF RolesOK
    <2>. QED
        BY <2>3 DEF RolesOK, RoleOK
<1>10. Inside' = Inside /\ p \notin Inside
    BY <1>1, <1>3, <1>4, <1>6 DEF Inside, Ending
<1>11. LocksOK'
    <2>1. ASSUME told = {} PROVE \A a \in Actors : th'[a].lock \in {None, entry}
        BY <1>1, <1>3, <1>4, <1>6, <2>1 DEF LocksOK
    <2>2. \A a \in Inside : th'[a].lock = th[a].lock
        BY <1>4, <1>6, <1>10 DEF Inside
    <2>. QED
        BY <1>5, <1>10, <2>1, <2>2 DEF LocksOK
<1>12. RecordOK'
    <2>1. \A a \in Inside : th'[a].loser = th[a].loser /\ th'[a].pc = th[a].pc
        BY <1>4, <1>6, <1>10 DEF Inside, Ending
    <2>2. \A a \in Actors : /\ th'[a].pc = "record" => th[a].pc = "record"
                            /\ th'[a].pc = "tell" => th[a].pc = "tell"
        BY <1>10, <2>1 DEF Inside
    <2>. QED
        BY <1>5, <1>10, <2>1, <2>2 DEF RecordOK, VerdictIsRecord
<1>. QED
    BY <1>8, <1>9, <1>11, <1>12

LEMMA LookIInv ==
    ASSUME PvpEndingAssumption, IInv, Look
    PROVE  IInv'
<1>. USE DEF IInv
<1>. DEFINE d == Flush(row.data)
<1>1. d \in Checkpoint
    BY FlushType DEF TypeOK
<1>2. PICK t \in Thread : t = th[Dog]
    BY DEF TypeOK, Actors
<1>3. /\ Dog \in Actors /\ t.pc = "look" /\ t.port = None
      /\ t.lock # None /\ Free(t.lock)
      /\ UNCHANGED <<entry, shared, ports, online, match, told, asks, crashed>>
    BY <1>2 DEF Look, Actors, RolesOK, RoleOK
<1>. PICK s \in {"record", "tell"} : s = AfterRead
    BY DEF AfterRead
<1>4. \/ /\ th' = [th EXCEPT ![Dog] = [Resting EXCEPT !.pc = "off"]]
         /\ row' = row
      \/ /\ th' = [th EXCEPT ![Dog].lock = None]
         /\ row' = [over |-> FALSE, data |-> d]
      \/ /\ th' = [th EXCEPT ![Dog].pc = s, ![Dog].loser = d.pri, ![Dog].data = d]
         /\ row' = [over |-> FALSE, data |-> d]
    BY DEF Look, Saved
<1>. HIDE DEF d
<1>5. CASE /\ th' = [th EXCEPT ![Dog] = [Resting EXCEPT !.pc = "off"]]
           /\ row' = row
    <2>. DEFINE u == [Resting EXCEPT !.pc = "off"]
    <2>1. u \in Thread
        BY RestingType DEF Thread, Stage
    <2>2. u.pc = "off" /\ u.port = None /\ u.lock = None
        BY RestingType DEF Thread
    <2>3. th' = [th EXCEPT ![Dog] = u]
        BY <1>5
    <2>. HIDE DEF u
    <2>4. /\ th' \in [Actors -> Thread] /\ th'[Dog] = u
          /\ \A b \in Actors \ {Dog} : th'[b] = th[b]
        BY <1>3, <2>1, <2>3 DEF TypeOK
    <2>5. TypeOK'
        BY <1>3, <1>5, <2>4 DEF TypeOK
    <2>6. RoleOK(Dog, u)
        BY <2>2 DEF RoleOK
    <2>. QED
        BY <1>2, <1>3, <1>5, <2>2, <2>4, <2>5, <2>6, OneSteps DEF Ending
<1>6. CASE /\ th' = [th EXCEPT ![Dog].lock = None]
           /\ row' = [over |-> FALSE, data |-> d]
    <2>. DEFINE u == [t EXCEPT !.lock = None]
    <2>1. u \in Thread
        BY DEF Thread
    <2>2. u.pc = "look" /\ u.port = None /\ u.lock = None
        BY <1>3 DEF Thread
    <2>3. th' = [th EXCEPT ![Dog] = u]
        BY <1>2, <1>6 DEF TypeOK
    <2>. HIDE DEF u
    <2>4. /\ th' \in [Actors -> Thread] /\ th'[Dog] = u
          /\ \A b \in Actors \ {Dog} : th'[b] = th[b]
        BY <1>3, <2>1, <2>3 DEF TypeOK
    <2>5. TypeOK'
        BY <1>1, <1>3, <1>6, <2>4 DEF TypeOK
    <2>6. RoleOK(Dog, u)
        BY <2>2 DEF RoleOK
    <2>. QED
        BY <1>2, <1>3, <1>6, <2>2, <2>4, <2>5, <2>6, OneSteps DEF Ending
<1>7. CASE /\ th' = [th EXCEPT ![Dog].pc = s, ![Dog].loser = d.pri, ![Dog].data = d]
           /\ row' = [over |-> FALSE, data |-> d]
    <2>. DEFINE u == [t EXCEPT !.pc = s, !.loser = d.pri, !.data = d]
    <2>1. d.pri \in Players
        BY <1>1 DEF Checkpoint
    <2>2. u \in Thread
        BY <1>1, <2>1 DEF Thread, Stage
    <2>3. u.pc = s /\ u.port = None /\ u.lock = t.lock /\ u.loser = d.pri
        BY <1>3 DEF Thread
    <2>4. th' = [th EXCEPT ![Dog] = u]
        BY <1>2, <1>7 DEF TypeOK
    <2>. HIDE DEF u
    <2>5. /\ th' \in [Actors -> Thread] /\ th'[Dog] = u
          /\ \A b \in Actors \ {Dog} : th'[b] = th[b]
        BY <1>3, <2>2, <2>4 DEF TypeOK
    <2>6. TypeOK'
        BY <1>1, <1>3, <1>7, <2>5 DEF TypeOK
    <2>7. RoleOK(Dog, u)
        BY <2>1, <2>3 DEF RoleOK, Ending
    <2>8. LocksOK'
        BY <1>2, <1>3, <2>3, <2>5, AloneInside DEF LocksOK, Inside
    <2>9. s = "record" <=> match = NoOne
        BY DEF AfterRead, Undecided
    <2>10. RecordOK'
        BY <1>2, <1>3, <2>3, <2>5, <2>9, EndingStarts
    <2>. QED
        BY <1>3, <2>5, <2>6, <2>7, <2>8, <2>10, OneSteps
<1>. QED
    BY <1>4, <1>5, <1>6, <1>7

LEMMA TickIInv ==
    ASSUME PvpEndingAssumption, IInv, Tick
    PROVE  IInv'
<1>. USE DEF IInv
<1>1. \A a \in Actors :
          /\ th'[a] \in Thread
          /\ th'[a].pc = th[a].pc /\ th'[a].port = th[a].port
          /\ th'[a].lock = th[a].lock /\ th'[a].loser = th[a].loser
    <2>. TAKE a \in Actors
    <2>1. PICK t \in Thread : t = th[a]
        BY DEF TypeOK
    <2>2. Older(t.data) \in Checkpoint
        BY OlderType DEF Thread
    <2>. DEFINE u == [t EXCEPT !.data = Older(t.data)]
    <2>3. u \in Thread
        BY <2>2 DEF Thread
    <2>4. u.pc = t.pc /\ u.port = t.port /\ u.lock = t.lock /\ u.loser = t.loser
        BY DEF Thread
    <2>5. th'[a] \in {t, u}
        BY <2>1 DEF Tick
    <2>. HIDE DEF u
    <2>. QED
        BY <2>1, <2>3, <2>4, <2>5
<1>2. th' \in [Actors -> Thread]
    BY <1>1 DEF Tick
<1>3. row' \in [over : BOOLEAN, data : Checkpoint]
    <2>1. PICK r \in [over : BOOLEAN, data : Checkpoint] : r = row
        BY DEF TypeOK
    <2>2. Older(r.data) \in Checkpoint
        BY OlderType
    <2>. QED
        BY <2>1, <2>2 DEF Tick
<1>4. ports' \in [Ports -> Checkpoint]
    <2>1. [i \in Ports |-> Older(ports[i])] \in [Ports -> Checkpoint]
        BY OlderType DEF TypeOK
    <2>. QED
        BY <2>1, ReachableType DEF Tick
<1>5. TypeOK'
    BY <1>2, <1>3, <1>4 DEF Tick, TypeOK
<1>6. RolesOK'
    BY <1>1 DEF RolesOK, RoleOK
<1>7. LocksOK'
    BY <1>1 DEF Tick, LocksOK, Inside
<1>8. RecordOK'
    <2>1. Inside' = Inside
        BY <1>1 DEF Inside
    <2>. QED
        BY <1>1, <2>1 DEF Tick, RecordOK, VerdictIsRecord, Inside
<1>. QED
    BY <1>5, <1>6, <1>7, <1>8

LEMMA CrashIInv ==
    ASSUME PvpEndingAssumption, IInv, Crash
    PROVE  IInv'
<1>. USE DEF IInv
<1>. DEFINE u == [Resting EXCEPT !.pc = "off"]
<1>1. u \in Thread /\ u.pc = "off" /\ u.port = None /\ u.lock = None
    <2>1. u \in Thread
        BY RestingType DEF Thread, Stage
    <2>2. u.pc = "off" /\ u.port = None /\ u.lock = None
        BY RestingType DEF Thread
    <2>. QED
        BY <2>1, <2>2
<1>2. th' = [a \in Actors |-> IF a = Dog THEN u ELSE Resting]
    BY DEF Crash
<1>. HIDE DEF u
<1>3. /\ th' \in [Actors -> Thread]
      /\ \A a \in Actors : th'[a] = IF a = Dog THEN u ELSE Resting
    BY <1>1, <1>2, RestingType
<1>4. ports' \in [Ports -> Checkpoint]
    BY OpeningType DEF Crash
<1>5. TypeOK'
    BY <1>3, <1>4 DEF Crash, TypeOK
<1>6. RolesOK'
    BY <1>1, <1>3, RestingType DEF RolesOK, RoleOK, Ending
<1>7. LocksOK'
    BY <1>1, <1>3, RestingType DEF LocksOK, Inside
<1>8. RecordOK'
    BY <1>1, <1>3, RestingType DEF Crash, RecordOK, IInv
<1>. QED
    BY <1>5, <1>6, <1>7, <1>8

-----------------------------------------------------------------------------
(* The theorems. *)

LEMMA StepIInv ==
    ASSUME PvpEndingAssumption, IInv, [Next]_vars
    PROVE  IInv'
<1>1. ASSUME NEW p \in Players, NEW k \in Requests, Ask(p, k) PROVE IInv'
    BY <1>1, AskIInv
<1>2. ASSUME NEW p \in Players, Serve(p) PROVE IInv'
    BY <1>2, AttachIInv, RefuseIInv, PassIInv, EndIInv, SaveIInv DEF Serve
<1>3. ASSUME NEW p \in Players, Drop(p) \/ Back(p) PROVE IInv'
    BY <1>3, DropIInv, BackIInv
<1>4. ASSUME NEW a \in Actors, Work(a) PROVE IInv'
    BY <1>4, TakeLockIInv, RecordIInv, TellIInv, UnregisterIInv DEF Work
<1>5. CASE Look \/ Tick \/ Crash
    BY <1>5, LookIInv, TickIInv, CrashIInv
<1>6. CASE UNCHANGED vars
    BY <1>6 DEF vars, IInv, TypeOK, RolesOK, RoleOK, LocksOK, RecordOK,
                VerdictIsRecord, Inside
<1>. QED
    BY <1>1, <1>2, <1>3, <1>4, <1>5, <1>6 DEF Next

\* The invariant of the ending holds throughout (services/tournament_game.py).
THEOREM EndingInvariant == Spec => []IInv
<1>1. Init => IInv
    BY InitIInv, PvpEndingAssumption
<1>2. IInv /\ [Next]_vars => IInv'
    BY StepIInv, PvpEndingAssumption
<1>. QED
    BY <1>1, <1>2, PTL DEF Spec

\* Every variable keeps its type: in particular a request always finds the
\* port it works on, and there is always a lock to hand out.
THEOREM TypeCorrect == Spec => []TypeOK
<1>1. IInv => TypeOK
    BY DEF IInv
<1>. QED
    BY <1>1, EndingInvariant, PTL

\* Until a result is announced, pvp_session_lock lets one actor at a time end
\* the game, however the requests, the watchdog, dropped connections and a
\* restart are interleaved.
THEOREM OneEndsAtATime == Spec => []OneInsideUntilEnd
<1>1. ASSUME IInv PROVE OneInsideUntilEnd
    <2>1. CASE Inside = {}
        <3>1. Cardinality(Inside) = 0
            BY <2>1, FS_EmptySet
        <3>. QED
            BY <3>1 DEF OneInsideUntilEnd
    <2>2. CASE told = {} /\ Inside # {}
        <3>1. PICK a \in Inside : Inside = {a}
            BY <1>1, <2>2 DEF IInv, LocksOK
        <3>2. Cardinality(Inside) = 1
            BY <3>1, FS_Singleton
        <3>. QED
            BY <3>2 DEF OneInsideUntilEnd
    <2>. QED
        BY <2>1, <2>2 DEF OneInsideUntilEnd
<1>. QED
    BY <1>1, EndingInvariant, PTL

\* As long as the server is not restarted in the middle of an ending, the
\* result tournament_matches records is one the clients were told.
THEOREM AnnouncedIsRecorded == Spec => []VerdictIsRecord
<1>1. IInv => VerdictIsRecord
    BY DEF IInv, RecordOK, VerdictIsRecord
<1>. QED
    BY <1>1, EndingInvariant, PTL

\* A recorded result is never replaced, whoever ends the game again: the
\* request that was on its way, the watchdog, or a client after a restart.
\* The match is read before it is written, and whoever has read it as open
\* writes it before the lock lets anybody else read it.
THEOREM ResultIsFinal == Spec => RecordStands
<1>1. IInv /\ [Next]_vars => [match # NoOne => match' = match]_vars
  <2> SUFFICES ASSUME IInv, [Next]_vars, match # NoOne
               PROVE  match' = match
    OBVIOUS
  <2>1. ASSUME NEW p \in Players, NEW k \in Requests,
               Ask(p, k) \/ Serve(p) \/ Drop(p) \/ Back(p)
        PROVE  match' = match
    BY <2>1 DEF Ask, Serve, Attach, Refuse, Pass, End, Handoff, Save, Drop, Back
  <2>2. ASSUME NEW a \in Actors, Record(a)
        PROVE  FALSE
    BY <2>2 DEF Record, IInv, RecordOK
  <2>3. ASSUME NEW a \in Actors, Work(a)
        PROVE  match' = match
    BY <2>2, <2>3 DEF Work, TakeLock, Tell, Unregister
  <2>4. CASE Look \/ Tick \/ Crash
    BY <2>4 DEF Look, Tick, Crash
  <2>5. CASE UNCHANGED vars
    BY <2>5 DEF vars
  <2>6. "pass" \in Requests
    BY DEF Requests
  <2> QED BY <2>1, <2>3, <2>4, <2>5, <2>6 DEF Next
<1> QED BY <1>1, EndingInvariant, PTL DEF Spec, RecordStands

-----------------------------------------------------------------------------
(* While nothing breaks. *)

\* No connection is lost, no server restarts, no client comes back.
Calm == Faults = {} /\ "back" \notin Kinds

\* Until a result is announced there is one port, the row is its checkpoint,
\* and whoever the watchdog is about to announce has kept that port waiting.
OnePort == told = {} =>
    /\ shared \in Ports
    /\ row.data = ports[shared]
    /\ ports[shared].pri = ports[shared].win
    /\ \A p \in Players : th[p].pc \in {"act", "record", "tell"} => th[p].port = shared
    /\ th[Dog].pc \in {"record", "tell"} => /\ ports[shared].pri = th[Dog].loser
                                            /\ ports[shared].age = Patience

\* The stages a calm game never gets to, or only when it is decided.
CalmStages ==
    /\ \A p \in Players : th[p].pc \notin {"handoff", "save"}
    /\ \A a \in Actors : th[a].pc = "tail" => told # {}

QuickInv == OnePort /\ CalmStages

\* A checkpoint whose window is that of the player with priority is flushed.
LEMMA Flushed ==
    ASSUME PvpEndingAssumption, NEW d \in Checkpoint
    PROVE  /\ d.pri = d.win => Flush(d) = d
           /\ Flush(d).pri = d.pri /\ Flush(d).win = d.pri
BY DEF Flush, FlushAlways, Checkpoint

\* A port that is shared is not forgotten.
LEMMA SharedStays ==
    ASSUME NEW ps, NEW s \in Ports, NEW t
    PROVE  Reachable(ps, s, t)[s] = ps[s]
BY DEF Reachable

\* Nobody can enter while the watchdog, or anybody else, is inside.
LEMMA DoorIsShut ==
    ASSUME IInv, told = {}, NEW a \in Actors, NEW b \in Inside,
           th[a].lock # None, Free(th[a].lock)
    PROVE  FALSE
<1>1. b \in Actors /\ th[b].lock # None /\ th[b].lock \in {None, entry}
    BY DEF IInv, LocksOK, Inside
<1>2. th[a].lock = th[b].lock
    BY <1>1 DEF IInv, LocksOK
<1>. QED
    BY <1>2 DEF Free

\* Every step of a calm game keeps the one port and the row together.
LEMMA QuickStep ==
    ASSUME PvpEndingAssumption, Calm, IInv, QuickInv, [Next]_vars
    PROVE  QuickInv'
<1>1. /\ \A a \in Actors : th[a] \in Thread
      /\ th \in [Actors -> Thread] /\ ports \in [Ports -> Checkpoint]
      /\ row \in [over : BOOLEAN, data : Checkpoint]
      /\ Dog \in Actors /\ Dog \notin Players /\ Players \subseteq Actors
      /\ th[Dog].pc \in {"look", "off", "record", "tell", "tail"}
    BY DEF IInv, TypeOK, RolesOK, RoleOK, Actors, PvpEndingAssumption, Ending
\* A step of one player that leaves no thread in the stages of an ending.
<1>2. ASSUME NEW p \in Players, NEW u, th' = [th EXCEPT ![p] = u],
             u.pc \notin {"handoff", "save", "tail"},
             told' = told, shared' = shared,
             told = {} => /\ u.pc \in {"act", "record", "tell"} => u.port = shared
                          /\ row'.data = ports'[shared]
                          /\ ports'[shared].pri = ports'[shared].win
                          /\ \/ ports'[shared] = ports[shared]
                             \/ th[Dog].pc \notin {"record", "tell"}
      PROVE  QuickInv'
    <2>1. /\ \A a \in Actors \ {p} : th'[a] = th[a]
          /\ th'[p] = u /\ th'[Dog] = th[Dog]
        BY <1>1, <1>2
    <2>2. CalmStages'
        BY <1>1, <1>2, <2>1 DEF QuickInv, CalmStages
    <2>3. OnePort'
        BY <1>1, <1>2, <2>1 DEF QuickInv, OnePort
    <2>. QED
        BY <2>2, <2>3 DEF QuickInv
<1>3. ASSUME NEW p \in Players, NEW k \in Requests, Ask(p, k) PROVE QuickInv'
    <2>. DEFINE u == [Resting EXCEPT !.pc = "attach", !.kind = k,
                                     !.over = row.over, !.data = row.data]
    <2>1. u.pc = "attach"
        BY RestingType DEF Thread
    <2>2. th' = [th EXCEPT ![p] = u] /\ UNCHANGED <<row, shared, ports, told>>
        BY <1>3 DEF Ask
    <2>. HIDE DEF u
    <2>. QED
        BY <1>2, <2>1, <2>2 DEF QuickInv, OnePort
<1>4. ASSUME NEW a \in Actors, TakeLock(a) PROVE QuickInv'
    <2>. DEFINE u == [th[a] EXCEPT !.lock = entry']
    <2>1. th' = [th EXCEPT ![a] = u] /\ UNCHANGED <<row, shared, ports, told>>
        BY <1>4 DEF TakeLock
    <2>2. u.pc = th[a].pc /\ u.port = th[a].port /\ u.loser = th[a].loser
        BY <1>1 DEF Thread
    <2>. HIDE DEF u
    <2>3. \A b \in Actors : /\ th'[b].pc = th[b].pc /\ th'[b].port = th[b].port
                            /\ th'[b].loser = th[b].loser
        BY <1>1, <2>1, <2>2
    <2>. QED
        BY <1>1, <2>1, <2>3 DEF QuickInv, OnePort, CalmStages
<1>5. ASSUME NEW p \in Players, Attach(p) PROVE QuickInv'
    <2>1. CASE shared # None
        <3>. DEFINE u == [th[p] EXCEPT !.pc = "act", !.lock = None, !.port = shared]
        <3>1. th' = [th EXCEPT ![p] = u] /\ UNCHANGED <<row, shared, ports, told>>
            BY <1>1, <1>5, <2>1 DEF Attach, CachedPort
        <3>2. u.pc = "act" /\ u.port = shared
            BY <1>1 DEF Thread
        <3>. HIDE DEF u
        <3>. QED
            BY <1>2, <3>1, <3>2 DEF QuickInv, OnePort
    <2>2. CASE shared = None
        <3>1. told # {} /\ told' = told
            BY <1>5, <2>2 DEF Attach, QuickInv, OnePort, Ports, None
        <3>. DEFINE u == [th[p] EXCEPT !.pc = "act", !.lock = None,
                                       !.port = NewPort, !.mine = TRUE]
        <3>2. th' = [th EXCEPT ![p] = u]
            BY <1>1, <1>5, <2>2 DEF Attach, CachedPort
        <3>3. u.pc = "act"
            BY <1>1 DEF Thread
        <3>. HIDE DEF u
        <3>4. CalmStages'
            BY <1>1, <3>1, <3>2, <3>3 DEF QuickInv, CalmStages
        <3>. QED
            BY <3>1, <3>4 DEF QuickInv, OnePort
    <2>. QED
        BY <2>1, <2>2
<1>6. ASSUME NEW p \in Players, Refuse(p) PROVE QuickInv'
    <2>1. /\ th[p].pc = "act" /\ th' = [th EXCEPT ![p] = Resting]
          /\ row'.data = ports[th[p].port] /\ UNCHANGED <<shared, told>>
          /\ ports' = Reachable(ports, shared, th')
        BY <1>6 DEF Refuse, Finish, Saved
    <2>2. Resting.pc = "idle"
        BY DEF Resting
    <2>3. told = {} => /\ th[p].port = shared /\ shared \in Ports
                       /\ ports'[shared] = ports[shared]
                       /\ ports[shared].pri = ports[shared].win
        BY <2>1, SharedStays DEF QuickInv, OnePort
    <2>. QED
        BY <1>2, <2>1, <2>2, <2>3
<1>7. ASSUME NEW p \in Players, Pass(p) PROVE QuickInv'
    <2>. DEFINE i == th[p].port
                d == Flush([ports[i] EXCEPT !.pri = Other(p)])
    <2>1. /\ th[p].pc = "act" /\ th[p].lock # None /\ Free(th[p].lock)
          /\ th' = [th EXCEPT ![p] = Resting]
          /\ row'.data = d /\ UNCHANGED <<shared, told>>
          /\ ports' = Reachable([ports EXCEPT ![i] = d], shared, th')
        BY <1>7 DEF Pass, Finish, Saved
    <2>2. Resting.pc = "idle"
        BY DEF Resting
    <2>3. ASSUME told = {}
          PROVE  /\ ports'[shared] = d /\ d.pri = d.win
                 /\ th[Dog].pc \notin {"record", "tell"}
        <3>1. i = shared /\ shared \in Ports
            BY <2>1, <2>3 DEF QuickInv, OnePort
        <3>2. [ports[i] EXCEPT !.pri = Other(p)] \in Checkpoint
            BY <1>1, <3>1, OtherType DEF Checkpoint
        <3>3. d.pri = d.win
            BY <3>2, Flushed
        <3>. HIDE DEF d
        <3>4. ports'[shared] = d
            <4>. DEFINE ps == [ports EXCEPT ![i] = d]
            <4>1. ps[shared] = d
                BY <1>1, <3>1
            <4>2. ports' = Reachable(ps, shared, th')
                BY <2>1
            <4>. HIDE DEF ps
            <4>. QED
                BY <3>1, <4>1, <4>2, SharedStays
        <3>5. ASSUME th[Dog].pc \in {"record", "tell"} PROVE FALSE
            BY <1>1, <2>1, <2>3, <3>5, DoorIsShut DEF Inside
        <3>. QED
            BY <3>3, <3>4, <3>5
    <2>. HIDE DEF d
    <2>. QED
        BY <1>2, <2>1, <2>2, <2>3
<1>8. ASSUME NEW p \in Players, End(p) PROVE QuickInv'
    <2>. DEFINE l == IF th[p].kind = "quit" THEN p ELSE Other(p)
                u == [th[p] EXCEPT !.pc = AfterRead, !.loser = l]
    <2>1. /\ th[p].pc = "act" /\ th' = [th EXCEPT ![p] = u]
          /\ row'.data = ports[th[p].port] /\ UNCHANGED <<shared, told, ports>>
        BY <1>1, <1>8 DEF End, Saved
    <2>2. u.pc \in {"record", "tell"} /\ u.port = th[p].port
        BY <1>1 DEF Thread, AfterRead
    <2>. HIDE DEF u
    <2>. QED
        BY <1>2, <2>1, <2>2 DEF QuickInv, OnePort
<1>0. ASSUME NEW a \in Actors, Record(a) PROVE QuickInv'
    <2>. DEFINE u == [th[a] EXCEPT !.pc = "tell"]
    <2>1. /\ th[a].pc = "record" /\ th' = [th EXCEPT ![a] = u]
          /\ UNCHANGED <<row, shared, ports, told>>
        BY <1>0 DEF Record
    <2>2. u.pc = "tell" /\ u.port = th[a].port /\ u.loser = th[a].loser
        BY <1>1 DEF Thread
    <2>. HIDE DEF u
    <2>3. \A b \in Actors :
              /\ th'[b].port = th[b].port /\ th'[b].loser = th[b].loser
              /\ \/ th'[b].pc = th[b].pc
                 \/ th'[b].pc = "tell" /\ th[b].pc = "record"
        BY <1>1, <2>1, <2>2
    <2>4. CalmStages'
        BY <1>1, <2>1, <2>3 DEF QuickInv, CalmStages
    <2>5. OnePort'
        BY <1>1, <2>1, <2>3 DEF QuickInv, OnePort
    <2>. QED
        BY <2>4, <2>5 DEF QuickInv
<1>9. ASSUME NEW a \in Actors, Tell(a) PROVE QuickInv'
    <2>. DEFINE u == [th[a] EXCEPT !.pc = "tail", !.over = (a = Dog) \/ th[a].mine]
    <2>1. told' # {} /\ told \subseteq told' /\ th' = [th EXCEPT ![a] = u]
        BY <1>1, <1>9 DEF Tell
    <2>2. u.pc = "tail"
        BY <1>1 DEF Thread
    <2>. HIDE DEF u
    <2>3. CalmStages'
        BY <1>1, <2>1, <2>2 DEF QuickInv, CalmStages
    <2>. QED
        BY <2>1, <2>3 DEF QuickInv, OnePort
<1>10. ASSUME NEW a \in Actors, Unregister(a) PROVE QuickInv'
    <2>. DEFINE u == IF a = Dog THEN [Resting EXCEPT !.pc = "off"] ELSE Resting
    <2>1. told # {} /\ told' = told /\ th' = [th EXCEPT ![a] = u]
        BY <1>10 DEF Unregister, Finish, QuickInv, CalmStages
    <2>2. u.pc \in {"off", "idle"}
        BY RestingType DEF Thread
    <2>. HIDE DEF u
    <2>3. CalmStages'
        BY <1>1, <2>1, <2>2 DEF QuickInv, CalmStages
    <2>. QED
        BY <2>1, <2>3 DEF QuickInv, OnePort
<1>11. CASE Look
    <2>. DEFINE d == Flush(row.data)
    <2>1. /\ th[Dog].pc = "look" /\ UNCHANGED <<shared, ports, told>>
          /\ \/ row' = row \/ row'.data = d
        BY <1>11 DEF Look, Saved
    <2>2. /\ \A p \in Players : th'[p] = th[p]
          /\ th'[Dog].pc \in {"off", "look", "record", "tell"}
          /\ th'[Dog].pc \in {"record", "tell"} => th'[Dog].loser = d.pri /\ TimedOut(d)
        <3>1. PICK u : /\ th' = [th EXCEPT ![Dog] = u]
                       /\ u.pc \in {"off", "look", "record", "tell"}
                       /\ u.pc \in {"record", "tell"} => u.loser = d.pri /\ TimedOut(d)
            <4>. DEFINE u1 == [Resting EXCEPT !.pc = "off"]
                        u2 == [th[Dog] EXCEPT !.lock = None]
                        u3 == [th[Dog] EXCEPT !.pc = AfterRead, !.loser = d.pri, !.data = d]
            <4>1. u1.pc = "off"
                BY RestingType DEF Thread
            <4>2. u2.pc = "look"
                BY <1>1, <2>1 DEF Thread
            <4>3. u3.pc \in {"record", "tell"} /\ u3.loser = d.pri
                BY <1>1 DEF Thread, AfterRead
            <4>4. \/ th' = [th EXCEPT ![Dog] = u1] \/ th' = [th EXCEPT ![Dog] = u2]
                  \/ th' = [th EXCEPT ![Dog] = u3] /\ TimedOut(d)
                BY <1>1, <1>11 DEF Look
            <4>. HIDE DEF u1, u2, u3, d
            <4>. QED
                BY <4>1, <4>2, <4>3, <4>4
        <3>. HIDE DEF d
        <3>. QED
            BY <1>1, <3>1
    <2>3. told = {} => d = ports[shared] /\ row'.data = ports[shared]
        BY <1>1, <2>1, Flushed DEF QuickInv, OnePort
    <2>. HIDE DEF d
    <2>4. OnePort'
        BY <2>1, <2>2, <2>3 DEF QuickInv, OnePort, TimedOut
    <2>5. CalmStages'
        BY <1>1, <2>1, <2>2 DEF QuickInv, CalmStages, Actors
    <2>. QED
        BY <2>4, <2>5 DEF QuickInv
<1>12. CASE Tick
    <2>1. UNCHANGED <<shared, told>>
        BY <1>12 DEF Tick
    <2>2. \A a \in Actors : /\ th'[a].pc = th[a].pc /\ th'[a].port = th[a].port
                            /\ th'[a].loser = th[a].loser
        <3> SUFFICES ASSUME NEW a \in Actors
                     PROVE  /\ th'[a].pc = th[a].pc /\ th'[a].port = th[a].port
                            /\ th'[a].loser = th[a].loser
            OBVIOUS
        <3>1. \/ th'[a] = th[a] \/ th'[a] = [th[a] EXCEPT !.data = Older(@)]
            BY <1>12 DEF Tick
        <3>. QED
            BY <1>1, <3>1 DEF Thread
    <2>3. CalmStages'
        BY <1>1, <2>1, <2>2 DEF QuickInv, CalmStages
    <2>4. ASSUME told = {}
          PROVE  row'.data = Older(ports[shared]) /\ ports'[shared] = Older(ports[shared])
        <3>1. shared \in Ports /\ row.data = ports[shared]
            BY <2>4 DEF QuickInv, OnePort
        <3>2. row'.data = Older(row.data)
            BY <1>1, <1>12 DEF Tick
        <3>3. ports' = Reachable([i \in Ports |-> Older(ports[i])], shared, th)
            BY <1>12 DEF Tick
        <3>. QED
            BY <3>1, <3>2, <3>3, SharedStays
    <2>5. \A d \in Checkpoint : /\ Older(d).pri = d.pri /\ Older(d).win = d.win
                                /\ d.age = Patience => Older(d).age = Patience
        BY DEF Older, Checkpoint
    <2>6. told = {} => ports[shared] \in Checkpoint
        BY <1>1 DEF QuickInv, OnePort
    <2>7. OnePort'
        BY <1>1, <2>1, <2>2, <2>4, <2>5, <2>6 DEF QuickInv, OnePort
    <2>. QED
        BY <2>3, <2>7 DEF QuickInv
<1>13. ASSUME NEW p \in Players, Handoff(p) \/ Save(p) PROVE FALSE
    BY <1>13 DEF Handoff, Save, QuickInv, CalmStages
<1>14. ASSUME NEW p \in Players, Drop(p) \/ Back(p) \/ Crash PROVE FALSE
    BY <1>14 DEF Drop, Back, Crash, Calm
<1>15. CASE UNCHANGED vars
    BY <1>15 DEF vars, QuickInv, OnePort, CalmStages
<1>16. Players # {}
    BY TwoPlayers
<1>. QED
    BY <1>0, <1>3, <1>4, <1>5, <1>6, <1>7, <1>8, <1>9, <1>10, <1>11, <1>12, <1>13, <1>14,
       <1>15, <1>16
    DEF Next, Serve, Work

LEMMA QuickInit ==
    ASSUME PvpEndingAssumption, Init
    PROVE  QuickInv
<1>1. Opening.pri = Opening.win
    BY DEF Opening
<1>2. /\ \A p \in Players : th[p] = Resting
      /\ th[Dog] = [Resting EXCEPT !.pc = "look"]
    BY DEF Init, Actors, PvpEndingAssumption
<1>3. Resting.pc = "idle" /\ [Resting EXCEPT !.pc = "look"].pc = "look"
    BY RestingType DEF Thread
<1>4. CalmStages
    BY <1>2, <1>3 DEF CalmStages, Actors
<1>5. OnePort
    <2>1. shared \in Ports /\ shared = 1
        BY DEF Init, Ports
    <2>2. row.data = Opening /\ ports[shared] = Opening
        BY <2>1 DEF Init
    <2>3. \A p \in Players : th[p].pc \notin {"act", "record", "tell"}
        BY <1>2, <1>3
    <2>4. th[Dog].pc \notin {"record", "tell"}
        BY <1>2, <1>3
    <2>. QED
        BY <1>1, <2>1, <2>2, <2>3, <2>4 DEF OnePort
<1>. QED
    BY <1>4, <1>5 DEF QuickInv

\* In a calm game the row and the one port agree throughout
\* (services/tournament_game.py).
THEOREM CalmInvariant ==
    ASSUME Calm
    PROVE  Spec => [](IInv /\ QuickInv)
<1>1. Init => IInv /\ QuickInv
    BY InitIInv, QuickInit, PvpEndingAssumption
<1>2. IInv /\ QuickInv /\ [Next]_vars => (IInv /\ QuickInv)'
    BY StepIInv, QuickStep, PvpEndingAssumption
<1>. QED
    BY <1>1, <1>2, PTL DEF Spec

\* While nothing breaks the row names the player the shared port waits for:
\* every save writes the port, and the watchdog's own flush changes nothing.
THEOREM RowNamesWhoIsAwaited ==
    ASSUME Calm
    PROVE  Spec => []RowFollowsPort
<1>1. QuickInv => RowFollowsPort
    BY DEF QuickInv, OnePort, RowFollowsPort
<1>. QED
    BY <1>1, CalmInvariant, PTL

\* While nothing breaks the watchdog times out only the player the scheduler
\* has been waiting for, and for as long as the inactivity limit: once it has
\* decided, the lock keeps every pass out until the result is announced.
THEOREM TimeoutsAreFair ==
    ASSUME Calm
    PROVE  Spec => []TimeoutIsEarned
<1>1. QuickInv => TimeoutIsEarned
    BY DEF QuickInv, OnePort, TimeoutIsEarned
<1>. QED
    BY <1>1, CalmInvariant, PTL

-----------------------------------------------------------------------------
(***************************************************************************)
(* The combats.                                                            *)
(***************************************************************************)

\* The members of a sequence in a set, one after the other.
Picking(g, s, ts, n) ==
    g = [i \in 0 .. n |-> IF i = 0 THEN <<>>
                          ELSE IF s[i] \in ts THEN Append(g[i - 1], s[i]) ELSE g[i - 1]]

LEMMA PickingExists ==
  ASSUME NEW S, NEW s \in Seq(S), NEW ts, NEW n \in Nat, n = Len(s)
  PROVE  \E g \in [0 .. n -> Seq(S)] : Picking(g, s, ts, n)
<1> DEFINE G == [p \in Seq(S) \X (1 .. n) |->
                   IF s[p[2]] \in ts THEN Append(p[1], s[p[2]]) ELSE p[1]]
<1>1. \A i \in 1 .. n : s[i] \in S
  OBVIOUS
<1>2. G \in [Seq(S) \X (1 .. n) -> Seq(S)] /\ <<>> \in Seq(S)
  BY <1>1
<1>3. \A q \in Seq(S), i \in 1 .. n :
         G[<<q, i>>] = IF s[i] \in ts THEN Append(q, s[i]) ELSE q
  BY <1>1
<1> HIDE DEF G
<1>4. PICK g \in [0 .. n -> Seq(S)] : Built(g, <<>>, G, n)
  BY <1>2, BuiltExists
<1>5. ASSUME NEW i \in 0 .. n, i # 0
      PROVE  G[<<g[i - 1], i>>] = IF s[i] \in ts THEN Append(g[i - 1], s[i]) ELSE g[i - 1]
  <2>1. i \in 1 .. n /\ g[i - 1] \in Seq(S)
    BY <1>5
  <2> QED
    BY <1>3, <2>1
<1>6. [i \in 0 .. n |-> IF i = 0 THEN <<>> ELSE G[<<g[i - 1], i>>]]
        = [i \in 0 .. n |-> IF i = 0 THEN <<>>
                          ELSE IF s[i] \in ts THEN Append(g[i - 1], s[i]) ELSE g[i - 1]]
  BY <1>5
<1> QED
  BY <1>4, <1>6 DEF Built, Picking

\* What is left of a sequence are its members in the set.
LEMMA AmongIs ==
  ASSUME NEW S, NEW s \in Seq(S), NEW ts
  PROVE  /\ Among(s, ts) \in Seq(S)
         /\ ToSet(Among(s, ts)) = ToSet(s) \cap ts
<1>1. PICK n \in Nat : n = Len(s)
  OBVIOUS
<1>2. Among(s, ts) = (CHOOSE g : Picking(g, s, ts, n))[n]
  BY <1>1 DEF Among, Picking
<1>3. PICK g : Picking(g, s, ts, n) /\ Among(s, ts) = g[n]
  <2>1. \E h : Picking(h, s, ts, n)
    BY <1>1, PickingExists
  <2> QED
    BY <1>2, <2>1
<1>4. /\ g[0] = <<>>
      /\ \A i \in 1 .. n : g[i] = IF s[i] \in ts THEN Append(g[i - 1], s[i]) ELSE g[i - 1]
  <2>1. g[0] = <<>>
    BY <1>1, <1>3 DEF Picking
  <2>2. ASSUME NEW i \in 1 .. n
        PROVE  g[i] = IF s[i] \in ts THEN Append(g[i - 1], s[i]) ELSE g[i - 1]
    <3>1. i \in 0 .. n /\ i # 0
      OBVIOUS
    <3> QED
      BY <1>3, <3>1 DEF Picking
  <2> QED
    BY <2>1, <2>2
<1>5. \A i \in 1 .. n : s[i] \in S
  BY <1>1
<1> DEFINE Right(i) == /\ g[i] \in Seq(S)
                       /\ \A x : x \in ToSet(g[i])
                             <=> \E k \in 1 .. i : s[k] = x /\ x \in ts
           T == {i \in 0 .. n : Right(i)}
<1>6. Right(0)
  <2>1. ToSet(<<>>) = {} /\ <<>> \in Seq(S)
    BY DEF ToSet
  <2>2. ToSet(g[0]) = {} /\ g[0] \in Seq(S)
    BY <1>4, <2>1
  <2>3. 1 .. 0 = {}
    OBVIOUS
  <2> QED
    BY <2>2, <2>3
<1>7. ASSUME NEW i \in 1 .. n, Right(i - 1) PROVE Right(i)
  <2>1. PICK q \in Seq(S) : q = g[i - 1]
    BY <1>7
  <2>2. \A x : x \in ToSet(q) <=> \E k \in 1 .. i - 1 : s[k] = x /\ x \in ts
    BY <1>7, <2>1
  <2>3. ToSet(Append(q, s[i])) = ToSet(q) \cup {s[i]}
    <3>1. DOMAIN Append(q, s[i]) = DOMAIN q \cup {Len(q) + 1} /\ DOMAIN q = 1 .. Len(q)
      BY <1>5
    <3>2. \A k \in DOMAIN q : Append(q, s[i])[k] = q[k]
      BY <1>5
    <3>3. Append(q, s[i])[Len(q) + 1] = s[i]
      BY <1>5
    <3> QED
      BY <3>1, <3>2, <3>3 DEF ToSet
  <2>4. 1 .. i = (1 .. i - 1) \cup {i}
    OBVIOUS
  <2>5. CASE s[i] \in ts
    <3>1. g[i] = Append(q, s[i])
      BY <1>4, <2>1, <2>5
    <3>2. g[i] \in Seq(S)
      BY <1>5, <3>1
    <3>3. \A x : x \in ToSet(g[i]) <=> \E k \in 1 .. i : s[k] = x /\ x \in ts
      BY <2>2, <2>3, <2>4, <2>5, <3>1
    <3> QED
      BY <3>2, <3>3
  <2>6. CASE s[i] \notin ts
    <3>1. g[i] = q
      BY <1>4, <2>1, <2>6
    <3>2. \A x : x \in ToSet(g[i]) <=> \E k \in 1 .. i : s[k] = x /\ x \in ts
      BY <2>2, <2>4, <2>6, <3>1
    <3> QED
      BY <3>1, <3>2
  <2> QED
    BY <2>5, <2>6
<1>8. n \in T
  <2> HIDE DEF Right
  <2>1. 0 \in T /\ \A i \in 1 .. n : i - 1 \in T => i \in T
    BY <1>1, <1>6, <1>7
  <2> HIDE DEF T
  <2>2. 0 .. n \subseteq T
    BY <1>1, <2>1, AllUpTo
  <2> QED
    BY <1>1, <2>2
<1>9. \A x : x \in ToSet(s) <=> \E k \in 1 .. n : s[k] = x
  BY <1>1 DEF ToSet
<1> QED
  BY <1>3, <1>8, <1>9

-----------------------------------------------------------------------------
(* How an attacker's damage is spent.                                        *)

LEMMA MinOfTwo ==
  ASSUME NEW x \in Nat, NEW y \in Nat
  PROVE  Min({x, y}) = IF x <= y THEN x ELSE y
<1>1. PICK m \in {x, y} : m = IF x <= y THEN x ELSE y
  OBVIOUS
<1>2. \A z \in {x, y} : (\A w \in {x, y} : z <= w) <=> z = m
  BY <1>1
<1>3. Min({x, y}) = CHOOSE z \in {x, y} : \A w \in {x, y} : z <= w
  BY DEF Min
<1> QED
  BY <1>1, <1>2, <1>3

\* Of c points, m[i] go to the i-th in the line, as long as there are any.
Spending(g, c, m, n) ==
    g = [i \in 0 .. n |-> IF i = 0 THEN 0 ELSE Min({c, g[i - 1] + m[i]})]

LEMMA SpendingExists ==
  ASSUME NEW n \in Nat, NEW c \in Nat, NEW m \in [1 .. n -> Nat]
  PROVE  \E g \in [0 .. n -> Nat] : Spending(g, c, m, n)
<1> DEFINE G == [p \in Nat \X (1 .. n) |-> Min({c, p[1] + m[p[2]]})]
<1>1. \A q \in Nat, i \in 1 .. n : m[i] \in Nat /\ Min({c, q + m[i]}) \in Nat
  <2> TAKE q \in Nat, i \in 1 .. n
  <2>1. m[i] \in Nat /\ q + m[i] \in Nat
    OBVIOUS
  <2> QED
    BY <2>1, MinOfTwo
<1>2. G \in [Nat \X (1 .. n) -> Nat]
  BY <1>1
<1>3. \A q \in Nat, i \in 1 .. n : G[<<q, i>>] = Min({c, q + m[i]})
  OBVIOUS
<1> HIDE DEF G
<1>4. PICK g \in [0 .. n -> Nat] : Built(g, 0, G, n)
  BY <1>2, BuiltExists
<1>5. ASSUME NEW i \in 0 .. n, i # 0
      PROVE  G[<<g[i - 1], i>>] = Min({c, g[i - 1] + m[i]})
  <2>1. i \in 1 .. n /\ g[i - 1] \in Nat
    BY <1>5
  <2> QED
    BY <1>3, <2>1
<1>6. [i \in 0 .. n |-> IF i = 0 THEN 0 ELSE G[<<g[i - 1], i>>]]
        = [i \in 0 .. n |-> IF i = 0 THEN 0 ELSE Min({c, g[i - 1] + m[i]})]
  BY <1>5
<1> QED
  BY <1>4, <1>6 DEF Built, Spending

\* What is spent grows up to c; and while there is some left, each in the line
\* has got its due.
LEMMA SpendingIs ==
  ASSUME NEW n \in Nat, NEW c \in Nat, NEW m \in [1 .. n -> Nat], NEW g, Spending(g, c, m, n)
  PROVE  /\ g \in [0 .. n -> 0 .. c]
         /\ \A i \in 1 .. n : g[i - 1] <= g[i]
         /\ g[n] < c => \A i \in 1 .. n : g[i] - g[i - 1] = m[i]
<1>1. g[0] = 0 /\ g = [i \in 0 .. n |-> g[i]]
  BY DEF Spending
<1>2. ASSUME NEW i \in 1 .. n
      PROVE  /\ g[i] = Min({c, g[i - 1] + m[i]})
             /\ m[i] \in Nat /\ i - 1 \in 0 .. n
  <2>1. i \in 0 .. n /\ i # 0 /\ i - 1 \in 0 .. n /\ m[i] \in Nat
    OBVIOUS
  <2>2. g[i] = IF i = 0 THEN 0 ELSE Min({c, g[i - 1] + m[i]})
    BY <2>1 DEF Spending
  <2> QED
    BY <2>1, <2>2
<1> DEFINE T == {i \in 0 .. n : g[i] \in 0 .. c}
<1>3. 0 \in T
  BY <1>1
<1>4. ASSUME NEW i \in 1 .. n, g[i - 1] \in 0 .. c
      PROVE  /\ g[i] \in 0 .. c /\ g[i - 1] <= g[i]
             /\ g[i] = c \/ g[i] - g[i - 1] = m[i]
             /\ g[i - 1] = c => g[i] = c
  <2>1. PICK x \in 0 .. c, y \in Nat : x = g[i - 1] /\ y = m[i]
    BY <1>2, <1>4
  <2>2. g[i] = IF c <= x + y THEN c ELSE x + y
    <3>1. PICK z \in Nat : z = x + y
      BY <2>1
    <3>2. g[i] = Min({c, z})
      BY <1>2, <2>1, <3>1
    <3> QED
      BY <3>1, <3>2, MinOfTwo
  <2> QED
    BY <2>1, <2>2
<1>5. \A i \in 0 .. n : g[i] \in 0 .. c
  <2>1. \A i \in 1 .. n : i - 1 \in T => i \in T
    BY <1>4
  <2> HIDE DEF T
  <2>2. 0 .. n \subseteq T
    BY <1>3, <2>1, AllUpTo
  <2> QED
    BY <2>2 DEF T
<1> HIDE DEF T
<1>6. \A i \in 1 .. n : i - 1 \in 0 .. n /\ g[i - 1] \in 0 .. c
  BY <1>5
<1>7. ASSUME NEW i \in 1 .. n, g[i] = c PROVE g[n] = c
  <2> DEFINE U == {j \in 0 .. n : j >= i => g[j] = c}
  <2>1. 0 \in U
    OBVIOUS
  <2>2. ASSUME NEW j \in 1 .. n, j - 1 \in U PROVE j \in U
    <3>1. CASE j - 1 >= i
      BY <1>4, <1>6, <2>2, <3>1
    <3>2. CASE j <= i
      BY <1>7, <3>2
    <3> QED
      BY <3>1, <3>2
  <2> HIDE DEF U
  <2>3. 0 .. n \subseteq U
    BY <2>1, <2>2, AllUpTo
  <2>4. n \in U
    BY <2>3
  <2> QED
    BY <2>4 DEF U
<1>8. ASSUME g[n] < c, NEW i \in 1 .. n PROVE g[i] - g[i - 1] = m[i]
  <2>1. g[i] # c
    BY <1>5, <1>7, <1>8
  <2> QED
    BY <1>4, <1>6, <2>1
<1>9. g \in [0 .. n -> 0 .. c]
  BY <1>1, <1>5
<1> QED
  BY <1>4, <1>6, <1>8, <1>9

LEMMA PositionIs ==
  ASSUME NEW S, NEW s \in Seq(S), NEW b \in ToSet(s)
  PROVE  /\ Position(s, b) \in 1 .. Len(s) /\ s[Position(s, b)] = b
         /\ \A j \in 1 .. Len(s) : s[j] = b => Position(s, b) <= j
<1> DEFINE T == {i \in DOMAIN s : s[i] = b}
<1>1. DOMAIN s = 1 .. Len(s) /\ Len(s) \in Nat
  OBVIOUS
<1>2. T \in SUBSET Nat /\ T # {}
  BY <1>1 DEF ToSet
<1>3. PICK i \in T : \A j \in T : i <= j
  <2> HIDE DEF T
  <2> QED
    BY <1>2, LeastNumber
<1>4. \E k \in DOMAIN s : s[k] = b /\ \A j \in DOMAIN s : s[j] = b => k <= j
  BY <1>3
<1> HIDE DEF T
<1>5. LET k == Position(s, b)
      IN  k \in DOMAIN s /\ s[k] = b /\ \A j \in DOMAIN s : s[j] = b => k <= j
  BY <1>4 DEF Position
<1> QED
  BY <1>1, <1>5

-----------------------------------------------------------------------------
(* A damage step, as the fight f describes it.                               *)

\* No troop has as much damage as it can take.
Healthy ==
    /\ warzone \subseteq Troops /\ damage \in [Troops -> Nat]
    /\ \A t \in Troops : damage[t] < Defense[t]

GoodFight(f) ==
    /\ f.who \subseteq Attackers
    /\ f.posts \in [Attackers -> Seq(Defenders)]
    /\ DOMAIN f.line \subseteq Attackers
    /\ \A a \in DOMAIN f.line : f.line[a] \in Seq(Defenders)

LEMMA LinesAre ==
  ASSUME NEW f, GoodFight(f), NEW a \in Attackers
  PROVE  /\ Line(f, a) \in Seq(Defenders)
         /\ Live(f, a) \in Seq(Defenders)
         /\ ToSet(Live(f, a)) = ToSet(Line(f, a)) \cap warzone
         /\ ToSet(Line(f, a)) \subseteq Defenders
<1>1. Line(f, a) \in Seq(Defenders)
  BY DEF GoodFight, Line
<1>2. ToSet(Line(f, a)) \subseteq Defenders
  BY <1>1 DEF ToSet
<1> QED
  BY <1>1, <1>2, AmongIs DEF Live

LEMMA NeedsAre ==
  ASSUME Healthy, NEW a \in Attackers, NEW b \in Defenders \cap warzone
  PROVE  Need(a, b) \in Nat \ {0}
<1>1. damage[b] \in Nat /\ Defense[b] \in Nat /\ damage[b] < Defense[b]
  BY CombatAssumption DEF Healthy, Troops
<1> QED
  BY <1>1 DEF Need

\* An attacker hits live blockers alone; and with damage left, it has dealt
\* each of them what kills it.
LEMMA HitsAre ==
  ASSUME Healthy, NEW f, GoodFight(f), NEW a \in Attackers
  PROVE  /\ \A b : Dealt(f, a, b) \in Nat
         /\ \A b : Dealt(f, a, b) > 0 => b \in ToSet(Live(f, a))
         /\ Left(f, a) > 0 => \A b \in ToSet(Live(f, a)) : Dealt(f, a, b) = Need(a, b)
<1>1. PICK bs \in Seq(Defenders), n \in Nat, c \in Nat :
         bs = Live(f, a) /\ n = Len(bs) /\ c = Attack[a]
  BY LinesAre, CombatAssumption DEF Troops
<1>2. \A i \in 1 .. n : bs[i] \in Defenders \cap warzone
  <2>1. \A i \in 1 .. n : bs[i] \in ToSet(Live(f, a))
    BY <1>1 DEF ToSet
  <2> QED
    BY <2>1, LinesAre
<1>3. PICK m : m = [i \in 1 .. n |-> Need(a, bs[i])]
  OBVIOUS
<1>4. m \in [1 .. n -> Nat \ {0}]
  BY <1>2, <1>3, NeedsAre
<1>5. PICK g : g = Spent(f, a)
  OBVIOUS
<1>6. Spending(g, c, m, n)
  <2>1. g = CHOOSE s : s = [i \in 0 .. n |-> IF i = 0 THEN 0
                                             ELSE Min({c, s[i - 1] + Need(a, bs[i])})]
    BY <1>1, <1>5 DEF Spent
  <2>2. \A s : [i \in 0 .. n |-> IF i = 0 THEN 0 ELSE Min({c, s[i - 1] + Need(a, bs[i])})]
                 = [i \in 0 .. n |-> IF i = 0 THEN 0 ELSE Min({c, s[i - 1] + m[i]})]
    <3> TAKE s
    <3>1. ASSUME NEW i \in 0 .. n, i # 0 PROVE Need(a, bs[i]) = m[i]
      BY <1>3, <3>1
    <3> QED
      BY <3>1
  <2>3. g = CHOOSE s : Spending(s, c, m, n)
    BY <2>1, <2>2 DEF Spending
  <2>4. \E s : Spending(s, c, m, n)
    BY <1>4, SpendingExists
  <2> QED
    BY <2>3, <2>4
<1>7. /\ g \in [0 .. n -> 0 .. c]
      /\ \A i \in 1 .. n : g[i - 1] <= g[i]
      /\ g[n] < c => \A i \in 1 .. n : g[i] - g[i - 1] = m[i]
  BY <1>4, <1>6, SpendingIs
<1>8. ASSUME NEW b \in ToSet(bs)
      PROVE  \E i \in 1 .. n : bs[i] = b /\ Dealt(f, a, b) = g[i] - g[i - 1]
  <2>1. PICK i \in 1 .. n : i = Position(bs, b) /\ bs[i] = b
    BY <1>1, <1>8, PositionIs
  <2>2. Dealt(f, a, b) = g[i] - g[i - 1]
    BY <1>1, <1>5, <1>8, <2>1 DEF Dealt
  <2> QED
    BY <2>1, <2>2
<1>9. \A b : b \notin ToSet(bs) => Dealt(f, a, b) = 0
  BY <1>1 DEF Dealt
<1>10. ASSUME NEW i \in 1 .. n PROVE g[i] - g[i - 1] \in Nat
  <2>1. i - 1 \in 0 .. n /\ i \in 0 .. n
    OBVIOUS
  <2>2. g[i - 1] \in 0 .. c /\ g[i] \in 0 .. c /\ g[i - 1] <= g[i]
    BY <1>7, <2>1
  <2> QED
    BY <2>2
<1>11. ASSUME Left(f, a) > 0, NEW b \in ToSet(Live(f, a))
       PROVE  Dealt(f, a, b) = Need(a, b)
  <2>1. Left(f, a) = c - g[n] /\ g[n] \in 0 .. c
    BY <1>1, <1>5, <1>7 DEF Left
  <2>2. g[n] < c
    BY <1>11, <2>1
  <2>3. PICK i \in 1 .. n : bs[i] = b /\ Dealt(f, a, b) = g[i] - g[i - 1]
    BY <1>1, <1>8, <1>11
  <2>4. g[i] - g[i - 1] = m[i] /\ m[i] = Need(a, bs[i])
    BY <1>3, <1>7, <2>2
  <2> QED
    BY <2>3, <2>4
<1>12. \A b : Dealt(f, a, b) \in Nat /\ (Dealt(f, a, b) > 0 => b \in ToSet(bs))
  BY <1>8, <1>9, <1>10
<1> QED
  BY <1>1, <1>11, <1>12

LEMMA StrikersAre ==
  ASSUME Healthy, NEW f, GoodFight(f), NEW first
  PROVE  /\ Strikers(f, first) \subseteq Attackers /\ IsFiniteSet(Strikers(f, first))
         /\ Present(f) \subseteq Attackers /\ Strikers(f, first) \subseteq warzone
         /\ \A a \in Attackers : /\ Against(f, a, first) \subseteq Defenders
                                 /\ IsFiniteSet(Against(f, a, first))
<1>1. IsFiniteSet(Attackers) /\ IsFiniteSet(Defenders)
  BY CombatAssumption, FS_Subset DEF Troops
<1>2. Present(f) \subseteq Attackers /\ Strikers(f, first) \subseteq Attackers
      /\ Strikers(f, first) \subseteq warzone
  BY DEF Present, Strikers, GoodFight
<1>3. \A a \in Attackers : Against(f, a, first) \subseteq Defenders
  BY LinesAre DEF Against
<1> QED
  BY <1>1, <1>2, <1>3, FS_Subset

LEMMA WoundsAre ==
  ASSUME Healthy, NEW f, GoodFight(f), NEW first, NEW t \in Troops
  PROVE  /\ Wounds(f, first, t) \in Nat
         /\ t \in Defenders =>
              /\ \A a \in Strikers(f, first) : Dealt(f, a, t) <= Wounds(f, first, t)
              /\ (\A a \in Strikers(f, first) : Dealt(f, a, t) = 0) => Wounds(f, first, t) = 0
         /\ t \in Attackers /\ Against(f, t, first) = {} => Wounds(f, first, t) = 0
<1>1. CASE t \in Attackers
  <2>1. t \notin Defenders
    BY <1>1, CombatAssumption
  <2>2. PICK T : T = Against(f, t, first)
    OBVIOUS
  <2>3. IsFiniteSet(T) /\ \A b \in T : Attack[b] \in Nat
    BY <1>1, <2>2, StrikersAre, CombatAssumption DEF Troops
  <2>4. SumFunctionOnSet(Attack, T) \in Nat
    BY <2>3, SumIsMost
  <2>5. T = {} => SumFunctionOnSet(Attack, T) = 0
    BY <2>3, SumIsMost
  <2>6. Wounds(f, first, t) = IF t \in f.who THEN SumFunctionOnSet(Attack, T) ELSE 0
    BY <1>1, <2>2 DEF Wounds
  <2> QED
    BY <2>1, <2>2, <2>4, <2>5, <2>6
<1>2. CASE t \in Defenders
  <2>1. t \notin Attackers
    BY <1>2, CombatAssumption
  <2>2. PICK T, w : T = Strikers(f, first) /\ w = [a \in T |-> Dealt(f, a, t)]
    OBVIOUS
  <2>3. IsFiniteSet(T) /\ T \subseteq Attackers
    BY <2>2, StrikersAre
  <2>4. \A a \in T : w[a] \in Nat /\ w[a] = Dealt(f, a, t)
    BY <2>2, <2>3, HitsAre
  <2>5. Wounds(f, first, t) = SumFunctionOnSet(w, T)
    BY <2>1, <2>2 DEF Wounds, SumFunction
  <2>6. /\ SumFunctionOnSet(w, T) \in Nat
        /\ \A a \in T : w[a] <= SumFunctionOnSet(w, T)
        /\ (\A a \in T : w[a] = 0) => SumFunctionOnSet(w, T) = 0
    BY <2>3, <2>4, SumIsMost
  <2> QED
    BY <2>1, <2>2, <2>4, <2>5, <2>6
<1> QED
  BY <1>1, <1>2 DEF Troops

LEMMA KilledIs ==
  ASSUME Healthy, NEW f, GoodFight(f), NEW first, NEW a \in Strikers(f, first),
         Left(f, a) > 0, NEW b \in ToSet(Live(f, a))
  PROVE  b \in Deaths(f, first)
<1>1. a \in Attackers /\ b \in Defenders /\ b \in warzone /\ b \in Troops
  BY StrikersAre, LinesAre DEF Troops
<1>2. Dealt(f, a, b) = Need(a, b)
  BY <1>1, HitsAre
<1>3. CASE a \in Lethal
  <2>1. Dealt(f, a, b) > 0
    BY <1>1, <1>2, <1>3 DEF Need
  <2> QED
    BY <1>1, <1>3, <2>1 DEF Deaths, Poisoned
<1>4. CASE a \notin Lethal
  <2>1. Dealt(f, a, b) = Defense[b] - damage[b]
    BY <1>2, <1>4 DEF Need
  <2>2. Dealt(f, a, b) <= Wounds(f, first, b) /\ Wounds(f, first, b) \in Nat
    BY <1>1, WoundsAre
  <2>3. damage[b] \in Nat /\ Defense[b] \in Nat
    BY <1>1, CombatAssumption DEF Healthy
  <2> QED
    BY <1>1, <2>1, <2>2, <2>3 DEF Deaths
<1> QED
  BY <1>3, <1>4

\* A troop that nobody in its step hits outlives it.
LEMMA SparedIs ==
  ASSUME Healthy, NEW f, GoodFight(f), NEW first, NEW t \in warzone,
         t \in Defenders => \A a \in Strikers(f, first) : t \notin ToSet(Live(f, a)),
         t \in Attackers => Against(f, t, first) = {}
  PROVE  t \notin Deaths(f, first)
<1>1. t \in Troops /\ damage[t] \in Nat /\ Defense[t] \in Nat /\ damage[t] < Defense[t]
  BY CombatAssumption DEF Healthy
<1>2. \A a \in Strikers(f, first) : Dealt(f, a, t) = 0
  <2> SUFFICES ASSUME NEW a \in Strikers(f, first) PROVE Dealt(f, a, t) = 0
    OBVIOUS
  <2>1. a \in Attackers
    BY StrikersAre
  <2>2. t \notin ToSet(Live(f, a))
    BY <1>1, <2>1, LinesAre, CombatAssumption DEF Troops
  <2> QED
    BY <2>1, <2>2, HitsAre
<1>3. Wounds(f, first, t) = 0
  BY <1>1, <1>2, WoundsAre DEF Troops
<1>4. ~ Poisoned(f, first, t)
  <2>1. t \in Present(f) => Against(f, t, first) = {}
    BY StrikersAre
  <2> QED
    BY <1>2, <2>1 DEF Poisoned
<1> QED
  BY <1>1, <1>3, <1>4 DEF Deaths

LEMMA FightKeepsHealth ==
  ASSUME Healthy, NEW f, GoodFight(f), NEW first, Fight(f, first)
  PROVE  Healthy' /\ warzone' = warzone \ Deaths(f, first)
<1>1. /\ warzone' = warzone \ Deaths(f, first)
      /\ damage' = [t \in Troops |->
                       IF t \in Deaths(f, first) THEN 0
                       ELSE IF t \in warzone THEN damage[t] + Wounds(f, first, t)
                       ELSE damage[t]]
  BY DEF Fight
<1>2. \A t \in Troops : Wounds(f, first, t) \in Nat /\ damage[t] \in Nat
  BY WoundsAre DEF Healthy
<1>3. damage' \in [Troops -> Nat]
  BY <1>1, <1>2
<1>4. ASSUME NEW t \in Troops PROVE damage'[t] < Defense[t]
  <2>1. Defense[t] \in Nat \ {0}
    BY CombatAssumption
  <2>2. CASE t \in Deaths(f, first)
    <3>1. damage'[t] = 0
      BY <1>1, <2>2
    <3> QED
      BY <2>1, <3>1
  <2>3. CASE t \in warzone /\ t \notin Deaths(f, first)
    <3>1. damage'[t] = damage[t] + Wounds(f, first, t)
      BY <1>1, <2>3
    <3>2. ~ (damage[t] + Wounds(f, first, t) >= Defense[t])
      BY <2>3 DEF Deaths
    <3> QED
      BY <1>2, <2>1, <3>1, <3>2
  <2>4. CASE t \notin warzone /\ t \notin Deaths(f, first)
    BY <1>1, <2>4 DEF Healthy
  <2> QED
    BY <2>2, <2>3, <2>4
<1>5. warzone' \subseteq Troops
  BY <1>1 DEF Healthy
<1> QED
  BY <1>1, <1>3, <1>4, <1>5 DEF Healthy

-----------------------------------------------------------------------------
(* Sequences of troops, as sets.                                             *)

LEMMA EmptyIs ==
  ASSUME NEW S, NEW s \in Seq(S)
  PROVE  /\ s = <<>> <=> ToSet(s) = {}
         /\ ToSet(s) \subseteq S
<1>1. DOMAIN s = 1 .. Len(s) /\ Len(s) \in Nat
  OBVIOUS
<1>2. ASSUME ToSet(s) = {} PROVE s = <<>>
  <2>1. Len(s) = 0
    <3> SUFFICES ASSUME Len(s) # 0 PROVE FALSE
      OBVIOUS
    <3>1. 1 \in DOMAIN s
      BY <1>1
    <3> QED
      BY <1>2, <3>1 DEF ToSet
  <2> QED
    BY <2>1
<1>3. ASSUME s = <<>> PROVE ToSet(s) = {}
  BY <1>3 DEF ToSet
<1>4. ToSet(s) \subseteq S
  BY DEF ToSet
<1> QED
  BY <1>2, <1>3, <1>4

LEMMA AppendIs ==
  ASSUME NEW S, NEW s \in Seq(S), NEW x \in S
  PROVE  /\ Append(s, x) \in Seq(S) /\ Append(s, x) # <<>>
         /\ ToSet(Append(s, x)) = ToSet(s) \cup {x}
<1>1. DOMAIN Append(s, x) = DOMAIN s \cup {Len(s) + 1} /\ DOMAIN s = 1 .. Len(s)
  OBVIOUS
<1>2. \A k \in DOMAIN s : Append(s, x)[k] = s[k]
  OBVIOUS
<1>3. Append(s, x)[Len(s) + 1] = x
  OBVIOUS
<1>4. ToSet(Append(s, x)) = ToSet(s) \cup {x}
  BY <1>1, <1>2, <1>3 DEF ToSet
<1> QED
  BY <1>4

\* The sequences that list a finite set.
LEMMA ListingsAre ==
  ASSUME NEW S, IsFiniteSet(S), NEW s \in SetToSeqs(S)
  PROVE  s \in Seq(S)
<1>1. Cardinality(S) \in Nat
  BY FS_CardinalityType
<1>2. s \in [1 .. Cardinality(S) -> S]
  BY DEF SetToSeqs
<1> QED
  BY <1>1, <1>2

-----------------------------------------------------------------------------
(* The posts.                                                                *)

Postings == [Attackers -> Seq(Defenders)]

LEMMA WithoutIs ==
  ASSUME NEW bs \in Postings, NEW ts
  PROVE  /\ Without(bs, ts) \in Postings
         /\ \A a \in Attackers : ToSet(Without(bs, ts)[a]) = ToSet(bs[a]) \ ts
<1>1. ASSUME NEW a \in Attackers
      PROVE  /\ Among(bs[a], Defenders \ ts) \in Seq(Defenders)
             /\ ToSet(Among(bs[a], Defenders \ ts)) = ToSet(bs[a]) \ ts
  <2>1. bs[a] \in Seq(Defenders)
    BY DEF Postings
  <2>2. ToSet(bs[a]) \subseteq Defenders
    BY <2>1, EmptyIs
  <2>3. /\ Among(bs[a], Defenders \ ts) \in Seq(Defenders)
        /\ ToSet(Among(bs[a], Defenders \ ts)) = ToSet(bs[a]) \cap (Defenders \ ts)
    BY <2>1, AmongIs
  <2> QED
    BY <2>2, <2>3
<1>2. \A a \in Attackers : Without(bs, ts)[a] = Among(bs[a], Defenders \ ts)
  BY DEF Without
<1>3. Without(bs, ts) \in Postings
  BY <1>1 DEF Without, Postings
<1> QED
  BY <1>1, <1>2, <1>3

\* A choice of blockers posts ready troops, each against one of the attackers.
LEMMA AssignmentsAre ==
  ASSUME NEW as \in SUBSET Attackers, NEW bs \in Assignments(as)
  PROVE  /\ bs \in Postings
         /\ \A a \in Attackers : /\ ToSet(bs[a]) \subseteq Defenders \cap warzone
                                 /\ a \notin as => bs[a] = <<>>
         /\ \A a, c \in Attackers : a # c => ToSet(bs[a]) \cap ToSet(bs[c]) = {}
<1>1. PICK line \in SetToSeqs(Defenders \cap warzone),
           f \in [Defenders \cap warzone -> as \cup {NoAttacker}] :
        bs = Choice(line, f)
  BY DEF Assignments
<1>2. IsFiniteSet(Defenders \cap warzone)
  BY CombatAssumption, FS_Subset DEF Troops
<1>3. line \in Seq(Defenders \cap warzone)
  BY <1>2, ListingsAre
<1>4. line \in Seq(Defenders)
  BY <1>3
<1>5. ASSUME NEW a \in Attackers
      PROVE  /\ bs[a] \in Seq(Defenders)
             /\ ToSet(bs[a]) = ToSet(line) \cap {b \in Defenders \cap warzone : f[b] = a}
  <2>1. bs[a] = Among(line, {b \in Defenders \cap warzone : f[b] = a})
    BY <1>1 DEF Choice
  <2> QED
    BY <1>4, <2>1, AmongIs
<1>6. bs \in Postings
  BY <1>1, <1>5 DEF Postings, Choice
<1>7. ASSUME NEW a \in Attackers, a \notin as PROVE bs[a] = <<>>
  <2>1. \A b \in Defenders \cap warzone : f[b] # a
    BY <1>7, CombatAssumption
  <2>2. ToSet(bs[a]) = {}
    BY <1>5, <2>1
  <2> QED
    BY <1>5, <2>2, EmptyIs
<1>8. \A a \in Attackers : ToSet(bs[a]) \subseteq Defenders \cap warzone
  BY <1>5
<1>9. \A a, c \in Attackers : a # c => ToSet(bs[a]) \cap ToSet(bs[c]) = {}
  BY <1>5
<1> QED
  BY <1>6, <1>7, <1>8, <1>9

-----------------------------------------------------------------------------
(* The order of damage a player asks for.                                    *)

Lines(n) == [1 .. n -> Defenders]
Passes(n) == [line : Lines(n), ok : BOOLEAN]

\* One card swapped into its place.
Passed(p, ord, i) ==
    IF ~p.ok \/ ord[i] \notin ToSet(p.line) THEN [p EXCEPT !.ok = FALSE]
    ELSE [line |-> Swap(p.line, i, Position(p.line, ord[i])), ok |-> TRUE]

Passing(g, bs, ord, n) ==
    g = [i \in 0 .. n |-> IF i = 0 THEN [line |-> bs, ok |-> TRUE]
                          ELSE Passed(g[i - 1], ord, i)]

LEMMA SwapIs ==
  ASSUME NEW n \in Nat, NEW s \in Lines(n), NEW i \in 1 .. n, NEW j \in 1 .. n
  PROVE  /\ Swap(s, i, j) \in Lines(n) /\ ToSet(Swap(s, i, j)) = ToSet(s)
         /\ Swap(s, i, j)[i] = s[j]
         /\ \A k \in 1 .. n : k # i /\ k # j => Swap(s, i, j)[k] = s[k]
<1>1. PICK u : u = Swap(s, i, j)
  OBVIOUS
<1>2. s[i] \in Defenders /\ s[j] \in Defenders /\ DOMAIN s = 1 .. n
  BY DEF Lines
<1>3. u \in Lines(n) /\ DOMAIN u = 1 .. n
  BY <1>1, <1>2 DEF Swap, Lines
<1>4. u[i] = s[j] /\ u[j] = s[i]
  BY <1>1, <1>2 DEF Swap, Lines
<1>5. \A k \in 1 .. n : k # i /\ k # j => u[k] = s[k]
  BY <1>1, <1>2 DEF Swap, Lines
<1>6. ASSUME NEW x \in ToSet(u) PROVE x \in ToSet(s)
  <2>1. PICK k \in 1 .. n : u[k] = x
    BY <1>3 DEF ToSet
  <2> QED
    BY <1>2, <1>4, <1>5, <2>1 DEF ToSet
<1>7. ASSUME NEW x \in ToSet(s) PROVE x \in ToSet(u)
  <2>1. PICK k \in 1 .. n : s[k] = x
    BY <1>2 DEF ToSet
  <2> QED
    BY <1>3, <1>4, <1>5, <2>1 DEF ToSet
<1> QED
  BY <1>1, <1>3, <1>4, <1>5, <1>6, <1>7

\* Pass i turns p into q: the card named i-th is in its place now, swapped with
\* the one that was there.
Placing(p, q, ord, i, n) ==
    /\ q \in Passes(n) /\ ToSet(q.line) = ToSet(p.line)
    /\ q.ok => /\ p.ok
               /\ \E j \in 1 .. n :
                    /\ p.line[j] = ord[i] /\ q.line[i] = ord[i]
                    /\ \A k \in 1 .. n : k # i /\ k # j => q.line[k] = p.line[k]

LEMMA PassedIs ==
  ASSUME NEW n \in Nat, NEW p \in Passes(n), NEW ord \in Lines(n), NEW i \in 1 .. n
  PROVE  Placing(p, Passed(p, ord, i), ord, i, n)
<1> USE DEF Placing
<1>1. PICK s : s = p.line /\ s \in Lines(n) /\ p.ok \in BOOLEAN /\ p = [line |-> s, ok |-> p.ok]
  BY DEF Passes
<1>2. s \in Seq(Defenders) /\ Len(s) = n
  BY <1>1 DEF Lines
<1>3. CASE ~p.ok \/ ord[i] \notin ToSet(s)
  <2>1. Passed(p, ord, i) = [p EXCEPT !.ok = FALSE]
    BY <1>1, <1>3 DEF Passed
  <2>2. Passed(p, ord, i) = [line |-> s, ok |-> FALSE]
    BY <1>1, <2>1
  <2> QED
    BY <1>1, <2>2 DEF Passes
<1>4. CASE p.ok /\ ord[i] \in ToSet(s)
  <2>1. PICK j \in 1 .. n : j = Position(s, ord[i]) /\ s[j] = ord[i]
    BY <1>2, <1>4, PositionIs
  <2>2. Passed(p, ord, i) = [line |-> Swap(s, i, j), ok |-> TRUE]
    BY <1>1, <1>4, <2>1 DEF Passed
  <2>3. /\ Swap(s, i, j) \in Lines(n) /\ ToSet(Swap(s, i, j)) = ToSet(s)
        /\ Swap(s, i, j)[i] = ord[i]
        /\ \A k \in 1 .. n : k # i /\ k # j => Swap(s, i, j)[k] = s[k]
    <3>1. s \in Lines(n)
      BY <1>1
    <3>2. /\ Swap(s, i, j) \in Lines(n) /\ ToSet(Swap(s, i, j)) = ToSet(s)
          /\ Swap(s, i, j)[i] = s[j]
          /\ \A k \in 1 .. n : k # i /\ k # j => Swap(s, i, j)[k] = s[k]
      BY <3>1, SwapIs
    <3> QED
      BY <2>1, <3>2
  <2>4. Passed(p, ord, i) \in Passes(n)
    BY <2>2, <2>3 DEF Passes
  <2> QED
    BY <1>1, <1>4, <2>1, <2>2, <2>3, <2>4
<1> QED
  BY <1>1, <1>3, <1>4

LEMMA PassingExists ==
  ASSUME NEW n \in Nat, NEW bs \in Lines(n), NEW ord \in Lines(n)
  PROVE  \E g \in [0 .. n -> Passes(n)] : Passing(g, bs, ord, n)
<1> DEFINE G == [p \in Passes(n) \X (1 .. n) |-> Passed(p[1], ord, p[2])]
           b == [line |-> bs, ok |-> TRUE]
<1>1. \A p \in Passes(n), i \in 1 .. n : Passed(p, ord, i) \in Passes(n)
  BY PassedIs DEF Placing
<1>2. G \in [Passes(n) \X (1 .. n) -> Passes(n)] /\ b \in Passes(n)
  BY <1>1 DEF Passes
<1>3. \A p \in Passes(n), i \in 1 .. n : G[<<p, i>>] = Passed(p, ord, i)
  OBVIOUS
<1> HIDE DEF G
<1>4. PICK g \in [0 .. n -> Passes(n)] : Built(g, b, G, n)
  BY <1>2, BuiltExists
<1>5. ASSUME NEW i \in 0 .. n, i # 0 PROVE G[<<g[i - 1], i>>] = Passed(g[i - 1], ord, i)
  <2>1. i \in 1 .. n /\ g[i - 1] \in Passes(n)
    BY <1>5
  <2> QED
    BY <1>3, <2>1
<1>6. [i \in 0 .. n |-> IF i = 0 THEN b ELSE G[<<g[i - 1], i>>]]
        = [i \in 0 .. n |-> IF i = 0 THEN b ELSE Passed(g[i - 1], ord, i)]
  BY <1>5
<1> QED
  BY <1>4, <1>6 DEF Built, Passing

\* The blockers stay the same, and an order that names each of them once is the
\* order they end in.
LEMMA SortingIs ==
  ASSUME NEW bs \in Seq(Defenders), NEW ord \in Seq(Defenders), Len(ord) = Len(bs)
  PROVE  /\ Sorting(bs, ord).line \in Seq(Defenders)
         /\ ToSet(Sorting(bs, ord).line) = ToSet(bs)
         /\ Sorting(bs, ord).ok /\ IsInjective(ord) => Sorting(bs, ord).line = ord
<1>1. PICK n \in Nat : n = Len(bs) /\ n = Len(ord) /\ bs \in Lines(n) /\ ord \in Lines(n)
  BY DEF Lines
<1>2. Sorting(bs, ord) = (CHOOSE g : Passing(g, bs, ord, n))[n]
  BY <1>1 DEF Sorting, Passing, Passed
<1>3. PICK g : Passing(g, bs, ord, n) /\ Sorting(bs, ord) = g[n]
  <2>1. \E h : Passing(h, bs, ord, n)
    BY <1>1, PassingExists
  <2> QED
    BY <1>2, <2>1
<1>4. /\ g[0] = [line |-> bs, ok |-> TRUE]
      /\ \A i \in 1 .. n : g[i] = Passed(g[i - 1], ord, i)
  <2>1. g[0] = [line |-> bs, ok |-> TRUE]
    BY <1>1, <1>3 DEF Passing
  <2>2. ASSUME NEW i \in 1 .. n PROVE g[i] = Passed(g[i - 1], ord, i)
    <3>1. i \in 0 .. n /\ i # 0
      OBVIOUS
    <3> QED
      BY <1>3, <3>1 DEF Passing
  <2> QED
    BY <2>1, <2>2
<1> DEFINE Placed(i) ==
             /\ g[i] \in Passes(n) /\ ToSet(g[i].line) = ToSet(bs)
             /\ g[i].ok /\ IsInjective(ord) => \A k \in 1 .. i : g[i].line[k] = ord[k]
           T == {i \in 0 .. n : Placed(i)}
<1>5. Placed(0)
  BY <1>1, <1>4 DEF Passes
<1>6. ASSUME NEW i \in 1 .. n, Placed(i - 1) PROVE Placed(i)
  <2>1. PICK p, q : p \in Passes(n) /\ p = g[i - 1] /\ q = g[i] /\ q = Passed(p, ord, i)
    BY <1>4, <1>6
  <2>2. /\ q \in Passes(n) /\ ToSet(q.line) = ToSet(p.line)
        /\ q.ok => /\ p.ok
                   /\ \E j \in 1 .. n :
                        /\ p.line[j] = ord[i] /\ q.line[i] = ord[i]
                        /\ \A k \in 1 .. n : k # i /\ k # j => q.line[k] = p.line[k]
    <3>1. p \in Passes(n) /\ ord \in Lines(n)
      BY <1>1, <2>1
    <3>2. Placing(p, Passed(p, ord, i), ord, i, n)
      BY <3>1, PassedIs
    <3> QED
      BY <2>1, <3>2 DEF Placing
  <2>3. ToSet(q.line) = ToSet(bs)
    BY <1>6, <2>1, <2>2
  <2>4. ASSUME q.ok, IsInjective(ord), NEW k \in 1 .. i PROVE q.line[k] = ord[k]
    <3>1. PICK j \in 1 .. n :
             /\ p.line[j] = ord[i] /\ q.line[i] = ord[i]
             /\ \A l \in 1 .. n : l # i /\ l # j => q.line[l] = p.line[l]
      BY <2>2, <2>4
    <3>2. CASE k = i
      BY <3>1, <3>2
    <3>3. CASE k # i
      <4>1. k \in 1 .. i - 1 /\ k \in 1 .. n
        BY <3>3
      <4>2. p.line[k] = ord[k]
        BY <1>6, <2>1, <2>2, <2>4, <4>1
      <4>3. ord[k] # ord[i]
        <5>1. k \in DOMAIN ord /\ i \in DOMAIN ord
          BY <1>1, <4>1 DEF Lines
        <5> QED
          BY <2>4, <3>3, <5>1 DEF IsInjective
      <4>4. k # j
        BY <3>1, <4>2, <4>3
      <4> QED
        BY <3>1, <3>3, <4>1, <4>2, <4>4
    <3> QED
      BY <3>2, <3>3
  <2> QED
    BY <2>1, <2>2, <2>3, <2>4
<1>7. n \in T
  <2> HIDE DEF Placed
  <2>1. 0 \in T /\ \A i \in 1 .. n : i - 1 \in T => i \in T
    BY <1>1, <1>5, <1>6
  <2> HIDE DEF T
  <2>2. 0 .. n \subseteq T
    BY <1>1, <2>1, AllUpTo
  <2> QED
    BY <1>1, <2>2
<1>8. Placed(n)
  BY <1>7
<1>9. PICK s \in Lines(n) : s = Sorting(bs, ord).line
  BY <1>3, <1>8 DEF Passes
<1>10. s \in Seq(Defenders) /\ Len(s) = n
  BY <1>9 DEF Lines
<1>11. ASSUME Sorting(bs, ord).ok, IsInjective(ord) PROVE s = ord
  <2>1. \A k \in 1 .. n : s[k] = ord[k]
    BY <1>3, <1>8, <1>9, <1>11
  <2> QED
    BY <1>1, <1>9, <2>1 DEF Lines
<1> QED
  BY <1>3, <1>8, <1>9, <1>10, <1>11

-----------------------------------------------------------------------------
(* What every variable holds.                                                *)

Logs == [declared : SUBSET Attackers,
         posted : SUBSET (Attackers \X Defenders),
         parted : SUBSET (Attackers \X Defenders),
         soaked : SUBSET (Attackers \X Defenders),
         pierced : SUBSET Attackers, broken : SUBSET Attackers,
         struck : SUBSET Troops, gone : SUBSET Troops, ghosts : SUBSET Troops]

ManagerTypes ==
    /\ listed \subseteq DOMAIN combat /\ DOMAIN combat \subseteq Ids
    /\ \A id \in DOMAIN combat : combat[id] \in Seq(Defenders)

CheckpointTypes ==
    /\ attackers \subseteq Attackers /\ sticky \subseteq Attackers
    /\ blockers \in Postings
    /\ DOMAIN order \subseteq Attackers
    /\ \A a \in DOMAIN order : order[a] \in Seq(Defenders)
    /\ Host # "pvp" => order = NoOrder

ClockTypes ==
    /\ phase \in {"entry", "declare", "block", "first", "second", "over"}
    /\ turn \in 1 .. MaxTurns /\ effects \in 0 .. MaxEffects

CombatTypes ==
    Healthy /\ ManagerTypes /\ CheckpointTypes /\ ClockTypes /\ log \in Logs

LEMMA FreshIs == /\ NoBlockers \in Postings /\ FreshLog \in Logs
                 /\ DOMAIN NoOrder = {} /\ \A a \in Attackers : ToSet(NoBlockers[a]) = {}
<1>1. NoBlockers \in Postings /\ DOMAIN NoOrder = {}
  BY DEF NoBlockers, Postings, NoOrder
<1>2. FreshLog \in Logs
  BY DEF FreshLog, Logs
<1>3. \A a \in Attackers : ToSet(NoBlockers[a]) = {}
  <2>1. ToSet(<<>>) = {}
    BY DEF ToSet
  <2> QED
    BY <2>1 DEF NoBlockers
<1> QED
  BY <1>1, <1>2, <1>3

LEMMA ListedAre ==
  ASSUME ManagerTypes
  PROVE  /\ ListedAttackers \subseteq Attackers
         /\ \A id \in listed : id[2] \in ListedAttackers /\ combat[id] \in Seq(Defenders)
<1>1. \A id \in Ids : id[2] \in Attackers
  BY DEF Ids
<1> QED
  BY <1>1 DEF ManagerTypes, ListedAttackers

LEMMA CheckpointFightIs ==
  ASSUME CheckpointTypes
  PROVE  /\ GoodFight(FromCheckpoint)
         /\ FromCheckpoint.who = attackers /\ FromCheckpoint.posts = blockers
         /\ FromCheckpoint.line = order
BY DEF CheckpointTypes, GoodFight, FromCheckpoint, Postings

\* The manager's fight: those listed, and for each of them one of its combats.
LEMMA ManagerFightIs ==
  ASSUME ManagerTypes
  PROVE  /\ GoodFight(FromManager)
         /\ FromManager.who = ListedAttackers
         /\ \A a \in ListedAttackers :
              \E id \in listed : /\ id[2] = a /\ FromManager.posts[a] = combat[id]
                                 /\ Line(FromManager, a) = combat[id]
<1> DEFINE id(a) == CHOOSE i \in listed : i[2] = a
<1>1. \A a \in ListedAttackers : id(a) \in listed /\ id(a)[2] = a
  BY DEF ListedAttackers
<1> HIDE DEF id
<1>2. PICK bs, line : /\ bs = [a \in Attackers |-> IF a \in ListedAttackers
                                                    THEN combat[id(a)] ELSE <<>>]
                      /\ line = [a \in {c \in ListedAttackers : bs[c] # <<>>} |-> bs[a]]
  OBVIOUS
<1>3. FromManager = [who |-> ListedAttackers, posts |-> bs, line |-> line]
  BY <1>2 DEF FromManager, id
<1>4. \A a \in ListedAttackers : /\ a \in Attackers /\ bs[a] = combat[id(a)]
                                 /\ combat[id(a)] \in Seq(Defenders)
  BY <1>1, <1>2, ListedAre
<1>5. bs \in [Attackers -> Seq(Defenders)]
  BY <1>2, <1>4
<1>6. DOMAIN line \subseteq Attackers /\ \A a \in DOMAIN line : line[a] \in Seq(Defenders)
  BY <1>2, <1>4, ListedAre
<1>7. GoodFight(FromManager)
  BY <1>3, <1>5, <1>6, ListedAre DEF GoodFight
<1>8. ASSUME NEW a \in ListedAttackers PROVE Line(FromManager, a) = combat[id(a)]
  BY <1>2, <1>3, <1>4 DEF Line
<1> QED
  BY <1>1, <1>3, <1>4, <1>7, <1>8

\* The fight of two humans: the blockers of each attacker, in some order.
LEMMA PvpFightIs ==
  ASSUME CheckpointTypes, NEW o \in Orders
  PROVE  /\ GoodFight(PvpFight(o))
         /\ PvpFight(o).who = attackers /\ PvpFight(o).posts = blockers
         /\ PvpFight(o).line \in {o, order}
         /\ \A a \in Attackers : blockers[a] # <<>>
              => ToSet(Line(PvpFight(o), a)) = ToSet(blockers[a])
         /\ (\E a \in Attackers : blockers[a] # <<>>)
              => \A a \in Attackers : ToSet(Line(PvpFight(o), a)) = ToSet(blockers[a])
<1>1. PICK f : f = PvpFight(o)
  OBVIOUS
<1>2. f.who = attackers /\ f.posts = blockers /\ f.line = NewOrder(o)
  BY <1>1 DEF PvpFight, FromCheckpoint
<1>3. /\ DOMAIN o = {a \in Attackers : blockers[a] # <<>>}
      /\ \A a \in DOMAIN o : /\ ToSet(o[a]) = ToSet(blockers[a])
                             /\ o[a] \in UNION {SetToSeqs(ToSet(blockers[c])) : c \in Attackers}
  BY DEF Orders
<1>4. ASSUME NEW a \in DOMAIN o PROVE o[a] \in Seq(Defenders)
  <2>1. PICK c \in Attackers : o[a] \in SetToSeqs(ToSet(blockers[c]))
    BY <1>3
  <2>2. ToSet(blockers[c]) \subseteq Defenders
    BY EmptyIs DEF CheckpointTypes, Postings
  <2>3. IsFiniteSet(ToSet(blockers[c]))
    BY <2>2, CombatAssumption, FS_Subset DEF Troops
  <2>4. o[a] \in Seq(ToSet(blockers[c]))
    BY <2>1, <2>3, ListingsAre
  <2> QED
    BY <2>2, <2>4
<1>5. f.line \in {o, order} /\ GoodFight(f)
  BY <1>2, <1>3, <1>4 DEF NewOrder, GoodFight, CheckpointTypes, Postings
<1>6. ASSUME NEW a \in Attackers, blockers[a] # <<>>
      PROVE  f.line = o /\ ToSet(Line(f, a)) = ToSet(blockers[a])
  <2>1. a \in DOMAIN o /\ f.line = o
    BY <1>2, <1>3, <1>6 DEF NewOrder
  <2> QED
    BY <1>3, <2>1 DEF Line
<1>7. ASSUME NEW c \in Attackers, blockers[c] # <<>>, NEW a \in Attackers
      PROVE  ToSet(Line(f, a)) = ToSet(blockers[a])
  <2>1. f.line = o
    BY <1>6, <1>7
  <2>2. CASE blockers[a] = <<>>
    <3>1. a \notin DOMAIN o
      BY <1>3, <2>2
    <3> QED
      BY <1>2, <2>1, <3>1 DEF Line
  <2> QED
    BY <1>6, <2>2
<1> QED
  BY <1>1, <1>2, <1>5, <1>6, <1>7

-----------------------------------------------------------------------------
(* What a damage step is.                                                    *)

\* The fight f a host reads, and what becomes of the checkpoint after it.
Fought(f, first) ==
    \/ /\ Host # "pvp" /\ f = PveFight
       /\ Survivors(f, Deaths(f, first)) /\ order' = NoOrder
    \/ /\ Host = "pvp" /\ first /\ \E o \in Orders : f = PvpFight(o)
       /\ Survivors(f, Deaths(f, first)) /\ order' = f.line
    \/ /\ Host = "pvp" /\ ~first /\ \E o \in Orders : f = PvpFight(o)
       /\ attackers' = {} /\ blockers' = NoBlockers /\ sticky' \in {sticky, {}}
       /\ IF attackers = {} THEN order' = f.line ELSE order' = NoOrder

DamageStep(f, first) ==
    /\ Fight(f, first) /\ Fought(f, first)
    /\ first => phase = "first" /\ phase' = "second"
    /\ ~first => /\ phase = "second" \/ (phase = "first" /\ ~HasFirstStrike)
                 /\ phase' = "over"

LEMMA StepsAre ==
  ASSUME CombatTypes, FirstStrikeStep \/ StandardStep
  PROVE  \E f : \E first \in BOOLEAN : DamageStep(f, first) /\ GoodFight(f)
<1>1. ASSUME NEW first \in BOOLEAN, PveStep(first)
      PROVE  /\ Fight(PveFight, first) /\ Fought(PveFight, first) /\ GoodFight(PveFight)
  BY <1>1, CheckpointFightIs, ManagerFightIs DEF PveStep, Fought, PveFight, CombatTypes
<1>2. ASSUME NEW first \in BOOLEAN, PvpStep(first)
      PROVE  \E o \in Orders : /\ Fight(PvpFight(o), first) /\ Fought(PvpFight(o), first)
                               /\ GoodFight(PvpFight(o))
  <2>1. PICK o \in Orders :
           /\ Fight(PvpFight(o), first)
           /\ IF first THEN Survivors(PvpFight(o), Deaths(PvpFight(o), first))
                            /\ order' = PvpFight(o).line
              ELSE /\ attackers' = {} /\ blockers' = NoBlockers
                   /\ IF attackers = {} THEN sticky' = sticky /\ order' = PvpFight(o).line
                      ELSE sticky' = {} /\ order' = OrderAfter(PvpFight(o))
    BY <1>2 DEF PvpStep
  <2>2. Host = "pvp"
    BY <1>2 DEF PvpStep
  <2>3. GoodFight(PvpFight(o))
    BY PvpFightIs DEF CombatTypes
  <2>4. Fought(PvpFight(o), first)
    <3>1. CASE first
      BY <2>1, <2>2, <3>1 DEF Fought
    <3>2. CASE ~first
      BY <2>1, <2>2, <3>2 DEF Fought, OrderAfter
    <3> QED
      BY <3>1, <3>2
  <2> QED
    BY <2>1, <2>3, <2>4
<1>3. CASE FirstStrikeStep
  <2>1. PICK f : Fight(f, TRUE) /\ Fought(f, TRUE) /\ GoodFight(f)
    BY <1>1, <1>2, <1>3 DEF FirstStrikeStep
  <2>2. DamageStep(f, TRUE)
    BY <1>3, <2>1 DEF FirstStrikeStep, DamageStep
  <2> QED
    BY <2>1, <2>2
<1>4. CASE StandardStep
  <2>1. PICK f : Fight(f, FALSE) /\ Fought(f, FALSE) /\ GoodFight(f)
    BY <1>1, <1>2, <1>4 DEF StandardStep
  <2>2. /\ phase = "second" \/ (phase = "first" /\ ~HasFirstStrike)
        /\ phase' = "over"
    BY <1>4 DEF StandardStep
  <2>3. DamageStep(f, FALSE)
    BY <2>1, <2>2 DEF DamageStep
  <2> QED
    BY <2>1, <2>3
<1> QED
  BY <1>3, <1>4

\* Its log.
LEMMA FightLogIs ==
  ASSUME CombatTypes, NEW f, GoodFight(f), NEW first, Fight(f, first)
  PROVE  /\ log' \in Logs
         /\ log'.declared = log.declared /\ log'.posted = log.posted
         /\ log'.soaked = log.soaked \cup Soaks(f, first)
         /\ log'.pierced = log.pierced \cup Pierces(f, first)
         /\ log'.broken = log.broken \cup (Pierces(f, first) \cap {p[1] : p \in log.posted})
         /\ log'.struck = log.struck \cup (Strikers(f, first) \cup BackStrikers(f, first))
         /\ log'.gone = log.gone \cup
                (Deaths(f, first) \cap (f.who \cup {p[2] : p \in log.posted}))
         /\ log'.parted = log.parted \cup PairsOf(Deaths(f, first))
         /\ log'.ghosts = log.ghosts \cup
                (log.gone \cap ((Strikers(f, first) \cup BackStrikers(f, first))
                                \cup {p[2] : p \in Soaks(f, first)}))
<1>1. PICK D, S, P, K : /\ D = Deaths(f, first) /\ S = Soaks(f, first)
                        /\ P = Pierces(f, first)
                        /\ K = Strikers(f, first) \cup BackStrikers(f, first)
  OBVIOUS
<1>2. log' = [log EXCEPT
                !.soaked = @ \cup S, !.pierced = @ \cup P,
                !.broken = @ \cup (P \cap {p[1] : p \in log.posted}),
                !.struck = @ \cup K,
                !.gone = @ \cup (D \cap (f.who \cup {p[2] : p \in log.posted})),
                !.parted = @ \cup PairsOf(D),
                !.ghosts = @ \cup (log.gone \cap (K \cup {p[2] : p \in S}))]
  BY <1>1 DEF Fight
<1>3. Strikers(f, first) \subseteq Attackers /\ \A a \in Attackers : Against(f, a, first) \subseteq Defenders
  BY StrikersAre DEF CombatTypes
<1>4. BackStrikers(f, first) \subseteq Defenders
  BY <1>3, StrikersAre DEF BackStrikers, CombatTypes
<1>5. D \subseteq Troops /\ P \subseteq Attackers /\ K \subseteq Troops
      /\ S \subseteq Attackers \X Defenders
  <2>1. D \subseteq Troops
    BY <1>1 DEF Deaths, CombatTypes, Healthy
  <2>2. P \subseteq Attackers /\ S \subseteq Attackers \X Defenders
    BY <1>1, <1>3 DEF Pierces, Soaks
  <2>3. K \subseteq Troops
    BY <1>1, <1>3, <1>4 DEF Troops
  <2> QED
    BY <2>1, <2>2, <2>3
<1>6. PICK L : L = log /\ L \in Logs
  BY DEF CombatTypes
<1>7. PairsOf(D) \subseteq log.posted
  BY DEF PairsOf
<1>8. PICK Q, R, H, G : /\ Q = PairsOf(D) /\ R = P \cap {p[1] : p \in log.posted}
                        /\ H = log.gone \cap (K \cup {p[2] : p \in S})
                        /\ G = D \cap (f.who \cup {p[2] : p \in log.posted})
  OBVIOUS
<1>9. log' = [L EXCEPT !.soaked = @ \cup S, !.pierced = @ \cup P, !.broken = @ \cup R,
                       !.struck = @ \cup K, !.gone = @ \cup G, !.parted = @ \cup Q,
                       !.ghosts = @ \cup H]
  BY <1>2, <1>6, <1>8
<1>10. /\ Q \subseteq Attackers \X Defenders /\ R \subseteq Attackers
       /\ H \subseteq Troops /\ G \subseteq Troops
  BY <1>5, <1>6, <1>7, <1>8 DEF Logs
<1>11. /\ log'.declared = L.declared /\ log'.posted = L.posted
       /\ log'.soaked = L.soaked \cup S /\ log'.pierced = L.pierced \cup P
       /\ log'.broken = L.broken \cup R /\ log'.struck = L.struck \cup K
       /\ log'.gone = L.gone \cup G /\ log'.parted = L.parted \cup Q
       /\ log'.ghosts = L.ghosts \cup H
  BY <1>6, <1>9 DEF Logs
<1>12. log' \in Logs
  <2>1. L = [declared |-> L.declared, posted |-> L.posted, parted |-> L.parted,
             soaked |-> L.soaked, pierced |-> L.pierced, broken |-> L.broken,
             struck |-> L.struck, gone |-> L.gone, ghosts |-> L.ghosts]
    BY <1>6 DEF Logs
  <2>2. log' = [declared |-> L.declared, posted |-> L.posted, parted |-> L.parted \cup Q,
                soaked |-> L.soaked \cup S, pierced |-> L.pierced \cup P,
                broken |-> L.broken \cup R, struck |-> L.struck \cup K,
                gone |-> L.gone \cup G, ghosts |-> L.ghosts \cup H]
    BY <1>9, <2>1
  <2> QED
    BY <1>5, <1>6, <1>10, <2>2 DEF Logs
<1> QED
  BY <1>1, <1>6, <1>8, <1>11, <1>12

-----------------------------------------------------------------------------
(* What the other steps write into the log.                                  *)

LEMMA LogIs ==
  ASSUME NEW L \in Logs
  PROVE  /\ L = [declared |-> L.declared, posted |-> L.posted, parted |-> L.parted,
                 soaked |-> L.soaked, pierced |-> L.pierced, broken |-> L.broken,
                 struck |-> L.struck, gone |-> L.gone, ghosts |-> L.ghosts]
         /\ L.declared \subseteq Attackers /\ L.gone \subseteq Troops
         /\ L.posted \subseteq Attackers \X Defenders
         /\ L.parted \subseteq Attackers \X Defenders
BY DEF Logs

LEMMA DeclaredIs ==
  ASSUME CombatTypes, NEW as \in SUBSET Attackers, Declared(as)
  PROVE  /\ attackers' = attackers \cup as /\ attackers' \subseteq Attackers
         /\ log' = [log EXCEPT !.declared = attackers'] /\ log' \in Logs
         /\ log'.declared = attackers' /\ log'.posted = log.posted
         /\ log'.gone = log.gone /\ log'.parted = log.parted
         /\ log'.struck = log.struck /\ log'.pierced = log.pierced
         /\ log'.broken = log.broken /\ log'.ghosts = log.ghosts
         /\ log'.soaked = log.soaked
         /\ phase' = IF attackers' = {} THEN "over" ELSE "block"
<1>1. PICK A, L : A = attackers' /\ A \subseteq Attackers /\ L = log /\ L \in Logs
  BY DEF Declared, CombatTypes, CheckpointTypes
<1>2. log' = [L EXCEPT !.declared = A]
  BY <1>1 DEF Declared
<1>3. /\ log' \in Logs /\ log'.declared = A /\ log'.posted = L.posted
      /\ log'.gone = L.gone /\ log'.parted = L.parted /\ log'.struck = L.struck
      /\ log'.pierced = L.pierced /\ log'.broken = L.broken
      /\ log'.ghosts = L.ghosts /\ log'.soaked = L.soaked
  BY <1>1, <1>2 DEF Logs
<1> QED
  BY <1>1, <1>3 DEF Declared

LEMMA PostedIs ==
  ASSUME CombatTypes, NEW bs \in Assignments(attackers), Posted(bs, attackers)
  PROVE  /\ log' \in Logs
         /\ \A a \in Attackers : bs[a] # <<>> => a \in attackers
         /\ \A p \in Posts(bs, attackers) :
              /\ p[1] \in attackers /\ p[2] \in ToSet(bs[p[1]])
              /\ p[2] \in Defenders \cap warzone
         /\ \A a \in Attackers : {a} \X ToSet(bs[a]) \subseteq Posts(bs, attackers)
         /\ log'.posted = log.posted \cup Posts(bs, attackers)
         /\ log'.parted = log.parted \ Posts(bs, attackers)
         /\ log'.gone = log.gone \ UNION {ToSet(bs[a]) : a \in attackers}
         /\ log'.declared = log.declared /\ log'.broken = log.broken
         /\ log'.struck = log.struck /\ log'.ghosts = log.ghosts
         /\ log'.soaked = log.soaked /\ log'.pierced = log.pierced
<1>1. attackers \subseteq Attackers
  BY DEF CombatTypes, CheckpointTypes
<1>2. /\ bs \in Postings
      /\ \A a \in Attackers : /\ ToSet(bs[a]) \subseteq Defenders \cap warzone
                              /\ a \notin attackers => bs[a] = <<>>
  BY <1>1, AssignmentsAre
<1>3. PICK P : P = Posts(bs, attackers)
  OBVIOUS
<1>4. PICK G : G = UNION {ToSet(bs[a]) : a \in attackers}
  OBVIOUS
<1>5. ASSUME NEW p \in P
      PROVE  /\ p[1] \in attackers /\ p[2] \in ToSet(bs[p[1]])
             /\ p[2] \in Defenders \cap warzone /\ p \in Attackers \X Defenders
  <2>1. PICK a \in attackers : p \in {a} \X ToSet(bs[a])
    BY <1>3 DEF Posts
  <2>2. p[1] = a /\ p[2] \in ToSet(bs[a]) /\ p = <<p[1], p[2]>>
    BY <2>1
  <2> QED
    BY <1>1, <1>2, <2>2
<1>6. ASSUME NEW a \in Attackers PROVE {a} \X ToSet(bs[a]) \subseteq P
  <2>1. CASE a \in attackers
    BY <1>3, <2>1 DEF Posts
  <2>2. CASE a \notin attackers
    <3>1. ToSet(bs[a]) = {}
      BY <1>2, <2>2, EmptyIs DEF Postings
    <3> QED
      BY <3>1
  <2> QED
    BY <2>1, <2>2
<1>7. PICK L : L = log /\ L \in Logs
  BY DEF CombatTypes
<1>8. log' = [L EXCEPT !.posted = @ \cup P, !.parted = @ \ P, !.gone = @ \ G]
  BY <1>3, <1>4, <1>7 DEF Posted
<1>9. /\ log'.posted = L.posted \cup P /\ log'.parted = L.parted \ P
      /\ log'.gone = L.gone \ G
      /\ log'.declared = L.declared /\ log'.broken = L.broken
      /\ log'.struck = L.struck /\ log'.ghosts = L.ghosts
      /\ log'.soaked = L.soaked /\ log'.pierced = L.pierced
  BY <1>7, <1>8 DEF Logs
<1>10. log' \in Logs
  <2>0. L = [declared |-> L.declared, posted |-> L.posted, parted |-> L.parted,
             soaked |-> L.soaked, pierced |-> L.pierced, broken |-> L.broken,
             struck |-> L.struck, gone |-> L.gone, ghosts |-> L.ghosts]
    BY <1>7, LogIs
  <2>1. log' = [declared |-> L.declared, posted |-> L.posted \cup P, parted |-> L.parted \ P,
                soaked |-> L.soaked, pierced |-> L.pierced, broken |-> L.broken,
                struck |-> L.struck, gone |-> L.gone \ G, ghosts |-> L.ghosts]
    BY <1>8, <2>0
  <2>2. P \subseteq Attackers \X Defenders
    BY <1>5
  <2> QED
    BY <1>7, <2>1, <2>2 DEF Logs
<1>11. \A a \in Attackers : bs[a] # <<>> => a \in attackers
  BY <1>2
<1> QED
  BY <1>3, <1>4, <1>5, <1>6, <1>7, <1>9, <1>10, <1>11

LEMMA LeaveIs ==
  ASSUME CombatTypes, NEW t \in Troops, Leave(t)
  PROVE  /\ log' \in Logs
         /\ log'.gone = log.gone \cup ({t} \cap Combatants)
         /\ log'.parted = log.parted \cup PairsOf({t})
         /\ log'.posted = log.posted
         /\ log'.declared = log.declared /\ log'.broken = log.broken
         /\ log'.struck = log.struck /\ log'.ghosts = log.ghosts
         /\ log'.soaked = log.soaked /\ log'.pierced = log.pierced
<1>1. PICK L, G, Q : /\ L = log /\ L \in Logs /\ G = {t} \cap Combatants
                     /\ Q = PairsOf({t}) /\ Q \subseteq L.posted
  BY DEF CombatTypes, PairsOf
<1>2. log' = [L EXCEPT !.gone = @ \cup G, !.parted = @ \cup Q]
  BY <1>1 DEF Leave
<1>3. /\ log'.posted = L.posted /\ log'.parted = L.parted \cup Q
      /\ log'.gone = L.gone \cup G
      /\ log'.declared = L.declared /\ log'.broken = L.broken
      /\ log'.struck = L.struck /\ log'.ghosts = L.ghosts
      /\ log'.soaked = L.soaked /\ log'.pierced = L.pierced
  BY <1>1, <1>2 DEF Logs
<1>4. log' \in Logs
  <2>0. L = [declared |-> L.declared, posted |-> L.posted, parted |-> L.parted,
             soaked |-> L.soaked, pierced |-> L.pierced, broken |-> L.broken,
             struck |-> L.struck, gone |-> L.gone, ghosts |-> L.ghosts]
    BY <1>1, LogIs
  <2>1. log' = [declared |-> L.declared, posted |-> L.posted, parted |-> L.parted \cup Q,
                soaked |-> L.soaked, pierced |-> L.pierced, broken |-> L.broken,
                struck |-> L.struck, gone |-> L.gone \cup G, ghosts |-> L.ghosts]
    BY <1>2, <2>0
  <2>2. G \subseteq Troops /\ Q \subseteq Attackers \X Defenders
    BY <1>1, LogIs
  <2> QED
    BY <1>1, <2>1, <2>2 DEF Logs
<1> QED
  BY <1>1, <1>3, <1>4

LEMMA AssignBlockerIs ==
  ASSUME CombatTypes, NEW a \in Attackers, NEW b \in Defenders, AssignBlocker(a, b)
  PROVE  /\ log' \in Logs
         /\ log'.posted = log.posted \cup {<<a, b>>}
         /\ log'.parted = log.parted \ {<<a, b>>}
         /\ log'.gone = log.gone \ {b}
         /\ log'.declared = log.declared /\ log'.broken = log.broken
         /\ log'.struck = log.struck /\ log'.ghosts = log.ghosts
         /\ log'.soaked = log.soaked /\ log'.pierced = log.pierced
         /\ blockers' \in Postings
         /\ ToSet(blockers'[a]) = ToSet(blockers[a]) \cup {b} /\ blockers'[a] # <<>>
         /\ \A c \in Attackers : c # a => blockers'[c] = blockers[c]
<1>1. PICK L, P : L = log /\ L \in Logs /\ P = {<<a, b>>}
  BY DEF CombatTypes
<1>2. log' = [L EXCEPT !.posted = @ \cup P, !.parted = @ \ P, !.gone = @ \ {b}]
  BY <1>1 DEF AssignBlocker
<1>3. /\ log'.posted = L.posted \cup P /\ log'.parted = L.parted \ P
      /\ log'.gone = L.gone \ {b}
      /\ log'.declared = L.declared /\ log'.broken = L.broken
      /\ log'.struck = L.struck /\ log'.ghosts = L.ghosts
      /\ log'.soaked = L.soaked /\ log'.pierced = L.pierced
  BY <1>1, <1>2 DEF Logs
<1>4. log' \in Logs
  <2>0. L = [declared |-> L.declared, posted |-> L.posted, parted |-> L.parted,
             soaked |-> L.soaked, pierced |-> L.pierced, broken |-> L.broken,
             struck |-> L.struck, gone |-> L.gone, ghosts |-> L.ghosts]
    BY <1>1, LogIs
  <2>1. log' = [declared |-> L.declared, posted |-> L.posted \cup P, parted |-> L.parted \ P,
                soaked |-> L.soaked, pierced |-> L.pierced, broken |-> L.broken,
                struck |-> L.struck, gone |-> L.gone \ {b}, ghosts |-> L.ghosts]
    BY <1>2, <2>0
  <2> QED
    BY <1>1, <2>1 DEF Logs
<1>5. blockers \in Postings /\ blockers' = [blockers EXCEPT ![a] = Append(@, b)]
  BY DEF CombatTypes, CheckpointTypes, AssignBlocker
<1>6. /\ blockers[a] \in Seq(Defenders) /\ Append(blockers[a], b) \in Seq(Defenders)
      /\ Append(blockers[a], b) # <<>>
      /\ ToSet(Append(blockers[a], b)) = ToSet(blockers[a]) \cup {b}
  <2>1. blockers[a] \in Seq(Defenders)
    BY <1>5 DEF Postings
  <2> QED
    BY <2>1, AppendIs
<1>7. /\ blockers' \in Postings /\ blockers'[a] = Append(blockers[a], b)
      /\ \A c \in Attackers : c # a => blockers'[c] = blockers[c]
  BY <1>5, <1>6 DEF Postings
<1> QED
  BY <1>1, <1>3, <1>4, <1>6, <1>7

-----------------------------------------------------------------------------
(* The combats in the manager.                                               *)

LEMMA CombatsAre ==
  ASSUME ManagerTypes, NEW ids \in SUBSET Ids, NEW new \in SUBSET ids,
         listed' = listed \cup new, combat' = WithCombats(new)
  PROVE  /\ ManagerTypes'
         /\ ListedAttackers' = ListedAttackers \cup {id[2] : id \in new}
         /\ DOMAIN combat' = DOMAIN combat \cup new
<1>1. DOMAIN combat' = DOMAIN combat \cup new
  BY DEF WithCombats
<1>2. ASSUME NEW id \in DOMAIN combat' PROVE combat'[id] \in Seq(Defenders)
  <2>1. combat'[id] = IF id \in new THEN <<>> ELSE combat[id]
    BY <1>1, <1>2 DEF WithCombats
  <2> QED
    BY <1>1, <1>2, <2>1 DEF ManagerTypes
<1>3. ManagerTypes'
  BY <1>1, <1>2 DEF ManagerTypes
<1> QED
  BY <1>1, <1>3 DEF ListedAttackers

LEMMA CreatedAre ==
  ASSUME ManagerTypes, NEW ids \in SUBSET Ids, CreateAttacks(ids)
  PROVE  /\ ManagerTypes' /\ ListedAttackers \subseteq ListedAttackers'
         /\ combat = <<>> => {id[2] : id \in ids} \subseteq ListedAttackers'
<1>1. PICK new \in SUBSET ids : new = NewlyListed(ids)
  BY DEF NewlyListed
<1>2. listed' = listed \cup new /\ combat' = WithCombats(new)
  BY <1>1 DEF CreateAttacks
<1>3. ManagerTypes' /\ ListedAttackers' = ListedAttackers \cup {id[2] : id \in new}
  BY <1>2, CombatsAre
<1>4. combat = <<>> => new = ids
  BY <1>1 DEF NewlyListed
<1> QED
  BY <1>3, <1>4

LEMMA PostCombatsAre ==
  ASSUME ManagerTypes, NEW bs \in Postings, PostCombats(bs), UNCHANGED listed
  PROVE  /\ ManagerTypes' /\ ListedAttackers' = ListedAttackers
         /\ \A id \in listed : combat'[id] = bs[id[2]]
<1>1. \A id \in listed : id[2] \in Attackers /\ id \in DOMAIN combat
  BY ListedAre DEF ManagerTypes
<1>2. DOMAIN combat' = DOMAIN combat
  BY DEF PostCombats
<1>3. \A id \in DOMAIN combat : combat'[id] = IF id \in listed THEN bs[id[2]] ELSE combat[id]
  BY DEF PostCombats
<1>4. \A id \in DOMAIN combat : combat'[id] \in Seq(Defenders)
  BY <1>1, <1>3 DEF ManagerTypes, Postings
<1>5. ManagerTypes'
  BY <1>2, <1>4 DEF ManagerTypes
<1> QED
  BY <1>1, <1>3, <1>5 DEF ListedAttackers

LEMMA RestoredAre ==
  ASSUME ManagerTypes, Restart
  PROVE  /\ ManagerTypes' /\ ListedAttackers' = ListedAttackers
         /\ \A id \in listed' :
              \E old \in listed : old[2] = id[2] /\ combat'[id] = combat[old]
<1> DEFINE of(id) == CHOOSE old \in listed : old[2] = id[2]
<1>1. listed' = Restored /\ combat' = [id \in Restored |-> combat[of(id)]]
  BY DEF Restart, RestoredCombats
<1>2. ASSUME NEW id \in Restored PROVE of(id) \in listed /\ of(id)[2] = id[2]
  <2>1. id[2] \in ListedAttackers
    BY DEF Restored
  <2>2. PICK old \in listed : old[2] = id[2]
    BY <2>1 DEF ListedAttackers
  <2> QED
    BY <2>2
<1> HIDE DEF of
<1>3. Restored \subseteq Ids
  BY ListedAre DEF Restored, Ids
<1>4. \A id \in Restored : combat'[id] = combat[of(id)] /\ combat[of(id)] \in Seq(Defenders)
  BY <1>1, <1>2 DEF ManagerTypes
<1>5. ManagerTypes'
  BY <1>1, <1>3, <1>4 DEF ManagerTypes
<1>6. {id[2] : id \in Restored} = ListedAttackers
  <2>1. \A id \in Restored : id[2] \in ListedAttackers
    BY DEF Restored
  <2>2. \A a \in ListedAttackers : <<"restored", a>> \in Restored
    BY DEF Restored
  <2>3. \A a \in ListedAttackers : <<"restored", a>>[2] = a
    OBVIOUS
  <2> QED
    BY <2>1, <2>2, <2>3
<1>7. ListedAttackers' = ListedAttackers
  BY <1>1, <1>6 DEF ListedAttackers
<1> QED
  BY <1>1, <1>2, <1>4, <1>5, <1>7

LEMMA OrderedIs ==
  ASSUME ManagerTypes, NEW id \in listed, NEW ord \in TupleOf(Defenders, Len(combat[id])),
         AssignOrder(id, ord)
  PROVE  /\ ManagerTypes' /\ ListedAttackers' = ListedAttackers
         /\ \A i \in listed : ToSet(combat'[i]) = ToSet(combat[i])
         /\ asked'.id = id /\ asked'.order = ord
         /\ asked'.ok /\ IsInjective(ord) => combat'[id] = ord
<1>1. id \in DOMAIN combat /\ combat[id] \in Seq(Defenders) /\ Len(combat[id]) \in Nat
  BY DEF ManagerTypes
<1>2. ord \in Seq(Defenders) /\ Len(ord) = Len(combat[id])
  BY <1>1 DEF TupleOf
<1>3. PICK s : s = Sorting(combat[id], ord)
  OBVIOUS
<1>4. s.line \in Seq(Defenders) /\ ToSet(s.line) = ToSet(combat[id])
      /\ (s.ok /\ IsInjective(ord) => s.line = ord)
  BY <1>1, <1>2, <1>3, SortingIs
<1>5. /\ combat' = [combat EXCEPT ![id] = s.line] /\ listed' = listed
      /\ asked' = [id |-> id, order |-> ord, ok |-> s.ok]
  BY <1>3 DEF AssignOrder
<1>6. combat'[id] = s.line /\ \A i \in DOMAIN combat : i # id => combat'[i] = combat[i]
  BY <1>1, <1>5
<1>7. ManagerTypes'
  BY <1>1, <1>4, <1>5, <1>6 DEF ManagerTypes
<1>8. \A i \in listed : ToSet(combat'[i]) = ToSet(combat[i])
  BY <1>4, <1>6 DEF ManagerTypes
<1> QED
  BY <1>4, <1>5, <1>6, <1>7, <1>8 DEF ListedAttackers

-----------------------------------------------------------------------------
(* Every variable keeps its type.                                            *)

LEMMA SurvivorsAre ==
  ASSUME CombatTypes, NEW f, GoodFight(f), NEW D, Survivors(f, D)
  PROVE  /\ attackers' = f.who \ D /\ attackers' \subseteq Attackers
         /\ blockers' \in Postings /\ sticky' \subseteq Attackers
         /\ \A a \in Attackers : ToSet(blockers'[a]) = ToSet(f.posts[a]) \ D
         /\ sticky \subseteq sticky'
         /\ \A a \in Attackers : ToSet(f.posts[a]) \cap D # {} => a \in sticky'
<1>1. f.posts \in Postings /\ f.who \subseteq Attackers
  BY DEF GoodFight, Postings
<1>2. /\ attackers' = f.who \ D /\ blockers' = Without(f.posts, D)
      /\ sticky' = sticky \cup Lost(f.posts, D)
  BY DEF Survivors, StillBlocked
<1>3. sticky \subseteq Attackers /\ Lost(f.posts, D) \subseteq Attackers
  BY DEF CombatTypes, CheckpointTypes, Lost
<1>4. \A a \in Attackers : ToSet(f.posts[a]) \cap D # {} => a \in Lost(f.posts, D)
  BY DEF Lost
<1>5. /\ Without(f.posts, D) \in Postings
      /\ \A a \in Attackers : ToSet(Without(f.posts, D)[a]) = ToSet(f.posts[a]) \ D
  BY <1>1, WithoutIs
<1> QED
  BY <1>1, <1>2, <1>3, <1>4, <1>5

LEMMA PrunedIs ==
  ASSUME CombatTypes, NEW t, Prune(t), Host # "pvp"
  PROVE  /\ attackers' = attackers \ {t}
         /\ blockers' \in Postings /\ sticky' \subseteq Attackers
         /\ \A a \in Attackers : ToSet(blockers'[a]) = ToSet(blockers[a]) \ {t}
         /\ sticky \subseteq sticky'
         /\ \A a \in Attackers : t \in ToSet(blockers[a]) => a \in sticky'
         /\ order' = order
<1>1. blockers \in Postings /\ sticky \subseteq Attackers
  BY DEF CombatTypes, CheckpointTypes
<1>2. /\ attackers' = attackers \ {t} /\ blockers' = Without(blockers, {t})
      /\ sticky' = sticky \cup Lost(blockers, {t}) /\ order' = order
  BY DEF Prune, StillBlocked
<1>3. /\ Lost(blockers, {t}) \subseteq Attackers
      /\ \A a \in Attackers : t \in ToSet(blockers[a]) => a \in Lost(blockers, {t})
  BY DEF Lost
<1>4. /\ Without(blockers, {t}) \in Postings
      /\ \A a \in Attackers : ToSet(Without(blockers, {t})[a]) = ToSet(blockers[a]) \ {t}
  BY <1>1, WithoutIs
<1> QED
  BY <1>1, <1>2, <1>3, <1>4

LEMMA DamageKeepsTypes ==
  ASSUME CombatTypes, NEW f, NEW first, GoodFight(f), DamageStep(f, first)
  PROVE  CombatTypes'
<1>1. Fight(f, first) /\ Fought(f, first) /\ phase' \in {"second", "over"}
  BY DEF DamageStep
<1>2. Healthy'
  BY <1>1, FightKeepsHealth DEF CombatTypes
<1>3. log' \in Logs
  BY <1>1, FightLogIs
<1>4. UNCHANGED <<combat, listed, turn, effects>>
  BY <1>1 DEF Fight
<1>5. ManagerTypes'
  BY <1>4 DEF CombatTypes, ManagerTypes
<1>6. ClockTypes'
  BY <1>1, <1>4 DEF CombatTypes, ClockTypes
<1>7. CheckpointTypes'
  <2>1. CASE Survivors(f, Deaths(f, first))
    <3>1. attackers' \subseteq Attackers /\ blockers' \in Postings /\ sticky' \subseteq Attackers
      BY <2>1, SurvivorsAre
    <3>2. order' \in {f.line, NoOrder} /\ (Host # "pvp" => order' = NoOrder)
      BY <1>1, FreshIs DEF Fought
    <3> QED
      BY <3>1, <3>2, FreshIs DEF CheckpointTypes, GoodFight
  <2>2. CASE ~ Survivors(f, Deaths(f, first))
    <3>1. /\ Host = "pvp" /\ attackers' = {} /\ blockers' = NoBlockers
          /\ sticky' \in {sticky, {}} /\ order' \in {f.line, NoOrder}
      BY <1>1, <2>2 DEF Fought
    <3> QED
      BY <3>1, FreshIs DEF CombatTypes, CheckpointTypes, GoodFight
  <2> QED
    BY <2>1, <2>2
<1> QED
  BY <1>2, <1>3, <1>5, <1>6, <1>7 DEF CombatTypes

LEMMA TypesHoldFirst == CombatInit => CombatTypes
<1> SUFFICES ASSUME CombatInit PROVE CombatTypes
  OBVIOUS
<1>1. Healthy
  BY CombatAssumption DEF CombatInit, Healthy
<1>2. ManagerTypes
  <2>1. DOMAIN combat = {}
    BY DEF CombatInit
  <2> QED
    BY <2>1 DEF ManagerTypes, CombatInit
<1>3. CheckpointTypes
  BY FreshIs DEF CheckpointTypes, CombatInit
<1>4. ClockTypes
  BY CombatAssumption DEF ClockTypes, CombatInit, FirstPhase
<1> QED
  BY <1>1, <1>2, <1>3, <1>4, FreshIs DEF CombatTypes, CombatInit

LEMMA TypesKept ==
  ASSUME CombatTypes, [CombatNext]_combatVars
  PROVE  CombatTypes'
<1> USE DEF CombatTypes
<1>0. effects < MaxEffects => effects + 1 \in 0 .. MaxEffects
  BY CombatAssumption DEF ClockTypes
<1>1. CASE UNCHANGED combatVars
  BY <1>1 DEF combatVars, Healthy, ManagerTypes, CheckpointTypes, ClockTypes, Postings
<1>2. ASSUME NEW as \in SUBSET Attackers, DeclareComputer(as) PROVE CombatTypes'
  <2>1. Named(as) \subseteq Ids
    BY DEF Named, Ids
  <2>2. ManagerTypes'
    BY <1>2, <2>1, CreatedAre DEF DeclareComputer
  <2>3. Declared(as) /\ UNCHANGED <<warzone, damage, blockers, sticky, order, turn, effects>>
    BY <1>2 DEF DeclareComputer
  <2>4. attackers' \subseteq Attackers /\ log' \in Logs /\ phase' \in {"over", "block"}
    BY <2>3, DeclaredIs
  <2>5. Healthy' /\ ClockTypes'
    BY <2>3, <2>4 DEF Healthy, ClockTypes
  <2>6. CheckpointTypes'
    BY <2>3, <2>4 DEF CheckpointTypes, Postings
  <2> QED
    BY <2>2, <2>4, <2>5, <2>6
<1>3. ASSUME DeclareForced PROVE CombatTypes'
  <2>1. PICK as \in SUBSET Attackers : as = Forced \cap warzone
    BY CombatAssumption
  <2>2. Named(as) \subseteq Ids
    BY DEF Named, Ids
  <2>3. CreateAttacks(Named(as)) /\ attackers' = attackers \cup as
    BY <1>3, <2>1 DEF DeclareForced
  <2>4. ManagerTypes'
    BY <2>2, <2>3, CreatedAre
  <2>5. phase' = "declare" /\ UNCHANGED <<warzone, damage, blockers, sticky, order, turn, effects, log>>
    BY <1>3 DEF DeclareForced
  <2>6. Healthy' /\ ClockTypes'
    BY <2>5 DEF Healthy, ClockTypes
  <2>7. CheckpointTypes'
    BY <2>3, <2>5 DEF CheckpointTypes, Postings
  <2> QED
    BY <2>4, <2>5, <2>6, <2>7
<1>4. ASSUME NEW as \in SUBSET Attackers, Commit(as) PROVE CombatTypes'
  <2>1. Serial(as) \subseteq Ids
    BY DEF Serial, Ids
  <2>2. listed' = listed \cup Serial(as) /\ combat' = WithCombats(Serial(as))
    BY <1>4 DEF Commit
  <2>3. ManagerTypes'
    BY <2>1, <2>2, CombatsAre
  <2>4. Declared(as) /\ UNCHANGED <<warzone, damage, blockers, sticky, order, turn, effects>>
    BY <1>4 DEF Commit
  <2>5. attackers' \subseteq Attackers /\ log' \in Logs /\ phase' \in {"over", "block"}
    BY <2>4, DeclaredIs
  <2>6. Healthy' /\ ClockTypes'
    BY <2>4, <2>5 DEF Healthy, ClockTypes
  <2>7. CheckpointTypes'
    BY <2>4, <2>5 DEF CheckpointTypes, Postings
  <2> QED
    BY <2>3, <2>5, <2>6, <2>7
<1>5. ASSUME NEW as \in SUBSET Attackers, DeclarePvp(as) PROVE CombatTypes'
  <2>1. Declared(as)
        /\ UNCHANGED <<warzone, damage, combat, listed, blockers, sticky, order, turn, effects>>
    BY <1>5 DEF DeclarePvp
  <2>2. attackers' \subseteq Attackers /\ log' \in Logs /\ phase' \in {"over", "block"}
    BY <2>1, DeclaredIs
  <2>3. Healthy' /\ ClockTypes' /\ ManagerTypes'
    BY <2>1, <2>2 DEF Healthy, ClockTypes, ManagerTypes
  <2>4. CheckpointTypes'
    BY <2>1, <2>2 DEF CheckpointTypes, Postings
  <2> QED
    BY <2>2, <2>3, <2>4
<1>6. ASSUME NEW bs \in Assignments(attackers),
             BlockComputer(bs) \/ BlockPlayer(bs) \/ BlockPvp(bs)
      PROVE  CombatTypes'
  <2>1. attackers \subseteq Attackers
    BY DEF CheckpointTypes
  <2>2. bs \in Postings
    BY <2>1, AssignmentsAre
  <2>3. /\ Posted(bs, attackers) /\ blockers' = bs /\ phase' = "first"
        /\ UNCHANGED <<warzone, damage, listed, attackers, sticky, order, turn, effects>>
        /\ PostCombats(bs) \/ UNCHANGED combat
    BY <1>6 DEF BlockComputer, BlockPlayer, BlockPvp
  <2>4. log' \in Logs
    BY <2>3, PostedIs
  <2>5. ManagerTypes'
    <3>1. CASE PostCombats(bs)
      BY <2>2, <2>3, <3>1, PostCombatsAre
    <3>2. CASE UNCHANGED combat
      BY <2>3, <3>2 DEF ManagerTypes
    <3> QED
      BY <2>3, <3>1, <3>2
  <2>6. Healthy' /\ ClockTypes'
    BY <2>3 DEF Healthy, ClockTypes
  <2>7. CheckpointTypes'
    BY <2>2, <2>3 DEF CheckpointTypes
  <2> QED
    BY <2>4, <2>5, <2>6, <2>7
<1>7. ASSUME NEW t \in Troops, Leave(t) PROVE CombatTypes'
  <2>1. /\ warzone' = warzone \ {t} /\ damage' = [damage EXCEPT ![t] = 0] /\ Prune(t)
        /\ effects' = effects + 1 /\ effects < MaxEffects
        /\ UNCHANGED <<combat, listed, phase, turn>>
    BY <1>7 DEF Leave, Effect
  <2>2. log' \in Logs
    BY <1>7, LeaveIs
  <2>3. Healthy'
    <3>1. damage' \in [Troops -> Nat] /\ warzone' \subseteq Troops
      BY <2>1 DEF Healthy
    <3>2. \A u \in Troops : damage'[u] = IF u = t THEN 0 ELSE damage[u]
      BY <2>1 DEF Healthy
    <3>3. \A u \in Troops : Defense[u] \in Nat \ {0}
      BY CombatAssumption
    <3> QED
      BY <3>1, <3>2, <3>3 DEF Healthy
  <2>4. ManagerTypes' /\ ClockTypes'
    BY <1>0, <2>1 DEF ManagerTypes, ClockTypes
  <2>5. CheckpointTypes'
    <3>1. CASE Host = "pvp"
      BY <2>1, <3>1 DEF Prune, checkpoint, CheckpointTypes
    <3>2. CASE Host # "pvp"
      BY <2>1, <3>2, PrunedIs DEF CheckpointTypes
    <3> QED
      BY <3>1, <3>2
  <2> QED
    BY <2>2, <2>3, <2>4, <2>5
<1>8. ASSUME NEW t \in Troops, Return(t) PROVE CombatTypes'
  <2>1. /\ warzone' = warzone \cup {t}
        /\ effects' = effects + 1 /\ effects < MaxEffects
        /\ UNCHANGED <<damage, combat, listed, checkpoint, phase, turn, log>>
    BY <1>8 DEF Return, Effect
  <2>2. Healthy'
    BY <2>1 DEF Healthy
  <2>3. ManagerTypes' /\ ClockTypes' /\ CheckpointTypes'
    BY <1>0, <2>1 DEF ManagerTypes, ClockTypes, CheckpointTypes, checkpoint
  <2> QED
    BY <2>1, <2>2, <2>3
<1>9. ASSUME NEW a \in Attackers, NEW b \in Defenders, AssignBlocker(a, b) PROVE CombatTypes'
  <2>1. /\ effects' = effects + 1 /\ effects < MaxEffects
        /\ UNCHANGED <<warzone, damage, combat, listed, attackers, sticky, order, phase, turn>>
    BY <1>9 DEF AssignBlocker, Effect
  <2>2. log' \in Logs /\ blockers' \in Postings
    BY <1>9, AssignBlockerIs
  <2>3. Healthy' /\ ManagerTypes' /\ ClockTypes' /\ CheckpointTypes'
    BY <1>0, <2>1, <2>2 DEF Healthy, ManagerTypes, ClockTypes, CheckpointTypes
  <2> QED
    BY <2>2, <2>3
<1>10. ASSUME NEW id \in listed, NEW ord \in TupleOf(Defenders, Len(combat[id])),
              AssignOrder(id, ord)
       PROVE  CombatTypes'
  <2>1. /\ effects' = effects + 1 /\ effects < MaxEffects
        /\ UNCHANGED <<warzone, damage, checkpoint, phase, turn, log>>
    BY <1>10 DEF AssignOrder, Effect
  <2>2. ManagerTypes'
    BY <1>10, OrderedIs
  <2>3. Healthy' /\ ClockTypes' /\ CheckpointTypes'
    BY <1>0, <2>1 DEF Healthy, ClockTypes, CheckpointTypes, checkpoint
  <2> QED
    BY <2>1, <2>2, <2>3
<1>11. ASSUME Restart PROVE CombatTypes'
  <2>1. /\ effects' = effects + 1 /\ effects < MaxEffects
        /\ UNCHANGED <<warzone, damage, checkpoint, phase, turn, log>>
    BY <1>11 DEF Restart, Effect
  <2>2. ManagerTypes'
    BY <1>11, RestoredAre
  <2>3. Healthy' /\ ClockTypes' /\ CheckpointTypes'
    BY <1>0, <2>1 DEF Healthy, ClockTypes, CheckpointTypes, checkpoint
  <2> QED
    BY <2>1, <2>2, <2>3
<1>12. ASSUME FirstStrikeStep \/ StandardStep PROVE CombatTypes'
  <2> HIDE DEF CombatTypes
  <2>1. PICK f, first : DamageStep(f, first) /\ GoodFight(f)
    BY <1>12, StepsAre
  <2> QED
    BY <2>1, DamageKeepsTypes
<1>13. ASSUME EndTurn PROVE CombatTypes'
  <2>1. /\ turn < MaxTurns /\ turn' = turn + 1 /\ phase' = FirstPhase /\ listed' = {}
        /\ damage' = [t \in Troops |-> 0] /\ log' = FreshLog
        /\ UNCHANGED <<warzone, combat, effects>>
        /\ \/ Host = "pvp" /\ UNCHANGED checkpoint
           \/ /\ attackers' = {} /\ blockers' = NoBlockers
              /\ sticky' = {} /\ order' = NoOrder
    BY <1>13 DEF EndTurn
  <2>2. Healthy'
    BY <2>1, CombatAssumption DEF Healthy
  <2>3. ManagerTypes'
    BY <2>1 DEF ManagerTypes
  <2>4. ClockTypes'
    <3>1. phase' \in {"entry", "declare"}
      BY <2>1 DEF FirstPhase
    <3>2. turn' \in 1 .. MaxTurns
      BY <2>1, CombatAssumption DEF ClockTypes
    <3> QED
      BY <2>1, <3>1, <3>2 DEF ClockTypes
  <2>5. CheckpointTypes'
    <3>1. CASE Host = "pvp" /\ UNCHANGED checkpoint
      BY <3>1 DEF CheckpointTypes, checkpoint
    <3>2. CASE attackers' = {} /\ blockers' = NoBlockers /\ sticky' = {} /\ order' = NoOrder
      BY <3>2, FreshIs DEF CheckpointTypes
    <3> QED
      BY <2>1, <3>1, <3>2
  <2> QED
    BY <2>1, <2>2, <2>3, <2>4, <2>5, FreshIs
<1> QED
  BY <1>1, <1>2, <1>3, <1>4, <1>5, <1>6, <1>7, <1>8, <1>9, <1>10, <1>11, <1>12, <1>13
  DEF CombatNext

-----------------------------------------------------------------------------
(* A combat starts with nothing written down.                                *)

Struck == phase \in {"first", "second"}

StartsFresh ==
    /\ phase \in {"entry", "declare"} => log = FreshLog
    /\ phase = "block" => log.posted = {}
    /\ phase \in {"entry", "declare", "block"} => asked = Unasked

LEMMA FreshKept ==
  ASSUME CombatTypes, StartsFresh, [CombatNext]_combatVars
  PROVE  StartsFresh'
<1>0. phase \in {"entry", "declare"} => log.posted = {}
  BY DEF StartsFresh, FreshLog
<1>1. CASE UNCHANGED combatVars
  BY <1>1 DEF combatVars, StartsFresh
<1>2. ASSUME NEW as \in SUBSET Attackers, DeclareComputer(as) \/ Commit(as) \/ DeclarePvp(as)
      PROVE  StartsFresh'
  <2>1. Declared(as) /\ UNCHANGED asked /\ phase = "declare"
    BY <1>2 DEF DeclareComputer, Commit, DeclarePvp
  <2>2. log'.posted = log.posted /\ phase' \in {"over", "block"}
    BY <2>1, DeclaredIs
  <2> QED
    BY <1>0, <2>1, <2>2 DEF StartsFresh
<1>3. ASSUME DeclareForced PROVE StartsFresh'
  BY <1>3 DEF DeclareForced, StartsFresh
<1>4. ASSUME NEW bs \in Assignments(attackers),
             BlockComputer(bs) \/ BlockPlayer(bs) \/ BlockPvp(bs)
      PROVE  StartsFresh'
  <2>1. phase' = "first"
    BY <1>4 DEF BlockComputer, BlockPlayer, BlockPvp
  <2> QED
    BY <2>1 DEF StartsFresh
<1>5. ASSUME NEW t \in Troops, Leave(t) PROVE StartsFresh'
  <2>1. log'.posted = log.posted
    BY <1>5, LeaveIs
  <2>2. phase' = phase /\ asked' = asked /\ phase \in {"block", "first", "second"}
    BY <1>5 DEF Leave, Window
  <2> QED
    BY <2>1, <2>2 DEF StartsFresh
<1>6. ASSUME NEW t \in Troops, Return(t) PROVE StartsFresh'
  BY <1>6 DEF Return, StartsFresh
<1>7. ASSUME NEW a \in Attackers, NEW b \in Defenders, AssignBlocker(a, b) PROVE StartsFresh'
  BY <1>7 DEF AssignBlocker, StartsFresh
<1>8. ASSUME NEW id \in listed, NEW ord \in TupleOf(Defenders, Len(combat[id])),
             AssignOrder(id, ord)
      PROVE  StartsFresh'
  BY <1>8 DEF AssignOrder, StartsFresh
<1>9. ASSUME Restart PROVE StartsFresh'
  BY <1>9 DEF Restart, StartsFresh
<1>10. ASSUME FirstStrikeStep \/ StandardStep PROVE StartsFresh'
  BY <1>10 DEF FirstStrikeStep, StandardStep, StartsFresh
<1>11. ASSUME EndTurn PROVE StartsFresh'
  <2>1. phase' \in {"entry", "declare"} /\ log' = FreshLog /\ asked' = Unasked
    BY <1>11 DEF EndTurn, FirstPhase
  <2> QED
    BY <2>1 DEF StartsFresh
<1> QED
  BY <1>1, <1>2, <1>3, <1>4, <1>5, <1>6, <1>7, <1>8, <1>9, <1>10, <1>11 DEF CombatNext

LEMMA FreshFirst == CombatInit => StartsFresh
BY DEF CombatInit, StartsFresh, FirstPhase

-----------------------------------------------------------------------------
(* Who was posted and is still there is in the fight the host reads.         *)

Unparted == log.posted \ log.parted

Standing ==
    Struck => \A p \in Unparted :
        /\ p[1] \in attackers => p[2] \in ToSet(blockers[p[1]])
        /\ Host = "player" => \A id \in listed : id[2] = p[1] => p[2] \in ToSet(combat[id])

NoLateBlocks == Host = "player" => "block" \notin Effects

\* In a damage step it is posted, and in the line, against the attacker.
LEMMA StandingIsInLine ==
  ASSUME CombatTypes, Standing, Struck, NEW f, NEW first, DamageStep(f, first),
         NEW p \in Unparted, p[1] \in f.who
  PROVE  p[2] \in ToSet(Line(f, p[1])) /\ p[2] \in ToSet(f.posts[p[1]])
<1>1. p[1] \in Attackers /\ p[2] \in Defenders
  BY DEF CombatTypes, Logs, Unparted
<1>2. CASE Host = "pvp"
  <2>1. PICK o \in Orders : f = PvpFight(o)
    BY <1>2 DEF DamageStep, Fought
  <2>2. CheckpointTypes
    BY DEF CombatTypes
  <2>3. f.who = attackers /\ f.posts = blockers
        /\ \A a \in Attackers : blockers[a] # <<>>
              => ToSet(Line(f, a)) = ToSet(blockers[a])
    BY <2>1, <2>2, PvpFightIs
  <2>4. p[2] \in ToSet(blockers[p[1]])
    BY <2>3 DEF Standing
  <2>5. blockers[p[1]] # <<>>
    <3>1. blockers[p[1]] \in Seq(Defenders)
      BY <1>1 DEF CombatTypes, CheckpointTypes, Postings
    <3> QED
      BY <2>4, <3>1, EmptyIs
  <2> QED
    BY <1>1, <2>3, <2>4, <2>5
<1>3. CASE Host # "pvp" /\ Host = "player" /\ listed # {}
  <2>1. f = FromManager
    BY <1>3 DEF DamageStep, Fought, PveFight
  <2>2. ManagerTypes
    BY DEF CombatTypes
  <2>3. f.who = ListedAttackers
        /\ \A a \in ListedAttackers :
              \E id \in listed : /\ id[2] = a /\ f.posts[a] = combat[id]
                                 /\ Line(f, a) = combat[id]
    BY <2>1, <2>2, ManagerFightIs
  <2>4. PICK id \in listed : /\ id[2] = p[1] /\ f.posts[p[1]] = combat[id]
                             /\ Line(f, p[1]) = combat[id]
    BY <2>3
  <2> QED
    BY <1>3, <2>4 DEF Standing
<1>4. CASE Host # "pvp" /\ ~(Host = "player" /\ listed # {})
  <2>1. f = FromCheckpoint
    BY <1>4 DEF DamageStep, Fought, PveFight
  <2>2. CheckpointTypes
    BY DEF CombatTypes
  <2>3. f.who = attackers /\ f.posts = blockers /\ f.line = order
    BY <2>1, <2>2, CheckpointFightIs
  <2>4. DOMAIN order = {}
    BY <1>4, FreshIs DEF CombatTypes, CheckpointTypes
  <2>5. Line(f, p[1]) = blockers[p[1]]
    BY <2>3, <2>4 DEF Line
  <2> QED
    BY <2>3, <2>5 DEF Standing
<1> QED
  BY <1>2, <1>3, <1>4

LEMMA StandingKept ==
  ASSUME CombatTypes, StartsFresh, Standing, NoLateBlocks, [CombatNext]_combatVars
  PROVE  Standing'
<1>1. CASE UNCHANGED combatVars
  BY <1>1 DEF combatVars, Standing, Struck, Unparted
<1>2. ASSUME NEW as \in SUBSET Attackers, DeclareComputer(as) \/ Commit(as) \/ DeclarePvp(as)
      PROVE  Standing'
  <2>1. Declared(as)
    BY <1>2 DEF DeclareComputer, Commit, DeclarePvp
  <2>2. phase' \in {"over", "block"}
    BY <2>1, DeclaredIs
  <2> QED
    BY <2>2 DEF Standing, Struck
<1>3. ASSUME DeclareForced PROVE Standing'
  BY <1>3 DEF DeclareForced, Standing, Struck
<1>4. ASSUME NEW bs \in Assignments(attackers),
             BlockComputer(bs) \/ BlockPlayer(bs) \/ BlockPvp(bs)
      PROVE  Standing'
  <2>1. /\ Posted(bs, attackers) /\ blockers' = bs /\ attackers' = attackers
        /\ listed' = listed /\ phase = "block"
        /\ Host = "player" => PostCombats(bs)
    BY <1>4 DEF BlockComputer, BlockPlayer, BlockPvp
  <2>2. PICK P : P = Posts(bs, attackers)
    OBVIOUS
  <2>3. /\ \A p \in P : p[1] \in attackers /\ p[2] \in ToSet(bs[p[1]])
        /\ log'.posted = log.posted \cup P
    BY <2>1, <2>2, PostedIs
  <2>4. Unparted' \subseteq P
    BY <2>1, <2>3 DEF Unparted, StartsFresh
  <2>5. Host = "player" => \A id \in listed : combat'[id] = bs[id[2]]
    <3> SUFFICES ASSUME Host = "player" PROVE \A id \in listed : combat'[id] = bs[id[2]]
      OBVIOUS
    <3>1. ManagerTypes /\ attackers \in SUBSET Attackers
      BY DEF CombatTypes, CheckpointTypes
    <3>2. bs \in Postings
      BY <3>1, AssignmentsAre
    <3> QED
      BY <2>1, <3>1, <3>2, PostCombatsAre
  <2> QED
    BY <2>1, <2>3, <2>4, <2>5 DEF Standing
<1>5. ASSUME NEW t \in Troops, Leave(t) PROVE Standing'
  <2>1. log'.posted = log.posted /\ log'.parted = log.parted \cup PairsOf({t})
    BY <1>5, LeaveIs
  <2>2. \A p \in Unparted' : p \in Unparted /\ p[1] # t /\ p[2] # t
    BY <2>1 DEF Unparted, PairsOf
  <2>3. UNCHANGED <<combat, listed, phase>> /\ Prune(t)
    BY <1>5 DEF Leave
  <2>4. \A p \in Unparted' : p[1] \in Attackers
    BY <2>2 DEF Unparted, CombatTypes, Logs
  <2>5. \/ UNCHANGED <<attackers, blockers>>
        \/ /\ attackers' = attackers \ {t}
           /\ \A a \in Attackers : ToSet(blockers'[a]) = ToSet(blockers[a]) \ {t}
    BY <2>3, PrunedIs DEF Prune, checkpoint
  <2>6. ASSUME Struck', NEW p \in Unparted', p[1] \in attackers'
        PROVE  p[2] \in ToSet(blockers'[p[1]])
    <3>1. Struck /\ p[1] \in attackers
      BY <2>3, <2>5, <2>6 DEF Struck
    <3>2. p[2] \in ToSet(blockers[p[1]]) /\ p[2] # t /\ p[1] \in Attackers
      BY <2>2, <2>4, <3>1 DEF Standing
    <3> QED
      BY <2>5, <3>2
  <2>7. Struck' => Struck
    BY <2>3 DEF Struck
  <2> QED
    BY <2>2, <2>3, <2>6, <2>7 DEF Standing
<1>6. ASSUME NEW t \in Troops, Return(t) PROVE Standing'
  BY <1>6 DEF Return, checkpoint, Standing, Struck, Unparted
<1>7. ASSUME NEW a \in Attackers, NEW b \in Defenders, AssignBlocker(a, b) PROVE Standing'
  <2>1. Host # "player" /\ UNCHANGED <<attackers, phase>>
    BY <1>7 DEF AssignBlocker, Effect, NoLateBlocks
  <2>2. /\ log'.posted = log.posted \cup {<<a, b>>}
        /\ log'.parted = log.parted \ {<<a, b>>}
        /\ ToSet(blockers'[a]) = ToSet(blockers[a]) \cup {b}
        /\ \A c \in Attackers : c # a => blockers'[c] = blockers[c]
    BY <1>7, AssignBlockerIs
  <2>3. Unparted' \subseteq Unparted \cup {<<a, b>>}
    BY <2>2 DEF Unparted
  <2>4. \A p \in Unparted : p[1] \in Attackers
    BY DEF Unparted, CombatTypes, Logs
  <2>5. ASSUME Struck', NEW p \in Unparted', p[1] \in attackers'
        PROVE  p[2] \in ToSet(blockers'[p[1]])
    <3>1. CASE p = <<a, b>>
      BY <2>2, <3>1
    <3>2. CASE p \in Unparted
      <4>1. p[2] \in ToSet(blockers[p[1]])
        BY <2>1, <2>5, <3>2 DEF Standing, Struck
      <4> QED
        BY <2>2, <2>4, <3>2, <4>1
    <3> QED
      BY <2>3, <3>1, <3>2
  <2> QED
    BY <2>1, <2>5 DEF Standing
<1>8. ASSUME NEW id \in listed, NEW ord \in TupleOf(Defenders, Len(combat[id])),
             AssignOrder(id, ord)
      PROVE  Standing'
  <2>1. \A i \in listed : ToSet(combat'[i]) = ToSet(combat[i])
    BY <1>8, OrderedIs DEF CombatTypes
  <2>2. UNCHANGED <<listed, attackers, blockers, phase, log>>
    BY <1>8 DEF AssignOrder, checkpoint
  <2> QED
    BY <2>1, <2>2 DEF Standing, Struck, Unparted
<1>9. ASSUME Restart PROVE Standing'
  <2>1. \A id \in listed' : \E old \in listed : old[2] = id[2] /\ combat'[id] = combat[old]
    BY <1>9, RestoredAre DEF CombatTypes
  <2>2. UNCHANGED <<attackers, blockers, phase, log>>
    BY <1>9 DEF Restart, checkpoint
  <2> QED
    BY <2>1, <2>2 DEF Standing, Struck, Unparted
<1>10. ASSUME FirstStrikeStep \/ StandardStep PROVE Standing'
  <2>1. PICK f, first : first \in BOOLEAN /\ DamageStep(f, first) /\ GoodFight(f)
    BY <1>10, StepsAre
  <2>2. CASE ~first
    BY <2>1, <2>2 DEF DamageStep, Standing, Struck
  <2>3. CASE first
    <3>1. Struck /\ Fight(f, first) /\ Survivors(f, Deaths(f, first))
      BY <2>1, <2>3 DEF DamageStep, Fought, Struck
    <3>2. /\ attackers' = f.who \ Deaths(f, first)
          /\ \A a \in Attackers : ToSet(blockers'[a]) = ToSet(f.posts[a]) \ Deaths(f, first)
      BY <2>1, <3>1, SurvivorsAre
    <3>3. /\ log'.posted = log.posted
          /\ log'.parted = log.parted \cup PairsOf(Deaths(f, first))
      BY <2>1, <3>1, FightLogIs
    <3>4. \A p \in Unparted' : p \in Unparted /\ p[1] \notin Deaths(f, first)
                                              /\ p[2] \notin Deaths(f, first)
      BY <3>3 DEF Unparted, PairsOf
    <3>5. UNCHANGED <<combat, listed>>
      BY <3>1 DEF Fight
    <3>6. ASSUME NEW p \in Unparted', p[1] \in attackers'
          PROVE  p[2] \in ToSet(blockers'[p[1]])
      <4>1. p \in Unparted /\ p[1] \in f.who
        BY <3>2, <3>4, <3>6
      <4>2. p[2] \in ToSet(f.posts[p[1]])
        BY <2>1, <3>1, <4>1, StandingIsInLine
      <4>3. p[1] \in Attackers
        BY <4>1 DEF Unparted, CombatTypes, Logs
      <4> QED
        BY <3>2, <3>4, <4>2, <4>3
    <3> QED
      BY <3>1, <3>4, <3>5, <3>6 DEF Standing
  <2> QED
    BY <2>1, <2>2, <2>3
<1>11. ASSUME EndTurn PROVE Standing'
  <2>1. phase' \in {"entry", "declare"}
    BY <1>11 DEF EndTurn, FirstPhase
  <2> QED
    BY <2>1 DEF Standing, Struck
<1> QED
  BY <1>1, <1>2, <1>3, <1>4, <1>5, <1>6, <1>7, <1>8, <1>9, <1>10, <1>11 DEF CombatNext

LEMMA StandingFirst == CombatInit => Standing
BY DEF CombatInit, Standing, Struck, FirstPhase

\* Only a damage step hits the champion.
LEMMA PiercingIs ==
  ASSUME CombatTypes, [CombatNext]_combatVars
  PROVE  \/ log'.pierced \subseteq log.pierced /\ log'.broken \subseteq log.broken
         \/ \E f : \E first \in BOOLEAN : DamageStep(f, first) /\ GoodFight(f)
<1>1. CASE UNCHANGED combatVars
  BY <1>1 DEF combatVars
<1>2. ASSUME NEW as \in SUBSET Attackers, DeclareComputer(as) \/ Commit(as) \/ DeclarePvp(as)
      PROVE  log'.pierced = log.pierced /\ log'.broken = log.broken
  <2>1. Declared(as)
    BY <1>2 DEF DeclareComputer, Commit, DeclarePvp
  <2> QED
    BY <2>1, DeclaredIs
<1>3. ASSUME NEW bs \in Assignments(attackers),
             BlockComputer(bs) \/ BlockPlayer(bs) \/ BlockPvp(bs)
      PROVE  log'.pierced = log.pierced /\ log'.broken = log.broken
  <2>1. Posted(bs, attackers)
    BY <1>3 DEF BlockComputer, BlockPlayer, BlockPvp
  <2> QED
    BY <2>1, PostedIs
<1>4. ASSUME NEW t \in Troops, Leave(t)
      PROVE  log'.pierced = log.pierced /\ log'.broken = log.broken
  BY <1>4, LeaveIs
<1>5. ASSUME NEW a \in Attackers, NEW b \in Defenders, AssignBlocker(a, b)
      PROVE  log'.pierced = log.pierced /\ log'.broken = log.broken
  BY <1>5, AssignBlockerIs
<1>6. ASSUME FirstStrikeStep \/ StandardStep
      PROVE  \E f : \E first \in BOOLEAN : DamageStep(f, first) /\ GoodFight(f)
  BY <1>6, StepsAre
<1>7. ASSUME EndTurn PROVE log'.pierced = {} /\ log'.broken = {}
  BY <1>7 DEF EndTurn, FreshLog
<1>8. ASSUME \/ DeclareForced \/ Restart \/ \E t \in Troops : Return(t)
             \/ \E id \in listed : \E ord \in TupleOf(Defenders, Len(combat[id])) :
                   AssignOrder(id, ord)
      PROVE  log' = log
  BY <1>8 DEF DeclareForced, Restart, Return, AssignOrder
<1> QED
  BY <1>1, <1>2, <1>3, <1>4, <1>5, <1>6, <1>7, <1>8 DEF CombatNext

LEMMA PiercingKills ==
  ASSUME CombatTypes, Standing, [CombatNext]_combatVars
  PROVE  PierceKillsBlockersStep
<1> SUFFICES ASSUME NEW a \in log'.pierced \ log.pierced, NEW b \in warzone,
                    <<a, b>> \in log.posted \ log.parted
             PROVE  b \notin warzone'
  BY DEF PierceKillsBlockersStep
<1>1. PICK f, first : first \in BOOLEAN /\ DamageStep(f, first) /\ GoodFight(f)
  BY PiercingIs
<1>2. Fight(f, first) /\ Struck /\ Healthy
  BY <1>1 DEF DamageStep, Struck, CombatTypes
<1>3. a \in Pierces(f, first)
  BY <1>1, <1>2, FightLogIs
<1>4. a \in Strikers(f, first) /\ Left(f, a) > 0
  BY <1>3 DEF Pierces
<1>5. a \in f.who /\ a \in Attackers
  BY <1>1, <1>4 DEF Strikers, Present, GoodFight
<1>6. b \in ToSet(Line(f, a))
  <2>1. PICK p : p = <<a, b>> /\ p \in Unparted /\ p[1] = a /\ p[2] = b
    BY DEF Unparted
  <2> QED
    BY <1>1, <1>2, <1>5, <2>1, StandingIsInLine
<1>7. b \in ToSet(Live(f, a))
  BY <1>1, <1>5, <1>6, LinesAre
<1>8. b \in Deaths(f, first)
  BY <1>1, <1>2, <1>4, <1>7, KilledIs
<1> QED
  BY <1>1, <1>2, <1>8, FightKeepsHealth

-----------------------------------------------------------------------------
(* An attack that was blocked stays blocked.                                 *)

Faced(a) == ToSet(blockers[a]) # {}

BlocksCount ==
    /\ log.broken \subseteq Crush
    /\ Struck => \A p \in log.posted :
         /\ p[1] \in attackers =>
              \/ Faced(p[1])
              \/ Host # "pvp" /\ p[1] \in sticky
              \/ Host = "pvp" /\ phase = "second" /\ p[1] \in Swift
         /\ Host = "player" => \A id \in listed : id[2] = p[1] => ToSet(combat[id]) # {}
    /\ Host = "pvp" /\ phase = "first" =>
         \A a, c \in Attackers : a # c => ToSet(blockers[a]) \cap ToSet(blockers[c]) = {}

NoDualAttackers == Host = "pvp" => DualStrike \cap Attackers = {}

\* The host of a damage step sees the block, or the attacker has had its turn.
LEMMA BlockIsSeen ==
  ASSUME CombatTypes, BlocksCount, Struck, NEW f, GoodFight(f), NEW first \in BOOLEAN,
         DamageStep(f, first), NEW p \in log.posted, p[1] \in f.who
  PROVE  /\ \/ ToSet(Line(f, p[1])) # {} \/ Remembered(p[1])
            \/ Host = "pvp" /\ ~first /\ p[1] \in Swift
         /\ Host # "pvp" => ToSet(f.posts[p[1]]) # {} \/ p[1] \in sticky
<1>1. p[1] \in Attackers
  BY DEF CombatTypes, Logs
<1>2. CASE Host = "pvp"
  <2>1. PICK o \in Orders : f = PvpFight(o)
    BY <1>2 DEF DamageStep, Fought
  <2>2. CheckpointTypes
    BY DEF CombatTypes
  <2>3. f.who = attackers
        /\ \A a \in Attackers : blockers[a] # <<>>
              => ToSet(Line(f, a)) = ToSet(blockers[a])
    BY <2>1, <2>2, PvpFightIs
  <2>4. blockers[p[1]] \in Seq(Defenders)
    BY <1>1, <2>2 DEF CheckpointTypes, Postings
  <2>5. Faced(p[1]) \/ (phase = "second" /\ p[1] \in Swift)
    BY <1>2, <2>3 DEF BlocksCount
  <2>6. CASE Faced(p[1])
    <3>1. blockers[p[1]] # <<>>
      BY <2>4, <2>6, EmptyIs DEF Faced
    <3> QED
      BY <1>1, <1>2, <2>3, <2>6, <3>1 DEF Faced
  <2>7. CASE phase = "second" /\ p[1] \in Swift
    BY <1>2, <2>7 DEF DamageStep
  <2> QED
    BY <2>5, <2>6, <2>7
<1>3. CASE Host # "pvp" /\ Host = "player" /\ listed # {}
  <2>1. f = FromManager
    BY <1>3 DEF DamageStep, Fought, PveFight
  <2>2. ManagerTypes
    BY DEF CombatTypes
  <2>3. f.who = ListedAttackers
        /\ \A a \in ListedAttackers :
              \E id \in listed : /\ id[2] = a /\ f.posts[a] = combat[id]
                                 /\ Line(f, a) = combat[id]
    BY <2>1, <2>2, ManagerFightIs
  <2>4. PICK id \in listed : /\ id[2] = p[1] /\ f.posts[p[1]] = combat[id]
                             /\ Line(f, p[1]) = combat[id]
    BY <2>3
  <2> QED
    BY <1>3, <2>4 DEF BlocksCount
<1>4. CASE Host # "pvp" /\ ~(Host = "player" /\ listed # {})
  <2>1. f = FromCheckpoint
    BY <1>4 DEF DamageStep, Fought, PveFight
  <2>2. CheckpointTypes
    BY DEF CombatTypes
  <2>3. f.who = attackers /\ f.posts = blockers /\ f.line = order
    BY <2>1, <2>2, CheckpointFightIs
  <2>4. DOMAIN order = {}
    BY <1>4, FreshIs DEF CombatTypes, CheckpointTypes
  <2>5. Line(f, p[1]) = blockers[p[1]]
    BY <2>3, <2>4 DEF Line
  <2>6. Faced(p[1]) \/ p[1] \in sticky
    BY <1>4, <2>3 DEF BlocksCount
  <2> QED
    BY <1>4, <2>3, <2>5, <2>6 DEF Faced, Remembered
<1> QED
  BY <1>2, <1>3, <1>4

LEMMA BreakingNeedsCrush ==
  ASSUME CombatTypes, BlocksCount, NoDualAttackers, NEW f, GoodFight(f),
         NEW first \in BOOLEAN, DamageStep(f, first)
  PROVE  log'.broken \subseteq Crush
<1>1. Struck /\ Fight(f, first)
  BY DEF DamageStep, Struck
<1>2. log'.broken = log.broken \cup (Pierces(f, first) \cap {p[1] : p \in log.posted})
  BY <1>1, FightLogIs
<1>3. ASSUME NEW p \in log.posted, p[1] \in Pierces(f, first) PROVE p[1] \in Crush
  <2>1. PICK a : a = p[1]
    OBVIOUS
  <2>2. a \in Strikers(f, first) /\ (~Blocked(f, a) \/ a \in Crush)
    BY <1>3, <2>1 DEF Pierces
  <2>3. a \in f.who /\ a \in Attackers /\ Cares(a, first)
    BY <2>2 DEF Strikers, Present, GoodFight
  <2>4. \/ ToSet(Line(f, a)) # {} \/ Remembered(a) \/ (Host = "pvp" /\ ~first /\ a \in Swift)
    BY <1>1, <2>1, <2>3, BlockIsSeen
  <2>5. ~ (Host = "pvp" /\ ~first /\ a \in Swift)
    BY <2>3 DEF Cares, Swift, NoDualAttackers
  <2>6. ToSet(Line(f, a)) # {} => Line(f, a) # <<>>
    BY EmptyIs, LinesAre, <2>3
  <2> QED
    BY <2>1, <2>2, <2>4, <2>5, <2>6 DEF Blocked
<1> QED
  BY <1>2, <1>3 DEF BlocksCount

\* Between two humans a slow attacker's blockers live through the first step.
LEMMA SlowStaysFaced ==
  ASSUME CombatTypes, BlocksCount, Host = "pvp", NEW f, GoodFight(f), DamageStep(f, TRUE),
         NEW a \in Attackers, Faced(a), a \notin Swift
  PROVE  /\ Faced(a)'
         /\ attackers' \subseteq attackers
<1>1. PICK o \in Orders : f = PvpFight(o)
  BY DEF DamageStep, Fought
<1>2. /\ Healthy /\ CheckpointTypes /\ phase = "first"
      /\ Survivors(f, Deaths(f, TRUE))
  BY DEF CombatTypes, DamageStep, Fought
<1>3. blockers[a] # <<>>
  <2>1. blockers[a] \in Seq(Defenders)
    BY <1>2 DEF CheckpointTypes, Postings
  <2> QED
    BY <2>1, EmptyIs DEF Faced
<1>4. /\ f.who = attackers /\ f.posts = blockers
      /\ \A c \in Attackers : ToSet(Line(f, c)) = ToSet(blockers[c])
  BY <1>1, <1>2, <1>3, PvpFightIs
<1>5. PICK b : b \in ToSet(blockers[a])
  BY DEF Faced
<1>6. b \in Defenders
  <2>1. blockers[a] \in Seq(Defenders)
    BY <1>2 DEF CheckpointTypes, Postings
  <2> QED
    BY <1>5, <2>1, EmptyIs
<1>7. \A c \in Strikers(f, TRUE) : b \notin ToSet(Live(f, c))
  <2> SUFFICES ASSUME NEW c \in Strikers(f, TRUE) PROVE b \notin ToSet(Live(f, c))
    OBVIOUS
  <2>1. c \in Attackers /\ c \in Swift
    BY DEF Strikers, Present, GoodFight, Cares, Swift
  <2>2. c # a
    BY <2>1
  <2>3. b \notin ToSet(blockers[c])
    BY <1>2, <1>5, <2>1, <2>2 DEF BlocksCount
  <2> QED
    BY <1>4, <2>1, <2>3, LinesAre
<1>8. b \notin Deaths(f, TRUE)
  <2>1. CASE b \in warzone
    <3>1. b \notin Attackers
      BY <1>6, CombatAssumption
    <3> QED
      BY <1>2, <1>7, <2>1, <3>1, SparedIs
  <2>2. CASE b \notin warzone
    BY <2>2 DEF Deaths
  <2> QED
    BY <2>1, <2>2
<1>9. /\ ToSet(blockers'[a]) = ToSet(blockers[a]) \ Deaths(f, TRUE)
      /\ attackers' \subseteq attackers
  <2>1. /\ attackers' = f.who \ Deaths(f, TRUE)
        /\ \A c \in Attackers : ToSet(blockers'[c]) = ToSet(f.posts[c]) \ Deaths(f, TRUE)
    BY <1>2, SurvivorsAre
  <2> QED
    BY <1>4, <2>1
<1> QED
  BY <1>5, <1>8, <1>9 DEF Faced

LEMMA BlocksCountKept ==
  ASSUME CombatTypes, StartsFresh, BlocksCount, NoLateBlocks, NoDualAttackers,
         [CombatNext]_combatVars
  PROVE  BlocksCount'
<1>1. CASE UNCHANGED combatVars
  BY <1>1 DEF combatVars, BlocksCount, Struck, Faced
<1>2. ASSUME NEW as \in SUBSET Attackers, DeclareComputer(as) \/ Commit(as) \/ DeclarePvp(as)
      PROVE  BlocksCount'
  <2>1. Declared(as)
    BY <1>2 DEF DeclareComputer, Commit, DeclarePvp
  <2>2. phase' \in {"over", "block"} /\ log'.broken = log.broken
    BY <2>1, DeclaredIs
  <2> QED
    BY <2>2 DEF BlocksCount, Struck
<1>3. ASSUME DeclareForced PROVE BlocksCount'
  BY <1>3 DEF DeclareForced, BlocksCount, Struck
<1>4. ASSUME NEW bs \in Assignments(attackers),
             BlockComputer(bs) \/ BlockPlayer(bs) \/ BlockPvp(bs)
      PROVE  BlocksCount'
  <2>1. /\ Posted(bs, attackers) /\ blockers' = bs /\ attackers' = attackers
        /\ listed' = listed /\ phase = "block"
        /\ Host = "player" => PostCombats(bs)
    BY <1>4 DEF BlockComputer, BlockPlayer, BlockPvp
  <2>2. PICK P : P = Posts(bs, attackers)
    OBVIOUS
  <2>3. /\ \A p \in P : p[1] \in attackers /\ p[2] \in ToSet(bs[p[1]])
        /\ log'.posted = log.posted \cup P /\ log'.broken = log.broken
    BY <2>1, <2>2, PostedIs
  <2>4. log'.posted = P
    BY <2>1, <2>3 DEF StartsFresh
  <2>5. /\ bs \in Postings
        /\ \A a, c \in Attackers : a # c => ToSet(bs[a]) \cap ToSet(bs[c]) = {}
    <3>1. attackers \in SUBSET Attackers
      BY DEF CombatTypes, CheckpointTypes
    <3> QED
      BY <3>1, AssignmentsAre
  <2>6. Host = "player" => \A id \in listed : combat'[id] = bs[id[2]]
    <3> SUFFICES ASSUME Host = "player" PROVE \A id \in listed : combat'[id] = bs[id[2]]
      OBVIOUS
    <3>1. ManagerTypes
      BY DEF CombatTypes
    <3> QED
      BY <2>1, <2>5, <3>1, PostCombatsAre
  <2>7. \A p \in log'.posted : ToSet(bs[p[1]]) # {}
    BY <2>3, <2>4
  <2>8. \A p \in log'.posted : Faced(p[1])'
    BY <2>1, <2>7 DEF Faced
  <2>9. \A p \in log'.posted : Host = "player" =>
           \A id \in listed' : id[2] = p[1] => ToSet(combat'[id]) # {}
    BY <2>1, <2>6, <2>7
  <2> QED
    BY <2>1, <2>3, <2>5, <2>8, <2>9 DEF BlocksCount
<1>5. ASSUME NEW t \in Troops, Leave(t) PROVE BlocksCount'
  <2>1. log'.posted = log.posted /\ log'.broken = log.broken
    BY <1>5, LeaveIs
  <2>2. UNCHANGED <<combat, listed, phase>> /\ Prune(t)
    BY <1>5 DEF Leave
  <2>3. \A p \in log.posted : p[1] \in Attackers
    BY DEF CombatTypes, Logs
  <2>4. CASE Host = "pvp"
    BY <2>1, <2>2, <2>4 DEF Prune, checkpoint, BlocksCount, Struck, Faced
  <2>5. CASE Host # "pvp"
    <3>1. /\ attackers' = attackers \ {t}
          /\ \A a \in Attackers : ToSet(blockers'[a]) = ToSet(blockers[a]) \ {t}
          /\ sticky \subseteq sticky'
          /\ \A a \in Attackers : t \in ToSet(blockers[a]) => a \in sticky'
      BY <2>2, <2>5, PrunedIs
    <3>2. \A a \in Attackers : Faced(a) => Faced(a)' \/ a \in sticky'
      BY <3>1 DEF Faced
    <3> QED
      BY <2>1, <2>2, <2>3, <2>5, <3>1, <3>2 DEF BlocksCount, Struck
  <2> QED
    BY <2>4, <2>5
<1>6. ASSUME NEW t \in Troops, Return(t) PROVE BlocksCount'
  BY <1>6 DEF Return, checkpoint, BlocksCount, Struck, Faced
<1>7. ASSUME NEW a \in Attackers, NEW b \in Defenders, AssignBlocker(a, b) PROVE BlocksCount'
  <2>1. Host # "player" /\ Host # "pvp" /\ UNCHANGED <<attackers, sticky, phase>>
    BY <1>7 DEF AssignBlocker, Effect, NoLateBlocks
  <2>2. /\ log'.posted = log.posted \cup {<<a, b>>} /\ log'.broken = log.broken
        /\ ToSet(blockers'[a]) = ToSet(blockers[a]) \cup {b}
        /\ \A c \in Attackers : c # a => blockers'[c] = blockers[c]
    BY <1>7, AssignBlockerIs
  <2>3. \A p \in log'.posted : p[1] \in Attackers /\ (p \in log.posted \/ p[1] = a)
    BY <2>2 DEF CombatTypes, Logs
  <2>4. Faced(a)' /\ \A c \in Attackers : Faced(c) => Faced(c)'
    BY <2>2 DEF Faced
  <2> QED
    BY <2>1, <2>2, <2>3, <2>4 DEF BlocksCount, Struck
<1>8. ASSUME NEW id \in listed, NEW ord \in TupleOf(Defenders, Len(combat[id])),
             AssignOrder(id, ord)
      PROVE  BlocksCount'
  <2>1. \A i \in listed : ToSet(combat'[i]) = ToSet(combat[i])
    BY <1>8, OrderedIs DEF CombatTypes
  <2>2. UNCHANGED <<listed, attackers, blockers, sticky, phase, log>>
    BY <1>8 DEF AssignOrder, checkpoint
  <2> QED
    BY <2>1, <2>2 DEF BlocksCount, Struck, Faced
<1>9. ASSUME Restart PROVE BlocksCount'
  <2>1. \A id \in listed' : \E old \in listed : old[2] = id[2] /\ combat'[id] = combat[old]
    BY <1>9, RestoredAre DEF CombatTypes
  <2>2. UNCHANGED <<attackers, blockers, sticky, phase, log>>
    BY <1>9 DEF Restart, checkpoint
  <2> QED
    BY <2>1, <2>2 DEF BlocksCount, Struck, Faced
<1>10. ASSUME FirstStrikeStep \/ StandardStep PROVE BlocksCount'
  <2>1. PICK f, first : first \in BOOLEAN /\ DamageStep(f, first) /\ GoodFight(f)
    BY <1>10, StepsAre
  <2>2. log'.broken \subseteq Crush
    BY <2>1, BreakingNeedsCrush
  <2>3. CASE ~first
    BY <2>1, <2>2, <2>3 DEF DamageStep, BlocksCount, Struck
  <2>4. CASE first
    <3>1. /\ Struck /\ Fight(f, first) /\ Survivors(f, Deaths(f, first))
          /\ phase = "first" /\ phase' = "second" /\ first = TRUE
      BY <2>1, <2>4 DEF DamageStep, Fought, Struck
    <3>2. /\ attackers' = f.who \ Deaths(f, first)
          /\ \A a \in Attackers : ToSet(blockers'[a]) = ToSet(f.posts[a]) \ Deaths(f, first)
          /\ sticky \subseteq sticky'
          /\ \A a \in Attackers : ToSet(f.posts[a]) \cap Deaths(f, first) # {} => a \in sticky'
      BY <2>1, <3>1, SurvivorsAre
    <3>3. log'.posted = log.posted /\ UNCHANGED <<combat, listed>>
      <4>1. log'.posted = log.posted
        BY <2>1, <3>1, FightLogIs
      <4> QED
        BY <3>1, <4>1 DEF Fight
    <3>4. ASSUME NEW p \in log.posted, p[1] \in attackers'
          PROVE  \/ Faced(p[1])'
                 \/ Host # "pvp" /\ p[1] \in sticky'
                 \/ Host = "pvp" /\ p[1] \in Swift
      <4>1. p[1] \in Attackers /\ p[1] \in f.who
        BY <3>2, <3>4 DEF CombatTypes, Logs
      <4>2. CASE Host # "pvp"
        <5>1. ToSet(f.posts[p[1]]) # {} \/ p[1] \in sticky
          BY <2>1, <3>1, <4>1, <4>2, BlockIsSeen
        <5> QED
          BY <3>2, <4>1, <4>2, <5>1 DEF Faced
      <4>3. CASE Host = "pvp" /\ p[1] \notin Swift
        <5>1. p[1] \in attackers
          <6>1. PICK o \in Orders : f = PvpFight(o)
            BY <2>1, <4>3 DEF DamageStep, Fought
          <6> QED
            BY <4>1, <6>1, PvpFightIs DEF CombatTypes
        <5>2. Faced(p[1])
          BY <3>1, <4>3, <5>1 DEF BlocksCount
        <5> QED
          BY <2>1, <3>1, <4>1, <4>3, <5>2, SlowStaysFaced
      <4> QED
        BY <4>2, <4>3
    <3>5. \A p \in log.posted : Host = "player" =>
             \A id \in listed : id[2] = p[1] => ToSet(combat[id]) # {}
      BY <3>1 DEF BlocksCount
    <3> QED
      BY <2>2, <3>1, <3>3, <3>4, <3>5 DEF BlocksCount
  <2> QED
    BY <2>1, <2>3, <2>4
<1>11. ASSUME EndTurn PROVE BlocksCount'
  <2>1. phase' \in {"entry", "declare"} /\ log'.broken = {}
    BY <1>11 DEF EndTurn, FirstPhase, FreshLog
  <2> QED
    BY <2>1 DEF BlocksCount, Struck
<1> QED
  BY <1>1, <1>2, <1>3, <1>4, <1>5, <1>6, <1>7, <1>8, <1>9, <1>10, <1>11 DEF CombatNext

LEMMA BlocksCountFirst == CombatInit => BlocksCount
BY DEF CombatInit, BlocksCount, Struck, FirstPhase, FreshLog

-----------------------------------------------------------------------------
(* Every attacker that is still there has its turn.                          *)

\* Between two people a troop that must attack does so without a combat in the
\* manager, and brings about no first step of its own.
ForcedStrikeLate == Host = "pvp" => Forced \cap FirstStrike \subseteq DualStrike

Fielded ==
    /\ phase = "declare" => attackers \subseteq warzone
    /\ phase = "entry" => attackers = {} /\ (Forced # {} => combat = <<>> /\ listed = {})
    /\ Host = "pvp" /\ phase = "over" => attackers = {}
    /\ Host = "player" /\ phase \in {"declare", "block", "first", "second"}
          => attackers \subseteq ListedAttackers
    /\ Window => log.declared \ log.gone \subseteq attackers \cap warzone
    /\ phase = "second" => (log.declared \ log.gone) \cap Swift \subseteq log.struck
    /\ ForcedStrikeLate => AttackersStrike

ForcedFightOnce == Host = "player" => MaxTurns = 1 \/ Forced = {}

\* Whoever attacks in the checkpoint is in the fight the host reads.
LEMMA AttackersAreRead ==
  ASSUME CombatTypes, Struck, NEW f, NEW first, DamageStep(f, first),
         Host = "player" => attackers \subseteq ListedAttackers
  PROVE  /\ attackers \subseteq f.who
         /\ Host = "player" => f.who \subseteq ListedAttackers
         /\ Host # "player" => f.who = attackers
<1>1. CASE Host = "pvp"
  <2>1. PICK o \in Orders : f = PvpFight(o)
    BY <1>1 DEF DamageStep, Fought
  <2> QED
    BY <1>1, <2>1, PvpFightIs DEF CombatTypes
<1>2. CASE Host # "pvp" /\ Host = "player" /\ listed # {}
  <2>1. f = FromManager
    BY <1>2 DEF DamageStep, Fought, PveFight
  <2> QED
    BY <1>2, <2>1, ManagerFightIs DEF CombatTypes
<1>3. CASE Host # "pvp" /\ ~(Host = "player" /\ listed # {})
  <2>1. f = FromCheckpoint
    BY <1>3 DEF DamageStep, Fought, PveFight
  <2> QED
    BY <1>3, <2>1, CheckpointFightIs DEF CombatTypes
<1> QED
  BY <1>1, <1>2, <1>3

\* An attacker that nothing took out of the fight strikes in one of its steps.
LEMMA SwiftStrikeFirst ==
  ASSUME CombatTypes, NEW f, NEW first \in BOOLEAN, DamageStep(f, first),
         NEW a \in attackers, a \in Present(f), a \notin log.struck,
         phase = "second" => a \notin Swift, first \/ ForcedStrikeLate
  PROVE  (first /\ a \notin Swift) \/ a \in Strikers(f, first)
<1>1. CASE first
  BY <1>1 DEF Strikers, Cares, Swift
<1>2. CASE ~first
  <2>1. a \notin FirstStrike \/ a \in DualStrike
    <3>1. CASE phase = "first" /\ a \in Committed
      <4>1. ~HasFirstStrike /\ a \in warzone
        BY <1>2, <3>1 DEF DamageStep, Present
      <4> QED
        BY <3>1, <4>1 DEF HasFirstStrike, Swift
    <3>2. CASE phase = "first" /\ a \notin Committed
      <4>1. ~HasFirstStrike /\ a \in Forced
        BY <1>2, <3>2 DEF DamageStep, Committed
      <4> QED
        BY <1>2, <4>1 DEF HasFirstStrike, Swift, ForcedStrikeLate
    <3> QED
      BY <1>2, <3>1, <3>2 DEF DamageStep, Swift
  <2> QED
    BY <1>2, <2>1 DEF Strikers, Cares
<1> QED
  BY <1>1, <1>2

LEMMA FieldedKept ==
  ASSUME CombatTypes, StartsFresh, Fielded, ForcedFightOnce, [CombatNext]_combatVars
  PROVE  Fielded'
<1>0. /\ attackers \subseteq Attackers /\ log.declared \subseteq Attackers
      /\ ManagerTypes /\ log \in Logs
  BY DEF CombatTypes, CheckpointTypes, Logs
<1>1. CASE UNCHANGED combatVars
  BY <1>1 DEF combatVars, Fielded, Window, ListedAttackers, AttackersStrike
<1>2. ASSUME NEW as \in SUBSET Attackers, DeclareComputer(as) \/ Commit(as) \/ DeclarePvp(as)
      PROVE  Fielded'
  <2>1. /\ Declared(as) /\ phase = "declare" /\ warzone' = warzone
        /\ as \subseteq warzone
    BY <1>2 DEF DeclareComputer, Commit, DeclarePvp
  <2>2. /\ attackers' = attackers \cup as /\ log'.declared = attackers'
        /\ phase' = IF attackers' = {} THEN "over" ELSE "block"
    BY <2>1, DeclaredIs
  <2>3. attackers' \subseteq warzone'
    BY <2>1, <2>2 DEF Fielded
  <2>4. Host = "player" => attackers' \subseteq ListedAttackers'
    <3> SUFFICES ASSUME Host = "player" PROVE attackers' \subseteq ListedAttackers'
      OBVIOUS
    <3>1. listed' = listed \cup Serial(as)
      BY <1>2 DEF DeclareComputer, Commit, DeclarePvp
    <3>2. \A a \in as : <<"serial", a>> \in Serial(as) /\ <<"serial", a>>[2] = a
      BY DEF Serial
    <3>3. as \subseteq ListedAttackers' /\ ListedAttackers \subseteq ListedAttackers'
      BY <3>1, <3>2 DEF ListedAttackers
    <3> QED
      BY <2>1, <2>2, <3>3 DEF Fielded
  <2>5. AttackersStrike'
    BY <2>2 DEF AttackersStrike
  <2> QED
    BY <2>2, <2>3, <2>4, <2>5 DEF Fielded, Window
<1>3. ASSUME DeclareForced PROVE Fielded'
  <2>1. PICK as \in SUBSET Attackers : as = Forced \cap warzone
    BY CombatAssumption
  <2>2. /\ Host = "player" /\ phase = "entry" /\ phase' = "declare" /\ warzone' = warzone
        /\ CreateAttacks(Named(as)) /\ attackers' = attackers \cup as
    BY <1>3, <2>1 DEF DeclareForced
  <2>3. attackers' = as
    BY <2>2 DEF Fielded
  <2>4. as \subseteq ListedAttackers'
    <3>1. Named(as) \subseteq Ids /\ \A a \in as : <<"named", a>> \in Named(as) /\ <<"named", a>>[2] = a
      BY DEF Named, Ids
    <3>2. CASE Forced = {}
      BY <2>1, <3>2
    <3>3. CASE Forced # {}
      <4>1. {id[2] : id \in Named(as)} \subseteq ListedAttackers'
        BY <1>0, <2>2, <3>1, <3>3, CreatedAre DEF Fielded
      <4> QED
        BY <3>1, <4>1
    <3> QED
      BY <3>2, <3>3
  <2> QED
    BY <2>1, <2>2, <2>3, <2>4 DEF Fielded, Window, AttackersStrike
<1>4. ASSUME NEW bs \in Assignments(attackers),
             BlockComputer(bs) \/ BlockPlayer(bs) \/ BlockPvp(bs)
      PROVE  Fielded'
  <2>1. /\ Posted(bs, attackers) /\ phase = "block" /\ phase' = "first"
        /\ UNCHANGED <<warzone, attackers, listed>>
    BY <1>4 DEF BlockComputer, BlockPlayer, BlockPvp
  <2>2. /\ log'.declared = log.declared
        /\ log'.gone = log.gone \ UNION {ToSet(bs[a]) : a \in attackers}
    BY <2>1, PostedIs
  <2>3. \A a \in attackers : ToSet(bs[a]) \subseteq Defenders
    BY <1>0, AssignmentsAre
  <2>4. log'.declared \ log'.gone \subseteq log.declared \ log.gone
    BY <1>0, <2>2, <2>3, CombatAssumption
  <2> QED
    BY <2>1, <2>4 DEF Fielded, Window, AttackersStrike, ListedAttackers
<1>5. ASSUME NEW t \in Troops, Leave(t) PROVE Fielded'
  <2>1. /\ log'.gone = log.gone \cup ({t} \cap Combatants)
        /\ log'.declared = log.declared /\ log'.struck = log.struck
    BY <1>5, LeaveIs
  <2>2. /\ warzone' = warzone \ {t} /\ Prune(t) /\ Window
        /\ UNCHANGED <<listed, phase>>
    BY <1>5 DEF Leave
  <2>3. attackers' \subseteq attackers /\ attackers \ {t} \subseteq attackers'
    BY <2>2, PrunedIs DEF Prune, checkpoint
  <2>4. attackers \subseteq Combatants
    BY DEF Combatants
  <2>5. log'.declared \ log'.gone \subseteq (log.declared \ log.gone) \cap (attackers' \cap warzone')
    BY <2>1, <2>2, <2>3, <2>4 DEF Fielded
  <2>6. phase \in {"block", "first", "second"}
    BY <2>2 DEF Window
  <2> QED
    BY <2>1, <2>2, <2>3, <2>5, <2>6 DEF Fielded, Window, AttackersStrike, ListedAttackers
<1>6. ASSUME NEW t \in Troops, Return(t) PROVE Fielded'
  <2>1. warzone' = warzone \cup {t} /\ UNCHANGED <<combat, listed, attackers, phase, log>>
    BY <1>6 DEF Return, checkpoint
  <2> QED
    BY <2>1 DEF Fielded, Window, AttackersStrike, ListedAttackers
<1>7. ASSUME NEW a \in Attackers, NEW b \in Defenders, AssignBlocker(a, b) PROVE Fielded'
  <2>1. /\ log'.gone = log.gone \ {b} /\ log'.declared = log.declared
        /\ log'.struck = log.struck
    BY <1>7, AssignBlockerIs
  <2>2. UNCHANGED <<warzone, combat, listed, attackers, phase>> /\ phase \in {"first", "second"}
    BY <1>7 DEF AssignBlocker
  <2>3. log'.declared \ log'.gone = log.declared \ log.gone
    BY <1>0, <2>1, CombatAssumption
  <2> QED
    BY <2>1, <2>2, <2>3 DEF Fielded, Window, AttackersStrike, ListedAttackers
<1>8. ASSUME NEW id \in listed, NEW ord \in TupleOf(Defenders, Len(combat[id])),
             AssignOrder(id, ord)
      PROVE  Fielded'
  <2>1. UNCHANGED <<warzone, listed, attackers, phase, log>> /\ phase = "first"
    BY <1>8 DEF AssignOrder, checkpoint
  <2> QED
    BY <2>1 DEF Fielded, Window, AttackersStrike, ListedAttackers
<1>9. ASSUME Restart PROVE Fielded'
  <2>1. UNCHANGED <<warzone, attackers, phase, log>> /\ Window
    BY <1>9 DEF Restart, checkpoint
  <2>2. ListedAttackers' = ListedAttackers
    BY <1>0, <1>9, RestoredAre
  <2>3. phase \in {"block", "first", "second"}
    BY <2>1 DEF Window
  <2> QED
    BY <2>1, <2>2, <2>3 DEF Fielded, Window, AttackersStrike
<1>10. ASSUME FirstStrikeStep \/ StandardStep PROVE Fielded'
  <2>1. PICK f, first : first \in BOOLEAN /\ DamageStep(f, first) /\ GoodFight(f)
    BY <1>10, StepsAre
  <2>2. Fight(f, first) /\ Struck /\ phase \in {"first", "second"} /\ Window
    BY <2>1 DEF DamageStep, Struck, Window
  <2>3. PICK D : D = Deaths(f, first)
    OBVIOUS
  <2>4. /\ log'.declared = log.declared
        /\ log'.gone = log.gone \cup (D \cap (f.who \cup {p[2] : p \in log.posted}))
        /\ log'.struck = log.struck \cup (Strikers(f, first) \cup BackStrikers(f, first))
    BY <2>1, <2>2, <2>3, FightLogIs
  <2>5. warzone' = warzone \ D /\ listed' = listed
    BY <2>2, <2>3 DEF Fight
  <2>6. /\ attackers \subseteq f.who
        /\ Host = "player" => f.who \subseteq ListedAttackers
    BY <2>1, <2>2, AttackersAreRead DEF Fielded
  <2>7. ASSUME NEW a \in log'.declared \ log'.gone
        PROVE  /\ a \in log.declared \ log.gone /\ a \in attackers
               /\ a \in f.who \ D /\ a \in warzone' /\ a \in Present(f)
    <3>1. a \in log.declared \ log.gone /\ a \in attackers /\ a \in warzone
      BY <2>2, <2>4 DEF Fielded
    <3>2. a \in f.who /\ a \notin D
      BY <2>4, <2>6, <3>1
    <3> QED
      BY <2>5, <3>1, <3>2 DEF Present
  <2>8. ASSUME NEW a \in log'.declared \ log'.gone, first \/ ForcedStrikeLate
        PROVE  (first /\ a \notin Swift) \/ a \in log'.struck
    <3>1. /\ a \in log.declared \ log.gone /\ a \in attackers
          /\ a \in Present(f)
      BY <2>7
    <3>2. CASE a \in log.struck
      BY <2>4, <3>2
    <3>3. CASE a \notin log.struck
      <4>1. phase = "second" => a \notin Swift
        BY <3>1, <3>3 DEF Fielded
      <4>2. (first /\ a \notin Swift) \/ a \in Strikers(f, first)
        BY <2>1, <2>8, <3>1, <3>3, <4>1, SwiftStrikeFirst
      <4> QED
        BY <2>4, <4>2
    <3> QED
      BY <3>2, <3>3
  <2>9. CASE first
    <3>1. phase' = "second" /\ Survivors(f, D)
      BY <2>1, <2>3, <2>9 DEF DamageStep, Fought
    <3>2. attackers' = f.who \ D
      BY <3>1 DEF Survivors
    <3>3. Host = "player" => attackers' \subseteq ListedAttackers'
      BY <2>5, <2>6, <3>2 DEF ListedAttackers
    <3> QED
      BY <2>7, <2>8, <2>9, <3>1, <3>2, <3>3 DEF Fielded, Window, AttackersStrike
  <2>10. CASE ~first
    <3>1. phase' = "over" /\ (Host = "pvp" => attackers' = {})
      BY <2>1, <2>10 DEF DamageStep, Fought
    <3> QED
      BY <2>8, <2>10, <3>1 DEF Fielded, Window, AttackersStrike
  <2> QED
    BY <2>1, <2>9, <2>10
<1>11. ASSUME EndTurn PROVE Fielded'
  <2>1. /\ phase = "over" /\ phase' = FirstPhase /\ turn < MaxTurns
        /\ IF Host = "pvp" THEN attackers' = attackers ELSE attackers' = {}
    BY <1>11 DEF EndTurn, checkpoint
  <2>2. attackers' = {}
    BY <2>1 DEF Fielded
  <2>3. phase' = "entry" => Host = "player" /\ Forced = {}
    <3>1. MaxTurns # 1
      BY <2>1 DEF CombatTypes, ClockTypes
    <3> QED
      BY <2>1, <3>1 DEF FirstPhase, ForcedFightOnce
  <2>4. phase' \in {"entry", "declare"}
    BY <2>1 DEF FirstPhase
  <2> QED
    BY <2>2, <2>3, <2>4 DEF Fielded, Window, AttackersStrike
<1> QED
  BY <1>1, <1>2, <1>3, <1>4, <1>5, <1>6, <1>7, <1>8, <1>9, <1>10, <1>11 DEF CombatNext

LEMMA FieldedFirst == CombatInit => Fielded
BY DEF CombatInit, Fielded, Window, FirstPhase, AttackersStrike, ListedAttackers

-----------------------------------------------------------------------------
(* Every blocker that is still there has its turn.                           *)

Answered ==
    /\ phase = "block" => attackers \subseteq log.declared
    /\ Host = "pvp" => \A p \in log.posted : p[1] \notin Forced
    /\ Struck => \A p \in Unparted :
         /\ p[2] \in warzone
         /\ p[1] \notin log.gone =>
              /\ p[1] \in attackers \cap warzone
              /\ phase = "second" /\ p[2] \in Swift => p[2] \in log.struck
              /\ Host = "computer" /\ p[2] \in Swift =>
                   /\ p[1] \in ListedAttackers
                   /\ \A id \in listed : id[2] = p[1] => p[2] \in ToSet(combat[id])
    /\ BlockersStrike

SlowLateBlockers ==
    "block" \in Effects /\ Host # "pvp" => Host = "computer" /\ Swift \cap Defenders = {}

\* A blocker in the line of an attacker that is there strikes back.
LEMMA SwiftAnswerFirst ==
  ASSUME CombatTypes, Standing, Fielded, Answered, NEW f, GoodFight(f),
         NEW first \in BOOLEAN, DamageStep(f, first),
         NEW p \in Unparted, p[1] \notin log.gone
  PROVE  \/ first /\ p[2] \notin Swift
         \/ p[2] \in log.struck
         \/ p[2] \in BackStrikers(f, first)
<1>1. Struck /\ p[1] \in attackers \cap warzone /\ p[2] \in warzone
  BY DEF DamageStep, Struck, Answered
<1>2. p[1] \in f.who /\ p[1] \in Present(f) /\ p[1] \in Attackers
  <2>1. attackers \subseteq f.who
    BY <1>1, AttackersAreRead DEF Fielded, Struck
  <2> QED
    BY <1>1, <2>1 DEF Present, GoodFight
<1>3. p[2] \in ToSet(Live(f, p[1]))
  BY <1>1, <1>2, StandingIsInLine, LinesAre
<1>4. Cares(p[2], first) => p[2] \in BackStrikers(f, first)
  BY <1>2, <1>3 DEF BackStrikers, Against
<1>5. CASE first
  BY <1>4, <1>5 DEF Cares, Swift
<1>6. CASE ~first /\ p[2] \notin Swift
  BY <1>4, <1>6 DEF Cares, Swift
<1>7. CASE ~first /\ p[2] \in Swift
  <2>1. CASE phase = "second"
    BY <1>1, <1>7, <2>1 DEF Answered
  <2>2. CASE phase = "first"
    <3>1. ~HasFirstStrike
      BY <1>7, <2>2 DEF DamageStep
    <3>2. CASE Host = "pvp"
      <4>1. p[2] \in ToSet(blockers[p[1]])
        BY <1>1 DEF Standing
      <4>2. p[1] \in Committed
        BY <1>1, <3>2 DEF Committed, Answered, Unparted
      <4> QED
        BY <1>1, <1>7, <3>1, <3>2, <4>1, <4>2 DEF HasFirstStrike
    <3>3. CASE Host # "pvp"
      <4>1. \E id \in listed : id[2] = p[1] /\ p[2] \in ToSet(combat[id])
        <5>1. CASE Host = "player"
          <6>1. p[1] \in ListedAttackers
            BY <1>1, <2>2, <5>1 DEF Fielded
          <6>2. PICK id \in listed : id[2] = p[1]
            BY <6>1 DEF ListedAttackers
          <6> QED
            BY <1>1, <5>1, <6>2 DEF Standing
        <5>2. CASE Host = "computer"
          <6>1. p[1] \in ListedAttackers
            BY <1>1, <1>7, <5>2 DEF Answered
          <6>2. PICK id \in listed : id[2] = p[1]
            BY <6>1 DEF ListedAttackers
          <6> QED
            BY <1>1, <1>7, <5>2, <6>2 DEF Answered
        <5> QED
          BY <3>3, <5>1, <5>2, CombatAssumption
      <4> QED
        BY <1>1, <1>7, <3>1, <3>3, <4>1 DEF HasFirstStrike
    <3> QED
      BY <3>2, <3>3
  <2> QED
    BY <1>1, <2>1, <2>2 DEF Struck
<1> QED
  BY <1>5, <1>6, <1>7

LEMMA AnsweredKept ==
  ASSUME CombatTypes, StartsFresh, Standing, Fielded, Answered, SlowLateBlockers,
         [CombatNext]_combatVars
  PROVE  Answered'
<1>0. /\ attackers \subseteq Attackers /\ ManagerTypes
      /\ \A p \in log.posted : p[1] \in Attackers /\ p[2] \in Defenders
  BY DEF CombatTypes, CheckpointTypes, Logs
<1>1. CASE UNCHANGED combatVars
  BY <1>1 DEF combatVars, Answered, Struck, Unparted, ListedAttackers, BlockersStrike
<1>2. ASSUME NEW as \in SUBSET Attackers, DeclareComputer(as) \/ Commit(as) \/ DeclarePvp(as)
      PROVE  Answered'
  <2>1. Declared(as) /\ phase = "declare"
    BY <1>2 DEF DeclareComputer, Commit, DeclarePvp
  <2>2. /\ log'.declared = attackers' /\ log'.posted = log.posted
        /\ phase' \in {"over", "block"}
    BY <2>1, DeclaredIs
  <2>3. log'.posted = {}
    BY <2>1, <2>2 DEF StartsFresh, FreshLog
  <2> QED
    BY <2>2, <2>3 DEF Answered, Struck, BlockersStrike
<1>3. ASSUME DeclareForced PROVE Answered'
  BY <1>3 DEF DeclareForced, Answered, Struck, BlockersStrike
<1>4. ASSUME NEW bs \in Assignments(attackers),
             BlockComputer(bs) \/ BlockPlayer(bs) \/ BlockPvp(bs)
      PROVE  Answered'
  <2>1. /\ Posted(bs, attackers) /\ phase = "block" /\ phase' = "first"
        /\ UNCHANGED <<warzone, attackers, listed>>
    BY <1>4 DEF BlockComputer, BlockPlayer, BlockPvp
  <2>2. PICK P : P = Posts(bs, attackers)
    OBVIOUS
  <2>3. /\ \A p \in P : /\ p[1] \in attackers /\ p[2] \in ToSet(bs[p[1]])
                        /\ p[2] \in Defenders \cap warzone
        /\ log'.posted = log.posted \cup P
        /\ log'.gone = log.gone \ UNION {ToSet(bs[a]) : a \in attackers}
    BY <2>1, <2>2, PostedIs
  <2>4. Unparted' \subseteq P
    BY <2>1, <2>3 DEF Unparted, StartsFresh
  <2>5. bs \in Postings /\ \A a \in attackers : ToSet(bs[a]) \subseteq Defenders
    BY <1>0, AssignmentsAre
  <2>6. ASSUME NEW p \in P, p[1] \notin log'.gone PROVE p[1] \in attackers \cap warzone
    <3>1. p[1] \in attackers /\ p[1] \notin Defenders
      BY <1>0, <2>3, CombatAssumption
    <3>2. p[1] \notin log.gone
      BY <2>3, <2>5, <2>6, <3>1
    <3>3. p[1] \in log.declared
      BY <2>1, <3>1 DEF Answered
    <3> QED
      BY <2>1, <3>1, <3>2, <3>3 DEF Fielded, Window
  <2>7. ASSUME Host = "computer", NEW p \in P
        PROVE  /\ p[1] \in ListedAttackers'
               /\ \A id \in listed' : id[2] = p[1] => p[2] \in ToSet(combat'[id])
    <3>1. /\ \A a \in Attackers : bs[a] # <<>> => a \in ListedAttackers \cap attackers
          /\ PostCombats(bs)
      BY <1>4, <2>7 DEF BlockComputer, BlockPlayer, BlockPvp
    <3>2. \A id \in listed : combat'[id] = bs[id[2]]
      BY <1>0, <2>1, <2>5, <3>1, PostCombatsAre
    <3>3. bs[p[1]] # <<>>
      <4>1. bs[p[1]] \in Seq(Defenders)
        BY <1>0, <2>3, <2>5 DEF Postings
      <4> QED
        BY <2>3, <4>1, EmptyIs
    <3>4. p[1] \in ListedAttackers'
      BY <1>0, <2>1, <2>3, <3>1, <3>3 DEF ListedAttackers
    <3> QED
      BY <2>1, <2>3, <3>2, <3>4
  <2>8. ASSUME Host = "pvp", NEW p \in log'.posted PROVE p[1] \notin Forced
    <3>1. p \in P
      BY <2>1, <2>3 DEF StartsFresh
    <3>2. bs[p[1]] # <<>>
      <4>1. bs[p[1]] \in Seq(Defenders)
        BY <1>0, <2>3, <2>5, <3>1 DEF Postings
      <4> QED
        BY <2>3, <3>1, <4>1, EmptyIs
    <3>3. p[1] \in Committed
      BY <1>0, <1>4, <2>3, <2>8, <3>1, <3>2 DEF BlockComputer, BlockPlayer, BlockPvp
    <3> QED
      BY <3>3 DEF Committed
  <2> QED
    BY <2>1, <2>3, <2>4, <2>6, <2>7, <2>8 DEF Answered, BlockersStrike
<1>5. ASSUME NEW t \in Troops, Leave(t) PROVE Answered'
  <2>1. /\ log'.posted = log.posted /\ log'.parted = log.parted \cup PairsOf({t})
        /\ log'.gone = log.gone \cup ({t} \cap Combatants)
        /\ log'.declared = log.declared /\ log'.struck = log.struck
    BY <1>5, LeaveIs
  <2>2. \A p \in Unparted' : p \in Unparted /\ p[1] # t /\ p[2] # t
    BY <2>1 DEF Unparted, PairsOf
  <2>3. /\ UNCHANGED <<combat, listed, phase>> /\ Prune(t) /\ warzone' = warzone \ {t}
        /\ phase # "over"
    BY <1>5 DEF Leave, Window
  <2>4. attackers' \subseteq attackers /\ attackers \ {t} \subseteq attackers'
    BY <2>3, PrunedIs DEF Prune, checkpoint
  <2> QED
    BY <2>1, <2>2, <2>3, <2>4 DEF Answered, Struck, ListedAttackers, BlockersStrike
<1>6. ASSUME NEW t \in Troops, Return(t) PROVE Answered'
  <2>1. warzone' = warzone \cup {t} /\ UNCHANGED <<combat, listed, attackers, phase, log>>
    BY <1>6 DEF Return, checkpoint
  <2> QED
    BY <2>1 DEF Answered, Struck, Unparted, ListedAttackers, BlockersStrike
<1>7. ASSUME NEW a \in Attackers, NEW b \in Defenders, AssignBlocker(a, b) PROVE Answered'
  <2>1. /\ UNCHANGED <<warzone, combat, listed, attackers, phase>>
        /\ phase \in {"first", "second"} /\ a \in attackers \cap warzone /\ b \in warzone
        /\ b \notin Swift /\ Host # "pvp"
    BY <1>7 DEF AssignBlocker, Effect, SlowLateBlockers
  <2>2. /\ log'.posted = log.posted \cup {<<a, b>>}
        /\ log'.parted = log.parted \ {<<a, b>>} /\ log'.gone = log.gone \ {b}
        /\ log'.struck = log.struck
    BY <1>7, AssignBlockerIs
  <2>3. Unparted' \subseteq Unparted \cup {<<a, b>>}
    BY <2>2 DEF Unparted
  <2>4. \A p \in Unparted : p[1] \notin log'.gone => p[1] \notin log.gone
    BY <1>0, <2>2, CombatAssumption DEF Unparted
  <2> QED
    BY <2>1, <2>2, <2>3, <2>4 DEF Answered, Struck, ListedAttackers, BlockersStrike
<1>8. ASSUME NEW id \in listed, NEW ord \in TupleOf(Defenders, Len(combat[id])),
             AssignOrder(id, ord)
      PROVE  Answered'
  <2>1. UNCHANGED <<warzone, listed, attackers, phase, log>> /\ Host = "player" /\ phase = "first"
    BY <1>8 DEF AssignOrder, checkpoint
  <2> QED
    BY <2>1 DEF Answered, Struck, Unparted, BlockersStrike
<1>9. ASSUME Restart PROVE Answered'
  <2>1. UNCHANGED <<warzone, attackers, phase, log>> /\ phase # "over"
    BY <1>9 DEF Restart, checkpoint, Window
  <2>2. /\ ListedAttackers' = ListedAttackers
        /\ \A id \in listed' : \E old \in listed : old[2] = id[2] /\ combat'[id] = combat[old]
    BY <1>0, <1>9, RestoredAre
  <2> QED
    BY <2>1, <2>2 DEF Answered, Struck, Unparted, BlockersStrike
<1>10. ASSUME FirstStrikeStep \/ StandardStep PROVE Answered'
  <2>1. PICK f, first : first \in BOOLEAN /\ DamageStep(f, first) /\ GoodFight(f)
    BY <1>10, StepsAre
  <2>2. Fight(f, first) /\ Struck
    BY <2>1 DEF DamageStep, Struck
  <2>3. PICK D : D = Deaths(f, first)
    OBVIOUS
  <2>4. /\ log'.posted = log.posted /\ log'.parted = log.parted \cup PairsOf(D)
        /\ log'.gone = log.gone \cup (D \cap (f.who \cup {p[2] : p \in log.posted}))
        /\ log'.struck = log.struck \cup (Strikers(f, first) \cup BackStrikers(f, first))
    BY <2>1, <2>2, <2>3, FightLogIs
  <2>5. warzone' = warzone \ D /\ UNCHANGED <<combat, listed>>
    BY <2>2, <2>3 DEF Fight
  <2>6. \A p \in Unparted' : /\ p \in Unparted /\ p[1] \notin D /\ p[2] \notin D
                             /\ (p[1] \notin log'.gone => p[1] \notin log.gone)
    BY <2>4 DEF Unparted, PairsOf
  <2>7. ASSUME NEW p \in Unparted', p[1] \notin log'.gone
        PROVE  (first /\ p[2] \notin Swift) \/ p[2] \in log'.struck
    <3>1. p \in Unparted /\ p[1] \notin log.gone
      BY <2>6, <2>7
    <3>2. \/ first /\ p[2] \notin Swift
          \/ p[2] \in log.struck
          \/ p[2] \in BackStrikers(f, first)
      BY <2>1, <3>1, SwiftAnswerFirst
    <3> QED
      BY <2>4, <3>2
  <2>8. CASE first
    <3>1. phase' = "second" /\ attackers' = f.who \ D
      BY <2>1, <2>3, <2>8 DEF DamageStep, Fought, Survivors
    <3>2. attackers \subseteq f.who
      BY <2>1, <2>2, AttackersAreRead DEF Fielded, Struck
    <3>3. ASSUME NEW p \in Unparted', p[1] \notin log'.gone
          PROVE  /\ p[1] \in attackers' \cap warzone'
                 /\ Host = "computer" /\ p[2] \in Swift =>
                      /\ p[1] \in ListedAttackers'
                      /\ \A id \in listed' : id[2] = p[1] => p[2] \in ToSet(combat'[id])
      <4>1. p \in Unparted /\ p[1] \notin log.gone /\ p[1] \notin D
        BY <2>6, <3>3
      <4>2. p[1] \in attackers \cap warzone
        BY <2>2, <4>1 DEF Answered
      <4>3. Host = "computer" /\ p[2] \in Swift =>
                      /\ p[1] \in ListedAttackers
                      /\ \A id \in listed : id[2] = p[1] => p[2] \in ToSet(combat[id])
        BY <2>2, <4>1 DEF Answered
      <4> QED
        BY <2>5, <3>1, <3>2, <4>1, <4>2, <4>3 DEF ListedAttackers
    <3>4. \A p \in Unparted' : p[2] \in warzone'
      BY <2>2, <2>5, <2>6 DEF Answered
    <3> QED
      BY <2>4, <2>7, <3>1, <3>3, <3>4 DEF Answered, BlockersStrike
  <2>9. CASE ~first
    <3>1. phase' = "over"
      BY <2>1, <2>9 DEF DamageStep
    <3> QED
      BY <2>4, <2>7, <2>9, <3>1 DEF Answered, Struck, BlockersStrike, Unparted
  <2> QED
    BY <2>1, <2>8, <2>9
<1>11. ASSUME EndTurn PROVE Answered'
  <2>1. phase' \in {"entry", "declare"} /\ log'.posted = {}
    BY <1>11 DEF EndTurn, FirstPhase, FreshLog
  <2> QED
    BY <2>1 DEF Answered, Struck, BlockersStrike
<1> QED
  BY <1>1, <1>2, <1>3, <1>4, <1>5, <1>6, <1>7, <1>8, <1>9, <1>10, <1>11 DEF CombatNext

LEMMA AnsweredFirst == CombatInit => Answered
BY DEF CombatInit, Answered, Struck, FirstPhase, FreshLog, BlockersStrike

-----------------------------------------------------------------------------
(* Who left the computer's attack stays out of it.                           *)

Outside ==
    /\ LeftStaysOut
    /\ Window => \A t \in log.gone :
                    /\ t \notin attackers
                    /\ \A a \in Attackers : t \notin ToSet(blockers[a])

\* The computer's attack is fought as the checkpoint has it.
LEMMA ComputerFightIs ==
  ASSUME CombatTypes, Host = "computer", NEW f, NEW first, DamageStep(f, first)
  PROVE  /\ f.who = attackers /\ f.posts = blockers
         /\ \A a \in Attackers : Line(f, a) = blockers[a]
<1>1. f = FromCheckpoint
  BY DEF DamageStep, Fought, PveFight
<1>2. f.who = attackers /\ f.posts = blockers /\ f.line = order
  BY <1>1, CheckpointFightIs DEF CombatTypes
<1>3. DOMAIN order = {}
  BY FreshIs DEF CombatTypes, CheckpointTypes
<1> QED
  BY <1>2, <1>3 DEF Line

\* Only combatants deal damage in its steps, and only combatants take any.
LEMMA OnlyCombatantsFight ==
  ASSUME CombatTypes, Host = "computer", NEW f, GoodFight(f), NEW first, DamageStep(f, first),
         NEW t \in Strikers(f, first) \cup BackStrikers(f, first) \cup {p[2] : p \in Soaks(f, first)}
  PROVE  t \in attackers \/ \E a \in Attackers : t \in ToSet(blockers[a])
<1>0. Healthy /\ f.who = attackers /\ attackers \subseteq Attackers
      /\ \A a \in Attackers : ToSet(Live(f, a)) \subseteq ToSet(blockers[a])
  <2>1. Healthy /\ f.who = attackers /\ attackers \subseteq Attackers
    BY ComputerFightIs DEF CombatTypes, CheckpointTypes
  <2>2. \A a \in Attackers : ToSet(Live(f, a)) \subseteq ToSet(Line(f, a))
    BY LinesAre
  <2>3. \A a \in Attackers : Line(f, a) = blockers[a]
    BY ComputerFightIs
  <2> QED
    BY <2>1, <2>2, <2>3
<1>1. CASE t \in Strikers(f, first)
  BY <1>0, <1>1 DEF Strikers, Present
<1>2. CASE t \in BackStrikers(f, first)
  <2>1. PICK a \in Present(f) : t \in Against(f, a, first)
    BY <1>2 DEF BackStrikers
  <2> QED
    BY <1>0, <2>1 DEF Against, Present
<1>3. CASE t \in {p[2] : p \in Soaks(f, first)}
  <2>1. PICK p \in Soaks(f, first) : t = p[2]
    BY <1>3
  <2>2. p[1] \in Strikers(f, first) /\ Dealt(f, p[1], p[2]) > 0
    BY <2>1 DEF Soaks
  <2>3. p[1] \in Attackers
    BY <1>0, <2>2 DEF Strikers, Present
  <2>4. p[2] \in ToSet(Live(f, p[1]))
    BY <1>0, <2>2, <2>3, HitsAre
  <2> QED
    BY <1>0, <2>1, <2>3, <2>4
<1> QED
  BY <1>1, <1>2, <1>3

LEMMA OutsideKept ==
  ASSUME CombatTypes, StartsFresh, Outside, Host = "computer", [CombatNext]_combatVars
  PROVE  Outside'
<1>0. /\ attackers \subseteq Attackers /\ blockers \in Postings /\ log.ghosts = {}
      /\ Window <=> phase \in {"block", "first", "second"}
  BY DEF CombatTypes, CheckpointTypes, Outside, LeftStaysOut, Window
<1>1. CASE UNCHANGED combatVars
  BY <1>1 DEF combatVars, Outside, Window, LeftStaysOut
<1>2. ASSUME NEW as \in SUBSET Attackers, DeclareComputer(as) \/ Commit(as) \/ DeclarePvp(as)
      PROVE  Outside'
  <2>1. Declared(as) /\ phase = "declare"
    BY <1>2 DEF DeclareComputer, Commit, DeclarePvp
  <2>2. log'.gone = log.gone /\ log'.ghosts = log.ghosts
    BY <2>1, DeclaredIs
  <2>3. log.gone = {}
    BY <2>1 DEF StartsFresh, FreshLog
  <2> QED
    BY <1>0, <2>2, <2>3 DEF Outside, LeftStaysOut
<1>3. ASSUME DeclareForced PROVE Outside'
  BY <1>3 DEF DeclareForced
<1>4. ASSUME NEW bs \in Assignments(attackers),
             BlockComputer(bs) \/ BlockPlayer(bs) \/ BlockPvp(bs)
      PROVE  Outside'
  <2>1. /\ Posted(bs, attackers) /\ phase = "block" /\ blockers' = bs
        /\ attackers' = attackers
    BY <1>4 DEF BlockComputer, BlockPlayer, BlockPvp
  <2>2. /\ log'.gone = log.gone \ UNION {ToSet(bs[a]) : a \in attackers}
        /\ log'.ghosts = log.ghosts
        /\ \A a \in Attackers : bs[a] # <<>> => a \in attackers
    BY <2>1, PostedIs
  <2>3. bs \in Postings
    BY <1>0, AssignmentsAre
  <2>4. ASSUME NEW t \in log'.gone, NEW a \in Attackers PROVE t \notin ToSet(bs[a])
    <3>1. CASE a \in attackers
      BY <2>2, <2>4, <3>1
    <3>2. CASE bs[a] = <<>>
      BY <2>3, <3>2, EmptyIs DEF Postings
    <3> QED
      BY <2>2, <3>1, <3>2
  <2>5. \A t \in log'.gone : t \notin attackers
    BY <1>0, <2>1, <2>2 DEF Outside
  <2> QED
    BY <1>0, <2>1, <2>2, <2>4, <2>5 DEF Outside, LeftStaysOut
<1>5. ASSUME NEW t \in Troops, Leave(t) PROVE Outside'
  <2>1. /\ log'.gone = log.gone \cup ({t} \cap Combatants)
        /\ log'.ghosts = log.ghosts
    BY <1>5, LeaveIs
  <2>2. Prune(t) /\ Window
    BY <1>5 DEF Leave
  <2>3. /\ attackers' = attackers \ {t}
        /\ \A a \in Attackers : ToSet(blockers'[a]) = ToSet(blockers[a]) \ {t}
    BY <2>2, PrunedIs
  <2> QED
    BY <1>0, <2>1, <2>2, <2>3 DEF Outside, LeftStaysOut
<1>6. ASSUME NEW t \in Troops, Return(t) PROVE Outside'
  BY <1>6 DEF Return, checkpoint, Outside, Window, LeftStaysOut
<1>7. ASSUME NEW a \in Attackers, NEW b \in Defenders, AssignBlocker(a, b) PROVE Outside'
  <2>1. /\ UNCHANGED <<attackers, phase>> /\ phase \in {"first", "second"}
    BY <1>7 DEF AssignBlocker
  <2>2. /\ log'.gone = log.gone \ {b} /\ log'.ghosts = log.ghosts
        /\ ToSet(blockers'[a]) = ToSet(blockers[a]) \cup {b}
        /\ \A c \in Attackers : c # a => blockers'[c] = blockers[c]
    BY <1>7, AssignBlockerIs
  <2>3. \A c \in Attackers : ToSet(blockers'[c]) \subseteq ToSet(blockers[c]) \cup {b}
    BY <2>2
  <2> QED
    BY <1>0, <2>1, <2>2, <2>3 DEF Outside, LeftStaysOut
<1>8. ASSUME NEW id \in listed, NEW ord \in TupleOf(Defenders, Len(combat[id])),
             AssignOrder(id, ord)
      PROVE  Outside'
  BY <1>8 DEF AssignOrder
<1>9. ASSUME Restart PROVE Outside'
  BY <1>9 DEF Restart, checkpoint, Outside, Window, LeftStaysOut
<1>10. ASSUME FirstStrikeStep \/ StandardStep PROVE Outside'
  <2>1. PICK f, first : first \in BOOLEAN /\ DamageStep(f, first) /\ GoodFight(f)
    BY <1>10, StepsAre
  <2>2. Fight(f, first) /\ Survivors(f, Deaths(f, first)) /\ Window
    BY <2>1 DEF DamageStep, Fought, Window
  <2>3. PICK D, K : D = Deaths(f, first)
                    /\ K = Strikers(f, first) \cup BackStrikers(f, first)
                             \cup {p[2] : p \in Soaks(f, first)}
    OBVIOUS
  <2>4. /\ log'.gone = log.gone \cup (D \cap (f.who \cup {p[2] : p \in log.posted}))
        /\ log'.ghosts = log.ghosts \cup (log.gone \cap K)
    BY <2>1, <2>2, <2>3, FightLogIs
  <2>5. \A t \in K : t \in attackers \/ \E a \in Attackers : t \in ToSet(blockers[a])
    BY <2>1, <2>3, OnlyCombatantsFight
  <2>6. log'.ghosts = {}
    BY <1>0, <2>2, <2>4, <2>5 DEF Outside
  <2>7. /\ attackers' = f.who \ D
        /\ \A a \in Attackers : ToSet(blockers'[a]) = ToSet(f.posts[a]) \ D
    BY <2>1, <2>2, <2>3, SurvivorsAre
  <2>8. f.who = attackers /\ f.posts = blockers
    BY <2>1, ComputerFightIs
  <2> QED
    BY <2>2, <2>4, <2>6, <2>7, <2>8 DEF Outside, LeftStaysOut
<1>11. ASSUME EndTurn PROVE Outside'
  <2>1. phase' = "declare" /\ log' = FreshLog
    BY <1>11 DEF EndTurn, FirstPhase
  <2> QED
    BY <2>1 DEF Outside, LeftStaysOut, Window, FreshLog
<1> QED
  BY <1>1, <1>2, <1>3, <1>4, <1>5, <1>6, <1>7, <1>8, <1>9, <1>10, <1>11 DEF CombatNext

LEMMA OutsideFirst == CombatInit => Outside
BY DEF CombatInit, Outside, LeftStaysOut, Window, FirstPhase, FreshLog

-----------------------------------------------------------------------------
(* Between two people, who takes an attacker's damage was posted against it. *)

Soaked ==
    /\ OnlyBlockersSoak
    /\ Struck => \A a \in Attackers : {a} \X ToSet(blockers[a]) \subseteq log.posted
    /\ phase # "second" => order = NoOrder
    /\ \A a \in DOMAIN order : {a} \X ToSet(order[a]) \subseteq log.posted
    /\ Window => attackers # {}

SlowDefenders == Swift \cap Defenders = {}

\* A fight of two people has in its lines only whom the log has as posted.
LEMMA DuelLinesAre ==
  ASSUME CombatTypes, Host = "pvp", Soaked, NEW f, NEW first, DamageStep(f, first)
  PROVE  /\ f.who = attackers /\ f.posts = blockers
         /\ \A a \in DOMAIN f.line : {a} \X ToSet(f.line[a]) \subseteq log.posted
         /\ \A a \in Attackers : {a} \X ToSet(Line(f, a)) \subseteq log.posted
<1>1. PICK o \in Orders : f = PvpFight(o)
  BY DEF DamageStep, Fought
<1>2. f.who = attackers /\ f.posts = blockers /\ f.line \in {o, order}
  BY <1>1, PvpFightIs DEF CombatTypes
<1>3. Struck
  BY DEF DamageStep, Struck
<1>4. \A a \in Attackers : {a} \X ToSet(blockers[a]) \subseteq log.posted
  BY <1>3 DEF Soaked
<1>5. DOMAIN o \subseteq Attackers /\ \A a \in DOMAIN o : ToSet(o[a]) = ToSet(blockers[a])
  BY DEF Orders
<1>6. \A a \in DOMAIN f.line : {a} \X ToSet(f.line[a]) \subseteq log.posted
  <2>1. CASE f.line = o
    BY <1>4, <1>5, <2>1
  <2>2. CASE f.line = order
    BY <2>2 DEF Soaked
  <2> QED
    BY <1>2, <2>1, <2>2
<1>7. \A a \in Attackers : {a} \X ToSet(Line(f, a)) \subseteq log.posted
  BY <1>2, <1>4, <1>6 DEF Line
<1> QED
  BY <1>2, <1>6, <1>7

\* Against slow defenders no attacker dies in the first step.
LEMMA AttackersOutlast ==
  ASSUME CombatTypes, SlowDefenders, NEW f, GoodFight(f)
  PROVE  Deaths(f, TRUE) \cap Attackers = {}
<1> SUFFICES ASSUME NEW a \in Deaths(f, TRUE), a \in Attackers PROVE FALSE
  OBVIOUS
<1>1. Healthy /\ a \in warzone /\ a \notin Defenders
  BY CombatAssumption DEF Deaths, CombatTypes
<1>2. Against(f, a, TRUE) \subseteq Defenders
  BY <1>1, StrikersAre
<1>3. Against(f, a, TRUE) = {}
  BY <1>2 DEF Against, Cares, SlowDefenders, Swift
<1> QED
  BY <1>1, <1>3, SparedIs

LEMMA SoakedKept ==
  ASSUME CombatTypes, StartsFresh, Soaked, Host = "pvp", SlowDefenders,
         [CombatNext]_combatVars
  PROVE  Soaked'
<1>0. /\ attackers \subseteq Attackers /\ DOMAIN NoOrder = {}
      /\ Window <=> phase \in {"block", "first", "second"}
      /\ Struck <=> phase \in {"first", "second"}
  BY FreshIs DEF CombatTypes, CheckpointTypes, Window, Struck
<1>1. CASE UNCHANGED combatVars
  BY <1>1 DEF combatVars, Soaked, Window, Struck, OnlyBlockersSoak
<1>2. ASSUME NEW as \in SUBSET Attackers, DeclareComputer(as) \/ Commit(as) \/ DeclarePvp(as)
      PROVE  Soaked'
  <2>1. Declared(as) /\ phase = "declare" /\ order' = order
    BY <1>2 DEF DeclareComputer, Commit, DeclarePvp
  <2>2. /\ log'.posted = log.posted /\ log'.soaked = log.soaked
        /\ phase' = IF attackers' = {} THEN "over" ELSE "block"
    BY <2>1, DeclaredIs
  <2> QED
    BY <1>0, <2>1, <2>2 DEF Soaked, OnlyBlockersSoak, Window, Struck
<1>3. ASSUME DeclareForced PROVE Soaked'
  BY <1>3 DEF DeclareForced
<1>4. ASSUME NEW bs \in Assignments(attackers),
             BlockComputer(bs) \/ BlockPlayer(bs) \/ BlockPvp(bs)
      PROVE  Soaked'
  <2>1. /\ Posted(bs, attackers) /\ phase = "block" /\ phase' = "first" /\ blockers' = bs
        /\ attackers' = attackers /\ order' = order
    BY <1>4 DEF BlockComputer, BlockPlayer, BlockPvp
  <2>2. PICK P : P = Posts(bs, attackers)
    OBVIOUS
  <2>3. /\ log'.posted = log.posted \cup P /\ log'.soaked = log.soaked
        /\ \A a \in Attackers : {a} \X ToSet(bs[a]) \subseteq P
    BY <2>1, <2>2, PostedIs
  <2> QED
    BY <1>0, <2>1, <2>3 DEF Soaked, OnlyBlockersSoak, Window, Struck
<1>5. ASSUME NEW t \in Troops, Leave(t) PROVE Soaked'
  <2>1. log'.posted = log.posted /\ log'.soaked = log.soaked
    BY <1>5, LeaveIs
  <2>2. UNCHANGED <<attackers, blockers, order, phase>>
    BY <1>5 DEF Leave, Prune, checkpoint
  <2> QED
    BY <2>1, <2>2 DEF Soaked, OnlyBlockersSoak, Window, Struck
<1>6. ASSUME NEW t \in Troops, Return(t) PROVE Soaked'
  BY <1>6 DEF Return, checkpoint, Soaked, OnlyBlockersSoak, Window, Struck
<1>7. ASSUME NEW a \in Attackers, NEW b \in Defenders, AssignBlocker(a, b) PROVE Soaked'
  BY <1>7 DEF AssignBlocker
<1>8. ASSUME NEW id \in listed, NEW ord \in TupleOf(Defenders, Len(combat[id])),
             AssignOrder(id, ord)
      PROVE  Soaked'
  BY <1>8 DEF AssignOrder
<1>9. ASSUME Restart PROVE Soaked'
  BY <1>9 DEF Restart
<1>10. ASSUME FirstStrikeStep \/ StandardStep PROVE Soaked'
  <2>1. PICK f, first : first \in BOOLEAN /\ DamageStep(f, first) /\ GoodFight(f)
    BY <1>10, StepsAre
  <2>2. Fight(f, first) /\ Window /\ attackers # {}
    BY <2>1 DEF DamageStep, Window, Soaked
  <2>3. /\ f.who = attackers /\ f.posts = blockers
        /\ \A a \in DOMAIN f.line : {a} \X ToSet(f.line[a]) \subseteq log.posted
        /\ \A a \in Attackers : {a} \X ToSet(Line(f, a)) \subseteq log.posted
    BY <2>1, DuelLinesAre
  <2>4. log'.posted = log.posted /\ log'.soaked = log.soaked \cup Soaks(f, first)
    BY <2>1, <2>2, FightLogIs
  <2>5. ASSUME NEW p \in Soaks(f, first) PROVE p \in log.posted
    <3>1. p \in Strikers(f, first) \X Defenders /\ Dealt(f, p[1], p[2]) > 0
      BY <2>5 DEF Soaks
    <3>2. p[1] \in Attackers /\ p = <<p[1], p[2]>>
      BY <1>0, <2>3, <3>1 DEF Strikers, Present
    <3>3. p[2] \in ToSet(Live(f, p[1]))
      BY <2>1, <3>1, <3>2, HitsAre DEF CombatTypes
    <3>4. p[2] \in ToSet(Line(f, p[1]))
      BY <2>1, <3>2, <3>3, LinesAre
    <3> QED
      BY <2>3, <3>2, <3>4
  <2>6. OnlyBlockersSoak'
    BY <2>4, <2>5 DEF Soaked, OnlyBlockersSoak
  <2>7. CASE first
    <3>1. phase' = "second" /\ Survivors(f, Deaths(f, TRUE)) /\ order' = f.line /\ phase = "first"
      BY <2>1, <2>7 DEF DamageStep, Fought
    <3>2. /\ attackers' = f.who \ Deaths(f, TRUE)
          /\ \A a \in Attackers : ToSet(blockers'[a]) = ToSet(f.posts[a]) \ Deaths(f, TRUE)
      BY <2>1, <3>1, SurvivorsAre
    <3>3. attackers' # {}
      BY <1>0, <2>1, <2>2, <2>3, <3>2, AttackersOutlast
    <3>4. \A a \in Attackers : {a} \X ToSet(blockers'[a]) \subseteq log.posted
      BY <1>0, <2>3, <3>1, <3>2 DEF Soaked
    <3> QED
      BY <2>3, <2>4, <2>6, <3>1, <3>3, <3>4 DEF Soaked
  <2>8. CASE ~first
    <3>1. phase' = "over" /\ order' = NoOrder
      BY <2>1, <2>2, <2>8 DEF DamageStep, Fought
    <3> QED
      BY <1>0, <2>6, <3>1 DEF Soaked, Window, Struck
  <2> QED
    BY <2>1, <2>7, <2>8
<1>11. ASSUME EndTurn PROVE Soaked'
  <2>1. /\ phase' = "declare" /\ log' = FreshLog /\ phase = "over"
        /\ UNCHANGED <<attackers, blockers, order>>
    BY <1>11 DEF EndTurn, FirstPhase, checkpoint
  <2> QED
    BY <1>0, <2>1 DEF Soaked, OnlyBlockersSoak, Window, Struck, FreshLog
<1> QED
  BY <1>1, <1>2, <1>3, <1>4, <1>5, <1>6, <1>7, <1>8, <1>9, <1>10, <1>11 DEF CombatNext

LEMMA SoakedFirst == CombatInit /\ Host = "pvp" => Soaked
BY FreshIs DEF CombatInit, Soaked, OnlyBlockersSoak, Window, Struck, FirstPhase, FreshLog

-----------------------------------------------------------------------------
(* An order of damage is the one that was asked for.                         *)

Ordered ==
    /\ OrderIsObeyed
    /\ <<>> \notin listed

LEMMA OrderedKept ==
  ASSUME CombatTypes, StartsFresh, Ordered, [CombatNext]_combatVars
  PROVE  Ordered'
<1>0. ManagerTypes /\ <<>> \notin Ids
  BY DEF CombatTypes, Ids
<1>1. <<>> \notin listed'
  <2>1. CombatTypes'
    BY TypesKept
  <2> QED
    BY <1>0, <2>1 DEF CombatTypes, ManagerTypes
<1>2. CASE UNCHANGED combatVars
  BY <1>2 DEF combatVars, Ordered, OrderIsObeyed
<1>3. ASSUME phase' # "first" PROVE Ordered'
  BY <1>1, <1>3 DEF Ordered, OrderIsObeyed
<1>4. ASSUME asked' = Unasked PROVE Ordered'
  BY <1>1, <1>4 DEF Ordered, OrderIsObeyed, Unasked
<1>5. ASSUME UNCHANGED <<combat, listed, asked, phase>> PROVE Ordered'
  BY <1>5 DEF Ordered, OrderIsObeyed
<1>6. ASSUME NEW as \in SUBSET Attackers, DeclareComputer(as) \/ Commit(as) \/ DeclarePvp(as)
      PROVE  Ordered'
  <2>1. phase' # "first"
    BY <1>6 DEF DeclareComputer, Commit, DeclarePvp, Declared
  <2> QED
    BY <1>3, <2>1
<1>7. ASSUME DeclareForced PROVE Ordered'
  BY <1>3, <1>7 DEF DeclareForced
<1>8. ASSUME NEW bs \in Assignments(attackers),
             BlockComputer(bs) \/ BlockPlayer(bs) \/ BlockPvp(bs)
      PROVE  Ordered'
  <2>1. phase = "block" /\ asked' = asked
    BY <1>8 DEF BlockComputer, BlockPlayer, BlockPvp
  <2> QED
    BY <1>4, <2>1 DEF StartsFresh
<1>9. ASSUME NEW t \in Troops, Leave(t) \/ Return(t) PROVE Ordered'
  <2>1. UNCHANGED <<combat, listed, asked, phase>>
    BY <1>9 DEF Leave, Return
  <2> QED
    BY <1>5, <2>1
<1>10. ASSUME NEW a \in Attackers, NEW b \in Defenders, AssignBlocker(a, b) PROVE Ordered'
  BY <1>5, <1>10 DEF AssignBlocker
<1>11. ASSUME NEW id \in listed, NEW ord \in TupleOf(Defenders, Len(combat[id])),
             AssignOrder(id, ord)
       PROVE  Ordered'
  <2>1. /\ asked'.id = id /\ asked'.order = ord
        /\ asked'.ok /\ IsInjective(ord) => combat'[id] = ord
    BY <1>0, <1>11, OrderedIs
  <2> QED
    BY <1>1, <2>1 DEF Ordered, OrderIsObeyed
<1>12. ASSUME Restart PROVE Ordered'
  BY <1>4, <1>12 DEF Restart
<1>13. ASSUME FirstStrikeStep \/ StandardStep PROVE Ordered'
  BY <1>3, <1>13 DEF FirstStrikeStep, StandardStep
<1>14. ASSUME EndTurn PROVE Ordered'
  BY <1>4, <1>14 DEF EndTurn
<1> QED
  BY <1>2, <1>6, <1>7, <1>8, <1>9, <1>10, <1>11, <1>12, <1>13, <1>14 DEF CombatNext

LEMMA OrderedFirst == CombatInit => Ordered
BY DEF CombatInit, Ordered, OrderIsObeyed, FirstPhase

-----------------------------------------------------------------------------
(***************************************************************************)
(* The theorems.  A hypothesis on the constants leaves out a battle whose  *)
(* code is known to behave otherwise; the comment says which.              *)
(***************************************************************************)

THEOREM CombatInvariant == CombatSpec => [](CombatTypes /\ StartsFresh)
<1>1. CombatInit => CombatTypes /\ StartsFresh
  BY TypesHoldFirst, FreshFirst
<1>2. CombatTypes /\ StartsFresh /\ [CombatNext]_combatVars
        => CombatTypes' /\ StartsFresh'
  BY TypesKept, FreshKept
<1> QED
  BY <1>1, <1>2, PTL DEF CombatSpec

\* The manager's combats and the checkpoint's maps keep their types, and no troop
\* in a battle has as much damage marked on it as it has defense: the dead are
\* removed in the step that kills them.
THEOREM CombatIsTyped == CombatSpec => [](CombatTypeOK /\ Healthy)
<1>1. CombatTypes => CombatTypeOK /\ Healthy
  BY DEF CombatTypes, CombatTypeOK, Healthy, ManagerTypes, CheckpointTypes, ClockTypes,
         Postings
<1> QED
  BY <1>1, CombatInvariant, PTL

\* Damage goes past a blocker that still stands against its attacker only in a
\* step that kills it, whichever copy of the fight the host reads.  Where the
\* player attacks, an effect's late blocker reaches the checkpoint alone and the
\* damage is read from the manager: such effects are left out there.
THEOREM PierceKillsTheBlockers == ASSUME NoLateBlocks PROVE CombatSpec => PierceKillsBlockers
<1>1. CombatInit => Standing
  BY StandingFirst
<1>2. CombatTypes /\ StartsFresh /\ Standing /\ [CombatNext]_combatVars => Standing'
  BY StandingKept
<1>3. CombatTypes /\ Standing /\ [CombatNext]_combatVars => PierceKillsBlockersStep
  BY PiercingKills
<1>4. PierceKillsBlockersStep => [PierceKillsBlockersStep]_combatVars
  OBVIOUS
<1> QED
  BY <1>1, <1>2, <1>3, <1>4, CombatInvariant, PTL DEF CombatSpec, PierceKillsBlockers

\* An attack that was blocked never hits the champion unless it has Crush, even
\* when every blocker is gone.  Between two people the memory of a block does not
\* reach the second step, where an attacker that strikes twice attacks again.
THEOREM BlockedNeverHits ==
  ASSUME NoLateBlocks, NoDualAttackers PROVE CombatSpec => []BlockedStaysBlocked
<1>1. CombatInit => BlocksCount
  BY BlocksCountFirst
<1>2. CombatTypes /\ StartsFresh /\ BlocksCount /\ [CombatNext]_combatVars => BlocksCount'
  BY BlocksCountKept
<1>3. BlocksCount => BlockedStaysBlocked
  BY DEF BlocksCount, BlockedStaysBlocked
<1> QED
  BY <1>1, <1>2, <1>3, CombatInvariant, PTL DEF CombatSpec

\* Whoever attacked and did not leave has dealt its damage when the combat is
\* over: no attacker falls between the two steps, or between the two copies.
\* A troop forced to attack a second turn finds its old id in the manager's map
\* and is not listed again, so with forced attackers the player attacks once.
\* Between two people a troop that must attack has no combat in the manager, and
\* no first step on its account: those that only strike first are left out.
THEOREM AttackersAlwaysStrike ==
  ASSUME ForcedFightOnce, ForcedStrikeLate PROVE CombatSpec => []AttackersStrike
<1>1. CombatInit => Fielded
  BY FieldedFirst
<1>2. CombatTypes /\ StartsFresh /\ Fielded /\ [CombatNext]_combatVars => Fielded'
  BY FieldedKept
<1>3. Fielded => AttackersStrike
  BY DEF Fielded
<1> QED
  BY <1>1, <1>2, <1>3, CombatInvariant, PTL DEF CombatSpec

\* So has every blocker whose attacker did not leave before.  A late blocker is
\* not in the manager's combats, which decide whether there is a first step: it
\* must be slow where the computer attacks, and is left out where the player does.
THEOREM BlockersAlwaysStrike ==
  ASSUME ForcedFightOnce, SlowLateBlockers PROVE CombatSpec => []BlockersStrike
<1>0. NoLateBlocks
  <2>1. Host = "player" => Host # "pvp" /\ Host # "computer"
    OBVIOUS
  <2> QED
    BY <2>1 DEF NoLateBlocks, SlowLateBlockers
<1>1. CombatInit => Standing /\ Fielded /\ Answered
  BY StandingFirst, FieldedFirst, AnsweredFirst
<1>2. CombatTypes /\ StartsFresh /\ Standing /\ Fielded /\ Answered /\ [CombatNext]_combatVars
        => Standing' /\ Fielded' /\ Answered'
  BY <1>0, StandingKept, FieldedKept, AnsweredKept
<1>3. Answered => BlockersStrike
  BY DEF Answered
<1> QED
  BY <1>1, <1>2, <1>3, CombatInvariant, PTL DEF CombatSpec

\* Where the computer attacks, a troop that left the combat takes no further part
\* in it, however often it returns to play.  (The player's own attack restores
\* such troops from the manager; between two people the effect that removes them
\* does not see the combat.)
THEOREM LeftTakesNoPart ==
  ASSUME Host = "computer" PROVE CombatSpec => []LeftStaysOut
<1>1. CombatInit => Outside
  BY OutsideFirst
<1>2. CombatTypes /\ StartsFresh /\ Outside /\ [CombatNext]_combatVars => Outside'
  BY OutsideKept
<1>3. Outside => LeftStaysOut
  BY DEF Outside
<1> QED
  BY <1>1, <1>2, <1>3, CombatInvariant, PTL DEF CombatSpec

\* Between two people, only a troop posted against an attacker in this combat takes
\* its damage, though the order of damage stays in the checkpoint from step to
\* step.  When swift blockers kill every attacker in the first step, the order
\* outlives its combat: those are left out.
THEOREM OnlyPostedSoak ==
  ASSUME Host = "pvp", SlowDefenders PROVE CombatSpec => []OnlyBlockersSoak
<1>1. CombatInit => Soaked
  BY SoakedFirst
<1>2. CombatTypes /\ StartsFresh /\ Soaked /\ [CombatNext]_combatVars => Soaked'
  BY SoakedKept
<1>3. Soaked => OnlyBlockersSoak
  BY DEF Soaked
<1> QED
  BY <1>1, <1>2, <1>3, CombatInvariant, PTL DEF CombatSpec

\* An order of damage that names every blocker once is the order the combat has
\* after it, for any number of blockers: no swap undoes an earlier one.
THEOREM OrdersAreObeyed == CombatSpec => []OrderIsObeyed
<1>1. CombatInit => Ordered
  BY OrderedFirst
<1>2. CombatTypes /\ StartsFresh /\ Ordered /\ [CombatNext]_combatVars => Ordered'
  BY OrderedKept
<1>3. Ordered => OrderIsObeyed
  BY DEF Ordered
<1> QED
  BY <1>1, <1>2, <1>3, CombatInvariant, PTL DEF CombatSpec

==============================================================================
