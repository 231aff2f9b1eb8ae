--------------------------- MODULE CrayburnCastle ---------------------------
(***************************************************************************)
(* One champion's dungeon, Castle Crayburn (campaign.py): the row of the   *)
(* dungeon campaign with its chain of nodes, the journal quest that leads  *)
(* to it, the report that the race panorama offers when it is beaten, and  *)
(* the way a finished battle reaches all three.                            *)
(*                                                                         *)
(* A node is entered from the map (StartLoc), plays a conversation or a    *)
(* battle, and is completed by the server alone; the fog of the map        *)
(* follows the first unfinished node.  A battle node plays, after its      *)
(* battle, a victory or a defeat conversation in the same place.  The      *)
(* requests of the one client are served one at a time, but two of them    *)
(* commit more than once, and the server may die between two commits.      *)
(* The reads repair the row as they pass.  autostart, the visited list     *)
(* and the wording of the pushes are the client's affair and left out.     *)
(***************************************************************************)
EXTENDS Integers, Sequences, FiniteSets, SequencesExt

CONSTANTS
    Chain,          \* the nodes in their order, the entrance first
    BattleNodes,    \* those with an encounter scene; the others only talk
    None,           \* no node
    MaxWins,        \* bound: battles the player wins
    MaxCrashes,     \* bound: deaths of the server
    Habits          \* what the client does besides the ordinary

Nodes == Range(Chain)

ASSUME CastleConstants ==
    /\ Chain \in Seq(Nodes) /\ Len(Chain) > 1 /\ IsInjective(Chain)
    /\ BattleNodes \subseteq Nodes \ {Chain[1], Chain[2]}
    /\ None \notin Nodes
    /\ MaxWins \in Nat /\ MaxCrashes \in Nat
    /\ Habits \subseteq {"leave", "repeat", "revisit", "restart", "reenter",
                         "finishloc", "gameend", "forfeit"}

VARIABLES
    castle,     \* the state of the dungeon campaign's row
    quest,      \* the journal quest: its open objective
    report,     \* the report in the race panorama: no, due or told
    battle,     \* the node whose scene is being fought, or None
    job,        \* what the request being served has still to do
    tell,       \* the result the client will report itself, if it does
    walked,     \* the node the player last went to on the map
    fought,     \* nodes whose battle was won, for the properties
    won,        \* battles won, for the properties
    crashes     \* deaths so far

vars == <<castle, quest, report, battle, job, tell, walked, fought, won,
          crashes>>
journal == <<quest, report>>
player == <<battle, tell, walked, fought, won, crashes>>

----------------------------------------------------------------------------
(* The row.  A node's page is its type and conversation: nothing (the      *)
(* entrance), its arrival conversation, its battle, or the victory or the  *)
(* defeat conversation that took the battle's place.                       *)

FirstPage(n) == IF n = Chain[1] THEN "none"
                ELSE IF n \in BattleNodes THEN "battle" ELSE "arrival"

NewCastle ==
    [page |-> [n \in Nodes |-> FirstPage(n)], done |-> {},
     seen |-> {Chain[1], Chain[2]}, aloc |-> Chain[1], last |-> Chain[1],
     pending |-> None, started |-> FALSE, finished |-> "no", wins |-> 0,
     streak |-> 0, active |-> None, claimed |-> {}]

Pos(n) == CHOOSE i \in DOMAIN Chain : Chain[i] = n

\* A node talks when a conversation is in its place.
Talks(s, n) == s.page[n] \in {"arrival", "victory", "defeat"}

Unfinished(s) == {i \in 2 .. Len(Chain) : Chain[i] \notin s.done}

\* The place in the chain of the first unfinished node, one past the end
\* when there is none.
Frontier(s) == IF Unfinished(s) = {} THEN Len(Chain) + 1
               ELSE CHOOSE i \in Unfinished(s) :
                        \A j \in Unfinished(s) : i <= j

Here(s) == IF s.aloc # None THEN s.aloc ELSE s.last

\* Where the player is put back to when he cannot stay on n.
ReturnNode(s, n) ==
    LET before == {i \in 1 .. Pos(n) - 1 : Chain[i] \in s.done}
    IN  IF before # {}
        THEN Chain[CHOOSE i \in before : \A j \in before : j <= i]
        ELSE Chain[IF Pos(n) > 1 THEN Pos(n) - 1 ELSE 1]

\* The fog follows the first unfinished node.
Revealed(s) ==
    [s EXCEPT !.seen = {n \in Nodes : Pos(n) <= Frontier(s)}]

MovedTo(s, n) == Revealed([s EXCEPT !.aloc = n, !.last = n])

\* Every read and every step repairs the row it has read.
Prepared(s) ==
    LET i == Frontier(s)
    IN  IF s.done \ {Chain[1]} # {}
        THEN IF /\ s.aloc = None
                /\ i <= Len(Chain)
                /\ s.last = Chain[i]
                /\ s.last \in BattleNodes
             THEN Revealed([s EXCEPT !.last = ReturnNode(s, s.last)])
             ELSE Revealed(s)
        ELSE IF s.started THEN MovedTo(s, Chain[i])
        ELSE IF s.aloc = None THEN [s EXCEPT !.aloc = Chain[1]]
        ELSE s

\* The chain is followed from place i: pass-through nodes are completed on
\* the way, the first other unfinished node becomes the active one.
Followed(s, i) ==
    LET ahead == {j \in Unfinished(s) : j >= i}
        passed == IF i = 1 THEN [s EXCEPT !.done = @ \cup {Chain[1]}] ELSE s
    IN  IF ahead # {}
        THEN MovedTo(passed,
                     Chain[CHOOSE j \in ahead : \A k \in ahead : j <= k])
        ELSE [passed EXCEPT !.finished = "Complete", !.aloc = None]

\* The battle at n is over and its authored conversation takes its place.
Outcome(s, n, p) ==
    [s EXCEPT !.page = [@ EXCEPT ![n] = p], !.done = @ \ {n}, !.seen = @ \cup {n},
              !.aloc = n, !.last = n,
              !.pending = IF p = "victory" THEN n ELSE @]

AwaitTravelAhead(s) ==
    IF Unfinished(s) = {} THEN [s EXCEPT !.finished = "Complete", !.aloc = None]
    ELSE MovedTo(s, Chain[Frontier(s)])

\* The node is finished: the player waits on the map, and the fog lifts
\* from the next one.
AwaitTravel(s) ==
    LET t == [s EXCEPT !.aloc = None]
    IN  IF Unfinished(t) = {} THEN [t EXCEPT !.finished = "Complete"]
        ELSE Revealed(t)

SteppedForever(s, w) ==
    LET n == Here(s)
    IN  IF n \in BattleNodes
        THEN Outcome(s, n, IF w THEN "victory" ELSE "defeat")
        ELSE IF w THEN AwaitTravel([s EXCEPT !.pending = None,
                                             !.done = @ \cup {n}])
        ELSE AwaitTravel(s)

\* One step of the castle, the player staying on the map: the node he is on
\* plays its outcome, or is finished for good.
Stepped(s, w) ==
    LET n == Here(s)
    IN  IF w /\ s.pending = None /\ n \in BattleNodes
        THEN Outcome(s, n, "victory")
        ELSE IF ~w /\ n \in BattleNodes THEN Outcome(s, n, "defeat")
        ELSE IF w THEN AwaitTravel([s EXCEPT !.pending = None,
                                             !.done = @ \cup {n}])
        ELSE AwaitTravel(s)

\* The step has taken the player past the last node.
IsFinale(s, t) == t.aloc = None /\ Unfinished(t) = {}

----------------------------------------------------------------------------
Idle == [step |-> "idle"]
Free == job = Idle

\* The client shows the castle's map: until the castle is finished, unless
\* it comes back to it.
InCastle ==
    /\ Free /\ battle = None /\ quest # "none"
    /\ castle.finished = "no" \/ "revisit" \in Habits

\* The castle takes its step: at once, or, when it was the last one, after
\* the quest and the panorama.
TakeStep(w) ==
    LET s == Prepared(castle)
        t == Stepped(s, w)
    IN  IF IsFinale(s, t)
        THEN job' = [step |-> "quest", draft |-> t] /\ UNCHANGED castle
        ELSE job' = Idle /\ castle' = t

Init ==
    /\ castle = NewCastle /\ quest = "none" /\ report = "no"
    /\ battle = None /\ job = Idle /\ tell = "nothing" /\ walked = None
    /\ fought = {} /\ won = 0 /\ crashes = 0

(* The quest-giver's conversation ends: the dungeon's row is started, the  *)
(* quest is entered in the journal, and the chain is followed one step.    *)
AcceptQuest ==
    /\ Free /\ battle = None /\ quest = "none"
    /\ quest' = "castle"
    /\ castle' = [castle EXCEPT !.started = TRUE]
    /\ job' = [step |-> "enter"]
    /\ UNCHANGED <<report, player>>

Enter ==
    /\ job.step = "enter"
    /\ LET s == Prepared(castle) IN castle' = Followed(s, Pos(Here(s)))
    /\ job' = Idle
    /\ UNCHANGED <<journal, player>>

(* The client loads the castle.  It starts a campaign once, on its first   *)
(* entry; the handler takes the message at any time.                       *)
StartCamp ==
    /\ InCastle
    /\ "reenter" \in Habits \/ castle.done \subseteq {Chain[1]}
    /\ castle' = Followed(Prepared([castle EXCEPT !.started = TRUE]), 1)
    /\ UNCHANGED <<journal, job, player>>

(* Any read of the dungeon, at a reconnection too.                         *)
Read ==
    /\ Free /\ quest # "none"
    /\ castle' = Prepared(castle)
    /\ UNCHANGED <<journal, job, player>>

MayEnterAny(s, n) == TRUE

\* A marker beyond the first unfinished node is no destination.
MayEnter(s, n) == Pos(n) <= Frontier(s)

(* The player walks to a node of the map.  Ordinarily he first hears out   *)
(* the conversation of the node he is on, which the client plays at once.  *)
StartLoc(n) ==
    /\ InCastle
    /\ \/ "leave" \in Habits
       \/ castle.aloc \notin {m \in Nodes : Talks(castle, m)}
    /\ "revisit" \in Habits \/ n \notin castle.done \cap BattleNodes
    /\ LET s == Prepared(castle)
       IN  IF MayEnter(s, n)
           THEN castle' = MovedTo(s, n) /\ walked' = n
           ELSE /\ castle' = Revealed([s EXCEPT !.aloc = None,
                                          !.last = ReturnNode(s, Chain[Frontier(s)])])
                /\ UNCHANGED walked
    /\ UNCHANGED <<journal, job, battle, tell, fought, won, crashes>>

(* The client says it has finished a node.                                 *)
FinishLoc(n) ==
    /\ InCastle /\ "finishloc" \in Habits
    /\ castle' = [castle EXCEPT !.done = @ \cup {n}]
    /\ UNCHANGED <<journal, job, player>>

\* The defeat has been acknowledged: the battle is back in its place and
\* the player on the node before it.
Restored(s, n) ==
    Revealed([s EXCEPT !.page = [@ EXCEPT ![n] = "battle"], !.done = @ \ {n},
                       !.seen = @ \cup {n}, !.pending = None,
                       !.aloc = None, !.last = ReturnNode(s, n)])

(* A conversation is over.  The client plays the one of the active node;   *)
(* a repeated message finds no active node and is judged by the last one.  *)
ConvDone ==
    /\ InCastle
    /\ "repeat" \in Habits \/ (castle.aloc # None /\ Talks(castle, castle.aloc))
    /\ LET n == Here(castle)
       IN  IF castle.page[n] = "defeat"
           THEN castle' = Restored(castle, n) /\ UNCHANGED job
           ELSE IF Talks(castle, n) \/ castle.pending = n
           THEN TakeStep(TRUE)
           ELSE UNCHANGED <<castle, job>>
    /\ UNCHANGED <<journal, player>>

(* The player starts the battle of the node he is on.                      *)
Start ==
    LET n == Here(castle)
    IN  /\ InCastle
        /\ n \in BattleNodes
        /\ "restart" \in Habits \/ castle.page[n] = "battle"
        /\ castle' = [castle EXCEPT !.active = n]
        /\ battle' = n
        /\ UNCHANGED <<journal, job, tell, walked, fought, won, crashes>>

(* The battle is over: the client hears of it and the session is ended     *)
(* before anything of the campaign is written.                             *)
BattleEnds(w) ==
    /\ Free /\ battle # None
    /\ w => won < MaxWins
    /\ job' = [step |-> "reward", won |-> w]
    /\ battle' = None
    /\ fought' = IF w THEN fought \cup {battle} ELSE fought
    /\ won' = IF w THEN won + 1 ELSE won
    /\ tell' = IF "gameend" \in Habits
               THEN IF w THEN "won" ELSE "lost" ELSE tell
    /\ UNCHANGED <<castle, journal, walked, crashes>>

(* The rewards of the scene that was launched, claimed once.               *)
Reward ==
    /\ job.step = "reward"
    /\ castle' = IF job.won
                 THEN [castle EXCEPT !.claimed = @ \cup {castle.active}]
                 ELSE castle
    /\ job' = [job EXCEPT !.step = "apply"]
    /\ UNCHANGED <<journal, player>>

\* The row's own count of battles won, and of those won in succession.
Counted(s, w) ==
    IF w THEN [s EXCEPT !.wins = @ + 1, !.streak = @ + 1]
    ELSE [s EXCEPT !.streak = 0]

Apply ==
    /\ job.step = "apply"
    /\ castle' = Counted(castle, job.won)
    /\ job' = [job EXCEPT !.step = "advance"]
    /\ UNCHANGED <<journal, player>>

Advance ==
    /\ job.step = "advance"
    /\ TakeStep(job.won)
    /\ UNCHANGED <<journal, player>>

(* The client's own message about a finished battle.                       *)
GameEnd ==
    /\ Free /\ tell # "nothing"
    /\ castle' = Counted(castle, tell = "won")
    /\ tell' = "nothing"
    /\ UNCHANGED <<journal, job, battle, walked, fought, won, crashes>>

(* The last step of the castle: the quest's next objective, the report in  *)
(* the panorama, and only then the castle's own row, each with a commit.   *)
Quest ==
    /\ job.step = "quest"
    /\ quest' = IF quest = "castle" THEN "report" ELSE "closed"
    /\ job' = [job EXCEPT !.step = "panorama"]
    /\ UNCHANGED <<castle, report, player>>

Panorama ==
    /\ job.step = "panorama"
    /\ report' = "due"
    /\ job' = [job EXCEPT !.step = "save"]
    /\ UNCHANGED <<castle, quest, player>>

Save ==
    /\ job.step = "save"
    /\ castle' = job.draft
    /\ job' = Idle
    /\ UNCHANGED <<journal, player>>

(* The report is made to the quest-giver in the panorama.                  *)
Report ==
    /\ Free /\ battle = None /\ report = "due"
    /\ report' = "told" /\ quest' = "closed"
    /\ UNCHANGED <<castle, job, player>>

Forfeit ==
    /\ InCastle /\ "forfeit" \in Habits
    /\ castle' = [castle EXCEPT !.finished = "Forfeit"]
    /\ UNCHANGED <<journal, job, player>>

(* The server dies in the middle of a request: what was not committed is   *)
(* gone, and an ended session is not resumed.                              *)
Crash ==
    /\ ~Free /\ crashes < MaxCrashes
    /\ job' = Idle
    /\ crashes' = crashes + 1
    /\ UNCHANGED <<castle, journal, battle, tell, walked, fought, won>>

Work == Enter \/ Reward \/ Apply \/ Advance \/ Quest \/ Panorama \/ Save

Next ==
    \/ AcceptQuest \/ StartCamp \/ Read \/ ConvDone \/ Start \/ Report
    \/ Forfeit \/ GameEnd \/ Crash \/ Work
    \/ \E n \in Nodes : StartLoc(n) \/ FinishLoc(n)
    \/ \E w \in BOOLEAN : BattleEnds(w)

Spec == Init /\ [][Next]_vars

(* The server finishes what it serves; a player who perseveres goes on to  *)
(* the first unfinished node again and again, listens, fights, and wins    *)
(* some time.  Nothing hurries him to do so at once.                       *)
GoOn ==
    InCastle /\ Unfinished(castle) # {} /\ StartLoc(Chain[Frontier(castle)])

----------------------------------------------------------------------------
Rows ==
    [page : [Nodes -> {"none", "arrival", "battle", "victory", "defeat"}],
     done : SUBSET Nodes, seen : SUBSET Nodes, aloc : Nodes \cup {None},
     last : Nodes, pending : BattleNodes \cup {None}, started : BOOLEAN,
     finished : {"no", "Complete", "Forfeit"}, wins : Nat, streak : Nat,
     active : BattleNodes \cup {None}, claimed : SUBSET BattleNodes]

(* The row, the journal and the job have their types.                      *)
TypeOK ==
    /\ castle \in Rows
    /\ quest \in {"none", "castle", "report", "closed"}
    /\ report \in {"no", "due", "told"}
    /\ battle \in BattleNodes \cup {None}
    /\ job.step \in {"idle", "enter", "reward", "apply", "advance", "quest",
                     "panorama", "save"}

(* A battle node is beaten only after a battle at that very node was won   *)
(* and paid: the result is applied to the node the player stands on, not   *)
(* to the one whose scene was launched, so the two must never differ.      *)
BattlesAreFought ==
    /\ castle.done \cap BattleNodes \subseteq castle.claimed
    /\ castle.claimed \subseteq fought

(* Nobody sees a node whose predecessors are not all finished: the fog     *)
(* drawn by the last step is the one of the present frontier.              *)
FogHolds == \A n \in castle.seen : Pos(n) <= Frontier(castle)

(* The player is never stranded: between two requests the first unfinished *)
(* node is on his map, and if a victory is pending it is that node's and   *)
(* there to be heard.                                                      *)
NeverStranded ==
    (Free /\ quest # "none" /\ Unfinished(castle) # {}) =>
        LET n == Chain[Frontier(castle)]
        IN  /\ n \in castle.seen
            /\ castle.pending # None =>
                  castle.pending = n /\ castle.page[n] = "victory"

(* The castle, its quest and its report agree between two requests: the    *)
(* report is open exactly when the castle was beaten, and the quest is     *)
(* closed by the report alone.                                             *)
QuestFollowsCastle ==
    Free => /\ castle.finished = "Complete" <=> quest \in {"report", "closed"}
            /\ quest = "report" <=> report = "due"
            /\ quest = "closed" <=> report = "told"

(* The quest is closed by the report to the quest-giver alone.             *)

(* A battle is counted once: the row's wins are the battles won, less the  *)
(* one whose result is still to be applied; the streak is never longer.    *)
WinsAreBattles ==
    LET unapplied == job.step \in {"reward", "apply"} /\ job.won
    IN  /\ castle.wins = won - (IF unapplied THEN 1 ELSE 0)
        /\ castle.streak <= castle.wins

(* The player was on his way: a battle node becomes the active one only    *)
(* when he himself has walked there.                                       *)
WalkedThere == castle.aloc \in BattleNodes => walked = castle.aloc

(* The result of a battle arrives: once its request is served a battle     *)
(* won has beaten its node or its victory is there to be heard, and is not *)
(* offered as a battle again.                                              *)
VictoryArrives ==
    Free => \A n \in fought : n \in castle.done \/ castle.page[n] = "victory"

(* A beaten battle node stays beaten.                                      *)
StaysBeatenStep == castle.done \cap BattleNodes \subseteq castle'.done

(* No battle is launched past an unfinished node, whatever the client      *)
(* asks for.                                                               *)
NoSkippedBattleStep ==
    (battle' # battle /\ battle' # None) => Pos(battle') <= Frontier(castle)
NoSkippedBattle == [][NoSkippedBattleStep]_vars

(* A battle lost breaks the streak that a talent of the next one reads.    *)
LossBreaksStreakStep ==
    (job.step = "apply" /\ job'.step = "advance" /\ ~job.won) =>
        castle'.streak = 0

(* Who perseveres finishes the castle and can make his report.             *)
CastleIsBeaten == <>(castle.finished = "Complete")
=============================================================================
