-------------------------- MODULE MCCrayburnCastle --------------------------
(***************************************************************************)
(* The castle of the code, and a shorter one, in four scenes explored side *)
(* by side.                                                                *)
(*   rude    the short castle; the client repeats, revisits, restarts,     *)
(*           re-enters and finishes nodes as it likes, two battles won     *)
(*   played  the short castle; an ordinary client, one crash               *)
(*   story   the castle; the player may walk away from a conversation      *)
(*   broken  the castle; he may also forfeit and report results himself,   *)
(*           one crash                                                     *)
(***************************************************************************)
EXTENDS CrayburnCastle

ShortCastle == <<"Entrance", "WatchTower", "CastleGate", "InnerBailey",
                 "PenworthTower">>
ShortBattles == {"CastleGate", "PenworthTower"}
Rude == {"leave", "repeat", "revisit", "restart", "reenter", "finishloc"}

Castle == <<"Entrance", "WatchTower", "Drawbridge", "CastleGate",
            "InnerBailey", "TowerGate", "PenworthTower">>
Battles == {"CastleGate", "TowerGate", "PenworthTower"}

VARIABLE scene

Played == INSTANCE CrayburnCastle WITH Habits <- {}, MaxWins <- 4, MaxCrashes <- 1

Story == INSTANCE CrayburnCastle WITH
    Chain <- Castle, BattleNodes <- Battles, Habits <- {"leave"}, MaxWins <- 3

Broken == INSTANCE CrayburnCastle WITH
    Chain <- Castle, BattleNodes <- Battles, MaxWins <- 4, MaxCrashes <- 1,
    Habits <- {"leave", "gameend", "forfeit"}

MCInit ==
    \/ scene \in {"rude", "played"} /\ Init
    \/ scene \in {"story", "broken"} /\ Story!Init

MCNext ==
    /\ UNCHANGED scene
    /\ \/ scene = "rude" /\ Next
       \/ scene = "played" /\ Played!Next
       \/ scene = "story" /\ Story!Next
       \/ scene = "broken" /\ Broken!Next

\* The scene "played" is an ordinary client's: the server's threads and the
\* queue run on, a talk is heard to its end, and a player who is given the
\* choice again and again goes on, starts the battle and wins it.
MCSpec ==
    /\ MCInit /\ [][MCNext]_<<scene, vars>>
    /\ WF_vars(scene = "played" /\ (Work \/ AcceptQuest))
    /\ WF_vars(scene = "played" /\ Played!ConvDone)
    /\ SF_vars(scene = "played" /\ Played!GoOn)
    /\ SF_vars(scene = "played" /\ Played!Start)
    /\ SF_vars(scene = "played" /\ Played!BattleEnds(TRUE))

-----------------------------------------------------------------------------
InStory  == scene = "story"
InCastles == scene \in {"story", "broken"}

\* The castle's records agree.  Whatever the player leaves, forfeits or
\* reports: every variable has its type, a battle node is beaten only after a
\* battle at that very node was won and becomes the active one only when the
\* player walked there, the first unfinished node is on the map and a pending
\* victory to be heard.  And for an honest client without crashes: the fog is
\* that of the present frontier, the quest and its report follow the castle,
\* a battle is counted once and its result arrives.
CastleAddsUp ==
    /\ IF InCastles THEN Story!TypeOK ELSE TypeOK
    /\ InCastles => /\ Story!BattlesAreFought
                    /\ Story!WalkedThere
                    /\ Story!NeverStranded
    /\ InStory => /\ Story!FogHolds
                  /\ Story!QuestFollowsCastle
                  /\ Story!WinsAreBattles
                  /\ Story!VictoryArrives

\* No battle is launched past an unfinished node, whatever a rude client asks;
\* a beaten battle node stays beaten; and a battle lost breaks the streak.
BattlesHaveTheirOrder ==
    [][/\ scene = "rude" => NoSkippedBattleStep
       /\ InCastles => Story!StaysBeatenStep
       /\ scene = "broken" => Story!LossBreaksStreakStep]_vars

\* Who perseveres finishes the castle, through a crash of the server.
CastleIsBeatenInTheEnd == scene = "played" => CastleIsBeaten
=============================================================================
