------------------------------ MODULE MCCombat ------------------------------
(***************************************************************************)
(* Two attackers against three defenders, in the three battles explored    *)
(* side by side.  a2 tramples.                                             *)
(*   raid     the computer attacks; troops leave and come back, effects    *)
(*            post blockers, the session is rebuilt                        *)
(*   assault  the player attacks, a2 must; b2 strikes first                *)
(*   duel     two people, a1 strikes first and a2 must attack, two turns   *)
(***************************************************************************)
EXTENDS Combat

Strength == [a1 |-> 1, a2 |-> 3, b1 |-> 1, b2 |-> 0, b3 |-> 1]
Toughness == [a1 |-> 1, a2 |-> 2, b1 |-> 1, b2 |-> 2, b3 |-> 1]

AttackOf == [t \in Troops |-> Strength[t]]
DefenseOf == [t \in Troops |-> Toughness[t]]

VARIABLE scene

Assault == INSTANCE Combat WITH
    Host <- "player", FirstStrike <- {"b2"}, Lethal <- {"b3"}, Forced <- {"a2"},
    Effects <- {"leave", "restart", "order"}, MaxEffects <- 2

Duel == INSTANCE Combat WITH
    Host <- "pvp", FirstStrike <- {"a1"}, DualStrike <- {}, Lethal <- {"b3"},
    Forced <- {"a2"}, Effects <- {"leave"}, MaxEffects <- 2, MaxTurns <- 2

MCInit ==
    \/ scene = "raid" /\ CombatInit
    \/ scene = "assault" /\ Assault!CombatInit
    \/ scene = "duel" /\ Duel!CombatInit

MCNext ==
    /\ UNCHANGED scene
    /\ \/ scene = "raid" /\ CombatNext
       \/ scene = "assault" /\ Assault!CombatNext
       \/ scene = "duel" /\ Duel!CombatNext

MCSpec == MCInit /\ [][MCNext]_<<scene, combatVars>>

-----------------------------------------------------------------------------
\* The fight is the one that was declared, once every variable has its type:
\* an attack that was blocked stays blocked; every attacker and every blocker that lives
\* to its turn strikes; where the fight is read from the checkpoint, a troop
\* that left takes no further part; and between two people only a troop posted
\* against an attacker takes its damage, in the second turn as in the first.
BattleIsFought ==
    /\ IF scene = "duel" THEN Duel!CombatTypeOK ELSE CombatTypeOK
    /\ BlockedStaysBlocked
    /\ AttackersStrike
    /\ BlockersStrike
    /\ OrderIsObeyed
    /\ scene = "raid" => LeftStaysOut
    /\ scene = "duel" => OnlyBlockersSoak
=============================================================================
