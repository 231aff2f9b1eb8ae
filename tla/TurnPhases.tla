----------------------------- MODULE TurnPhases -----------------------------
(***************************************************************************)
(* The turn-phase graph of the rules scheduler: rules_port/phases.py (the  *)
(* permitted transitions) and rules_port/turn_states.py (what each phase   *)
(* state decides: who is asked for priority and which phase comes next).   *)
(* A constant module: no state, no recursion.                              *)
(***************************************************************************)
EXTENDS Naturals

\* rules_port/phases.py's names; "Unknown" is the wire's value for no phase.
Phases ==
    {"NotPlaying", "PreGame", "PickGoesFirst", "Mulligan", "StartGame",
     "StartTurn", "Ready", "Prep", "Draw", "FirstMainPhase",
     "DeclareCombatPriorityWindow", "DeclareAttack",
     "DeclareAttackPriorityWindow", "DeclareDefense",
     "DeclareDefensePriorityWindow", "AssignFirstStrikeDamage",
     "FirstStrikePriorityWindow", "AssignDamage", "SecondMainPhase",
     "EndPhase", "Discard", "EndTurn", "Checksum", "EndGame"}

\* _PERMITS without EndGame, which every state but NotPlaying and EndGame
\* lists last, and with NotPlaying's reset row spelled by what it leaves out.
PermitsBeforeEnd ==
    [p \in Phases |->
        CASE p = "NotPlaying" -> Phases \ {"Mulligan", "Checksum", "EndGame"}
          [] p = "PreGame" -> {"PickGoesFirst", "StartGame"}
          [] p = "PickGoesFirst" -> {"PreGame", "Mulligan"}
          [] p = "Mulligan" -> {"StartGame", "Mulligan"}
          [] p = "StartGame" -> {"StartTurn"}
          [] p = "StartTurn" -> {"Ready"}
          [] p = "Ready" -> {"Prep"}
          [] p = "Prep" -> {"Draw", "FirstMainPhase"}
          [] p = "Draw" -> {"FirstMainPhase"}
          [] p = "FirstMainPhase" ->
                {"DeclareCombatPriorityWindow", "SecondMainPhase"}
          [] p = "DeclareCombatPriorityWindow" ->
                {"DeclareAttack", "AssignDamage"}
          [] p = "DeclareAttack" ->
                {"AssignDamage", "DeclareAttackPriorityWindow"}
          [] p = "DeclareAttackPriorityWindow" ->
                {"DeclareDefense", "SecondMainPhase",
                 "DeclareDefensePriorityWindow"}
          [] p = "DeclareDefense" -> {"DeclareDefensePriorityWindow"}
          [] p = "DeclareDefensePriorityWindow" ->
                {"AssignFirstStrikeDamage", "AssignDamage", "SecondMainPhase"}
          [] p = "AssignFirstStrikeDamage" -> {"FirstStrikePriorityWindow"}
          [] p = "FirstStrikePriorityWindow" ->
                {"AssignDamage", "SecondMainPhase"}
          [] p = "AssignDamage" -> {"SecondMainPhase"}
          [] p = "SecondMainPhase" ->
                {"DeclareAttack", "DeclareCombatPriorityWindow",
                 "SecondMainPhase", "EndPhase"}
          [] p = "EndPhase" -> {"Discard"}
          [] p = "Discard" -> {"EndTurn"}
          [] p = "EndTurn" -> {"StartTurn", "Mulligan"}
          [] p = "Checksum" -> {"StartTurn"}
          [] OTHER -> {"NotPlaying"}]

\* permitted_next_phases: the graph require_legal_transition enforces.
Permits == [p \in Phases |-> PermitsBeforeEnd[p] \union {"EndGame"}]

Policies == {"None", "All", "Active", "Defending"}

\* Phase states that subclass the client's PriorityWindowState: every player
\* is asked, in turn order from the active player.
AllPlayerPhases ==
    {"Ready", "Prep", "Draw", "FirstMainPhase", "DeclareCombatPriorityWindow",
     "DeclareAttackPriorityWindow", "DeclareDefensePriorityWindow",
     "FirstStrikePriorityWindow", "SecondMainPhase", "EndPhase"}

\* The priority_players policy of the window a phase state pushes on entry.
PriorityPlayers ==
    [p \in Phases |->
        CASE p \in AllPlayerPhases -> "All"
          [] p \in {"StartGame", "Checksum", "EndGame", "PreGame",
                    "NotPlaying"} -> "None"
          [] p = "DeclareDefense" -> "Defending"
          [] OTHER -> "Active"]

\* The branch facts the phase states read: attributes the mode refreshes at
\* checkpoint boundaries, and what the combat manager holds.
FactNames ==
    {"skipSetup", "readyToStart", "skipsDraw", "skipsAttack",
     "legalAttackers", "forcedAttackers", "legalBlockers", "extraCombats",
     "combats", "firstStrike", "standardDamage"}

\* get_next_turn_phase of each phase state, for a set f of facts that hold.
NextPhase(p, f) ==
    CASE p = "PreGame" ->
            IF "skipSetup" \in f THEN "StartGame" ELSE "PickGoesFirst"
      [] p = "PickGoesFirst" -> "Mulligan"
      [] p = "Mulligan" ->
            IF "readyToStart" \in f THEN "StartGame" ELSE "Mulligan"
      [] p = "Prep" -> IF "skipsDraw" \in f THEN "FirstMainPhase" ELSE "Draw"
      [] p = "FirstMainPhase" ->
            IF "skipsAttack" \in f THEN "SecondMainPhase"
            ELSE "DeclareCombatPriorityWindow"
      [] p = "DeclareCombatPriorityWindow" ->
            IF "legalAttackers" \in f THEN "DeclareAttack" ELSE "AssignDamage"
      [] p = "DeclareAttack" ->
            IF {"combats", "forcedAttackers"} \intersect f # {}
            THEN "DeclareAttackPriorityWindow" ELSE "AssignDamage"
      [] p = "DeclareAttackPriorityWindow" ->
            IF "legalBlockers" \in f THEN "DeclareDefense"
            ELSE IF "combats" \in f THEN "DeclareDefensePriorityWindow"
            ELSE "SecondMainPhase"
      [] p = "DeclareDefensePriorityWindow" ->
            IF "firstStrike" \in f THEN "AssignFirstStrikeDamage"
            ELSE IF "standardDamage" \in f THEN "AssignDamage"
            ELSE "SecondMainPhase"
      [] p = "FirstStrikePriorityWindow" ->
            IF "standardDamage" \in f THEN "AssignDamage"
            ELSE "SecondMainPhase"
      [] p = "SecondMainPhase" ->
            IF "extraCombats" \in f THEN "DeclareCombatPriorityWindow"
            ELSE "EndPhase"
      [] p = "EndTurn" -> "StartTurn"
      [] OTHER -> CHOOSE q \in PermitsBeforeEnd[p] : TRUE
=============================================================================
