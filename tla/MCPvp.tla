------------------------------- MODULE MCPvp -------------------------------
(***************************************************************************)
(* The two ends of a game between two people, in three scenes explored     *)
(* side by side.                                                           *)
(*   opening   play or draw and the mulligan (PvpOpening): clients wait    *)
(*             for the green light, may send a keep twice, and send other  *)
(*             requests once the first turn runs                           *)
(*   quick     two passes or killing plays by each player and the watchdog *)
(*   broken    one request or one reconnection of each player, lost        *)
(*             connections and a restart of the server                     *)
(***************************************************************************)
EXTENDS PvpOpening, PvpEnding

VARIABLE scene

MCInit == scene \in {"opening", "quick", "broken"} /\ Init /\ OpeningInit

MCNext ==
    /\ UNCHANGED scene
    /\ \/ scene = "opening" /\ OpeningNext /\ UNCHANGED vars
       \/ scene = "quick" /\ UNCHANGED openVars
          /\ \/ \E p \in Players, k \in {"pass", "kill"} : Ask(p, k)
             \/ \E p \in Players : Serve(p)
             \/ \E a \in Actors : Work(a)
             \/ Look \/ Tick
       \/ scene = "broken" /\ Next /\ UNCHANGED openVars
          /\ \A p \in Players : asks'[p] <= 1

\* The fairness of both modules.
MCSpec ==
    /\ MCInit /\ [][MCNext]_<<scene, vars, openVars>>
    /\ \A p \in {Winner, Loser} :
          /\ WF_openVars(scene = "opening" /\ ServeOpening(p))
          /\ WF_openVars(scene = "opening" /\ Answer(p))
    /\ \A p \in Players : WF_vars(scene # "opening" /\ (Work(p) \/ Serve(p)))
    /\ WF_vars(scene # "opening" /\ (Work(Dog) \/ Look))
    /\ WF_vars(scene # "opening" /\ Tick)

-----------------------------------------------------------------------------
\* Every variable of the ending has its type; while nothing breaks, the row
\* names the player the shared port waits for, and only a player who kept the
\* game waiting is timed out.
QuickIsFair == TypeOK /\ (scene = "quick" => RowFollowsPort /\ TimeoutIsEarned)

\* Two players who answer their dialogs get to the first turn, and an abandoned
\* game is ended by the watchdog.
EveryGameMovesOn ==
    /\ scene = "opening" => <>(durable.phase = "Playing")
    /\ scene = "broken" => AbandonedGameEnds
=============================================================================
