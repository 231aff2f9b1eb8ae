---------------------------- MODULE MCMatchmaking ----------------------------
(***************************************************************************)
(* Two players on three connections, the second player on two of them, in   *)
(* three scenes explored side by side.                                     *)
(*   ladder      they search, cancel and hang up                           *)
(*   challenges  they make and answer two challenges                       *)
(*   faulty      they make and answer one, and a peer may vanish           *)
(***************************************************************************)
EXTENDS Matchmaking

CONSTANTS alice, bob, a1, b1, c1, m1, m2

MCUsers == {alice, bob}
MCConns == {a1, b1, c1}
MCMatches == {m1, m2}
MCUserOf == [c \in MCConns |-> IF c = a1 THEN alice ELSE bob]

VARIABLE scene

MCInit == scene \in {"ladder", "challenges", "faulty"} /\ MatchInit

MCNext ==
    /\ UNCHANGED scene
    /\ \E c \in Conns :
          \/ Login(c) \/ Hangup(c) \/ Work(c)
          \/ scene = "ladder" /\ LadderStep(c)
          \/ scene # "ladder" /\ ChallengeStep(c)
          \/ scene = "faulty" /\ Drop(c)
    /\ scene = "faulty" => asked'[m2] = NoChallenge

MCSpec ==
    /\ MCInit /\ [][MCNext]_<<scene, matchVars>>
    /\ \A c \in Conns : WF_matchVars(Work(c))
==============================================================================
