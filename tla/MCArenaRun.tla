----------------------------- MODULE MCArenaRun -----------------------------
(***************************************************************************)
(* Three small arenas explored side by side.                               *)
(*   misses  two tiers of two; three battles and everything that can go    *)
(*           wrong: practice battles, orphaned handlers, failing records,  *)
(*           empty decks, a crash                                          *)
(*   full    two tiers of three with both kinds of elite, seven battles,   *)
(*           one result reported again                                     *)
(*   tiers   three tiers of two, where an ordinary fight rolls for its     *)
(*           challenge; six battles, two decks assigned                    *)
(***************************************************************************)
EXTENDS ArenaRun

MCElites == {2}
MCHazards == {"practice", "orphan", "failure", "deckout", "crash"}

VARIABLE scene

Full == INSTANCE ArenaRun WITH
    TierLength <- 3, RunLength <- 6, Elites <- {3, 4}, LastUnrolled <- 0,
    MaxBattles <- 7, MaxAgain <- 1, Hazards <- {}

Tiers == INSTANCE ArenaRun WITH
    RunLength <- 6, LastUnrolled <- 3, MaxBattles <- 6, MaxRuns <- 2,
    MaxAgain <- 1, Hazards <- {}

MCInit ==
    \/ scene = "misses" /\ Init
    \/ scene = "full" /\ Full!Init
    \/ scene = "tiers" /\ Tiers!Init

MCNext ==
    /\ UNCHANGED scene
    /\ \/ scene = "misses" /\ Next
       \/ scene = "full" /\ Full!Next
       \/ scene = "tiers" /\ Tiers!Next

MCSpec == MCInit /\ [][MCNext]_<<scene, vars>>

-----------------------------------------------------------------------------
InScene(misses, full, tiers) ==
    CASE scene = "misses" -> misses
      [] scene = "full"   -> full
      [] scene = "tiers"  -> tiers

\* Every variable has its type, and the run's records agree: the counters of
\* the row and the fight history tell the same story, and without mishaps a
\* battle's result enters a run once, however often its end is reported.
RecordsAgree ==
    /\ InScene(TypeOK, Full!TypeOK, Tiers!TypeOK)
    /\ InScene(CountsAgree, Full!CountsAgree, Tiers!CountsAgree)
    /\ scene # "misses" => RecordedOnce

\* Rewards are what the fights earned: every sack won is in the run, in the
\* account or given up by a reset; the account is called perfect only after a
\* perfect first tier; what an elite win pins to the tier's boss is for the
\* first attempt at it; and an acceptance on record belongs to the prompt its
\* slot shows.
RewardsAreEarned ==
    /\ InScene(SacksAreKept, Full!SacksAreKept, Tiers!SacksAreKept)
    /\ scene = "full" =>
          Full!PerfectIsEarned /\ Full!GiftsAreSpent /\ Full!AnswerFitsPrompt
=============================================================================
