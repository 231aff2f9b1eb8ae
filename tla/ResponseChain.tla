--------------------------- MODULE ResponseChain ---------------------------
(***************************************************************************)
(* What the rules scheduler promises a player, without windows, stacks,    *)
(* transactions or ticks: pending items resolve last in, first out, each   *)
(* only after a round in which everyone owed a response declined; and a    *)
(* phase ends only with nothing pending and, if it asks all players, after *)
(* such a round.                                                           *)
(***************************************************************************)
EXTENDS SequencesExt, TurnPhases

CONSTANTS
    Items,      \* what can be queued, each once
    NoItem,     \* stands for the empty chain
    Chainless   \* items nobody may respond to

VARIABLES
    phase,      \* the phase of the turn
    chain,      \* the pending items, oldest first
    unused,     \* items not queued yet
    settled     \* items, or NoItem for the phase, whose round is complete

vars == <<phase, chain, unused, settled>>

TopItem == IF chain = <<>> THEN NoItem ELSE Last(chain)

\* Some of the unused items, at most n, in some order.
News(n) == {s \in UNION {[1 .. k -> unused] : k \in 0 .. n} : IsInjective(s)}

Init ==
    /\ phase = "StartTurn"
    /\ chain = <<>>
    /\ unused = Items
    /\ settled = {}

\* A player or the rules queue an item.
Queue ==
    /\ \E i \in unused : chain' = Append(chain, i) /\ unused' = unused \ {i}
    /\ UNCHANGED <<phase, settled>>

\* Everyone asked about the top item, or about the phase, has declined.
RoundEnds ==
    /\ settled' = settled \union {TopItem}
    /\ UNCHANGED <<phase, chain, unused>>

\* The top item takes effect and leaves; it may trigger another.
Resolve ==
    /\ chain # <<>>
    /\ Last(chain) \in settled \union Chainless
    /\ \E s \in News(1) :
          /\ chain' = Front(chain) \o s
          /\ unused' = unused \ ToSet(s)
    /\ settled' = settled \ {Last(chain)}
    /\ UNCHANGED phase

\* The phase ends; entering the next one may trigger up to two items.
ChangePhase ==
    /\ chain = <<>>
    /\ PriorityPlayers[phase] = "All" => NoItem \in settled
    /\ phase' \in Permits[phase]
    /\ \E s \in News(2) :
          /\ chain' = s
          /\ unused' = unused \ ToSet(s)
    /\ settled' = {}

Next == Queue \/ RoundEnds \/ Resolve \/ ChangePhase

Spec == Init /\ [][Next]_vars
=============================================================================
