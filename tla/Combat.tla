------------------------------- MODULE Combat -------------------------------
(***************************************************************************)
(* One side's combats, turn after turn: the troops declared, the blockers  *)
(* posted, the order of damage and the one or two damage steps.  The same  *)
(* fight is written down twice: as combat objects in the combat manager of *)
(* the rules session (`combat', `listed') and as maps in the checkpoint    *)
(* (`attackers', `blockers', `sticky', `order'), and each kind of battle   *)
(* resolves its damage from another of the two.  Host says which battle:   *)
(* the computer attacks a human, a human attacks the computer, or two      *)
(* humans fight.                                                           *)
(*                                                                         *)
(* Between the steps, effects may take a troop out of play, bring one back *)
(* or post one more blocker.  Champions' health is not counted: `log'      *)
(* records who hit a champion.  A troop blocks one attacker at a time.     *)
(*                                                                         *)
(* Left out of a fight between two humans: an attacker whose connection is *)
(* down, or a card that raises, at a damage step (_pvp_resolve_combat then *)
(* returns with nothing resolved), combats rebuilt in the manager of a     *)
(* restarted session, and a troop that attacks untapped and is declared    *)
(* by hand though the server has declared it already.                      *)
(***************************************************************************)
EXTENDS Naturals, FiniteSets, SequencesExt

CONSTANTS Host,          \* "computer", "player" or "pvp"
          Attackers, Defenders,
          Attack, Defense,                        \* troop -> number
          FirstStrike, DualStrike, Crush, Lethal, \* sets of troops
          Forced,        \* attackers that must attack
          Effects,       \* what effects do: a subset of the next set
          MaxEffects,    \* bound: effects, damage orders and restarts in a run
          MaxTurns       \* bound: turns of the attacking side

Troops == Attackers \cup Defenders
NoAttacker == "none"
AllEffects == {"leave", "return", "block", "order", "restart"}

ASSUME CombatAssumption ==
    /\ Host \in {"computer", "player", "pvp"}
    /\ Attackers \cap Defenders = {} /\ NoAttacker \notin Attackers
    /\ IsFiniteSet(Troops)
    /\ Attack \in [Troops -> Nat]
    /\ Defense \in [Troops -> Nat \ {0}]
    /\ FirstStrike \cup DualStrike \cup Crush \cup Lethal \subseteq Troops
    /\ Forced \subseteq Attackers
    /\ Effects \subseteq AllEffects
    /\ MaxEffects \in Nat /\ MaxTurns \in Nat \ {0}

VARIABLES warzone,    \* the troops in play
          damage,     \* troop -> damage marked on it
          combat,     \* the manager's map: id -> the combat's blockers
          listed,     \* the ids in the manager's list of combats
          attackers,  \* checkpoint: the declared attackers
          blockers,   \* checkpoint: attacker -> its blockers
          sticky,     \* checkpoint: attackers whose block is remembered
          order,      \* checkpoint: attacker -> order of damage, where set
          phase, turn, effects,
          asked,      \* the last damage order asked for, and its answer
          log         \* what happened in this combat

combatVars == <<warzone, damage, combat, listed, attackers, blockers, sticky, order,
                phase, turn, effects, asked, log>>
checkpoint == <<attackers, blockers, sticky, order>>

\* A combat's id: one computed from the attacker, the next serial number, or
\* the one a restart gives it.  The attacker is part of each.
Ids == {"named", "serial", "restored"} \X Attackers
Named(as) == {"named"} \X as
Serial(as) == {"serial"} \X as
ListedAttackers == {id[2] : id \in listed}

\* The members of the sequence s that are in the set of troops ts.
Among(s, ts) ==
    LET kept[i \in 0 .. Len(s)] ==
          IF i = 0 THEN <<>>
          ELSE IF s[i] \in ts THEN Append(kept[i-1], s[i]) ELSE kept[i-1]
    IN kept[Len(s)]

NoBlockers == [a \in Attackers |-> <<>>]
NoOrder == <<>>
Unasked == [id |-> <<>>, order |-> <<>>, ok |-> TRUE]
FreshLog == [declared |-> {},  \* attackers declared
             posted |-> {},    \* <<attacker, blocker>>: posted against it
             parted |-> {},    \* of those, the pairs one of whom left
             soaked |-> {},    \* <<attacker, blocker>>: took its damage
             pierced |-> {},   \* attackers that hit the champion
             broken |-> {},    \* attackers that did after they were blocked
             struck |-> {},    \* troops that dealt their damage
             gone |-> {},      \* troops that left the combat
             ghosts |-> {}]    \* of those, the ones that took part again

PairsOf(ts) == {p \in log.posted : {p[1], p[2]} \cap ts # {}}

FirstPhase == IF Host = "player" THEN "entry" ELSE "declare"

CombatTypeOK ==
    /\ warzone \subseteq Troops
    /\ damage \in [Troops -> Nat]
    /\ listed \subseteq DOMAIN combat /\ DOMAIN combat \subseteq Ids
    /\ \A id \in DOMAIN combat : combat[id] \in Seq(Defenders)
    /\ attackers \subseteq Attackers /\ sticky \subseteq Attackers
    /\ blockers \in [Attackers -> Seq(Defenders)]
    /\ DOMAIN order \subseteq Attackers
    /\ phase \in {"entry", "declare", "block", "first", "second", "over"}
    /\ turn \in 1 .. MaxTurns /\ effects \in 0 .. MaxEffects

CombatInit ==
    /\ warzone = Troops
    /\ damage = [t \in Troops |-> 0]
    /\ combat = <<>> /\ listed = {}
    /\ attackers = {} /\ blockers = NoBlockers /\ sticky = {} /\ order = NoOrder
    /\ phase = FirstPhase /\ turn = 1 /\ effects = 0
    /\ asked = Unasked /\ log = FreshLog

-----------------------------------------------------------------------------
(***************************************************************************)
(* Declarations.                                                           *)
(***************************************************************************)

NewlyListed(ids) == ids \ DOMAIN combat

\* The map with new combats, nobody posted in them yet.
WithCombats(ids) ==
    [id \in DOMAIN combat \cup ids |-> IF id \in ids THEN <<>> ELSE combat[id]]

CreateAttacks(ids) ==
    /\ listed' = listed \cup NewlyListed(ids)
    /\ combat' = WithCombats(NewlyListed(ids))

Declared(as) ==
    /\ attackers' = attackers \cup as
    /\ phase' = IF attackers' = {} THEN "over" ELSE "block"
    /\ log' = [log EXCEPT !.declared = attackers']

\* The computer's attackers, chosen on phase entry.
DeclareComputer(as) ==
    /\ Host = "computer" /\ phase = "declare"
    /\ as \subseteq Attackers \cap warzone
    /\ CreateAttacks(Named(as))
    /\ Declared(as)
    /\ UNCHANGED <<warzone, damage, blockers, sticky, order, turn, effects, asked>>

\* Troops that must attack are declared by the server on phase entry.
DeclareForced ==
    /\ Host = "player" /\ phase = "entry"
    /\ LET as == Forced \cap warzone IN
          /\ CreateAttacks(Named(as))
          /\ attackers' = attackers \cup as
    /\ phase' = "declare"
    /\ UNCHANGED <<warzone, damage, blockers, sticky, order, turn, effects,
                   asked, log>>

\* The human's own choice is added to them, each under the next serial number.
Commit(as) ==
    /\ Host = "player" /\ phase = "declare"
    /\ as \subseteq (Attackers \cap warzone) \ attackers
    /\ listed' = listed \cup Serial(as)
    /\ combat' = WithCombats(Serial(as))
    /\ Declared(as)
    /\ UNCHANGED <<warzone, damage, blockers, sticky, order, turn, effects, asked>>

\* Between two humans every attacker is written into the checkpoint, and those
\* the attacking player has committed himself get a combat in the manager.  The
\* troops that must attack, which the server declares, have none.
Committed == attackers \ Forced

DeclarePvp(as) ==
    /\ Host = "pvp" /\ phase = "declare"
    /\ as \subseteq Attackers \cap warzone /\ Forced \cap warzone \subseteq as
    /\ Declared(as)
    /\ UNCHANGED <<warzone, damage, combat, listed, blockers, sticky, order, turn,
                   effects, asked>>

-----------------------------------------------------------------------------
(***************************************************************************)
(* Blocks: an assignment f of the ready defenders, in the order `line'.    *)
(***************************************************************************)

Choice(line, f) ==
    [a \in Attackers |-> Among(line, {b \in Defenders \cap warzone : f[b] = a})]

Assignments(as) ==
    LET ready == Defenders \cap warzone
    IN UNION {{Choice(line, f) : line \in SetToSeqs(ready)} :
                 f \in [ready -> as \cup {NoAttacker}]}

Posts(bs, as) == UNION {{a} \X ToSet(bs[a]) : a \in as}

Posted(bs, as) ==
    log' = [log EXCEPT !.posted = @ \cup Posts(bs, as),
                       !.parted = @ \ Posts(bs, as),
                       !.gone = @ \ UNION {ToSet(bs[a]) : a \in as}]

\* declare_blockers of every listed combat, the posts of its attacker.
PostCombats(bs) ==
    combat' = [id \in DOMAIN combat |-> IF id \in listed THEN bs[id[2]]
                                                         ELSE combat[id]]

\* A human answers the computer: only an attacker with a listed combat may be
\* named, and the checkpoint takes the blockers from those combats.
BlockComputer(bs) ==
    /\ Host = "computer" /\ phase = "block"
    /\ \A a \in Attackers : bs[a] # <<>> => a \in ListedAttackers \cap attackers
    /\ PostCombats(bs)
    /\ blockers' = bs
    /\ Posted(bs, attackers)
    /\ phase' = "first"
    /\ UNCHANGED <<warzone, damage, listed, attackers, sticky, order, turn,
                   effects, asked>>

\* The computer answers a human: its choice goes into the checkpoint, then into
\* the listed combats.
BlockPlayer(bs) ==
    /\ Host = "player" /\ phase = "block"
    /\ blockers' = bs
    /\ PostCombats(bs)
    /\ Posted(bs, attackers)
    /\ phase' = "first"
    /\ UNCHANGED <<warzone, damage, listed, attackers, sticky, order, turn,
                   effects, asked>>

\* A human answers a human: only an attacker with a combat may be named.
BlockPvp(bs) ==
    /\ Host = "pvp" /\ phase = "block"
    /\ \A a \in Attackers : bs[a] # <<>> => a \in Committed
    /\ blockers' = bs
    /\ Posted(bs, attackers)
    /\ phase' = "first"
    /\ UNCHANGED <<warzone, damage, combat, listed, attackers, sticky, order, turn,
                   effects, asked>>

-----------------------------------------------------------------------------
(***************************************************************************)
(* What effects do between the steps.                                      *)
(***************************************************************************)

Window == phase \in {"block", "first", "second"}

Effect(kind) ==
    /\ kind \in Effects /\ effects < MaxEffects
    /\ effects' = effects + 1

Without(bs, ts) == [a \in Attackers |-> Among(bs[a], Defenders \ ts)]

Lost(bs, ts) == {a \in Attackers : ToSet(bs[a]) \cap ts # {}}

StillBlocked(bs, ts) == sticky \cup Lost(bs, ts)

Combatants == attackers \cup UNION {ToSet(blockers[a]) : a \in attackers}

\* A troop is destroyed or sent back.  Between two humans the effect runs on a
\* view of the checkpoint that has no combat in it, so nothing is removed.
NothingPruned(t) == UNCHANGED checkpoint

Prune(t) ==
    IF Host = "pvp" THEN UNCHANGED checkpoint
    ELSE /\ attackers' = attackers \ {t}
         /\ blockers' = Without(blockers, {t})
         /\ sticky' = StillBlocked(blockers, {t})
         /\ UNCHANGED order

Leave(t) ==
    /\ Window /\ t \in warzone
    /\ Effect("leave")
    /\ warzone' = warzone \ {t}
    /\ damage' = [damage EXCEPT ![t] = 0]
    /\ Prune(t)
    /\ log' = [log EXCEPT !.gone = @ \cup ({t} \cap Combatants),
                          !.parted = @ \cup PairsOf({t})]
    /\ UNCHANGED <<combat, listed, phase, turn, asked>>

Return(t) ==
    /\ t \in Troops \ warzone
    /\ Effect("return")
    /\ warzone' = warzone \cup {t}
    /\ UNCHANGED <<damage, combat, listed, checkpoint, phase, turn, asked, log>>

\* block_effect: one more blocker, written into the checkpoint alone.  Between
\* two humans the view shows no attacker and the effect fizzles.
AssignBlocker(a, b) ==
    /\ phase \in {"first", "second"} /\ Host # "pvp"
    /\ a \in attackers \cap warzone /\ b \in Defenders \cap warzone
    /\ \A c \in Attackers : b \notin ToSet(blockers[c])
    /\ Effect("block")
    /\ blockers' = [blockers EXCEPT ![a] = Append(@, b)]
    /\ log' = [log EXCEPT !.posted = @ \cup {<<a, b>>},
                          !.parted = @ \ {<<a, b>>}, !.gone = @ \ {b}]
    /\ UNCHANGED <<warzone, damage, combat, listed, attackers, sticky, order, phase,
                   turn, asked>>

\* assign_damage_order: swap each named card into its place, stop at the first
\* that is not a blocker.  Result: the blockers, and the place reached.
Position(s, b) == CHOOSE i \in DOMAIN s :
                     s[i] = b /\ \A j \in DOMAIN s : s[j] = b => i <= j

Swap(s, i, j) == [s EXCEPT ![i] = s[j], ![j] = s[i]]

Sorting(bs, ord) ==
    LET pass[i \in 0 .. Len(ord)] ==
          IF i = 0 THEN [line |-> bs, ok |-> TRUE]
          ELSE IF ~pass[i-1].ok \/ ord[i] \notin ToSet(pass[i-1].line)
               THEN [pass[i-1] EXCEPT !.ok = FALSE]
               ELSE [line |-> Swap(pass[i-1].line, i,
                                   Position(pass[i-1].line, ord[i])),
                     ok |-> TRUE]
    IN pass[Len(ord)]

AssignOrder(id, ord) ==
    /\ Host = "player" /\ phase = "first"
    /\ id \in listed /\ Len(ord) = Len(combat[id])
    /\ Effect("order")
    /\ LET sorted == Sorting(combat[id], ord) IN
          /\ combat' = [combat EXCEPT ![id] = sorted.line]
          /\ asked' = [id |-> id, order |-> ord, ok |-> sorted.ok]
    /\ UNCHANGED <<warzone, damage, listed, checkpoint, phase, turn, log>>

\* The session is rebuilt from its snapshot: the listed combats come back, each
\* under an id of its own, and the old map is gone.
Restored == {"restored"} \X ListedAttackers

RestoredCombats ==
    [id \in Restored |-> combat[CHOOSE old \in listed : old[2] = id[2]]]

Restart ==
    /\ Window /\ Host # "pvp"
    /\ Effect("restart")
    /\ combat' = RestoredCombats
    /\ listed' = Restored
    /\ asked' = Unasked
    /\ UNCHANGED <<warzone, damage, checkpoint, phase, turn, log>>

-----------------------------------------------------------------------------
(***************************************************************************)
(* A damage step.  `f' is the fight as the host reads it: who attacks, who *)
(* is posted against each, and the order of damage where one is set.       *)
(***************************************************************************)

Cares(t, first) == IF first THEN t \in FirstStrike \cup DualStrike
                            ELSE t \notin FirstStrike \/ t \in DualStrike

FromManager ==
    LET of(a) == combat[CHOOSE id \in listed : id[2] = a]
        bs == [a \in Attackers |-> IF a \in ListedAttackers THEN of(a) ELSE <<>>]
    IN [who |-> ListedAttackers, posts |-> bs,
        line |-> [a \in {c \in ListedAttackers : bs[c] # <<>>} |-> bs[a]]]

FromCheckpoint == [who |-> attackers, posts |-> blockers, line |-> order]

\* The human's attack is read from the manager whenever it lists a combat.
PveFight == IF Host = "player" /\ listed # {} THEN FromManager
                                              ELSE FromCheckpoint

Line(f, a) == IF a \in DOMAIN f.line THEN f.line[a] ELSE f.posts[a]
Live(f, a) == Among(Line(f, a), warzone)

Forgotten(a) == FALSE

\* The remembered block counts in a battle with the computer; the view the
\* humans' step is given does not carry it.
Remembered(a) == Host # "pvp" /\ a \in sticky

Blocked(f, a) == Line(f, a) # <<>> \/ Remembered(a)

OnePoint(a, b) == 1

\* What kills a blocker: one point from a lethal source, else the defense left.
Need(a, b) == IF a \in Lethal THEN 1 ELSE Defense[b] - damage[b]

\* Spent(f, a)[i]: what the first i live blockers have taken of a's damage.
Spent(f, a) ==
    LET bs == Live(f, a)
        s[i \in 0 .. Len(bs)] ==
            IF i = 0 THEN 0 ELSE Min({Attack[a], s[i-1] + Need(a, bs[i])})
    IN s

Dealt(f, a, b) ==
    LET bs == Live(f, a)
        i == Position(bs, b)
    IN IF b \in ToSet(bs) THEN Spent(f, a)[i] - Spent(f, a)[i-1] ELSE 0

Left(f, a) == Attack[a] - Spent(f, a)[Len(Live(f, a))]

Present(f) == f.who \cap warzone
Strikers(f, first) == {a \in Present(f) : Cares(a, first)}
Against(f, a, first) == {b \in ToSet(Live(f, a)) : Cares(b, first)}
BackStrikers(f, first) == UNION {Against(f, a, first) : a \in Present(f)}

Soaks(f, first) ==
    {p \in Strikers(f, first) \X Defenders : Dealt(f, p[1], p[2]) > 0}
Pierces(f, first) ==
    {a \in Strikers(f, first) : Left(f, a) > 0 /\ (~Blocked(f, a) \/ a \in Crush)}

Wounds(f, first, t) ==
    IF t \in Attackers
    THEN IF t \in f.who THEN SumFunctionOnSet(Attack, Against(f, t, first)) ELSE 0
    ELSE SumFunction([a \in Strikers(f, first) |-> Dealt(f, a, t)])

Poisoned(f, first, t) ==
    \/ \E a \in Strikers(f, first) \cap Lethal : Dealt(f, a, t) > 0
    \/ t \in Present(f)
       /\ \E b \in Against(f, t, first) \cap Lethal : Attack[b] > 0

\* state_based_deaths, once the whole step is dealt.
Deaths(f, first) ==
    {t \in warzone : \/ damage[t] + Wounds(f, first, t) >= Defense[t]
                     \/ Poisoned(f, first, t)}

Fight(f, first) ==
    LET dead == Deaths(f, first)
        soaks == Soaks(f, first)
        struck == Strikers(f, first) \cup BackStrikers(f, first)
    IN /\ warzone' = warzone \ dead
       /\ damage' = [t \in Troops |->
                       IF t \in dead THEN 0
                       ELSE IF t \in warzone THEN damage[t] + Wounds(f, first, t)
                       ELSE damage[t]]
       /\ log' = [log EXCEPT
                    !.soaked = @ \cup soaks,
                    !.pierced = @ \cup Pierces(f, first),
                    !.broken = @ \cup (Pierces(f, first) \cap {p[1] : p \in log.posted}),
                    !.struck = @ \cup struck,
                    !.gone = @ \cup (dead \cap (f.who \cup {p[2] : p \in log.posted})),
                    !.parted = @ \cup PairsOf(dead),
                    !.ghosts = @ \cup (log.gone \cap
                                       (struck \cup {p[2] : p \in soaks}))]
       /\ UNCHANGED <<combat, listed, turn, effects, asked>>

\* Survivors stay in the fight; the dead are removed as any troop that leaves.
Survivors(f, dead) ==
    /\ attackers' = f.who \ dead
    /\ blockers' = Without(f.posts, dead)
    /\ sticky' = StillBlocked(f.posts, dead)

PveStep(first) ==
    /\ Host # "pvp"
    /\ Fight(PveFight, first)
    /\ Survivors(PveFight, Deaths(PveFight, first))
    /\ order' = NoOrder

\* The humans' step first takes the order of damage from the transaction, for
\* the attackers that still have blockers; none leaves the old order standing.
Orders == {o \in [{a \in Attackers : blockers[a] # <<>>} ->
                    UNION {SetToSeqs(ToSet(blockers[a])) : a \in Attackers}] :
             \A a \in DOMAIN o : ToSet(o[a]) = ToSet(blockers[a])}

NewOrder(o) == IF DOMAIN o = {} THEN order ELSE o

PvpFight(o) == [FromCheckpoint EXCEPT !.line = NewOrder(o)]

\* The final step forgets the order with the rest.
OrderAfter(f) == NoOrder

PvpStep(first) ==
    /\ Host = "pvp"
    /\ \E o \in Orders :
         LET f == PvpFight(o) IN
            /\ Fight(f, first)
            /\ IF first THEN Survivors(f, Deaths(f, first)) /\ order' = f.line
               ELSE /\ attackers' = {} /\ blockers' = NoBlockers
                    /\ IF attackers = {} THEN sticky' = sticky /\ order' = f.line
                       ELSE sticky' = {} /\ order' = OrderAfter(f)

Swift == FirstStrike \cup DualStrike

\* combat_has_first_strike: a swift troop of a combat in the manager, or one
\* that attacks in the checkpoint of a battle with the computer.
HasFirstStrike ==
    IF Host = "pvp"
    THEN \E a \in Committed :
            ({a} \cup ToSet(blockers[a])) \cap warzone \cap Swift # {}
    ELSE \/ \E id \in listed :
               ({id[2]} \cup ToSet(combat[id])) \cap warzone \cap Swift # {}
         \/ attackers \cap Swift # {}

FirstStrikeStep ==
    /\ phase = "first" /\ HasFirstStrike
    /\ PveStep(TRUE) \/ PvpStep(TRUE)
    /\ phase' = "second"

\* Without a swift combatant the standard step is the only one.
StandardStep ==
    /\ phase = "second" \/ (phase = "first" /\ ~HasFirstStrike)
    /\ PveStep(FALSE) \/ PvpStep(FALSE)
    /\ phase' = "over"

\* The turn ends and the side attacks again.  The manager's list is cleared,
\* its map is not; the humans' checkpoint was cleared by their last step.
EndTurn ==
    /\ phase = "over" /\ turn < MaxTurns
    /\ turn' = turn + 1
    /\ phase' = FirstPhase
    /\ listed' = {}
    /\ damage' = [t \in Troops |-> 0]
    /\ IF Host = "pvp" THEN UNCHANGED checkpoint
       ELSE /\ attackers' = {} /\ blockers' = NoBlockers
            /\ sticky' = {} /\ order' = NoOrder
    /\ asked' = Unasked /\ log' = FreshLog
    /\ UNCHANGED <<warzone, combat, effects>>

CombatNext ==
    \/ \E as \in SUBSET Attackers :
          DeclareComputer(as) \/ Commit(as) \/ DeclarePvp(as)
    \/ DeclareForced
    \/ \E bs \in Assignments(attackers) :
          BlockComputer(bs) \/ BlockPlayer(bs) \/ BlockPvp(bs)
    \/ \E t \in Troops : Leave(t) \/ Return(t)
    \/ \E a \in Attackers, b \in Defenders : AssignBlocker(a, b)
    \/ \E id \in listed : \E ord \in TupleOf(Defenders, Len(combat[id])) :
          AssignOrder(id, ord)
    \/ Restart
    \/ FirstStrikeStep \/ StandardStep
    \/ EndTurn

CombatSpec == CombatInit /\ [][CombatNext]_combatVars

-----------------------------------------------------------------------------
(***************************************************************************)
(* What a combat promises.                                                 *)
(***************************************************************************)

\* An attack that was blocked stays blocked: without Crush it never hits the
\* champion, whatever became of its blockers.
BlockedStaysBlocked == log.broken \subseteq Crush

\* A troop that left the combat takes no further part in it, even when it comes
\* back to play at once: it neither deals combat damage nor takes any.
LeftStaysOut == log.ghosts = {}

\* Only a troop posted against an attacker in this combat takes its damage.
OnlyBlockersSoak == log.soaked \subseteq log.posted

\* Damage goes past a live blocker only after that blocker got what kills it.
PierceKillsBlockersStep ==
    \A a \in log'.pierced \ log.pierced, b \in warzone :
        <<a, b>> \in log.posted \ log.parted => b \notin warzone'
PierceKillsBlockers == [][PierceKillsBlockersStep]_combatVars

\* Every attacker that is still in the combat when it is over has dealt its
\* damage.
AttackersStrike ==
    phase = "over" => log.declared \ log.gone \subseteq log.struck

\* So has every blocker, unless the troop it blocked left before.
BlockersStrike ==
    phase = "over" =>
        \A p \in log.posted \ log.parted :
            p[1] \notin log.gone => p[2] \in log.struck

\* An order of damage that names every blocker once is the order obeyed; swapping
\* cards into place one by one never undoes an earlier swap.
OrderIsObeyed ==
    asked.ok /\ asked.id \in listed /\ phase = "first"
        => (IsInjective(asked.order) => combat[asked.id] = asked.order)

=============================================================================
