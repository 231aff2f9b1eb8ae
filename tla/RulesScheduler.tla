--------------------------- MODULE RulesScheduler ---------------------------
(***************************************************************************)
(* AuthoritativeSession (rules_port/session.py): the scheduler that owns a  *)
(* battle's turn phase, its action stack, its chain of pending abilities   *)
(* and its queue of client transactions.                                   *)
(*                                                                         *)
(* The session is driven by calls: a client's intent is validated and      *)
(* queued (Submit), a host consumes one intent directly (HandleTransaction) *)
(* or ticks the session, a server-side player acts without an intent, and  *)
(* a host reconciles the session with its checkpoint (SyncCheckpoint).     *)
(* Host hooks called from inside these calls may queue chain items.  Each  *)
(* call is one action and each exit of tick() is one Tick... action, so    *)
(* the calls of different coroutines interleave between ticks, which is    *)
(* where async_bridge.py yields to the transport.                          *)
(*                                                                         *)
(* What a card is is abstracted to its kind, which decides who may respond *)
(* to it.  The branch facts of the phase graph are free: a phase may be    *)
(* followed by any phase its selector can return.                          *)
(***************************************************************************)
EXTENDS ActionStack

CONSTANTS
    ItemKind,     \* Items -> {"ability", "trigger", "card"}
    QuickCards,   \* cards that may be played at any priority
    Chainless,    \* items whose ability has ignores_chain
    EntryItems,   \* triggers a phase-entry hook may queue
    HookItems,    \* items a resolution or a state-based check may queue
    PromptItems,  \* items whose resolution may ask a client something
    Servers,      \* participants the server plays: the practice AI
    SyncClients,  \* the client a host attaches its checkpoint for, if it does
    BonusSeats,   \* players the turn-boundary hook may give the next turn
    Pvp,          \* the session is a PvpAuthoritativeSession
    StopPolicies, \* policies the host's stop preferences may impose
    TxKinds,      \* intents the clients submit
    MaxTxs,       \* bound on queued, unconsumed intents
    MaxTurns      \* bound on the turns played

Kinds == {"ability", "trigger", "card"}

ASSUME ItemsAssumption ==
    /\ ItemKind \in [Items -> Kinds]
    /\ QuickCards \subseteq Items
    /\ Chainless \subseteq Items
    /\ EntryItems \subseteq Items
    /\ HookItems \subseteq Items
    /\ PromptItems \subseteq Items

ASSUME HostAssumption ==
    /\ Servers \subseteq Players
    /\ SyncClients \subseteq Players
    /\ BonusSeats \subseteq Players
    /\ Pvp \in BOOLEAN
    /\ StopPolicies \subseteq Policies
    /\ MaxTxs \in Nat
    /\ MaxTurns \in Nat

VARIABLES
    phase,      \* current_turn_phase
    active,     \* active_player_id
    turns,      \* turns begun since the checkpoint was created
    acts,       \* action_stack._stack, with current_action as a flag
    prio,       \* action_stack.priority_player_id, the mirror
    chain,      \* chain._instance_ids, bottom first, and their descriptors
    fresh,      \* items nobody has queued yet
    prompt,     \* the battle state holds a pending input
    txs,        \* _transactions
    autoPass,   \* players in auto_pass_states
    gone,       \* eliminated_player_ids
    terminated, \* terminated
    savedPrio,  \* priority_player_id in the snapshot persist() last wrote
    heard,      \* history: who declined since the chain or the phase changed
    settled,    \* history: pending items, and NoItem for the phase, that
                \* everyone they ask declined in one uninterrupted round
    applied     \* history: items whose resolution ran to completion

gameVars == <<phase, active, turns>>
queueVars == <<acts, prio, chain, fresh, heard, settled, applied>>
seatVars == <<autoPass, gone, terminated>>
vars == <<gameVars, queueVars, prompt, txs, seatVars, savedPrio>>

\* Chain.peek_ability.
TopOf(c) == IF c = <<>> THEN NoItem ELSE Last(c)
ChainTop == TopOf(chain)

\* persist(): the mirror is the part of the snapshot the session reads back
\* while it lives (reconcile_projected_chain_priority).
Persist == savedPrio' = prio'

TxKindNames == {"pass", "autopass", "cancel", "quit", "play", "answer"}

\* A queued transaction; issued is the phase it was submitted in.
Transactions ==
    [kind : TxKindNames, player : Players, item : Items \union {NoItem},
     issued : Phases]

---------------------------------------------------------------------------
(* Queueing a chain item: queue_projected_chain. *)

\* The response window's policy.  Abilities and triggers ask everyone; a card
\* asks everyone in a PvP session and the active player in any other.
ItemPolicy(i) ==
    IF Pvp \/ ItemKind[i] \in {"ability", "trigger"} THEN "All" ELSE "Active"

\* A queue with one player moved, or put, at its head.
Promote(q, p) == <<p>> \o Without(q, p)

\* The response queue with the nominated first responder at its head; an
\* ACTIVE window that did not hold the nominee keeps nobody else.
ResponseQueue(who, first, prev, player) ==
    IF who = "Active" /\ first # player THEN <<first>>
    ELSE Promote(WindowQueue(who, FALSE, prev, player), first)

\* Mutant: the window without its resolver.
QueuedWithoutResolver(s, i, first, player) ==
    Push(s, WindowAction(ItemPolicy(i), i,
                         ResponseQueue(ItemPolicy(i), first, first, player)))

\* Resolver below, response window above.
QueuedOn(s, i, first, player) ==
    Push(Push(s, ResolveAction(i)),
         WindowAction(ItemPolicy(i), i,
                      ResponseQueue(ItemPolicy(i), first, first, player)))

\* The first other seat answers what the server plays (ai._queue_stack_item)
\* and a PvP card; any other human play starts with the human.
Nominee(p, i) ==
    IF p \in Servers \/ (Pvp /\ ItemKind[i] = "card")
    THEN FirstAsked(Without(PlayerIds, p))
    ELSE p

\* triggers.py opens a trigger's window with the active player, a free play
\* found by host_mutations.py with its owner's opponent.
HookNominees(i, player) ==
    IF ItemKind[i] = "trigger" THEN {player} ELSE Players

\* The action stack, its mirror and the chain change together: what a call
\* leaves of them is computed on one record.
Queues == [acts |-> acts, prio |-> prio, chain |-> chain, fresh |-> fresh,
           heard |-> heard, settled |-> settled, applied |-> applied]

\* A round is complete when the players asked about i have all declined: both
\* histories only record, no action reads them.
Complete(i, declined) ==
    IF i \in Items /\ ItemPolicy(i) = "Active"
    THEN declined # {} ELSE declined = Players

Become(q) ==
    /\ acts' = q.acts
    /\ prio' = q.prio
    /\ chain' = q.chain
    /\ fresh' = q.fresh
    /\ heard' = q.heard
    /\ settled' =
          (q.settled \intersect (ToSet(q.chain) \union {NoItem}))
             \union {i \in {TopOf(q.chain)} : Complete(i, q.heard)}
    /\ applied' = q.applied

\* Mutant: the item is put under the chain.
WithItemBelow(q, i, first, player) ==
    [acts |-> QueuedOn(q.acts, i, first, player), prio |-> first,
     chain |-> <<i>> \o q.chain, fresh |-> q.fresh \ {i}, heard |-> {},
     settled |-> q.settled, applied |-> q.applied]

WithItem(q, i, first, player) ==
    [acts |-> QueuedOn(q.acts, i, first, player), prio |-> first,
     chain |-> Append(q.chain, i), fresh |-> q.fresh \ {i}, heard |-> {},
     settled |-> q.settled, applied |-> q.applied]

\* A host hook run inside a call queues one of its items, or none.
Found(q, items, player) ==
    UNION {{WithItem(q, i, first, player) : first \in HookNominees(i, player)} :
              i \in items \intersect q.fresh}

Hooked(q, player) == {q} \union Found(q, HookItems, player)

---------------------------------------------------------------------------
(* Phases. *)

\* TurnPhaseState.on_entry: the entry hook runs before the phase's own window
\* exists and may queue a trigger; the window then goes under everything,
\* without a word to what is above it; its initialize() and the host's stop
\* policy (configure_phase_priority) each overwrite the mirror.
Entered(q, p, who, player) ==
    LET first == FirstAsked(WindowQueue(PriorityPlayers[p], FALSE, q.prio, player))
        queue == IF who = PriorityPlayers[p]
                 THEN WindowQueue(who, FALSE, q.prio, player)
                 ELSE WindowQueue(who, FALSE, first, player)
    IN  [q EXCEPT !.acts = PushBehind(@, WindowAction(who, NoItem, queue)),
                  !.prio = FirstAsked(queue),
                  !.heard = {},
                  !.settled = @ \ {NoItem}]

Entries(p, player) ==
    {Entered(q, p, who, player) :
        q \in {Queues} \union Found(Queues, EntryItems, player),
        who \in {PriorityPlayers[p]} \union StopPolicies}

\* transition_to runs a state-based check when the action now on top, which
\* need not be the phase's own, asks somebody.
Asks(s) == s # <<>> /\ IsWindow(Top(s)) /\ Top(s).queue # <<>>

Transitions(p, player) ==
    UNION {IF Asks(q.acts) THEN Hooked(q, player) ELSE {q} :
              q \in Entries(p, player)}

\* What a phase's selector can return, over every set of branch facts.
Successors == [p \in Phases |-> {NextPhase(p, f) : f \in SUBSET FactNames}]

\* materialize_current_phase, once, on the checkpoint of a fresh battle.
Begin ==
    /\ turns = 0
    /\ acts = <<>>
    /\ \E q \in Entries(phase, active) : Become(q)
    /\ turns' = 1
    /\ UNCHANGED <<phase, active, prompt, txs, seatVars>>
    /\ Persist

\* advance_turn_phase and transition_to, from a tick that finds no action.
\* The end of a turn first hands it to the next seat, or to the player the
\* turn-boundary hook names.
AdvanceTurnPhase ==
    /\ acts = <<>>
    /\ \E p \in Successors[phase] :
        /\ p \in Permits[phase]
        /\ phase' = p
        /\ IF phase = "EndTurn" /\ p = "StartTurn"
           THEN /\ turns < MaxTurns
                /\ active' \in {NextSeat(active)} \union BonusSeats
                /\ autoPass' = {}
                /\ turns' = turns + 1
           ELSE UNCHANGED <<active, autoPass, turns>>
        /\ \E q \in Transitions(p, active') : Become(q)
    /\ UNCHANGED <<prompt, txs, gone, terminated>>
    /\ Persist

---------------------------------------------------------------------------
(* Client intents. *)

\* reconcile_projected_chain_priority: before an intent is validated, a live
\* response window is made to start with the player the last snapshot names.
Reconciles ==
    /\ chain # <<>>
    /\ acts # <<>>
    /\ IsWindow(Top(acts)) /\ Top(acts).item # NoItem
    /\ savedPrio # NoPlayer
    /\ FirstAsked(Top(acts).queue) # savedPrio \/ prio # savedPrio

Reconciled ==
    IF ~Reconciles THEN Queues
    ELSE [Queues EXCEPT
            !.prio = savedPrio,
            !.acts[Len(acts)].queue =
                IF Top(acts).who = "Active" /\ savedPrio # active
                THEN <<savedPrio>> ELSE Promote(Top(acts).queue, savedPrio)]

\* The requirements an intent is created with, read when it is submitted.
\* An activation needs no priority, a card does.
PlayIsTimely(tx, mirror) ==
    \/ ItemKind[tx.item] = "ability"
    \/ /\ ItemKind[tx.item] = "card"
       /\ tx.player = mirror
       /\ \/ tx.item \in QuickCards
          \/ /\ phase \in {"FirstMainPhase", "SecondMainPhase"}
             /\ tx.player = active
             /\ chain = <<>>

\* Mutant: anybody may pass.
ValidatesAnyPass(tx, mirror) ==
    CASE tx.kind = "play" -> PlayIsTimely(tx, mirror)
      [] tx.kind = "quit" -> tx.player \notin gone
      [] OTHER -> TRUE

Validates(tx, mirror) ==
    CASE tx.kind = "pass" -> tx.player = mirror
      [] tx.kind = "play" -> PlayIsTimely(tx, mirror)
      [] tx.kind = "quit" -> tx.player \notin gone
      [] OTHER -> TRUE

Intents ==
    {tx \in Transactions :
        /\ tx.kind \in TxKinds
        /\ tx.issued = phase
        /\ tx.player \notin Servers
        /\ IF tx.kind = "play" THEN tx.item \in fresh ELSE tx.item = NoItem}

\* submit_transaction, for an intent that is accepted: the live response
\* window is repaired first.  A refused intent leaves only that repair.
Submit(tx) ==
    /\ Len(txs) < MaxTxs
    /\ ~terminated
    /\ Become(Reconciled)
    /\ IF Validates(tx, Reconciled.prio) THEN txs' = Append(txs, tx)
       ELSE UNCHANGED txs
    /\ UNCHANGED <<gameVars, prompt, seatVars, savedPrio>>

---------------------------------------------------------------------------
(* Consuming one intent: handle_transaction and the handlers it calls. *)

\* PriorityWindowAction.pass_priority on the top window; the next player is
\* shown what a state-based check finds first.
CanPass(q, p) == ~terminated /\ CouldPass(q.acts, p)

\* Mutant: the mirror is left on the player who passed.
AfterPassWithoutMirror(q, p) ==
    [q EXCEPT !.acts = Passed(@), !.heard = @ \union {p}]

AfterPass(q, p) ==
    [q EXCEPT !.acts = Passed(@),
              !.prio = FirstAsked(Tail(Top(q.acts).queue)),
              !.heard = @ \union {p}]

\* Whether the handler of tx reports success.
Handles(tx, q, asked) ==
    CASE tx.kind = "pass" -> CanPass(q, tx.player)
      [] tx.kind = "autopass" ->
            /\ phase \notin {"Mulligan", "PickGoesFirst", "StartTurn"}
            /\ q.prio = tx.player
      [] tx.kind = "play" -> tx.item \in q.fresh
      [] tx.kind = "answer" -> asked
      [] OTHER -> TRUE

\* What a successful handler may leave of the queues.
Outcomes(tx, q) ==
    CASE tx.kind \in {"pass", "autopass"} /\ CanPass(q, tx.player) ->
            Hooked(AfterPass(q, tx.player), active)
      [] tx.kind = "play" ->
            {WithItem(q, tx.item, Nominee(tx.player, tx.item), active)}
      [] OTHER -> {q}

\* handle_transaction on the queues q its caller has entered; asked says
\* whether the battle state waits for an answer.  A handler that fails changes
\* nothing and is not persisted.
Consume(q, asked) ==
    /\ txs # <<>>
    /\ txs' = Tail(txs)
    /\ UNCHANGED gameVars
    /\ LET tx == Head(txs) IN
       IF Handles(tx, q, asked)
       THEN /\ \E r \in Outcomes(tx, q) : Become(r)
            /\ prompt' = (asked /\ tx.kind # "answer")
            /\ autoPass' =
                  CASE tx.kind = "autopass" -> autoPass \union {tx.player}
                    [] tx.kind = "cancel" -> autoPass \ {tx.player}
                    [] OTHER -> autoPass
            /\ gone' = IF tx.kind = "quit" THEN gone \union {tx.player} ELSE gone
            /\ terminated' = (terminated \/ gone' = Players)
            /\ Persist
       ELSE /\ Become(q)
            /\ prompt' = asked
            /\ UNCHANGED <<seatVars, savedPrio>>

\* A host that hands the session an intent before it ticks.
HandleTransaction == turns # 0 /\ Consume(Queues, prompt)

---------------------------------------------------------------------------
(* tick(), one action per exit. *)

Ticks == turns # 0 /\ ~terminated /\ phase # "NotPlaying"

\* A pending input suspends everything but the answer to it.
TickPrompt == Ticks /\ prompt /\ Consume(Queues, TRUE)

\* A state-based check before the top window is looked at.
TickStateBased ==
    /\ Ticks /\ ~prompt
    /\ Asks(acts)
    /\ \E q \in Found(Queues, HookItems, active) : Become(q)
    /\ UNCHANGED <<gameVars, prompt, txs, seatVars, savedPrio>>

TickAdvance == Ticks /\ ~prompt /\ AdvanceTurnPhase

\* What GameActionStack.update makes of the queues before the action's own
\* update runs.
EnteredQueues(q) ==
    [q EXCEPT !.acts = EnteredStack(@, q.prio, active),
              !.prio = EnteredPriority(q.acts, q.prio, active)]

TopWindow == acts # <<>> /\ IsWindow(Top(acts))
TopResolver == acts # <<>> /\ IsResolve(Top(acts))

Over(q) == WindowOver(Top(q.acts), ChainTop, Chainless)

TickWindowOver ==
    /\ Ticks /\ ~prompt
    /\ TopWindow
    /\ Over(EnteredQueues(Queues))
    /\ Become([EnteredQueues(Queues) EXCEPT !.acts = Pop(@)])
    /\ UNCHANGED <<gameVars, prompt, txs, seatVars, savedPrio>>

\* The window waits: the tick goes on to consume an intent, if there is one.
TickWindowWaits ==
    /\ Ticks /\ ~prompt
    /\ TopWindow
    /\ ~Over(EnteredQueues(Queues))
    /\ \/ Consume(EnteredQueues(Queues), FALSE)
       \/ /\ txs = <<>>
          /\ Become(EnteredQueues(Queues))
          /\ UNCHANGED <<gameVars, prompt, txs, seatVars, savedPrio>>

\* A resolver whose item is not the chain's top is done: the item resolved in
\* an earlier tick, or the chain is empty.
TickStaleResolver ==
    /\ Ticks /\ ~prompt
    /\ TopResolver
    /\ Top(acts).item # ChainTop
    /\ Become([EnteredQueues(Queues) EXCEPT !.acts = Pop(@)])
    /\ UNCHANGED <<gameVars, prompt, txs, seatVars, savedPrio>>

\* Mutant: the item is taken off only when it is still the chain's top.
ResolvedOnTop(q, i) ==
    [q EXCEPT !.chain = IF Last(@) = i THEN Front(@) ELSE @,
              !.acts = IF IsResolve(Top(@)) THEN Pop(@) ELSE @,
              !.heard = {},
              !.applied = @ \union {i}]

\* The resolver applies the item and takes it off the chain, wherever the
\* triggers it found have left it; then the action ends, or stays below them.
Resolved(q, i) ==
    [q EXCEPT !.chain = Without(@, i),
              !.acts = IF IsResolve(Top(@)) THEN Pop(@) ELSE @,
              !.heard = {},
              !.applied = @ \union {i}]

TickResolves ==
    /\ Ticks /\ ~prompt
    /\ TopResolver
    /\ Top(acts).item = ChainTop
    /\ \E q \in Hooked(EnteredQueues(Queues), active) : Become(Resolved(q, ChainTop))
    /\ prompt' \in IF ChainTop \in PromptItems THEN BOOLEAN ELSE {FALSE}
    /\ UNCHANGED <<gameVars, txs, seatVars>>
    /\ Persist

\* The resolution pauses for a client's answer and the action waits; the tick
\* goes on to consume an intent, if there is one.
TickPauses ==
    /\ Ticks /\ ~prompt
    /\ TopResolver
    /\ Top(acts).item = ChainTop
    /\ ChainTop \in PromptItems
    /\ \/ Consume(EnteredQueues(Queues), TRUE)
       \/ /\ txs = <<>>
          /\ Become(EnteredQueues(Queues))
          /\ prompt' = TRUE
          /\ UNCHANGED <<gameVars, txs, seatVars, savedPrio>>

Tick ==
    \/ TickPrompt
    \/ TickStateBased
    \/ TickAdvance
    \/ TickWindowOver
    \/ TickWindowWaits
    \/ TickStaleResolver
    \/ TickResolves
    \/ TickPauses

---------------------------------------------------------------------------
(* What the host does without a client's intent.  It submits an intent and *)
(* consumes it in one call, so none is queued then.                        *)

HostActs == turns # 0 /\ txs = <<>>

\* The server's player passes the window that asks it (pass_player_priority).
ServerPass(p) ==
    /\ HostActs
    /\ CanPass(Queues, p)
    /\ \E q \in Hooked(AfterPass(Queues, p), active) : Become(q)
    /\ UNCHANGED <<gameVars, prompt, txs, seatVars, savedPrio>>

\* The server's player answers the window with a card or an ability.
ServerPlay(p) ==
    /\ HostActs
    /\ CanPass(Queues, p)
    /\ \E i \in fresh :
          /\ ItemKind[i] # "trigger"
          /\ Become(WithItem(Queues, i, Nominee(p, i), active))
    /\ UNCHANGED <<gameVars, prompt, txs, seatVars>>
    /\ Persist

\* auto_pass_internal_priority for every player: the whole queue of the top
\* window passes, through the window even when a check run by one of the
\* passes queued an item above it, and the stack is then updated once.
Drained(q) ==
    LET asked == Top(q.acts).queue
        passed == [q EXCEPT !.acts[Len(q.acts)].queue = <<>>,
                            !.prio = IF asked = <<>> THEN @ ELSE NoPlayer,
                            !.heard = @ \union ToSet(asked)]
        found == IF asked = <<>> THEN {} ELSE Found(passed, HookItems, active)
    IN  {passed} \union found
          \union IF Len(asked) < 2 THEN {}
                 ELSE {[r EXCEPT !.prio = NoPlayer] : r \in found}

Updated(q) ==
    LET e == EnteredQueues(q)
    IN  IF WindowOver(Top(e.acts), TopOf(q.chain), Chainless)
        THEN [e EXCEPT !.acts = Pop(@)] ELSE e

AutoPassInternal ==
    /\ HostActs
    /\ ~terminated
    /\ Servers # {}
    /\ TopWindow
    /\ \E q \in Drained(Queues) : Become(Updated(q))
    /\ UNCHANGED <<gameVars, prompt, txs, seatVars, savedPrio>>

\* port.persist(), with which a host ends a request or a loop of passes.
Checkpoint ==
    /\ turns # 0
    /\ UNCHANGED <<gameVars, queueVars, prompt, txs, seatVars>>
    /\ Persist

---------------------------------------------------------------------------
(* Attaching a checkpoint: prune_orphan_actions, then sync_checkpoint for   *)
(* the host's one client c, whose checkpoint already agrees with the live  *)
(* session on the phase and the turn.                                      *)

Orphaned == acts # <<>> /\ ~(TopWindow /\ Top(acts).item = NoItem) /\ chain = <<>>

Pruned ==
    IF Orphaned THEN [Queues EXCEPT !.acts = <<>>, !.prio = NoPlayer] ELSE Queues

\* A window set back to one of the host's stop policies, the mirror with it.
Configured(q, who) ==
    LET queue == WindowQueue(who, FALSE, q.prio, active)
    IN  [q EXCEPT !.acts[Len(q.acts)] = [@ EXCEPT !.who = who, !.queue = queue],
                  !.prio = FirstAsked(queue)]

\* An empty stack gets a window for the current phase that starts with c.
Reopened(q, c) ==
    LET who == PriorityPlayers[phase]
        queue == WindowQueue(who, FALSE, c, active)
        plain == [q EXCEPT !.acts = <<WindowAction(who, NoItem, queue)>>,
                           !.prio = FirstAsked(queue)]
        ToFront(r) ==
            LET asked == Top(r.acts).queue
                first == IF c \in ToSet(asked) THEN Promote(asked, c) ELSE asked
            IN  [r EXCEPT !.acts[1].queue = first, !.prio = FirstAsked(first)]
    IN  {ToFront(r) : r \in {plain} \union {Configured(plain, w) : w \in StopPolicies}}

\* The reconciliation of the top action.
Reconciliations(q, c) ==
    LET top == q.acts # <<>> /\ IsWindow(Top(q.acts))
        r == [q EXCEPT !.prio = IF top THEN FirstAsked(Top(q.acts).queue) ELSE c]
    IN  IF q.acts = <<>>
        THEN IF PriorityPlayers[phase] = "None" THEN {r} ELSE Reopened(r, c)
        ELSE IF top /\ Top(q.acts).item = NoItem /\ Top(q.acts).queue # <<>>
        THEN {r} \union {Configured(r, who) : who \in StopPolicies}
        ELSE {r}

\* ensure_projected_chain_action: a chain whose top item is not what the top
\* action is about gets a stack of its own, with nothing below.  Only an item
\* of kind ability keeps a window for everyone.
Ensured(q) ==
    IF q.chain = <<>> \/ (q.acts # <<>> /\ Top(q.acts).item = Last(q.chain)) THEN q
    ELSE LET i == Last(q.chain)
             who == IF ItemKind[i] = "ability" THEN "All" ELSE "Active"
             plain == WindowQueue(who, FALSE, NoPlayer, active)
             queue == IF q.prio = NoPlayer THEN plain
                      ELSE ResponseQueue(who, q.prio, NoPlayer, active)
         IN  [q EXCEPT !.acts = Push(<<ResolveAction(i)>>, WindowAction(who, i, queue)),
                       !.prio = FirstAsked(queue)]

Attach(c) ==
    /\ HostActs
    /\ \E q \in Reconciliations(Pruned, c) : Become(Ensured(q))
    /\ savedPrio' = IF Orphaned THEN NoPlayer ELSE savedPrio
    /\ UNCHANGED <<gameVars, prompt, txs, seatVars>>

---------------------------------------------------------------------------
(* The specification. *)

\* A fresh battle's checkpoint.
Init ==
    /\ phase = "StartTurn"
    /\ active = PlayerIds[1]
    /\ turns = 0
    /\ acts = <<>>
    /\ prio = NoPlayer
    /\ chain = <<>>
    /\ fresh = Items
    /\ prompt = FALSE
    /\ txs = <<>>
    /\ autoPass = {}
    /\ gone = {}
    /\ terminated = FALSE
    /\ savedPrio = NoPlayer
    /\ heard = {}
    /\ settled = {}
    /\ applied = {}

SubmitSome == turns # 0 /\ \E tx \in Intents : Submit(tx)

Host ==
    \/ HandleTransaction
    \/ \E p \in Servers : ServerPass(p) \/ ServerPlay(p)
    \/ AutoPassInternal
    \/ Checkpoint

\* The host's loops tick at most 16, 64 or 256 times, so the next request may
\* attach its checkpoint between any two ticks.
AttachSome == \E c \in SyncClients : Attach(c)

Next == Begin \/ SubmitSome \/ Tick \/ Host \/ AttachSome

Spec == Init /\ [][Next]_vars

\* Whoever is asked answers in the end, a host keeps ticking a session that
\* can progress, a card asks its client finitely many questions, and a turn
\* has finitely many extra combats.
SubmitKind(k, p) ==
    \E tx \in Intents : tx.kind = k /\ tx.player = p /\ Submit(tx) /\ txs' # txs

Fairness ==
    /\ WF_vars(Begin)
    /\ WF_vars(Tick)
    /\ SF_vars(TickResolves)
    /\ SF_vars(TickAdvance /\ phase' = "EndPhase")
    /\ \A p \in Players \ Servers : SF_vars(SubmitKind("pass", p))
    /\ SF_vars(prompt /\ \E p \in Players : SubmitKind("answer", p))
    /\ \A p \in Servers : WF_vars(ServerPass(p))

FairSpec == Spec /\ Fairness

---------------------------------------------------------------------------
(* Type invariant. *)

TypeOK ==
    /\ phase \in Phases
    /\ active \in Players
    /\ turns \in Nat
    /\ acts \in Seq(Actions)
    /\ prio \in Players \union {NoPlayer}
    /\ chain \in Seq(Items)
    /\ fresh \subseteq Items
    /\ prompt \in BOOLEAN
    /\ txs \in Seq(Transactions)
    /\ autoPass \subseteq Players
    /\ gone \subseteq Players
    /\ terminated \in BOOLEAN
    /\ savedPrio \in Players \union {NoPlayer}
    /\ heard \subseteq Players
    /\ settled \subseteq Items \union {NoItem}
    /\ applied \subseteq Items

---------------------------------------------------------------------------
(* Safety. *)

\* Whatever the branch facts, the phase a state selects is one that
\* require_legal_transition permits: no tick raises.
NextIsLegal == Successors[phase] \subseteq Permits[phase]

Resolves(k, i) == IsResolve(acts[k]) /\ acts[k].item = i

\* Every pending item has exactly one resolver on the action stack, and the
\* resolvers of pending items stand in the order of the chain.  Otherwise a
\* resolver reaches the top while its item is not the chain's top,
\* resolve_top_of_chain reports COMPLETED and the item is a ghost.
ChainOwned ==
    /\ \A n \in DOMAIN chain : \E k \in DOMAIN acts : Resolves(k, chain[n])
    /\ \A m, n \in DOMAIN chain : \A k, l \in DOMAIN acts :
          Resolves(k, chain[m]) /\ Resolves(l, chain[n]) => (m <= n <=> k <= l)

\* A queued item takes effect exactly once: it is pending, and stays pending
\* once only, until the one resolution that takes it off the chain.
EffectOnce ==
    /\ IsInjective(chain)
    /\ fresh \intersect ToSet(chain) = {}
    /\ applied \intersect (fresh \union ToSet(chain)) = {}
    /\ fresh \union ToSet(chain) \union applied = Items

\* No phase is left, and no turn handed over, while an item is pending.
PhaseKeepsChain == [][<<phase, turns>>' # <<phase, turns>> => chain = <<>>]_<<phase, turns, chain>>

\* An item leaves the chain only after a round in which everyone its window
\* owes a response declined while the item was the chain's top, with nothing
\* queued or resolved during the round.
EveryoneAnswersStep == ToSet(chain) \ ToSet(chain') \subseteq settled \union Chainless

\* A phase whose state asks all players is left only after such a round in
\* that phase, on an empty chain.
PhaseAnsweredStep ==
    phase' # phase /\ PriorityPlayers[phase] = "All" => NoItem \in settled
PhaseAnswered == [][PhaseAnsweredStep]_<<phase, settled>>

\* Both, with the last-in-first-out order of resolution: what the scheduler
\* implements.
Promise == INSTANCE ResponseChain WITH unused <- fresh
KeepsPromise == Promise!Spec

\* The mirror every intent is validated against names the player the entered
\* window asks.
MirrorAgrees ==
    TopWindow /\ Top(acts).cur => prio = FirstAsked(Top(acts).queue)

\* The response window of an item asks the players queue_projected_chain chose
\* for it, also when ensure_projected_chain_action has rebuilt the window.
WindowPolicy ==
    \A k \in DOMAIN acts :
        IsWindow(acts[k]) /\ acts[k].item # NoItem => acts[k].who = ItemPolicy(acts[k].item)

\* A phase window that asks all players asks them in turn order from the
\* active player, whatever interrupted it: its queue is the end of that order.
ApnapOrder ==
    \A k \in DOMAIN acts :
        IsWindow(acts[k]) /\ acts[k].item = NoItem /\ acts[k].who = "All"
        => IsSuffix(acts[k].queue, OrderFrom(active))

\* A pass takes effect only in the phase it was made in: the phase is checked
\* when the intent is submitted, the pass happens when it is consumed.
PassInItsPhaseStep ==
    /\ txs # <<>>
    /\ txs' = Tail(txs)
    /\ Head(txs).kind = "pass"
    /\ heard' # heard
    => Head(txs).issued = phase

---------------------------------------------------------------------------
(* Liveness, under FairSpec. *)

\* Every queued item leaves the chain, unless the battle ends.
ChainDrains ==
    \A i \in Items : i \in ToSet(chain) ~> (i \notin ToSet(chain) \/ terminated)

\* The battle gets to the end of its last turn.
TurnsPass == <>(terminated \/ (phase = "EndTurn" /\ turns = MaxTurns))
=============================================================================
