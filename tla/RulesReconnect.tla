--------------------------- MODULE RulesReconnect ---------------------------
(***************************************************************************)
(* A rules session that dies and is rebuilt from its checkpoint.           *)
(*                                                                         *)
(* One database row holds the battle state and, under the key rules_port,  *)
(* the snapshot persist() last wrote.  The phase, the turn and the seats   *)
(* are persisted by every call that changes them, so a restart finds them  *)
(* as they were; action objects are deliberately not in the snapshot: the  *)
(* new session gets a window for the current phase (sync_checkpoint) and   *)
(* then a resolver and a window for each chain item the row still names    *)
(* (rehydrate_projected_chain).  The row names an item twice: in the       *)
(* battle state's stack, which a resolution updates when it saves its      *)
(* effects, and in the snapshot, which it updates when it is over.         *)
(*                                                                         *)
(* Left out: the passes a PvP checkpoint remembers, and restarts inside a  *)
(* phase transition.                                                       *)
(***************************************************************************)
EXTENDS RulesScheduler

CONSTANTS
    Clients,      \* the practice client a rebuilt session is attached for
    MaxRestarts   \* bound on the restarts

ASSUME RestartsAssumption == Clients \subseteq Players /\ MaxRestarts \in Nat

VARIABLES
    savedChain,  \* projected_chain in the snapshot persist() last wrote
    restarts,    \* how often the session was rebuilt
    nominee      \* history: whom an item's response window was built to ask first

reconnectVars == <<vars, savedChain, restarts, nominee>>

---------------------------------------------------------------------------
(* The live session, and what its calls persist. *)

\* handle_transaction persists an intent whose handler succeeded.
KeptIf(q, asked) ==
    savedChain' = IF txs # <<>> /\ Handles(Head(txs), q, asked)
                  THEN chain' ELSE savedChain

PersistingCall ==
    \/ Begin
    \/ TickAdvance
    \/ TickResolves
    \/ Checkpoint
    \/ \E p \in Servers : ServerPlay(p)

UnsavedCall ==
    \/ SubmitSome
    \/ TickStateBased
    \/ TickWindowOver
    \/ TickStaleResolver
    \/ AutoPassInternal
    \/ \E p \in Servers : ServerPass(p)

ConsumingCall ==
    \/ TickPrompt /\ KeptIf(Queues, TRUE)
    \/ TickWindowWaits /\ KeptIf(EnteredQueues(Queues), FALSE)
    \/ TickPauses /\ KeptIf(EnteredQueues(Queues), TRUE)
    \/ HandleTransaction /\ KeptIf(Queues, prompt)
    \/ AttachSome /\ savedChain' = IF Orphaned THEN chain' ELSE savedChain

\* The player at the head of a new item's window.
FirstOf(s, i) ==
    LET w == CHOOSE k \in DOMAIN s : IsWindow(s[k]) /\ s[k].item = i
    IN  FirstAsked(s[w].queue)

Live ==
    /\ \/ PersistingCall /\ savedChain' = chain'
       \/ UnsavedCall /\ UNCHANGED savedChain
       \/ ConsumingCall
    /\ nominee' = [i \in Items |->
                     IF i \in ToSet(chain') \ ToSet(chain)
                     THEN FirstOf(acts', i) ELSE nominee[i]]
    /\ UNCHANGED restarts

---------------------------------------------------------------------------
(* The restart. *)

\* Mutant: the newest item comes first.
DurableReversed(stack) == Reverse(stack)

\* _durable_chain_descriptors: the checkpoint's stack, then what only the
\* snapshot still names.
Durable(stack) == stack \o SelectSeq(savedChain, LAMBDA i : i \notin ToSet(stack))

\* PvP reads the snapshot alone, and of it the last descriptor.
Pending(stack) ==
    IF ~Pvp THEN Durable(stack)
    ELSE IF savedChain = <<>> THEN <<>> ELSE <<Last(savedChain)>>

\* An item put back asks the player the stack's mirror names first.
Requeued(q, i) ==
    WithItem(q, i, IF q.prio = NoPlayer THEN active ELSE q.prio, active)

\* sync_checkpoint on the empty stack, for the practice client or for the
\* player the PvP checkpoint gives priority to.
PhaseReopened(q) ==
    IF ~Pvp THEN UNION {Reconciliations(q, c) : c \in Clients}
    ELSE IF savedPrio = NoPlayer THEN {q} ELSE Reconciliations(q, savedPrio)

\* The session rebuilt from a row whose battle state names the items of stack,
\* after the process that held the queues q died.
Rebuild(q, stack) ==
    LET bare == [q EXCEPT !.acts = <<>>, !.chain = <<>>, !.prio = savedPrio,
                          !.heard = {}]
    IN  \E r \in PhaseReopened(bare) : Become(FoldLeft(Requeued, r, Pending(stack)))

Restarts ==
    /\ turns # 0
    /\ ~terminated
    /\ restarts < MaxRestarts
    /\ restarts' = restarts + 1
    /\ txs' = <<>>
    /\ UNCHANGED <<gameVars, prompt, seatVars, nominee>>

\* A PvP host persists what it has rebuilt.
AfterRestart ==
    IF Pvp THEN savedChain' = chain' /\ savedPrio' = prio'
    ELSE UNCHANGED <<savedChain, savedPrio>>

\* The client reconnects or the server restarts between two calls.
Restart ==
    /\ Restarts
    /\ Rebuild(Queues, chain)
    /\ AfterRestart

\* resolve_chain_item has saved its effects, with the item off the battle
\* state's stack, and the process dies before the session persists.
RestartInResolution ==
    /\ Restarts
    /\ Ticks /\ ~prompt
    /\ TopResolver
    /\ Top(acts).item = ChainTop
    /\ \E q \in Hooked(EnteredQueues(Queues), active) :
          Rebuild([q EXCEPT !.applied = @ \union {ChainTop}], Without(q.chain, ChainTop))
    /\ AfterRestart

---------------------------------------------------------------------------

ReconnectInit ==
    /\ Init
    /\ savedChain = <<>>
    /\ restarts = 0
    /\ nominee = [i \in Items |-> NoPlayer]

ReconnectNext == Live \/ Restart

\* Restarts between calls.
ReconnectSpec == ReconnectInit /\ [][ReconnectNext]_reconnectVars

---------------------------------------------------------------------------
(* Properties. *)

=============================================================================
