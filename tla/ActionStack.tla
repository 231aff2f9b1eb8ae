---------------------------- MODULE ActionStack ----------------------------
(***************************************************************************)
(* The scheduler kernel's action stack (rules_port/kernel.py and           *)
(* rules_port/actions.py) as operators on a sequence of action records, the *)
(* last element being the top.  Two kinds of action take part: a priority  *)
(* window, which asks players one by one, and the resolver of one chain    *)
(* item.  A record carries was_interrupted as "hit" and                    *)
(* GameActionStack.current_action as the flag "cur": the identity of the   *)
(* action the last update entered, which stays with the action when the    *)
(* stack shifts under it and leaves with it when it is popped.             *)
(***************************************************************************)
EXTENDS SequencesExt, TurnPhases

CONSTANTS
    PlayerIds,   \* session.player_ids, the seats in turn order
    NoPlayer,    \* Python's None where a participant is expected
    Items,       \* chain items that can be queued during the run
    NoItem       \* a window that responds to no chain item

Players == ToSet(PlayerIds)

ASSUME SeatsAssumption ==
    /\ PlayerIds \in Seq(Players)
    /\ Len(PlayerIds) >= 2
    /\ \A j, k \in DOMAIN PlayerIds :
            PlayerIds[j] = PlayerIds[k] => j = k

ASSUME NoneAssumption ==
    /\ NoPlayer \notin Players
    /\ NoItem \notin Items

\* A window may respond to no item; a resolver has one.
Actions ==
    {a \in [kind : {"window", "resolve"}, who : Policies,
            item : Items \union {NoItem}, queue : Seq(Players),
            hit : BOOLEAN, cur : BOOLEAN] :
        a.kind = "resolve" => a.item # NoItem}

IsWindow(a) == a.kind = "window"
IsResolve(a) == a.kind = "resolve"
Top(s) == s[Len(s)]
Pop(s) == SubSeq(s, 1, Len(s) - 1)

\* list.remove / Chain.detach_ability on a list without duplicates.
Without(s, e) ==
    IF \E k \in DOMAIN s : s[k] = e
    THEN LET k == CHOOSE j \in DOMAIN s : s[j] = e
         IN  SubSeq(s, 1, k - 1) \o SubSeq(s, k + 1, Len(s))
    ELSE s

---------------------------------------------------------------------------
(* Turn order and priority order. *)

\* session._participant_index.
Seat(p) == CHOOSE j \in DOMAIN PlayerIds : PlayerIds[j] = p

\* The seats from p on, round the table: player_ids_in_turn_order for the
\* active player, player_ids_in_priority_order for the one with priority.
OrderFrom(p) ==
    SubSeq(PlayerIds, Seat(p), Len(PlayerIds))
        \o SubSeq(PlayerIds, 1, Seat(p) - 1)

\* The player EndTurn hands the turn to.
NextSeat(p) ==
    IF Seat(p) = Len(PlayerIds) THEN PlayerIds[1] ELSE PlayerIds[Seat(p) + 1]

\* The queue reset_priority_window builds for a policy: turn order when the
\* window restarts with the active player or nobody has priority, else round
\* from the player the stack's mirror names.
WindowQueue(who, withActive, prio, active) ==
    CASE who = "All" -> IF withActive \/ prio = NoPlayer
                        THEN OrderFrom(active) ELSE OrderFrom(prio)
      [] who = "Active" -> <<active>>
      [] who = "Defending" -> Without(PlayerIds, active)
      [] OTHER -> <<>>

\* PriorityWindowAction.priority_player_id: the head of the queue or None.
FirstAsked(queue) == IF queue = <<>> THEN NoPlayer ELSE Head(queue)

---------------------------------------------------------------------------
(* Stack operations. *)

WindowAction(who, item, queue) ==
    [kind |-> "window", who |-> who, item |-> item, queue |-> queue,
     hit |-> FALSE, cur |-> FALSE]

ResolveAction(item) ==
    [kind |-> "resolve", who |-> "None", item |-> item, queue |-> <<>>,
     hit |-> FALSE, cur |-> FALSE]

\* GameActionStack.push of an action that is not a PushOntoChainAction, on a
\* stack that holds none: the old top is told that it was interrupted.
Push(s, a) ==
    IF s = <<>> THEN <<a>>
    ELSE Append([s EXCEPT ![Len(s)].hit = TRUE], a)

\* push_behind puts the action under everything and interrupts nobody.
PushBehind(s, a) == <<a>> \o s

\* The first half of GameActionStack.update: the top becomes current_action
\* and, unless it already was, its on_enter runs.  Only a window that was
\* interrupted does anything there: it asks everyone again, the active
\* player first, and takes the mirror with it.
MarkCurrent(s) ==
    [k \in DOMAIN s |-> [s[k] EXCEPT !.cur = (k = Len(s))]]

Reopens(s) == ~Top(s).cur /\ IsWindow(Top(s)) /\ Top(s).hit

\* Mutant: the mirror stays where it was.
EnteredWithoutMirror(s, prio, active) == prio

EnteredStack(s, prio, active) ==
    IF Top(s).cur THEN s
    ELSE IF Reopens(s)
    THEN [MarkCurrent(s) EXCEPT
            ![Len(s)].queue = WindowQueue(Top(s).who, TRUE, prio, active)]
    ELSE MarkCurrent(s)

EnteredPriority(s, prio, active) ==
    IF Reopens(s)
    THEN FirstAsked(WindowQueue(Top(s).who, TRUE, prio, active))
    ELSE prio

\* Mutant: the last player asked is not waited for.
WindowOverEarly(w, chainTop, quick) ==
    \/ w.item # NoItem /\ chainTop # w.item
    \/ chainTop \in quick
    \/ Len(w.queue) <= 1

\* PriorityWindowAction.update: the window is over when the item it answers
\* is no longer the chain's top, when that top takes no responses, or when
\* everybody it asked has passed.
WindowOver(w, chainTop, quick) ==
    \/ w.item # NoItem /\ chainTop # w.item
    \/ chainTop \in quick
    \/ w.queue = <<>>

\* PriorityWindowAction.pass_priority's test, on whatever is on top.  Its last
\* condition, a hand too large at Discard, never holds: the session's
\* hand_larger_than_maximum returns False.
CouldPass(s, p) ==
    /\ s # <<>>
    /\ IsWindow(Top(s))
    /\ FirstAsked(Top(s).queue) = p
    /\ p \in Players

Passed(s) == [s EXCEPT ![Len(s)].queue = Tail(@)]
=============================================================================
