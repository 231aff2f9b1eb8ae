------------------------ MODULE RulesSchedulerProofs ------------------------
(***************************************************************************)
(* Theorems about RulesScheduler for every value of its constants: type    *)
(* correctness, and that a queued item takes effect exactly once; for a    *)
(* session no host attaches a checkpoint to, that every pending item has   *)
(* its resolver on the action stack and that no phase ends over one; and,  *)
(* when the host's stop policies also leave nobody out, that the scheduler *)
(* implements ResponseChain.                                               *)
(*                                                                         *)
(* The calls compute the action stack, its mirror and the chain as one     *)
(* record, so the facts below are about that record.  Good, the invariant  *)
(* of the first theorems, says that its items are each in one place and    *)
(* have their resolvers; Rounds, which the refinement adds, says where the *)
(* windows stand and that whoever a window will not ask any more has       *)
(* declined.                                                               *)
(***************************************************************************)
EXTENDS RulesScheduler, TLAPS, SequenceTheorems

---------------------------------------------------------------------------
(* Phases and policies. *)

LEMMA PermitsType == \A p \in Phases : Permits[p] \subseteq Phases
BY DEF Permits, PermitsBeforeEnd, Phases

\* What a phase state selects is permitted by the graph, whatever it is told.
\* Where a state names no successor, any permitted one stands for it, and each
\* phase permits one.
LEMMA NextPhaseIsLegal ==
    \A f : \A p \in Phases : NextPhase(p, f) \in Permits[p]
<1> SUFFICES ASSUME NEW p \in Phases, NEW f
             PROVE  NextPhase(p, f) \in Permits[p]
  OBVIOUS
<1> DEFINE Chosen == CHOOSE q \in PermitsBeforeEnd[p] : TRUE
<1>1. Chosen \in PermitsBeforeEnd[p]
  <2>1. \E q : q \in PermitsBeforeEnd[p]
    BY DEF PermitsBeforeEnd, Phases
  <2> QED
    BY <2>1
<1> HIDE DEF Chosen
<1>2. NextPhase(p, f) \in PermitsBeforeEnd[p]
  <2>1. CASE p \in {"PreGame", "PickGoesFirst", "Mulligan", "Prep", "FirstMainPhase",
                    "DeclareCombatPriorityWindow", "DeclareAttack",
                    "DeclareAttackPriorityWindow", "DeclareDefensePriorityWindow",
                    "FirstStrikePriorityWindow", "SecondMainPhase", "EndTurn"}
    BY <2>1 DEF NextPhase, PermitsBeforeEnd, Phases
  <2>2. CASE p \notin {"PreGame", "PickGoesFirst", "Mulligan", "Prep", "FirstMainPhase",
                    "DeclareCombatPriorityWindow", "DeclareAttack",
                    "DeclareAttackPriorityWindow", "DeclareDefensePriorityWindow",
                    "FirstStrikePriorityWindow", "SecondMainPhase", "EndTurn"}
    <3>1. NextPhase(p, f) = Chosen
      BY <2>2 DEF NextPhase, Chosen
    <3> QED
      BY <1>1, <3>1
  <2> QED
    BY <2>1, <2>2
<1> QED
  BY <1>2 DEF Permits

LEMMA PriorityPlayersType == \A p \in Phases : PriorityPlayers[p] \in Policies
BY DEF PriorityPlayers, AllPlayerPhases, Phases, Policies

---------------------------------------------------------------------------
(* Sequences and seats. *)

LEMMA WithoutType ==
    ASSUME NEW S, NEW s \in Seq(S), NEW e
    PROVE  Without(s, e) \in Seq(S)
<1>1. CASE ~\E k \in DOMAIN s : s[k] = e
  BY <1>1 DEF Without
<1>2. CASE \E k \in DOMAIN s : s[k] = e
  <2> DEFINE k == CHOOSE j \in DOMAIN s : s[j] = e
  <2>1. k \in 1 .. Len(s)
    BY <1>2
  <2> HIDE DEF k
  <2>2. SubSeq(s, 1, k - 1) \in Seq(S) /\ SubSeq(s, k + 1, Len(s)) \in Seq(S)
    BY <2>1
  <2>3. Without(s, e) = SubSeq(s, 1, k - 1) \o SubSeq(s, k + 1, Len(s))
    BY <1>2 DEF Without, k
  <2> QED
    BY <2>2, <2>3
<1> QED
  BY <1>1, <1>2

LEMMA SeatType ==
    \A p \in Players : Seat(p) \in DOMAIN PlayerIds /\ PlayerIds[Seat(p)] = p
BY SeatsAssumption DEF Seat, Players, ToSet

LEMMA OrderFromType == \A p \in Players : OrderFrom(p) \in Seq(Players)
<1> SUFFICES ASSUME NEW p \in Players PROVE OrderFrom(p) \in Seq(Players)
  OBVIOUS
<1>1. Seat(p) \in 1 .. Len(PlayerIds)
  BY SeatType, SeatsAssumption
<1>2. SubSeq(PlayerIds, Seat(p), Len(PlayerIds)) \in Seq(Players)
  BY <1>1, SeatsAssumption
<1>3. SubSeq(PlayerIds, 1, Seat(p) - 1) \in Seq(Players)
  BY <1>1, SeatsAssumption
<1> QED
  BY <1>2, <1>3 DEF OrderFrom

LEMMA NextSeatType == \A p \in Players : NextSeat(p) \in Players
<1> SUFFICES ASSUME NEW p \in Players PROVE NextSeat(p) \in Players
  OBVIOUS
<1>1. Seat(p) \in 1 .. Len(PlayerIds)
  BY SeatType, SeatsAssumption
<1> QED
  BY <1>1, SeatsAssumption DEF NextSeat

\* Somebody else is always left to answer.
LEMMA OtherSeat ==
    \A p \in Players : FirstAsked(Without(PlayerIds, p)) \in Players
<1> SUFFICES ASSUME NEW p \in Players
             PROVE  FirstAsked(Without(PlayerIds, p)) \in Players
  OBVIOUS
<1> DEFINE k == CHOOSE j \in DOMAIN PlayerIds : PlayerIds[j] = p
<1>1. k \in 1 .. Len(PlayerIds) /\ \E j \in DOMAIN PlayerIds : PlayerIds[j] = p
  BY SeatType, SeatsAssumption
<1>2. Without(PlayerIds, p)
        = SubSeq(PlayerIds, 1, k - 1) \o SubSeq(PlayerIds, k + 1, Len(PlayerIds))
  BY <1>1 DEF Without
<1> HIDE DEF k
<1>3. Without(PlayerIds, p) \in Seq(Players)
  BY WithoutType, SeatsAssumption
<1>4. Len(Without(PlayerIds, p)) = Len(PlayerIds) - 1
  <2> DEFINE u == SubSeq(PlayerIds, 1, k - 1)
             v == SubSeq(PlayerIds, k + 1, Len(PlayerIds))
  <2>1. u \in Seq(Players) /\ Len(u) = k - 1
    BY <1>1, SeatsAssumption
  <2>2. v \in Seq(Players) /\ Len(v) = Len(PlayerIds) - k
    BY <1>1, SeatsAssumption
  <2>3. Without(PlayerIds, p) = u \o v
    BY <1>2
  <2>4. Len(PlayerIds) \in Nat /\ k \in Nat
    BY <1>1, SeatsAssumption
  <2> HIDE DEF u, v
  <2>5. Len(u \o v) = Len(u) + Len(v)
    BY <2>1, <2>2
  <2> QED
    BY <2>1, <2>2, <2>3, <2>4, <2>5
<1> QED
  BY <1>3, <1>4, SeatsAssumption DEF FirstAsked

LEMMA FirstAskedType ==
    \A queue \in Seq(Players) : FirstAsked(queue) \in Players \union {NoPlayer}
BY DEF FirstAsked

LEMMA WindowQueueType ==
    ASSUME NEW who, NEW withActive \in BOOLEAN,
           NEW pr \in Players \union {NoPlayer}, NEW player \in Players
    PROVE  WindowQueue(who, withActive, pr, player) \in Seq(Players)
<1>1. OrderFrom(player) \in Seq(Players)
  BY OrderFromType
<1>2. pr # NoPlayer => OrderFrom(pr) \in Seq(Players)
  BY OrderFromType
<1>3. Without(PlayerIds, player) \in Seq(Players)
  BY WithoutType, SeatsAssumption
<1> QED
  BY <1>1, <1>2, <1>3 DEF WindowQueue

---------------------------------------------------------------------------
(* The action stack. *)

LEMMA ReplacedType ==
    ASSUME NEW S, NEW s \in Seq(S), s # <<>>, NEW a \in S
    PROVE  /\ [s EXCEPT ![Len(s)] = a] \in Seq(S)
           /\ Len([s EXCEPT ![Len(s)] = a]) = Len(s)
<1>1. Len(s) \in 1 .. Len(s)
  OBVIOUS
<1> QED
  BY <1>1, ExceptSeq

LEMMA PopType ==
    ASSUME NEW s \in Seq(Actions), s # <<>>
    PROVE  Pop(s) \in Seq(Actions)
BY DEF Pop

LEMMA TopType ==
    ASSUME NEW s \in Seq(Actions), s # <<>>
    PROVE  /\ Len(s) \in DOMAIN s /\ Top(s) = s[Len(s)]
           /\ Top(s) \in Actions
BY DEF Top

LEMMA WindowActionType ==
    ASSUME NEW who \in Policies, NEW i \in Items \union {NoItem},
           NEW queue \in Seq(Players)
    PROVE  WindowAction(who, i, queue) \in Actions
BY DEF WindowAction, Actions

LEMMA ResolveActionType ==
    ASSUME NEW i \in Items PROVE ResolveAction(i) \in Actions
BY EmptySeq, NoneAssumption DEF ResolveAction, Actions, Policies

LEMMA PushType ==
    ASSUME NEW s \in Seq(Actions), NEW a \in Actions
    PROVE  Push(s, a) \in Seq(Actions)
<1>1. CASE s = <<>>
  BY <1>1 DEF Push
<1>2. CASE s # <<>>
  <2>1. [s[Len(s)] EXCEPT !.hit = TRUE] \in Actions
    BY <1>2, TopType DEF Actions
  <2>2. [s EXCEPT ![Len(s)] = [s[Len(s)] EXCEPT !.hit = TRUE]] \in Seq(Actions)
    BY <1>2, <2>1, ReplacedType
  <2>3. Push(s, a)
          = Append([s EXCEPT ![Len(s)] = [s[Len(s)] EXCEPT !.hit = TRUE]], a)
    BY <1>2 DEF Push
  <2> QED
    BY <2>2, <2>3
<1> QED
  BY <1>1, <1>2

LEMMA MarkCurrentType ==
    ASSUME NEW s \in Seq(Actions)
    PROVE  /\ MarkCurrent(s) \in Seq(Actions)
           /\ Len(MarkCurrent(s)) = Len(s)
<1>1. ASSUME NEW k \in DOMAIN s
      PROVE  [s[k] EXCEPT !.cur = (k = Len(s))] \in Actions
  <2>1. s[k] \in Actions /\ (k = Len(s)) \in BOOLEAN
    OBVIOUS
  <2> DEFINE a == s[k]  b == (k = Len(s))
  <2> HIDE DEF a, b
  <2>2. a \in Actions /\ b \in BOOLEAN => [a EXCEPT !.cur = b] \in Actions
    BY DEF Actions
  <2> QED
    BY <2>1, <2>2 DEF a, b
<1>2. MarkCurrent(s) \in [1 .. Len(s) -> Actions]
  BY <1>1 DEF MarkCurrent
<1> QED
  BY <1>2

\* A window's queue, and nothing else, replaced.
LEMMA QueueReplacedType ==
    ASSUME NEW s \in Seq(Actions), s # <<>>, NEW queue \in Seq(Players)
    PROVE  [s EXCEPT ![Len(s)].queue = queue] \in Seq(Actions)
<1>1. [s[Len(s)] EXCEPT !.queue = queue] \in Actions
  BY TopType DEF Actions
<1> QED
  BY <1>1, ReplacedType

LEMMA EnteredStackType ==
    ASSUME NEW s \in Seq(Actions), s # <<>>,
           NEW pr \in Players \union {NoPlayer}, NEW player \in Players
    PROVE  EnteredStack(s, pr, player) \in Seq(Actions)
<1> DEFINE m == MarkCurrent(s)
           queue == WindowQueue(Top(s).who, TRUE, pr, player)
<1>1. m \in Seq(Actions) /\ Len(m) = Len(s)
  BY MarkCurrentType
<1>2. queue \in Seq(Players)
  BY WindowQueueType
<1>3. m # <<>>
  BY <1>1
<1> HIDE DEF m, queue
<1>4. [m EXCEPT ![Len(s)].queue = queue] \in Seq(Actions)
  BY <1>1, <1>2, <1>3, QueueReplacedType
<1> QED
  BY <1>1, <1>4 DEF EnteredStack, m, queue

\* Entering the top action moves no action and changes what none is about.
LEMMA EnteredStackKeeps ==
    ASSUME NEW s \in Seq(Actions), s # <<>>, NEW pr, NEW player
    PROVE  /\ DOMAIN EnteredStack(s, pr, player) = DOMAIN s
           /\ \A k \in DOMAIN s :
                /\ EnteredStack(s, pr, player)[k].kind = s[k].kind
                /\ EnteredStack(s, pr, player)[k].item = s[k].item
<1> DEFINE m == MarkCurrent(s)
           queue == WindowQueue(Top(s).who, TRUE, pr, player)
           f == [m EXCEPT ![Len(s)] = [m[Len(s)] EXCEPT !.queue = queue]]
<1>1. /\ DOMAIN m = DOMAIN s
      /\ \A k \in DOMAIN s :
            m[k] \in Actions /\ m[k].kind = s[k].kind /\ m[k].item = s[k].item
  <2>1. DOMAIN m = DOMAIN s
    BY DEF MarkCurrent
  <2>2. ASSUME NEW k \in DOMAIN s
        PROVE  m[k].kind = s[k].kind /\ m[k].item = s[k].item
    <3>1. s[k] \in Actions
      OBVIOUS
    <3> DEFINE a == s[k]  b == (k = Len(s))
    <3>2. m[k] = [a EXCEPT !.cur = b]
      BY DEF MarkCurrent
    <3> HIDE DEF a, b
    <3>3. a \in Actions
      BY <3>1 DEF a
    <3>4. [a EXCEPT !.cur = b].kind = a.kind /\ [a EXCEPT !.cur = b].item = a.item
      BY <3>3 DEF Actions
    <3> QED
      BY <3>2, <3>4 DEF a
  <2> QED
    BY <2>1, <2>2, MarkCurrentType
<1> HIDE DEF m, queue
<1>2. /\ DOMAIN f = DOMAIN m
      /\ \A k \in DOMAIN m : f[k].kind = m[k].kind /\ f[k].item = m[k].item
  BY <1>1 DEF Actions
<1>3. EnteredStack(s, pr, player) \in {s, m, f}
  BY DEF EnteredStack, m, queue
<1> QED
  BY <1>1, <1>2, <1>3

LEMMA EnteredPriorityType ==
    ASSUME NEW s, NEW pr \in Players \union {NoPlayer}, NEW player \in Players
    PROVE  EnteredPriority(s, pr, player) \in Players \union {NoPlayer}
BY WindowQueueType, FirstAskedType DEF EnteredPriority

LEMMA PassedType ==
    ASSUME NEW s \in Seq(Actions), s # <<>>, Top(s).queue # <<>>
    PROVE  /\ Tail(Top(s).queue) \in Seq(Players)
           /\ Passed(s) \in Seq(Actions)
<1>1. Top(s).queue \in Seq(Players)
  BY TopType DEF Actions
<1>2. Tail(Top(s).queue) \in Seq(Players)
  BY <1>1, HeadTailProperties
<1>3. Passed(s) = [s EXCEPT ![Len(s)].queue = Tail(Top(s).queue)]
  BY DEF Passed, Top
<1> QED
  BY <1>2, <1>3, QueueReplacedType

---------------------------------------------------------------------------
(* Where the actions of a stack are after an operation: Same says that two *)
(* actions are of one kind and about one item.                             *)

Same(a, b) == a.kind = b.kind /\ a.item = b.item

LEMMA PushKeeps ==
    ASSUME NEW s \in Seq(Actions), NEW a \in Actions
    PROVE  /\ Len(Push(s, a)) = Len(s) + 1
           /\ Push(s, a)[Len(s) + 1] = a
           /\ \A k \in DOMAIN s : Same(Push(s, a)[k], s[k])
<1>1. CASE s = <<>>
  BY <1>1 DEF Push
<1>2. CASE s # <<>>
  <2> DEFINE top == [s[Len(s)] EXCEPT !.hit = TRUE]
             f == [s EXCEPT ![Len(s)] = top]
  <2>1. top \in Actions /\ Same(top, s[Len(s)])
    BY <1>2, TopType DEF Actions, Same
  <2> HIDE DEF top
  <2>2. f \in Seq(Actions) /\ Len(f) = Len(s)
    BY <1>2, <2>1, ReplacedType
  <2>3. \A k \in DOMAIN s : Same(f[k], s[k])
    BY <2>1 DEF Same
  <2>4. Push(s, a) = Append(f, a)
    BY <1>2 DEF Push, top
  <2> HIDE DEF f
  <2> QED
    BY <2>2, <2>3, <2>4
<1> QED
  BY <1>1, <1>2

LEMMA PopKeeps ==
    ASSUME NEW s \in Seq(Actions), s # <<>>
    PROVE  /\ Len(Pop(s)) = Len(s) - 1
           /\ \A k \in 1 .. Len(s) - 1 : Pop(s)[k] = s[k]
<1>1. Len(s) \in Nat \ {0} /\ \A k \in 1 .. Len(s) - 1 : s[k] \in Actions
  OBVIOUS
<1>2. /\ Len(SubSeq(s, 1, Len(s) - 1)) = IF 1 <= Len(s) - 1 THEN Len(s) - 1 - 1 + 1 ELSE 0
      /\ \A k \in 1 .. (Len(s) - 1) - 1 + 1 : SubSeq(s, 1, Len(s) - 1)[k] = s[1 + k - 1]
  BY <1>1, SubSeqProperties
<1>3. \A k \in 1 .. Len(s) - 1 : 1 + k - 1 = k
  OBVIOUS
<1>4. Len(s) - 1 = (Len(s) - 1) - 1 + 1
  BY <1>1
<1> QED
  BY <1>1, <1>2, <1>3, <1>4 DEF Pop

LEMMA PushBehindKeeps ==
    ASSUME NEW s \in Seq(Actions), NEW a \in Actions
    PROVE  /\ PushBehind(s, a) \in Seq(Actions)
           /\ Len(PushBehind(s, a)) = Len(s) + 1
           /\ PushBehind(s, a)[1] = a
           /\ \A k \in DOMAIN s : PushBehind(s, a)[k + 1] = s[k]
<1>1. <<a>> \in Seq(Actions) /\ Len(<<a>>) = 1 /\ <<a>>[1] = a
  OBVIOUS
<1> QED
  BY <1>1, ConcatProperties DEF PushBehind

LEMMA QueueReplacedKeeps ==
    ASSUME NEW s \in Seq(Actions), s # <<>>, NEW queue
    PROVE  /\ DOMAIN [s EXCEPT ![Len(s)].queue = queue] = DOMAIN s
           /\ \A k \in DOMAIN s : Same([s EXCEPT ![Len(s)].queue = queue][k], s[k])
<1>1. Same([s[Len(s)] EXCEPT !.queue = queue], s[Len(s)])
  BY TopType DEF Actions, Same
<1> QED
  BY <1>1 DEF Same

\* Taking an element out of a sequence that holds it once shifts the rest.
LEMMA WithoutKeeps ==
    ASSUME NEW S, NEW s \in Seq(S), NEW p \in DOMAIN s, IsInjective(s)
    PROVE  /\ Without(s, s[p]) \in Seq(S)
           /\ Len(Without(s, s[p])) = Len(s) - 1
           /\ \A n \in 1 .. Len(s) - 1 :
                 Without(s, s[p])[n] = IF n < p THEN s[n] ELSE s[n + 1]
<1>1. (CHOOSE j \in DOMAIN s : s[j] = s[p]) = p
  BY DEF IsInjective
<1> DEFINE u == SubSeq(s, 1, p - 1)
           v == SubSeq(s, p + 1, Len(s))
<1>2. Without(s, s[p]) = u \o v
  BY <1>1 DEF Without
<1>3. u \in Seq(S) /\ Len(u) = p - 1 /\ \A n \in 1 .. p - 1 : u[n] = s[n]
  OBVIOUS
<1>4. /\ v \in Seq(S) /\ Len(v) = Len(s) - p
      /\ \A n \in 1 .. Len(s) - p : v[n] = s[p + n]
  OBVIOUS
<1> HIDE DEF u, v
<1>5. /\ u \o v \in Seq(S) /\ Len(u \o v) = Len(u) + Len(v)
      /\ \A n \in 1 .. Len(u) + Len(v) :
            (u \o v)[n] = IF n <= Len(u) THEN u[n] ELSE v[n - Len(u)]
  BY <1>3, <1>4, ConcatProperties
<1> QED
  BY <1>2, <1>3, <1>4, <1>5

---------------------------------------------------------------------------
(* The records of the queues. *)

QueueRecords ==
    [acts : Seq(Actions), prio : Players \union {NoPlayer}, chain : Seq(Items),
     fresh : SUBSET Items, heard : SUBSET Players,
     settled : SUBSET (Items \union {NoItem}), applied : SUBSET Items]

LEMMA QueuesType == TypeOK => Queues \in QueueRecords
BY DEF TypeOK, Queues, QueueRecords

\* What Become needs of a record to keep the queue part of TypeOK.
QueueTypeOK ==
    /\ acts \in Seq(Actions)
    /\ prio \in Players \union {NoPlayer}
    /\ chain \in Seq(Items)
    /\ fresh \subseteq Items
    /\ heard \subseteq Players
    /\ settled \subseteq Items \union {NoItem}
    /\ applied \subseteq Items

LEMMA TopOfType == \A c \in Seq(Items) : TopOf(c) \in Items \union {NoItem}
BY DEF TopOf, Last

LEMMA BecomeType ==
    ASSUME NEW q \in QueueRecords, Become(q)
    PROVE  QueueTypeOK'
<1>1. TopOf(q.chain) \in Items \union {NoItem}
  BY TopOfType DEF QueueRecords
<1>2. settled' \subseteq Items \union {NoItem}
  BY <1>1 DEF Become, QueueRecords
<1> QED
  BY <1>2 DEF Become, QueueRecords, QueueTypeOK

LEMMA ItemPolicyType == \A i : ItemPolicy(i) \in Policies
BY DEF ItemPolicy, Policies

LEMMA ResponseQueueType ==
    ASSUME NEW who, NEW first \in Players,
           NEW prev \in Players \union {NoPlayer}, NEW player \in Players
    PROVE  ResponseQueue(who, first, prev, player) \in Seq(Players)
<1>1. WindowQueue(who, FALSE, prev, player) \in Seq(Players)
  BY WindowQueueType
<1>2. Without(WindowQueue(who, FALSE, prev, player), first) \in Seq(Players)
  BY <1>1, WithoutType
<1>3. <<first>> \in Seq(Players)
  OBVIOUS
<1>4. Promote(WindowQueue(who, FALSE, prev, player), first) \in Seq(Players)
  BY <1>2, <1>3, ConcatProperties DEF Promote
<1> QED
  BY <1>3, <1>4 DEF ResponseQueue

LEMMA WithItemType ==
    ASSUME NEW q \in QueueRecords, NEW i \in Items, NEW first \in Players,
           NEW player \in Players
    PROVE  WithItem(q, i, first, player) \in QueueRecords
<1> DEFINE queue == ResponseQueue(ItemPolicy(i), first, first, player)
<1>1. queue \in Seq(Players)
  BY ResponseQueueType
<1>2. WindowAction(ItemPolicy(i), i, queue) \in Actions
  BY <1>1, ItemPolicyType, WindowActionType
<1>3. Push(q.acts, ResolveAction(i)) \in Seq(Actions)
  BY ResolveActionType, PushType DEF QueueRecords
<1>4. QueuedOn(q.acts, i, first, player) \in Seq(Actions)
  BY <1>2, <1>3, PushType DEF QueuedOn
<1> QED
  BY <1>4 DEF WithItem, QueueRecords

LEMMA HookNomineesType ==
    ASSUME NEW i, NEW player \in Players
    PROVE  HookNominees(i, player) \subseteq Players
BY DEF HookNominees

LEMMA NomineeType == \A p \in Players, i \in Items : Nominee(p, i) \in Players
BY OtherSeat DEF Nominee

LEMMA FoundType ==
    ASSUME NEW q \in QueueRecords, NEW items, NEW player \in Players
    PROVE  Found(q, items, player) \subseteq QueueRecords
<1> SUFFICES ASSUME NEW i \in items \intersect q.fresh,
                    NEW first \in HookNominees(i, player)
             PROVE  WithItem(q, i, first, player) \in QueueRecords
  BY DEF Found
<1> QED
  BY WithItemType, HookNomineesType DEF QueueRecords

LEMMA HookedType ==
    ASSUME NEW q \in QueueRecords, NEW player \in Players
    PROVE  Hooked(q, player) \subseteq QueueRecords
BY FoundType DEF Hooked

LEMMA EnteredType ==
    ASSUME NEW q \in QueueRecords, NEW p, NEW who \in Policies,
           NEW player \in Players
    PROVE  Entered(q, p, who, player) \in QueueRecords
<1> DEFINE plain == WindowQueue(PriorityPlayers[p], FALSE, q.prio, player)
           first == FirstAsked(plain)
           queue == IF who = PriorityPlayers[p]
                    THEN WindowQueue(who, FALSE, q.prio, player)
                    ELSE WindowQueue(who, FALSE, first, player)
           a == WindowAction(who, NoItem, queue)
<1>1. first \in Players \union {NoPlayer}
  BY WindowQueueType, FirstAskedType DEF QueueRecords
<1>2. queue \in Seq(Players)
  BY <1>1, WindowQueueType DEF QueueRecords
<1>3. FirstAsked(queue) \in Players \union {NoPlayer}
  BY <1>2, FirstAskedType
<1>4. a \in Actions
  BY <1>2, WindowActionType
<1>5. Entered(q, p, who, player)
        = [q EXCEPT !.acts = PushBehind(@, a), !.prio = FirstAsked(queue),
                    !.heard = {}, !.settled = @ \ {NoItem}]
  BY DEF Entered
<1> HIDE DEF a, queue
<1>6. PushBehind(q.acts, a) \in Seq(Actions)
  BY <1>4 DEF PushBehind, QueueRecords
<1> QED
  BY <1>3, <1>5, <1>6 DEF QueueRecords

LEMMA EntriesType ==
    ASSUME TypeOK, NEW p \in Phases, NEW player \in Players
    PROVE  Entries(p, player) \subseteq QueueRecords
<1>1. Queues \in QueueRecords
  BY QueuesType
<1>2. {Queues} \union Found(Queues, EntryItems, player) \subseteq QueueRecords
  BY <1>1, FoundType
<1>3. {PriorityPlayers[p]} \union StopPolicies \subseteq Policies
  BY PriorityPlayersType, HostAssumption
<1> QED
  BY <1>2, <1>3, EnteredType DEF Entries

LEMMA TransitionsType ==
    ASSUME TypeOK, NEW p \in Phases, NEW player \in Players
    PROVE  Transitions(p, player) \subseteq QueueRecords
BY EntriesType, HookedType DEF Transitions

LEMMA ReconciledType == TypeOK => Reconciled \in QueueRecords
<1> SUFFICES ASSUME TypeOK PROVE Reconciled \in QueueRecords
  OBVIOUS
<1>1. CASE ~Reconciles
  BY <1>1, QueuesType DEF Reconciled
<1>2. CASE Reconciles
  <2> DEFINE queue == IF Top(acts).who = "Active" /\ savedPrio # active
                      THEN <<savedPrio>> ELSE Promote(Top(acts).queue, savedPrio)
  <2>1. savedPrio \in Players /\ acts \in Seq(Actions) /\ acts # <<>>
    BY <1>2 DEF Reconciles, TypeOK
  <2>2. Top(acts).queue \in Seq(Players)
    BY <2>1, TopType DEF Actions
  <2>3. Without(Top(acts).queue, savedPrio) \in Seq(Players)
    BY <2>2, WithoutType
  <2>4. queue \in Seq(Players)
    BY <2>1, <2>3 DEF Promote
  <2>5. Reconciled = [Queues EXCEPT !.prio = savedPrio,
                                    !.acts = [acts EXCEPT ![Len(acts)].queue = queue]]
    BY <1>2 DEF Reconciled, Queues
  <2> HIDE DEF queue
  <2>6. [acts EXCEPT ![Len(acts)].queue = queue] \in Seq(Actions)
    BY <2>1, <2>4, QueueReplacedType
  <2> QED
    BY <2>1, <2>5, <2>6, QueuesType DEF QueueRecords
<1> QED
  BY <1>1, <1>2

LEMMA AfterPassType ==
    ASSUME NEW q \in QueueRecords, NEW p, CanPass(q, p)
    PROVE  p \in Players /\ AfterPass(q, p) \in QueueRecords
<1>1. q.acts \in Seq(Actions) /\ q.acts # <<>> /\ p \in Players
  BY DEF CanPass, CouldPass, QueueRecords
<1>2. Top(q.acts).queue # <<>>
  BY NoneAssumption DEF CanPass, CouldPass, FirstAsked
<1>3. /\ Tail(Top(q.acts).queue) \in Seq(Players)
      /\ Passed(q.acts) \in Seq(Actions)
  BY <1>1, <1>2, PassedType
<1>4. FirstAsked(Tail(Top(q.acts).queue)) \in Players \union {NoPlayer}
  BY <1>3, FirstAskedType
<1> QED
  BY <1>1, <1>3, <1>4 DEF AfterPass, QueueRecords

LEMMA EnteredQueuesType ==
    ASSUME NEW q \in QueueRecords, q.acts # <<>>, active \in Players
    PROVE  EnteredQueues(q) \in QueueRecords
<1>1. EnteredStack(q.acts, q.prio, active) \in Seq(Actions)
  BY EnteredStackType DEF QueueRecords
<1>2. EnteredPriority(q.acts, q.prio, active) \in Players \union {NoPlayer}
  BY EnteredPriorityType DEF QueueRecords
<1> QED
  BY <1>1, <1>2 DEF EnteredQueues, QueueRecords

LEMMA PopQueuesType ==
    ASSUME NEW q \in QueueRecords, q.acts # <<>>
    PROVE  [q EXCEPT !.acts = Pop(@)] \in QueueRecords
<1>1. Pop(q.acts) \in Seq(Actions)
  BY PopType DEF QueueRecords
<1> QED
  BY <1>1 DEF QueueRecords

\* A resolution leaves typed queues, whatever it triggered.
LEMMA ResolvedType ==
    ASSUME NEW q \in QueueRecords, q.acts # <<>>, NEW i \in Items
    PROVE  Resolved(q, i) \in QueueRecords
<1>1. Without(q.chain, i) \in Seq(Items)
  BY WithoutType DEF QueueRecords
<1>2. Pop(q.acts) \in Seq(Actions)
  BY PopType DEF QueueRecords
<1> QED
  BY <1>1, <1>2 DEF Resolved, QueueRecords

LEMMA HookedStack ==
    ASSUME NEW q \in QueueRecords, q.acts # <<>>, NEW player \in Players,
           NEW r \in Hooked(q, player)
    PROVE  r.acts # <<>>
<1>1. CASE r = q
  BY <1>1
<1>2. CASE r \in Found(q, HookItems, player)
  <2>1. PICK i \in HookItems \intersect q.fresh :
          \E first \in HookNominees(i, player) : r = WithItem(q, i, first, player)
    BY <1>2 DEF Found
  <2>a. PICK first \in HookNominees(i, player) : r = WithItem(q, i, first, player)
    BY <2>1
  <2> DEFINE below == Push(q.acts, ResolveAction(i))
             a == WindowAction(ItemPolicy(i), i,
                               ResponseQueue(ItemPolicy(i), first, first, player))
  <2>2. below \in Seq(Actions)
    BY PushType, ResolveActionType DEF QueueRecords
  <2>3. r.acts = Push(below, a)
    BY <2>a DEF WithItem, QueuedOn
  <2> HIDE DEF below, a
  <2>4. below # <<>> => [below EXCEPT ![Len(below)].hit = TRUE] \in Seq(Actions)
    <3> SUFFICES ASSUME below # <<>>
                 PROVE  [below EXCEPT ![Len(below)].hit = TRUE] \in Seq(Actions)
      OBVIOUS
    <3>1. [below[Len(below)] EXCEPT !.hit = TRUE] \in Actions
      BY <2>2, TopType DEF Actions
    <3> QED
      BY <2>2, <3>1, ReplacedType
  <2> QED
    BY <2>2, <2>3, <2>4 DEF Push
<1> QED
  BY <1>1, <1>2 DEF Hooked

LEMMA DrainedType ==
    ASSUME TypeOK, acts # <<>>, NEW r \in Drained(Queues)
    PROVE  r \in QueueRecords
<1> DEFINE asked == Top(acts).queue
           passed == [Queues EXCEPT
                        !.acts = [acts EXCEPT ![Len(acts)].queue = <<>>],
                        !.prio = IF asked = <<>> THEN @ ELSE NoPlayer,
                        !.heard = @ \union ToSet(asked)]
<1>1. asked \in Seq(Players) /\ ToSet(asked) \subseteq Players
  <2>1. Top(acts) \in Actions
    BY TopType DEF TypeOK
  <2>2. asked \in Seq(Players)
    BY <2>1 DEF Actions
  <2> HIDE DEF asked
  <2> QED
    BY <2>2 DEF ToSet
<1>2. [acts EXCEPT ![Len(acts)].queue = <<>>] \in Seq(Actions)
  BY QueueReplacedType, EmptySeq DEF TypeOK
<1>3. passed \in QueueRecords
  BY <1>1, <1>2, QueuesType DEF Queues, QueueRecords
<1>4. Found(passed, HookItems, active) \subseteq QueueRecords
  BY <1>3, FoundType DEF TypeOK
<1>5. \A f \in QueueRecords : [f EXCEPT !.prio = NoPlayer] \in QueueRecords
  BY DEF QueueRecords
<1>6. \/ r = passed
      \/ r \in Found(passed, HookItems, active)
      \/ \E f \in Found(passed, HookItems, active) : r = [f EXCEPT !.prio = NoPlayer]
  BY DEF Drained, Queues
<1> QED
  BY <1>3, <1>4, <1>5, <1>6

---------------------------------------------------------------------------
(* The inductive invariant, about one record.  Once is EffectOnce; Owned is *)
(* ChainOwned and what it takes to keep it, that no resolver waits for an   *)
(* item which may still be queued.  Attaching a checkpoint may rebuild the  *)
(* stack for the chain's top item alone, so Owned holds of the sessions no  *)
(* host attaches one to.                                                    *)

OnceIn(q) ==
    /\ IsInjective(q.chain)
    /\ q.fresh \intersect ToSet(q.chain) = {}
    /\ q.applied \intersect (q.fresh \union ToSet(q.chain)) = {}
    /\ q.fresh \union ToSet(q.chain) \union q.applied = Items

IsResolverOf(a, i) == IsResolve(a) /\ a.item = i

OwnedIn(q) ==
    /\ \A n \in DOMAIN q.chain : \E k \in DOMAIN q.acts :
          IsResolverOf(q.acts[k], q.chain[n])
    /\ \A m, n \in DOMAIN q.chain : \A k, l \in DOMAIN q.acts :
          IsResolverOf(q.acts[k], q.chain[m]) /\ IsResolverOf(q.acts[l], q.chain[n])
          => (m <= n <=> k <= l)
    /\ \A k \in DOMAIN q.acts :
          IsResolve(q.acts[k]) => q.acts[k].item \notin q.fresh

GoodQueues ==
    {q \in QueueRecords : OnceIn(q) /\ (SyncClients = {} => OwnedIn(q))}

\* Operations that move no action and queue or resolve nothing.
LEMMA SameOwners ==
    ASSUME NEW q \in GoodQueues, NEW r \in QueueRecords,
           r.chain = q.chain, r.fresh = q.fresh, r.applied = q.applied,
           DOMAIN r.acts = DOMAIN q.acts,
           \A k \in DOMAIN q.acts : Same(r.acts[k], q.acts[k])
    PROVE  r \in GoodQueues
<1>1. OnceIn(r)
  BY DEF OnceIn, GoodQueues
<1>2. \A k \in DOMAIN q.acts : \A i :
        /\ IsResolve(r.acts[k]) <=> IsResolve(q.acts[k])
        /\ IsResolverOf(r.acts[k], i) <=> IsResolverOf(q.acts[k], i)
  BY DEF Same, IsResolve, IsResolverOf
<1>3. ASSUME OwnedIn(q) PROVE OwnedIn(r)
  <2>1. \A n \in DOMAIN r.chain : \E k \in DOMAIN r.acts :
          IsResolverOf(r.acts[k], r.chain[n])
    BY <1>2, <1>3 DEF OwnedIn
  <2>2. ASSUME NEW m \in DOMAIN r.chain, NEW n \in DOMAIN r.chain,
               NEW k \in DOMAIN r.acts, NEW l \in DOMAIN r.acts,
               IsResolverOf(r.acts[k], r.chain[m]), IsResolverOf(r.acts[l], r.chain[n])
        PROVE  m <= n <=> k <= l
    <3>1. /\ k \in DOMAIN q.acts /\ IsResolverOf(q.acts[k], q.chain[m])
          /\ l \in DOMAIN q.acts /\ IsResolverOf(q.acts[l], q.chain[n])
      BY <1>2, <2>2
    <3> QED
      BY <1>3, <3>1 DEF OwnedIn
  <2>3. \A k \in DOMAIN r.acts :
          IsResolve(r.acts[k]) => r.acts[k].item \notin r.fresh
    BY <1>2, <1>3 DEF OwnedIn, Same
  <2> QED
    BY <2>1, <2>2, <2>3 DEF OwnedIn
<1> QED
  BY <1>1, <1>3 DEF GoodQueues

\* Taking the top action off, when it is a window or nothing on the chain is
\* what it resolves.
LEMMA GoodPop ==
    ASSUME NEW q \in GoodQueues, q.acts # <<>>,
           IsResolve(Top(q.acts)) => Top(q.acts).item \notin ToSet(q.chain)
    PROVE  [q EXCEPT !.acts = Pop(@)] \in GoodQueues
<1> DEFINE r == [q EXCEPT !.acts = Pop(@)]
           s == q.acts
<1>1. q \in QueueRecords /\ s \in Seq(Actions) /\ s # <<>>
  BY DEF GoodQueues, QueueRecords
<1>2. /\ r \in QueueRecords /\ r.acts = Pop(s) /\ r.chain = q.chain
      /\ r.fresh = q.fresh /\ r.applied = q.applied
  BY <1>1, PopQueuesType DEF QueueRecords
<1>3. OnceIn(r)
  BY <1>2 DEF OnceIn, GoodQueues
<1>4. /\ DOMAIN s = 1 .. Len(s) /\ Len(s) \in Nat \ {0}
      /\ DOMAIN Pop(s) = 1 .. Len(s) - 1
      /\ \A k \in 1 .. Len(s) - 1 : Pop(s)[k] = s[k]
  BY <1>1, PopKeeps, PopType
<1>5. ASSUME OwnedIn(q) PROVE OwnedIn(r)
  <2>1. ASSUME NEW n \in DOMAIN q.chain
        PROVE  \E k \in DOMAIN r.acts : IsResolverOf(r.acts[k], r.chain[n])
    <3>1. PICK k \in DOMAIN s : IsResolverOf(s[k], q.chain[n])
      BY <1>5 DEF OwnedIn
    <3>2. q.chain[n] \in ToSet(q.chain)
      BY DEF ToSet
    <3>3. k # Len(s)
      BY <3>1, <3>2 DEF IsResolverOf, Top
    <3>4. k \in 1 .. Len(s) - 1
      BY <1>4, <3>3
    <3> QED
      BY <1>2, <1>4, <3>1, <3>4
  <2>2. \A k \in DOMAIN r.acts : k \in DOMAIN s /\ r.acts[k] = s[k]
    BY <1>2, <1>4
  <2> HIDE DEF r, s
  <2> QED
    BY <1>2, <1>5, <2>1, <2>2 DEF OwnedIn, s
<1> QED
  BY <1>2, <1>3, <1>5 DEF GoodQueues

\* A phase's window goes under everything.
LEMMA GoodPushBehind ==
    ASSUME NEW q \in GoodQueues, NEW r \in QueueRecords,
           NEW a \in Actions, IsWindow(a),
           r.acts = PushBehind(q.acts, a),
           r.chain = q.chain, r.fresh = q.fresh, r.applied = q.applied
    PROVE  r \in GoodQueues
<1> DEFINE s == q.acts
<1>1. s \in Seq(Actions) /\ r.acts = PushBehind(s, a)
  BY DEF GoodQueues, QueueRecords
<1>2. OnceIn(r)
  BY DEF OnceIn, GoodQueues
<1> HIDE DEF s
<1>a. DOMAIN s = 1 .. Len(s) /\ Len(s) \in Nat
  BY <1>1
<1> DEFINE f == PushBehind(s, a)
<1>b. /\ f \in Seq(Actions) /\ Len(f) = Len(s) + 1 /\ f[1] = a
      /\ \A k \in DOMAIN s : f[k + 1] = s[k]
  <2>1. s \in Seq(Actions)
    BY <1>1
  <2> QED
    BY <2>1, PushBehindKeeps
<1>3. /\ DOMAIN s = 1 .. Len(s) /\ Len(s) \in Nat
      /\ DOMAIN r.acts = 1 .. Len(s) + 1
      /\ r.acts[1] = a
      /\ \A k \in DOMAIN s : r.acts[k + 1] = s[k]
  BY <1>1, <1>a, <1>b
<1>4. \A i : ~IsResolverOf(r.acts[1], i)
  BY <1>3 DEF IsResolverOf, IsResolve, IsWindow
<1>5. \A k \in DOMAIN r.acts \ {1} :
        k - 1 \in DOMAIN s /\ r.acts[k] = s[k - 1]
  BY <1>3
<1>6. ASSUME OwnedIn(q) PROVE OwnedIn(r)
  <2>1. \A n \in DOMAIN r.chain : \E k \in DOMAIN r.acts :
          IsResolverOf(r.acts[k], r.chain[n])
    <3> SUFFICES ASSUME NEW n \in DOMAIN q.chain
                 PROVE  \E k \in DOMAIN r.acts : IsResolverOf(r.acts[k], q.chain[n])
      OBVIOUS
    <3>1. PICK k \in DOMAIN s : IsResolverOf(s[k], q.chain[n])
      BY <1>6 DEF OwnedIn, s
    <3>2. k + 1 \in DOMAIN r.acts /\ r.acts[k + 1] = s[k]
      BY <1>3
    <3> QED
      BY <3>1, <3>2
  <2>2. ASSUME NEW m \in DOMAIN r.chain, NEW n \in DOMAIN r.chain,
               NEW k \in DOMAIN r.acts, NEW l \in DOMAIN r.acts,
               IsResolverOf(r.acts[k], r.chain[m]), IsResolverOf(r.acts[l], r.chain[n])
        PROVE  m <= n <=> k <= l
    <3>1. /\ k - 1 \in DOMAIN s /\ IsResolverOf(s[k - 1], q.chain[m])
          /\ l - 1 \in DOMAIN s /\ IsResolverOf(s[l - 1], q.chain[n])
      BY <1>4, <1>5, <2>2
    <3>2. m <= n <=> k - 1 <= l - 1
      BY <1>6, <3>1 DEF OwnedIn, s
    <3> QED
      BY <1>3, <3>2
  <2>3. \A k \in DOMAIN r.acts :
          IsResolve(r.acts[k]) => r.acts[k].item \notin r.fresh
    BY <1>4, <1>5, <1>6 DEF OwnedIn, IsResolverOf, s
  <2> QED
    BY <2>1, <2>2, <2>3 DEF OwnedIn
<1> QED
  BY <1>2, <1>6 DEF GoodQueues

LEMMA OnceWithItem ==
    ASSUME NEW q \in QueueRecords, OnceIn(q), NEW i \in q.fresh,
           NEW r \in QueueRecords, r.chain = Append(q.chain, i),
           r.fresh = q.fresh \ {i}, r.applied = q.applied
    PROVE  OnceIn(r)
<1> DEFINE c == q.chain
<1>1. c \in Seq(Items) /\ i \in Items
  BY DEF QueueRecords
<1>2. \A n \in DOMAIN c : c[n] # i
  BY DEF OnceIn, ToSet
<1> HIDE DEF c
<1>3. /\ DOMAIN Append(c, i) = 1 .. Len(c) + 1 /\ DOMAIN c = 1 .. Len(c)
      /\ Append(c, i)[Len(c) + 1] = i
      /\ \A n \in DOMAIN c : Append(c, i)[n] = c[n]
  BY <1>1
<1>4. ToSet(r.chain) = ToSet(q.chain) \union {i}
  <2>1. ToSet(Append(c, i)) = ToSet(c) \union {i}
    BY <1>1, <1>3 DEF ToSet
  <2> QED
    BY <2>1 DEF c
<1>5. IsInjective(r.chain)
  <2>1. IsInjective(c)
    BY DEF OnceIn, c
  <2>2. IsInjective(Append(c, i))
    BY <1>1, <1>2, <1>3, <2>1 DEF IsInjective
  <2> QED
    BY <2>2 DEF c
<1> QED
  BY <1>4, <1>5 DEF OnceIn

LEMMA OwnedWithItem ==
    ASSUME NEW q \in QueueRecords, OwnedIn(q), OnceIn(q), NEW i \in q.fresh,
           NEW w \in Actions, IsWindow(w),
           NEW r \in QueueRecords, r.chain = Append(q.chain, i),
           r.fresh = q.fresh \ {i},
           r.acts = Push(Push(q.acts, ResolveAction(i)), w)
    PROVE  OwnedIn(r)
<1> DEFINE s == q.acts
           c == q.chain
           g == Push(s, ResolveAction(i))
<1>1. /\ s \in Seq(Actions) /\ c \in Seq(Items) /\ i \in Items
      /\ ResolveAction(i) \in Actions
  BY ResolveActionType DEF QueueRecords
<1>2. g \in Seq(Actions)
  BY <1>1, PushType
<1>3. /\ Len(g) = Len(s) + 1
      /\ IsResolverOf(g[Len(s) + 1], i)
      /\ \A k \in DOMAIN s : Same(g[k], s[k])
  <2>1. /\ Len(g) = Len(s) + 1
        /\ g[Len(s) + 1] = ResolveAction(i)
        /\ \A k \in DOMAIN s : Same(g[k], s[k])
    BY <1>1, PushKeeps
  <2>2. IsResolverOf(ResolveAction(i), i)
    BY DEF IsResolverOf, IsResolve, ResolveAction
  <2> QED
    BY <2>1, <2>2
<1>4. r.acts = Push(g, w)
  OBVIOUS
<1> HIDE DEF g
<1>5. /\ r.acts \in Seq(Actions)
      /\ Len(r.acts) = Len(g) + 1
      /\ r.acts[Len(g) + 1] = w
      /\ \A k \in DOMAIN g : Same(r.acts[k], g[k])
  BY <1>2, <1>4, PushKeeps DEF QueueRecords
<1> HIDE DEF s, c
<1>6. /\ Len(s) \in Nat /\ DOMAIN s = 1 .. Len(s)
      /\ DOMAIN g = 1 .. Len(s) + 1 /\ DOMAIN r.acts = 1 .. Len(s) + 2
  BY <1>1, <1>2, <1>3, <1>5
<1>7. /\ Len(c) \in Nat /\ DOMAIN c = 1 .. Len(c)
      /\ DOMAIN r.chain = 1 .. Len(c) + 1
      /\ r.chain[Len(c) + 1] = i
      /\ \A n \in DOMAIN c : r.chain[n] = c[n]
  BY <1>1 DEF c
<1>8. \A n \in DOMAIN c : c[n] # i /\ c[n] \notin q.fresh
  BY DEF OnceIn, ToSet, c
<1>9. \A k \in DOMAIN s : Same(r.acts[k], s[k])
  BY <1>3, <1>5, <1>6 DEF Same
<1>10. IsResolverOf(r.acts[Len(s) + 1], i)
  BY <1>3, <1>5, <1>6 DEF Same, IsResolverOf, IsResolve
<1>11. ~IsResolve(r.acts[Len(s) + 2])
  BY <1>3, <1>5 DEF IsWindow, IsResolve
<1>12. \A k \in DOMAIN s : IsResolve(r.acts[k]) =>
          r.acts[k].item = s[k].item /\ IsResolve(s[k]) /\ r.acts[k].item \notin q.fresh
  BY <1>9 DEF OwnedIn, s, Same, IsResolve
\* A resolver of r is one of q or the new one.
<1>13. \A k \in DOMAIN r.acts : k \in DOMAIN s \/ k = Len(s) + 1 \/ k = Len(s) + 2
  BY <1>6
<1>14. ASSUME NEW n \in DOMAIN r.chain
       PROVE  \E k \in DOMAIN r.acts : IsResolverOf(r.acts[k], r.chain[n])
  <2>1. CASE n = Len(c) + 1
    BY <1>6, <1>7, <1>10, <2>1
  <2>2. CASE n \in DOMAIN c
    <3>1. PICK k \in DOMAIN s : IsResolverOf(s[k], c[n])
      BY <2>2 DEF OwnedIn, s, c
    <3>2. IsResolverOf(r.acts[k], r.chain[n]) /\ k \in DOMAIN r.acts
      BY <1>6, <1>7, <1>9, <2>2, <3>1 DEF Same, IsResolverOf, IsResolve
    <3> QED
      BY <3>2
  <2> QED
    BY <1>7, <2>1, <2>2
<1>15. ASSUME NEW m \in DOMAIN r.chain, NEW n \in DOMAIN r.chain,
              NEW k \in DOMAIN r.acts, NEW l \in DOMAIN r.acts,
              IsResolverOf(r.acts[k], r.chain[m]), IsResolverOf(r.acts[l], r.chain[n])
       PROVE  m <= n <=> k <= l
  <2>1. /\ k \in DOMAIN s \/ k = Len(s) + 1
        /\ l \in DOMAIN s \/ l = Len(s) + 1
    BY <1>11, <1>13, <1>15 DEF IsResolverOf
  <2>2. \A j \in DOMAIN s : ~IsResolverOf(r.acts[j], i)
    BY <1>12 DEF IsResolverOf
  <2>3. ASSUME NEW j \in DOMAIN s, NEW o \in DOMAIN r.chain,
               IsResolverOf(r.acts[j], r.chain[o])
        PROVE  o \in DOMAIN c /\ IsResolverOf(s[j], c[o])
    <3>1. o # Len(c) + 1
      BY <1>7, <2>2, <2>3
    <3>2. o \in DOMAIN c
      BY <1>7, <3>1
    <3> QED
      BY <1>7, <1>12, <2>3, <3>2 DEF IsResolverOf
  <2>4. \A o \in DOMAIN r.chain :
          IsResolverOf(r.acts[Len(s) + 1], r.chain[o]) => o = Len(c) + 1
    BY <1>7, <1>8, <1>10 DEF IsResolverOf
  <2>5. CASE k \in DOMAIN s /\ l \in DOMAIN s
    <3>1. /\ m \in DOMAIN c /\ IsResolverOf(s[k], c[m])
          /\ n \in DOMAIN c /\ IsResolverOf(s[l], c[n])
      BY <1>15, <2>3, <2>5
    <3> QED
      BY <2>5, <3>1 DEF OwnedIn, s, c
  <2>6. CASE k \in DOMAIN s /\ l = Len(s) + 1
    <3>1. m \in DOMAIN c /\ n = Len(c) + 1
      BY <1>15, <2>3, <2>4, <2>6
    <3> QED
      BY <1>6, <1>7, <2>6, <3>1
  <2>7. CASE k = Len(s) + 1 /\ l \in DOMAIN s
    <3>1. m = Len(c) + 1 /\ n \in DOMAIN c
      BY <1>15, <2>3, <2>4, <2>7
    <3> QED
      BY <1>6, <1>7, <2>7, <3>1
  <2>8. CASE k = Len(s) + 1 /\ l = Len(s) + 1
    <3>1. m = Len(c) + 1 /\ n = Len(c) + 1
      BY <1>15, <2>4, <2>8
    <3> QED
      BY <1>6, <1>7, <2>8, <3>1
  <2> QED
    BY <2>1, <2>5, <2>6, <2>7, <2>8
<1>16. ASSUME NEW k \in DOMAIN r.acts, IsResolve(r.acts[k])
       PROVE  r.acts[k].item \notin r.fresh
  BY <1>10, <1>11, <1>12, <1>13, <1>16 DEF IsResolverOf
<1> QED
  BY <1>14, <1>15, <1>16 DEF OwnedIn

\* The top action queueing leaves is the response window.
LEMMA GoodWithItem ==
    ASSUME NEW q \in GoodQueues, NEW i \in q.fresh, NEW first \in Players,
           NEW player \in Players
    PROVE  /\ WithItem(q, i, first, player) \in GoodQueues
           /\ WithItem(q, i, first, player).acts # <<>>
           /\ IsWindow(Top(WithItem(q, i, first, player).acts))
<1> DEFINE r == WithItem(q, i, first, player)
           queue == ResponseQueue(ItemPolicy(i), first, first, player)
           w == WindowAction(ItemPolicy(i), i, queue)
           g == Push(q.acts, ResolveAction(i))
<1>1. q \in QueueRecords /\ i \in Items /\ OnceIn(q)
  BY DEF GoodQueues, QueueRecords
<1>2. r \in QueueRecords
  BY <1>1, WithItemType
<1>3. /\ r.chain = Append(q.chain, i) /\ r.fresh = q.fresh \ {i}
      /\ r.applied = q.applied /\ r.acts = Push(g, w)
  BY DEF WithItem, QueuedOn
<1>4. w \in Actions /\ IsWindow(w)
  <2>1. queue \in Seq(Players)
    BY ResponseQueueType
  <2>2. w \in Actions
    BY <1>1, <2>1, ItemPolicyType, WindowActionType
  <2> QED
    BY <2>2 DEF IsWindow, WindowAction
<1>5. g \in Seq(Actions)
  BY <1>1, ResolveActionType, PushType DEF QueueRecords
<1> HIDE DEF r, w
<1>6. OnceIn(r)
  BY <1>1, <1>2, <1>3, OnceWithItem
<1>7. SyncClients = {} => OwnedIn(r)
  BY <1>1, <1>2, <1>3, <1>4, OwnedWithItem DEF GoodQueues
<1> HIDE DEF g
<1>8. r.acts # <<>> /\ Top(r.acts) = w
  <2>1. /\ Push(g, w) \in Seq(Actions)
        /\ Len(Push(g, w)) = Len(g) + 1
        /\ Push(g, w)[Len(g) + 1] = w
    BY <1>4, <1>5, PushKeeps, PushType
  <2>2. r.acts = Push(g, w) /\ Len(g) \in Nat
    BY <1>3, <1>5
  <2> QED
    BY <2>1, <2>2 DEF Top
<1> QED
  BY <1>2, <1>4, <1>6, <1>7, <1>8 DEF GoodQueues, r

LEMMA GoodIsTyped == GoodQueues \subseteq QueueRecords
BY DEF GoodQueues

LEMMA GoodFound ==
    ASSUME NEW q \in GoodQueues, NEW items, NEW player \in Players,
           NEW r \in Found(q, items, player)
    PROVE  r \in GoodQueues /\ r.acts # <<>> /\ IsWindow(Top(r.acts))
<1>1. PICK i \in items \intersect q.fresh :
        \E first \in HookNominees(i, player) : r = WithItem(q, i, first, player)
  BY DEF Found
<1>2. PICK first \in HookNominees(i, player) : r = WithItem(q, i, first, player)
  BY <1>1
<1>3. first \in Players
  BY HookNomineesType
<1> QED
  BY <1>2, <1>3, GoodWithItem

LEMMA GoodHooked ==
    ASSUME NEW q \in GoodQueues, NEW player \in Players,
           NEW r \in Hooked(q, player)
    PROVE  r \in GoodQueues /\ (r = q \/ (r.acts # <<>> /\ IsWindow(Top(r.acts))))
<1>1. r = q \/ r \in Found(q, HookItems, player)
  BY DEF Hooked
<1>2. CASE r = q
  BY <1>2
<1>3. CASE r \in Found(q, HookItems, player)
  BY <1>3, GoodFound
<1> QED
  BY <1>1, <1>2, <1>3

LEMMA GoodEntered ==
    ASSUME NEW q \in GoodQueues, NEW p, NEW who \in Policies,
           NEW player \in Players
    PROVE  Entered(q, p, who, player) \in GoodQueues
<1> DEFINE first == FirstAsked(WindowQueue(PriorityPlayers[p], FALSE, q.prio, player))
           queue == IF who = PriorityPlayers[p]
                    THEN WindowQueue(who, FALSE, q.prio, player)
                    ELSE WindowQueue(who, FALSE, first, player)
           a == WindowAction(who, NoItem, queue)
           r == Entered(q, p, who, player)
<1>1. q \in QueueRecords
  BY GoodIsTyped
<1>2. first \in Players \union {NoPlayer}
  BY <1>1, WindowQueueType, FirstAskedType DEF QueueRecords
<1>3. queue \in Seq(Players)
  BY <1>1, <1>2, WindowQueueType DEF QueueRecords
<1>4. a \in Actions /\ IsWindow(a)
  BY <1>3, WindowActionType DEF IsWindow, WindowAction
<1>5. r \in QueueRecords
  BY <1>1, EnteredType
<1>6. /\ r.acts = PushBehind(q.acts, a) /\ r.chain = q.chain
      /\ r.fresh = q.fresh /\ r.applied = q.applied
  BY <1>1 DEF Entered, QueueRecords
<1> HIDE DEF a, r
<1>7. r \in GoodQueues
  BY <1>4, <1>5, <1>6, GoodPushBehind
<1> QED
  BY <1>7 DEF r

LEMMA GoodEntries ==
    ASSUME Queues \in GoodQueues, NEW p \in Phases, NEW player \in Players
    PROVE  Entries(p, player) \subseteq GoodQueues
<1>1. {Queues} \union Found(Queues, EntryItems, player) \subseteq GoodQueues
  BY GoodFound
<1>2. {PriorityPlayers[p]} \union StopPolicies \subseteq Policies
  BY PriorityPlayersType, HostAssumption
<1> QED
  BY <1>1, <1>2, GoodEntered DEF Entries

LEMMA GoodTransitions ==
    ASSUME Queues \in GoodQueues, NEW p \in Phases, NEW player \in Players
    PROVE  Transitions(p, player) \subseteq GoodQueues
BY GoodEntries, GoodHooked DEF Transitions

LEMMA GoodReconciled ==
    ASSUME TypeOK, Queues \in GoodQueues PROVE Reconciled \in GoodQueues
<1>1. CASE ~Reconciles
  BY <1>1 DEF Reconciled
<1>2. CASE Reconciles
  <2> DEFINE queue == IF Top(acts).who = "Active" /\ savedPrio # active
                      THEN <<savedPrio>> ELSE Promote(Top(acts).queue, savedPrio)
             r == [Queues EXCEPT !.prio = savedPrio,
                                 !.acts = [acts EXCEPT ![Len(acts)].queue = queue]]
  <2>1. acts \in Seq(Actions) /\ acts # <<>>
    BY <1>2 DEF Reconciles, TypeOK
  <2>2. Reconciled = r
    BY <1>2 DEF Reconciled, Queues
  <2>3. r \in QueueRecords
    BY <2>2, ReconciledType
  <2>4. /\ DOMAIN [acts EXCEPT ![Len(acts)].queue = queue] = DOMAIN acts
        /\ \A k \in DOMAIN acts :
              Same([acts EXCEPT ![Len(acts)].queue = queue][k], acts[k])
    BY <2>1, QueueReplacedKeeps
  <2>5. /\ r.chain = Queues.chain /\ r.fresh = Queues.fresh
        /\ r.applied = Queues.applied /\ Queues.acts = acts
        /\ r.acts = [acts EXCEPT ![Len(acts)].queue = queue]
    BY DEF Queues
  <2> HIDE DEF r, queue
  <2> QED
    BY <2>2, <2>3, <2>4, <2>5, SameOwners
<1> QED
  BY <1>1, <1>2

LEMMA GoodAfterPass ==
    ASSUME NEW q \in GoodQueues, NEW p, CanPass(q, p)
    PROVE  AfterPass(q, p) \in GoodQueues
<1> DEFINE r == AfterPass(q, p)
           queue == Tail(q.acts[Len(q.acts)].queue)
<1>1. q \in QueueRecords /\ r \in QueueRecords
  BY GoodIsTyped, AfterPassType
<1>2. q.acts \in Seq(Actions) /\ q.acts # <<>>
  BY <1>1 DEF CanPass, CouldPass, QueueRecords
<1>3. /\ r.chain = q.chain /\ r.fresh = q.fresh /\ r.applied = q.applied
      /\ r.acts = [q.acts EXCEPT ![Len(q.acts)].queue = queue]
  BY <1>1 DEF AfterPass, Passed, QueueRecords
<1> HIDE DEF r, queue
<1>4. /\ DOMAIN r.acts = DOMAIN q.acts
      /\ \A k \in DOMAIN q.acts : Same(r.acts[k], q.acts[k])
  BY <1>2, <1>3, QueueReplacedKeeps
<1>5. r \in GoodQueues
  BY <1>1, <1>3, <1>4, SameOwners
<1> QED
  BY <1>5 DEF r

LEMMA GoodEnteredQueues ==
    ASSUME NEW q \in GoodQueues, q.acts # <<>>, active \in Players
    PROVE  LET e == EnteredQueues(q)
           IN  /\ e \in GoodQueues /\ e.acts # <<>> /\ e.chain = q.chain
               /\ Same(Top(e.acts), Top(q.acts))
<1> DEFINE e == EnteredQueues(q)
<1>1. q \in QueueRecords /\ q.acts \in Seq(Actions)
  BY GoodIsTyped DEF QueueRecords
<1>2. e \in QueueRecords
  BY <1>1, EnteredQueuesType
<1>3. /\ e.chain = q.chain /\ e.fresh = q.fresh /\ e.applied = q.applied
      /\ e.acts = EnteredStack(q.acts, q.prio, active)
  BY <1>1 DEF EnteredQueues, QueueRecords
<1> HIDE DEF e
<1>4. /\ DOMAIN e.acts = DOMAIN q.acts
      /\ \A k \in DOMAIN q.acts : Same(e.acts[k], q.acts[k])
  BY <1>1, <1>3, EnteredStackKeeps DEF Same
<1>5. e \in GoodQueues
  BY <1>2, <1>3, <1>4, SameOwners
<1>6. e.acts \in Seq(Actions) /\ Len(e.acts) = Len(q.acts) /\ Len(q.acts) \in DOMAIN q.acts
  BY <1>1, <1>2, <1>4 DEF QueueRecords
<1> QED
  BY <1>3, <1>4, <1>5, <1>6 DEF Top, e

\* A resolution takes its item off the chain; what resolves the items below
\* and above it stays.
LEMMA GoodTakenOff ==
    ASSUME NEW q \in GoodQueues, NEW p \in DOMAIN q.chain,
           NEW r \in QueueRecords, r.acts = q.acts, r.fresh = q.fresh,
           r.chain = Without(q.chain, q.chain[p]),
           r.applied = q.applied \union {q.chain[p]}
    PROVE  r \in GoodQueues /\ q.chain[p] \notin ToSet(r.chain)
<1> DEFINE c == q.chain
           i == c[p]
           d == Without(c, c[p])
           Old(n) == IF n < p THEN n ELSE n + 1
<1>1. c \in Seq(Items) /\ IsInjective(c) /\ p \in DOMAIN c
  BY DEF GoodQueues, QueueRecords, OnceIn
<1> HIDE DEF c
<1>2. /\ d \in Seq(Items) /\ Len(d) = Len(c) - 1
      /\ \A n \in 1 .. Len(c) - 1 : d[n] = IF n < p THEN c[n] ELSE c[n + 1]
  BY <1>1, WithoutKeeps
<1> HIDE DEF d
<1>3. /\ Len(c) \in Nat /\ DOMAIN c = 1 .. Len(c) /\ DOMAIN d = 1 .. Len(c) - 1
      /\ p \in 1 .. Len(c)
  BY <1>1, <1>2
<1>4. \A n \in DOMAIN d : Old(n) \in DOMAIN c /\ Old(n) # p /\ d[n] = c[Old(n)]
  BY <1>2, <1>3
<1>5. \A m, n \in DOMAIN d : m <= n <=> Old(m) <= Old(n)
  BY <1>3
<1>6. \A n \in DOMAIN c \ {p} : \E m \in DOMAIN d : Old(m) = n
  <2> SUFFICES ASSUME NEW n \in DOMAIN c \ {p} PROVE \E m \in DOMAIN d : Old(m) = n
    OBVIOUS
  <2>1. CASE n < p
    BY <1>3, <2>1
  <2>2. CASE n > p
    <3>1. n - 1 \in DOMAIN d /\ Old(n - 1) = n
      BY <1>3, <2>2
    <3> QED
      BY <3>1
  <2> QED
    BY <1>3, <2>1, <2>2
<1>7. r.chain = d
  BY DEF c, d
<1>8. ToSet(d) = ToSet(c) \ {i}
  <2> HIDE DEF Old
  <2>1. ToSet(d) \subseteq ToSet(c) \ {i}
    BY <1>1, <1>4 DEF ToSet, IsInjective
  <2>2. ToSet(c) \ {i} \subseteq ToSet(d)
    BY <1>4, <1>6 DEF ToSet
  <2> QED
    BY <2>1, <2>2
<1>9. i \in ToSet(c)
  BY <1>1 DEF ToSet
<1>10. IsInjective(d)
  <2>1. \A m, n \in DOMAIN d : Old(m) = Old(n) => m = n
    BY <1>3
  <2> HIDE DEF Old
  <2> QED
    BY <1>1, <1>4, <2>1 DEF IsInjective
<1> HIDE DEF i, Old
<1>11. OnceIn(r)
  <2>1. OnceIn(q)
    BY DEF GoodQueues
  <2> QED
    BY <2>1, <1>7, <1>8, <1>9, <1>10 DEF OnceIn, c, i
<1>12. ASSUME OwnedIn(q) PROVE OwnedIn(r)
  <2>1. \A n \in DOMAIN r.chain : \E k \in DOMAIN r.acts :
          IsResolverOf(r.acts[k], r.chain[n])
    BY <1>4, <1>7, <1>12 DEF OwnedIn, c
  <2>2. ASSUME NEW m \in DOMAIN r.chain, NEW n \in DOMAIN r.chain,
               NEW k \in DOMAIN r.acts, NEW l \in DOMAIN r.acts,
               IsResolverOf(r.acts[k], r.chain[m]), IsResolverOf(r.acts[l], r.chain[n])
        PROVE  m <= n <=> k <= l
    <3>1. /\ Old(m) \in DOMAIN q.chain /\ IsResolverOf(q.acts[k], q.chain[Old(m)])
          /\ Old(n) \in DOMAIN q.chain /\ IsResolverOf(q.acts[l], q.chain[Old(n)])
      BY <1>4, <1>7, <2>2 DEF c
    <3>2. Old(m) <= Old(n) <=> k <= l
      BY <1>12, <3>1 DEF OwnedIn
    <3> QED
      BY <1>5, <1>7, <3>2
  <2>3. \A k \in DOMAIN r.acts :
          IsResolve(r.acts[k]) => r.acts[k].item \notin r.fresh
    BY <1>12 DEF OwnedIn
  <2> QED
    BY <2>1, <2>2, <2>3 DEF OwnedIn
<1>13. i \notin ToSet(r.chain)
  BY <1>7, <1>8
<1> QED
  BY <1>11, <1>12, <1>13 DEF GoodQueues, i, c

LEMMA GoodResolved ==
    ASSUME NEW q \in GoodQueues, q.acts # <<>>, NEW i \in ToSet(q.chain),
           IsResolve(Top(q.acts)) => Top(q.acts).item = i
    PROVE  Resolved(q, i) \in GoodQueues
<1> DEFINE r == [q EXCEPT !.chain = Without(@, i), !.heard = {},
                          !.applied = @ \union {i}]
<1>1. q \in QueueRecords
  BY GoodIsTyped
<1>2. PICK p \in DOMAIN q.chain : q.chain[p] = i
  BY DEF ToSet
<1>3. i \in Items
  BY <1>1, <1>2 DEF QueueRecords
<1>4. /\ r \in QueueRecords /\ r.acts = q.acts /\ r.fresh = q.fresh
      /\ r.chain = Without(q.chain, i) /\ r.applied = q.applied \union {i}
  BY <1>1, <1>3, WithoutType DEF QueueRecords
<1>5. Resolved(q, i) = IF IsResolve(Top(q.acts)) THEN [r EXCEPT !.acts = Pop(@)] ELSE r
  BY <1>1 DEF Resolved, QueueRecords
<1> HIDE DEF r
<1>6. r \in GoodQueues /\ i \notin ToSet(r.chain)
  BY <1>2, <1>4, GoodTakenOff
<1>7. IsResolve(Top(q.acts)) => [r EXCEPT !.acts = Pop(@)] \in GoodQueues
  BY <1>4, <1>6, GoodPop
<1> QED
  BY <1>5, <1>6, <1>7

LEMMA GoodDrained ==
    ASSUME TypeOK, Queues \in GoodQueues, TopWindow, NEW r \in Drained(Queues)
    PROVE  r \in GoodQueues /\ r.acts # <<>> /\ IsWindow(Top(r.acts))
<1> DEFINE asked == Top(acts).queue
           none == <<>>
           passed == [Queues EXCEPT
                        !.acts = [acts EXCEPT ![Len(acts)].queue = none],
                        !.prio = IF asked = <<>> THEN @ ELSE NoPlayer,
                        !.heard = @ \union ToSet(asked)]
<1>1. acts \in Seq(Actions) /\ acts # <<>> /\ IsWindow(Top(acts))
  BY DEF TypeOK, TopWindow
<1>2. passed \in Drained(Queues)
  BY DEF Drained, Queues
<1>3. passed \in QueueRecords
  BY <1>1, <1>2, DrainedType
<1>4. /\ \/ r = passed
         \/ r \in Found(passed, HookItems, active)
         \/ \E f \in Found(passed, HookItems, active) : r = [f EXCEPT !.prio = NoPlayer]
      /\ r \in QueueRecords
  BY <1>1, DrainedType DEF Drained, Queues
<1>5. /\ passed.chain = Queues.chain /\ passed.fresh = Queues.fresh
      /\ passed.applied = Queues.applied /\ Queues.acts = acts
      /\ passed.acts = [acts EXCEPT ![Len(acts)].queue = none]
  BY DEF Queues
<1> HIDE DEF passed, none
<1>6. /\ DOMAIN passed.acts = DOMAIN acts
      /\ \A k \in DOMAIN acts : Same(passed.acts[k], acts[k])
  BY <1>1, <1>5, QueueReplacedKeeps
<1>7. passed \in GoodQueues
  BY <1>3, <1>5, <1>6, SameOwners
<1>8. passed.acts # <<>> /\ IsWindow(Top(passed.acts))
  <2>1. passed.acts \in Seq(Actions) /\ Len(acts) \in DOMAIN acts
    BY <1>1, <1>3 DEF QueueRecords
  <2>2. Len(passed.acts) = Len(acts)
    BY <1>1, <1>6, <2>1
  <2> QED
    BY <1>1, <1>6, <2>1, <2>2 DEF Top, IsWindow, Same
<1>9. \A f \in Found(passed, HookItems, active) :
        f \in GoodQueues /\ f.acts # <<>> /\ IsWindow(Top(f.acts))
  BY <1>7, GoodFound DEF TypeOK
<1>10. CASE r = passed
  BY <1>7, <1>8, <1>10
<1>11. CASE r \in Found(passed, HookItems, active)
  BY <1>9, <1>11
<1>12. CASE \E f \in Found(passed, HookItems, active) : r = [f EXCEPT !.prio = NoPlayer]
  <2>1. PICK f \in Found(passed, HookItems, active) : r = [f EXCEPT !.prio = NoPlayer]
    BY <1>12
  <2>2. f \in GoodQueues /\ f \in QueueRecords /\ f.acts # <<>> /\ IsWindow(Top(f.acts))
    BY <1>9, GoodIsTyped
  <2>3. /\ r.chain = f.chain /\ r.fresh = f.fresh /\ r.applied = f.applied
        /\ r.acts = f.acts
    BY <2>1, <2>2 DEF QueueRecords
  <2>4. r \in GoodQueues
    BY <1>4, <2>2, <2>3, SameOwners DEF Same
  <2> QED
    BY <2>2, <2>3, <2>4
<1> QED
  BY <1>4, <1>10, <1>11, <1>12

\* A window may always be taken off the stack.
LEMMA GoodWindowOff ==
    ASSUME NEW q \in GoodQueues, q.acts # <<>>, IsWindow(Top(q.acts))
    PROVE  [q EXCEPT !.acts = Pop(@)] \in GoodQueues
<1>1. ~IsResolve(Top(q.acts))
  BY DEF IsWindow, IsResolve
<1> QED
  BY <1>1, GoodPop

LEMMA GoodUpdated ==
    ASSUME NEW q \in GoodQueues, q.acts # <<>>, IsWindow(Top(q.acts)),
           active \in Players
    PROVE  Updated(q) \in GoodQueues
<1> DEFINE e == EnteredQueues(q)
<1>1. e \in GoodQueues /\ e.acts # <<>> /\ Same(Top(e.acts), Top(q.acts))
  BY GoodEnteredQueues
<1>2. IsWindow(Top(e.acts))
  BY <1>1 DEF Same, IsWindow
<1>3. [e EXCEPT !.acts = Pop(@)] \in GoodQueues
  BY <1>1, <1>2, GoodWindowOff
<1> QED
  BY <1>1, <1>3 DEF Updated

---------------------------------------------------------------------------
(* The steps. *)

LEMMA BecomeGood ==
    ASSUME NEW q \in GoodQueues, Become(q)
    PROVE  Queues' \in GoodQueues /\ QueueTypeOK'
<1>1. q \in QueueRecords
  BY GoodIsTyped
<1>2. QueueTypeOK'
  BY <1>1, BecomeType
<1>3. /\ Queues'.acts = q.acts /\ Queues'.chain = q.chain
      /\ Queues'.fresh = q.fresh /\ Queues'.applied = q.applied
  BY DEF Become, Queues
<1>4. Queues' \in QueueRecords
  BY <1>2 DEF QueueTypeOK, Queues, QueueRecords
<1> QED
  BY <1>2, <1>3, <1>4, SameOwners DEF Same

\* What the rest of TypeOK says.
SeatTypeOK ==
    /\ phase \in Phases
    /\ active \in Players
    /\ turns \in Nat
    /\ prompt \in BOOLEAN
    /\ txs \in Seq(Transactions)
    /\ autoPass \subseteq Players
    /\ gone \subseteq Players
    /\ terminated \in BOOLEAN
    /\ savedPrio \in Players \union {NoPlayer}

LEMMA TypeSplit == TypeOK <=> QueueTypeOK /\ SeatTypeOK
BY DEF TypeOK, QueueTypeOK, SeatTypeOK

\* The inductive invariant.
Good == TypeOK /\ Queues \in GoodQueues

LEMMA GoodQueueStep ==
    ASSUME NEW q \in GoodQueues, Become(q), SeatTypeOK'
    PROVE  Good'
BY BecomeGood, TypeSplit DEF Good, QueueTypeOK, SeatTypeOK, TypeOK

LEMMA ConsumeStep ==
    ASSUME Good, NEW q \in GoodQueues, NEW asked \in BOOLEAN, Consume(q, asked)
    PROVE  Good'
<1> DEFINE tx == Head(txs)
<1>1. tx \in Transactions /\ txs' \in Seq(Transactions)
  BY HeadTailProperties DEF Good, TypeOK, Consume
<1>2. q \in QueueRecords
  BY GoodIsTyped
<1>3. CASE Handles(tx, q, asked)
  <2>1. PICK r \in Outcomes(tx, q) : Become(r)
    BY <1>3 DEF Consume
  <2>2. r \in GoodQueues
    <3>1. CASE tx.kind \in {"pass", "autopass"} /\ CanPass(q, tx.player)
      <4>1. r \in Hooked(AfterPass(q, tx.player), active)
        BY <2>1, <3>1 DEF Outcomes
      <4>2. AfterPass(q, tx.player) \in GoodQueues /\ active \in Players
        BY <3>1, GoodAfterPass DEF Good, TypeOK
      <4> QED
        BY <4>1, <4>2, GoodHooked
    <3>2. CASE tx.kind = "play"
      <4>1. tx.item \in q.fresh /\ tx.item \in Items /\ tx.player \in Players
        BY <1>1, <1>2, <1>3, <3>2 DEF Handles, QueueRecords, Transactions
      <4>2. Nominee(tx.player, tx.item) \in Players /\ active \in Players
        BY <4>1, NomineeType DEF Good, TypeOK
      <4>3. r = WithItem(q, tx.item, Nominee(tx.player, tx.item), active)
        BY <2>1, <3>2 DEF Outcomes
      <4> QED
        BY <4>1, <4>2, <4>3, GoodWithItem
    <3>3. CASE ~(tx.kind \in {"pass", "autopass"} /\ CanPass(q, tx.player))
               /\ tx.kind # "play"
      BY <2>1, <3>3 DEF Outcomes
    <3> QED
      BY <3>1, <3>2, <3>3
  <2>3. QueueTypeOK'
    BY <2>1, <2>2, BecomeGood
  <2>4. SeatTypeOK'
    <3>1. tx.player \in Players
      BY <1>1 DEF Transactions
    <3>2. autoPass' \subseteq Players /\ gone' \subseteq Players
      BY <1>3, <3>1 DEF Consume, Good, TypeOK
    <3>3. savedPrio' \in Players \union {NoPlayer}
      BY <1>3, <2>3 DEF Consume, Persist, QueueTypeOK
    <3>4. prompt' \in BOOLEAN /\ terminated' \in BOOLEAN
      BY <1>3 DEF Consume, Good, TypeOK
    <3>5. UNCHANGED gameVars
      BY DEF Consume
    <3> QED
      BY <1>1, <3>2, <3>3, <3>4, <3>5 DEF SeatTypeOK, Good, TypeOK, gameVars
  <2> QED
    BY <2>1, <2>2, <2>4, GoodQueueStep
<1>4. CASE ~Handles(tx, q, asked)
  <2>1. Become(q) /\ prompt' = asked /\ UNCHANGED <<seatVars, savedPrio, gameVars>>
    BY <1>4 DEF Consume
  <2>2. SeatTypeOK'
    BY <1>1, <2>1 DEF SeatTypeOK, Good, TypeOK, gameVars, seatVars
  <2> QED
    BY <2>1, <2>2, GoodQueueStep
<1> QED
  BY <1>3, <1>4

LEMMA StoppedStep ==
    ASSUME Good, UNCHANGED vars PROVE Good'
<1>1. /\ UNCHANGED <<phase, active, turns, acts, prio, chain, fresh, heard>>
      /\ UNCHANGED <<settled, applied, prompt, txs, autoPass, gone, terminated>>
      /\ UNCHANGED savedPrio
  BY DEF vars, gameVars, queueVars, seatVars
<1>2. TypeOK'
  BY <1>1 DEF Good, TypeOK
<1>3. Queues' = Queues
  BY <1>1 DEF Queues
<1> QED
  BY <1>2, <1>3 DEF Good

LEMMA BeginStep == ASSUME Good, Begin PROVE Good'
<1>1. PICK q \in Entries(phase, active) : Become(q)
  BY DEF Begin
<1>2. q \in GoodQueues
  BY GoodEntries DEF Good, TypeOK
<1>3. QueueTypeOK'
  BY <1>1, <1>2, BecomeGood
<1>4. SeatTypeOK'
  BY <1>3 DEF Begin, Persist, Good, TypeOK, SeatTypeOK, QueueTypeOK, seatVars
<1> QED
  BY <1>1, <1>2, <1>4, GoodQueueStep

LEMMA AdvanceStep == ASSUME Good, AdvanceTurnPhase PROVE Good'
<1>1. PICK p \in Successors[phase] :
        /\ p \in Permits[phase]
        /\ phase' = p
        /\ IF phase = "EndTurn" /\ p = "StartTurn"
           THEN /\ turns < MaxTurns
                /\ active' \in {NextSeat(active)} \union BonusSeats
                /\ autoPass' = {}
                /\ turns' = turns + 1
           ELSE UNCHANGED <<active, autoPass, turns>>
        /\ \E q \in Transitions(p, active') : Become(q)
  BY DEF AdvanceTurnPhase
<1>2. phase' \in Phases
  BY <1>1, PermitsType DEF Good, TypeOK
<1>3. active' \in Players /\ turns' \in Nat /\ autoPass' \subseteq Players
  BY <1>1, NextSeatType, HostAssumption DEF Good, TypeOK
<1>4. PICK q \in Transitions(phase', active') : Become(q)
  BY <1>1
<1>5. q \in GoodQueues
  <2> DEFINE newPhase == phase'
             newActive == active'
  <2>1. newPhase \in Phases /\ newActive \in Players
    BY <1>2, <1>3
  <2>2. q \in Transitions(newPhase, newActive)
    BY <1>4
  <2> HIDE DEF newPhase, newActive
  <2> QED
    BY <2>1, <2>2, GoodTransitions DEF Good
<1>6. QueueTypeOK'
  BY <1>4, <1>5, BecomeGood
<1>7. SeatTypeOK'
  BY <1>2, <1>3, <1>6
     DEF AdvanceTurnPhase, Persist, Good, TypeOK, SeatTypeOK, QueueTypeOK
<1> QED
  BY <1>4, <1>5, <1>7, GoodQueueStep

LEMMA SubmitStep == ASSUME Good, SubmitSome PROVE Good'
<1>1. PICK tx \in Intents : Submit(tx)
  BY DEF SubmitSome
<1>2. tx \in Transactions
  BY DEF Intents
<1>3. Reconciled \in GoodQueues
  BY GoodReconciled DEF Good
<1>4. txs' \in Seq(Transactions)
  <2>1. txs \in Seq(Transactions)
    BY DEF Good, TypeOK
  <2>2. txs' = Append(txs, tx) \/ txs' = txs
    BY <1>1 DEF Submit
  <2> QED
    BY <1>2, <2>1, <2>2
<1>5. SeatTypeOK'
  BY <1>1, <1>4 DEF Submit, Good, TypeOK, SeatTypeOK, gameVars, seatVars
<1> QED
  BY <1>1, <1>3, <1>5, GoodQueueStep DEF Submit

\* A step that changes nothing but the queues.
LEMMA QueuesOnlyStep ==
    ASSUME Good, NEW q \in GoodQueues, Become(q),
           UNCHANGED <<gameVars, prompt, txs, seatVars>>,
           savedPrio' = savedPrio \/ Persist
    PROVE  Good'
<1>1. QueueTypeOK'
  BY BecomeGood
<1>2. savedPrio' \in Players \union {NoPlayer}
  BY <1>1 DEF Persist, Good, TypeOK, QueueTypeOK
<1>3. SeatTypeOK'
  BY <1>2 DEF Good, TypeOK, SeatTypeOK, gameVars, seatVars
<1> QED
  BY <1>3, GoodQueueStep

LEMMA EnteredGood ==
    ASSUME Good, acts # <<>>
    PROVE  LET e == EnteredQueues(Queues)
           IN  /\ e \in GoodQueues /\ e.acts # <<>> /\ e.chain = chain
               /\ Same(Top(e.acts), Top(acts))
<1>1. Queues.acts = acts /\ Queues.chain = chain
  BY DEF Queues
<1> QED
  BY <1>1, GoodEnteredQueues DEF Good, TypeOK

\* As GoodPop, for what Owned gives only to a session no host attaches a
\* checkpoint to.
LEMMA StalePop ==
    ASSUME NEW q \in GoodQueues, q.acts # <<>>,
           SyncClients = {} => Top(q.acts).item \notin ToSet(q.chain)
    PROVE  [q EXCEPT !.acts = Pop(@)] \in GoodQueues
<1>1. CASE SyncClients = {}
  BY <1>1, GoodPop
<1>2. CASE SyncClients # {}
  <2> DEFINE r == [q EXCEPT !.acts = Pop(@)]
  <2>1. q \in QueueRecords
    BY GoodIsTyped
  <2>2. /\ r \in QueueRecords /\ r.chain = q.chain /\ r.fresh = q.fresh
        /\ r.applied = q.applied
    BY <2>1, PopQueuesType DEF QueueRecords
  <2> QED
    BY <1>2, <2>2 DEF GoodQueues, OnceIn
<1> QED
  BY <1>1, <1>2

LEMMA ResolverHasItem ==
    ASSUME TypeOK, acts # <<>>, IsResolve(Top(acts)), Top(acts).item = ChainTop
    PROVE  chain # <<>>
<1>1. Top(acts).item # NoItem
  BY TopType DEF TypeOK, Actions, IsResolve
<1> QED
  BY <1>1 DEF ChainTop, TopOf

LEMMA HookedChain ==
    ASSUME NEW q \in QueueRecords, NEW player, NEW r \in Hooked(q, player)
    PROVE  ToSet(q.chain) \subseteq ToSet(r.chain)
<1>1. CASE r = q
  BY <1>1
<1>2. CASE r \in Found(q, HookItems, player)
  <2>1. PICK i \in HookItems \intersect q.fresh :
          \E first \in HookNominees(i, player) : r = WithItem(q, i, first, player)
    BY <1>2 DEF Found
  <2>a. r.chain = Append(q.chain, i)
    BY <2>1 DEF WithItem
  <2>2. q.chain \in Seq(Items)
    BY DEF QueueRecords
  <2> QED
    BY <2>a, <2>2 DEF ToSet
<1> QED
  BY <1>1, <1>2 DEF Hooked

LEMMA ResolveStep == ASSUME Good, TickResolves PROVE Good'
<1> DEFINE e == EnteredQueues(Queues)
<1>1. /\ acts # <<>> /\ Top(acts).item = ChainTop
      /\ chain \in Seq(Items) /\ active \in Players
      /\ Top(acts) \in Actions /\ IsResolve(Top(acts))
  BY TopType DEF TickResolves, TopResolver, Good, TypeOK
<1>2. /\ e \in GoodQueues /\ e.acts # <<>> /\ e.chain = chain
      /\ Same(Top(e.acts), Top(acts))
  BY <1>1, EnteredGood
<1>3. PICK q \in Hooked(e, active) : Become(Resolved(q, ChainTop))
  BY DEF TickResolves
<1> HIDE DEF e
<1>4. q \in GoodQueues /\ (q = e \/ (q.acts # <<>> /\ IsWindow(Top(q.acts))))
  BY <1>1, <1>2, <1>3, GoodHooked
<1>5. q.acts # <<>> /\ (IsResolve(Top(q.acts)) => Top(q.acts).item = ChainTop)
  BY <1>1, <1>2, <1>4 DEF Same, IsWindow, IsResolve
<1>6. chain # <<>>
  BY <1>1, ResolverHasItem DEF Good
<1>7. ChainTop \in ToSet(q.chain)
  <2>1. ChainTop \in ToSet(chain)
    BY <1>1, <1>6 DEF ChainTop, TopOf, Last, ToSet
  <2> QED
    BY <1>2, <1>3, <2>1, GoodIsTyped, HookedChain
<1>8. Resolved(q, ChainTop) \in GoodQueues
  BY <1>4, <1>5, <1>7, GoodResolved
<1>9. QueueTypeOK'
  BY <1>3, <1>8, BecomeGood
<1>10. SeatTypeOK'
  BY <1>9 DEF TickResolves, Persist, Good, TypeOK, SeatTypeOK, QueueTypeOK, gameVars, seatVars
<1> QED
  BY <1>3, <1>8, <1>10, GoodQueueStep

LEMMA TickStep == ASSUME Good, Tick PROVE Good'
<1>1. CASE TickPrompt
  BY <1>1, ConsumeStep DEF TickPrompt, Good
<1>2. CASE TickStateBased
  <2>1. PICK q \in Found(Queues, HookItems, active) : Become(q)
    BY <1>2 DEF TickStateBased
  <2>2. q \in GoodQueues
    BY <2>1, GoodFound DEF Good, TypeOK
  <2> QED
    BY <1>2, <2>1, <2>2, QueuesOnlyStep DEF TickStateBased
<1>3. CASE TickAdvance
  BY <1>3, AdvanceStep DEF TickAdvance
<1>4. CASE TickWindowOver
  <2> DEFINE e == EnteredQueues(Queues)
  <2>1. e \in GoodQueues /\ e.acts # <<>> /\ IsWindow(Top(e.acts))
    BY <1>4, EnteredGood DEF TickWindowOver, TopWindow, Same, IsWindow
  <2>2. [e EXCEPT !.acts = Pop(@)] \in GoodQueues
    BY <2>1, GoodWindowOff
  <2>3. Become([e EXCEPT !.acts = Pop(@)])
    BY <1>4 DEF TickWindowOver
  <2> HIDE DEF e
  <2> QED
    BY <1>4, <2>2, <2>3, QueuesOnlyStep DEF TickWindowOver
<1>5. CASE TickWindowWaits
  <2>1. EnteredQueues(Queues) \in GoodQueues
    BY <1>5, EnteredGood DEF TickWindowWaits, TopWindow
  <2> QED
    BY <1>5, <2>1, ConsumeStep, QueuesOnlyStep DEF TickWindowWaits
<1>6. CASE TickStaleResolver
  <2> DEFINE e == EnteredQueues(Queues)
  <2>1. /\ e \in GoodQueues /\ e.acts # <<>> /\ e.chain = chain
        /\ Same(Top(e.acts), Top(acts))
    BY <1>6, EnteredGood DEF TickStaleResolver, TopResolver
  <2>2. Become([e EXCEPT !.acts = Pop(@)])
    BY <1>6 DEF TickStaleResolver
  <2> HIDE DEF e
  \* A resolver of a pending item below the chain's top would stand below the
  \* top item's resolver.
  <2>3. ASSUME SyncClients = {} PROVE Top(e.acts).item \notin ToSet(e.chain)
    <3> SUFFICES ASSUME NEW m \in DOMAIN chain, Top(e.acts).item = chain[m]
                 PROVE  FALSE
      BY <2>1 DEF ToSet
    <3>1. OwnedIn(e) /\ e.acts \in Seq(Actions) /\ chain \in Seq(Items)
      BY <2>1, <2>3 DEF GoodQueues, QueueRecords
    <3>2. Len(e.acts) \in DOMAIN e.acts /\ Len(chain) \in DOMAIN chain /\ m <= Len(chain)
      BY <2>1, <3>1
    <3>3. IsResolverOf(e.acts[Len(e.acts)], chain[m])
      BY <1>6, <2>1 DEF TickStaleResolver, TopResolver, Same, IsResolve, IsResolverOf, Top
    <3>4. PICK l \in DOMAIN e.acts : IsResolverOf(e.acts[l], chain[Len(chain)])
      BY <2>1, <3>1, <3>2 DEF OwnedIn
    <3>5. Len(e.acts) <= l
      BY <2>1, <3>1, <3>2, <3>3, <3>4 DEF OwnedIn
    <3>6. l = Len(e.acts)
      BY <3>1, <3>2, <3>4, <3>5
    <3>7. chain[Len(chain)] = chain[m]
      BY <3>3, <3>4, <3>6 DEF IsResolverOf
    <3>8. ChainTop = chain[m]
      BY <3>1, <3>2, <3>7 DEF ChainTop, TopOf, Last
    <3> QED
      BY <1>6, <2>1, <3>8 DEF TickStaleResolver, Same
  <2>4. [e EXCEPT !.acts = Pop(@)] \in GoodQueues
    BY <2>1, <2>3, StalePop
  <2> QED
    BY <1>6, <2>2, <2>4, QueuesOnlyStep DEF TickStaleResolver
<1>7. CASE TickResolves
  BY <1>7, ResolveStep
<1>8. CASE TickPauses
  <2> DEFINE e == EnteredQueues(Queues)
  <2>1. e \in GoodQueues
    BY <1>8, EnteredGood DEF TickPauses, TopResolver
  <2>2. CASE Consume(e, TRUE)
    BY <2>1, <2>2, ConsumeStep
  <2>3. CASE /\ Become(e)
             /\ prompt' = TRUE
             /\ UNCHANGED <<gameVars, txs, seatVars, savedPrio>>
    <3>1. SeatTypeOK'
      BY <2>3 DEF Good, TypeOK, SeatTypeOK, gameVars, seatVars
    <3> QED
      BY <2>1, <2>3, <3>1, GoodQueueStep
  <2> QED
    BY <1>8, <2>2, <2>3 DEF TickPauses
<1> QED
  BY <1>1, <1>2, <1>3, <1>4, <1>5, <1>6, <1>7, <1>8 DEF Tick

LEMMA HostStep == ASSUME Good, Host PROVE Good'
<1>1. CASE HandleTransaction
  BY <1>1, ConsumeStep DEF HandleTransaction, Good, TypeOK
<1>2. CASE \E p \in Servers : ServerPass(p)
  <2>1. PICK p \in Servers : ServerPass(p)
    BY <1>2
  <2>2. AfterPass(Queues, p) \in GoodQueues /\ active \in Players
    BY <2>1, GoodAfterPass DEF ServerPass, Good, TypeOK
  <2>3. PICK q \in Hooked(AfterPass(Queues, p), active) : Become(q)
    BY <2>1 DEF ServerPass
  <2>4. q \in GoodQueues
    BY <2>2, <2>3, GoodHooked
  <2> QED
    BY <2>1, <2>3, <2>4, QueuesOnlyStep DEF ServerPass
<1>3. CASE \E p \in Servers : ServerPlay(p)
  <2>1. PICK p \in Servers : ServerPlay(p)
    BY <1>3
  <2>2. PICK i \in fresh : Become(WithItem(Queues, i, Nominee(p, i), active))
    BY <2>1 DEF ServerPlay
  <2>3. i \in Items /\ i \in Queues.fresh /\ p \in Players /\ active \in Players
    BY <2>2, HostAssumption DEF Good, TypeOK, Queues
  <2>4. WithItem(Queues, i, Nominee(p, i), active) \in GoodQueues
    BY <2>3, NomineeType, GoodWithItem DEF Good
  <2> QED
    BY <2>1, <2>2, <2>4, QueuesOnlyStep DEF ServerPlay
<1>4. CASE AutoPassInternal
  <2>1. PICK q \in Drained(Queues) : Become(Updated(q))
    BY <1>4 DEF AutoPassInternal
  <2>2. q \in GoodQueues /\ q.acts # <<>> /\ IsWindow(Top(q.acts)) /\ active \in Players
    BY <1>4, <2>1, GoodDrained DEF AutoPassInternal, Good, TypeOK
  <2>3. Updated(q) \in GoodQueues
    BY <2>2, GoodUpdated
  <2> QED
    BY <1>4, <2>1, <2>3, QueuesOnlyStep DEF AutoPassInternal
<1>5. CASE Checkpoint
  <2>1. Queues' = Queues
    BY <1>5 DEF Checkpoint, Queues, queueVars
  <2>2. TypeOK'
    BY <1>5 DEF Checkpoint, Persist, Good, TypeOK, queueVars, gameVars, seatVars
  <2> QED
    BY <2>1, <2>2 DEF Good
<1> QED
  BY <1>1, <1>2, <1>3, <1>4, <1>5 DEF Host

---------------------------------------------------------------------------
(* Attaching a checkpoint.  It queues and resolves nothing; what it leaves of *)
(* the action stack only has to be of the right type, since Owned is claimed *)
(* of no session a host attaches a checkpoint to.                           *)

Attached == {q \in QueueRecords :
                q.chain = chain /\ q.fresh = fresh /\ q.applied = applied}

LEMMA ConfiguredType ==
    ASSUME NEW q \in Attached, q.acts # <<>>, NEW who \in Policies,
           active \in Players
    PROVE  Configured(q, who) \in Attached /\ Configured(q, who).acts # <<>>
<1> DEFINE queue == WindowQueue(who, FALSE, q.prio, active)
           top == [q.acts[Len(q.acts)] EXCEPT !.who = who, !.queue = queue]
           f == [q.acts EXCEPT ![Len(q.acts)] = top]
<1>1. q \in QueueRecords /\ q.acts \in Seq(Actions) /\ q.prio \in Players \union {NoPlayer}
  BY DEF Attached, QueueRecords
<1>2. queue \in Seq(Players)
  BY <1>1, WindowQueueType
<1>3. FirstAsked(queue) \in Players \union {NoPlayer}
  BY <1>2, FirstAskedType
<1>4. q.acts[Len(q.acts)] \in Actions
  BY <1>1, TopType DEF Top
<1>5. Configured(q, who) = [q EXCEPT !.acts = f, !.prio = FirstAsked(queue)]
  BY <1>1 DEF Configured, QueueRecords
<1> HIDE DEF queue
<1>6. top \in Actions
  BY <1>2, <1>4 DEF Actions
<1> HIDE DEF top
<1>7. f \in Seq(Actions) /\ f # <<>>
  BY <1>1, <1>6, ReplacedType
<1> HIDE DEF f
<1> QED
  BY <1>1, <1>3, <1>5, <1>7 DEF Attached, QueueRecords

LEMMA PrunedType == TypeOK => Pruned \in Attached
<1>1. TypeOK => Queues \in Attached
  BY QueuesType DEF Attached, Queues
<1>2. TypeOK => [Queues EXCEPT !.acts = <<>>, !.prio = NoPlayer] \in Attached
  BY <1>1, EmptySeq DEF Attached, QueueRecords
<1> QED
  BY <1>1, <1>2 DEF Pruned

LEMMA LongIsNotEmpty == \A s : Len(s) = 1 => s # <<>>
OBVIOUS

LEMMA ReopenedType ==
    ASSUME NEW q \in Attached, NEW player \in Players, phase \in Phases,
           active \in Players
    PROVE  Reopened(q, player) \subseteq Attached
<1> DEFINE who == PriorityPlayers[phase]
           queue == WindowQueue(who, FALSE, player, active)
           w == WindowAction(who, NoItem, queue)
           plain == [q EXCEPT !.acts = <<w>>, !.prio = FirstAsked(queue)]
           First(r) == IF player \in ToSet(Top(r.acts).queue)
                       THEN Promote(Top(r.acts).queue, player) ELSE Top(r.acts).queue
           ToFront(r) == [r EXCEPT !.acts[1].queue = First(r),
                                   !.prio = FirstAsked(First(r))]
<1>1. who \in Policies /\ q \in QueueRecords
  BY PriorityPlayersType DEF Attached
<1>2. queue \in Seq(Players) /\ FirstAsked(queue) \in Players \union {NoPlayer}
  BY <1>1, WindowQueueType, FirstAskedType
<1>3. w \in Actions
  BY <1>1, <1>2, WindowActionType
<1>4. plain \in Attached /\ plain.acts = <<w>>
  <2> HIDE DEF w, queue
  <2>1. <<w>> \in Seq(Actions)
    BY <1>3
  <2> DEFINE one == <<w>>
             asked == FirstAsked(queue)
  <2>2. one \in Seq(Actions) /\ asked \in Players \union {NoPlayer}
    BY <1>2, <2>1
  <2>3. q \in QueueRecords /\ q.chain = chain /\ q.fresh = fresh /\ q.applied = applied
    BY DEF Attached
  <2>4. plain = [q EXCEPT !.acts = one, !.prio = asked]
    OBVIOUS
  <2> HIDE DEF one, asked, plain
  <2>5. plain \in Attached /\ plain.acts = one
    BY <2>2, <2>3, <2>4 DEF Attached, QueueRecords
  <2> QED
    BY <2>5 DEF one
<1>5. \A v \in StopPolicies :
        Configured(plain, v) \in Attached /\ Len(Configured(plain, v).acts) = 1
  <2> SUFFICES ASSUME NEW v \in StopPolicies
               PROVE  Configured(plain, v) \in Attached /\ Len(Configured(plain, v).acts) = 1
    OBVIOUS
  <2>1. v \in Policies /\ plain.acts # <<>>
    BY <1>4, HostAssumption
  <2>2. Configured(plain, v) \in Attached
    BY <1>4, <2>1, ConfiguredType
  <2>3. plain.acts \in Seq(Actions) /\ Len(plain.acts) = 1 /\ plain \in QueueRecords
    BY <1>4 DEF Attached, QueueRecords
  <2> HIDE DEF plain
  <2> DEFINE f == [plain.acts EXCEPT ![Len(plain.acts)] =
                      [@ EXCEPT !.who = v, !.queue = WindowQueue(v, FALSE, plain.prio, active)]]
  <2>4. Configured(plain, v).acts = f
    BY <2>3 DEF Configured, QueueRecords
  <2>5. Len(f) = Len(plain.acts)
    BY <2>3
  <2> QED
    BY <2>2, <2>3, <2>4, <2>5
<1>6. ASSUME NEW r \in Attached, Len(r.acts) = 1
      PROVE  ToFront(r) \in Attached
  <2>a. r \in QueueRecords
    BY <1>6 DEF Attached
  <2>b. r.acts \in Seq(Actions)
    BY <2>a DEF QueueRecords
  <2>1. r \in QueueRecords /\ r.acts \in Seq(Actions) /\ r.acts # <<>>
    BY <1>6, <2>a, <2>b, LongIsNotEmpty
  <2>2. Top(r.acts).queue \in Seq(Players)
    BY <2>1, TopType DEF Actions
  <2>3. First(r) \in Seq(Players)
    BY <2>2, WithoutType DEF Promote
  <2>4. FirstAsked(First(r)) \in Players \union {NoPlayer}
    BY <2>3, FirstAskedType
  <2> DEFINE s == [r.acts EXCEPT ![Len(r.acts)].queue = First(r)]
  <2>5. ToFront(r) = [r EXCEPT !.acts = s, !.prio = FirstAsked(First(r))]
    <3> HIDE DEF First
    <3> QED
      BY <1>6, <2>1 DEF QueueRecords
  <2> HIDE DEF First
  <2>6. s \in Seq(Actions)
    BY <2>1, <2>3, QueueReplacedType
  <2> HIDE DEF s, ToFront
  <2> QED
    BY <2>1, <2>4, <2>5, <2>6 DEF Attached, QueueRecords
<1>7. Reopened(q, player)
        = {ToFront(r) : r \in {plain} \union {Configured(plain, v) : v \in StopPolicies}}
  BY DEF Reopened
<1>8. Len(plain.acts) = 1
  BY <1>4
<1> HIDE DEF plain, ToFront
<1> QED
  BY <1>4, <1>5, <1>6, <1>7, <1>8

LEMMA ReconciliationsType ==
    ASSUME NEW q \in Attached, NEW player \in Players, phase \in Phases,
           active \in Players
    PROVE  Reconciliations(q, player) \subseteq Attached
<1> DEFINE top == q.acts # <<>> /\ IsWindow(Top(q.acts))
           next == IF top THEN FirstAsked(Top(q.acts).queue) ELSE player
           r == [q EXCEPT !.prio = next]
<1>1. q \in QueueRecords /\ q.acts \in Seq(Actions)
  BY DEF Attached, QueueRecords
<1>2. next \in Players \union {NoPlayer}
  <2>1. CASE top
    <3>1. Top(q.acts).queue \in Seq(Players)
      BY <1>1, <2>1, TopType DEF Actions
    <3> QED
      BY <2>1, <3>1, FirstAskedType
  <2> QED
    BY <2>1
<1> HIDE DEF next
<1>3. r \in Attached /\ r.acts = q.acts
  BY <1>1, <1>2 DEF Attached, QueueRecords
<1>4. \/ Reconciliations(q, player) = {r}
      \/ Reconciliations(q, player) = Reopened(r, player)
      \/ /\ q.acts # <<>>
         /\ Reconciliations(q, player)
              = {r} \union {Configured(r, who) : who \in StopPolicies}
  BY DEF Reconciliations, next
<1> HIDE DEF r
<1>5. Reopened(r, player) \subseteq Attached
  BY <1>3, ReopenedType
<1>6. ASSUME q.acts # <<>>, NEW who \in StopPolicies
      PROVE  Configured(r, who) \in Attached
  BY <1>3, <1>6, ConfiguredType, HostAssumption
<1> QED
  BY <1>3, <1>4, <1>5, <1>6

LEMMA EnsuredType ==
    ASSUME NEW q \in Attached, active \in Players
    PROVE  Ensured(q) \in Attached
<1>1. CASE q.chain = <<>> \/ (q.acts # <<>> /\ Top(q.acts).item = Last(q.chain))
  BY <1>1 DEF Ensured
<1>2. CASE ~(q.chain = <<>> \/ (q.acts # <<>> /\ Top(q.acts).item = Last(q.chain)))
  <2> DEFINE i == Last(q.chain)
             who == IF ItemKind[i] = "ability" THEN "All" ELSE "Active"
             plain == WindowQueue(who, FALSE, NoPlayer, active)
             queue == IF q.prio = NoPlayer THEN plain
                      ELSE ResponseQueue(who, q.prio, NoPlayer, active)
             s == Push(<<ResolveAction(i)>>, WindowAction(who, i, queue))
             asked == FirstAsked(queue)
  <2>1. q \in QueueRecords /\ i \in Items /\ who \in Policies
        /\ q.prio \in Players \union {NoPlayer}
    BY <1>2 DEF Attached, QueueRecords, Last, Policies
  <2> HIDE DEF i, who
  <2>2. queue \in Seq(Players)
    <3>1. plain \in Seq(Players)
      BY WindowQueueType
    <3>2. q.prio # NoPlayer => ResponseQueue(who, q.prio, NoPlayer, active) \in Seq(Players)
      BY <2>1, ResponseQueueType
    <3> HIDE DEF plain
    <3> QED
      BY <3>1, <3>2
  <2>3. asked \in Players \union {NoPlayer}
    BY <2>2, FirstAskedType
  <2>4. s \in Seq(Actions)
    <3> HIDE DEF queue
    <3>1. ResolveAction(i) \in Actions
      BY <2>1, ResolveActionType
    <3>2. WindowAction(who, i, queue) \in Actions
      BY <2>1, <2>2, WindowActionType
    <3>3. <<ResolveAction(i)>> \in Seq(Actions)
      BY <3>1
    <3> QED
      BY <3>2, <3>3, PushType
  <2>5. Ensured(q) = [q EXCEPT !.acts = s, !.prio = asked]
    BY <1>2 DEF Ensured, i, who
  <2> HIDE DEF s, asked
  <2> QED
    BY <2>1, <2>3, <2>4, <2>5 DEF Attached, QueueRecords
<1> QED
  BY <1>1, <1>2

LEMMA AttachStep == ASSUME Good, AttachSome PROVE Good'
<1>1. PICK player \in SyncClients : Attach(player)
  BY DEF AttachSome
<1>2. PICK q \in Reconciliations(Pruned, player) : Become(Ensured(q))
  BY <1>1 DEF Attach
<1>3. player \in Players /\ active \in Players /\ phase \in Phases
  BY HostAssumption DEF Good, TypeOK
<1>4. q \in Attached
  BY <1>2, <1>3, PrunedType, ReconciliationsType DEF Good
<1>5. Ensured(q) \in Attached
  BY <1>3, <1>4, EnsuredType
<1>6. Ensured(q) \in GoodQueues
  BY <1>1, <1>5 DEF Attached, GoodQueues, OnceIn, Good, Queues
<1>7. SeatTypeOK'
  BY <1>1 DEF Attach, Good, TypeOK, SeatTypeOK, gameVars, seatVars
<1> QED
  BY <1>2, <1>6, <1>7, GoodQueueStep

---------------------------------------------------------------------------
(* The theorems. *)

LEMMA InitGood == Init => Good
<1> SUFFICES ASSUME Init PROVE Good
  OBVIOUS
<1>1. PlayerIds[1] \in Players
  BY SeatsAssumption DEF Players, ToSet
<1>2. /\ <<>> \in Seq(Actions) /\ <<>> \in Seq(Items) /\ <<>> \in Seq(Transactions)
      /\ "StartTurn" \in Phases
  BY EmptySeq DEF Phases
<1>3. TypeOK
  BY <1>1, <1>2 DEF Init, TypeOK
<1>4. Queues \in QueueRecords
  BY <1>3, QueuesType
<1>5. ToSet(<<>>) = {}
  BY DEF ToSet
<1>6. OnceIn(Queues) /\ OwnedIn(Queues)
  BY <1>5 DEF Init, OnceIn, OwnedIn, Queues, IsInjective
<1> QED
  BY <1>3, <1>4, <1>6 DEF Good, GoodQueues

LEMMA GoodStep == Good /\ [Next]_vars => Good'
<1> SUFFICES ASSUME Good, [Next]_vars PROVE Good'
  OBVIOUS
<1>1. CASE Begin
  BY <1>1, BeginStep
<1>2. CASE SubmitSome
  BY <1>2, SubmitStep
<1>3. CASE Tick
  BY <1>3, TickStep
<1>4. CASE Host
  BY <1>4, HostStep
<1>5. CASE AttachSome
  BY <1>5, AttachStep
<1>6. CASE UNCHANGED vars
  BY <1>6, StoppedStep
<1> QED
  BY <1>1, <1>2, <1>3, <1>4, <1>5, <1>6 DEF Next

\* The inductive invariant holds of every session, with or without a server's
\* player, a host that attaches checkpoints, or hooks that queue triggers.
THEOREM AlwaysGood == Spec => []Good
<1> QED
  BY InitGood, GoodStep, PTL DEF Spec

\* No call leaves the session in a state its attributes cannot hold: the
\* players the windows ask are seats, every resolver has an item, the mirror
\* and the snapshot name a seat or nobody.
THEOREM TypeCorrect == Spec => []TypeOK
<1>1. Good => TypeOK
  BY DEF Good
<1> QED
  BY <1>1, AlwaysGood, PTL

\* No tick raises: require_legal_transition never meets a phase that the
\* current phase's state selected and the graph does not permit.
THEOREM NextPhasesAreLegal == Spec => []NextIsLegal
<1>1. TypeOK => NextIsLegal
  BY NextPhaseIsLegal DEF TypeOK, NextIsLegal, Successors
<1> QED
  BY <1>1, TypeCorrect, PTL

\* A queued item takes effect exactly once: queue_projected_chain puts it on
\* the chain once, resolve_top_of_chain takes it off, and nothing that
\* rebuilds, reconciles or drains the action stack loses or repeats it.
THEOREM ItemsTakeEffectOnce == Spec => []EffectOnce
<1>1. Good => EffectOnce
  BY DEF Good, GoodQueues, OnceIn, EffectOnce, Queues
<1> QED
  BY <1>1, AlwaysGood, PTL

\* Without a host that attaches checkpoints to the live session, every pending
\* item has its resolver on the action stack, in the order of the chain.
THEOREM ChainIsOwned ==
    ASSUME SyncClients = {} PROVE Spec => []ChainOwned
<1>1. Good => ChainOwned
  BY DEF Good, GoodQueues, OwnedIn, ChainOwned, Resolves, IsResolverOf, Queues
<1> QED
  BY <1>1, AlwaysGood, PTL

\* An empty action stack leaves nothing pending.
LEMMA NothingPending ==
    ASSUME Good, SyncClients = {}, acts = <<>>
    PROVE  chain = <<>>
<1>1. chain \in Seq(Items) /\ DOMAIN acts = {}
  BY DEF Good, TypeOK
<1>3. chain # <<>> => 1 \in DOMAIN chain
  BY <1>1
<1>2. \A n \in DOMAIN chain : \E k \in DOMAIN acts : IsResolverOf(acts[k], chain[n])
  BY DEF Good, GoodQueues, OwnedIn, Queues
<1> QED
  BY <1>1, <1>2, <1>3

LEMMA OnlyAdvanceMovesThePhase ==
    ASSUME Next, <<phase, turns>>' # <<phase, turns>>
    PROVE  acts = <<>>
<1>1. CASE Begin
  BY <1>1 DEF Begin
<1>2. CASE SubmitSome
  BY <1>2 DEF SubmitSome, Submit, gameVars
<1>3. CASE Tick
  BY <1>3 DEF Tick, TickPrompt, TickStateBased, TickAdvance, AdvanceTurnPhase,
              TickWindowOver, TickWindowWaits, TickStaleResolver, TickResolves,
              TickPauses, Consume, gameVars
<1>4. CASE Host
  BY <1>4 DEF Host, HandleTransaction, Consume, ServerPass, ServerPlay,
              AutoPassInternal, Checkpoint, gameVars
<1>5. CASE AttachSome
  BY <1>5 DEF AttachSome, Attach, gameVars
<1> QED
  BY <1>1, <1>2, <1>3, <1>4, <1>5 DEF Next

\* Without a host that attaches checkpoints to the live session, no phase is
\* left and no turn handed over while an item is pending: advance_turn_phase
\* runs on an empty action stack, which owns nothing.
THEOREM PhasesKeepTheChain ==
    ASSUME SyncClients = {} PROVE Spec => PhaseKeepsChain
<1>1. Good /\ [Next]_vars
      => [<<phase, turns>>' # <<phase, turns>> => chain = <<>>]_<<phase, turns, chain>>
  <2> SUFFICES ASSUME Good, [Next]_vars, <<phase, turns>>' # <<phase, turns>>
               PROVE  chain = <<>>
    OBVIOUS
  <2>1. Next
    BY DEF vars, gameVars
  <2> QED
    BY <2>1, OnlyAdvanceMovesThePhase, NothingPending
<1> QED
  BY <1>1, AlwaysGood, PTL DEF Spec, PhaseKeepsChain

---------------------------------------------------------------------------
(* Rounds of responses.  Nobody pending is resolved, and no phase that asks *)
(* all players ended, before the window which asks about it is gone, and a *)
(* window goes when all it asked have declined: a window that waits under  *)
(* others asks anew when it is entered again, one that does not ask anew   *)
(* lacks only players who declined.  First, whom a fresh queue asks.       *)

\* A window with this policy and queue has everyone, or somebody, to hear.
AsksAnew(who, queue) ==
    /\ who = "All" => Players \subseteq ToSet(queue)
    /\ who = "Active" => queue # <<>>

LEMMA ConcatMembers ==
    ASSUME NEW S, NEW u \in Seq(S), NEW v \in Seq(S)
    PROVE  ToSet(u \o v) = ToSet(u) \union ToSet(v)
<1>1. /\ u \o v \in Seq(S) /\ Len(u \o v) = Len(u) + Len(v)
      /\ \A i \in 1 .. Len(u) + Len(v) :
            (u \o v)[i] = IF i <= Len(u) THEN u[i] ELSE v[i - Len(u)]
  BY ConcatProperties
<1> DEFINE w == u \o v
<1>2. w \in Seq(S) /\ Len(w) = Len(u) + Len(v)
  BY <1>1
<1>3. \A i \in DOMAIN w : w[i] = IF i <= Len(u) THEN u[i] ELSE v[i - Len(u)]
  BY <1>1
<1> HIDE DEF w
<1>4. Len(u) \in Nat /\ Len(v) \in Nat
  OBVIOUS
<1>5. \A i \in DOMAIN u : i \in DOMAIN w /\ w[i] = u[i]
  BY <1>2, <1>3, <1>4
<1>6. ASSUME NEW j \in DOMAIN v PROVE \E i \in DOMAIN w : w[i] = v[j]
  <2>1. j + Len(u) \in DOMAIN w /\ w[j + Len(u)] = v[j]
    BY <1>2, <1>3, <1>4
  <2> QED
    BY <2>1
<1>7. \A i \in DOMAIN w : (\E j \in DOMAIN u : w[i] = u[j]) \/ (\E j \in DOMAIN v : w[i] = v[j])
  BY <1>2, <1>3, <1>4
<1>8. ToSet(w) = ToSet(u) \union ToSet(v)
  BY <1>5, <1>6, <1>7 DEF ToSet
<1> QED
  BY <1>8 DEF w

\* Round the table from any seat everyone is asked.
LEMMA OrderIsFull == \A p \in Players : Players \subseteq ToSet(OrderFrom(p))
<1> SUFFICES ASSUME NEW p \in Players, NEW o \in Players
             PROVE  o \in ToSet(OrderFrom(p))
  OBVIOUS
<1> DEFINE n == Seat(p)
           u == SubSeq(PlayerIds, n, Len(PlayerIds))
           v == SubSeq(PlayerIds, 1, n - 1)
<1>1. n \in 1 .. Len(PlayerIds) /\ PlayerIds \in Seq(Players)
  BY SeatType, SeatsAssumption
<1>2. PICK k \in 1 .. Len(PlayerIds) : PlayerIds[k] = o
  BY <1>1 DEF Players, ToSet
<1> HIDE DEF n
<1>3. /\ u \in Seq(Players) /\ Len(u) = Len(PlayerIds) - n + 1
      /\ \A i \in 1 .. Len(PlayerIds) - n + 1 : u[i] = PlayerIds[n + i - 1]
  BY <1>1
<1>4. /\ v \in Seq(Players) /\ Len(v) = n - 1
      /\ \A i \in 1 .. n - 1 : v[i] = PlayerIds[i]
  BY <1>1
<1>5. OrderFrom(p) = u \o v
  BY DEF OrderFrom, n
<1> HIDE DEF u, v
<1>8. ToSet(u \o v) = ToSet(u) \union ToSet(v)
  BY <1>3, <1>4, ConcatMembers
<1>6. CASE k < n
  <2>1. k \in DOMAIN v /\ v[k] = o
    BY <1>1, <1>2, <1>4, <1>6
  <2>2. o \in ToSet(v)
    BY <2>1 DEF ToSet
  <2> QED
    BY <1>5, <1>8, <2>2
<1>7. CASE k >= n
  <2>1. k - n + 1 \in DOMAIN u /\ n + (k - n + 1) - 1 = k
    BY <1>1, <1>2, <1>3, <1>7
  <2>2. u[k - n + 1] = o
    BY <1>1, <1>2, <1>3, <1>7, <2>1
  <2>3. o \in ToSet(u)
    BY <2>1, <2>2 DEF ToSet
  <2> QED
    BY <1>5, <1>8, <2>3
<1> QED
  BY <1>1, <1>2, <1>6, <1>7

LEMMA WindowQueueAsks ==
    ASSUME NEW who, NEW withActive \in BOOLEAN,
           NEW pr \in Players \union {NoPlayer}, NEW player \in Players
    PROVE  AsksAnew(who, WindowQueue(who, withActive, pr, player))
<1>1. CASE who = "All"
  BY <1>1, OrderIsFull DEF WindowQueue, AsksAnew
<1>2. CASE who = "Active"
  BY <1>2 DEF WindowQueue, AsksAnew
<1> QED
  BY <1>1, <1>2 DEF AsksAnew

\* Only the player taken out is missing.
LEMMA WithoutMembers ==
    ASSUME NEW S, NEW s \in Seq(S), NEW e
    PROVE  ToSet(s) \ {e} \subseteq ToSet(Without(s, e))
<1> SUFFICES ASSUME NEW j \in DOMAIN s, s[j] # e PROVE s[j] \in ToSet(Without(s, e))
  BY DEF ToSet
<1>1. CASE ~\E k \in DOMAIN s : s[k] = e
  BY <1>1 DEF Without, ToSet
<1>2. CASE \E k \in DOMAIN s : s[k] = e
  <2> DEFINE k == CHOOSE m \in DOMAIN s : s[m] = e
             u == SubSeq(s, 1, k - 1)
             v == SubSeq(s, k + 1, Len(s))
  <2>1. k \in 1 .. Len(s) /\ s[k] = e
    BY <1>2
  <2>2. Without(s, e) = u \o v
    BY <1>2 DEF Without
  <2> HIDE DEF k
  <2>3. u \in Seq(S) /\ Len(u) = k - 1 /\ \A n \in 1 .. k - 1 : u[n] = s[n]
    BY <2>1
  <2>4. /\ v \in Seq(S) /\ Len(v) = Len(s) - k
        /\ \A n \in 1 .. Len(s) - k : v[n] = s[k + n]
    BY <2>1
  <2> HIDE DEF u, v
  <2>a. ToSet(u \o v) = ToSet(u) \union ToSet(v)
    BY <2>3, <2>4, ConcatMembers
  <2>5. CASE j < k
    <3>1. j \in DOMAIN u /\ u[j] = s[j]
      BY <2>1, <2>3, <2>5
    <3>2. s[j] \in ToSet(u)
      BY <3>1 DEF ToSet
    <3> QED
      BY <2>2, <2>a, <3>2
  <2>6. CASE j > k
    <3>1. j - k \in 1 .. Len(s) - k /\ k + (j - k) = j
      BY <2>1, <2>6
    <3>a. v[j - k] = s[k + (j - k)]
      BY <2>4, <3>1
    <3>b. DOMAIN v = 1 .. Len(v)
      BY <2>4
    <3>2. v[j - k] = s[j] /\ DOMAIN v = 1 .. Len(s) - k
      BY <2>4, <3>1, <3>a, <3>b
    <3>3. s[j] \in ToSet(v)
      BY <3>1, <3>2 DEF ToSet
    <3> QED
      BY <2>2, <2>a, <3>3
  <2> QED
    BY <2>1, <2>5, <2>6
<1> QED
  BY <1>1, <1>2

LEMMA PromoteAsks ==
    ASSUME NEW queue \in Seq(Players), NEW p \in Players
    PROVE  /\ Promote(queue, p) \in Seq(Players) /\ Promote(queue, p) # <<>>
           /\ ToSet(queue) \subseteq ToSet(Promote(queue, p))
<1> DEFINE w == Without(queue, p)
<1>1. w \in Seq(Players) /\ ToSet(queue) \ {p} \subseteq ToSet(w)
  BY WithoutType, WithoutMembers
<1> HIDE DEF w
<1> DEFINE one == <<p>>
<1>2. one \in Seq(Players) /\ ToSet(one) = {p} /\ Len(one) = 1
  BY DEF ToSet
<1>3. Promote(queue, p) = one \o w
  BY DEF Promote, w
<1> HIDE DEF one
<1>4. one \o w \in Seq(Players) /\ Len(one \o w) = 1 + Len(w)
  BY <1>1, <1>2, ConcatProperties
<1>5. ToSet(one \o w) = {p} \union ToSet(w)
  BY <1>1, <1>2, ConcatMembers
<1>6. one \o w # <<>>
  BY <1>1, <1>4
<1> QED
  BY <1>1, <1>3, <1>4, <1>5, <1>6

LEMMA ResponseQueueAsks ==
    ASSUME NEW who, NEW first \in Players,
           NEW prev \in Players \union {NoPlayer}, NEW player \in Players
    PROVE  AsksAnew(who, ResponseQueue(who, first, prev, player))
<1> DEFINE queue == WindowQueue(who, FALSE, prev, player)
<1>1. queue \in Seq(Players) /\ AsksAnew(who, queue)
  BY WindowQueueType, WindowQueueAsks
<1>2. ResponseQueue(who, first, prev, player)
        = IF who = "Active" /\ first # player THEN <<first>> ELSE Promote(queue, first)
  BY DEF ResponseQueue
<1> HIDE DEF queue
<1>3. Promote(queue, first) # <<>> /\ ToSet(queue) \subseteq ToSet(Promote(queue, first))
  BY <1>1, PromoteAsks
<1> QED
  BY <1>1, <1>2, <1>3 DEF AsksAnew

LEMMA TailMembers ==
    ASSUME NEW queue \in Seq(Players), queue # <<>>
    PROVE  ToSet(queue) \subseteq {Head(queue)} \union ToSet(Tail(queue))
<1>1. /\ Tail(queue) \in Seq(Players) /\ Len(Tail(queue)) = Len(queue) - 1
      /\ \A i \in 1 .. Len(Tail(queue)) : Tail(queue)[i] = queue[i + 1]
  BY HeadTailProperties
<1>2. ASSUME NEW k \in DOMAIN queue, k # 1 PROVE queue[k] \in ToSet(Tail(queue))
  <2> DEFINE t == Tail(queue)
  <2>1. k - 1 \in DOMAIN t /\ t[k - 1] = queue[k]
    BY <1>1, <1>2
  <2> HIDE DEF t
  <2>2. queue[k] \in ToSet(t)
    BY <2>1 DEF ToSet
  <2> QED
    BY <2>2 DEF t
<1>3. Head(queue) = queue[1]
  OBVIOUS
<1> QED
  BY <1>2, <1>3 DEF ToSet

LEMMA SomebodyPlays == Players # {}
BY SeatsAssumption DEF Players, ToSet

\* Taking the last item of a chain off it, under what was queued meanwhile.
LEMMA LastTakenOff ==
    ASSUME NEW S, NEW c \in Seq(S), c # <<>>, NEW t \in Seq(S), IsInjective(c \o t)
    PROVE  Without(c \o t, Last(c)) = Front(c) \o t
<1> DEFINE s == c \o t
           p == Len(c)
           f == Front(c)
           d == Without(s, s[p])
<1>1. /\ s \in Seq(S) /\ Len(s) = Len(c) + Len(t) /\ p \in Nat \ {0} /\ Len(t) \in Nat
      /\ \A n \in 1 .. Len(c) : s[n] = c[n]
      /\ \A n \in 1 .. Len(t) : s[Len(c) + n] = t[n]
  OBVIOUS
<1>2. p \in DOMAIN s /\ s[p] = Last(c)
  BY <1>1 DEF Last
<1>3. f \in Seq(S) /\ Len(f) = p - 1 /\ \A n \in 1 .. p - 1 : f[n] = c[n]
  <2>1. \A n \in 1 .. p - 1 : c[n] \in S
    BY <1>1
  <2>2. /\ SubSeq(c, 1, p - 1) \in Seq(S)
        /\ Len(SubSeq(c, 1, p - 1)) = IF 1 <= p - 1 THEN (p - 1) - 1 + 1 ELSE 0
        /\ \A n \in 1 .. (p - 1) - 1 + 1 : SubSeq(c, 1, p - 1)[n] = c[1 + n - 1]
    BY <1>1, <2>1, SubSeqProperties
  <2>3. \A n \in 1 .. p - 1 : 1 + n - 1 = n
    OBVIOUS
  <2>4. p - 1 = (p - 1) - 1 + 1
    BY <1>1
  <2> QED
    BY <1>1, <2>2, <2>3, <2>4 DEF Front
<1> HIDE DEF f, s
<1>4. /\ d \in Seq(S) /\ Len(d) = Len(s) - 1
      /\ \A n \in 1 .. Len(s) - 1 : d[n] = IF n < p THEN s[n] ELSE s[n + 1]
  BY <1>1, <1>2, WithoutKeeps DEF s
<1> HIDE DEF d
<1>5. /\ f \o t \in Seq(S) /\ Len(f \o t) = Len(d)
      /\ \A n \in 1 .. p - 1 : (f \o t)[n] = f[n]
      /\ \A n \in 1 .. Len(t) : (f \o t)[p - 1 + n] = t[n]
  BY <1>1, <1>3, <1>4
<1>6. ASSUME NEW n \in 1 .. Len(d) PROVE d[n] = (f \o t)[n]
  <2>1. CASE n < p
    BY <1>1, <1>3, <1>4, <1>5, <2>1
  <2>2. CASE n >= p
    <3> DEFINE m == n - (p - 1)
    <3>1. m \in 1 .. Len(t) /\ n = p - 1 + m /\ n + 1 = p + m
      BY <1>1, <1>4, <2>2
    <3> HIDE DEF m
    <3>2. (f \o t)[n] = t[m] /\ s[n + 1] = t[m]
      BY <1>1, <1>5, <3>1
    <3> QED
      BY <1>4, <2>2, <3>2
  <2>3. n \in Nat /\ p \in Nat
    BY <1>1
  <2>4. n < p \/ n >= p
    BY <2>3
  <2> QED
    BY <2>1, <2>2, <2>4
<1>7. d = f \o t
  <2> DEFINE g == f \o t
  <2>1. d \in Seq(S) /\ g \in Seq(S) /\ Len(g) = Len(d) /\ \A n \in 1 .. Len(d) : d[n] = g[n]
    BY <1>4, <1>5, <1>6
  <2> HIDE DEF g
  <2>2. d = g
    BY <2>1
  <2> QED
    BY <2>2 DEF g
<1> QED
  BY <1>2, <1>7 DEF d, f, s

LEMMA AppendGives ==
    ASSUME NEW S, NEW s \in Seq(S), NEW j \in S
    PROVE  /\ Append(s, j) \in Seq(S) /\ Len(Append(s, j)) = Len(s) + 1
           /\ \A k \in 1 .. Len(s) : Append(s, j)[k] = s[k]
           /\ Append(s, j)[Len(s) + 1] = j
OBVIOUS

---------------------------------------------------------------------------
(* Where windows stand and what they remember, about one record and the     *)
(* phase p whose window may be in it.                                      *)

IsWindowOf(a, i) == IsWindow(a) /\ a.item = i

\* The phase's window is at the bottom; every other stands on the resolver of
\* a pending item and has the policy queue_projected_chain chose.
PlacedIn(q, p) ==
    \A k \in DOMAIN q.acts : IsWindow(q.acts[k]) =>
        \/ /\ q.acts[k].item = NoItem
           /\ k = 1
           /\ PriorityPlayers[p] = "All" => q.acts[k].who = "All"
        \/ /\ q.acts[k].item \in ToSet(q.chain)
           /\ k > 1
           /\ IsResolverOf(q.acts[k - 1], q.acts[k].item)
           /\ q.acts[k].who = ItemPolicy(q.acts[k].item)

\* One action at most is current_action.
EnteredOnceIn(q) ==
    \A k, l \in DOMAIN q.acts : q.acts[k].cur /\ q.acts[l].cur => k = l

\* A window under others was interrupted, or was never asked.
CoveredIn(q) ==
    \A k \in DOMAIN q.acts : k < Len(q.acts) /\ IsWindow(q.acts[k]) =>
        q.acts[k].hit \/ AsksAnew(q.acts[k].who, q.acts[k].queue)

\* Those the top window will not ask any more have declined.
HeardOut(w, declined) ==
    /\ w.who = "All" => Players \subseteq ToSet(w.queue) \union declined
    /\ w.who = "Active" => w.queue # <<>> \/ declined # {}

HeardIn(q) ==
    q.acts # <<>> /\ IsWindow(Top(q.acts)) /\ (Top(q.acts).cur \/ ~Top(q.acts).hit)
        => HeardOut(Top(q.acts), q.heard)

\* The resolver of a pending item has the item's window on it, unless those in
\* done were answered or nobody may respond.
AnsweredIn(q, done) ==
    \A k \in DOMAIN q.acts :
        IsResolve(q.acts[k]) /\ q.acts[k].item \in ToSet(q.chain) =>
            \/ k < Len(q.acts) /\ IsWindowOf(q.acts[k + 1], q.acts[k].item)
            \/ q.acts[k].item \in done \union Chainless

\* The phase's window is there until all players declined.
PhaseAskedIn(q, p, done) ==
    PriorityPlayers[p] = "All" =>
        NoItem \in done \/ (q.acts # <<>> /\ IsWindowOf(q.acts[1], NoItem))

RoundsIn(q, p) == PlacedIn(q, p) /\ EnteredOnceIn(q) /\ CoveredIn(q) /\ HeardIn(q)

FairIn(q, p, done) ==
    RoundsIn(q, p) /\ AnsweredIn(q, done) /\ PhaseAskedIn(q, p, done)

\* What Become makes of the history of declined rounds.
DoneIn(q) ==
    (q.settled \intersect (ToSet(q.chain) \union {NoItem}))
       \union {i \in {TopOf(q.chain)} : Complete(i, q.heard)}

\* Two actions alike but for the queue and the flags, or but for the flags.
Alike(a, b) == Same(a, b) /\ a.who = b.who

Frozen(a, b) == Alike(a, b) /\ a.queue = b.queue /\ a.hit = b.hit

\* Operations that change no more than the top action's queue and flags.
LEMMA FairTop ==
    ASSUME NEW q \in QueueRecords, NEW r \in QueueRecords, NEW p, NEW done,
           RoundsIn(q, p), q.acts # <<>>,
           r.chain = q.chain, DOMAIN r.acts = DOMAIN q.acts,
           \A k \in DOMAIN q.acts :
               /\ Alike(r.acts[k], q.acts[k])
               /\ k # Len(q.acts) => Frozen(r.acts[k], q.acts[k]),
           EnteredOnceIn(r), HeardIn(r)
    PROVE  /\ RoundsIn(r, p)
           /\ AnsweredIn(q, done) => AnsweredIn(r, done)
           /\ PhaseAskedIn(q, p, done) => PhaseAskedIn(r, p, done)
<1>1. /\ q.acts \in Seq(Actions) /\ r.acts \in Seq(Actions)
      /\ DOMAIN q.acts = 1 .. Len(q.acts) /\ DOMAIN r.acts = 1 .. Len(r.acts)
      /\ Len(q.acts) \in Nat /\ Len(r.acts) \in Nat
  BY DEF QueueRecords
<1>2. Len(r.acts) = Len(q.acts) /\ Len(q.acts) # 0 /\ r.acts # <<>>
  BY <1>1
<1>3. \A k \in DOMAIN q.acts : \A i :
        /\ r.acts[k].kind = q.acts[k].kind /\ r.acts[k].item = q.acts[k].item
        /\ r.acts[k].who = q.acts[k].who
        /\ IsWindow(r.acts[k]) <=> IsWindow(q.acts[k])
        /\ IsResolve(r.acts[k]) <=> IsResolve(q.acts[k])
        /\ IsResolverOf(r.acts[k], i) <=> IsResolverOf(q.acts[k], i)
        /\ IsWindowOf(r.acts[k], i) <=> IsWindowOf(q.acts[k], i)
  BY DEF Alike, Same, IsWindow, IsResolve, IsResolverOf, IsWindowOf
<1>4. PlacedIn(r, p)
  <2>1. ASSUME NEW k \in DOMAIN r.acts, IsWindow(r.acts[k]), r.acts[k].item # NoItem
        PROVE  /\ r.acts[k].item \in ToSet(r.chain)
               /\ k > 1
               /\ IsResolverOf(r.acts[k - 1], r.acts[k].item)
               /\ r.acts[k].who = ItemPolicy(r.acts[k].item)
    <3>1. k \in DOMAIN q.acts /\ IsWindow(q.acts[k]) /\ q.acts[k].item = r.acts[k].item
      BY <1>3, <2>1
    <3>2. /\ q.acts[k].item \in ToSet(q.chain)
          /\ k > 1
          /\ IsResolverOf(q.acts[k - 1], q.acts[k].item)
          /\ q.acts[k].who = ItemPolicy(q.acts[k].item)
      BY <2>1, <3>1 DEF RoundsIn, PlacedIn
    <3>3. k - 1 \in DOMAIN q.acts
      BY <1>1, <3>1, <3>2
    <3> QED
      BY <1>3, <3>1, <3>2, <3>3
  <2>2. ASSUME NEW k \in DOMAIN r.acts, IsWindow(r.acts[k]), r.acts[k].item = NoItem
        PROVE  \/ /\ k = 1
                  /\ PriorityPlayers[p] = "All" => r.acts[k].who = "All"
               \/ /\ r.acts[k].item \in ToSet(r.chain)
                  /\ k > 1
                  /\ IsResolverOf(r.acts[k - 1], r.acts[k].item)
                  /\ r.acts[k].who = ItemPolicy(r.acts[k].item)
    <3>1. /\ k \in DOMAIN q.acts /\ IsWindow(q.acts[k])
          /\ q.acts[k].item = r.acts[k].item /\ q.acts[k].who = r.acts[k].who
      BY <1>3, <2>2
    <3>2. NoItem \notin ToSet(q.chain)
      BY NoneAssumption DEF QueueRecords, ToSet
    <3> QED
      BY <2>2, <3>1, <3>2 DEF RoundsIn, PlacedIn
  <2> QED
    BY <2>1, <2>2 DEF PlacedIn
<1>5. CoveredIn(r)
  <2> SUFFICES ASSUME NEW k \in DOMAIN r.acts, k < Len(r.acts), IsWindow(r.acts[k])
               PROVE  r.acts[k].hit \/ AsksAnew(r.acts[k].who, r.acts[k].queue)
    BY DEF CoveredIn
  <2>1. k \in DOMAIN q.acts /\ k < Len(q.acts) /\ IsWindow(q.acts[k])
    BY <1>2, <1>3
  <2>2. Frozen(r.acts[k], q.acts[k])
    BY <1>1, <2>1
  <2> QED
    BY <2>1, <2>2 DEF RoundsIn, CoveredIn, Frozen, Alike
<1>6. ASSUME AnsweredIn(q, done) PROVE AnsweredIn(r, done)
  <2> SUFFICES ASSUME NEW k \in DOMAIN r.acts, IsResolve(r.acts[k]),
                      r.acts[k].item \in ToSet(r.chain),
                      r.acts[k].item \notin done \union Chainless
               PROVE  k < Len(r.acts) /\ IsWindowOf(r.acts[k + 1], r.acts[k].item)
    BY DEF AnsweredIn
  <2>1. k < Len(q.acts) /\ IsWindowOf(q.acts[k + 1], q.acts[k].item)
    BY <1>3, <1>6 DEF AnsweredIn
  <2>2. k + 1 \in DOMAIN q.acts
    BY <1>1, <2>1
  <2> QED
    BY <1>2, <1>3, <2>1, <2>2
<1>7. ASSUME PhaseAskedIn(q, p, done) PROVE PhaseAskedIn(r, p, done)
  BY <1>1, <1>2, <1>3, <1>7 DEF PhaseAskedIn
<1> QED
  BY <1>4, <1>5, <1>6, <1>7 DEF RoundsIn

\* A queue given to the top action.
LEMMA FairQueue ==
    ASSUME NEW q \in QueueRecords, NEW r \in QueueRecords, NEW p, NEW done,
           RoundsIn(q, p), q.acts # <<>>, NEW queue \in Seq(Players),
           r.acts = [q.acts EXCEPT ![Len(q.acts)].queue = queue],
           r.chain = q.chain,
           IsWindow(Top(q.acts)) /\ (Top(q.acts).cur \/ ~Top(q.acts).hit)
               => HeardOut([Top(q.acts) EXCEPT !.queue = queue], r.heard)
    PROVE  /\ RoundsIn(r, p)
           /\ AnsweredIn(q, done) => AnsweredIn(r, done)
           /\ PhaseAskedIn(q, p, done) => PhaseAskedIn(r, p, done)
<1> DEFINE s == q.acts
           top == [s[Len(s)] EXCEPT !.queue = queue]
<1>1. /\ s \in Seq(Actions) /\ s # <<>> /\ Len(s) \in DOMAIN s
      /\ s[Len(s)] \in Actions /\ Top(s) = s[Len(s)]
  BY TopType DEF QueueRecords
<1>2. /\ top.kind = s[Len(s)].kind /\ top.item = s[Len(s)].item
      /\ top.who = s[Len(s)].who /\ top.queue = queue
      /\ top.hit = s[Len(s)].hit /\ top.cur = s[Len(s)].cur
  BY <1>1 DEF Actions
<1>3. r.acts = [s EXCEPT ![Len(s)] = top]
  OBVIOUS
<1>a. [Top(q.acts) EXCEPT !.queue = queue] = top
  BY <1>1
<1>b. s = q.acts
  OBVIOUS
<1> HIDE DEF s, top
<1>4. DOMAIN r.acts = DOMAIN s
  BY <1>3
<1>5. \A k \in DOMAIN s : r.acts[k] = IF k = Len(s) THEN top ELSE s[k]
  BY <1>3
<1>6. \A k \in DOMAIN s :
        /\ Alike(r.acts[k], s[k])
        /\ k # Len(s) => Frozen(r.acts[k], s[k])
        /\ r.acts[k].cur = s[k].cur
  BY <1>2, <1>5 DEF Alike, Frozen, Same
<1>7. EnteredOnceIn(r)
  BY <1>4, <1>6, <1>b DEF RoundsIn, EnteredOnceIn
<1>8. Top(r.acts) = top
  <2>1. r.acts \in Seq(Actions) /\ Len(r.acts) = Len(s)
    <3>1. r.acts \in Seq(Actions)
      BY DEF QueueRecords
    <3>2. DOMAIN r.acts = 1 .. Len(r.acts) /\ Len(r.acts) \in Nat
      BY <3>1
    <3>3. DOMAIN s = 1 .. Len(s) /\ Len(s) \in Nat
      BY <1>1
    <3> DEFINE m == Len(r.acts)  n == Len(s)
    <3>4. 1 .. m = 1 .. n /\ m \in Nat /\ n \in Nat
      BY <1>4, <3>2, <3>3
    <3> HIDE DEF m, n
    <3>5. m = n
      BY <3>4
    <3> QED
      BY <3>1, <3>5 DEF m, n
  <2> QED
    BY <1>1, <1>5, <2>1 DEF Top
<1>9. HeardIn(r)
  <2>1. IsWindow(top) <=> IsWindow(Top(s))
    BY <1>1, <1>2 DEF IsWindow
  <2> QED
    BY <1>1, <1>2, <1>8, <1>a, <1>b, <2>1 DEF HeardIn
<1> QED
  BY <1>4, <1>6, <1>7, <1>9, <1>b, FairTop

\* A player who passes is heard.
LEMMA FairAfterPass ==
    ASSUME NEW q \in QueueRecords, NEW p, NEW done, FairIn(q, p, done),
           NEW player, CanPass(q, player)
    PROVE  FairIn(AfterPass(q, player), p, done)
<1> DEFINE r == AfterPass(q, player)
           w == Top(q.acts)
           queue == Tail(w.queue)
<1>1. /\ q.acts \in Seq(Actions) /\ q.acts # <<>> /\ IsWindow(w)
      /\ player \in Players /\ FirstAsked(w.queue) = player
      /\ w \in Actions
  BY TopType DEF CanPass, CouldPass, QueueRecords
<1>2. w.queue \in Seq(Players) /\ w.queue # <<>> /\ Head(w.queue) = player
  BY <1>1, NoneAssumption DEF FirstAsked, Actions
<1>3. queue \in Seq(Players) /\ ToSet(w.queue) \subseteq {player} \union ToSet(queue)
  BY <1>2, HeadTailProperties, TailMembers
<1>4. r \in QueueRecords
  BY AfterPassType
<1>5. /\ r.chain = q.chain /\ r.heard = q.heard \union {player}
      /\ r.acts = [q.acts EXCEPT ![Len(q.acts)].queue = queue]
  BY DEF AfterPass, Passed, QueueRecords, Top
<1>6. [w EXCEPT !.queue = queue].queue = queue /\ [w EXCEPT !.queue = queue].who = w.who
  BY <1>1 DEF Actions
<1> HIDE DEF w, queue, r
<1>7. ASSUME w.cur \/ ~w.hit PROVE HeardOut([w EXCEPT !.queue = queue], r.heard)
  <2>1. HeardOut(w, q.heard)
    BY <1>1, <1>7 DEF FairIn, RoundsIn, HeardIn, w
  <2> QED
    BY <1>3, <1>5, <1>6, <2>1 DEF HeardOut
<1>8. FairIn(r, p, done)
  <2>1. /\ RoundsIn(r, p)
        /\ AnsweredIn(q, done) => AnsweredIn(r, done)
        /\ PhaseAskedIn(q, p, done) => PhaseAskedIn(r, p, done)
    BY <1>1, <1>3, <1>4, <1>5, <1>7, FairQueue DEF FairIn, w
  <2> QED
    BY <2>1 DEF FairIn
<1> QED
  BY <1>8 DEF r

\* The player a snapshot names is put first; the others stay.
LEMMA FairReconciled ==
    ASSUME TypeOK, NEW p, NEW done, FairIn(Queues, p, done)
    PROVE  FairIn(Reconciled, p, done)
<1>1. CASE ~Reconciles
  BY <1>1 DEF Reconciled
<1>2. CASE Reconciles
  <2> DEFINE w == Top(acts)
             queue == IF w.who = "Active" /\ savedPrio # active
                      THEN <<savedPrio>> ELSE Promote(w.queue, savedPrio)
             r == [Queues EXCEPT !.prio = savedPrio,
                                 !.acts = [acts EXCEPT ![Len(acts)].queue = queue]]
  <2>1. /\ acts \in Seq(Actions) /\ acts # <<>> /\ w \in Actions
        /\ savedPrio \in Players
    BY <1>2, TopType DEF Reconciles, TypeOK
  <2>2. Reconciled = r
    BY <1>2 DEF Reconciled, Queues
  <2>3. r \in QueueRecords /\ Queues \in QueueRecords
    BY <2>2, ReconciledType, QueuesType
  <2>4. w.queue \in Seq(Players)
    BY <2>1 DEF Actions
  <2>5. /\ queue \in Seq(Players) /\ queue # <<>>
        /\ w.who = "All" => ToSet(w.queue) \subseteq ToSet(queue)
    <3>1. /\ Promote(w.queue, savedPrio) \in Seq(Players)
          /\ Promote(w.queue, savedPrio) # <<>>
          /\ ToSet(w.queue) \subseteq ToSet(Promote(w.queue, savedPrio))
      BY <2>1, <2>4, PromoteAsks
    <3>2. <<savedPrio>> \in Seq(Players) /\ <<savedPrio>> # <<>>
      BY <2>1
    <3> QED
      BY <3>1, <3>2
  <2>6. /\ r.chain = Queues.chain /\ r.heard = Queues.heard /\ Queues.acts = acts
        /\ r.acts = [acts EXCEPT ![Len(acts)].queue = queue]
    BY DEF Queues
  <2>7. [w EXCEPT !.queue = queue].queue = queue /\ [w EXCEPT !.queue = queue].who = w.who
    BY <2>1 DEF Actions
  <2> HIDE DEF w, queue, r
  <2>8. ASSUME IsWindow(w), w.cur \/ ~w.hit
        PROVE  HeardOut([w EXCEPT !.queue = queue], r.heard)
    <3>1. HeardOut(w, Queues.heard)
      BY <2>1, <2>6, <2>8 DEF FairIn, RoundsIn, HeardIn, w
    <3> QED
      BY <2>5, <2>6, <2>7, <3>1 DEF HeardOut
  <2>9. /\ RoundsIn(r, p)
        /\ AnsweredIn(Queues, done) => AnsweredIn(r, done)
        /\ PhaseAskedIn(Queues, p, done) => PhaseAskedIn(r, p, done)
    BY <2>1, <2>3, <2>5, <2>6, <2>8, FairQueue DEF FairIn, w
  <2> QED
    BY <2>2, <2>9 DEF FairIn
<1> QED
  BY <1>1, <1>2

LEMMA MarkCurrentKeeps ==
    ASSUME NEW s \in Seq(Actions), NEW k \in DOMAIN s
    PROVE  /\ MarkCurrent(s)[k] \in Actions
           /\ Frozen(MarkCurrent(s)[k], s[k])
           /\ MarkCurrent(s)[k].cur <=> k = Len(s)
<1> DEFINE a == s[k]  b == (k = Len(s))
<1>1. a \in Actions /\ b \in BOOLEAN
  OBVIOUS
<1>2. MarkCurrent(s)[k] = [a EXCEPT !.cur = b]
  BY DEF MarkCurrent
<1> HIDE DEF a
<1>3. a \in Actions => [a EXCEPT !.cur = b].cur = b
  BY DEF Actions
<1>4. MarkCurrent(s)[k].cur <=> b
  BY <1>1, <1>2, <1>3, Zenon
<1> HIDE DEF b
<1>5. /\ [a EXCEPT !.cur = b] \in Actions
      /\ Frozen([a EXCEPT !.cur = b], a)
  BY <1>1 DEF Actions, Frozen, Alike, Same
<1> QED
  BY <1>2, <1>4, <1>5 DEF a, b

\* The first half of an update asks anew whom an interruption owes it.
LEMMA FairEnteredQueues ==
    ASSUME NEW q \in QueueRecords, q.acts # <<>>, active \in Players,
           NEW p, NEW done, FairIn(q, p, done)
    PROVE  LET e == EnteredQueues(q)
           IN  /\ e \in QueueRecords /\ FairIn(e, p, done)
               /\ e.acts # <<>> /\ Top(e.acts).cur
               /\ Alike(Top(e.acts), Top(q.acts))
               /\ e.chain = q.chain /\ e.fresh = q.fresh
               /\ e.heard = q.heard /\ e.settled = q.settled
<1> DEFINE e == EnteredQueues(q)
           s == q.acts
           n == Len(s)
           m == MarkCurrent(s)
           anew == WindowQueue(Top(s).who, TRUE, q.prio, active)
           top == [m[n] EXCEPT !.queue = anew]
           f == [m EXCEPT ![n] = top]
<1>1. /\ s \in Seq(Actions) /\ s # <<>> /\ n \in DOMAIN s /\ Top(s) = s[n]
      /\ s[n] \in Actions /\ DOMAIN s = 1 .. n
  BY TopType DEF QueueRecords
<1>2. e \in QueueRecords
  BY EnteredQueuesType
<1>3. /\ e.chain = q.chain /\ e.fresh = q.fresh /\ e.heard = q.heard
      /\ e.settled = q.settled /\ e.acts = EnteredStack(s, q.prio, active)
  BY DEF EnteredQueues, QueueRecords
<1>4. anew \in Seq(Players) /\ AsksAnew(Top(s).who, anew)
  BY WindowQueueType, WindowQueueAsks DEF QueueRecords
<1>5. /\ m \in Seq(Actions) /\ Len(m) = n /\ DOMAIN m = DOMAIN s
      /\ \A k \in DOMAIN s : /\ m[k] \in Actions /\ Frozen(m[k], s[k])
                             /\ m[k].cur <=> k = n
  <2>1. DOMAIN m = DOMAIN s
    BY DEF MarkCurrent
  <2> QED
    BY <1>1, <2>1, MarkCurrentKeeps, MarkCurrentType
<1>6. e.acts = IF Top(s).cur THEN s ELSE IF Reopens(s) THEN f ELSE m
  BY <1>3 DEF EnteredStack
<1>a. s = q.acts /\ n = Len(s)
  OBVIOUS
<1> HIDE DEF m, anew, s, e, n
<1>7. /\ top \in Actions /\ top.kind = m[n].kind /\ top.item = m[n].item
      /\ top.who = m[n].who /\ top.queue = anew
      /\ top.hit = m[n].hit /\ top.cur = m[n].cur
  BY <1>1, <1>4, <1>5 DEF Actions
<1> HIDE DEF top
<1>8. DOMAIN f = DOMAIN s /\ \A k \in DOMAIN s : f[k] = IF k = n THEN top ELSE m[k]
  BY <1>5
<1> HIDE DEF f
<1>9. ASSUME DOMAIN e.acts = DOMAIN s,
             \A k \in DOMAIN s : /\ Alike(e.acts[k], s[k])
                                 /\ k # n => Frozen(e.acts[k], s[k])
                                 /\ e.acts[k].cur <=> k = n,
             IsWindow(s[n]) => HeardOut(e.acts[n], q.heard)
      PROVE  FairIn(e, p, done) /\ e.acts # <<>> /\ Top(e.acts).cur
             /\ Alike(Top(e.acts), Top(s))
  <2>1. EnteredOnceIn(e)
    BY <1>9 DEF EnteredOnceIn
  <2>2. e.acts \in Seq(Actions) /\ Len(e.acts) = n
    <3>1. e.acts \in Seq(Actions)
      BY <1>2 DEF QueueRecords
    <3>2. 1 .. Len(e.acts) = 1 .. n /\ Len(e.acts) \in Nat /\ n \in Nat
      BY <1>1, <1>9, <3>1 DEF n
    <3> DEFINE l == Len(e.acts)
    <3>3. 1 .. l = 1 .. n /\ l \in Nat /\ n \in Nat
      BY <3>2
    <3> HIDE DEF l
    <3>4. l = n
      BY <3>3
    <3> QED
      BY <3>1, <3>4 DEF l
  <2>3. Top(e.acts) = e.acts[n]
    BY <2>2 DEF Top
  <2>4. IsWindow(e.acts[n]) <=> IsWindow(s[n])
    BY <1>1, <1>9 DEF Alike, Same, IsWindow
  <2>5. HeardIn(e)
    BY <1>3, <1>9, <2>3, <2>4 DEF HeardIn
  <2>6. /\ RoundsIn(e, p)
        /\ AnsweredIn(q, done) => AnsweredIn(e, done)
        /\ PhaseAskedIn(q, p, done) => PhaseAskedIn(e, p, done)
    BY <1>1, <1>2, <1>3, <1>9, <1>a, <2>1, <2>5, FairTop DEF FairIn
  <2>7. FairIn(e, p, done)
    BY <2>6 DEF FairIn
  <2>8. e.acts # <<>>
    BY <1>1, <1>9
  <2> QED
    BY <1>1, <1>9, <2>3, <2>7, <2>8
<1>10. HeardIn(q) /\ EnteredOnceIn(q)
  BY DEF FairIn, RoundsIn
<1>11. CASE Top(s).cur
  <2>1. e.acts = s
    BY <1>6, <1>11
  <2>2. \A k \in DOMAIN s : s[k].cur <=> k = n
    BY <1>1, <1>10, <1>11, <1>a DEF EnteredOnceIn
  <2>3. IsWindow(s[n]) => HeardOut(s[n], q.heard)
    BY <1>1, <1>10, <1>11, <1>a DEF HeardIn
  <2>4. \A k \in DOMAIN s : Alike(s[k], s[k]) /\ Frozen(s[k], s[k])
    BY DEF Alike, Frozen, Same
  <2> QED
    BY <1>2, <1>3, <1>9, <1>a, <2>1, <2>2, <2>3, <2>4 DEF e
<1>12. CASE ~Top(s).cur /\ ~Reopens(s)
  <2>1. e.acts = m
    BY <1>6, <1>12
  <2>2. IsWindow(s[n]) => HeardOut(s[n], q.heard)
    BY <1>1, <1>10, <1>12, <1>a DEF HeardIn, Reopens
  <2>3. IsWindow(s[n]) => HeardOut(m[n], q.heard)
    BY <1>1, <1>5, <2>2 DEF HeardOut, Frozen, Alike
  <2>4. \A k \in DOMAIN s : Alike(m[k], s[k])
    BY <1>5 DEF Frozen
  <2> QED
    BY <1>2, <1>3, <1>5, <1>9, <1>a, <2>1, <2>3, <2>4 DEF e
<1>13. CASE ~Top(s).cur /\ Reopens(s)
  <2>1. e.acts = f
    BY <1>6, <1>13
  <2>2. m[n].who = s[n].who
    BY <1>1, <1>5 DEF Frozen, Alike
  <2>3. HeardOut(f[n], q.heard)
    BY <1>1, <1>4, <1>7, <1>8, <2>2 DEF HeardOut, AsksAnew
  <2>4. \A k \in DOMAIN s :
          /\ Alike(f[k], s[k])
          /\ k # n => Frozen(f[k], s[k])
          /\ f[k].cur <=> k = n
    BY <1>5, <1>7, <1>8 DEF Frozen, Alike, Same
  <2> QED
    BY <1>2, <1>3, <1>8, <1>9, <1>a, <2>1, <2>3, <2>4 DEF e
<1> QED
  BY <1>11, <1>12, <1>13

\* The top action goes once entered: what waits below asks anew, and whoever
\* the action asked about, if it was a window, is in done.
LEMMA FairPop ==
    ASSUME NEW e \in QueueRecords, e.acts # <<>>, NEW p, NEW done,
           FairIn(e, p, done), Top(e.acts).cur,
           (IsWindow(Top(e.acts)) /\ Top(e.acts).item # NoItem)
               => Top(e.acts).item \in done \union Chainless,
           (IsWindowOf(Top(e.acts), NoItem) /\ PriorityPlayers[p] = "All")
               => NoItem \in done
    PROVE  FairIn([e EXCEPT !.acts = Pop(@)], p, done)
<1> DEFINE r == [e EXCEPT !.acts = Pop(@)]
           s == e.acts
           n == Len(s)
<1>1. /\ s \in Seq(Actions) /\ n \in Nat \ {0} /\ DOMAIN s = 1 .. n
      /\ Top(s) = s[n] /\ n \in DOMAIN s
  BY TopType DEF QueueRecords
<1>2. /\ r \in QueueRecords /\ r.acts = Pop(s) /\ r.chain = e.chain
      /\ r.heard = e.heard
  BY PopQueuesType DEF QueueRecords
<1>3. /\ Pop(s) \in Seq(Actions) /\ Len(Pop(s)) = n - 1
      /\ \A k \in 1 .. n - 1 : Pop(s)[k] = s[k]
  BY <1>1, PopKeeps, PopType
<1>s. s = e.acts
  OBVIOUS
<1> HIDE DEF r, s, n
<1>4. /\ DOMAIN r.acts = 1 .. n - 1 /\ Len(r.acts) = n - 1
      /\ \A k \in 1 .. n - 1 : r.acts[k] = s[k] /\ k \in DOMAIN s
  BY <1>1, <1>2, <1>3
<1>5. NoItem \notin ToSet(e.chain)
  BY NoneAssumption DEF QueueRecords, ToSet
<1>6. PlacedIn(r, p)
  <2> SUFFICES ASSUME NEW k \in 1 .. n - 1, IsWindow(s[k])
               PROVE  \/ /\ s[k].item = NoItem
                         /\ k = 1
                         /\ PriorityPlayers[p] = "All" => s[k].who = "All"
                      \/ /\ s[k].item \in ToSet(e.chain)
                         /\ k > 1
                         /\ IsResolverOf(r.acts[k - 1], s[k].item)
                         /\ s[k].who = ItemPolicy(s[k].item)
    BY <1>2, <1>4 DEF PlacedIn
  <2>1. k > 1 => k - 1 \in 1 .. n - 1
    BY <1>1
  <2>2. k > 1 => r.acts[k - 1] = s[k - 1]
    BY <1>4, <2>1
  <2>3. k \in DOMAIN e.acts /\ e.acts[k] = s[k] /\ e.acts[k - 1] = s[k - 1]
    BY <1>4, <1>s
  <2> QED
    BY <2>2, <2>3 DEF FairIn, RoundsIn, PlacedIn
<1>7. EnteredOnceIn(r)
  BY <1>4, <1>s DEF FairIn, RoundsIn, EnteredOnceIn
<1>8. \A k \in 1 .. n - 1 : IsWindow(s[k]) => s[k].hit \/ AsksAnew(s[k].who, s[k].queue)
  <2>1. \A k \in 1 .. n - 1 : k < n
    BY <1>1
  <2> QED
    BY <1>4, <1>s, <2>1 DEF FairIn, RoundsIn, CoveredIn, n
<1>9. CoveredIn(r)
  BY <1>4, <1>8 DEF CoveredIn
<1>10. HeardIn(r)
  <2> SUFFICES ASSUME r.acts # <<>>, IsWindow(Top(r.acts)),
                      Top(r.acts).cur \/ ~Top(r.acts).hit
               PROVE  HeardOut(Top(r.acts), r.heard)
    BY DEF HeardIn
  <2>1. n - 1 \in 1 .. n - 1
    <3>1. r.acts \in Seq(Actions)
      BY <1>2, <1>3
    <3>2. Len(r.acts) # 0
      BY <3>1
    <3> QED
      BY <1>1, <1>4, <3>2
  <2>2. Top(r.acts) = s[n - 1] /\ n - 1 # n
    BY <1>1, <1>4, <2>1 DEF Top
  <2>3. ~s[n - 1].cur
    BY <1>1, <1>4, <1>s, <2>1, <2>2 DEF FairIn, RoundsIn, EnteredOnceIn
  <2>4. AsksAnew(s[n - 1].who, s[n - 1].queue)
    BY <1>8, <2>1, <2>2, <2>3
  <2> QED
    BY <2>2, <2>4 DEF HeardOut, AsksAnew
<1>11. AnsweredIn(r, done)
  <2> SUFFICES ASSUME NEW k \in 1 .. n - 1, IsResolve(s[k]),
                      s[k].item \in ToSet(e.chain),
                      s[k].item \notin done \union Chainless
               PROVE  k < n - 1 /\ IsWindowOf(r.acts[k + 1], s[k].item)
    BY <1>2, <1>4 DEF AnsweredIn
  <2>1. k < n /\ IsWindowOf(s[k + 1], s[k].item)
    BY <1>4, <1>s DEF FairIn, AnsweredIn, n
  <2>2. k + 1 # n
    BY <1>1, <1>5, <1>s, <2>1 DEF IsWindowOf
  <2>3. k < n - 1 /\ k + 1 \in 1 .. n - 1
    BY <1>1, <2>1, <2>2
  <2>4. r.acts[k + 1] = s[k + 1]
    BY <1>4, <2>3
  <2> QED
    BY <2>1, <2>3, <2>4
<1>12. PhaseAskedIn(r, p, done)
  <2> SUFFICES ASSUME PriorityPlayers[p] = "All", NoItem \notin done
               PROVE  r.acts # <<>> /\ IsWindowOf(r.acts[1], NoItem)
    BY DEF PhaseAskedIn
  <2>1. IsWindowOf(s[1], NoItem)
    BY <1>s DEF FairIn, PhaseAskedIn
  <2>2. n # 1
    BY <1>1, <1>s, <2>1 DEF IsWindowOf
  <2>3. 1 \in 1 .. n - 1
    BY <1>1, <2>2
  <2> QED
    BY <1>4, <2>1, <2>3
<1> QED
  BY <1>6, <1>7, <1>9, <1>10, <1>11, <1>12 DEF FairIn, RoundsIn, r

LEMMA WithoutExactly ==
    ASSUME NEW S, NEW s \in Seq(S), IsInjective(s), NEW i \in ToSet(s)
    PROVE  ToSet(Without(s, i)) = ToSet(s) \ {i}
<1>1. PICK p \in DOMAIN s : s[p] = i
  BY DEF ToSet
<1> DEFINE d == Without(s, s[p])
<1>2. /\ d \in Seq(S) /\ Len(d) = Len(s) - 1
      /\ \A n \in 1 .. Len(s) - 1 : d[n] = IF n < p THEN s[n] ELSE s[n + 1]
  BY WithoutKeeps
<1>3. ToSet(s) \ {i} \subseteq ToSet(d)
  BY <1>1, WithoutMembers
<1> HIDE DEF d
<1>4. ASSUME NEW n \in DOMAIN d PROVE d[n] \in ToSet(s) \ {i}
  <2>1. n \in 1 .. Len(s) - 1 /\ p \in 1 .. Len(s) /\ DOMAIN s = 1 .. Len(s)
    BY <1>2
  <2>2. CASE n < p
    <3>1. d[n] = s[n] /\ n \in DOMAIN s /\ n # p
      BY <1>2, <2>1, <2>2
    <3> QED
      BY <1>1, <3>1 DEF ToSet, IsInjective
  <2>3. CASE n >= p
    <3>1. d[n] = s[n + 1] /\ n + 1 \in DOMAIN s /\ n + 1 # p
      BY <1>2, <2>1, <2>3
    <3> QED
      BY <1>1, <3>1 DEF ToSet, IsInjective
  <2> QED
    BY <2>1, <2>2, <2>3
<1>5. ToSet(d) \subseteq ToSet(s) \ {i}
  BY <1>4 DEF ToSet
<1> QED
  BY <1>1, <1>3, <1>5 DEF d

\* What a push leaves of the actions it covers.
Covers(b, a) ==
    Alike(b, a) /\ b.queue = a.queue /\ (a.hit => b.hit) /\ (b.cur <=> a.cur)

LEMMA PushCovers ==
    ASSUME NEW s \in Seq(Actions), NEW a \in Actions
    PROVE  /\ Push(s, a) \in Seq(Actions)
           /\ Len(Push(s, a)) = Len(s) + 1
           /\ Push(s, a)[Len(s) + 1] = a
           /\ \A k \in DOMAIN s : /\ Covers(Push(s, a)[k], s[k])
                                  /\ k = Len(s) => Push(s, a)[k].hit
<1>1. CASE s = <<>>
  BY <1>1 DEF Push
<1>2. CASE s # <<>>
  <2> DEFINE top == [s[Len(s)] EXCEPT !.hit = TRUE]
             f == [s EXCEPT ![Len(s)] = top]
  <2>1. top \in Actions /\ Covers(top, s[Len(s)]) /\ top.hit
    BY <1>2, TopType DEF Actions, Covers, Alike, Same
  <2> HIDE DEF top
  <2>2. f \in Seq(Actions) /\ Len(f) = Len(s)
    BY <1>2, <2>1, ReplacedType
  <2>3. \A k \in DOMAIN s : Covers(f[k], s[k]) /\ (k = Len(s) => f[k].hit)
    BY <2>1 DEF Covers, Alike, Same
  <2>4. Push(s, a) = Append(f, a)
    BY <1>2 DEF Push, top
  <2> HIDE DEF f
  <2> QED
    BY <2>2, <2>3, <2>4
<1> QED
  BY <1>1, <1>2

\* Queueing an item puts its resolver and a window that asks anew on top.
LEMMA QueuedStack ==
    ASSUME NEW q \in QueueRecords, NEW i \in Items, NEW first \in Players,
           NEW player \in Players
    PROVE  LET r == WithItem(q, i, first, player)
               n == Len(q.acts)
           IN  /\ r \in QueueRecords /\ n \in Nat
               /\ DOMAIN q.acts = 1 .. n /\ DOMAIN r.acts = 1 .. n + 2
               /\ Len(r.acts) = n + 2 /\ r.acts # <<>>
               /\ \A k \in 1 .. n : /\ Covers(r.acts[k], q.acts[k])
                                    /\ k = n => r.acts[k].hit
               /\ IsResolverOf(r.acts[n + 1], i) /\ ~r.acts[n + 1].cur
               /\ Top(r.acts) = r.acts[n + 2]
               /\ IsWindowOf(r.acts[n + 2], i) /\ ~r.acts[n + 2].cur
               /\ r.acts[n + 2].who = ItemPolicy(i)
               /\ AsksAnew(r.acts[n + 2].who, r.acts[n + 2].queue)
               /\ r.chain = Append(q.chain, i) /\ r.fresh = q.fresh \ {i}
               /\ r.heard = {} /\ r.settled = q.settled
<1> DEFINE r == WithItem(q, i, first, player)
           s == q.acts
           n == Len(s)
           queue == ResponseQueue(ItemPolicy(i), first, first, player)
           w == WindowAction(ItemPolicy(i), i, queue)
           g == Push(s, ResolveAction(i))
<1>1. s \in Seq(Actions) /\ n \in Nat /\ DOMAIN s = 1 .. n
  BY DEF QueueRecords
<1>2. r \in QueueRecords
  BY WithItemType
<1>3. /\ r.chain = Append(q.chain, i) /\ r.fresh = q.fresh \ {i}
      /\ r.heard = {} /\ r.settled = q.settled /\ r.acts = Push(g, w)
  BY DEF WithItem, QueuedOn
<1>4. queue \in Seq(Players) /\ AsksAnew(ItemPolicy(i), queue)
  BY ResponseQueueType, ResponseQueueAsks
<1> HIDE DEF queue
<1>5. /\ w \in Actions /\ IsWindowOf(w, i) /\ ~w.cur /\ w.who = ItemPolicy(i)
      /\ w.queue = queue
  <2>1. w \in Actions
    BY <1>4, ItemPolicyType, WindowActionType
  <2> QED
    BY <2>1 DEF IsWindowOf, IsWindow, WindowAction
<1>6. /\ ResolveAction(i) \in Actions /\ IsResolverOf(ResolveAction(i), i)
      /\ ~ResolveAction(i).cur
  BY ResolveActionType DEF IsResolverOf, IsResolve, ResolveAction
<1>7. /\ g \in Seq(Actions) /\ Len(g) = n + 1
      /\ g[n + 1] = ResolveAction(i)
      /\ \A k \in DOMAIN s : Covers(g[k], s[k]) /\ (k = n => g[k].hit)
  BY <1>1, <1>6, PushCovers
<1>b. s = q.acts
  OBVIOUS
<1> HIDE DEF g, w, r, s, n
<1>8. /\ r.acts \in Seq(Actions) /\ Len(r.acts) = Len(g) + 1
      /\ r.acts[Len(g) + 1] = w
      /\ \A k \in DOMAIN g : Covers(r.acts[k], g[k])
  BY <1>3, <1>5, <1>7, PushCovers
<1>9. DOMAIN g = 1 .. n + 1 /\ Len(r.acts) = n + 2 /\ r.acts[n + 2] = w
  BY <1>1, <1>7, <1>8
<1>10. ASSUME NEW k \in 1 .. n
       PROVE  Covers(r.acts[k], s[k]) /\ (k = n => r.acts[k].hit)
  <2>1. Covers(r.acts[k], g[k]) /\ Covers(g[k], s[k]) /\ (k = n => g[k].hit)
    BY <1>1, <1>7, <1>8, <1>9
  <2> QED
    BY <2>1 DEF Covers, Alike, Same
<1>11. IsResolverOf(r.acts[n + 1], i) /\ ~r.acts[n + 1].cur
  <2>1. Covers(r.acts[n + 1], ResolveAction(i))
    BY <1>1, <1>7, <1>8, <1>9
  <2> QED
    BY <1>6, <2>1 DEF Covers, Alike, Same, IsResolverOf, IsResolve
<1>12. Top(r.acts) = r.acts[n + 2] /\ DOMAIN r.acts = 1 .. n + 2 /\ r.acts # <<>>
  <2>1. DOMAIN r.acts = 1 .. Len(r.acts) /\ Len(r.acts) # 0
    BY <1>1, <1>8, <1>9
  <2> QED
    BY <1>8, <1>9, <2>1 DEF Top
<1> QED
  BY <1>1, <1>2, <1>3, <1>4, <1>5, <1>8, <1>9, <1>10, <1>11, <1>12, <1>b DEF r, n

LEMMA FairWithItem ==
    ASSUME NEW q \in QueueRecords, OnceIn(q), OwnedIn(q), NEW i \in q.fresh,
           NEW first \in Players, NEW player \in Players,
           NEW p, NEW done, RoundsIn(q, p), AnsweredIn(q, done)
    PROVE  LET r == WithItem(q, i, first, player)
           IN  /\ RoundsIn(r, p) /\ AnsweredIn(r, done)
               /\ PhaseAskedIn(q, p, done) => PhaseAskedIn(r, p, done)
<1> DEFINE r == WithItem(q, i, first, player)
           n == Len(q.acts)
<1>1. i \in Items
  BY DEF QueueRecords
<1>2. /\ r \in QueueRecords /\ n \in Nat
      /\ DOMAIN q.acts = 1 .. n /\ DOMAIN r.acts = 1 .. n + 2
      /\ Len(r.acts) = n + 2 /\ r.acts # <<>>
      /\ \A k \in 1 .. n : Covers(r.acts[k], q.acts[k]) /\ (k = n => r.acts[k].hit)
      /\ IsResolverOf(r.acts[n + 1], i) /\ ~r.acts[n + 1].cur
      /\ Top(r.acts) = r.acts[n + 2]
      /\ IsWindowOf(r.acts[n + 2], i) /\ ~r.acts[n + 2].cur
      /\ r.acts[n + 2].who = ItemPolicy(i)
      /\ AsksAnew(r.acts[n + 2].who, r.acts[n + 2].queue)
      /\ r.chain = Append(q.chain, i)
  BY <1>1, QueuedStack
<1> HIDE DEF r, n
<1>n. n = Len(q.acts) /\ q.acts \in Seq(Actions)
  BY DEF n, QueueRecords
<1>3. \A k \in DOMAIN r.acts : k \in 1 .. n \/ k = n + 1 \/ k = n + 2
  BY <1>2
<1>4. \A k \in 1 .. n : \A j :
        /\ k \in DOMAIN r.acts /\ k \in DOMAIN q.acts
        /\ r.acts[k].item = q.acts[k].item /\ r.acts[k].who = q.acts[k].who
        /\ r.acts[k].queue = q.acts[k].queue
        /\ q.acts[k].hit => r.acts[k].hit
        /\ r.acts[k].cur <=> q.acts[k].cur
        /\ IsWindow(r.acts[k]) <=> IsWindow(q.acts[k])
        /\ IsResolve(r.acts[k]) <=> IsResolve(q.acts[k])
        /\ IsResolverOf(r.acts[k], j) <=> IsResolverOf(q.acts[k], j)
        /\ IsWindowOf(r.acts[k], j) <=> IsWindowOf(q.acts[k], j)
  BY <1>2 DEF Covers, Alike, Same, IsWindow, IsResolve, IsResolverOf, IsWindowOf
<1>5. ToSet(r.chain) = ToSet(q.chain) \union {i}
  <2> DEFINE c == q.chain
  <2>1. c \in Seq(Items) /\ Append(c, i) = r.chain
    BY <1>2 DEF QueueRecords
  <2> HIDE DEF c
  <2>2. ToSet(Append(c, i)) = ToSet(c) \union {i}
    BY <1>1, <2>1 DEF ToSet
  <2> QED
    BY <2>1, <2>2 DEF c
<1>6. /\ ~IsWindow(r.acts[n + 1]) /\ ~IsResolve(r.acts[n + 2])
      /\ r.acts[n + 2].item = i /\ IsWindow(r.acts[n + 2])
  BY <1>2 DEF IsResolverOf, IsWindowOf, IsResolve, IsWindow
<1>7. PlacedIn(r, p)
  <2> SUFFICES ASSUME NEW k \in DOMAIN r.acts, IsWindow(r.acts[k])
               PROVE  \/ /\ r.acts[k].item = NoItem
                         /\ k = 1
                         /\ PriorityPlayers[p] = "All" => r.acts[k].who = "All"
                      \/ /\ r.acts[k].item \in ToSet(r.chain)
                         /\ k > 1
                         /\ IsResolverOf(r.acts[k - 1], r.acts[k].item)
                         /\ r.acts[k].who = ItemPolicy(r.acts[k].item)
    BY DEF PlacedIn
  <2>1. CASE k \in 1 .. n
    <3>1. \/ /\ q.acts[k].item = NoItem
             /\ k = 1
             /\ PriorityPlayers[p] = "All" => q.acts[k].who = "All"
          \/ /\ q.acts[k].item \in ToSet(q.chain)
             /\ k > 1
             /\ IsResolverOf(q.acts[k - 1], q.acts[k].item)
             /\ q.acts[k].who = ItemPolicy(q.acts[k].item)
      BY <1>4, <2>1 DEF RoundsIn, PlacedIn
    <3>2. k > 1 => k - 1 \in 1 .. n
      BY <1>2, <2>1
    <3> QED
      BY <1>4, <1>5, <2>1, <3>1, <3>2
  <2>2. CASE k = n + 2
    <3>1. k > 1 /\ k - 1 = n + 1
      BY <1>2, <2>2
    <3> QED
      BY <1>2, <1>5, <1>6, <2>2, <3>1
  <2> QED
    BY <1>3, <1>6, <2>1, <2>2
<1>8. EnteredOnceIn(r)
  BY <1>2, <1>3, <1>4 DEF RoundsIn, EnteredOnceIn
<1>9. CoveredIn(r)
  <2> SUFFICES ASSUME NEW k \in DOMAIN r.acts, k < Len(r.acts), IsWindow(r.acts[k])
               PROVE  r.acts[k].hit \/ AsksAnew(r.acts[k].who, r.acts[k].queue)
    BY DEF CoveredIn
  <2>1. k \in 1 .. n
    BY <1>2, <1>3, <1>6
  <2>2. CASE k = n
    BY <1>2, <2>1, <2>2
  <2>3. CASE k < n
    BY <1>4, <1>n, <2>1, <2>3 DEF RoundsIn, CoveredIn
  <2> QED
    BY <1>2, <2>1, <2>2, <2>3
<1>10. HeardIn(r)
  BY <1>2 DEF HeardIn, HeardOut, AsksAnew
<1>11. AnsweredIn(r, done)
  <2> SUFFICES ASSUME NEW k \in DOMAIN r.acts, IsResolve(r.acts[k]),
                      r.acts[k].item \in ToSet(r.chain),
                      r.acts[k].item \notin done \union Chainless
               PROVE  k < Len(r.acts) /\ IsWindowOf(r.acts[k + 1], r.acts[k].item)
    BY DEF AnsweredIn
  <2>1. CASE k \in 1 .. n
    <3>1. q.acts[k].item # i /\ IsResolve(q.acts[k])
      BY <1>4, <2>1 DEF OwnedIn
    <3>2. k < n /\ IsWindowOf(q.acts[k + 1], q.acts[k].item)
      BY <1>4, <1>5, <1>n, <2>1, <3>1 DEF AnsweredIn
    <3>3. k + 1 \in 1 .. n
      BY <1>2, <2>1, <3>2
    <3>4. r.acts[k].item = q.acts[k].item
      BY <1>4, <2>1
    <3>6. Len(r.acts) = n + 2 /\ n \in Nat
      BY <1>2
    <3>7. k < Len(r.acts)
      BY <2>1, <3>6
    <3>5. IsWindowOf(r.acts[k + 1], q.acts[k].item)
      BY <1>4, <3>2, <3>3
    <3> QED
      BY <3>4, <3>5, <3>7
  <2>2. CASE k = n + 1
    <3>1. r.acts[k].item = i /\ k + 1 = n + 2 /\ k < Len(r.acts)
      BY <1>2, <2>2 DEF IsResolverOf
    <3> QED
      BY <1>2, <3>1
  <2> QED
    BY <1>3, <1>6, <2>1, <2>2
<1>12. ASSUME PhaseAskedIn(q, p, done) PROVE PhaseAskedIn(r, p, done)
  <2>1. q.acts # <<>> => 1 \in 1 .. n
    BY <1>2, <1>n
  <2> QED
    BY <1>2, <1>4, <1>12, <2>1 DEF PhaseAskedIn
<1> QED
  BY <1>7, <1>8, <1>9, <1>10, <1>11, <1>12 DEF RoundsIn, r

\* A resolution takes the item off the chain when no window asks about it any
\* more; the resolver goes, or stays below what the resolution queued.
LEMMA FairResolved ==
    ASSUME NEW q \in QueueRecords, q.acts # <<>>, IsInjective(q.chain),
           NEW i \in ToSet(q.chain), NEW p, NEW done, FairIn(q, p, done),
           \A k \in DOMAIN q.acts : IsWindow(q.acts[k]) => q.acts[k].item # i,
           IsResolve(Top(q.acts)) => Top(q.acts).cur,
           IsWindow(Top(q.acts)) => AsksAnew(Top(q.acts).who, Top(q.acts).queue)
    PROVE  FairIn(Resolved(q, i), p, done)
<1> DEFINE r == [q EXCEPT !.chain = Without(@, i), !.heard = {},
                          !.applied = @ \union {i}]
<1>1. i \in Items /\ q.chain \in Seq(Items)
  BY DEF QueueRecords, ToSet
<1>2. /\ r \in QueueRecords /\ r.acts = q.acts /\ r.chain = Without(q.chain, i)
      /\ r.heard = {}
  BY <1>1, WithoutType DEF QueueRecords
<1>3. Resolved(q, i) = IF IsResolve(Top(q.acts)) THEN [r EXCEPT !.acts = Pop(@)] ELSE r
  BY DEF Resolved, QueueRecords
<1> HIDE DEF r
<1>4. ToSet(r.chain) = ToSet(q.chain) \ {i}
  BY <1>1, <1>2, WithoutExactly
<1>5. PlacedIn(r, p)
  BY <1>2, <1>4 DEF FairIn, RoundsIn, PlacedIn
<1>6. EnteredOnceIn(r) /\ CoveredIn(r) /\ PhaseAskedIn(r, p, done)
  BY <1>2 DEF FairIn, RoundsIn, EnteredOnceIn, CoveredIn, PhaseAskedIn
<1>7. HeardIn(r)
  BY <1>2 DEF HeardIn, HeardOut, AsksAnew
<1>8. AnsweredIn(r, done)
  BY <1>2, <1>4 DEF FairIn, AnsweredIn
<1>9. FairIn(r, p, done)
  BY <1>5, <1>6, <1>7, <1>8 DEF FairIn, RoundsIn
<1>10. ASSUME IsResolve(Top(q.acts)) PROVE FairIn([r EXCEPT !.acts = Pop(@)], p, done)
  <2>1. ~IsWindow(Top(r.acts)) /\ Top(r.acts).cur /\ r.acts # <<>>
    BY <1>2, <1>10 DEF IsWindow, IsResolve
  <2>2. (IsWindow(Top(r.acts)) /\ Top(r.acts).item # NoItem)
          => Top(r.acts).item \in done \union Chainless
    BY <2>1
  <2>3. (IsWindowOf(Top(r.acts), NoItem) /\ PriorityPlayers[p] = "All")
          => NoItem \in done
    BY <2>1 DEF IsWindowOf
  <2> QED
    BY <1>2, <1>9, <2>1, <2>2, <2>3, FairPop, Zenon
<1> QED
  BY <1>3, <1>9, <1>10

\* Entering a phase: nothing on the stack, or what the entry hook queued.
LEMMA FairEntered ==
    ASSUME NEW q \in QueueRecords, NEW p \in Phases, NEW who \in Policies,
           NEW player \in Players, NEW done,
           PriorityPlayers[p] = "All" => who = "All",
           RoundsIn(q, p), AnsweredIn(q, done),
           \A k \in DOMAIN q.acts : IsWindow(q.acts[k]) => q.acts[k].item # NoItem,
           q.acts # <<>> => AsksAnew(Top(q.acts).who, Top(q.acts).queue)
    PROVE  FairIn(Entered(q, p, who, player), p, done)
<1> DEFINE first == FirstAsked(WindowQueue(PriorityPlayers[p], FALSE, q.prio, player))
           queue == IF who = PriorityPlayers[p]
                    THEN WindowQueue(who, FALSE, q.prio, player)
                    ELSE WindowQueue(who, FALSE, first, player)
           a == WindowAction(who, NoItem, queue)
           r == Entered(q, p, who, player)
           s == q.acts
           n == Len(s)
<1>1. first \in Players \union {NoPlayer}
  BY WindowQueueType, FirstAskedType DEF QueueRecords
<1>2. queue \in Seq(Players) /\ AsksAnew(who, queue)
  BY <1>1, WindowQueueType, WindowQueueAsks DEF QueueRecords
<1>3. /\ a \in Actions /\ IsWindowOf(a, NoItem) /\ a.who = who /\ a.queue = queue
      /\ ~a.cur
  <2>1. a \in Actions
    BY <1>2, WindowActionType
  <2> QED
    BY <2>1 DEF IsWindow, IsWindowOf, WindowAction
<1>4. r \in QueueRecords
  BY EnteredType
<1>5. r.acts = PushBehind(s, a) /\ r.chain = q.chain /\ r.heard = {}
  BY DEF Entered, QueueRecords
<1>6. s \in Seq(Actions) /\ n \in Nat /\ DOMAIN s = 1 .. n
  BY DEF QueueRecords
<1> HIDE DEF queue, a, r
<1>7. /\ PushBehind(s, a) \in Seq(Actions) /\ Len(PushBehind(s, a)) = n + 1
      /\ PushBehind(s, a)[1] = a
      /\ \A k \in DOMAIN s : PushBehind(s, a)[k + 1] = s[k]
  BY <1>3, <1>6, PushBehindKeeps
<1>s. s = q.acts /\ (s # <<>> => Top(s) = s[n] /\ n # 0)
  BY <1>6 DEF Top
<1> HIDE DEF s, n
<1>8. /\ DOMAIN r.acts = 1 .. n + 1 /\ Len(r.acts) = n + 1 /\ r.acts # <<>>
      /\ r.acts[1] = a /\ \A k \in 1 .. n : r.acts[k + 1] = s[k]
  <2>1. Len(r.acts) # 0
    BY <1>5, <1>6, <1>7
  <2> QED
    BY <1>5, <1>6, <1>7, <2>1
<1>9. \A k \in DOMAIN r.acts : k = 1 \/ (k - 1 \in 1 .. n /\ r.acts[k] = s[k - 1])
  <2> SUFFICES ASSUME NEW k \in DOMAIN r.acts, k # 1
               PROVE  k - 1 \in 1 .. n /\ r.acts[k] = s[k - 1]
    OBVIOUS
  <2>1. k - 1 \in 1 .. n /\ (k - 1) + 1 = k
    BY <1>6, <1>8
  <2> QED
    BY <1>8, <2>1
<1>10. PlacedIn(r, p)
  <2> SUFFICES ASSUME NEW k \in DOMAIN r.acts, IsWindow(r.acts[k]), k # 1
               PROVE  /\ r.acts[k].item \in ToSet(r.chain)
                      /\ k > 1
                      /\ IsResolverOf(r.acts[k - 1], r.acts[k].item)
                      /\ r.acts[k].who = ItemPolicy(r.acts[k].item)
    BY <1>3, <1>8 DEF PlacedIn, IsWindowOf
  <2> DEFINE j == k - 1
  <2>1. j \in 1 .. n /\ r.acts[k] = s[j]
    BY <1>9
  <2>2. /\ s[j].item \in ToSet(q.chain) /\ j > 1
        /\ IsResolverOf(s[j - 1], s[j].item) /\ s[j].who = ItemPolicy(s[j].item)
    BY <1>6, <1>s, <2>1 DEF RoundsIn, PlacedIn
  <2>3. j - 1 \in 1 .. n /\ (j - 1) + 1 = k - 1
    BY <1>6, <1>8, <2>1, <2>2
  <2>4. r.acts[k - 1] = s[j - 1]
    BY <1>8, <2>3
  <2> QED
    BY <1>5, <1>6, <1>8, <2>1, <2>2, <2>4
<1>11. EnteredOnceIn(r)
  <2> SUFFICES ASSUME NEW k \in DOMAIN r.acts, NEW l \in DOMAIN r.acts,
                      r.acts[k].cur, r.acts[l].cur
               PROVE  k = l
    BY DEF EnteredOnceIn
  <2>1. k # 1 /\ l # 1
    BY <1>3, <1>8
  <2>2. /\ k - 1 \in 1 .. n /\ s[k - 1].cur
        /\ l - 1 \in 1 .. n /\ s[l - 1].cur
    BY <1>9, <2>1
  <2>3. k - 1 = l - 1
    BY <1>6, <1>s, <2>2 DEF RoundsIn, EnteredOnceIn
  <2> QED
    BY <1>6, <1>8, <2>3
<1>12. CoveredIn(r)
  <2> SUFFICES ASSUME NEW k \in DOMAIN r.acts, k < Len(r.acts), IsWindow(r.acts[k])
               PROVE  r.acts[k].hit \/ AsksAnew(r.acts[k].who, r.acts[k].queue)
    BY DEF CoveredIn
  <2>1. CASE k = 1
    BY <1>2, <1>3, <1>8, <2>1
  <2>2. CASE k # 1
    <3>1. k - 1 \in DOMAIN q.acts /\ r.acts[k] = s[k - 1] /\ k - 1 < Len(q.acts)
      BY <1>6, <1>8, <1>9, <1>s, <2>2 DEF n
    <3> QED
      BY <1>s, <3>1 DEF RoundsIn, CoveredIn
  <2> QED
    BY <2>1, <2>2
<1>13. HeardIn(r)
  <2>1. Top(r.acts) = r.acts[n + 1]
    BY <1>8 DEF Top
  <2>2. CASE s = <<>>
    <3>1. n = 0
      BY <2>2 DEF n
    <3> QED
      BY <1>2, <1>3, <1>8, <2>1, <3>1 DEF HeardIn, HeardOut, AsksAnew
  <2>3. CASE s # <<>>
    <3>1. n \in 1 .. n
      BY <1>6, <1>s, <2>3
    <3>2. Top(r.acts) = Top(s)
      BY <1>8, <1>s, <2>1, <2>3, <3>1
    <3>3. AsksAnew(Top(s).who, Top(s).queue)
      BY <1>s, <2>3
    <3> QED
      BY <3>2, <3>3 DEF HeardIn, HeardOut, AsksAnew
  <2> QED
    BY <2>2, <2>3
<1>14. AnsweredIn(r, done)
  <2> SUFFICES ASSUME NEW k \in DOMAIN r.acts, IsResolve(r.acts[k]),
                      r.acts[k].item \in ToSet(r.chain),
                      r.acts[k].item \notin done \union Chainless
               PROVE  k < Len(r.acts) /\ IsWindowOf(r.acts[k + 1], r.acts[k].item)
    BY DEF AnsweredIn
  <2> DEFINE j == k - 1
  <2>1. k # 1
    BY <1>3, <1>8 DEF IsWindowOf, IsWindow, IsResolve
  <2>2. j \in 1 .. n /\ r.acts[k] = s[j]
    BY <1>9, <2>1
  <2>3. j < n /\ IsWindowOf(s[j + 1], s[j].item)
    BY <1>5, <1>6, <1>s, <2>2 DEF AnsweredIn, n
  <2>4. j + 1 \in 1 .. n /\ (j + 1) + 1 = k + 1 /\ k < n + 1
    BY <1>6, <1>8, <2>2, <2>3
  <2>5. r.acts[k + 1] = s[j + 1]
    BY <1>8, <2>4
  <2> QED
    BY <1>8, <2>2, <2>3, <2>4, <2>5
<1>15. PhaseAskedIn(r, p, done)
  BY <1>3, <1>8 DEF PhaseAskedIn
<1> QED
  BY <1>10, <1>11, <1>12, <1>13, <1>14, <1>15 DEF FairIn, RoundsIn, r

---------------------------------------------------------------------------
(* The rounds of a session whose host attaches no checkpoint and imposes no *)
(* stop policy but one that asks everyone.                                  *)

Rounds ==
    /\ settled \subseteq ToSet(chain) \union {NoItem}
    /\ RoundsIn(Queues, phase)
    /\ AnsweredIn(Queues, settled)
    /\ turns # 0 => PhaseAskedIn(Queues, phase, settled)
    /\ turns = 0 => acts = <<>> /\ settled = {}

\* The second inductive invariant, on top of the first.
Fair == Good /\ Rounds

\* What a call has made of the queues before it hands them to Become: at most
\* one item more is pending, and if one is, nobody was asked about it yet.
Moved(q) ==
    /\ q.settled = settled
    /\ \/ q.chain = chain /\ q.fresh = fresh
       \/ \E i \in fresh : /\ q.chain = Append(chain, i)
                           /\ q.fresh = fresh \ {i}
                           /\ q.heard = {}

Midway(q) == q \in GoodQueues /\ Moved(q) /\ FairIn(q, phase, settled)

Unmoved(q) == Midway(q) /\ q.chain = chain /\ q.fresh = fresh

Ordinary(q) == q \in QueueRecords /\ Moved(q) /\ FairIn(q, phase, DoneIn(q))

LEMMA StartsUnmoved ==
    ASSUME Fair, turns # 0 PROVE Unmoved(Queues)
BY DEF Fair, Good, Rounds, Unmoved, Midway, Moved, FairIn, Queues

\* Become forgets no round that still matters.
LEMMA DoneKeeps ==
    ASSUME NEW q, NEW p, FairIn(q, p, q.settled)
    PROVE  FairIn(q, p, DoneIn(q))
<1>1. \A i \in q.settled : i \in ToSet(q.chain) \union {NoItem} => i \in DoneIn(q)
  BY DEF DoneIn
<1>2. AnsweredIn(q, DoneIn(q))
  <2> SUFFICES ASSUME NEW k \in DOMAIN q.acts, IsResolve(q.acts[k]),
                      q.acts[k].item \in ToSet(q.chain),
                      q.acts[k].item \notin DoneIn(q) \union Chainless
               PROVE  k < Len(q.acts) /\ IsWindowOf(q.acts[k + 1], q.acts[k].item)
    BY DEF AnsweredIn
  <2>1. q.acts[k].item \notin q.settled \union Chainless
    BY <1>1
  <2> QED
    BY <2>1 DEF FairIn, AnsweredIn
<1>3. PhaseAskedIn(q, p, DoneIn(q))
  BY <1>1 DEF FairIn, PhaseAskedIn
<1> QED
  BY <1>2, <1>3 DEF FairIn

LEMMA MidwayIsOrdinary ==
    ASSUME NEW q, Midway(q) PROVE Ordinary(q)
BY DoneKeeps, GoodIsTyped DEF Midway, Ordinary, Moved

LEMMA MidwayWithItem ==
    ASSUME Fair, SyncClients = {}, NEW q, Unmoved(q), NEW i \in fresh,
           NEW first \in Players
    PROVE  Midway(WithItem(q, i, first, active))
<1> DEFINE r == WithItem(q, i, first, active)
<1>1. /\ q \in GoodQueues /\ q \in QueueRecords /\ OnceIn(q) /\ OwnedIn(q)
      /\ q.chain = chain /\ q.fresh = fresh /\ q.settled = settled
      /\ i \in q.fresh /\ i \in Items
  BY GoodIsTyped DEF Unmoved, Midway, Moved, GoodQueues, QueueRecords
<1>2. active \in Players
  BY DEF Fair, Good, TypeOK
<1>3. r \in GoodQueues
  BY <1>1, <1>2, GoodWithItem
<1>4. /\ r.chain = Append(q.chain, i) /\ r.fresh = q.fresh \ {i}
      /\ r.heard = {} /\ r.settled = q.settled
  BY DEF WithItem
<1>5. RoundsIn(q, phase) /\ AnsweredIn(q, settled) /\ PhaseAskedIn(q, phase, settled)
  BY DEF Unmoved, Midway, FairIn
<1>6. FairIn(r, phase, settled)
  BY <1>1, <1>2, <1>5, FairWithItem DEF FairIn
<1> QED
  BY <1>1, <1>3, <1>4, <1>6 DEF Midway, Moved

LEMMA MidwayFound ==
    ASSUME Fair, SyncClients = {}, NEW q, Unmoved(q), NEW items,
           NEW r \in Found(q, items, active)
    PROVE  Midway(r)
<1>1. active \in Players /\ q.fresh = fresh
  BY DEF Fair, Good, TypeOK, Unmoved
<1>2. PICK i \in items \intersect q.fresh :
        \E first \in HookNominees(i, active) : r = WithItem(q, i, first, active)
  BY DEF Found
<1>3. PICK first \in HookNominees(i, active) : r = WithItem(q, i, first, active)
  BY <1>2
<1>4. first \in Players /\ i \in fresh
  BY <1>1, HookNomineesType
<1> QED
  BY <1>3, <1>4, MidwayWithItem

LEMMA MidwayHooked ==
    ASSUME Fair, SyncClients = {}, NEW q, Unmoved(q), NEW r \in Hooked(q, active)
    PROVE  Midway(r)
<1>1. r = q \/ r \in Found(q, HookItems, active)
  BY DEF Hooked
<1>2. CASE r = q
  BY <1>2 DEF Unmoved
<1>3. CASE r \in Found(q, HookItems, active)
  BY <1>3, MidwayFound
<1> QED
  BY <1>1, <1>2, <1>3

LEMMA UnmovedAfterPass ==
    ASSUME Fair, NEW q, Unmoved(q), NEW player, CanPass(q, player)
    PROVE  Unmoved(AfterPass(q, player))
<1> DEFINE r == AfterPass(q, player)
<1>1. q \in GoodQueues /\ q \in QueueRecords
  BY GoodIsTyped DEF Unmoved, Midway
<1>2. r \in GoodQueues /\ FairIn(r, phase, settled)
  BY <1>1, GoodAfterPass, FairAfterPass DEF Unmoved, Midway
<1>3. r.chain = q.chain /\ r.fresh = q.fresh /\ r.settled = q.settled
  BY <1>1 DEF AfterPass, QueueRecords
<1> QED
  BY <1>2, <1>3 DEF Unmoved, Midway, Moved

\* Entering the stack, which keeps what the call did to the chain.
LEMMA MidwayEntered ==
    ASSUME Fair, NEW q, Midway(q), q.acts # <<>>
    PROVE  LET e == EnteredQueues(q)
           IN  /\ Midway(e) /\ e.acts # <<>> /\ Top(e.acts).cur
               /\ Alike(Top(e.acts), Top(q.acts))
               /\ e.chain = q.chain /\ e.fresh = q.fresh
               /\ e.heard = q.heard /\ e.settled = q.settled
<1> DEFINE e == EnteredQueues(q)
<1>1. q \in GoodQueues /\ q \in QueueRecords /\ active \in Players
  BY GoodIsTyped DEF Midway, Fair, Good, TypeOK
<1>2. e \in GoodQueues
  BY <1>1, GoodEnteredQueues
<1>3. /\ FairIn(e, phase, settled)
      /\ e.acts # <<>> /\ Top(e.acts).cur /\ Alike(Top(e.acts), Top(q.acts))
      /\ e.chain = q.chain /\ e.fresh = q.fresh
      /\ e.heard = q.heard /\ e.settled = q.settled
  BY <1>1, FairEnteredQueues DEF Midway
<1> HIDE DEF e
<1>4. Moved(e)
  BY <1>3 DEF Midway, Moved
<1> QED
  BY <1>2, <1>3, <1>4 DEF Midway, e

\* The window on top is the one about the chain's top item, or the phase's
\* over an empty chain.
LEMMA WindowIsForTop ==
    ASSUME NEW e \in QueueRecords, OwnedIn(e), NEW p, PlacedIn(e, p),
           e.acts # <<>>, IsWindow(Top(e.acts))
    PROVE  /\ Top(e.acts).item = TopOf(e.chain)
           /\ Top(e.acts).item # NoItem
                => Top(e.acts).who = ItemPolicy(Top(e.acts).item)
           /\ Top(e.acts).item = NoItem
                => (PriorityPlayers[p] = "All" => Top(e.acts).who = "All")
<1> DEFINE s == e.acts
           c == e.chain
           n == Len(s)
           w == s[n]
<1>1. /\ s \in Seq(Actions) /\ n \in Nat \ {0} /\ DOMAIN s = 1 .. n
      /\ Top(s) = w /\ n \in DOMAIN s /\ c \in Seq(Items)
  BY TopType DEF QueueRecords
<1>2. NoItem \notin ToSet(c)
  BY <1>1, NoneAssumption DEF ToSet
<1>3. IsWindow(w) /\ ~IsResolve(w)
  BY <1>1 DEF IsWindow, IsResolve
<1>4. \/ /\ w.item = NoItem
         /\ n = 1
         /\ PriorityPlayers[p] = "All" => w.who = "All"
      \/ /\ w.item \in ToSet(c)
         /\ n > 1
         /\ IsResolverOf(s[n - 1], w.item)
         /\ w.who = ItemPolicy(w.item)
  BY <1>1, <1>3 DEF PlacedIn
<1>5. /\ \A m \in DOMAIN c : \E k \in DOMAIN s : IsResolverOf(s[k], c[m])
      /\ \A m, o \in DOMAIN c : \A k, l \in DOMAIN s :
            IsResolverOf(s[k], c[m]) /\ IsResolverOf(s[l], c[o]) => (m <= o <=> k <= l)
  BY DEF OwnedIn
<1>6. CASE w.item = NoItem
  <2>1. n = 1
    BY <1>2, <1>4, <1>6
  <2>2. c = <<>>
    <3>1. ASSUME NEW m \in DOMAIN c PROVE FALSE
      <4>1. PICK k \in DOMAIN s : IsResolverOf(s[k], c[m])
        BY <1>5
      <4>2. k = n
        BY <1>1, <2>1
      <4> QED
        BY <1>3, <4>1, <4>2 DEF IsResolverOf
    <3> HIDE DEF c
    <3>2. c # <<>> => 1 \in DOMAIN c
      BY <1>1
    <3> QED
      BY <3>1, <3>2
  <2> QED
    BY <1>1, <1>2, <1>4, <1>6, <2>2 DEF TopOf
<1>7. CASE w.item # NoItem
  <2>1. PICK m \in DOMAIN c : c[m] = w.item
    BY <1>4, <1>7 DEF ToSet
  <2>2. /\ Len(c) \in DOMAIN c /\ m <= Len(c) /\ Len(c) \in Nat /\ m \in Nat
        /\ TopOf(c) = c[Len(c)]
    BY <1>1, <2>1 DEF TopOf, Last
  <2>3. PICK l \in DOMAIN s : IsResolverOf(s[l], c[Len(c)])
    BY <1>5, <2>2
  <2>4. n - 1 \in DOMAIN s /\ IsResolverOf(s[n - 1], c[m])
    BY <1>1, <1>4, <1>7, <2>1
  <2>5. n - 1 <= l
    BY <1>5, <2>2, <2>3, <2>4
  <2>6. l # n
    BY <1>3, <2>3 DEF IsResolverOf
  <2>7. l = n - 1
    BY <1>1, <2>3, <2>5, <2>6
  <2> QED
    BY <1>1, <1>4, <1>7, <2>1, <2>2, <2>3, <2>4, <2>7 DEF IsResolverOf
<1> QED
  BY <1>6, <1>7

\* A window is over when all it asked declined, or when nobody may respond.
LEMMA WindowOverIsOrdinary ==
    ASSUME Fair, SyncClients = {}, NEW e, Midway(e), e.acts # <<>>,
           Top(e.acts).cur, IsWindow(Top(e.acts)),
           WindowOver(Top(e.acts), TopOf(e.chain), Chainless)
    PROVE  Ordinary([e EXCEPT !.acts = Pop(@)])
<1> DEFINE w == Top(e.acts)
           t == TopOf(e.chain)
           r == [e EXCEPT !.acts = Pop(@)]
<1>1. e \in GoodQueues /\ e \in QueueRecords /\ OwnedIn(e)
  BY GoodIsTyped DEF Midway, GoodQueues
<1>2. PlacedIn(e, phase) /\ HeardOut(w, e.heard)
  BY DEF Midway, FairIn, RoundsIn, HeardIn
<1>3. /\ w.item = t
      /\ w.item # NoItem => w.who = ItemPolicy(w.item)
      /\ w.item = NoItem => (PriorityPlayers[phase] = "All" => w.who = "All")
  BY <1>1, <1>2, WindowIsForTop
<1>4. t \in Chainless \/ w.queue = <<>>
  BY <1>3 DEF WindowOver
<1>5. e.heard \subseteq Players /\ t \in Items \union {NoItem}
  BY <1>1, TopOfType DEF QueueRecords
<1>6. ToSet(<<>>) = {}
  BY DEF ToSet
<1> HIDE DEF w, t
<1>7. ASSUME w.queue = <<>>, w.item # NoItem PROVE t \in DoneIn(e)
  <2>1. ItemPolicy(t) \in {"All", "Active"} /\ w.who = ItemPolicy(t)
    BY <1>3, <1>7 DEF ItemPolicy
  <2>3. ItemPolicy(t) = "All" => e.heard = Players
    BY <1>2, <1>5, <1>6, <1>7, <2>1 DEF HeardOut
  <2>4. ItemPolicy(t) = "Active" => e.heard # {}
    BY <1>2, <1>7, <2>1 DEF HeardOut
  <2>5. t \in Items
    BY <1>3, <1>5, <1>7
  <2>2. Complete(t, e.heard)
    BY <2>1, <2>3, <2>4, <2>5 DEF Complete
  <2> QED
    BY <2>2 DEF DoneIn, t
<1>8. ASSUME w.queue = <<>>, w.item = NoItem, PriorityPlayers[phase] = "All"
      PROVE  NoItem \in DoneIn(e)
  <2>1. Players \subseteq e.heard
    BY <1>2, <1>3, <1>6, <1>8 DEF HeardOut
  <2>2. e.heard = Players
    BY <1>5, <2>1
  <2>3. Complete(NoItem, e.heard)
    BY <2>2, NoneAssumption DEF Complete
  <2> QED
    BY <1>3, <1>8, <2>3 DEF DoneIn, t
<1>9. NoItem \notin Chainless
  BY ItemsAssumption, NoneAssumption
<1>10. (IsWindow(w) /\ w.item # NoItem) => w.item \in DoneIn(e) \union Chainless
  BY <1>3, <1>4, <1>7
<1>11. (IsWindowOf(w, NoItem) /\ PriorityPlayers[phase] = "All") => NoItem \in DoneIn(e)
  BY <1>3, <1>4, <1>8, <1>9 DEF IsWindowOf
<1>12. FairIn(e, phase, DoneIn(e))
  BY DoneKeeps DEF Midway, Moved
<1>13. FairIn(r, phase, DoneIn(e))
  BY <1>1, <1>10, <1>11, <1>12, FairPop DEF w
<1>14. /\ r \in QueueRecords /\ r.chain = e.chain /\ r.fresh = e.fresh
       /\ r.heard = e.heard /\ r.settled = e.settled
  BY <1>1, PopQueuesType DEF QueueRecords
<1> HIDE DEF r
<1>15. DoneIn(r) = DoneIn(e)
  BY <1>14 DEF DoneIn
<1> QED
  BY <1>13, <1>14, <1>15 DEF Ordinary, Midway, Moved, r

\* A server's players pass all of a window's queue at once.
LEMMA DrainedIsMidway ==
    ASSUME Fair, SyncClients = {}, turns # 0, TopWindow, NEW r \in Drained(Queues)
    PROVE  Midway(r) /\ r.acts # <<>> /\ IsWindow(Top(r.acts))
<1> DEFINE asked == Top(acts).queue
           none == <<>>
           passed == [Queues EXCEPT
                        !.acts = [acts EXCEPT ![Len(acts)].queue = none],
                        !.prio = IF asked = <<>> THEN @ ELSE NoPlayer,
                        !.heard = @ \union ToSet(asked)]
           w == Top(acts)
<1>1. /\ acts \in Seq(Actions) /\ acts # <<>> /\ IsWindow(w) /\ w \in Actions
      /\ TypeOK /\ Queues \in GoodQueues /\ Queues \in QueueRecords
  BY TopType, GoodIsTyped DEF Fair, Good, TypeOK, TopWindow
<1>2. passed \in Drained(Queues)
  BY DEF Drained, Queues
<1>3. \A f \in Drained(Queues) : f \in GoodQueues /\ f.acts # <<>> /\ IsWindow(Top(f.acts))
  BY <1>1, GoodDrained
<1>4. /\ passed.chain = chain /\ passed.fresh = fresh /\ passed.settled = settled
      /\ passed.heard = heard \union ToSet(asked)
      /\ passed.acts = [acts EXCEPT ![Len(acts)].queue = none]
      /\ Queues.acts = acts /\ Queues.chain = chain /\ Queues.heard = heard
  BY DEF Queues
<1>5. \/ r = passed
      \/ r \in Found(passed, HookItems, active)
      \/ \E f \in Found(passed, HookItems, active) : r = [f EXCEPT !.prio = NoPlayer]
  BY DEF Drained, Queues
<1>6. /\ [w EXCEPT !.queue = none].queue = none
      /\ [w EXCEPT !.queue = none].who = w.who /\ w.queue = asked
      /\ none \in Seq(Players) /\ ToSet(none) = {}
  BY <1>1, EmptySeq DEF Actions, ToSet
<1>7. FairIn(Queues, phase, settled)
  BY DEF Fair, Rounds, FairIn
<1>a. asked \in Seq(Players) /\ (asked # none => ToSet(asked) # {})
  <2>1. asked \in Seq(Players)
    BY <1>1 DEF Actions
  <2> HIDE DEF asked
  <2>2. asked # <<>> => 1 \in DOMAIN asked
    BY <2>1
  <2> QED
    BY <2>1, <2>2 DEF ToSet
<1> HIDE DEF passed, none, asked, w
<1>8. ASSUME w.cur \/ ~w.hit PROVE HeardOut([w EXCEPT !.queue = none], passed.heard)
  <2>1. HeardOut(w, heard)
    BY <1>1, <1>4, <1>7, <1>8 DEF FairIn, RoundsIn, HeardIn, w
  <2>2. w.who = "Active" => heard # {} \/ asked # none
    BY <1>6, <2>1 DEF HeardOut, none
  <2>3. w.who = "All" => Players \subseteq passed.heard
    BY <1>4, <1>6, <2>1 DEF HeardOut
  <2>4. w.who = "Active" => passed.heard # {}
    BY <1>4, <1>a, <2>2
  <2> QED
    BY <1>6, <2>3, <2>4 DEF HeardOut
<1>9. Unmoved(passed)
  <2>1. passed \in GoodQueues /\ passed \in QueueRecords
    BY <1>2, <1>3, GoodIsTyped
  <2>2. /\ RoundsIn(passed, phase)
        /\ AnsweredIn(Queues, settled) => AnsweredIn(passed, settled)
        /\ PhaseAskedIn(Queues, phase, settled) => PhaseAskedIn(passed, phase, settled)
    BY <1>1, <1>4, <1>6, <1>7, <1>8, <2>1, FairQueue DEF FairIn, w
  <2>3. FairIn(passed, phase, settled)
    BY <1>7, <2>2 DEF FairIn
  <2> QED
    BY <1>4, <2>1, <2>3 DEF Unmoved, Midway, Moved
<1>10. \A f \in Found(passed, HookItems, active) : Midway(f)
  BY <1>9, MidwayFound
<1>11. CASE r = passed
  BY <1>3, <1>9, <1>11 DEF Unmoved
<1>12. CASE r \in Found(passed, HookItems, active)
  BY <1>3, <1>10, <1>12
<1>13. CASE \E f \in Found(passed, HookItems, active) : r = [f EXCEPT !.prio = NoPlayer]
  <2>1. PICK f \in Found(passed, HookItems, active) : r = [f EXCEPT !.prio = NoPlayer]
    BY <1>13
  <2>2. Midway(f) /\ f \in QueueRecords
    BY <1>10, <2>1, GoodIsTyped DEF Midway
  <2>3. /\ r.acts = f.acts /\ r.chain = f.chain /\ r.fresh = f.fresh
        /\ r.heard = f.heard /\ r.settled = f.settled
    BY <2>1, <2>2 DEF QueueRecords
  <2>4. FairIn(r, phase, settled)
    BY <2>2, <2>3 DEF Midway, FairIn, RoundsIn, PlacedIn, EnteredOnceIn,
                      CoveredIn, HeardIn, AnsweredIn, PhaseAskedIn
  <2>5. Moved(r)
    BY <2>2, <2>3 DEF Midway, Moved
  <2> QED
    BY <1>3, <2>4, <2>5 DEF Midway
<1> QED
  BY <1>5, <1>11, <1>12, <1>13

---------------------------------------------------------------------------
(* The steps, and what each is of the abstract specification's.             *)

PromiseVars == <<phase, chain, fresh, settled>>

\* A round that ends with nobody heard ends for nobody.
LEMMA NobodyHeard == \A i : ~Complete(i, {})
BY SomebodyPlays DEF Complete

\* What Become makes of a record, and the history it leaves.
LEMMA BecomeMakes ==
    ASSUME NEW q, Become(q)
    PROVE  /\ acts' = q.acts /\ chain' = q.chain /\ fresh' = q.fresh
           /\ heard' = q.heard /\ settled' = DoneIn(q)
BY DEF Become, DoneIn

\* The invariant, for a record that has its rounds in order.
LEMMA RoundsAfter ==
    ASSUME NEW q \in QueueRecords, Become(q), FairIn(q, phase', DoneIn(q)), turns' # 0
    PROVE  Rounds'
<1> DEFINE r == Queues'
           p == phase'
           done == settled'
<1>1. /\ r.acts = q.acts /\ r.chain = q.chain /\ r.heard = q.heard
      /\ done = DoneIn(q) /\ chain' = q.chain
  BY BecomeMakes DEF Queues
<1>2. TopOf(q.chain) \in ToSet(q.chain) \union {NoItem}
  BY DEF QueueRecords, TopOf, Last, ToSet
<1>3. done \subseteq ToSet(q.chain) \union {NoItem}
  BY <1>1, <1>2 DEF DoneIn
<1>4. FairIn(q, p, done)
  BY <1>1
<1> HIDE DEF r, p, done
<1>5. RoundsIn(r, p) /\ AnsweredIn(r, done) /\ PhaseAskedIn(r, p, done)
  BY <1>1, <1>4 DEF FairIn, RoundsIn, PlacedIn, EnteredOnceIn, CoveredIn, HeardIn,
                    AnsweredIn, PhaseAskedIn
<1> QED
  BY <1>1, <1>3, <1>5 DEF Rounds, r, p, done

\* A call that queues an item, ends a round or does neither.
LEMMA OrdinaryStep ==
    ASSUME Fair, NEW q, Ordinary(q), Become(q),
           phase' = phase, turns' = turns, turns # 0
    PROVE  Rounds' /\ [Promise!Next]_PromiseVars
<1>1. q \in QueueRecords /\ Moved(q) /\ FairIn(q, phase, DoneIn(q))
  BY DEF Ordinary
<1>2. Rounds'
  <2>1. FairIn(q, phase', DoneIn(q))
    BY <1>1, Zenon
  <2> QED
    BY <1>1, <2>1, RoundsAfter
<1>3. chain' = q.chain /\ fresh' = q.fresh /\ settled' = DoneIn(q)
  BY BecomeMakes
<1>4. settled \subseteq ToSet(chain) \union {NoItem} /\ chain \in Seq(Items)
  BY DEF Fair, Good, TypeOK, Rounds
<1>5. CASE q.chain = chain /\ q.fresh = fresh
  <2>1. settled' = settled \union {i \in {TopOf(chain)} : Complete(i, q.heard)}
    BY <1>1, <1>3, <1>4, <1>5 DEF DoneIn, Moved
  <2>2. CASE Complete(TopOf(chain), q.heard)
    <3>1. settled' = settled \union {TopOf(chain)}
      BY <2>1, <2>2
    <3>2. Promise!TopItem = TopOf(chain)
      BY DEF Promise!TopItem, TopOf, Last, Promise!Last
    <3>3. Promise!RoundEnds
      BY <1>3, <1>5, <3>1, <3>2 DEF Promise!RoundEnds
    <3> QED
      BY <1>2, <3>3 DEF Promise!Next
  <2>3. CASE ~Complete(TopOf(chain), q.heard)
    <3>1. settled' = settled
      BY <2>1, <2>3
    <3> QED
      BY <1>2, <1>3, <1>5, <3>1 DEF PromiseVars
  <2> QED
    BY <2>2, <2>3
<1>6. CASE \E i \in fresh : /\ q.chain = Append(chain, i)
                            /\ q.fresh = fresh \ {i}
                            /\ q.heard = {}
  <2>1. PICK i \in fresh : /\ q.chain = Append(chain, i)
                           /\ q.fresh = fresh \ {i}
                           /\ q.heard = {}
    BY <1>6
  <2>2. ToSet(chain) \subseteq ToSet(Append(chain, i))
    <3>1. \A k \in DOMAIN chain : k \in DOMAIN Append(chain, i) /\ Append(chain, i)[k] = chain[k]
      BY <1>4
    <3> QED
      BY <3>1 DEF ToSet
  <2>3. settled' = settled
    BY <1>1, <1>3, <1>4, <2>1, <2>2, NobodyHeard DEF DoneIn, Moved
  <2>4. Promise!Queue
    BY <1>3, <2>1, <2>3 DEF Promise!Queue
  <2> QED
    BY <1>2, <2>4 DEF Promise!Next
<1> QED
  BY <1>1, <1>5, <1>6 DEF Moved

\* The same, of a call that leaves the phase and the turn alone.
LEMMA OrdinaryCall ==
    ASSUME Fair, NEW q, Ordinary(q), Become(q), UNCHANGED gameVars, turns # 0
    PROVE  Rounds' /\ [Promise!Next]_PromiseVars
BY OrdinaryStep DEF gameVars

LEMMA ConsumeIsOrdinary ==
    ASSUME Fair, SyncClients = {}, turns # 0, NEW q, Unmoved(q),
           NEW asked \in BOOLEAN, Consume(q, asked)
    PROVE  Rounds' /\ [Promise!Next]_PromiseVars
<1> DEFINE tx == Head(txs)
<1>1. tx \in Transactions /\ UNCHANGED gameVars
  BY HeadTailProperties DEF Fair, Good, TypeOK, Consume
<1>2. Midway(q) /\ q.fresh = fresh
  BY DEF Unmoved
<1>3. CASE Handles(tx, q, asked)
  <2>1. PICK r \in Outcomes(tx, q) : Become(r)
    BY <1>3 DEF Consume
  <2>2. Midway(r)
    <3>1. CASE tx.kind \in {"pass", "autopass"} /\ CanPass(q, tx.player)
      <4>1. r \in Hooked(AfterPass(q, tx.player), active)
        BY <2>1, <3>1 DEF Outcomes
      <4>2. Unmoved(AfterPass(q, tx.player))
        BY <3>1, UnmovedAfterPass
      <4> QED
        BY <4>1, <4>2, MidwayHooked
    <3>2. CASE tx.kind = "play"
      <4>1. tx.item \in fresh /\ tx.item \in Items /\ tx.player \in Players
        BY <1>1, <1>2, <1>3, <3>2 DEF Handles, Transactions, Fair, Good, TypeOK
      <4>2. Nominee(tx.player, tx.item) \in Players
        BY <4>1, NomineeType
      <4>3. r = WithItem(q, tx.item, Nominee(tx.player, tx.item), active)
        BY <2>1, <3>2 DEF Outcomes
      <4> QED
        BY <4>1, <4>2, <4>3, MidwayWithItem
    <3>3. CASE ~(tx.kind \in {"pass", "autopass"} /\ CanPass(q, tx.player))
               /\ tx.kind # "play"
      BY <1>2, <2>1, <3>3 DEF Outcomes
    <3> QED
      BY <3>1, <3>2, <3>3
  <2> QED
    BY <1>1, <2>1, <2>2, MidwayIsOrdinary, OrdinaryCall
<1>4. CASE ~Handles(tx, q, asked)
  <2>1. Become(q)
    BY <1>4 DEF Consume
  <2> QED
    BY <1>1, <1>2, <2>1, MidwayIsOrdinary, OrdinaryCall
<1> QED
  BY <1>3, <1>4

\* A live window is made to start with the player the snapshot names.
LEMMA SubmitIsOrdinary ==
    ASSUME Fair, SubmitSome PROVE Rounds' /\ [Promise!Next]_PromiseVars
<1>1. PICK tx \in Intents : Submit(tx)
  BY DEF SubmitSome
<1>2. turns # 0 /\ Become(Reconciled) /\ UNCHANGED gameVars
  BY <1>1 DEF SubmitSome, Submit
<1>3. FairIn(Queues, phase, settled) /\ TypeOK /\ Queues \in GoodQueues
  BY <1>2, StartsUnmoved DEF Unmoved, Midway, Fair, Good
<1>4. FairIn(Reconciled, phase, settled) /\ Reconciled \in GoodQueues
  BY <1>3, FairReconciled, GoodReconciled
<1>5. Moved(Reconciled)
  BY DEF Moved, Reconciled, Queues
<1> QED
  BY <1>2, <1>4, <1>5, MidwayIsOrdinary, OrdinaryCall DEF Midway

\* Sequences of at most two fresh items, as the abstract specification takes
\* them.
LEMMA NewsAre ==
    /\ \A n \in Nat : <<>> \in Promise!News(n)
    /\ \A n \in Nat \ {0} : \A i \in fresh : <<i>> \in Promise!News(n)
    /\ \A i, j \in fresh : i # j => <<i, j>> \in Promise!News(2)
    /\ Promise!ToSet(<<>>) = {}
    /\ \A i : Promise!ToSet(<<i>>) = {i}
    /\ \A i, j : Promise!ToSet(<<i, j>>) = {i, j}
<1>1. ASSUME NEW n \in Nat PROVE <<>> \in Promise!News(n)
  <2>1. <<>> \in [1 .. 0 -> fresh] /\ 0 \in 0 .. n
    OBVIOUS
  <2> QED
    BY <2>1 DEF Promise!News, Promise!IsInjective
<1>2. ASSUME NEW n \in Nat \ {0}, NEW i \in fresh PROVE <<i>> \in Promise!News(n)
  <2>1. <<i>> \in [1 .. 1 -> fresh] /\ 1 \in 0 .. n
    OBVIOUS
  <2> QED
    BY <2>1 DEF Promise!News, Promise!IsInjective
<1>3. ASSUME NEW i \in fresh, NEW j \in fresh, i # j PROVE <<i, j>> \in Promise!News(2)
  <2>1. <<i, j>> \in [1 .. 2 -> fresh] /\ 2 \in 0 .. 2
    OBVIOUS
  <2> QED
    BY <1>3, <2>1 DEF Promise!News, Promise!IsInjective
<1> QED
  BY <1>1, <1>2, <1>3 DEF Promise!ToSet

LEMMA OneIsNews ==
    \A i \in fresh : <<i>> \in Promise!News(2) /\ Promise!ToSet(<<i>>) = {i}
<1>1. 2 \in Nat \ {0}
  OBVIOUS
<1> QED
  BY <1>1, NewsAre

LEMMA TwoAreNews ==
    ASSUME NEW c \in Seq(Items), Len(c) = 1, NEW i \in fresh, c[1] = i,
           NEW j \in Items, j \in fresh, i # j
    PROVE  /\ Append(c, j) \in Promise!News(2)
           /\ Promise!ToSet(Append(c, j)) = {i, j}
<1> DEFINE d == Append(c, j)
<1>1. /\ d \in Seq(Items) /\ Len(d) = Len(c) + 1
      /\ \A k \in 1 .. Len(c) : d[k] = c[k]
      /\ d[Len(c) + 1] = j
  BY AppendGives
<1> HIDE DEF d
<1>2. Len(d) = 2 /\ d[1] = i /\ d[2] = j /\ DOMAIN d = 1 .. 2
  BY <1>1
<1>3. d \in [1 .. 2 -> fresh] /\ 2 \in 0 .. 2
  BY <1>1, <1>2
<1>4. d \in Promise!News(2)
  BY <1>2, <1>3 DEF Promise!News, Promise!IsInjective
<1>5. Promise!ToSet(d) = {i, j}
  BY <1>2 DEF Promise!ToSet
<1> QED
  BY <1>4, <1>5 DEF d

\* What a resolution's hook leaves on the stack: no window about the item that
\* resolves, which has the one resolver on top.
LEMMA NobodyStillAsked ==
    ASSUME NEW e \in QueueRecords, OnceIn(e), OwnedIn(e), NEW p, PlacedIn(e, p),
           e.acts # <<>>, IsResolve(Top(e.acts)), Top(e.acts).cur,
           NEW i \in ToSet(e.chain), Top(e.acts).item = i,
           NEW player \in Players, NEW q \in Hooked(e, player)
    PROVE  /\ \A k \in DOMAIN q.acts : IsWindow(q.acts[k]) => q.acts[k].item # i
           /\ IsResolve(Top(q.acts)) => Top(q.acts).cur
           /\ IsWindow(Top(q.acts)) => AsksAnew(Top(q.acts).who, Top(q.acts).queue)
<1> DEFINE n == Len(e.acts)
<1>1. /\ e.acts \in Seq(Actions) /\ n \in Nat \ {0} /\ DOMAIN e.acts = 1 .. n
      /\ Top(e.acts) = e.acts[n] /\ n \in DOMAIN e.acts
  BY TopType DEF QueueRecords
<1>2. i \in Items /\ i # NoItem /\ i \notin e.fresh
  BY NoneAssumption DEF QueueRecords, ToSet, OnceIn
<1>3. PICK m \in DOMAIN e.chain : e.chain[m] = i
  BY DEF ToSet
<1>4. m \in Nat
  BY <1>3 DEF QueueRecords
<1> HIDE DEF n
<1>5. ASSUME NEW k \in DOMAIN e.acts, IsWindow(e.acts[k]), e.acts[k].item = i
      PROVE  FALSE
  <2>1. k > 1 /\ IsResolverOf(e.acts[k - 1], i)
    BY <1>2, <1>5 DEF PlacedIn
  <2>2. k - 1 \in DOMAIN e.acts /\ k \in 1 .. n
    BY <1>1, <2>1
  <2>3. IsResolverOf(e.acts[n], i)
    BY <1>1 DEF IsResolverOf
  <2>4. n <= k - 1
    BY <1>1, <1>3, <1>4, <2>1, <2>2, <2>3 DEF OwnedIn
  <2> QED
    BY <1>1, <2>2, <2>4
<1>6. CASE q = e
  BY <1>5, <1>6 DEF IsWindow, IsResolve
<1>7. CASE q \in Found(e, HookItems, player)
  <2>1. PICK j \in HookItems \intersect e.fresh :
          \E first \in HookNominees(j, player) : q = WithItem(e, j, first, player)
    BY <1>7 DEF Found
  <2>2. PICK first \in HookNominees(j, player) : q = WithItem(e, j, first, player)
    BY <2>1
  <2>3. j \in Items /\ j # i /\ first \in Players
    BY <1>2, HookNomineesType DEF QueueRecords
  <2>4. /\ DOMAIN q.acts = 1 .. n + 2
        /\ \A k \in 1 .. n : Covers(q.acts[k], e.acts[k])
        /\ IsResolverOf(q.acts[n + 1], j)
        /\ Top(q.acts) = q.acts[n + 2]
        /\ IsWindowOf(q.acts[n + 2], j)
        /\ AsksAnew(q.acts[n + 2].who, q.acts[n + 2].queue)
    BY <2>2, <2>3, QueuedStack DEF n
  <2>5. ASSUME NEW k \in DOMAIN q.acts, IsWindow(q.acts[k]) PROVE q.acts[k].item # i
    <3>1. k \in 1 .. n \/ k = n + 1 \/ k = n + 2
      BY <1>1, <2>4
    <3>2. CASE k \in 1 .. n
      BY <1>1, <1>5, <2>4, <2>5, <3>2 DEF Covers, Alike, Same, IsWindow
    <3>3. CASE k = n + 1
      BY <2>4, <2>5, <3>3 DEF IsResolverOf, IsResolve, IsWindow
    <3>4. CASE k = n + 2
      BY <2>3, <2>4, <3>4 DEF IsWindowOf
    <3> QED
      BY <3>1, <3>2, <3>3, <3>4
  <2> QED
    BY <2>4, <2>5 DEF IsWindowOf, IsWindow, IsResolve
<1> QED
  BY <1>6, <1>7 DEF Hooked

\* A resolution takes the chain's top off it, which has been answered, and may
\* leave a trigger in its place.
LEMMA ResolveKeepsPromise ==
    ASSUME Fair, SyncClients = {}, TickResolves
    PROVE  Rounds' /\ [Promise!Next]_PromiseVars
<1> DEFINE e == EnteredQueues(Queues)
           i == ChainTop
<1>1. /\ turns # 0 /\ acts # <<>> /\ IsResolve(Top(acts)) /\ Top(acts).item = i
      /\ UNCHANGED gameVars
  BY DEF TickResolves, Ticks, TopResolver
<1>2. PICK q \in Hooked(e, active) : Become(Resolved(q, i))
  BY DEF TickResolves
<1>3. /\ TypeOK /\ active \in Players /\ chain \in Seq(Items) /\ acts \in Seq(Actions)
      /\ Queues.acts = acts /\ Queues.chain = chain /\ Queues.fresh = fresh
      /\ Queues.settled = settled
  BY DEF Fair, Good, TypeOK, Queues
<1>4. chain # <<>> /\ i = Last(chain) /\ i \in ToSet(chain) /\ i \in Items /\ i # NoItem
  <2>1. chain # <<>>
    BY <1>1, <1>3, ResolverHasItem
  <2>2. i = chain[Len(chain)] /\ Len(chain) \in DOMAIN chain
    BY <1>3, <2>1 DEF ChainTop, TopOf, Last
  <2> QED
    BY <1>3, <2>1, <2>2, NoneAssumption DEF ToSet, Last
<1>5. /\ Midway(e) /\ e.acts # <<>> /\ Top(e.acts).cur /\ Alike(Top(e.acts), Top(acts))
      /\ e.chain = chain /\ e.fresh = fresh /\ e.settled = settled
  BY <1>1, <1>3, StartsUnmoved, MidwayEntered DEF Unmoved
<1> HIDE DEF e, i
<1>6. Unmoved(e) /\ e \in QueueRecords /\ OnceIn(e) /\ OwnedIn(e) /\ PlacedIn(e, phase)
  BY <1>5, GoodIsTyped DEF Unmoved, Midway, GoodQueues, FairIn, RoundsIn
<1>7. /\ Midway(q) /\ q.acts # <<>> /\ q \in QueueRecords /\ OnceIn(q)
      /\ ToSet(chain) \subseteq ToSet(q.chain)
  <2>1. Midway(q)
    BY <1>2, <1>6, MidwayHooked
  <2> QED
    BY <1>2, <1>3, <1>5, <1>6, <2>1, HookedStack, HookedChain, GoodIsTyped
    DEF Midway, GoodQueues
<1>8. /\ \A k \in DOMAIN q.acts : IsWindow(q.acts[k]) => q.acts[k].item # i
      /\ IsResolve(Top(q.acts)) => Top(q.acts).cur
      /\ IsWindow(Top(q.acts)) => AsksAnew(Top(q.acts).who, Top(q.acts).queue)
  <2>1. IsResolve(Top(e.acts)) /\ Top(e.acts).item = i /\ i \in ToSet(e.chain)
    BY <1>1, <1>4, <1>5 DEF Alike, Same, IsResolve
  <2> QED
    BY <1>2, <1>3, <1>5, <1>6, <2>1, NobodyStillAsked
<1> DEFINE r == Resolved(q, i)
<1>9. FairIn(r, phase, settled)
  BY <1>4, <1>7, <1>8, FairResolved DEF Midway, OnceIn
<1>10. /\ r \in QueueRecords /\ r.chain = Without(q.chain, i) /\ r.fresh = q.fresh
       /\ r.settled = settled /\ r.heard = {}
  <2>1. r \in QueueRecords
    BY <1>4, <1>7, ResolvedType
  <2>2. r.chain = Without(q.chain, i) /\ r.fresh = q.fresh /\ r.settled = q.settled
        /\ r.heard = {}
    BY <1>7 DEF Resolved, QueueRecords
  <2> QED
    BY <1>7, <2>1, <2>2 DEF Midway, Moved
<1> HIDE DEF r
<1>11. Rounds'
  <2>1. FairIn(r, phase', DoneIn(r)) /\ turns' # 0
    BY <1>1, <1>9, <1>10, DoneKeeps DEF gameVars
  <2> QED
    BY <1>2, <1>10, <2>1, RoundsAfter DEF r
<1>12. chain' = Without(q.chain, i) /\ fresh' = q.fresh /\ settled' = settled \ {i}
  <2>1. chain' = r.chain /\ fresh' = r.fresh /\ settled' = DoneIn(r)
    BY <1>2, BecomeMakes DEF r
  <2>2. ToSet(r.chain) = ToSet(q.chain) \ {i}
    BY <1>4, <1>7, <1>10, WithoutExactly DEF OnceIn, QueueRecords
  <2>3. settled \subseteq ToSet(q.chain) \union {NoItem}
    BY <1>7 DEF Fair, Rounds
  <2>4. DoneIn(r) = settled \ {i}
    BY <1>4, <1>10, <2>2, <2>3, NobodyHeard DEF DoneIn
  <2> QED
    BY <1>10, <2>1, <2>4
<1>13. i \in settled \union Chainless
  <2>1. Len(acts) \in DOMAIN acts /\ acts[Len(acts)] = Top(acts)
    BY <1>1, <1>3, TopType
  <2>2. ~(Len(acts) < Len(acts))
    BY <1>3
  <2>3. AnsweredIn(Queues, settled)
    BY DEF Fair, Rounds
  <2> QED
    BY <1>1, <1>3, <1>4, <2>1, <2>2, <2>3 DEF AnsweredIn
<1>14. Promise!Last(chain) = i /\ Promise!Front(chain) = Front(chain)
  BY <1>4 DEF Promise!Last, Last, Promise!Front, Front
<1>15. \E s \in Promise!News(1) : /\ chain' = Promise!Front(chain) \o s
                                  /\ fresh' = fresh \ Promise!ToSet(s)
  <2>1. CASE q.chain = chain /\ q.fresh = fresh
    <3> DEFINE none == <<>>
    <3>1. chain \o none = chain /\ none \in Seq(Items) /\ IsInjective(chain)
      BY <1>3, <1>7, <2>1 DEF OnceIn
    <3>3. none \in Promise!News(1) /\ Promise!ToSet(none) = {}
      BY NewsAre
    <3> HIDE DEF none
    <3>2. Without(chain \o none, Last(chain)) = Front(chain) \o none
      BY <1>3, <1>4, <3>1, LastTakenOff
    <3> QED
      BY <1>4, <1>12, <1>14, <2>1, <3>1, <3>2, <3>3
  <2>2. CASE \E j \in fresh : q.chain = Append(chain, j) /\ q.fresh = fresh \ {j}
    <3>1. PICK j \in fresh : q.chain = Append(chain, j) /\ q.fresh = fresh \ {j}
      BY <2>2
    <3> DEFINE one == <<j>>
    <3>2. one \in Seq(Items) /\ Append(chain, j) = chain \o one
      <4>1. j \in Items
        BY <1>3 DEF TypeOK
      <4> QED
        BY <1>3, <4>1, AppendIsConcat
    <3>4. one \in Promise!News(1) /\ Promise!ToSet(one) = {j}
      BY NewsAre
    <3> HIDE DEF one
    <3>3. Without(chain \o one, Last(chain)) = Front(chain) \o one
      BY <1>3, <1>4, <1>7, <3>1, <3>2, LastTakenOff DEF OnceIn
    <3> QED
      BY <1>4, <1>12, <1>14, <3>1, <3>2, <3>3, <3>4
  <2> QED
    BY <1>7, <2>1, <2>2 DEF Midway, Moved
<1>16. Promise!Resolve
  BY <1>1, <1>4, <1>12, <1>13, <1>14, <1>15 DEF Promise!Resolve, gameVars
<1> QED
  BY <1>11, <1>16 DEF Promise!Next

\* The abstract specification has the same phase graph.
LEMMA SameGraph ==
    Promise!Permits = Permits /\ Promise!PriorityPlayers = PriorityPlayers
<1>1. Promise!Phases = Phases /\ Promise!AllPlayerPhases = AllPlayerPhases
  BY DEF Promise!Phases, Phases, Promise!AllPlayerPhases, AllPlayerPhases
<1>2. Promise!PriorityPlayers = PriorityPlayers
  BY <1>1 DEF Promise!PriorityPlayers, PriorityPlayers
<1>3. Promise!PermitsBeforeEnd = PermitsBeforeEnd
  BY <1>1 DEF Promise!PermitsBeforeEnd, PermitsBeforeEnd
<1> QED
  BY <1>1, <1>2, <1>3 DEF Promise!Permits, Permits

\* Nothing is on an empty stack, and the only round that can be over is the
\* phase's.
LEMMA EmptyStack ==
    ASSUME Fair, SyncClients = {}, acts = <<>>
    PROVE  /\ chain = <<>> /\ settled \subseteq {NoItem}
           /\ Queues \in GoodQueues /\ Queues \in QueueRecords
           /\ Queues.acts = <<>> /\ Queues.chain = <<>> /\ Queues.fresh = fresh
           /\ Queues.settled = settled
           /\ \A p, done : RoundsIn(Queues, p) /\ AnsweredIn(Queues, done)
<1>1. chain = <<>>
  BY NothingPending DEF Fair
<1>2. settled \subseteq {NoItem}
  BY <1>1 DEF Fair, Rounds, ToSet
<1>3. /\ Queues \in GoodQueues /\ Queues \in QueueRecords
      /\ Queues.acts = <<>> /\ Queues.chain = <<>> /\ Queues.fresh = fresh
      /\ Queues.settled = settled
  BY <1>1, GoodIsTyped DEF Fair, Good, Queues
<1>4. ASSUME NEW p, NEW done PROVE RoundsIn(Queues, p) /\ AnsweredIn(Queues, done)
  <2>1. DOMAIN Queues.acts = {}
    BY <1>3
  <2> QED
    BY <1>3, <2>1 DEF RoundsIn, PlacedIn, EnteredOnceIn, CoveredIn, HeardIn, AnsweredIn
<1> QED
  BY <1>1, <1>2, <1>3, <1>4

\* The entry of a phase: its window, over which a trigger may stand already.
LEMMA EntryIsFair ==
    ASSUME Fair, SyncClients = {}, StopPolicies \subseteq {"All"}, acts = <<>>,
           NEW p \in Phases, NEW player \in Players, NEW q \in Entries(p, player)
    PROVE  /\ q \in GoodQueues /\ FairIn(q, p, {})
           /\ q.settled = {} /\ q.heard = {}
           /\ \/ q.chain = <<>> /\ q.fresh = fresh
              \/ \E i \in fresh : q.chain = <<i>> /\ q.fresh = fresh \ {i}
<1>1. PICK b \in {Queues} \union Found(Queues, EntryItems, player),
           who \in {PriorityPlayers[p]} \union StopPolicies :
              q = Entered(b, p, who, player)
  BY DEF Entries
<1>2. who \in Policies /\ (PriorityPlayers[p] = "All" => who = "All")
  BY PriorityPlayersType, HostAssumption
<1>3. q \in GoodQueues
  BY EmptyStack, GoodEntries
<1>4. CASE b = Queues
  <2>1. FairIn(q, p, {})
    <3>1. DOMAIN Queues.acts = {}
      BY EmptyStack
    <3>2. RoundsIn(Queues, p) /\ AnsweredIn(Queues, {}) /\ Queues \in QueueRecords
      BY EmptyStack
    <3> QED
      BY <1>1, <1>2, <1>4, <3>1, <3>2, EmptyStack, FairEntered
  <2>2. /\ q.settled = settled \ {NoItem} /\ q.heard = {} /\ q.chain = <<>>
        /\ q.fresh = fresh
    BY <1>1, <1>4, EmptyStack DEF Entered, QueueRecords
  <2> QED
    BY <1>3, <2>1, <2>2, EmptyStack
<1>5. CASE b \in Found(Queues, EntryItems, player)
  <2>1. PICK i \in EntryItems \intersect fresh :
          \E first \in HookNominees(i, player) : b = WithItem(Queues, i, first, player)
    BY <1>5, EmptyStack DEF Found
  <2>2. PICK first \in HookNominees(i, player) : b = WithItem(Queues, i, first, player)
    BY <2>1
  <2>3. /\ i \in Items /\ i \in Queues.fresh /\ first \in Players /\ i # NoItem
        /\ Queues \in QueueRecords
    BY HookNomineesType, EmptyStack, NoneAssumption DEF QueueRecords
  <2>4. OnceIn(Queues) /\ OwnedIn(Queues) /\ RoundsIn(Queues, p) /\ AnsweredIn(Queues, {})
    BY EmptyStack DEF GoodQueues
  <2>5. RoundsIn(b, p) /\ AnsweredIn(b, {})
    BY <2>2, <2>3, <2>4, FairWithItem
  <2>6. /\ b \in QueueRecords /\ DOMAIN b.acts = 1 .. 0 + 2 /\ b.acts # <<>>
        /\ IsResolverOf(b.acts[0 + 1], i)
        /\ Top(b.acts) = b.acts[0 + 2] /\ IsWindowOf(b.acts[0 + 2], i)
        /\ AsksAnew(b.acts[0 + 2].who, b.acts[0 + 2].queue)
        /\ b.chain = Append(<<>>, i) /\ b.fresh = fresh \ {i}
        /\ b.settled = settled
    <3>1. Len(Queues.acts) = 0 /\ Queues.chain = <<>> /\ Queues.fresh = fresh
          /\ Queues.settled = settled
      BY EmptyStack
    <3> DEFINE n == Len(Queues.acts)
    <3> DEFINE w == WithItem(Queues, i, first, player)
    <3>4. b = w
      BY <2>2
    <3>2. /\ w \in QueueRecords /\ DOMAIN w.acts = 1 .. n + 2 /\ w.acts # <<>>
          /\ IsResolverOf(w.acts[n + 1], i)
          /\ Top(w.acts) = w.acts[n + 2] /\ IsWindowOf(w.acts[n + 2], i)
          /\ AsksAnew(w.acts[n + 2].who, w.acts[n + 2].queue)
          /\ w.chain = Append(Queues.chain, i) /\ w.fresh = Queues.fresh \ {i}
          /\ w.settled = Queues.settled
      BY <2>3, QueuedStack
    <3>3. n = 0
      BY <3>1
    <3> HIDE DEF n, w
    <3> QED
      BY <3>1, <3>2, <3>3, <3>4
  <2>7. \A k \in DOMAIN b.acts : IsWindow(b.acts[k]) => b.acts[k].item # NoItem
    BY <2>3, <2>6 DEF IsResolverOf, IsWindowOf, IsResolve, IsWindow
  <2>8. FairIn(q, p, {})
    BY <1>1, <1>2, <2>5, <2>6, <2>7, FairEntered
  <2>9. /\ q.settled = settled \ {NoItem} /\ q.heard = {} /\ q.chain = b.chain
        /\ q.fresh = b.fresh
    BY <1>1, <2>6 DEF Entered, QueueRecords
  <2>10. q.settled = {} /\ q.chain = <<i>> /\ q.fresh = fresh \ {i}
    BY <2>6, <2>9, EmptyStack
  <2> QED
    BY <1>3, <2>1, <2>8, <2>9, <2>10
<1> QED
  BY <1>1, <1>4, <1>5

\* A transition: the entry, and what the check on it finds.
LEMMA TransitionIsFair ==
    ASSUME Fair, SyncClients = {}, StopPolicies \subseteq {"All"}, acts = <<>>,
           NEW p \in Phases, NEW player \in Players, NEW r \in Transitions(p, player)
    PROVE  /\ r \in GoodQueues /\ FairIn(r, p, {})
           /\ r.settled = {} /\ r.heard = {}
           /\ \E s \in Promise!News(2) : /\ r.chain = s
                                         /\ r.fresh = fresh \ Promise!ToSet(s)
<1>1. PICK q \in Entries(p, player) : r = q \/ r \in Hooked(q, player)
  BY DEF Transitions
<1>2. /\ q \in GoodQueues /\ FairIn(q, p, {}) /\ q.settled = {} /\ q.heard = {}
      /\ \/ q.chain = <<>> /\ q.fresh = fresh
         \/ \E i \in fresh : q.chain = <<i>> /\ q.fresh = fresh \ {i}
  BY EntryIsFair
<1>3. CASE r = q
  <2> SUFFICES \E s \in Promise!News(2) : q.chain = s /\ q.fresh = fresh \ Promise!ToSet(s)
    BY <1>2, <1>3
  <2>1. CASE q.chain = <<>> /\ q.fresh = fresh
    <3> DEFINE s == <<>>
    <3>1. s \in Promise!News(2) /\ Promise!ToSet(s) = {}
      BY NewsAre
    <3>2. q.chain = s
      BY <2>1
    <3> HIDE DEF s
    <3> QED
      BY <2>1, <3>1, <3>2
  <2>2. CASE \E i \in fresh : q.chain = <<i>> /\ q.fresh = fresh \ {i}
    <3>1. PICK i \in fresh : q.chain = <<i>> /\ q.fresh = fresh \ {i}
      BY <2>2
    <3> DEFINE s == <<i>>
    <3>2. s \in Promise!News(2) /\ Promise!ToSet(s) = {i} /\ q.chain = s
      BY <3>1, OneIsNews
    <3> HIDE DEF s
    <3> QED
      BY <3>1, <3>2
  <2> QED
    BY <1>2, <2>1, <2>2
<1>4. CASE r \in Found(q, HookItems, player)
  <2>1. PICK j \in HookItems \intersect q.fresh :
          \E first \in HookNominees(j, player) : r = WithItem(q, j, first, player)
    BY <1>4 DEF Found
  <2>2. PICK first \in HookNominees(j, player) : r = WithItem(q, j, first, player)
    BY <2>1
  <2>3. /\ q \in QueueRecords /\ OnceIn(q) /\ OwnedIn(q) /\ first \in Players
        /\ j \in q.fresh
    BY <1>2, GoodIsTyped, HookNomineesType DEF GoodQueues
  <2>4. RoundsIn(q, p) /\ AnsweredIn(q, {}) /\ PhaseAskedIn(q, p, {})
    BY <1>2 DEF FairIn
  <2>5. FairIn(r, p, {})
    BY <2>2, <2>3, <2>4, FairWithItem DEF FairIn
  <2>6. r \in GoodQueues
    BY <1>2, <2>2, <2>3, GoodWithItem
  <2>7. /\ r.settled = {} /\ r.heard = {} /\ r.chain = Append(q.chain, j)
        /\ r.fresh = q.fresh \ {j}
    BY <1>2, <2>2 DEF WithItem
  <2>8. \E s \in Promise!News(2) : r.chain = s /\ r.fresh = fresh \ Promise!ToSet(s)
    <3>1. CASE q.chain = <<>> /\ q.fresh = fresh
      <4>1. r.chain = <<j>> /\ r.fresh = fresh \ {j} /\ j \in fresh
        BY <2>3, <2>7, <3>1
      <4> DEFINE s == <<j>>
      <4>2. s \in Promise!News(2) /\ Promise!ToSet(s) = {j} /\ r.chain = s
        BY <4>1, OneIsNews
      <4> HIDE DEF s
      <4> QED
        BY <4>1, <4>2
    <3>2. CASE \E i \in fresh : q.chain = <<i>> /\ q.fresh = fresh \ {i}
      <4>1. PICK i \in fresh : q.chain = <<i>> /\ q.fresh = fresh \ {i}
        BY <3>2
      <4>2. Len(q.chain) = 1 /\ q.chain[1] = i
        BY <4>1
      <4>3. q.chain \in Seq(Items) /\ j \in Items /\ j \in fresh /\ i # j
        BY <2>3, <4>1 DEF QueueRecords
      <4>4. /\ Append(q.chain, j) \in Promise!News(2)
            /\ Promise!ToSet(Append(q.chain, j)) = {i, j}
        BY <4>2, <4>3, TwoAreNews
      <4>5. r.fresh = fresh \ {i, j}
        BY <2>7, <4>1
      <4> QED
        BY <2>7, <4>4, <4>5
    <3> QED
      BY <1>2, <3>1, <3>2
  <2> QED
    BY <2>5, <2>6, <2>7, <2>8
<1> QED
  BY <1>1, <1>3, <1>4 DEF Hooked

\* A phase ends with nothing pending, after its round.
LEMMA AdvanceKeepsPromise ==
    ASSUME Fair, SyncClients = {}, StopPolicies \subseteq {"All"}, turns # 0,
           AdvanceTurnPhase
    PROVE  Rounds' /\ [Promise!Next]_PromiseVars
<1>1. /\ acts = <<>> /\ phase \in Phases /\ phase' \in Permits[phase]
      /\ turns' # 0 /\ active' \in Players
  <2>1. /\ acts = <<>> /\ phase \in Phases /\ turns \in Nat /\ active \in Players
        /\ phase' \in Permits[phase]
    BY DEF AdvanceTurnPhase, Fair, Good, TypeOK
  <2>2. turns' \in {turns, turns + 1}
    BY DEF AdvanceTurnPhase
  <2>3. active' \in {active, NextSeat(active)} \union BonusSeats
    BY DEF AdvanceTurnPhase
  <2> QED
    BY <2>1, <2>2, <2>3, NextSeatType, HostAssumption
<1>2. phase' \in Phases
  BY <1>1, PermitsType
<1>3. PICK r \in Transitions(phase', active') : Become(r)
  BY DEF AdvanceTurnPhase
<1>4. /\ r \in QueueRecords /\ FairIn(r, phase', {}) /\ r.settled = {} /\ r.heard = {}
      /\ \E s \in Promise!News(2) : /\ r.chain = s
                                    /\ r.fresh = fresh \ Promise!ToSet(s)
  BY <1>1, <1>2, <1>3, TransitionIsFair, GoodIsTyped
<1>5. DoneIn(r) = {}
  BY <1>4, NobodyHeard DEF DoneIn
<1>6. Rounds'
  BY <1>1, <1>3, <1>4, <1>5, RoundsAfter
<1>7. chain' = r.chain /\ fresh' = r.fresh /\ settled' = {}
  BY <1>3, <1>5, BecomeMakes
<1>8. PriorityPlayers[phase] = "All" => NoItem \in settled
  <2>1. PhaseAskedIn(Queues, phase, settled) /\ Queues.acts = <<>>
    BY <1>1, EmptyStack DEF Fair, Rounds
  <2> QED
    BY <2>1 DEF PhaseAskedIn
<1>9. chain = <<>>
  BY <1>1, EmptyStack
<1>10. Promise!ChangePhase
  BY <1>1, <1>4, <1>7, <1>8, <1>9, SameGraph DEF Promise!ChangePhase
<1> QED
  BY <1>6, <1>10 DEF Promise!Next

\* The window of the first phase.
LEMMA BeginKeepsPromise ==
    ASSUME Fair, SyncClients = {}, StopPolicies \subseteq {"All"}, Begin
    PROVE  Rounds' /\ [Promise!Next]_PromiseVars
<1>1. /\ acts = <<>> /\ phase \in Phases /\ active \in Players /\ settled = {}
      /\ phase' = phase /\ turns' # 0
  BY DEF Begin, Fair, Good, Rounds, TypeOK
<1>2. PICK q \in Entries(phase, active) : Become(q)
  BY DEF Begin
<1>3. /\ q \in QueueRecords /\ FairIn(q, phase, {}) /\ q.settled = {} /\ q.heard = {}
      /\ \/ q.chain = <<>> /\ q.fresh = fresh
         \/ \E i \in fresh : q.chain = <<i>> /\ q.fresh = fresh \ {i}
  BY <1>1, <1>2, EntryIsFair, GoodIsTyped
<1>4. DoneIn(q) = {} /\ chain = <<>>
  BY <1>1, <1>3, NobodyHeard, EmptyStack DEF DoneIn
<1>5. Rounds'
  <2>1. FairIn(q, phase', DoneIn(q))
    BY <1>1, <1>3, <1>4
  <2> QED
    BY <1>1, <1>2, <1>3, <2>1, RoundsAfter
<1>6. chain' = q.chain /\ fresh' = q.fresh /\ settled' = settled
  BY <1>1, <1>2, <1>4, BecomeMakes
<1>7. CASE q.chain = <<>> /\ q.fresh = fresh
  BY <1>1, <1>4, <1>5, <1>6, <1>7 DEF PromiseVars
<1>8. CASE \E i \in fresh : q.chain = <<i>> /\ q.fresh = fresh \ {i}
  <2>1. PICK i \in fresh : q.chain = <<i>> /\ q.fresh = fresh \ {i}
    BY <1>8
  <2>2. chain' = Append(chain, i)
    BY <1>4, <1>6, <2>1
  <2>3. Promise!Queue
    BY <1>1, <1>6, <2>1, <2>2 DEF Promise!Queue
  <2> QED
    BY <1>5, <2>3 DEF Promise!Next
<1> QED
  BY <1>3, <1>7, <1>8

\* The tick's updates of the top action.
LEMMA TopUpdated ==
    ASSUME Fair, SyncClients = {}, turns # 0, acts # <<>>
    PROVE  LET e == EnteredQueues(Queues)
           IN  /\ Unmoved(e) /\ e.acts # <<>> /\ Top(e.acts).cur
               /\ e.chain = chain /\ Alike(Top(e.acts), Top(acts))
<1>1. Unmoved(Queues) /\ Queues.acts = acts
  BY StartsUnmoved DEF Queues
<1>2. Midway(Queues) /\ Queues.chain = chain /\ Queues.fresh = fresh
  BY <1>1 DEF Unmoved
<1> QED
  BY <1>1, <1>2, MidwayEntered DEF Unmoved

LEMMA TickKeepsPromise ==
    ASSUME Fair, SyncClients = {}, StopPolicies \subseteq {"All"}, Tick
    PROVE  Rounds' /\ [Promise!Next]_PromiseVars
<1> DEFINE e == EnteredQueues(Queues)
<1>0. turns # 0
  BY DEF Tick, TickPrompt, TickStateBased, TickAdvance, TickWindowOver,
         TickWindowWaits, TickStaleResolver, TickResolves, TickPauses, Ticks
<1>1. Unmoved(Queues)
  BY <1>0, StartsUnmoved
<1>2. acts # <<>> => /\ Unmoved(e) /\ e.acts # <<>> /\ Top(e.acts).cur
                     /\ e.chain = chain /\ Alike(Top(e.acts), Top(acts))
  BY <1>0, TopUpdated
<1> HIDE DEF e
<1>3. CASE TickPrompt
  BY <1>0, <1>1, <1>3, ConsumeIsOrdinary DEF TickPrompt
<1>4. CASE TickStateBased
  <2>1. PICK q \in Found(Queues, HookItems, active) : Become(q)
    BY <1>4 DEF TickStateBased
  <2>2. Ordinary(q)
    BY <1>1, <2>1, MidwayFound, MidwayIsOrdinary
  <2>3. UNCHANGED gameVars
    BY <1>4 DEF TickStateBased
  <2> QED
    BY <1>0, <2>1, <2>2, <2>3, OrdinaryCall
<1>5. CASE TickAdvance
  BY <1>0, <1>5, AdvanceKeepsPromise DEF TickAdvance
<1>6. CASE TickWindowOver
  <2>1. /\ acts # <<>> /\ IsWindow(Top(acts)) /\ Over(e)
        /\ Become([e EXCEPT !.acts = Pop(@)]) /\ UNCHANGED gameVars
    BY <1>6 DEF TickWindowOver, TopWindow, e
  <2>2. /\ Midway(e) /\ e.acts # <<>> /\ Top(e.acts).cur /\ IsWindow(Top(e.acts))
        /\ WindowOver(Top(e.acts), TopOf(e.chain), Chainless)
    BY <1>2, <2>1 DEF Over, ChainTop, Unmoved, Alike, Same, IsWindow
  <2>3. Ordinary([e EXCEPT !.acts = Pop(@)])
    BY <2>2, WindowOverIsOrdinary
  <2> QED
    BY <1>0, <2>1, <2>3, OrdinaryCall
<1>7. CASE TickWindowWaits
  <2>1. acts # <<>> /\ (Consume(e, FALSE) \/ (Become(e) /\ UNCHANGED gameVars))
    BY <1>7 DEF TickWindowWaits, TopWindow, e
  <2>2. Ordinary(e)
    BY <1>2, <2>1, MidwayIsOrdinary DEF Unmoved
  <2> QED
    BY <1>0, <1>2, <2>1, <2>2, ConsumeIsOrdinary, OrdinaryCall
<1>8. CASE TickStaleResolver
  <2> DEFINE r == [e EXCEPT !.acts = Pop(@)]
  <2>1. acts # <<>> /\ IsResolve(Top(acts)) /\ Become(r) /\ UNCHANGED gameVars
    BY <1>8 DEF TickStaleResolver, TopResolver, e
  <2>2. Midway(e) /\ e \in QueueRecords /\ e.acts # <<>> /\ Top(e.acts).cur
    BY <1>2, <2>1, GoodIsTyped DEF Unmoved, Midway
  <2>3. ~IsWindow(Top(e.acts))
    BY <1>2, <2>1 DEF Alike, Same, IsWindow, IsResolve
  <2>4. FairIn(e, phase, DoneIn(e))
    BY <2>2, DoneKeeps DEF Midway, Moved
  <2>5. (IsWindow(Top(e.acts)) /\ Top(e.acts).item # NoItem)
            => Top(e.acts).item \in DoneIn(e) \union Chainless
    BY <2>3
  <2>6. (IsWindowOf(Top(e.acts), NoItem) /\ PriorityPlayers[phase] = "All")
            => NoItem \in DoneIn(e)
    BY <2>3 DEF IsWindowOf
  <2>7. FairIn(r, phase, DoneIn(e))
    BY <2>2, <2>4, <2>5, <2>6, FairPop, Zenon
  <2>8. /\ r \in QueueRecords /\ r.chain = e.chain /\ r.fresh = e.fresh
        /\ r.heard = e.heard /\ r.settled = e.settled
    BY <2>2, PopQueuesType DEF QueueRecords
  <2> HIDE DEF r
  <2>9. DoneIn(r) = DoneIn(e)
    BY <2>8 DEF DoneIn
  <2>10. Ordinary(r)
    BY <2>2, <2>7, <2>8, <2>9 DEF Ordinary, Midway, Moved
  <2> QED
    BY <1>0, <2>1, <2>10, OrdinaryCall
<1>9. CASE TickResolves
  BY <1>9, ResolveKeepsPromise
<1>10. CASE TickPauses
  <2>1. acts # <<>> /\ (Consume(e, TRUE) \/ (Become(e) /\ UNCHANGED gameVars))
    BY <1>10 DEF TickPauses, TopResolver, e
  <2>2. Ordinary(e)
    BY <1>2, <2>1, MidwayIsOrdinary DEF Unmoved
  <2> QED
    BY <1>0, <1>2, <2>1, <2>2, ConsumeIsOrdinary, OrdinaryCall
<1> QED
  BY <1>3, <1>4, <1>5, <1>6, <1>7, <1>8, <1>9, <1>10 DEF Tick

LEMMA HostKeepsPromise ==
    ASSUME Fair, SyncClients = {}, Host
    PROVE  Rounds' /\ [Promise!Next]_PromiseVars
<1>1. CASE HandleTransaction
  <2>1. turns # 0 /\ Consume(Queues, prompt) /\ prompt \in BOOLEAN
    BY <1>1 DEF HandleTransaction, Fair, Good, TypeOK
  <2> QED
    BY <2>1, StartsUnmoved, ConsumeIsOrdinary
<1>2. ASSUME NEW p \in Servers, ServerPass(p) PROVE Rounds' /\ [Promise!Next]_PromiseVars
  <2>1. turns # 0 /\ CanPass(Queues, p) /\ UNCHANGED gameVars
    BY <1>2 DEF ServerPass, HostActs
  <2>2. PICK q \in Hooked(AfterPass(Queues, p), active) : Become(q)
    BY <1>2 DEF ServerPass
  <2>3. Unmoved(AfterPass(Queues, p))
    BY <2>1, StartsUnmoved, UnmovedAfterPass
  <2>4. Ordinary(q)
    BY <2>3, MidwayHooked, MidwayIsOrdinary
  <2> QED
    BY <2>1, <2>2, <2>4, OrdinaryCall
<1>3. ASSUME NEW p \in Servers, ServerPlay(p) PROVE Rounds' /\ [Promise!Next]_PromiseVars
  <2>1. turns # 0 /\ UNCHANGED gameVars
    BY <1>3 DEF ServerPlay, HostActs
  <2>2. PICK i \in fresh : Become(WithItem(Queues, i, Nominee(p, i), active))
    BY <1>3 DEF ServerPlay
  <2>3. i \in Items /\ p \in Players
    BY HostAssumption DEF Fair, Good, TypeOK
  <2>4. Nominee(p, i) \in Players
    BY <2>3, NomineeType
  <2>5. Ordinary(WithItem(Queues, i, Nominee(p, i), active))
    BY <2>1, <2>4, StartsUnmoved, MidwayWithItem, MidwayIsOrdinary
  <2> QED
    BY <2>1, <2>2, <2>5, OrdinaryCall
<1>4. CASE AutoPassInternal
  <2>1. turns # 0 /\ TopWindow /\ UNCHANGED gameVars
    BY <1>4 DEF AutoPassInternal, HostActs
  <2>2. PICK q \in Drained(Queues) : Become(Updated(q))
    BY <1>4 DEF AutoPassInternal
  <2>3. Midway(q) /\ q.acts # <<>> /\ IsWindow(Top(q.acts))
    BY <2>1, DrainedIsMidway
  <2> DEFINE e == EnteredQueues(q)
  <2>4. /\ Midway(e) /\ e.acts # <<>> /\ Top(e.acts).cur
        /\ Alike(Top(e.acts), Top(q.acts)) /\ e.chain = q.chain
    BY <2>3, MidwayEntered
  <2>5. Updated(q) = IF WindowOver(Top(e.acts), TopOf(q.chain), Chainless)
                     THEN [e EXCEPT !.acts = Pop(@)] ELSE e
    BY DEF Updated
  <2> HIDE DEF e
  <2>6. Ordinary(Updated(q))
    <3>1. CASE WindowOver(Top(e.acts), TopOf(q.chain), Chainless)
      <4>1. /\ WindowOver(Top(e.acts), TopOf(e.chain), Chainless)
            /\ IsWindow(Top(e.acts))
        BY <2>3, <2>4, <3>1 DEF Alike, Same, IsWindow
      <4> QED
        BY <2>4, <2>5, <3>1, <4>1, WindowOverIsOrdinary
    <3>2. CASE ~WindowOver(Top(e.acts), TopOf(q.chain), Chainless)
      BY <2>4, <2>5, <3>2, MidwayIsOrdinary
    <3> QED
      BY <3>1, <3>2
  <2> QED
    BY <2>1, <2>2, <2>6, OrdinaryCall
<1>5. CASE Checkpoint
  <2>1. UNCHANGED <<gameVars, queueVars>>
    BY <1>5 DEF Checkpoint
  <2>2. Rounds'
    BY <2>1 DEF gameVars, queueVars, Rounds, Queues, Fair
  <2> QED
    BY <2>1, <2>2 DEF gameVars, queueVars, PromiseVars
<1> QED
  BY <1>1, <1>2, <1>3, <1>4, <1>5 DEF Host

LEMMA KeepsPromiseStep ==
    ASSUME Fair, SyncClients = {}, StopPolicies \subseteq {"All"}, [Next]_vars
    PROVE  Rounds' /\ [Promise!Next]_PromiseVars
<1>1. CASE Begin
  BY <1>1, BeginKeepsPromise
<1>2. CASE SubmitSome
  BY <1>2, SubmitIsOrdinary
<1>3. CASE Tick
  BY <1>3, TickKeepsPromise
<1>4. CASE Host
  BY <1>4, HostKeepsPromise
<1>5. ~AttachSome
  BY DEF AttachSome
<1>6. CASE UNCHANGED vars
  <2>1. UNCHANGED <<gameVars, queueVars>>
    BY <1>6 DEF vars
  <2>2. Rounds'
    BY <2>1 DEF gameVars, queueVars, Rounds, Queues, Fair
  <2> QED
    BY <2>1, <2>2 DEF gameVars, queueVars, PromiseVars
<1> QED
  BY <1>1, <1>2, <1>3, <1>4, <1>5, <1>6 DEF Next

LEMMA InitRounds == Init => Rounds
<1> SUFFICES ASSUME Init PROVE Rounds
  OBVIOUS
<1>1. acts = <<>> /\ settled = {} /\ turns = 0
  BY DEF Init
<1>2. Queues.acts = <<>> /\ DOMAIN Queues.acts = {}
  BY <1>1 DEF Queues
<1> QED
  BY <1>1, <1>2 DEF Rounds, RoundsIn, PlacedIn, EnteredOnceIn, CoveredIn, HeardIn,
                    AnsweredIn

\* The scheduler implements the promise: chain items resolve last in, first
\* out, each after a round in which everyone its window owes a response
\* declined, and a phase that asks all players ends after such a round, on an
\* empty chain.  A host that attaches a checkpoint, or stops its player in
\* windows the rules would give to everyone, breaks it.
THEOREM SchedulerKeepsPromise ==
    ASSUME SyncClients = {}, StopPolicies \subseteq {"All"}
    PROVE  Spec => KeepsPromise
<1>1. Init => Fair /\ Promise!Init
  BY InitGood, InitRounds DEF Fair, Promise!Init, Init
<1>2. Fair /\ [Next]_vars => Fair' /\ [Promise!Next]_PromiseVars
  BY GoodStep, KeepsPromiseStep DEF Fair
<1>3. [Promise!Next]_PromiseVars <=> [Promise!Next]_(Promise!vars)
  BY DEF PromiseVars, Promise!vars
<1> QED
  BY <1>1, <1>2, <1>3, PTL DEF Spec, KeepsPromise, Promise!Spec

\* What the abstract steps, read as steps of the scheduler, say of the items
\* that leave the chain and of the phases that end.
LEMMA PromiseAnswersEveryone ==
    ASSUME chain \in Seq(Items), fresh \subseteq Items, [Promise!Next]_PromiseVars
    PROVE  EveryoneAnswersStep /\ PhaseAnsweredStep
<1>1. CASE UNCHANGED PromiseVars
  BY <1>1 DEF PromiseVars, EveryoneAnswersStep, PhaseAnsweredStep
<1>2. CASE Promise!Queue
  <2>1. PICK i \in fresh : chain' = Append(chain, i)
    BY <1>2 DEF Promise!Queue
  <2>2. ToSet(chain) \subseteq ToSet(chain')
    <3>1. /\ DOMAIN chain = 1 .. Len(chain) /\ Len(chain) \in Nat
          /\ DOMAIN Append(chain, i) = 1 .. Len(chain) + 1
          /\ \A k \in 1 .. Len(chain) : Append(chain, i)[k] = chain[k]
      BY <2>1
    <3> QED
      BY <2>1, <3>1 DEF ToSet
  <2> QED
    BY <1>2, <2>2 DEF Promise!Queue, EveryoneAnswersStep, PhaseAnsweredStep
<1>3. CASE Promise!RoundEnds
  BY <1>3 DEF Promise!RoundEnds, EveryoneAnswersStep, PhaseAnsweredStep
<1>4. CASE Promise!Resolve
  <2>0. Promise!Last(chain) = Last(chain) /\ Promise!Front(chain) = Front(chain)
    BY DEF Promise!Last, Last, Promise!Front, Front
  <2>1. /\ chain # <<>> /\ Last(chain) \in settled \union Chainless /\ phase' = phase
        /\ \E s \in Promise!News(1) : chain' = Front(chain) \o s
    BY <1>4, <2>0 DEF Promise!Resolve
  <2>2. PICK s \in Promise!News(1) : chain' = Front(chain) \o s
    BY <2>1
  <2>3. s \in Seq(Items)
    <3>1. PICK k \in 0 .. 1 : s \in [1 .. k -> fresh]
      BY <2>2 DEF Promise!News
    <3>2. k \in Nat /\ s \in [1 .. k -> Items]
      BY <3>1
    <3> QED
      BY <3>2, IsASeq
  <2>4. ASSUME NEW x \in ToSet(chain), x # Last(chain) PROVE x \in ToSet(chain')
    <3>1. PICK k \in 1 .. Len(chain) : chain[k] = x
      BY DEF ToSet
    <3>2. k < Len(chain)
      BY <2>4, <3>1 DEF Last
    <3>3. /\ Front(chain) \in Seq(Items) /\ Len(Front(chain)) = Len(chain) - 1
          /\ Front(chain)[k] = chain[k]
      BY <2>1, <3>2 DEF Front
    <3>4. /\ Front(chain) \o s \in Seq(Items) /\ (Front(chain) \o s)[k] = Front(chain)[k]
          /\ k \in 1 .. Len(Front(chain) \o s)
      BY <2>3, <3>2, <3>3, ConcatProperties
    <3>5. chain' \in Seq(Items) /\ k \in 1 .. Len(chain') /\ chain'[k] = x
      BY <2>2, <3>1, <3>3, <3>4
    <3>6. k \in DOMAIN chain'
      BY <3>5
    <3> QED
      BY <3>5, <3>6 DEF ToSet
  <2> QED
    BY <2>1, <2>4 DEF EveryoneAnswersStep, PhaseAnsweredStep
<1>5. CASE Promise!ChangePhase
  <2>1. ToSet(chain) = {}
    BY <1>5 DEF Promise!ChangePhase, ToSet
  <2>2. EveryoneAnswersStep
    BY <2>1 DEF EveryoneAnswersStep
  <2>3. PriorityPlayers[phase] = "All" => NoItem \in settled
    BY <1>5, SameGraph DEF Promise!ChangePhase
  <2> QED
    BY <2>2, <2>3 DEF PhaseAnsweredStep
<1> QED
  BY <1>1, <1>2, <1>3, <1>4, <1>5 DEF Promise!Next

\* An item leaves the chain only after everyone its window owes a response
\* declined while it was on top, with nothing queued or resolved meanwhile
\* (PriorityWindowAction.update, resolve_top_of_chain).
THEOREM EveryoneIsHeard ==
    ASSUME SyncClients = {}, StopPolicies \subseteq {"All"}
    PROVE  Spec => [][EveryoneAnswersStep]_vars
<1>1. Init => Fair
  BY InitGood, InitRounds DEF Fair
<1>2. Fair /\ [Next]_vars => Fair' /\ [EveryoneAnswersStep]_vars
  BY GoodStep, KeepsPromiseStep, PromiseAnswersEveryone DEF Fair, Good, TypeOK
<1> QED
  BY <1>1, <1>2, PTL DEF Spec

\* A phase whose state asks all players ends only after such a round in that
\* phase, on an empty chain.  StaleResolver.cfg shows how an attachment breaks
\* this (session.py:2395).
THEOREM PhasesAreAnswered ==
    ASSUME SyncClients = {}, StopPolicies \subseteq {"All"}
    PROVE  Spec => PhaseAnswered
<1>1. Init => Fair
  BY InitGood, InitRounds DEF Fair
<1>2. Fair /\ [Next]_vars => Fair' /\ [PhaseAnsweredStep]_<<phase, settled>>
  BY GoodStep, KeepsPromiseStep, PromiseAnswersEveryone DEF Fair, Good, TypeOK
<1> QED
  BY <1>1, <1>2, PTL DEF Spec, PhaseAnswered

\* The response window of an item asks the players queue_projected_chain chose
\* for it, whatever was put on it and taken off again.
THEOREM WindowsKeepTheirPolicy ==
    ASSUME SyncClients = {}, StopPolicies \subseteq {"All"}
    PROVE  Spec => []WindowPolicy
<1>1. Init => Fair
  BY InitGood, InitRounds DEF Fair
<1>2. Fair /\ [Next]_vars => Fair'
  BY GoodStep, KeepsPromiseStep DEF Fair
<1>3. Fair => WindowPolicy
  BY DEF Fair, Rounds, RoundsIn, PlacedIn, WindowPolicy, Queues
<1> QED
  BY <1>1, <1>2, <1>3, PTL DEF Spec
=============================================================================
