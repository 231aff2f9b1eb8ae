----------------------- MODULE CrayburnCastleProofs -----------------------
(***************************************************************************)
(* The castle for every chain of nodes and any number of deaths: whatever  *)
(* the client asks for, no battle is launched past an unfinished node; and *)
(* for a client that does not go back, restart or repeat, a node is beaten *)
(* only by a battle fought at it, stays beaten, and nobody is stranded or  *)
(* shown a node too far.  Without deaths the quest follows the castle, a   *)
(* victory arrives, and a battle is counted once.                          *)
(***************************************************************************)
EXTENDS CrayburnCastle, FiniteSetTheorems, TLAPS

(* Every node before n is finished.                                        *)
Reached(s, n) == \A i \in 2 .. Pos(n) - 1 : Chain[i] \in s.done

(* The player is nowhere, and was last nowhere, that he has not reached.   *)
OnTheWay(s) ==
    /\ s.aloc # None => Reached(s, s.aloc)
    /\ Reached(s, s.last)

LEMMA LeastExists ==
    ASSUME NEW S, S \subseteq Nat, S # {}
    PROVE  \E i \in S : \A j \in S : i <= j
<1> DEFINE R == StrictSubsetOrdering(Nat)
           T == {0 .. i : i \in S}
<1>1. T \subseteq FiniteSubsetsOf(Nat)
  <2> SUFFICES ASSUME NEW i \in S
               PROVE  0 .. i \in FiniteSubsetsOf(Nat)
    OBVIOUS
  <2>1. i \in Nat  OBVIOUS
  <2>2. IsFiniteSet(0 .. i)  BY <2>1, FS_Interval
  <2> QED  BY <2>1, <2>2 DEF FiniteSubsetsOf
<1>2. IsWellFoundedOn(R, FiniteSubsetsOf(Nat))
  BY FS_StrictSubsetOrderingWellFounded
<1>3. \A i, j \in Nat : i < j => <<0 .. i, 0 .. j>> \in R
  <2> TAKE i, j \in Nat
  <2> HAVE i < j
  <2>1. 0 .. i \subseteq 0 .. j /\ j \in 0 .. j /\ j \notin 0 .. i
    OBVIOUS
  <2> QED  BY <2>1 DEF StrictSubsetOrdering
<1>4. T # {}  OBVIOUS
<1> HIDE DEF R
<1>5. PICK x \in T : \A y \in T : ~ (<<y, x>> \in R)
  BY <1>1, <1>2, <1>4, WFMin
<1>6. PICK i \in S : x = 0 .. i  OBVIOUS
<1>7. \A j \in S : ~ (<<0 .. j, 0 .. i>> \in R)  BY <1>5, <1>6
<1>8. ASSUME NEW j \in S PROVE i <= j
  <2>1. i \in Nat /\ j \in Nat  OBVIOUS
  <2>2. ~ (j < i)  BY <1>3, <1>7, <2>1
  <2> QED  BY <2>1, <2>2
<1> QED  BY <1>8

LEMMA GreatestExists ==
    ASSUME NEW m \in Nat, NEW S, S \subseteq 0 .. m, S # {}
    PROVE  \E i \in S : \A j \in S : j <= i
<1> DEFINE T == {m - j : j \in S}
<1>1. T \subseteq Nat
  <2> SUFFICES ASSUME NEW j \in S PROVE m - j \in Nat
    OBVIOUS
  <2>1. j \in 0 .. m  OBVIOUS
  <2> QED  BY <2>1
<1>2. T # {}  OBVIOUS
<1> HIDE DEF T
<1>3. PICK k \in T : \A j \in T : k <= j  BY <1>1, <1>2, LeastExists
<1> USE DEF T
<1>4. PICK i \in S : k = m - i  OBVIOUS
<1>5. ASSUME NEW j \in S PROVE j <= i
  <2>1. m - j \in T  OBVIOUS
  <2>2. m - i <= m - j  BY <1>3, <1>4, <2>1
  <2>3. i \in 0 .. m /\ j \in 0 .. m  OBVIOUS
  <2> QED  BY <2>2, <2>3
<1> QED  BY <1>5

----------------------------------------------------------------------------
(* The chain and the places in it.                                         *)

LEMMA ChainFacts ==
    /\ Len(Chain) \in Nat /\ Len(Chain) > 1
    /\ DOMAIN Chain = 1 .. Len(Chain)
    /\ \A i \in 1 .. Len(Chain) : Chain[i] \in Nodes
    /\ \A n \in Nodes : \E i \in 1 .. Len(Chain) : Chain[i] = n
    /\ \A i, j \in 1 .. Len(Chain) : Chain[i] = Chain[j] => i = j
    /\ BattleNodes \subseteq Nodes /\ None \notin Nodes
<1>1. DOMAIN Chain = 1 .. Len(Chain) /\ Len(Chain) \in Nat
  BY CastleConstants
<1>2. Nodes = {Chain[i] : i \in 1 .. Len(Chain)}
  BY <1>1 DEF Nodes, Range
<1> QED  BY <1>1, <1>2, CastleConstants DEF IsInjective

LEMMA PosFacts ==
    /\ \A n \in Nodes : Pos(n) \in 1 .. Len(Chain) /\ Chain[Pos(n)] = n
    /\ \A i \in 1 .. Len(Chain) : Pos(Chain[i]) = i
<1>1. ASSUME NEW n \in Nodes
      PROVE  Pos(n) \in 1 .. Len(Chain) /\ Chain[Pos(n)] = n
  <2>1. PICK i \in DOMAIN Chain : Chain[i] = n  BY ChainFacts
  <2> QED  BY <2>1, ChainFacts DEF Pos
<1> QED  BY <1>1, ChainFacts

LEMMA FrontierFacts ==
    ASSUME NEW s
    PROVE  /\ Frontier(s) \in 2 .. Len(Chain) + 1
           /\ \A i \in 2 .. Frontier(s) - 1 : Chain[i] \in s.done
           /\ Frontier(s) <= Len(Chain) => Chain[Frontier(s)] \notin s.done
<1>1. CASE Unfinished(s) = {}
  BY <1>1, ChainFacts DEF Frontier, Unfinished
<1>2. CASE Unfinished(s) # {}
  <2>1. Unfinished(s) \subseteq Nat  BY ChainFacts DEF Unfinished
  <2>2. \E i \in Unfinished(s) : \A j \in Unfinished(s) : i <= j
    BY <1>2, <2>1, LeastExists
  <2>3. /\ Frontier(s) \in Unfinished(s)
        /\ \A j \in Unfinished(s) : Frontier(s) <= j
    BY <1>2, <2>2 DEF Frontier
  <2>4. Frontier(s) \in 2 .. Len(Chain) /\ Chain[Frontier(s)] \notin s.done
    BY <2>3 DEF Unfinished
  <2>5. ASSUME NEW i \in 2 .. Frontier(s) - 1 PROVE Chain[i] \in s.done
    <3>1. i \in 2 .. Len(Chain) /\ ~ (Frontier(s) <= i)
      BY <2>4, ChainFacts
    <3> QED  BY <2>3, <3>1 DEF Unfinished
  <2> QED  BY <2>4, <2>5, ChainFacts
<1> QED  BY <1>1, <1>2

LEMMA ReachedIsWithin ==
    ASSUME NEW s, NEW n \in Nodes
    PROVE  Reached(s, n) <=> Pos(n) <= Frontier(s)
<1>1. Pos(n) \in 1 .. Len(Chain)  BY PosFacts
<1>2. ASSUME Reached(s, n) PROVE Pos(n) <= Frontier(s)
  <2>1. SUFFICES ASSUME Frontier(s) < Pos(n) PROVE FALSE
    BY <1>1, FrontierFacts, ChainFacts
  <2>2. Frontier(s) \in 2 .. Pos(n) - 1 /\ Frontier(s) <= Len(Chain)
    BY <1>1, <2>1, FrontierFacts, ChainFacts
  <2> QED  BY <1>2, <2>2, FrontierFacts DEF Reached
<1>3. ASSUME Pos(n) <= Frontier(s) PROVE Reached(s, n)
  <2>1. 2 .. Pos(n) - 1 \subseteq 2 .. Frontier(s) - 1
    BY <1>1, <1>3, FrontierFacts, ChainFacts
  <2> QED  BY <2>1, FrontierFacts DEF Reached
<1> QED  BY <1>2, <1>3

LEMMA ReturnFacts ==
    ASSUME NEW s, NEW n \in Nodes
    PROVE  /\ ReturnNode(s, n) \in Nodes
           /\ Pos(ReturnNode(s, n)) <= Pos(n)
<1> DEFINE before == {i \in 1 .. Pos(n) - 1 : Chain[i] \in s.done}
<1>1. Pos(n) \in 1 .. Len(Chain)  BY PosFacts
<1>2. CASE before # {}
  <2>1. before \subseteq 0 .. Len(Chain)  BY <1>1, ChainFacts
  <2>2. \E i \in before : \A j \in before : j <= i
    BY <1>2, <2>1, ChainFacts, GreatestExists
  <2>3. PICK i \in before : ReturnNode(s, n) = Chain[i]
    BY <1>2, <2>2 DEF ReturnNode
  <2>4. i \in 1 .. Len(Chain) /\ i <= Pos(n)  BY <1>1, ChainFacts
  <2> QED  BY <2>3, <2>4, ChainFacts, PosFacts
<1>3. CASE before = {}
  <2>1. PICK i \in 1 .. Len(Chain) : ReturnNode(s, n) = Chain[i] /\ i <= Pos(n)
    BY <1>1, <1>3, ChainFacts DEF ReturnNode
  <2> QED  BY <2>1, ChainFacts, PosFacts
<1> QED  BY <1>2, <1>3

----------------------------------------------------------------------------
(* The operators on the row keep it well formed and the player within what *)
(* he has reached, and leave the active scene alone.                       *)

Sound(s) == s \in Rows /\ OnTheWay(s)

LEMMA ReachedGrows ==
    ASSUME NEW s, NEW t, NEW n \in Nodes, Reached(s, n), s.done \subseteq t.done
    PROVE  Reached(t, n)
BY DEF Reached

LEMMA ReachedBefore ==
    ASSUME NEW s, NEW n \in Nodes, NEW m \in Nodes, Reached(s, n),
           Pos(m) <= Pos(n)
    PROVE  Reached(s, m)
<1>1. 2 .. Pos(m) - 1 \subseteq 2 .. Pos(n) - 1  BY PosFacts, ChainFacts
<1> QED  BY <1>1 DEF Reached

\* Taking back a node does not cut off what comes up to it.
LEMMA ReachedWithout ==
    ASSUME NEW s, NEW t, NEW n \in Nodes, Reached(s, n),
           s.done \ {n} \subseteq t.done
    PROVE  Reached(t, n)
<1> SUFFICES ASSUME NEW i \in 2 .. Pos(n) - 1 PROVE Chain[i] \in t.done
  BY DEF Reached
<1>1. i \in 1 .. Len(Chain) /\ i # Pos(n)  BY PosFacts, ChainFacts
<1>2. Chain[i] # n  BY <1>1, PosFacts
<1> QED  BY <1>2 DEF Reached

LEMMA HereIsReached ==
    ASSUME NEW s, Sound(s)
    PROVE  Here(s) \in Nodes /\ Reached(s, Here(s))
BY DEF Here, Sound, OnTheWay, Rows

LEMMA RevealedSound ==
    ASSUME NEW s, Sound(s)
    PROVE  Sound(Revealed(s)) /\ Revealed(s).active = s.active
<1>1. Revealed(s) \in Rows  BY DEF Revealed, Sound, Rows
<1>2. /\ Revealed(s).done = s.done /\ Revealed(s).aloc = s.aloc
      /\ Revealed(s).last = s.last /\ Revealed(s).active = s.active
  BY DEF Revealed, Sound, Rows
<1> QED  BY <1>1, <1>2 DEF Sound, OnTheWay, Reached

LEMMA MovedToSound ==
    ASSUME NEW s, s \in Rows, NEW n \in Nodes, Reached(s, n)
    PROVE  Sound(MovedTo(s, n)) /\ MovedTo(s, n).active = s.active
<1> DEFINE t == [s EXCEPT !.aloc = n, !.last = n]
<1>1. t \in Rows /\ t.done = s.done /\ t.aloc = n /\ t.last = n
      /\ t.active = s.active
  BY DEF Rows
<1>2. Sound(t)  BY <1>1 DEF Sound, OnTheWay, Reached
<1> HIDE DEF t
<1>3. Sound(Revealed(t)) /\ Revealed(t).active = s.active
  BY <1>1, <1>2, RevealedSound
<1> USE DEF t
<1> QED  BY <1>3 DEF MovedTo

LEMMA PreparedSound ==
    ASSUME NEW s, Sound(s)
    PROVE  Sound(Prepared(s)) /\ Prepared(s).active = s.active
<1> DEFINE i == Frontier(s)
<1>1. CASE s.done \ {Chain[1]} # {}
  <2>1. CASE /\ s.aloc = None /\ i <= Len(Chain) /\ s.last = Chain[i]
             /\ s.last \in BattleNodes
    <3> DEFINE t == [s EXCEPT !.last = ReturnNode(s, s.last)]
    <3>1. s.last \in Nodes  BY DEF Sound, Rows
    <3>2. ReturnNode(s, s.last) \in Nodes /\ Reached(s, ReturnNode(s, s.last))
      BY <3>1, ReturnFacts, ReachedBefore DEF Sound, OnTheWay
    <3>3. /\ t \in Rows /\ t.done = s.done /\ t.aloc = None
          /\ t.last = ReturnNode(s, s.last) /\ t.active = s.active
      BY <2>1, <3>2 DEF Sound, Rows
    <3>4. Sound(t)  BY <3>2, <3>3 DEF Sound, OnTheWay, Reached
    <3>5. Prepared(s) = Revealed(t)  BY <1>1, <2>1 DEF Prepared
    <3> HIDE DEF t
    <3> QED  BY <3>3, <3>4, <3>5, RevealedSound
  <2>2. CASE ~ (/\ s.aloc = None /\ i <= Len(Chain) /\ s.last = Chain[i]
                /\ s.last \in BattleNodes)
    <3>1. Prepared(s) = Revealed(s)  BY <1>1, <2>2 DEF Prepared
    <3> QED  BY <3>1, RevealedSound
  <2> QED  BY <2>1, <2>2
<1>2. CASE s.done \ {Chain[1]} = {} /\ s.started
  <2>1. Chain[2] # Chain[1]  BY ChainFacts
  <2>2. 2 \in Unfinished(s)  BY <1>2, <2>1, ChainFacts DEF Unfinished
  <2>3. i <= Len(Chain)
    <3>1. SUFFICES ASSUME Len(Chain) < i PROVE FALSE
      BY FrontierFacts, ChainFacts
    <3>2. Chain[2] \in s.done  BY <3>1, FrontierFacts, ChainFacts
    <3> QED  BY <2>2, <3>2 DEF Unfinished
  <2>4. Chain[i] \in Nodes /\ Pos(Chain[i]) = i
    BY <2>3, FrontierFacts, ChainFacts, PosFacts
  <2>5. Reached(s, Chain[i])  BY <2>4, FrontierFacts DEF Reached
  <2>6. Prepared(s) = MovedTo(s, Chain[i])  BY <1>2 DEF Prepared
  <2> QED  BY <2>4, <2>5, <2>6, MovedToSound DEF Sound
<1>3. CASE s.done \ {Chain[1]} = {} /\ ~ s.started
  <2>1. Chain[1] \in Nodes /\ Pos(Chain[1]) = 1  BY ChainFacts, PosFacts
  <2>2. \A t : Reached(t, Chain[1])  BY <2>1 DEF Reached
  <2>3. CASE s.aloc = None
    <3> DEFINE t == [s EXCEPT !.aloc = Chain[1]]
    <3>1. Prepared(s) = t  BY <1>3, <2>3 DEF Prepared
    <3>2. /\ t \in Rows /\ t.done = s.done /\ t.aloc = Chain[1]
          /\ t.last = s.last /\ t.active = s.active
      BY <2>1 DEF Sound, Rows
    <3>3. Sound(t)  BY <2>2, <3>2 DEF Sound, OnTheWay, Reached
    <3> QED  BY <3>1, <3>2, <3>3
  <2>4. CASE s.aloc # None
    <3>1. Prepared(s) = s  BY <1>3, <2>4 DEF Prepared
    <3> QED  BY <3>1
  <2> QED  BY <2>3, <2>4
<1> QED  BY <1>1, <1>2, <1>3

LEMMA FollowedSound ==
    ASSUME NEW s, Sound(s), NEW i \in 1 .. Len(Chain), Reached(s, Chain[i])
    PROVE  Sound(Followed(s, i)) /\ Followed(s, i).active = s.active
<1> DEFINE ahead == {j \in Unfinished(s) : j >= i}
           p == IF i = 1 THEN [s EXCEPT !.done = @ \cup {Chain[1]}] ELSE s
<1>1. Chain[1] \in Nodes  BY ChainFacts
<1>2. p \in Rows /\ s.done \subseteq p.done /\ p.aloc = s.aloc
      /\ p.last = s.last /\ p.active = s.active
  BY <1>1 DEF Sound, Rows
<1>3. Sound(p)
  BY <1>2, ReachedGrows DEF Sound, OnTheWay, Rows
<1>4. CASE ahead # {}
  <2>1. ahead \subseteq Nat  BY ChainFacts DEF Unfinished
  <2>2. \E j \in ahead : \A k \in ahead : j <= k
    <3> HIDE DEF ahead
    <3> QED  BY <1>4, <2>1, LeastExists
  <2> DEFINE j == CHOOSE j \in ahead : \A k \in ahead : j <= k
  <2>3. j \in ahead /\ \A k \in ahead : j <= k
    <3> HIDE DEF ahead
    <3> QED  BY <2>2
  <2>4. Followed(s, i) = MovedTo(p, Chain[j])  BY <1>4 DEF Followed
  <2> HIDE DEF j
  <2>5. j \in 2 .. Len(Chain) /\ j >= i  BY <2>3 DEF Unfinished
  <2>6. Chain[j] \in Nodes /\ Pos(Chain[j]) = j  BY <2>5, ChainFacts, PosFacts
  <2>7. ASSUME NEW k \in 2 .. j - 1 PROVE Chain[k] \in p.done
    <3>1. k \in 2 .. Len(Chain) /\ ~ (j <= k)  BY <2>5, ChainFacts
    <3>2. CASE k < i
      <4>1. k \in 2 .. Pos(Chain[i]) - 1  BY <3>1, <3>2, PosFacts
      <4> QED  BY <1>2, <4>1 DEF Reached
    <3>3. CASE k >= i
      <4>1. k \notin Unfinished(s)  BY <2>3, <3>1, <3>3
      <4> QED  BY <1>2, <3>1, <4>1 DEF Unfinished
    <3> QED  BY <3>1, <3>2, <3>3
  <2>8. Reached(p, Chain[j])  BY <2>6, <2>7 DEF Reached
  <2> HIDE DEF p
  <2> QED  BY <1>2, <2>4, <2>6, <2>8, MovedToSound
<1>5. CASE ahead = {}
  <2> DEFINE t == [p EXCEPT !.finished = "Complete", !.aloc = None]
  <2>1. Followed(s, i) = t  BY <1>5 DEF Followed
  <2> HIDE DEF p
  <2>2. t \in Rows /\ t.done = p.done /\ t.aloc = None
        /\ t.last = p.last /\ t.active = p.active
    BY <1>2 DEF Rows
  <2>3. Sound(t)  BY <1>3, <2>2 DEF Sound, OnTheWay, Reached
  <2> QED  BY <1>2, <2>1, <2>2, <2>3
<1> QED  BY <1>4, <1>5

LEMMA OutcomeSound ==
    ASSUME NEW s, Sound(s), NEW n \in BattleNodes, Reached(s, n),
           NEW p \in {"victory", "defeat"}
    PROVE  Sound(Outcome(s, n, p)) /\ Outcome(s, n, p).active = s.active
<1> DEFINE t == Outcome(s, n, p)
<1>1. n \in Nodes  BY ChainFacts
<1>2. t \in Rows /\ t.done = s.done \ {n} /\ t.aloc = n /\ t.last = n
      /\ t.active = s.active
  BY <1>1 DEF Outcome, Sound, Rows
<1>3. Reached(t, n)  BY <1>1, <1>2, ReachedWithout
<1> QED  BY <1>2, <1>3 DEF Sound, OnTheWay

LEMMA AwaitTravelSound ==
    ASSUME NEW s, Sound(s)
    PROVE  Sound(AwaitTravel(s)) /\ AwaitTravel(s).active = s.active
<1> DEFINE t == [s EXCEPT !.aloc = None]
<1>1. t \in Rows /\ t.done = s.done /\ t.aloc = None /\ t.last = s.last
      /\ t.active = s.active
  BY DEF Sound, Rows
<1>2. Sound(t)  BY <1>1 DEF Sound, OnTheWay, Reached
<1>3. AwaitTravel(s) = IF Unfinished(t) = {}
                       THEN [t EXCEPT !.finished = "Complete"] ELSE Revealed(t)
  BY DEF AwaitTravel
<1> HIDE DEF t
<1>4. CASE Unfinished(t) = {}
  <2> DEFINE u == [t EXCEPT !.finished = "Complete"]
  <2>1. u \in Rows /\ u.done = t.done /\ u.aloc = None /\ u.last = t.last
        /\ u.active = t.active
    BY <1>1 DEF Rows
  <2>2. Sound(u)  BY <1>2, <2>1 DEF Sound, OnTheWay, Reached
  <2> QED  BY <1>1, <1>3, <1>4, <2>1, <2>2
<1>5. CASE Unfinished(t) # {}
  BY <1>1, <1>2, <1>3, <1>5, RevealedSound
<1> QED  BY <1>4, <1>5

LEMMA SteppedSound ==
    ASSUME NEW s, Sound(s), NEW w \in BOOLEAN
    PROVE  Sound(Stepped(s, w)) /\ Stepped(s, w).active = s.active
<1> DEFINE n == Here(s)
           t == [s EXCEPT !.pending = None, !.done = @ \cup {n}]
<1>1. n \in Nodes /\ Reached(s, n)  BY HereIsReached
<1>2. t \in Rows /\ t.done = s.done \cup {n} /\ t.aloc = s.aloc
      /\ t.last = s.last /\ t.active = s.active
  BY <1>1 DEF Sound, Rows
<1>3. Sound(t)
  BY <1>2, ReachedGrows DEF Sound, OnTheWay, Rows
<1>4. \/ n \in BattleNodes /\ \E p \in {"victory", "defeat"} :
             Stepped(s, w) = Outcome(s, n, p)
      \/ Stepped(s, w) = AwaitTravel(t)
      \/ Stepped(s, w) = AwaitTravel(s)
  BY DEF Stepped
<1> HIDE DEF n, t
<1>5. CASE n \in BattleNodes /\ \E p \in {"victory", "defeat"} :
             Stepped(s, w) = Outcome(s, n, p)
  BY <1>1, <1>5, OutcomeSound
<1>6. CASE Stepped(s, w) = AwaitTravel(t)
  BY <1>2, <1>3, <1>6, AwaitTravelSound
<1>7. CASE Stepped(s, w) = AwaitTravel(s)
  BY <1>7, AwaitTravelSound
<1> QED  BY <1>4, <1>5, <1>6, <1>7

LEMMA RestoredSound ==
    ASSUME NEW s, Sound(s), NEW n \in Nodes, Reached(s, n)
    PROVE  Sound(Restored(s, n)) /\ Restored(s, n).active = s.active
<1> DEFINE r == ReturnNode(s, n)
           t == [s EXCEPT !.page = [@ EXCEPT ![n] = "battle"],
                          !.done = @ \ {n}, !.seen = @ \cup {n},
                          !.pending = None, !.aloc = None, !.last = r]
<1>1. r \in Nodes /\ Pos(r) <= Pos(n)  BY ReturnFacts
<1>2. Restored(s, n) = Revealed(t)  BY DEF Restored
<1> HIDE DEF r
<1>3. t \in Rows /\ t.done = s.done \ {n} /\ t.aloc = None /\ t.last = r
      /\ t.active = s.active
  BY <1>1 DEF Sound, Rows
<1> HIDE DEF t
<1>4. Reached(t, n)  BY <1>3, ReachedWithout
<1>5. Sound(t)  BY <1>1, <1>3, <1>4, ReachedBefore DEF Sound, OnTheWay
<1> QED  BY <1>2, <1>3, <1>5, RevealedSound

LEMMA CountedSound ==
    ASSUME NEW s, Sound(s), NEW w \in BOOLEAN
    PROVE  Sound(Counted(s, w)) /\ Counted(s, w).active = s.active
<1> DEFINE t == Counted(s, w)
<1>1. t \in Rows /\ t.done = s.done /\ t.aloc = s.aloc /\ t.last = s.last
      /\ t.active = s.active
  <2>1. CASE w
    <3> DEFINE a == s.wins + 1
               b == s.streak + 1
    <3>1. s \in Rows /\ a \in Nat /\ b \in Nat  BY DEF Sound, Rows
    <3>2. t = [s EXCEPT !.wins = a, !.streak = b]  BY <2>1 DEF Counted
    <3> HIDE DEF a, b, t
    <3> QED  BY <3>1, <3>2 DEF Rows
  <2>2. CASE ~ w  BY <2>2 DEF Counted, Sound, Rows
  <2> QED  BY <2>1, <2>2
<1> QED  BY <1>1 DEF Sound, OnTheWay, Reached

----------------------------------------------------------------------------
(* The invariant.                                                          *)

(* What a request has still to do, with the row it has not yet written.    *)
Jobs ==
    [step : {"idle", "enter"}]
        \cup [step : {"reward", "apply", "advance"}, won : BOOLEAN]
        \cup [step : {"quest", "panorama", "save"}, draft : {s \in Rows : OnTheWay(s)}]

(* A battle has a scene that was launched, until its reward is claimed, and*)
(* is never under way while a request is served.                           *)
SceneOK ==
    /\ (battle # None \/ job.step = "reward") => castle.active \in BattleNodes
    /\ job # Idle => battle = None

IInv == TypeOK /\ job \in Jobs /\ OnTheWay(castle) /\ SceneOK

LEMMA InitEstablishes == Init => IInv
<1> SUFFICES ASSUME Init PROVE IInv  OBVIOUS
<1> USE DEF Init, NewCastle
<1>1. Chain[1] \in Nodes /\ Chain[2] \in Nodes /\ Pos(Chain[1]) = 1
  BY ChainFacts, PosFacts
<1>2. \A n \in Nodes : FirstPage(n) \in {"none", "arrival", "battle"}
  BY DEF FirstPage
<1>3. castle \in Rows  BY <1>1, <1>2 DEF Rows
<1>4. Reached(castle, Chain[1])  BY <1>1 DEF Reached
<1>5. TypeOK  BY <1>3 DEF TypeOK, Idle
<1>6. OnTheWay(castle)  BY <1>4 DEF OnTheWay
<1>7. job \in Jobs /\ SceneOK  BY DEF Jobs, SceneOK, Idle
<1> QED  BY <1>5, <1>6, <1>7 DEF IInv

LEMMA JobFacts ==
    ASSUME job \in Jobs
    PROVE  /\ Free <=> job.step = "idle"
           /\ job.step \in {"reward", "apply", "advance"} => job.won \in BOOLEAN
           /\ job.step \in {"quest", "panorama", "save"} => Sound(job.draft)
           /\ job.step = "enter" => job # Idle
BY DEF Jobs, Free, Idle, Sound

(* A step of the castle leaves a sound row, at once or in the draft.       *)
LEMMA TakeStepSound ==
    ASSUME Sound(castle), NEW w \in BOOLEAN, TakeStep(w)
    PROVE  /\ Sound(castle') /\ castle'.active = castle.active
           /\ job' \in Jobs'
           /\ job'.step \in {"idle", "quest"}
<1> DEFINE s == Prepared(castle)
           t == Stepped(s, w)
<1>1. Sound(s) /\ s.active = castle.active  BY PreparedSound
<1> HIDE DEF s
<1>2. Sound(t) /\ t.active = castle.active  BY <1>1, SteppedSound
<1> USE DEF s
<1> HIDE DEF t
<1>3. \/ job' = [step |-> "quest", draft |-> t] /\ castle' = castle
      \/ job' = Idle /\ castle' = t
  BY DEF TakeStep, t
<1> HIDE DEF s
<1>4. CASE job' = [step |-> "quest", draft |-> t] /\ castle' = castle
  BY <1>2, <1>4 DEF Jobs, Sound, OnTheWay, Reached, Rows
<1>5. CASE job' = Idle /\ castle' = t
  BY <1>2, <1>5 DEF Jobs, Idle
<1> QED  BY <1>3, <1>4, <1>5

LEMMA StepPreserves == IInv /\ [Next]_vars => IInv'
<1> SUFFICES ASSUME IInv, [Next]_vars PROVE IInv'
  OBVIOUS
<1> USE DEF IInv
<1>1. /\ Sound(castle) /\ castle \in Rows
      /\ job.step \in {"reward", "apply", "advance"} => job.won \in BOOLEAN
      /\ Free <=> job.step = "idle"
  BY JobFacts DEF Sound, TypeOK
<1>2. Sound(castle') <=> (castle' \in Rows' /\ OnTheWay(castle)')
  BY DEF Sound, Rows, OnTheWay, Reached
<1>3. ASSUME Sound(castle'), castle'.active = castle.active,
             UNCHANGED battle, UNCHANGED journal, job' \in Jobs,
             job' # Idle => battle = None, job'.step # "reward"
      PROVE  IInv'
  BY <1>2, <1>3, JobFacts DEF TypeOK, SceneOK, journal, Jobs, Rows, OnTheWay, Reached, Idle
<1>4. CASE AcceptQuest
  <2> DEFINE t == [castle EXCEPT !.started = TRUE]
  <2>1. t \in Rows /\ t.done = castle.done /\ t.aloc = castle.aloc
        /\ t.last = castle.last /\ t.active = castle.active
    BY <1>1 DEF Rows
  <2>2. castle' = t /\ job' = [step |-> "enter"] /\ battle = None
        /\ battle' = None /\ quest' = "castle" /\ report' = report
    BY <1>4 DEF AcceptQuest, player
  <2> HIDE DEF t
  <2>3. Sound(castle')  BY <1>1, <2>1, <2>2 DEF Sound, OnTheWay, Reached
  <2> QED  BY <1>2, <2>2, <2>3 DEF TypeOK, SceneOK, Jobs
<1>5. CASE StartCamp
  <2> DEFINE t == [castle EXCEPT !.started = TRUE]
             s == Prepared(t)
  <2>1. t \in Rows /\ t.done = castle.done /\ t.aloc = castle.aloc
        /\ t.last = castle.last /\ t.active = castle.active
    BY <1>1 DEF Rows
  <2>2. castle' = Followed(s, 1) /\ job = Idle /\ UNCHANGED <<journal, job, battle>>
    BY <1>5 DEF StartCamp, InCastle, Free, player
  <2> HIDE DEF t
  <2>3. Sound(t)  BY <1>1, <2>1 DEF Sound, OnTheWay, Reached
  <2>4. Sound(s) /\ s.active = castle.active  BY <2>1, <2>3, PreparedSound
  <2> HIDE DEF s
  <2>5. Reached(s, Chain[1]) /\ 1 \in 1 .. Len(Chain)
    BY ChainFacts, PosFacts DEF Reached
  <2>6. Sound(castle') /\ castle'.active = castle.active
    BY <2>2, <2>4, <2>5, FollowedSound
  <2> QED  BY <1>3, <2>2, <2>6 DEF Idle
<1>6. CASE Read
  <2>1. castle' = Prepared(castle) /\ job = Idle /\ UNCHANGED <<journal, job, battle>>
    BY <1>6 DEF Read, Free, player
  <2> QED  BY <1>1, <1>3, <2>1, PreparedSound DEF Idle
<1>7. CASE ConvDone
  <2> DEFINE n == Here(castle)
  <2>1. Free /\ battle = None /\ UNCHANGED <<journal, battle>>
    BY <1>7 DEF ConvDone, InCastle, player
  <2>2. \/ castle' = Restored(castle, n) /\ UNCHANGED job
        \/ TakeStep(TRUE)
        \/ UNCHANGED <<castle, job>>
    BY <1>7 DEF ConvDone
  <2>3. n \in Nodes /\ Reached(castle, n)  BY <1>1, HereIsReached
  <2> HIDE DEF n
  <2>4. Sound(castle') /\ castle'.active = castle.active
        /\ job' \in Jobs /\ job'.step \in {"idle", "quest"}
    <3>1. CASE castle' = Restored(castle, n) /\ UNCHANGED job
      BY <1>1, <2>1, <2>3, <3>1, RestoredSound
    <3>2. CASE TakeStep(TRUE)
      <4>1. Jobs' = Jobs  BY DEF Jobs, Rows, OnTheWay, Reached
      <4> QED  BY <1>1, <3>2, <4>1, TakeStepSound
    <3>3. CASE UNCHANGED <<castle, job>>  BY <1>1, <2>1, <3>3
    <3> QED  BY <2>2, <3>1, <3>2, <3>3
  <2> QED  BY <1>3, <2>1, <2>4
<1>8. CASE Enter
  <2> DEFINE s == Prepared(castle)
             n == Here(s)
  <2>1. castle' = Followed(s, Pos(n)) /\ job' = Idle
        /\ UNCHANGED <<journal, battle>>
    BY <1>8 DEF Enter, player
  <2>2. Sound(s) /\ s.active = castle.active  BY <1>1, PreparedSound
  <2> HIDE DEF s
  <2>3. n \in Nodes /\ Reached(s, n)  BY <2>2, HereIsReached
  <2> HIDE DEF n
  <2>4. Pos(n) \in 1 .. Len(Chain) /\ Chain[Pos(n)] = n  BY <2>3, PosFacts
  <2>5. Sound(castle') /\ castle'.active = castle.active
    BY <2>1, <2>2, <2>3, <2>4, FollowedSound
  <2>6. job' \in Jobs /\ job'.step # "reward"  BY <2>1 DEF Idle, Jobs
  <2> QED  BY <1>3, <2>1, <2>5, <2>6
<1>9. CASE Start
  <2> DEFINE n == Here(castle)
             t == [castle EXCEPT !.active = n]
  <2>1. /\ n \in BattleNodes /\ castle' = t /\ battle' = n /\ job = Idle
        /\ UNCHANGED <<journal, job>>
    BY <1>9 DEF Start, InCastle, Free
  <2> HIDE DEF n
  <2>2. t \in Rows /\ t.done = castle.done /\ t.aloc = castle.aloc
        /\ t.last = castle.last /\ t.active = n
    BY <1>1, <2>1 DEF Rows
  <2> HIDE DEF t
  <2>3. Sound(castle')  BY <1>1, <2>1, <2>2 DEF Sound, OnTheWay, Reached
  <2> QED  BY <1>2, <2>1, <2>2, <2>3 DEF TypeOK, SceneOK, Jobs, journal, Idle
<1>10. ASSUME NEW n \in Nodes, StartLoc(n) PROVE IInv'
  <2> DEFINE s == Prepared(castle)
             f == Chain[Frontier(s)]
             r == ReturnNode(s, f)
             t == [s EXCEPT !.aloc = None, !.last = r]
  <2>1. job = Idle /\ battle = None /\ UNCHANGED <<journal, job, battle>>
    BY <1>10 DEF StartLoc, InCastle, Free
  <2>2. \/ MayEnter(s, n) /\ castle' = MovedTo(s, n)
        \/ ~ MayEnter(s, n) /\ castle' = Revealed(t)
    BY <1>10 DEF StartLoc
  <2>3. Sound(s) /\ s.active = castle.active  BY <1>1, PreparedSound
  <2> HIDE DEF s
  <2>4. Sound(castle') /\ castle'.active = castle.active
    <3>1. CASE MayEnter(s, n) /\ castle' = MovedTo(s, n)
      <4>1. Reached(s, n)  BY <3>1, ReachedIsWithin DEF MayEnter
      <4> QED  BY <2>3, <3>1, <4>1, MovedToSound DEF Sound
    <3>2. CASE ~ MayEnter(s, n) /\ castle' = Revealed(t)
      <4>1. Frontier(s) \in 2 .. Len(Chain)
        BY <3>2, PosFacts, FrontierFacts, ChainFacts DEF MayEnter
      <4>2. f \in Nodes /\ Pos(f) = Frontier(s)
        BY <4>1, ChainFacts, PosFacts
      <4>3. Reached(s, f)  BY <4>1, <4>2, ChainFacts, ReachedIsWithin
      <4> HIDE DEF f
      <4>4. r \in Nodes /\ Reached(s, r)
        BY <4>2, <4>3, ReturnFacts, ReachedBefore
      <4> HIDE DEF r
      <4>5. t \in Rows /\ t.done = s.done /\ t.aloc = None /\ t.last = r
            /\ t.active = s.active
        BY <2>3, <4>4 DEF Sound, Rows
      <4> HIDE DEF t
      <4>6. Sound(t)  BY <4>4, <4>5 DEF Sound, OnTheWay, Reached
      <4> QED  BY <2>3, <3>2, <4>5, <4>6, RevealedSound
    <3> QED  BY <2>2, <3>1, <3>2
  <2> QED  BY <1>3, <2>1, <2>4 DEF Idle
<1>11. ASSUME NEW n \in Nodes, FinishLoc(n) PROVE IInv'
  <2> DEFINE t == [castle EXCEPT !.done = @ \cup {n}]
  <2>1. castle' = t /\ job = Idle /\ UNCHANGED <<journal, job, battle>>
    BY <1>11 DEF FinishLoc, InCastle, Free, player
  <2>2. t \in Rows /\ castle.done \subseteq t.done /\ t.aloc = castle.aloc
        /\ t.last = castle.last /\ t.active = castle.active
    BY <1>1 DEF Rows
  <2> HIDE DEF t
  <2>3. Sound(t)
    BY <1>1, <2>2, ReachedGrows DEF Sound, OnTheWay, Rows
  <2> QED  BY <1>3, <2>1, <2>2, <2>3 DEF Idle
<1>12. ASSUME NEW w \in BOOLEAN, BattleEnds(w) PROVE IInv'
  <2>1. /\ battle # None /\ battle' = None
        /\ job' = [step |-> "reward", won |-> w]
        /\ UNCHANGED <<castle, journal>>
    BY <1>12 DEF BattleEnds
  <2>2. castle.active \in BattleNodes  BY <2>1 DEF SceneOK
  <2> QED  BY <1>1, <1>2, <2>1, <2>2 DEF TypeOK, SceneOK, Jobs, journal, Sound
<1>13. CASE Reward
  <2> DEFINE t == [castle EXCEPT !.claimed = @ \cup {castle.active}]
  <2>1. /\ job.step = "reward" /\ job' = [job EXCEPT !.step = "apply"]
        /\ castle' = IF job.won THEN t ELSE castle
        /\ UNCHANGED <<journal, battle>>
    BY <1>13 DEF Reward, player
  <2>2. castle.active \in BattleNodes  BY <2>1 DEF SceneOK
  <2>3. t \in Rows /\ t.done = castle.done /\ t.aloc = castle.aloc
        /\ t.last = castle.last /\ t.active = castle.active
    BY <1>1, <2>2 DEF Rows
  <2> HIDE DEF t
  <2>4. Sound(castle') /\ castle'.active = castle.active
    BY <1>1, <2>1, <2>3 DEF Sound, OnTheWay, Reached
  <2>5. job' \in Jobs /\ job'.step = "apply"  BY <2>1 DEF Jobs
  <2>6. battle = None  BY <2>1 DEF SceneOK, Idle
  <2> QED  BY <1>3, <2>1, <2>4, <2>5, <2>6
<1>14. CASE Apply
  <2>1. /\ job.step = "apply" /\ job' = [job EXCEPT !.step = "advance"]
        /\ castle' = Counted(castle, job.won)
        /\ UNCHANGED <<journal, battle>>
    BY <1>14 DEF Apply, player
  <2>2. job' \in Jobs /\ job'.step = "advance"  BY <2>1 DEF Jobs
  <2>3. battle = None  BY <2>1 DEF SceneOK, Idle
  <2>4. Sound(castle') /\ castle'.active = castle.active
    BY <1>1, <2>1, CountedSound
  <2> QED  BY <1>3, <2>1, <2>2, <2>3, <2>4
<1>15. CASE Advance
  <2>1. job.step = "advance" /\ TakeStep(job.won) /\ UNCHANGED <<journal, battle>>
    BY <1>15 DEF Advance, player
  <2>2. battle = None  BY <2>1 DEF SceneOK, Idle
  <2>3. Jobs' = Jobs  BY DEF Jobs, Rows, OnTheWay, Reached
  <2>4. Sound(castle') /\ castle'.active = castle.active
        /\ job' \in Jobs /\ job'.step \in {"idle", "quest"}
    BY <1>1, <2>1, <2>3, TakeStepSound
  <2> QED  BY <1>3, <2>1, <2>2, <2>4
<1>16. CASE GameEnd
  <2>1. castle' = Counted(castle, tell = "won") /\ job = Idle
        /\ UNCHANGED <<journal, job, battle>>
    BY <1>16 DEF GameEnd, Free
  <2>2. (tell = "won") \in BOOLEAN  OBVIOUS
  <2>3. Sound(castle') /\ castle'.active = castle.active
    BY <1>1, <2>1, <2>2, CountedSound
  <2> QED  BY <1>3, <2>1, <2>3 DEF Idle
<1>17. CASE Quest
  <2>1. /\ job.step = "quest" /\ job' = [job EXCEPT !.step = "panorama"]
        /\ quest' \in {"report", "closed"} /\ UNCHANGED <<castle, report, battle>>
    BY <1>17 DEF Quest, player
  <2>2. job' \in Jobs /\ job'.step = "panorama"  BY <2>1 DEF Jobs
  <2>3. battle = None  BY <2>1 DEF SceneOK, Idle
  <2> QED  BY <1>1, <1>2, <2>1, <2>2, <2>3 DEF TypeOK, SceneOK, Sound, Jobs
<1>18. CASE Panorama
  <2>1. /\ job.step = "panorama" /\ job' = [job EXCEPT !.step = "save"]
        /\ report' = "due" /\ UNCHANGED <<castle, quest, battle>>
    BY <1>18 DEF Panorama, player
  <2>2. job' \in Jobs /\ job'.step = "save"  BY <2>1 DEF Jobs
  <2>3. battle = None  BY <2>1 DEF SceneOK, Idle
  <2> QED  BY <1>1, <1>2, <2>1, <2>2, <2>3 DEF TypeOK, SceneOK, Sound, Jobs
<1>19. CASE Save
  <2>1. job.step = "save" /\ job' = Idle /\ castle' = job.draft
        /\ UNCHANGED <<journal, battle>>
    BY <1>19 DEF Save, player
  <2>2. battle = None  BY <2>1 DEF SceneOK, Idle
  <2>3. Sound(castle')  BY <2>1, JobFacts
  <2> QED  BY <1>2, <2>1, <2>2, <2>3 DEF TypeOK, SceneOK, Jobs, Idle, journal
<1>20. CASE Report
  <2>1. job = Idle /\ report' = "told" /\ quest' = "closed"
        /\ UNCHANGED <<castle, job, battle>>
    BY <1>20 DEF Report, Free, player
  <2> QED  BY <1>1, <1>2, <2>1 DEF TypeOK, SceneOK, Jobs, Sound
<1>21. CASE Forfeit
  <2> DEFINE t == [castle EXCEPT !.finished = "Forfeit"]
  <2>1. castle' = t /\ job = Idle /\ UNCHANGED <<journal, job, battle>>
    BY <1>21 DEF Forfeit, InCastle, Free, player
  <2>2. t \in Rows /\ t.done = castle.done /\ t.aloc = castle.aloc
        /\ t.last = castle.last /\ t.active = castle.active
    BY <1>1 DEF Rows
  <2> HIDE DEF t
  <2>3. Sound(t)  BY <1>1, <2>2 DEF Sound, OnTheWay, Reached
  <2> QED  BY <1>3, <2>1, <2>2, <2>3 DEF Idle
<1>22. CASE Crash
  <2>1. job # Idle /\ job' = Idle /\ UNCHANGED <<castle, journal, battle>>
    BY <1>22 DEF Crash, Free
  <2> QED  BY <1>1, <1>3, <2>1 DEF Idle, Jobs, SceneOK
<1>23. CASE UNCHANGED vars
  BY <1>1, <1>2, <1>23 DEF vars, journal, player, TypeOK, SceneOK, Jobs, Sound
<1> QED
  BY <1>4, <1>5, <1>6, <1>7, <1>8, <1>9, <1>10, <1>11, <1>12, <1>13, <1>14,
     <1>15, <1>16, <1>17, <1>18, <1>19, <1>20, <1>21, <1>22, <1>23
  DEF Next, Work

(* Every state of every castle satisfies the invariant, whatever the       *)
(* client asks for and whenever the server dies (campaign.py:3437-4360).   *)
THEOREM CastleInvariant == Spec => []IInv
<1>1. Init => IInv  BY InitEstablishes
<1>2. IInv /\ [Next]_vars => IInv'  BY StepPreserves
<1> QED  BY <1>1, <1>2, PTL DEF Spec

(* The row, the journal and the job have their types.                      *)
THEOREM TypeCorrect == Spec => []TypeOK
<1>1. IInv => TypeOK  BY DEF IInv
<1> QED  BY <1>1, CastleInvariant, PTL

(* No battle is launched past an unfinished node: whatever chain of nodes  *)
(* the dungeon has and whatever the client asks for, a battle starts only  *)
(* at a node all of whose predecessors are finished.                       *)
THEOREM BattlesAreReached == Spec => NoSkippedBattle
<1>1. ASSUME IInv, [Next]_vars PROVE NoSkippedBattleStep
  <2> SUFFICES ASSUME battle' # battle, battle' # None
               PROVE  Pos(battle') <= Frontier(castle)
    BY DEF NoSkippedBattleStep
  <2>1. Start
    BY <1>1 DEF Next, Work, vars, player, AcceptQuest, StartCamp, Read, ConvDone,
       Report, Forfeit, GameEnd, Crash, Enter, Reward, Apply, Advance, Quest,
       Panorama, Save, StartLoc, FinishLoc, BattleEnds
  <2>2. Sound(castle)  BY <1>1 DEF IInv, TypeOK, Sound
  <2>3. battle' = Here(castle)  BY <2>1 DEF Start
  <2> QED  BY <2>2, <2>3, HereIsReached, ReachedIsWithin
<1>2. IInv /\ [Next]_vars => [NoSkippedBattleStep]_vars  BY <1>1
<1> QED  BY <1>2, CastleInvariant, PTL DEF Spec, NoSkippedBattle

----------------------------------------------------------------------------
(* A client that does not go back, restart or repeat.  Whatever else it    *)
(* does, walk away from conversations, forfeit, report results itself, the *)
(* castle keeps its books; campaign.py trusts the client for the rest.     *)

Plays == Habits \subseteq {"leave", "gameend", "forfeit"}

(* A victory is heard only after its battle was paid; a beaten node keeps  *)
(* its victory page.                                                       *)
PagesOK(s) ==
    \A n \in BattleNodes :
        /\ s.page[n] \in {"battle", "victory", "defeat"}
        /\ s.page[n] = "victory" => n \in s.claimed
        /\ n \in s.done => s.page[n] = "victory"

(* A pending victory is there to be heard, at the first unfinished node.   *)
PendingOK(s) ==
    s.pending # None => /\ s.pending \in BattleNodes \ s.done
                        /\ s.page[s.pending] = "victory"
                        /\ Reached(s, s.pending)

(* On a battle node the player stands only as long as it is not beaten; he *)
(* was last on one and left it only when it is.                            *)
PlaceOK(s) ==
    /\ s.aloc # None => s.last = s.aloc
    /\ s.last \in BattleNodes => (s.last \in s.done <=> s.aloc = None)

(* The first unfinished node is on the map.                                *)
Ahead(s) ==
    \A i \in 2 .. Len(Chain) :
        (Chain[i] \notin s.done /\ \A j \in 2 .. i - 1 : Chain[j] \in s.done)
            => Chain[i] \in s.seen

Paged(s) == s.started /\ PagesOK(s) /\ PendingOK(s)
Kept(s)  == Paged(s) /\ PlaceOK(s) /\ Ahead(s)

(* What a step that writes no page leaves alone.                           *)
SamePages(s, t) ==
    /\ t.page = s.page /\ t.done = s.done /\ t.claimed = s.claimed
    /\ t.pending = s.pending /\ t.started = s.started /\ t.active = s.active

LEMMA PagedStays ==
    ASSUME NEW s, NEW t, Paged(s), SamePages(s, t)
    PROVE  Paged(t)
BY DEF Paged, SamePages, PagesOK, PendingOK, Reached

LEMMA RevealedKeeps ==
    ASSUME NEW s, s \in Rows, Paged(s), PlaceOK(s)
    PROVE  /\ Kept(Revealed(s)) /\ SamePages(s, Revealed(s))
           /\ Revealed(s).aloc = s.aloc /\ Revealed(s).last = s.last
<1> DEFINE t == Revealed(s)
<1>1. /\ SamePages(s, t) /\ t.aloc = s.aloc /\ t.last = s.last
      /\ t.seen = {n \in Nodes : Pos(n) <= Frontier(s)}
  BY DEF Revealed, Rows, SamePages
<1> HIDE DEF t
<1>2. Paged(t) /\ PlaceOK(t)
  BY <1>1, PagedStays DEF PlaceOK, SamePages
<1>3. ASSUME NEW i \in 2 .. Len(Chain), Chain[i] \notin t.done,
             \A j \in 2 .. i - 1 : Chain[j] \in t.done
      PROVE  Chain[i] \in t.seen
  <2>1. Chain[i] \in Nodes /\ Pos(Chain[i]) = i  BY ChainFacts, PosFacts
  <2>2. Reached(s, Chain[i])  BY <1>1, <1>3, <2>1 DEF Reached, SamePages
  <2> QED  BY <1>1, <2>1, <2>2, ReachedIsWithin
<1>4. Ahead(t)  BY <1>3 DEF Ahead
<1> USE DEF t
<1> QED  BY <1>1, <1>2, <1>4 DEF Kept

LEMMA MovedToKeeps ==
    ASSUME NEW s, s \in Rows, Paged(s), NEW n \in Nodes,
           n \in BattleNodes => n \notin s.done
    PROVE  /\ Kept(MovedTo(s, n)) /\ SamePages(s, MovedTo(s, n))
           /\ MovedTo(s, n).aloc = n
<1> DEFINE t == [s EXCEPT !.aloc = n, !.last = n]
<1>1. t \in Rows /\ SamePages(s, t) /\ t.aloc = n /\ t.last = n
  BY DEF Rows, SamePages
<1>2. MovedTo(s, n) = Revealed(t)  BY DEF MovedTo
<1> HIDE DEF t
<1>3. n # None  BY ChainFacts
<1>4. Paged(t) /\ PlaceOK(t)
  BY <1>1, <1>3, PagedStays DEF PlaceOK, SamePages
<1> QED  BY <1>1, <1>2, <1>4, RevealedKeeps DEF SamePages

LEMMA EarlyFrontier ==
    ASSUME NEW s, s.done \subseteq {Chain[1]}
    PROVE  /\ Frontier(s) = 2 /\ Unfinished(s) = 2 .. Len(Chain)
           /\ Chain[1] \in Nodes \ BattleNodes /\ Chain[2] \in Nodes \ BattleNodes
           /\ Chain[2] # Chain[1]
<1>1. \A i \in 2 .. Len(Chain) : Chain[i] # Chain[1]  BY ChainFacts
<1>2. Unfinished(s) = 2 .. Len(Chain)  BY <1>1 DEF Unfinished
<1>3. Frontier(s) = 2
  <2>1. Chain[2] \notin s.done /\ 2 \in 2 .. Len(Chain)  BY <1>1, ChainFacts
  <2>2. ~ (2 < Frontier(s))
    <3>1. 2 < Frontier(s) => 2 \in 2 .. Frontier(s) - 1
      BY FrontierFacts, ChainFacts
    <3> QED  BY <2>1, <3>1, FrontierFacts
  <2> QED  BY <2>2, FrontierFacts, ChainFacts
<1> QED  BY <1>1, <1>2, <1>3, ChainFacts, CastleConstants

(* A read of the row repairs nothing but the fog, except that the player   *)
(* who has done nothing yet stands at the second node.                     *)
LEMMA PreparedKeeps ==
    ASSUME NEW s, Sound(s), Kept(s)
    PROVE  /\ Kept(Prepared(s)) /\ SamePages(s, Prepared(s))
           /\ s.aloc # None => Prepared(s).aloc # None
           /\ Prepared(s).aloc # s.aloc =>
                 s.aloc \notin BattleNodes /\ Prepared(s).aloc = Chain[2]
           /\ s.done \subseteq {Chain[1]} => Prepared(s).aloc = Chain[2]
<1>0. s \in Rows /\ Paged(s) /\ PlaceOK(s) /\ s.started
  BY DEF Sound, Kept, Paged
<1>1. CASE s.done \ {Chain[1]} # {}
  <2>1. ~ (/\ s.aloc = None /\ Frontier(s) <= Len(Chain)
           /\ s.last = Chain[Frontier(s)] /\ s.last \in BattleNodes)
    BY <1>0, FrontierFacts DEF PlaceOK
  <2>2. Prepared(s) = Revealed(s)  BY <1>1, <2>1 DEF Prepared
  <2> QED  BY <1>0, <1>1, <2>2, RevealedKeeps
<1>2. CASE s.done \ {Chain[1]} = {}
  <2>1. /\ Frontier(s) = 2 /\ Chain[2] \in Nodes \ BattleNodes
        /\ Chain[1] \notin BattleNodes
    BY <1>2, EarlyFrontier
  <2>2. Prepared(s) = MovedTo(s, Chain[2])  BY <1>0, <1>2, <2>1 DEF Prepared
  <2>3. s.aloc \notin BattleNodes
    <3>1. SUFFICES ASSUME s.aloc \in BattleNodes PROVE FALSE  OBVIOUS
    <3>2. s.aloc \in Nodes /\ Reached(s, s.aloc)
      BY <3>1, ChainFacts DEF Sound, OnTheWay
    <3>3. Pos(s.aloc) \in {1, 2}
      BY <2>1, <3>2, ReachedIsWithin, PosFacts, ChainFacts
    <3>4. s.aloc = Chain[1] \/ s.aloc = Chain[2]  BY <3>2, <3>3, PosFacts
    <3> QED  BY <2>1, <3>1, <3>4
  <2>4. Chain[2] # None  BY <2>1, ChainFacts
  <2> QED  BY <1>0, <2>1, <2>2, <2>3, <2>4, MovedToKeeps
<1> QED  BY <1>1, <1>2

(* An outcome is written over the page of a node that is not beaten.       *)
LEMMA OutcomeKeeps ==
    ASSUME NEW s, Sound(s), Kept(s), NEW p \in {"victory", "defeat"},
           s.aloc \in BattleNodes,
           p = "victory" => s.aloc \in s.claimed,
           p = "defeat" => s.pending = None
    PROVE  /\ Kept(Outcome(s, s.aloc, p))
           /\ Outcome(s, s.aloc, p).done = s.done
           /\ Outcome(s, s.aloc, p).claimed = s.claimed
           /\ Outcome(s, s.aloc, p).aloc = s.aloc
<1> DEFINE n == s.aloc
           t == Outcome(s, n, p)
<1>1. n \in Nodes /\ n # None /\ n \notin s.done /\ Reached(s, n)
  BY ChainFacts DEF Kept, PlaceOK, Sound, OnTheWay
<1>2. /\ t.page = [s.page EXCEPT ![n] = p] /\ t.done = s.done
      /\ t.seen = s.seen \cup {n} /\ t.aloc = n /\ t.last = n
      /\ t.pending = (IF p = "victory" THEN n ELSE s.pending)
      /\ t.claimed = s.claimed /\ t.started = s.started
  BY <1>1 DEF Outcome, Sound, Rows
<1>3. s.page \in [Nodes -> {"none", "arrival", "battle", "victory", "defeat"}]
  BY DEF Sound, Rows
<1> HIDE DEF t
<1>4. PagesOK(t)
  <2> SUFFICES ASSUME NEW m \in BattleNodes
               PROVE  /\ t.page[m] \in {"battle", "victory", "defeat"}
                      /\ t.page[m] = "victory" => m \in t.claimed
                      /\ m \in t.done => t.page[m] = "victory"
    BY DEF PagesOK
  <2>1. m \in Nodes  BY ChainFacts
  <2>2. t.page[m] = IF m = n THEN p ELSE s.page[m]  BY <1>2, <1>3, <2>1
  <2> QED  BY <1>1, <1>2, <2>2 DEF Kept, Paged, PagesOK
<1>5. PendingOK(t)
  <2>1. CASE p = "victory"
    <3>1. t.pending = n /\ t.page[n] = "victory" /\ Reached(t, n)
      BY <1>1, <1>2, <1>3, <2>1 DEF Reached
    <3> QED  BY <1>1, <1>2, <3>1 DEF PendingOK
  <2>2. CASE p = "defeat"
    BY <1>2, <2>2 DEF PendingOK
  <2> QED  BY <2>1, <2>2
<1>6. PlaceOK(t)  BY <1>1, <1>2 DEF PlaceOK
<1>7. Ahead(t)  BY <1>2 DEF Kept, Ahead
<1> USE DEF t
<1> QED  BY <1>2, <1>4, <1>5, <1>6, <1>7 DEF Kept, Paged

(* The node the player stands on is finished: he waits on the map.         *)
LEMMA FinishedKeeps ==
    ASSUME NEW s, Sound(s), Kept(s), s.aloc # None,
           s.aloc \in BattleNodes => s.page[s.aloc] = "victory",
           NEW t, t = AwaitTravel([s EXCEPT !.pending = None,
                                            !.done = @ \cup {s.aloc}])
    PROVE  /\ Kept(t) /\ t.done = s.done \cup {s.aloc} /\ t.claimed = s.claimed
           /\ t.aloc = None
<1> DEFINE n == s.aloc
           u == [s EXCEPT !.pending = None, !.done = @ \cup {n}]
           v == [u EXCEPT !.aloc = None]
           w == [v EXCEPT !.finished = "Complete"]
<1>1. n \in Nodes /\ s.last = n  BY DEF Sound, Rows, Kept, PlaceOK
<1>2. /\ v \in Rows /\ v.page = s.page /\ v.done = s.done \cup {n}
      /\ v.claimed = s.claimed /\ v.started = s.started /\ v.pending = None
      /\ v.aloc = None /\ v.last = n
  BY <1>1 DEF Sound, Rows
<1>3. t = IF Unfinished(v) = {} THEN w ELSE Revealed(v)
  BY DEF AwaitTravel
<1>4. w.seen = v.seen /\ SamePages(v, w) /\ w.aloc = None /\ w.last = n
  BY <1>2 DEF Rows, SamePages
<1> HIDE DEF v, w
<1>5. Paged(v) /\ PlaceOK(v)
  BY <1>2 DEF Kept, Paged, PagesOK, PendingOK, PlaceOK
<1>6. CASE Unfinished(v) = {}
  <2>1. \A i \in 2 .. Len(Chain) : Chain[i] \in v.done
    BY <1>6 DEF Unfinished
  <2>2. Ahead(w)  BY <1>4, <2>1 DEF Ahead, SamePages
  <2>3. Paged(w) /\ PlaceOK(w)
    BY <1>2, <1>4, <1>5, PagedStays DEF PlaceOK, SamePages
  <2> QED  BY <1>2, <1>3, <1>4, <1>6, <2>2, <2>3 DEF Kept, SamePages
<1>7. CASE Unfinished(v) # {}
  BY <1>2, <1>3, <1>5, <1>7, RevealedKeeps DEF SamePages
<1> QED  BY <1>6, <1>7

(* One step of the castle from a node the player stands on.                *)
LEMMA SteppedKeeps ==
    ASSUME NEW s, Sound(s), Kept(s), NEW w \in BOOLEAN, s.aloc # None,
           s.aloc \notin BattleNodes => w,
           s.aloc \in BattleNodes /\ w =>
               s.aloc \in s.claimed
               /\ (s.pending # None => s.page[s.aloc] = "victory"),
           ~ w => s.pending = None
    PROVE  /\ Kept(Stepped(s, w)) /\ s.done \subseteq Stepped(s, w).done
           /\ Stepped(s, w).claimed = s.claimed
           /\ Stepped(s, w).aloc \in {s.aloc, None}
<1>1. Here(s) = s.aloc  BY DEF Here
<1>2. CASE s.aloc \in BattleNodes /\ w /\ s.pending = None
  <2>1. Stepped(s, w) = Outcome(s, s.aloc, "victory")
    BY <1>1, <1>2 DEF Stepped
  <2> QED  BY <1>2, <2>1, OutcomeKeeps
<1>3. CASE s.aloc \in BattleNodes /\ ~ w
  <2>1. Stepped(s, w) = Outcome(s, s.aloc, "defeat")
    BY <1>1, <1>3 DEF Stepped
  <2> QED  BY <1>3, <2>1, OutcomeKeeps
<1>4. CASE w /\ ~ (s.aloc \in BattleNodes /\ s.pending = None)
  <2>1. Stepped(s, w) = AwaitTravel([s EXCEPT !.pending = None,
                                              !.done = @ \cup {s.aloc}])
    BY <1>1, <1>4 DEF Stepped
  <2>2. s.aloc \in BattleNodes => s.page[s.aloc] = "victory"
    BY <1>4
  <2> DEFINE t == Stepped(s, w)
  <2>3. t = AwaitTravel([s EXCEPT !.pending = None, !.done = @ \cup {s.aloc}])
    BY <2>1
  <2> HIDE DEF t
  <2>4. /\ Kept(t) /\ t.done = s.done \cup {s.aloc} /\ t.claimed = s.claimed
        /\ t.aloc = None
    BY <2>2, <2>3, FinishedKeeps
  <2> USE DEF t
  <2> QED  BY <2>4
<1> QED  BY <1>2, <1>3, <1>4

(* Where a loser is put back to: a finished node or the entrance.          *)
LEMMA ReturnIsDone ==
    ASSUME NEW s, NEW n \in Nodes, Reached(s, n)
    PROVE  ReturnNode(s, n) \in s.done \ {n} \/ ReturnNode(s, n) = Chain[1]
<1> DEFINE before == {i \in 1 .. Pos(n) - 1 : Chain[i] \in s.done}
<1>1. Pos(n) \in 1 .. Len(Chain) /\ Chain[Pos(n)] = n  BY PosFacts
<1>2. CASE before # {}
  <2>1. before \subseteq 0 .. Len(Chain)  BY <1>1, ChainFacts
  <2>2. \E i \in before : \A j \in before : j <= i
    BY <1>2, <2>1, ChainFacts, GreatestExists
  <2>3. PICK i \in before : ReturnNode(s, n) = Chain[i]
    BY <1>2, <2>2 DEF ReturnNode
  <2>4. i \in 1 .. Len(Chain) /\ i # Pos(n) /\ Chain[i] \in s.done
    BY <1>1, ChainFacts
  <2> QED  BY <1>1, <2>3, <2>4, ChainFacts
<1>3. CASE before = {}
  <2>1. Pos(n) <= 2
    <3>1. SUFFICES ASSUME Pos(n) > 2 PROVE FALSE  BY <1>1, ChainFacts
    <3>2. 2 \in 2 .. Pos(n) - 1 /\ 2 \in 1 .. Pos(n) - 1
      BY <1>1, <3>1, ChainFacts
    <3>3. Chain[2] \in s.done  BY <3>2 DEF Reached
    <3> QED  BY <1>3, <3>2, <3>3
  <2>2. ReturnNode(s, n) = Chain[IF Pos(n) > 1 THEN Pos(n) - 1 ELSE 1]
    BY <1>3 DEF ReturnNode
  <2>3. Pos(n) = 1 \/ Pos(n) = 2  BY <1>1, <2>1, ChainFacts
  <2> QED  BY <2>2, <2>3
<1> QED  BY <1>2, <1>3

LEMMA RestoredKeeps ==
    ASSUME NEW s, Sound(s), Kept(s), s.aloc # None, s.page[s.aloc] = "defeat",
           NEW t, t = Restored(s, s.aloc)
    PROVE  /\ Kept(t) /\ s.done \cap BattleNodes \subseteq t.done
           /\ t.claimed = s.claimed /\ t.aloc = None
<1> DEFINE n == s.aloc
           r == ReturnNode(s, n)
           u == [s EXCEPT !.page = [@ EXCEPT ![n] = "battle"], !.done = @ \ {n},
                          !.seen = @ \cup {n}, !.pending = None, !.aloc = None,
                          !.last = r]
<1>1. n \in Nodes /\ Reached(s, n)  BY DEF Sound, OnTheWay, Rows
<1>2. r \in Nodes /\ (r \in s.done \ {n} \/ r = Chain[1])
  BY <1>1, ReturnFacts, ReturnIsDone
<1>3. n \in BattleNodes => n \notin s.done
  BY DEF Kept, Paged, PagesOK
<1>4. t = Revealed(u)  BY DEF Restored
<1> HIDE DEF r
<1>5. /\ u \in Rows /\ u.page = [s.page EXCEPT ![n] = "battle"]
      /\ u.done = s.done \ {n} /\ u.claimed = s.claimed /\ u.started = s.started
      /\ u.pending = None /\ u.aloc = None /\ u.last = r
  BY <1>1, <1>2 DEF Sound, Rows
<1>6. s.page \in [Nodes -> {"none", "arrival", "battle", "victory", "defeat"}]
  BY DEF Sound, Rows
<1> HIDE DEF u
<1>7. PagesOK(u)
  <2> SUFFICES ASSUME NEW m \in BattleNodes
               PROVE  /\ u.page[m] \in {"battle", "victory", "defeat"}
                      /\ u.page[m] = "victory" => m \in u.claimed
                      /\ m \in u.done => u.page[m] = "victory"
    BY DEF PagesOK
  <2>1. u.page[m] = IF m = n THEN "battle" ELSE s.page[m]
    BY <1>5, <1>6, ChainFacts
  <2> QED  BY <1>5, <2>1 DEF Kept, Paged, PagesOK
<1>8. PlaceOK(u)  BY <1>2, <1>5, CastleConstants DEF PlaceOK
<1>9. Paged(u)  BY <1>5, <1>7 DEF Kept, Paged, PendingOK
<1> QED  BY <1>3, <1>4, <1>5, <1>8, <1>9, RevealedKeeps DEF SamePages

(* The chain is followed early only: to its second node.                   *)
LEMMA FollowedKeeps ==
    ASSUME NEW s, Sound(s), Kept(s), s.done \subseteq {Chain[1]}, NEW i \in {1, 2},
           NEW t, t = Followed(s, i)
    PROVE  /\ Kept(t) /\ s.done \subseteq t.done /\ t.claimed = s.claimed
           /\ t.aloc = Chain[2]
<1> DEFINE ahead == {j \in Unfinished(s) : j >= i}
           p == IF i = 1 THEN [s EXCEPT !.done = @ \cup {Chain[1]}] ELSE s
<1>1. /\ Unfinished(s) = 2 .. Len(Chain) /\ Chain[2] \in Nodes \ BattleNodes
      /\ Chain[1] \in Nodes \ BattleNodes /\ Chain[2] # Chain[1]
  BY EarlyFrontier
<1>2. ahead = 2 .. Len(Chain)  BY <1>1, ChainFacts
<1>3. (CHOOSE j \in ahead : \A k \in ahead : j <= k) = 2
  BY <1>2, ChainFacts
<1>4. ahead # {}  BY <1>2, ChainFacts
<1>5. t = MovedTo(p, Chain[2])  BY <1>3, <1>4 DEF Followed
<1> HIDE DEF ahead
<1>6. /\ p \in Rows /\ s.done \subseteq p.done /\ p.done \subseteq s.done \cup {Chain[1]}
      /\ p.page = s.page /\ p.claimed = s.claimed /\ p.started = s.started
      /\ p.pending = s.pending
  BY <1>1 DEF Sound, Rows
<1> HIDE DEF p
<1>7. Paged(p)
  <2>1. PagesOK(p)  BY <1>1, <1>6 DEF Kept, Paged, PagesOK
  <2>2. PendingOK(p)  BY <1>1, <1>6 DEF Kept, Paged, PendingOK, Reached
  <2> QED  BY <1>6, <2>1, <2>2 DEF Kept, Paged
<1> QED  BY <1>1, <1>5, <1>6, <1>7, MovedToKeeps DEF SamePages

LEMMA CountedKeeps ==
    ASSUME NEW s, Sound(s), Kept(s), NEW w \in BOOLEAN, NEW t, t = Counted(s, w)
    PROVE  Kept(t) /\ SamePages(s, t) /\ t.aloc = s.aloc
<1>1. SamePages(s, t) /\ t.aloc = s.aloc /\ t.last = s.last /\ t.seen = s.seen
  BY DEF Counted, Sound, Rows, SamePages
<1> QED  BY <1>1, PagedStays DEF Kept, PlaceOK, Ahead, SamePages

(* While a battle is to be fought no victory waits to be heard.            *)
LEMMA NothingPending ==
    ASSUME NEW s, Sound(s), Kept(s), s.aloc \in BattleNodes,
           s.page[s.aloc] = "battle"
    PROVE  s.pending = None
<1> SUFFICES ASSUME s.pending # None PROVE FALSE  OBVIOUS
<1> DEFINE n == s.aloc
           m == s.pending
<1>1. /\ n \in BattleNodes /\ m \in BattleNodes /\ n \notin s.done /\ m \notin s.done
      /\ Reached(s, n) /\ Reached(s, m) /\ s.page[m] = "victory"
  BY ChainFacts DEF Kept, Paged, PagesOK, PendingOK, Sound, OnTheWay
<1> HIDE DEF n, m
<1>2. /\ Pos(n) \in 2 .. Len(Chain) /\ Chain[Pos(n)] = n
      /\ Pos(m) \in 2 .. Len(Chain) /\ Chain[Pos(m)] = m
  <2>1. n \in Nodes /\ m \in Nodes /\ n # Chain[1] /\ m # Chain[1]
    BY <1>1, ChainFacts, CastleConstants
  <2> QED  BY <2>1, PosFacts, ChainFacts
<1>3. ~ (Pos(n) < Pos(m)) /\ ~ (Pos(m) < Pos(n))
  BY <1>1, <1>2, ChainFacts DEF Reached
<1>4. n = m  BY <1>2, <1>3, ChainFacts
<1> QED  BY <1>1, <1>4 DEF n, m

----------------------------------------------------------------------------
(* The books of the castle.                                                *)

(* Before the quest is accepted nothing has happened.                      *)
Fresh ==
    /\ quest = "none" /\ castle = NewCastle /\ report = "no"
    /\ job = Idle /\ battle = None /\ tell = "nothing" /\ fought = {}

(* A row not yet written is as good as the one it replaces.                *)
DraftOK ==
    job.step \in {"quest", "panorama", "save"} =>
        /\ Kept(job.draft) /\ job.draft.claimed = castle.claimed
        /\ castle.done \cap BattleNodes \subseteq job.draft.done
        /\ job.draft.aloc = None

(* From the start of a battle until its result is applied the player       *)
(* stands on its node, and what is paid for is that very battle.           *)
AtTheBattle ==
    /\ battle # None \/ job.step \in {"reward", "apply", "advance"} =>
           /\ castle.active \in BattleNodes /\ castle.aloc = castle.active
           /\ castle.page[castle.active] = "battle"
    /\ battle # None => battle = castle.active
    /\ job.step = "reward" /\ job.won => castle.active \in fought
    /\ job.step \in {"apply", "advance"} /\ job.won =>
           castle.active \in castle.claimed

Underway ==
    /\ quest # "none" /\ Kept(castle) /\ castle.claimed \subseteq fought
    /\ WalkedThere /\ DraftOK /\ AtTheBattle
    /\ job.step = "enter" => castle.done = {}

Books == Fresh \/ Underway

LEMMA AcceptedIsKept ==
    ASSUME NEW t, t = [NewCastle EXCEPT !.started = TRUE]
    PROVE  Kept(t) /\ t.done = {} /\ t.claimed = {} /\ t.aloc \notin BattleNodes
<1>1. /\ t.page = [n \in Nodes |-> FirstPage(n)] /\ t.done = {} /\ t.claimed = {}
      /\ t.seen = {Chain[1], Chain[2]} /\ t.aloc = Chain[1] /\ t.last = Chain[1]
      /\ t.pending = None /\ t.started
  BY DEF NewCastle
<1>2. Chain[1] \notin BattleNodes /\ Chain[1] # None
  BY CastleConstants, ChainFacts
<1>3. \A n \in BattleNodes : t.page[n] = "battle"
  BY <1>1, <1>2, ChainFacts DEF FirstPage
<1>4. PagesOK(t)  BY <1>1, <1>3 DEF PagesOK
<1>5. PendingOK(t) /\ PlaceOK(t)  BY <1>1, <1>2 DEF PendingOK, PlaceOK
<1>6. Ahead(t)
  <2> SUFFICES ASSUME NEW i \in 2 .. Len(Chain),
                      \A j \in 2 .. i - 1 : Chain[j] \in t.done
               PROVE  Chain[i] \in t.seen
    BY DEF Ahead
  <2>1. ~ (2 < i)
    <3>1. 2 < i => 2 \in 2 .. i - 1  BY ChainFacts
    <3> QED  BY <1>1, <3>1
  <2>2. i = 2  BY <2>1, ChainFacts
  <2> QED  BY <1>1, <2>2
<1> QED  BY <1>1, <1>2, <1>4, <1>5, <1>6 DEF Kept, Paged

(* A step of the castle keeps the row, at once or in the draft.            *)
LEMMA TakeStepKeeps ==
    ASSUME Sound(castle), Kept(castle), NEW w \in BOOLEAN, TakeStep(w),
           castle.aloc # None,
           castle.aloc \in BattleNodes /\ w =>
               castle.aloc \in castle.claimed
               /\ (castle.pending # None => castle.page[castle.aloc] = "victory"),
           ~ w => castle.aloc \in BattleNodes /\ castle.pending = None
    PROVE  \/ /\ job' = Idle /\ Kept(castle') /\ castle'.claimed = castle.claimed
              /\ castle.done \subseteq castle'.done
              /\ castle'.aloc \in BattleNodes => castle'.aloc = castle.aloc
           \/ \E t : /\ job' = [step |-> "quest", draft |-> t] /\ castle' = castle
                     /\ Kept(t) /\ t.claimed = castle.claimed
                     /\ castle.done \subseteq t.done /\ t.aloc = None
<1> DEFINE s == Prepared(castle)
           t == Stepped(s, w)
<1>1. /\ Sound(s) /\ Kept(s) /\ SamePages(castle, s) /\ s.aloc # None
      /\ s.aloc # castle.aloc => castle.aloc \notin BattleNodes /\ s.aloc = Chain[2]
  BY PreparedSound, PreparedKeeps
<1>2. Chain[2] \notin BattleNodes /\ None \notin BattleNodes
  BY CastleConstants, ChainFacts
<1>3. \/ job' = [step |-> "quest", draft |-> t] /\ castle' = castle /\ t.aloc = None
      \/ job' = Idle /\ castle' = t
  BY DEF TakeStep, IsFinale
<1> HIDE DEF s
<1>4. /\ s.aloc \notin BattleNodes => w
      /\ s.aloc \in BattleNodes => s.aloc = castle.aloc
  BY <1>1, <1>2
<1>5. /\ s.aloc \in BattleNodes /\ w =>
            s.aloc \in s.claimed /\ (s.pending # None => s.page[s.aloc] = "victory")
      /\ ~ w => s.pending = None
  BY <1>1, <1>4 DEF SamePages
<1>6. /\ Kept(t) /\ s.done \subseteq t.done /\ t.claimed = s.claimed
      /\ t.aloc \in {s.aloc, None}
  BY <1>1, <1>4, <1>5, SteppedKeeps
<1> HIDE DEF t
<1>7. /\ Kept(t) /\ castle.done \subseteq t.done /\ t.claimed = castle.claimed
      /\ t.aloc \in BattleNodes => t.aloc = castle.aloc
  BY <1>1, <1>2, <1>4, <1>6 DEF SamePages
<1> QED  BY <1>3, <1>7

(* A request that leaves no work and no battle behind.                     *)
LEMMA QuietKeeps ==
    ASSUME Kept(castle'), castle'.claimed \subseteq fought', quest' # "none",
           castle'.aloc \in BattleNodes => walked' = castle'.aloc,
           job' = Idle, battle' = None
    PROVE  Books'
<1>1. job'.step = "idle"  BY DEF Idle
<1> QED  BY <1>1 DEF Books, Underway, WalkedThere, DraftOK, AtTheBattle

(* A step that writes no page and moves nobody on or off a battle node.    *)
LEMMA AsideKeeps ==
    ASSUME Underway, Kept(castle'), SamePages(castle, castle'),
           castle'.aloc # castle.aloc =>
               castle.aloc \notin BattleNodes /\ castle'.aloc \notin BattleNodes,
           quest' # "none", UNCHANGED <<job, battle, walked, fought>>
    PROVE  Books' /\ StaysBeatenStep
<1>1. DraftOK'  BY DEF Underway, DraftOK, SamePages
<1>2. AtTheBattle'
  BY DEF Underway, AtTheBattle, SamePages
<1>3. WalkedThere'  BY DEF Underway, WalkedThere
<1> QED
  BY <1>1, <1>2, <1>3 DEF Books, Underway, SamePages, StaysBeatenStep

LEMMA FreshStep ==
    ASSUME Fresh, [Next]_vars
    PROVE  Books' /\ StaysBeatenStep
<1>1. AcceptQuest \/ UNCHANGED vars
  <2>1. job.step = "idle" /\ Free  BY DEF Fresh, Idle, Free
  <2> QED
    BY <2>1 DEF Fresh, Next, Work, StartCamp, Read, ConvDone, Start, Report, Forfeit,
       GameEnd, Crash, Enter, Reward, Apply, Advance, Quest, Panorama, Save,
       StartLoc, FinishLoc, BattleEnds, InCastle
<1>2. CASE AcceptQuest
  <2>1. /\ castle' = [NewCastle EXCEPT !.started = TRUE] /\ quest' = "castle"
        /\ job' = [step |-> "enter"] /\ battle' = None /\ fought' = {}
    BY <1>2 DEF AcceptQuest, Fresh, player
  <2>2. /\ Kept(castle') /\ castle'.done = {} /\ castle'.claimed = {}
        /\ castle'.aloc \notin BattleNodes
    BY <2>1, AcceptedIsKept
  <2>3. castle.done = {}  BY DEF Fresh, NewCastle
  <2> QED
    BY <2>1, <2>2, <2>3 DEF Books, Underway, WalkedThere, DraftOK, AtTheBattle,
       StaysBeatenStep
<1>3. CASE UNCHANGED vars
  BY <1>3 DEF vars, Books, Fresh, StaysBeatenStep
<1> QED  BY <1>1, <1>2, <1>3

LEMMA UnderwayStep ==
    ASSUME Plays, IInv, Underway, [Next]_vars
    PROVE  Books' /\ StaysBeatenStep
<1>1. /\ Sound(castle) /\ castle \in Rows /\ Kept(castle) /\ quest # "none"
      /\ job.step \in {"reward", "apply", "advance"} => job.won \in BOOLEAN
      /\ castle.claimed \subseteq fought
      /\ castle.aloc \in BattleNodes => walked = castle.aloc
  BY JobFacts DEF IInv, TypeOK, Sound, Underway, WalkedThere
<1>2. None \notin BattleNodes /\ Chain[2] \notin BattleNodes
  BY CastleConstants, ChainFacts
<1>3. /\ Free <=> job.step = "idle"
      /\ job.step \in {"enter", "reward", "apply", "advance", "quest",
                       "panorama", "save"} => battle = None
  BY JobFacts DEF IInv, SceneOK, Idle, Free
<1>4. castle.done \cap BattleNodes \subseteq castle'.done <=> StaysBeatenStep
  BY DEF StaysBeatenStep
<1>5. CASE AcceptQuest
  BY <1>1, <1>5 DEF AcceptQuest
<1>6. CASE StartCamp
  <2> DEFINE s == Prepared(castle)
  <2>1. /\ castle.done \subseteq {Chain[1]} /\ job' = Idle /\ battle' = None
        /\ quest' = quest /\ fought' = fought
        /\ castle' = Followed(Prepared([castle EXCEPT !.started = TRUE]), 1)
    BY <1>6 DEF StartCamp, InCastle, Free, Plays, player, journal
  <2>2. [castle EXCEPT !.started = TRUE] = castle
    BY <1>1 DEF Rows, Kept, Paged
  <2>3. Sound(s) /\ Kept(s) /\ SamePages(castle, s)
    BY <1>1, PreparedSound, PreparedKeeps
  <2>4. castle' = Followed(s, 1)  BY <2>1, <2>2
  <2> HIDE DEF s
  <2>5. /\ Kept(castle') /\ s.done \subseteq castle'.done
        /\ castle'.claimed = s.claimed /\ castle'.aloc = Chain[2]
    BY <2>1, <2>3, <2>4, FollowedKeeps DEF SamePages
  <2>6. Books'
    BY <1>1, <1>2, <2>1, <2>3, <2>5, QuietKeeps DEF SamePages
  <2> QED  BY <1>4, <2>3, <2>5, <2>6 DEF SamePages
<1>7. CASE Read
  <2>1. castle' = Prepared(castle) /\ UNCHANGED <<quest, job, battle, walked, fought>>
    BY <1>7 DEF Read, journal, player
  <2>2. /\ Kept(castle') /\ SamePages(castle, castle')
        /\ castle'.aloc # castle.aloc =>
              castle.aloc \notin BattleNodes /\ castle'.aloc \notin BattleNodes
    BY <1>1, <1>2, <2>1, PreparedKeeps
  <2> QED  BY <1>1, <2>1, <2>2, AsideKeeps
<1>8. CASE ConvDone
  <2> DEFINE n == castle.aloc
  <2>1. /\ n # None /\ Talks(castle, n) /\ battle' = None /\ job = Idle
        /\ UNCHANGED <<quest, walked, fought>>
    BY <1>8 DEF ConvDone, InCastle, Free, Plays, journal, player
  <2>2. Here(castle) = n  BY <2>1 DEF Here
  <2>3. CASE castle.page[n] = "defeat"
    <3>1. castle' = Restored(castle, n) /\ job' = Idle
      BY <1>8, <2>1, <2>2, <2>3 DEF ConvDone
    <3>2. /\ Kept(castle') /\ castle.done \cap BattleNodes \subseteq castle'.done
          /\ castle'.claimed = castle.claimed /\ castle'.aloc = None
      BY <1>1, <2>1, <2>3, <3>1, RestoredKeeps
    <3>3. Books'  BY <1>1, <1>2, <2>1, <3>1, <3>2, QuietKeeps
    <3> QED  BY <1>4, <3>2, <3>3
  <2>4. CASE castle.page[n] # "defeat"
    <3>1. TakeStep(TRUE)  BY <1>8, <2>1, <2>2, <2>4 DEF ConvDone
    <3>2. n \in BattleNodes => castle.page[n] = "victory" /\ n \in castle.claimed
      BY <1>1, <2>1, <2>4 DEF Talks, Kept, Paged, PagesOK
    <3>3. \/ /\ job' = Idle /\ Kept(castle') /\ castle'.claimed = castle.claimed
             /\ castle.done \subseteq castle'.done
             /\ castle'.aloc \in BattleNodes => castle'.aloc = castle.aloc
          \/ \E t : /\ job' = [step |-> "quest", draft |-> t] /\ castle' = castle
                    /\ Kept(t) /\ t.claimed = castle.claimed
                    /\ castle.done \subseteq t.done /\ t.aloc = None
      BY <1>1, <2>1, <3>1, <3>2, TakeStepKeeps
    <3>4. CASE /\ job' = Idle /\ Kept(castle') /\ castle'.claimed = castle.claimed
               /\ castle.done \subseteq castle'.done
               /\ castle'.aloc \in BattleNodes => castle'.aloc = castle.aloc
      BY <1>1, <1>4, <2>1, <3>4, QuietKeeps
    <3>5. ASSUME NEW t, job' = [step |-> "quest", draft |-> t], castle' = castle,
                 Kept(t), t.claimed = castle.claimed, castle.done \subseteq t.done,
                 t.aloc = None
          PROVE  Books' /\ StaysBeatenStep
      BY <1>1, <1>4, <2>1, <3>5 DEF Books, Underway, WalkedThere, DraftOK, AtTheBattle
    <3> QED  BY <3>3, <3>4, <3>5
  <2> QED  BY <2>3, <2>4
<1>9. CASE Enter
  <2> DEFINE s == Prepared(castle)
             n == Here(s)
  <2>1. /\ job.step = "enter" /\ castle' = Followed(s, Pos(n)) /\ job' = Idle
        /\ UNCHANGED <<quest, battle, walked, fought>>
    BY <1>9 DEF Enter, journal, player
  <2>2. castle.done = {} /\ battle = None  BY <1>3, <2>1 DEF Underway
  <2>3. /\ Sound(s) /\ Kept(s) /\ SamePages(castle, s)
        /\ s.aloc = Chain[2]
    BY <1>1, <2>2, PreparedSound, PreparedKeeps
  <2> HIDE DEF s
  <2>4. n = Chain[2] /\ Pos(n) = 2
    BY <2>3, ChainFacts, PosFacts DEF Here
  <2> HIDE DEF n
  <2>5. /\ Kept(castle') /\ s.done \subseteq castle'.done
        /\ castle'.claimed = s.claimed /\ castle'.aloc = Chain[2]
    BY <2>1, <2>2, <2>3, <2>4, FollowedKeeps DEF SamePages
  <2>6. Books'
    BY <1>1, <1>2, <2>1, <2>2, <2>3, <2>5, QuietKeeps DEF SamePages
  <2> QED  BY <1>4, <2>2, <2>6
<1>10. CASE Start
  <2> DEFINE n == Here(castle)
             t == [castle EXCEPT !.active = n]
  <2>1. /\ n \in BattleNodes /\ castle.page[n] = "battle" /\ castle' = t
        /\ battle' = n /\ job' = Idle /\ UNCHANGED <<quest, walked, fought>>
    BY <1>10 DEF Start, InCastle, Free, Plays, journal
  <2>2. n = castle.aloc
    <3>1. SUFFICES ASSUME castle.aloc = None PROVE FALSE  BY DEF Here
    <3>2. n = castle.last  BY <3>1 DEF Here
    <3>3. castle.last \in castle.done  BY <1>1, <2>1, <3>1, <3>2 DEF Kept, PlaceOK
    <3> QED  BY <1>1, <2>1, <3>2, <3>3 DEF Kept, Paged, PagesOK
  <2> HIDE DEF n
  <2>3. /\ t.page = castle.page /\ t.done = castle.done /\ t.claimed = castle.claimed
        /\ t.pending = castle.pending /\ t.started = castle.started /\ t.active = n
        /\ t.aloc = castle.aloc /\ t.last = castle.last /\ t.seen = castle.seen
    BY <1>1 DEF Rows
  <2> HIDE DEF t
  <2>4. Kept(t)
    BY <1>1, <2>3 DEF Kept, Paged, PagesOK, PendingOK, PlaceOK, Ahead, Reached
  <2>5. job'.step = "idle"  BY <2>1 DEF Idle
  <2>6. WalkedThere' /\ DraftOK' /\ AtTheBattle'
    BY <1>1, <2>1, <2>2, <2>3, <2>5 DEF WalkedThere, DraftOK, AtTheBattle
  <2> QED  BY <1>1, <1>4, <2>1, <2>3, <2>4, <2>5, <2>6 DEF Books, Underway
<1>11. ASSUME NEW n \in Nodes, StartLoc(n) PROVE Books' /\ StaysBeatenStep
  <2> DEFINE s == Prepared(castle)
             f == Chain[Frontier(s)]
             r == ReturnNode(s, f)
             t == [s EXCEPT !.aloc = None, !.last = r]
  <2>1. /\ n \notin castle.done \cap BattleNodes /\ job' = Idle /\ battle' = None
        /\ UNCHANGED <<quest, fought>>
    BY <1>11 DEF StartLoc, InCastle, Free, Plays, journal
  <2>2. \/ MayEnter(s, n) /\ castle' = MovedTo(s, n) /\ walked' = n
        \/ ~ MayEnter(s, n) /\ castle' = Revealed(t)
    BY <1>11 DEF StartLoc
  <2>3. Sound(s) /\ Kept(s) /\ SamePages(castle, s)
    BY <1>1, PreparedSound, PreparedKeeps
  <2> HIDE DEF s
  <2>4. /\ Kept(castle') /\ SamePages(s, castle')
        /\ castle'.aloc \in BattleNodes => walked' = castle'.aloc
    <3>1. CASE castle' = MovedTo(s, n) /\ walked' = n
      BY <2>1, <2>3, <3>1, MovedToKeeps DEF Sound, Kept, SamePages
    <3>2. CASE ~ MayEnter(s, n) /\ castle' = Revealed(t)
      <4>1. Frontier(s) \in 2 .. Len(Chain)
        BY <3>2, PosFacts, FrontierFacts, ChainFacts DEF MayEnter
      <4>2. f \in Nodes /\ Reached(s, f)
        BY <4>1, ChainFacts, PosFacts, ReachedIsWithin
      <4> HIDE DEF f
      <4>3. r \in Nodes /\ (r \in s.done \/ r = Chain[1])
        BY <4>2, ReturnFacts, ReturnIsDone
      <4> HIDE DEF r
      <4>4. t \in Rows /\ SamePages(s, t) /\ t.aloc = None /\ t.last = r
        BY <2>3, <4>3 DEF Sound, Rows, SamePages
      <4> HIDE DEF t
      <4>5. PlaceOK(t)  BY <4>3, <4>4, CastleConstants DEF PlaceOK, SamePages
      <4>6. Paged(t)  BY <2>3, <4>4, PagedStays DEF Kept
      <4> QED  BY <1>2, <3>2, <4>4, <4>5, <4>6, RevealedKeeps DEF SamePages
    <3> QED  BY <2>2, <3>1, <3>2
  <2>5. Books'  BY <1>1, <2>1, <2>3, <2>4, QuietKeeps DEF SamePages
  <2> QED  BY <1>4, <2>3, <2>4, <2>5 DEF SamePages
<1>12. ASSUME NEW n \in Nodes, FinishLoc(n) PROVE FALSE
  BY <1>12 DEF FinishLoc, Plays
<1>13. ASSUME NEW w \in BOOLEAN, BattleEnds(w) PROVE Books' /\ StaysBeatenStep
  <2>1. /\ battle # None /\ battle' = None /\ job' = [step |-> "reward", won |-> w]
        /\ fought' = (IF w THEN fought \cup {battle} ELSE fought)
        /\ UNCHANGED <<castle, quest, walked>>
    BY <1>13 DEF BattleEnds, journal
  <2>2. /\ castle.active \in BattleNodes /\ castle.aloc = castle.active
        /\ castle.page[castle.active] = "battle" /\ battle = castle.active
    BY <2>1 DEF Underway, AtTheBattle
  <2>3. fought \subseteq fought' /\ (w => castle.active \in fought')
    BY <2>1, <2>2
  <2>4. job'.step = "reward" /\ job'.won = w  BY <2>1
  <2>5. AtTheBattle' /\ DraftOK'
    BY <2>1, <2>2, <2>3, <2>4 DEF AtTheBattle, DraftOK
  <2> QED
    BY <1>1, <1>4, <2>1, <2>3, <2>4, <2>5 DEF Books, Underway, WalkedThere
<1>14. CASE Reward
  <2> DEFINE a == castle.active
             t == [castle EXCEPT !.claimed = @ \cup {a}]
  <2>1. /\ job.step = "reward" /\ job' = [job EXCEPT !.step = "apply"]
        /\ castle' = (IF job.won THEN t ELSE castle)
        /\ UNCHANGED <<quest, battle, walked, fought>>
    BY <1>14 DEF Reward, journal, player
  <2>2. /\ a \in BattleNodes /\ castle.aloc = a /\ castle.page[a] = "battle"
        /\ (job.won => a \in fought) /\ battle = None
    BY <1>3, <2>1 DEF Underway, AtTheBattle
  <2>3. /\ t.page = castle.page /\ t.done = castle.done
        /\ t.claimed = castle.claimed \cup {a} /\ t.pending = castle.pending
        /\ t.started = castle.started /\ t.active = a
        /\ t.aloc = castle.aloc /\ t.last = castle.last /\ t.seen = castle.seen
    BY <1>1 DEF Rows
  <2> HIDE DEF t
  <2>4. Kept(t)
    BY <1>1, <2>3 DEF Kept, Paged, PagesOK, PendingOK, PlaceOK, Ahead, Reached
  <2>5. /\ Kept(castle') /\ castle'.claimed \subseteq fought'
        /\ castle'.aloc = a /\ castle'.active = a /\ castle'.page = castle.page
        /\ castle'.done = castle.done /\ (job.won => a \in castle'.claimed)
    BY <1>1, <2>1, <2>2, <2>3, <2>4
  <2>6. job'.step = "apply" /\ job'.won = job.won
    BY <2>1 DEF IInv, Jobs
  <2>7. AtTheBattle' /\ DraftOK' /\ WalkedThere'
    BY <1>1, <2>1, <2>2, <2>5, <2>6 DEF AtTheBattle, DraftOK, WalkedThere
  <2> QED  BY <1>1, <1>4, <2>1, <2>5, <2>6, <2>7 DEF Books, Underway
<1>15. CASE Apply
  <2>1. /\ job.step = "apply" /\ job' = [job EXCEPT !.step = "advance"]
        /\ castle' = Counted(castle, job.won)
        /\ UNCHANGED <<quest, battle, walked, fought>>
    BY <1>15 DEF Apply, journal, player
  <2>2. Kept(castle') /\ SamePages(castle, castle') /\ castle'.aloc = castle.aloc
    BY <1>1, <2>1, CountedKeeps
  <2>3. job'.step = "advance" /\ job'.won = job.won
    BY <2>1 DEF IInv, Jobs
  <2>4. AtTheBattle' /\ DraftOK' /\ WalkedThere'
    BY <1>1, <1>3, <2>1, <2>2, <2>3
    DEF Underway, AtTheBattle, DraftOK, WalkedThere, SamePages
  <2> QED
    BY <1>1, <1>4, <2>1, <2>2, <2>3, <2>4 DEF Books, Underway, SamePages
<1>16. CASE Advance
  <2>1. job.step = "advance" /\ TakeStep(job.won) /\ UNCHANGED <<quest, battle, walked, fought>>
    BY <1>16 DEF Advance, journal, player
  <2>2. /\ castle.aloc \in BattleNodes /\ castle.page[castle.aloc] = "battle"
        /\ (job.won => castle.aloc \in castle.claimed) /\ battle = None
    BY <1>3, <2>1 DEF Underway, AtTheBattle
  <2>3. castle.pending = None  BY <1>1, <2>2, NothingPending
  <2>4. castle.aloc # None  BY <1>2, <2>2
  <2>5. \/ /\ job' = Idle /\ Kept(castle') /\ castle'.claimed = castle.claimed
           /\ castle.done \subseteq castle'.done
           /\ castle'.aloc \in BattleNodes => castle'.aloc = castle.aloc
        \/ \E t : /\ job' = [step |-> "quest", draft |-> t] /\ castle' = castle
                  /\ Kept(t) /\ t.claimed = castle.claimed
                  /\ castle.done \subseteq t.done /\ t.aloc = None
    BY <1>1, <2>1, <2>2, <2>3, <2>4, TakeStepKeeps
  <2>6. CASE /\ job' = Idle /\ Kept(castle') /\ castle'.claimed = castle.claimed
             /\ castle.done \subseteq castle'.done
             /\ castle'.aloc \in BattleNodes => castle'.aloc = castle.aloc
    BY <1>1, <1>4, <2>1, <2>2, <2>6, QuietKeeps
  <2>7. ASSUME NEW t, job' = [step |-> "quest", draft |-> t], castle' = castle,
               Kept(t), t.claimed = castle.claimed, castle.done \subseteq t.done,
               t.aloc = None
        PROVE  Books' /\ StaysBeatenStep
    BY <1>1, <1>4, <2>1, <2>2, <2>7 DEF Books, Underway, WalkedThere, DraftOK, AtTheBattle
  <2> QED  BY <2>5, <2>6, <2>7
<1>17. CASE GameEnd
  <2>1. castle' = Counted(castle, tell = "won")
        /\ UNCHANGED <<quest, job, battle, walked, fought>>
    BY <1>17 DEF GameEnd, journal
  <2>2. (tell = "won") \in BOOLEAN  OBVIOUS
  <2>3. Kept(castle') /\ SamePages(castle, castle') /\ castle'.aloc = castle.aloc
    BY <1>1, <2>1, <2>2, CountedKeeps
  <2> QED  BY <1>1, <2>1, <2>3, AsideKeeps
<1>18. CASE Quest \/ Panorama
  <2>1. /\ job.step \in {"quest", "panorama"} /\ quest' # "none"
        /\ \E p \in {"panorama", "save"} : job' = [job EXCEPT !.step = p]
        /\ UNCHANGED <<castle, battle, walked, fought>>
    BY <1>1, <1>18 DEF Quest, Panorama, player
  <2>2. job'.step \in {"panorama", "save"} /\ job'.draft = job.draft
    BY <2>1 DEF IInv, Jobs
  <2>3. battle = None  BY <1>3, <2>1
  <2>4. DraftOK' /\ AtTheBattle' /\ WalkedThere'
    BY <1>1, <2>1, <2>2, <2>3 DEF Underway, DraftOK, AtTheBattle, WalkedThere
  <2> QED  BY <1>1, <1>4, <2>1, <2>2, <2>4 DEF Books, Underway
<1>19. CASE Save
  <2>1. /\ job.step = "save" /\ job' = Idle /\ castle' = job.draft
        /\ UNCHANGED <<quest, battle, walked, fought>>
    BY <1>19 DEF Save, journal, player
  <2>2. /\ Kept(castle') /\ castle'.claimed = castle.claimed
        /\ castle.done \cap BattleNodes \subseteq castle'.done /\ castle'.aloc = None
    BY <2>1 DEF Underway, DraftOK
  <2>3. Books'  BY <1>1, <1>2, <1>3, <2>1, <2>2, QuietKeeps
  <2> QED  BY <1>4, <2>2, <2>3
<1>20. CASE Report
  <2>1. quest' = "closed" /\ UNCHANGED <<castle, job, battle, walked, fought>>
    BY <1>20 DEF Report, player
  <2> QED  BY <1>1, <2>1, AsideKeeps DEF SamePages
<1>21. CASE Forfeit
  <2> DEFINE t == [castle EXCEPT !.finished = "Forfeit"]
  <2>1. castle' = t /\ UNCHANGED <<quest, job, battle, walked, fought>>
    BY <1>21 DEF Forfeit, journal, player
  <2>2. SamePages(castle, t) /\ t.aloc = castle.aloc /\ t.last = castle.last
        /\ t.seen = castle.seen
    BY <1>1 DEF Rows, SamePages
  <2> HIDE DEF t
  <2>3. Kept(t)
    BY <1>1, <2>2, PagedStays DEF Kept, PlaceOK, Ahead, SamePages
  <2> QED  BY <1>1, <2>1, <2>2, <2>3, AsideKeeps
<1>22. CASE Crash
  <2>1. ~ Free /\ job' = Idle /\ UNCHANGED <<castle, quest, battle, walked, fought>>
    BY <1>22 DEF Crash, journal
  <2>2. battle = None  BY <2>1 DEF IInv, SceneOK, Free
  <2> QED  BY <1>1, <1>4, <2>1, <2>2, QuietKeeps
<1>23. CASE UNCHANGED vars
  BY <1>1, <1>23, AsideKeeps DEF vars, SamePages
<1> QED
  BY <1>5, <1>6, <1>7, <1>8, <1>9, <1>10, <1>11, <1>12, <1>13, <1>14, <1>15,
     <1>16, <1>17, <1>18, <1>19, <1>20, <1>21, <1>22, <1>23
  DEF Next, Work

(* Whatever such a client does, and whenever the server dies, the books    *)
(* are kept (campaign.py:3437-7311).                                       *)
THEOREM BooksAreKept ==
    ASSUME Plays
    PROVE  Spec => [](IInv /\ Books)
<1>1. Init => IInv /\ Books
  BY InitEstablishes DEF Init, Books, Fresh
<1>2. IInv /\ Books /\ [Next]_vars => (IInv /\ Books)'
  BY StepPreserves, FreshStep, UnderwayStep DEF Books
<1> QED  BY <1>1, <1>2, PTL DEF Spec

(* A battle node is beaten only after a battle at that very node was won   *)
(* and paid for: handle_battle_gameend applies the result to the node the  *)
(* player stands on, _apply_encounter_end_rewards pays the one launched.   *)
THEOREM BeatenIsFought ==
    ASSUME Plays
    PROVE  Spec => []BattlesAreFought
<1>1. IInv /\ Books => BattlesAreFought
  BY DEF Books, Fresh, NewCastle, Underway, Kept, Paged, PagesOK, BattlesAreFought
<1> QED  BY <1>1, BooksAreKept, PTL

(* A battle node becomes the active one only when the player went there:   *)
(* neither a repair of the row (_prepare_dungeon_state) nor a step of the  *)
(* chain (advance_crayburn_step) puts him on one.                          *)
THEOREM NobodyIsPutThere ==
    ASSUME Plays
    PROVE  Spec => []WalkedThere
<1>1. IInv /\ Books => WalkedThere
  BY CastleConstants DEF Books, Fresh, NewCastle, Underway, WalkedThere
<1> QED  BY <1>1, BooksAreKept, PTL

(* The player always has somewhere to go: the first unfinished node is on  *)
(* his map, and a pending victory is that node's and there to be heard     *)
(* (advance_crayburn_step, _handle_locaction).                             *)
THEOREM NobodyIsStranded ==
    ASSUME Plays
    PROVE  Spec => []NeverStranded
<1>1. IInv /\ Books => NeverStranded
  <2> SUFFICES ASSUME Books, quest # "none", Unfinished(castle) # {}
               PROVE  LET n == Chain[Frontier(castle)]
                      IN  /\ n \in castle.seen
                          /\ castle.pending # None =>
                                castle.pending = n /\ castle.page[n] = "victory"
    BY DEF NeverStranded
  <2> DEFINE f == Frontier(castle)
             m == castle.pending
  <2>1. Kept(castle)  BY DEF Books, Fresh, Underway
  <2>2. /\ f \in 2 .. Len(Chain) + 1
        /\ \A i \in 2 .. f - 1 : Chain[i] \in castle.done
        /\ f <= Len(Chain) => Chain[f] \notin castle.done
    BY FrontierFacts
  <2>3. f <= Len(Chain)
    <3>1. PICK k \in 2 .. Len(Chain) : Chain[k] \notin castle.done
      BY DEF Unfinished
    <3>2. k \notin 2 .. f - 1  BY <2>2, <3>1
    <3> HIDE DEF f
    <3> QED  BY <2>2, <3>1, <3>2, ChainFacts
  <2> HIDE DEF f
  <2>4. f \in 2 .. Len(Chain)  BY <2>2, <2>3, ChainFacts
  <2>5. Chain[f] \in castle.seen  BY <2>1, <2>2, <2>3, <2>4 DEF Kept, Ahead
  <2>6. ASSUME m # None
        PROVE  m = Chain[f] /\ castle.page[m] = "victory"
    <3>1. /\ m \in BattleNodes /\ m \notin castle.done /\ Reached(castle, m)
          /\ castle.page[m] = "victory"
      BY <2>1, <2>6 DEF Kept, Paged, PendingOK
    <3> HIDE DEF m
    <3>2. /\ m \in Nodes /\ m # Chain[1] /\ Pos(m) \in 1 .. Len(Chain)
          /\ Chain[Pos(m)] = m
      BY <3>1, ChainFacts, CastleConstants, PosFacts
    <3>3. Pos(m) <= f  BY <3>1, <3>2, ReachedIsWithin DEF f
    <3>4. Pos(m) \notin 2 .. f - 1  BY <2>2, <3>1, <3>2
    <3>5. Pos(m) # 1  BY <3>2
    <3>6. Pos(m) = f  BY <2>4, <3>2, <3>3, <3>4, <3>5, ChainFacts
    <3> QED  BY <3>1, <3>2, <3>6
  <2> QED  BY <2>5, <2>6 DEF f
<1> QED  BY <1>1, BooksAreKept, PTL

(* A beaten battle node stays beaten: no outcome (advance_crayburn_step),  *)
(* no acknowledged defeat (_handle_sendevent) and no row written late      *)
(* (handle_battle_gameend) takes it off the list of finished nodes.        *)
THEOREM BeatenStaysBeaten ==
    ASSUME Plays
    PROVE  Spec => [][StaysBeatenStep]_vars
<1>1. IInv /\ Books /\ [Next]_vars => [StaysBeatenStep]_vars
  BY FreshStep, UnderwayStep DEF Books
<1> QED  BY <1>1, BooksAreKept, PTL DEF Spec

----------------------------------------------------------------------------
(* The fog, the score and the victories: what the steps of the castle      *)
(* leave of them.                                                          *)

(* Nothing is on the map beyond the first unfinished node.                 *)
FogOK(s) == \A n \in s.seen : Reached(s, n)

Victories(s) == {n \in BattleNodes : s.page[n] = "victory"}

(* The step takes back no victory, counts no battle, and draws no node too *)
(* far on the map.                                                         *)
Carries(s, t) ==
    /\ t.wins = s.wins /\ t.streak = s.streak
    /\ Victories(s) \subseteq Victories(t)
    /\ FogOK(s) => FogOK(t)

(* The castle is not ended by the step, or is ended past its last node.    *)
EndsRightly(s, t) ==
    \/ t.finished = s.finished /\ (t.aloc # None \/ Unfinished(t) # {})
    \/ t.finished = "Complete" /\ t.aloc = None /\ Unfinished(t) = {}

LEMMA CarriesOn ==
    ASSUME NEW s, NEW t, NEW u, Carries(s, t), Carries(t, u)
    PROVE  Carries(s, u)
BY DEF Carries

LEMMA RevealedCarries ==
    ASSUME NEW s, s \in Rows
    PROVE  /\ Carries(s, Revealed(s)) /\ FogOK(Revealed(s))
           /\ Revealed(s).finished = s.finished
<1> DEFINE t == Revealed(s)
<1>1. /\ t.page = s.page /\ t.done = s.done /\ t.wins = s.wins
      /\ t.streak = s.streak /\ t.finished = s.finished
      /\ t.seen = {n \in Nodes : Pos(n) <= Frontier(s)}
  BY DEF Revealed, Rows
<1> HIDE DEF t
<1>2. FogOK(t)
  <2> SUFFICES ASSUME NEW n \in t.seen PROVE Reached(t, n)
    BY DEF FogOK
  <2>1. n \in Nodes /\ Reached(s, n)  BY <1>1, ReachedIsWithin
  <2> QED  BY <1>1, <2>1 DEF Reached
<1> USE DEF t
<1> QED  BY <1>1, <1>2 DEF Carries, Victories

LEMMA MovedToCarries ==
    ASSUME NEW s, s \in Rows, NEW n \in Nodes
    PROVE  /\ Carries(s, MovedTo(s, n)) /\ FogOK(MovedTo(s, n))
           /\ MovedTo(s, n).finished = s.finished
<1> DEFINE t == [s EXCEPT !.aloc = n, !.last = n]
<1>1. /\ t \in Rows /\ t.page = s.page /\ t.done = s.done /\ t.seen = s.seen
      /\ t.wins = s.wins /\ t.streak = s.streak /\ t.finished = s.finished
  BY DEF Rows
<1>2. MovedTo(s, n) = Revealed(t)  BY DEF MovedTo
<1> HIDE DEF t
<1>3. Carries(s, t)  BY <1>1 DEF Carries, Victories, FogOK, Reached
<1> QED  BY <1>1, <1>2, <1>3, RevealedCarries, CarriesOn

LEMMA PreparedCarries ==
    ASSUME NEW s, Sound(s), Kept(s)
    PROVE  Carries(s, Prepared(s)) /\ Prepared(s).finished = s.finished
<1>0. s \in Rows /\ Paged(s) /\ PlaceOK(s) /\ s.started
  BY DEF Sound, Kept, Paged
<1>1. CASE s.done \ {Chain[1]} # {}
  <2>1. ~ (/\ s.aloc = None /\ Frontier(s) <= Len(Chain)
           /\ s.last = Chain[Frontier(s)] /\ s.last \in BattleNodes)
    BY <1>0, FrontierFacts DEF PlaceOK
  <2>2. Prepared(s) = Revealed(s)  BY <1>1, <2>1 DEF Prepared
  <2> QED  BY <1>0, <2>2, RevealedCarries
<1>2. CASE s.done \ {Chain[1]} = {}
  <2>1. Frontier(s) = 2 /\ Chain[2] \in Nodes  BY <1>2, EarlyFrontier
  <2>2. Prepared(s) = MovedTo(s, Chain[2])  BY <1>0, <1>2, <2>1 DEF Prepared
  <2> QED  BY <1>0, <2>1, <2>2, MovedToCarries
<1> QED  BY <1>1, <1>2

(* A victory page is not written over with a defeat.                       *)
LEMMA OutcomeCarries ==
    ASSUME NEW s, Sound(s), Kept(s), NEW p \in {"victory", "defeat"},
           s.aloc \in BattleNodes,
           p = "defeat" => s.page[s.aloc] # "victory"
    PROVE  /\ Carries(s, Outcome(s, s.aloc, p))
           /\ EndsRightly(s, Outcome(s, s.aloc, p))
           /\ p = "victory" => s.aloc \in Victories(Outcome(s, s.aloc, p))
<1> DEFINE n == s.aloc
           t == Outcome(s, n, p)
<1>1. n \in Nodes /\ n # None /\ n \notin s.done /\ Reached(s, n)
  BY ChainFacts DEF Kept, PlaceOK, Sound, OnTheWay
<1>2. /\ t.page = [s.page EXCEPT ![n] = p] /\ t.done = s.done
      /\ t.seen = s.seen \cup {n} /\ t.aloc = n
      /\ t.wins = s.wins /\ t.streak = s.streak /\ t.finished = s.finished
  BY <1>1 DEF Outcome, Sound, Rows
<1>3. s.page \in [Nodes -> {"none", "arrival", "battle", "victory", "defeat"}]
  BY DEF Sound, Rows
<1> HIDE DEF t
<1>4. \A m \in BattleNodes : t.page[m] = IF m = n THEN p ELSE s.page[m]
  BY <1>2, <1>3, ChainFacts
<1>5. Victories(s) \subseteq Victories(t) /\ (p = "victory" => n \in Victories(t))
  BY <1>4 DEF Victories
<1>6. FogOK(s) => FogOK(t)  BY <1>1, <1>2 DEF FogOK, Reached
<1> USE DEF t
<1> QED  BY <1>1, <1>2, <1>5, <1>6 DEF Carries, EndsRightly

LEMMA AwaitTravelCarries ==
    ASSUME NEW s, s \in Rows, NEW t, t = AwaitTravel(s)
    PROVE  Carries(s, t) /\ EndsRightly(s, t) /\ t.aloc = None
<1> DEFINE v == [s EXCEPT !.aloc = None]
           w == [v EXCEPT !.finished = "Complete"]
<1>1. /\ v \in Rows /\ v.page = s.page /\ v.done = s.done /\ v.seen = s.seen
      /\ v.wins = s.wins /\ v.streak = s.streak /\ v.finished = s.finished
      /\ v.aloc = None
  BY DEF Rows
<1>2. t = IF Unfinished(v) = {} THEN w ELSE Revealed(v)
  BY DEF AwaitTravel
<1>3. Carries(s, v)  BY <1>1 DEF Carries, Victories, FogOK, Reached
<1>4. /\ w.page = v.page /\ w.done = v.done /\ w.seen = v.seen /\ w.wins = v.wins
      /\ w.streak = v.streak /\ w.aloc = None /\ w.finished = "Complete"
  BY <1>1 DEF Rows
<1>5. /\ Revealed(v).done = v.done /\ Revealed(v).aloc = None
      /\ Carries(v, Revealed(v)) /\ Revealed(v).finished = v.finished
  BY <1>1, RevealedCarries DEF Revealed, Rows
<1> HIDE DEF v, w
<1>6. CASE Unfinished(v) = {}
  <2>1. Carries(v, w)  BY <1>4 DEF Carries, Victories, FogOK, Reached
  <2>2. Unfinished(w) = {}  BY <1>4, <1>6 DEF Unfinished
  <2> QED  BY <1>2, <1>3, <1>4, <1>6, <2>1, <2>2, CarriesOn DEF EndsRightly
<1>7. CASE Unfinished(v) # {}
  <2>1. t = Revealed(v)  BY <1>2, <1>7
  <2>2. Unfinished(t) = Unfinished(v)  BY <1>5, <2>1 DEF Unfinished
  <2>3. EndsRightly(s, t)  BY <1>1, <1>5, <1>7, <2>1, <2>2 DEF EndsRightly
  <2> QED  BY <1>3, <1>5, <2>1, <2>3, CarriesOn
<1> QED  BY <1>6, <1>7

LEMMA FinishedCarries ==
    ASSUME NEW s, Sound(s), NEW n \in Nodes,
           NEW t, t = AwaitTravel([s EXCEPT !.pending = None, !.done = @ \cup {n}])
    PROVE  Carries(s, t) /\ EndsRightly(s, t)
<1> DEFINE u == [s EXCEPT !.pending = None, !.done = @ \cup {n}]
<1>1. /\ u \in Rows /\ u.page = s.page /\ u.done = s.done \cup {n}
      /\ u.seen = s.seen /\ u.wins = s.wins /\ u.streak = s.streak
      /\ u.finished = s.finished
  BY DEF Sound, Rows
<1> HIDE DEF u
<1>2. Carries(s, u)  BY <1>1 DEF Carries, Victories, FogOK, Reached
<1>3. Carries(u, t) /\ EndsRightly(u, t)
  BY <1>1, AwaitTravelCarries DEF u
<1> QED  BY <1>1, <1>2, <1>3, CarriesOn DEF EndsRightly

LEMMA SteppedCarries ==
    ASSUME NEW s, Sound(s), Kept(s), NEW w \in BOOLEAN, s.aloc # None,
           s.aloc \notin BattleNodes => w,
           ~ w => s.page[s.aloc] # "victory"
    PROVE  /\ Carries(s, Stepped(s, w)) /\ EndsRightly(s, Stepped(s, w))
           /\ s.aloc \in BattleNodes /\ w /\ s.pending = None =>
                 s.aloc \in Victories(Stepped(s, w))
<1>1. Here(s) = s.aloc /\ s.aloc \in Nodes  BY DEF Here, Sound, Rows
<1>2. CASE s.aloc \in BattleNodes /\ w /\ s.pending = None
  <2>1. Stepped(s, w) = Outcome(s, s.aloc, "victory")
    BY <1>1, <1>2 DEF Stepped
  <2> QED  BY <1>2, <2>1, OutcomeCarries
<1>3. CASE s.aloc \in BattleNodes /\ ~ w
  <2>1. Stepped(s, w) = Outcome(s, s.aloc, "defeat")
    BY <1>1, <1>3 DEF Stepped
  <2> QED  BY <1>3, <2>1, OutcomeCarries
<1>4. CASE w /\ ~ (s.aloc \in BattleNodes /\ s.pending = None)
  <2> DEFINE t == Stepped(s, w)
  <2>1. t = AwaitTravel([s EXCEPT !.pending = None, !.done = @ \cup {s.aloc}])
    BY <1>1, <1>4 DEF Stepped
  <2> HIDE DEF t
  <2>2. Carries(s, t) /\ EndsRightly(s, t)  BY <1>1, <2>1, FinishedCarries
  <2> USE DEF t
  <2> QED  BY <1>4, <2>2
<1> QED  BY <1>2, <1>3, <1>4

LEMMA RestoredCarries ==
    ASSUME NEW s, Sound(s), s.aloc # None, s.page[s.aloc] = "defeat",
           NEW t, t = Restored(s, s.aloc)
    PROVE  Carries(s, t) /\ t.finished = s.finished
<1> DEFINE n == s.aloc
           r == ReturnNode(s, n)
           u == [s EXCEPT !.page = [@ EXCEPT ![n] = "battle"], !.done = @ \ {n},
                          !.seen = @ \cup {n}, !.pending = None, !.aloc = None,
                          !.last = r]
<1>1. n \in Nodes  BY DEF Sound, Rows
<1>2. r \in Nodes  BY <1>1, ReturnFacts
<1>3. t = Revealed(u)  BY DEF Restored
<1> HIDE DEF r
<1>4. /\ u \in Rows /\ u.page = [s.page EXCEPT ![n] = "battle"]
      /\ u.wins = s.wins /\ u.streak = s.streak /\ u.finished = s.finished
  BY <1>1, <1>2 DEF Sound, Rows
<1>5. s.page \in [Nodes -> {"none", "arrival", "battle", "victory", "defeat"}]
  BY DEF Sound, Rows
<1> HIDE DEF u
<1>6. \A m \in BattleNodes : u.page[m] = IF m = n THEN "battle" ELSE s.page[m]
  BY <1>4, <1>5, ChainFacts
<1>7. Victories(s) \subseteq Victories(u)  BY <1>6 DEF Victories
<1>8. Carries(u, t) /\ FogOK(t) /\ t.finished = u.finished
  BY <1>3, <1>4, RevealedCarries
<1> QED  BY <1>4, <1>7, <1>8 DEF Carries

LEMMA FollowedCarries ==
    ASSUME NEW s, Sound(s), s.done \subseteq {Chain[1]}, NEW i \in {1, 2},
           NEW t, t = Followed(s, i)
    PROVE  Carries(s, t) /\ t.finished = s.finished
<1> DEFINE ahead == {j \in Unfinished(s) : j >= i}
           p == IF i = 1 THEN [s EXCEPT !.done = @ \cup {Chain[1]}] ELSE s
<1>1. Unfinished(s) = 2 .. Len(Chain) /\ Chain[1] \in Nodes /\ Chain[2] \in Nodes
  BY EarlyFrontier
<1>2. ahead = 2 .. Len(Chain)  BY <1>1, ChainFacts
<1>3. (CHOOSE j \in ahead : \A k \in ahead : j <= k) = 2
  BY <1>2, ChainFacts
<1>4. ahead # {}  BY <1>2, ChainFacts
<1>5. t = MovedTo(p, Chain[2])  BY <1>3, <1>4 DEF Followed
<1> HIDE DEF ahead
<1>6. /\ p \in Rows /\ s.done \subseteq p.done /\ p.seen = s.seen
      /\ p.page = s.page /\ p.wins = s.wins /\ p.streak = s.streak
      /\ p.finished = s.finished
  BY <1>1 DEF Sound, Rows
<1> HIDE DEF p
<1>7. Carries(s, p)  BY <1>6 DEF Carries, Victories, FogOK, Reached
<1> QED  BY <1>1, <1>5, <1>6, <1>7, MovedToCarries, CarriesOn

(* A step of the castle carries its accounts on, at once or in the draft.  *)
LEMMA TakeStepCarries ==
    ASSUME Sound(castle), Kept(castle), NEW w \in BOOLEAN, TakeStep(w),
           castle.aloc # None,
           ~ w => castle.aloc \in BattleNodes /\ castle.page[castle.aloc] # "victory"
    PROVE  LET Arrives(t) == castle.aloc \in BattleNodes /\ w /\ castle.pending = None
                                => castle.aloc \in Victories(t)
           IN  \/ /\ job' = Idle /\ Carries(castle, castle')
                  /\ castle'.finished = castle.finished /\ Arrives(castle')
               \/ \E t : /\ job' = [step |-> "quest", draft |-> t] /\ castle' = castle
                         /\ Carries(castle, t) /\ t.finished = "Complete" /\ Arrives(t)
<1> DEFINE s == Prepared(castle)
           t == Stepped(s, w)
<1>1. /\ Sound(s) /\ Kept(s) /\ SamePages(castle, s) /\ s.aloc # None
      /\ s.aloc # castle.aloc => castle.aloc \notin BattleNodes /\ s.aloc = Chain[2]
      /\ Carries(castle, s) /\ s.finished = castle.finished
  BY PreparedSound, PreparedKeeps, PreparedCarries
<1>2. Chain[2] \notin BattleNodes /\ None \notin BattleNodes
  BY CastleConstants, ChainFacts
<1>3. \/ /\ job' = [step |-> "quest", draft |-> t] /\ castle' = castle
         /\ t.aloc = None /\ Unfinished(t) = {}
      \/ /\ job' = Idle /\ castle' = t
         /\ ~ (t.aloc = None /\ Unfinished(t) = {})
  BY DEF TakeStep, IsFinale
<1> HIDE DEF s
<1>4. /\ s.aloc \notin BattleNodes => w
      /\ castle.aloc \in BattleNodes => s.aloc = castle.aloc
      /\ ~ w => s.page[s.aloc] # "victory"
  BY <1>1, <1>2 DEF SamePages
<1>5. /\ Carries(s, t) /\ EndsRightly(s, t)
      /\ s.aloc \in BattleNodes /\ w /\ s.pending = None => s.aloc \in Victories(t)
  BY <1>1, <1>4, SteppedCarries
<1> HIDE DEF t
<1>6. /\ Carries(castle, t) /\ EndsRightly(castle, t)
      /\ castle.aloc \in BattleNodes /\ w /\ castle.pending = None =>
            castle.aloc \in Victories(t)
  BY <1>1, <1>4, <1>5, CarriesOn DEF SamePages, EndsRightly
<1> QED  BY <1>3, <1>6 DEF EndsRightly

----------------------------------------------------------------------------
(* The accounts of the castle.                                             *)

Drafted == job.step \in {"quest", "panorama", "save"}

Fog == FogOK(castle) /\ (Drafted => FogOK(job.draft))

(* A battle won has its victory page, in the row or in the row that is to  *)
(* replace it, as soon as its result has been applied.                     *)
Arrived ==
    LET applied == job.step \in {"reward", "apply", "advance"} /\ job.won
    IN  /\ fought \subseteq BattleNodes
        /\ ~ Drafted => fought \ (IF applied THEN {castle.active} ELSE {})
                            \subseteq Victories(castle)
        /\ Drafted => fought \subseteq Victories(job.draft)

(* The quest and the report follow the end of the castle, one commit after *)
(* the other; nothing else is under way when it has ended.                 *)
Told ==
    /\ ~ Drafted => /\ castle.finished = "Complete" <=> quest \in {"report", "closed"}
                    /\ quest = "report" <=> report = "due"
                    /\ quest = "closed" <=> report = "told"
    /\ battle # None \/ job.step # "idle" => castle.finished = "no"
    /\ Drafted => job.draft.finished = "Complete"
    /\ job.step = "quest" => quest = "castle" /\ report = "no"
    /\ job.step = "panorama" => quest = "report" /\ report = "no"
    /\ job.step = "save" => quest = "report" /\ report = "due"

(* Battles are counted by the server alone.                                *)
Score ==
    /\ tell = "nothing" /\ WinsAreBattles
    /\ Drafted => job.draft.wins = castle.wins /\ job.draft.streak = castle.streak

Undisturbed == MaxCrashes = 0
Honest == Undisturbed /\ "gameend" \notin Habits

Accounts ==
    /\ crashes \in Nat /\ won \in Nat /\ Fog
    /\ Undisturbed => Arrived /\ Told
    /\ Honest => Score

(* A request without work left behind it.                                  *)
LEMMA CarriedOver ==
    ASSUME Accounts, Carries(castle, castle'), castle'.finished = castle.finished,
           job.step \in {"idle", "enter"}, job' = Idle,
           battle' = battle \/ castle.finished = "no",
           UNCHANGED <<quest, report, tell, won, fought, crashes>>
    PROVE  Accounts'
<1>1. /\ job'.step = "idle" /\ ~ Drafted /\ ~ Drafted'
      /\ ~ (job.step \in {"reward", "apply", "advance"})
  BY DEF Idle, Drafted
<1>2. Fog'  BY <1>1 DEF Accounts, Fog, Carries, FogOK, Reached
<1>3. Arrived => Arrived'
  BY <1>1 DEF Arrived, Carries, Victories
<1>4. Told => Told'  BY <1>1 DEF Told
<1>5. Score => Score'  BY <1>1 DEF Score, WinsAreBattles, Carries
<1> QED  BY <1>2, <1>3, <1>4, <1>5 DEF Accounts, Undisturbed, Honest

LEMMA FreshAccounts ==
    ASSUME Fresh, crashes \in Nat, won = 0
    PROVE  Accounts
<1>1. /\ castle.page = [n \in Nodes |-> FirstPage(n)] /\ castle.done = {}
      /\ castle.seen = {Chain[1], Chain[2]} /\ castle.finished = "no"
      /\ castle.wins = 0 /\ castle.streak = 0
  BY DEF Fresh, NewCastle
<1>2. job.step = "idle" /\ ~ Drafted  BY DEF Fresh, Idle, Drafted
<1>3. Fog
  <2>1. Pos(Chain[1]) = 1 /\ Pos(Chain[2]) = 2  BY PosFacts, ChainFacts
  <2>2. Reached(castle, Chain[1]) /\ Reached(castle, Chain[2])
    BY <2>1 DEF Reached
  <2> QED  BY <1>1, <1>2, <2>2 DEF Fog, FogOK
<1>4. Arrived  BY <1>2 DEF Arrived, Fresh
<1>5. Told  BY <1>1, <1>2 DEF Told, Fresh
<1>6. Score
  <2>1. ~ (job.step \in {"reward", "apply"} /\ job.won)  BY <1>2
  <2>2. tell = "nothing"  BY DEF Fresh
  <2>3. (IF job.step \in {"reward", "apply"} /\ job.won THEN 1 ELSE 0) = 0
    BY <2>1, Zenon
  <2>4. \A c : c = 0 => castle.wins = won - c  BY <1>1
  <2>5. castle.streak <= castle.wins  BY <1>1
  <2>6. WinsAreBattles  BY <2>3, <2>4, <2>5, Zenon DEF WinsAreBattles
  <2> QED  BY <1>2, <2>2, <2>6 DEF Score
<1> QED  BY <1>3, <1>4, <1>5, <1>6 DEF Accounts

LEMMA AcceptKeepsAccounts ==
    ASSUME Fresh, Accounts, AcceptQuest, castle \in Rows
    PROVE  Accounts'
<1> DEFINE t == [castle EXCEPT !.started = TRUE]
<1>1. /\ castle' = t /\ quest' = "castle" /\ job' = [step |-> "enter"]
      /\ UNCHANGED <<report, battle, tell, fought, won, crashes>>
  BY DEF AcceptQuest, player
<1>2. /\ t.page = castle.page /\ t.done = castle.done /\ t.seen = castle.seen
      /\ t.finished = castle.finished /\ t.wins = castle.wins
      /\ t.streak = castle.streak
  BY DEF Rows
<1> HIDE DEF t
<1>3. Carries(castle, castle')
  BY <1>1, <1>2 DEF Carries, Victories, FogOK, Reached
<1>4. /\ job'.step = "enter" /\ ~ Drafted /\ ~ Drafted'
      /\ ~ (job.step \in {"reward", "apply", "advance"})
  BY <1>1 DEF Fresh, Idle, Drafted
<1>5. castle.finished = "no" /\ castle'.finished = "no"
  BY <1>1, <1>2 DEF Fresh, NewCastle
<1>6. Fog'  BY <1>3, <1>4 DEF Accounts, Fog, Carries, FogOK, Reached
<1>7. Arrived => Arrived'
  BY <1>1, <1>3, <1>4 DEF Arrived, Carries, Victories
<1>8. Told'  BY <1>1, <1>4, <1>5 DEF Told, Fresh
<1>9. Score => Score'
  BY <1>1, <1>3, <1>4 DEF Score, WinsAreBattles, Carries
<1> QED  BY <1>1, <1>6, <1>7, <1>8, <1>9 DEF Accounts, Undisturbed, Honest

LEMMA FreshAccountsStep ==
    ASSUME Fresh, Accounts, castle \in Rows, [Next]_vars
    PROVE  Accounts'
<1>1. AcceptQuest \/ UNCHANGED vars
  <2>1. job.step = "idle" /\ Free  BY DEF Fresh, Idle, Free
  <2> QED
    BY <2>1 DEF Fresh, Next, Work, StartCamp, Read, ConvDone, Start, Report, Forfeit,
       GameEnd, Crash, Enter, Reward, Apply, Advance, Quest, Panorama, Save,
       StartLoc, FinishLoc, BattleEnds, InCastle
<1>2. CASE AcceptQuest  BY <1>2, AcceptKeepsAccounts
<1>3. CASE UNCHANGED vars
  <2>1. /\ UNCHANGED <<castle, quest, report, job, battle, tell, won, fought, crashes>>
    BY <1>3 DEF vars
  <2>2. Carries(castle, castle')  BY <2>1 DEF Carries
  <2>3. job = Idle /\ job.step = "idle"  BY DEF Fresh, Idle
  <2> QED  BY <2>1, <2>2, <2>3, CarriedOver
<1> QED  BY <1>1, <1>2, <1>3

(* The end of the castle: the quest, the report and the row, one after the *)
(* other.                                                                  *)
LEMMA FinaleKeepsAccounts ==
    ASSUME job \in Jobs, battle = None, Accounts, Quest \/ Panorama \/ Save
    PROVE  Accounts'
<1>1. UNCHANGED <<battle, tell, won, fought, crashes>>
  BY DEF Quest, Panorama, Save, player
<1>2. CASE Quest
  <2>1. /\ job.step = "quest" /\ job' = [job EXCEPT !.step = "panorama"]
        /\ quest' = (IF quest = "castle" THEN "report" ELSE "closed")
        /\ UNCHANGED <<castle, report>>
    BY <1>2 DEF Quest
  <2>2. job'.step = "panorama" /\ job'.draft = job.draft /\ Drafted /\ Drafted'
    BY <2>1 DEF Jobs, Drafted
  <2>3. Fog'  BY <2>1, <2>2 DEF Accounts, Fog, FogOK, Reached
  <2>4. Arrived => Arrived'  BY <1>1, <2>1, <2>2 DEF Arrived, Victories
  <2>5. Told => Told'  BY <1>1, <2>1, <2>2 DEF Told
  <2>6. Score => Score'  BY <1>1, <2>1, <2>2 DEF Score, WinsAreBattles
  <2> QED  BY <1>1, <2>3, <2>4, <2>5, <2>6 DEF Accounts, Undisturbed, Honest
<1>3. CASE Panorama
  <2>1. /\ job.step = "panorama" /\ job' = [job EXCEPT !.step = "save"]
        /\ report' = "due" /\ UNCHANGED <<castle, quest>>
    BY <1>3 DEF Panorama
  <2>2. job'.step = "save" /\ job'.draft = job.draft /\ Drafted /\ Drafted'
    BY <2>1 DEF Jobs, Drafted
  <2>3. Fog'  BY <2>1, <2>2 DEF Accounts, Fog, FogOK, Reached
  <2>4. Arrived => Arrived'  BY <1>1, <2>1, <2>2 DEF Arrived, Victories
  <2>5. Told => Told'  BY <1>1, <2>1, <2>2 DEF Told
  <2>6. Score => Score'  BY <1>1, <2>1, <2>2 DEF Score, WinsAreBattles
  <2> QED  BY <1>1, <2>3, <2>4, <2>5, <2>6 DEF Accounts, Undisturbed, Honest
<1>4. CASE Save
  <2>1. /\ job.step = "save" /\ job' = Idle /\ castle' = job.draft
        /\ UNCHANGED <<quest, report>>
    BY <1>4 DEF Save, journal
  <2>2. /\ job'.step = "idle" /\ Drafted /\ ~ Drafted'
        /\ ~ (job.step \in {"reward", "apply", "advance"})
    BY <2>1 DEF Idle, Drafted
  <2>3. Fog'  BY <2>1, <2>2 DEF Accounts, Fog, FogOK, Reached
  <2>4. Arrived => Arrived'  BY <1>1, <2>1, <2>2 DEF Arrived, Victories
  <2>5. Told => Told'  BY <1>1, <2>1, <2>2 DEF Told
  <2>6. Score => Score'  BY <1>1, <2>1, <2>2 DEF Score, WinsAreBattles
  <2> QED  BY <1>1, <2>3, <2>4, <2>5, <2>6 DEF Accounts, Undisturbed, Honest
<1> QED  BY <1>2, <1>3, <1>4

(* A step of the castle that is applied: at once or in the draft.          *)
LEMMA TakenKeepsAccounts ==
    ASSUME Accounts, Sound(castle), Kept(castle), NEW w \in BOOLEAN, TakeStep(w),
           castle.aloc # None, battle = None, ~ Drafted,
           ~ w => castle.aloc \in BattleNodes /\ castle.page[castle.aloc] # "victory",
           Undisturbed /\ Arrived => fought \ (IF castle.aloc \in BattleNodes /\ w
                                                  /\ castle.pending = None
                                               THEN {castle.aloc} ELSE {})
                                         \subseteq Victories(castle),
           Undisturbed /\ Told =>
               quest = "castle" /\ report = "no" /\ castle.finished = "no",
           Honest /\ Score => castle.wins = won,
           UNCHANGED <<quest, report, battle, tell, won, fought, crashes>>
    PROVE  Accounts'
<1> DEFINE Arrives(t) == castle.aloc \in BattleNodes /\ w /\ castle.pending = None
                            => castle.aloc \in Victories(t)
<1>1. \/ /\ job' = Idle /\ Carries(castle, castle')
         /\ castle'.finished = castle.finished /\ Arrives(castle')
      \/ \E t : /\ job' = [step |-> "quest", draft |-> t] /\ castle' = castle
                /\ Carries(castle, t) /\ t.finished = "Complete" /\ Arrives(t)
  BY TakeStepCarries
<1>2. ASSUME NEW t, Carries(castle, t), Arrives(t), Undisturbed, Arrived
      PROVE  fought \subseteq Victories(t) /\ fought \subseteq BattleNodes
  BY <1>2 DEF Carries, Arrived
<1> HIDE DEF Arrives
<1>3. CASE /\ job' = Idle /\ Carries(castle, castle')
           /\ castle'.finished = castle.finished /\ Arrives(castle')
  <2>1. /\ job'.step = "idle" /\ ~ Drafted'
        /\ ~ (job'.step \in {"reward", "apply", "advance"})
    BY <1>3 DEF Idle, Drafted
  <2>2. Fog'  BY <1>3, <2>1 DEF Accounts, Fog, Carries, FogOK, Reached
  <2>3. Undisturbed /\ Arrived => Arrived'
    <3> SUFFICES ASSUME Undisturbed, Arrived PROVE Arrived'  OBVIOUS
    <3>1. fought \subseteq Victories(castle') /\ fought \subseteq BattleNodes
      BY <1>2, <1>3
    <3> QED  BY <2>1, <3>1 DEF Arrived, Victories
  <2>4. Undisturbed /\ Told => Told'  BY <1>3, <2>1 DEF Told
  <2>5. Honest /\ Score => Score'
    <3> SUFFICES ASSUME Honest, Score PROVE Score'  OBVIOUS
    <3>1. castle'.wins = won' /\ castle'.streak <= castle'.wins
      BY <1>3 DEF Carries, Score, WinsAreBattles
    <3>2. (IF job.step \in {"reward", "apply"} /\ job.won THEN 1 ELSE 0)' = 0
      BY <2>1, Zenon
    <3>3. \A c : c = 0 => castle'.wins = won' - c  BY <3>1 DEF Accounts
    <3>4. WinsAreBattles'  BY <3>1, <3>2, <3>3, Zenon DEF WinsAreBattles
    <3> QED  BY <2>1, <3>4 DEF Score
  <2> QED  BY <2>2, <2>3, <2>4, <2>5 DEF Accounts, Undisturbed, Honest
<1>4. ASSUME NEW t, job' = [step |-> "quest", draft |-> t], castle' = castle,
             Carries(castle, t), t.finished = "Complete", Arrives(t)
      PROVE  Accounts'
  <2>1. /\ job'.step = "quest" /\ job'.draft = t /\ Drafted'
        /\ ~ (job'.step \in {"reward", "apply", "advance"})
    BY <1>4 DEF Drafted
  <2>2. Fog'  BY <1>4, <2>1 DEF Accounts, Fog, Carries, FogOK, Reached
  <2>3. Undisturbed /\ Arrived => Arrived'
    <3> SUFFICES ASSUME Undisturbed, Arrived PROVE Arrived'  OBVIOUS
    <3>1. fought \subseteq Victories(t) /\ fought \subseteq BattleNodes
      BY <1>2, <1>4
    <3> QED  BY <2>1, <3>1 DEF Arrived, Victories
  <2>4. Undisturbed /\ Told => Told'  BY <1>4, <2>1 DEF Told
  <2>5. Honest /\ Score => Score'
    <3> SUFFICES ASSUME Honest, Score PROVE Score'  OBVIOUS
    <3>1. castle'.wins = won' /\ castle'.streak <= castle'.wins
      BY <1>4 DEF Score, WinsAreBattles
    <3>2. (IF job.step \in {"reward", "apply"} /\ job.won THEN 1 ELSE 0)' = 0
      BY <2>1, Zenon
    <3>3. \A c : c = 0 => castle'.wins = won' - c  BY <3>1 DEF Accounts
    <3>4. WinsAreBattles'  BY <3>1, <3>2, <3>3, Zenon DEF WinsAreBattles
    <3>5. t.wins = castle'.wins /\ t.streak = castle'.streak
      BY <1>4 DEF Carries
    <3> QED  BY <2>1, <3>4, <3>5 DEF Score
  <2> QED  BY <2>2, <2>3, <2>4, <2>5 DEF Accounts, Undisturbed, Honest
<1> QED  BY <1>1, <1>3, <1>4

(* A battle is counted when its result is applied, and not before.         *)
LEMMA BattleKeepsAccounts ==
    ASSUME IInv, Underway, Accounts, Reward \/ Apply \/ \E w \in BOOLEAN : BattleEnds(w)
    PROVE  Accounts'
<1>1. /\ castle \in Rows /\ UNCHANGED <<quest, report, crashes>>
      /\ job.step \in {"reward", "apply", "advance"} => job.won \in BOOLEAN
  BY JobFacts DEF IInv, TypeOK, Reward, Apply, BattleEnds, journal, player
<1>2. ASSUME NEW w \in BOOLEAN, BattleEnds(w) PROVE Accounts'
  <2>1. /\ job = Idle /\ battle # None /\ battle' = None
        /\ job' = [step |-> "reward", won |-> w] /\ castle' = castle
        /\ fought' = (IF w THEN fought \cup {battle} ELSE fought)
        /\ won' = (IF w THEN won + 1 ELSE won)
        /\ "gameend" \notin Habits => tell' = tell
    BY <1>2 DEF BattleEnds, Free
  <2>2. battle = castle.active /\ castle.active \in BattleNodes
    BY <2>1 DEF Underway, AtTheBattle
  <2>3. /\ job'.step = "reward" /\ job'.won = w /\ ~ Drafted /\ ~ Drafted'
        /\ ~ (job.step \in {"reward", "apply", "advance"}) /\ job.step = "idle"
    BY <2>1 DEF Idle, Drafted
  <2>4. Fog'  BY <2>1, <2>3 DEF Accounts, Fog, FogOK, Reached
  <2>5. Arrived => Arrived'
    <3> SUFFICES ASSUME Arrived PROVE Arrived'  OBVIOUS
    <3>1. fought \subseteq Victories(castle) /\ fought \subseteq BattleNodes
      BY <2>3 DEF Arrived
    <3>2. Victories(castle)' = Victories(castle)  BY <2>1 DEF Victories
    <3> QED  BY <2>1, <2>2, <2>3, <3>1, <3>2 DEF Arrived
  <2>6. Told => Told'  BY <1>1, <2>1, <2>3 DEF Told
  <2>7. Honest /\ Score => Score'
    <3> SUFFICES ASSUME Honest, Score PROVE Score'  OBVIOUS
    <3>1. (IF job.step \in {"reward", "apply"} /\ job.won THEN 1 ELSE 0) = 0
      BY <2>3, Zenon
    <3>2. castle.wins = won - 0 /\ castle.streak <= castle.wins
      BY <3>1, Zenon DEF Score, WinsAreBattles
    <3>3. WinsAreBattles'  BY <2>1, <2>3, <3>2 DEF WinsAreBattles, Accounts
    <3> QED  BY <2>1, <2>3, <3>3 DEF Score, Honest
  <2>8. won' \in Nat  BY <2>1 DEF Accounts
  <2> QED  BY <1>1, <2>4, <2>5, <2>6, <2>7, <2>8 DEF Accounts, Undisturbed, Honest
<1>3. CASE Reward
  <2> DEFINE t == [castle EXCEPT !.claimed = @ \cup {castle.active}]
  <2>1. /\ job.step = "reward" /\ job' = [job EXCEPT !.step = "apply"]
        /\ castle' = (IF job.won THEN t ELSE castle)
        /\ UNCHANGED <<battle, fought, won, tell>>
    BY <1>3 DEF Reward, player
  <2>2. /\ t.page = castle.page /\ t.done = castle.done /\ t.seen = castle.seen
        /\ t.active = castle.active /\ t.finished = castle.finished
        /\ t.wins = castle.wins /\ t.streak = castle.streak
    BY <1>1 DEF Rows
  <2> HIDE DEF t
  <2>3. /\ castle'.page = castle.page /\ castle'.done = castle.done
        /\ castle'.seen = castle.seen /\ castle'.active = castle.active
        /\ castle'.finished = castle.finished /\ castle'.wins = castle.wins
        /\ castle'.streak = castle.streak
    BY <2>1, <2>2
  <2>4. /\ job'.step = "apply" /\ job'.won = job.won /\ ~ Drafted /\ ~ Drafted'
    BY <2>1 DEF IInv, Jobs, Drafted
  <2>5. Fog'  BY <2>3, <2>4 DEF Accounts, Fog, FogOK, Reached
  <2>6. Arrived => Arrived'
    BY <2>1, <2>3, <2>4 DEF Arrived, Victories
  <2>7. Told => Told'  BY <1>1, <2>1, <2>3, <2>4 DEF Told
  <2>8. Score => Score'  BY <1>1, <2>1, <2>3, <2>4 DEF Score, WinsAreBattles
  <2> QED  BY <1>1, <2>1, <2>5, <2>6, <2>7, <2>8 DEF Accounts, Undisturbed, Honest
<1>4. CASE Apply
  <2> DEFINE t == Counted(castle, job.won)
  <2>1. /\ job.step = "apply" /\ job' = [job EXCEPT !.step = "advance"]
        /\ castle' = t /\ UNCHANGED <<battle, fought, won, tell>>
    BY <1>4 DEF Apply, player
  <2>2. job.won \in BOOLEAN  BY <1>1, <2>1
  <2>3. /\ t.page = castle.page /\ t.done = castle.done /\ t.seen = castle.seen
        /\ t.active = castle.active /\ t.finished = castle.finished
        /\ t.wins = castle.wins + (IF job.won THEN 1 ELSE 0)
        /\ t.streak = (IF job.won THEN castle.streak + 1 ELSE 0)
        /\ castle.wins \in Nat /\ castle.streak \in Nat
    BY <1>1, <2>2 DEF Counted, Rows
  <2> HIDE DEF t
  <2>4. /\ job'.step = "advance" /\ job'.won = job.won /\ ~ Drafted /\ ~ Drafted'
    BY <2>1 DEF IInv, Jobs, Drafted
  <2>5. Fog'  BY <2>1, <2>3, <2>4 DEF Accounts, Fog, FogOK, Reached
  <2>6. Arrived => Arrived'
    BY <2>1, <2>3, <2>4 DEF Arrived, Victories
  <2>7. Told => Told'  BY <1>1, <2>1, <2>3, <2>4 DEF Told
  <2>8. Score => Score'
    <3> SUFFICES ASSUME Score PROVE Score'  OBVIOUS
    <3>1. castle.wins = won - (IF job.won THEN 1 ELSE 0) /\ castle.streak <= castle.wins
      BY <2>1, <2>2 DEF Score, WinsAreBattles
    <3>2. castle'.wins = won' /\ castle'.streak <= castle'.wins
      BY <2>1, <2>2, <2>3, <3>1 DEF Accounts
    <3>3. WinsAreBattles'  BY <2>1, <2>4, <3>2 DEF WinsAreBattles, Accounts
    <3> QED  BY <2>1, <2>4, <3>3 DEF Score
  <2> QED  BY <1>1, <2>1, <2>5, <2>6, <2>7, <2>8 DEF Accounts, Undisturbed, Honest
<1> QED  BY <1>2, <1>3, <1>4

LEMMA UnderwayAccounts ==
    ASSUME Plays, IInv, Underway, Accounts, [Next]_vars
    PROVE  Accounts'
<1>1. /\ Sound(castle) /\ castle \in Rows /\ Kept(castle) /\ quest # "none"
      /\ job \in Jobs
      /\ job.step \in {"reward", "apply", "advance"} => job.won \in BOOLEAN
  BY JobFacts DEF IInv, TypeOK, Sound, Underway
<1>2. None \notin BattleNodes  BY CastleConstants
<1>3. /\ Free <=> job.step = "idle"
      /\ job.step \in {"enter", "reward", "apply", "advance", "quest",
                       "panorama", "save"} => battle = None
  BY JobFacts DEF IInv, SceneOK, Idle, Free
<1>4. ASSUME InCastle
      PROVE  /\ job = Idle /\ job.step = "idle" /\ ~ Drafted /\ battle = None
             /\ castle.finished = "no"
  BY <1>3, <1>4 DEF InCastle, Free, Plays, Drafted
<1>5. CASE AcceptQuest
  BY <1>1, <1>5 DEF AcceptQuest
<1>6. CASE StartCamp
  <2> DEFINE s == Prepared(castle)
  <2>1. /\ castle.done \subseteq {Chain[1]} /\ InCastle
        /\ UNCHANGED <<quest, report, job, battle, tell, won, fought, crashes>>
        /\ castle' = Followed(Prepared([castle EXCEPT !.started = TRUE]), 1)
    BY <1>6 DEF StartCamp, Plays, player, journal
  <2>2. [castle EXCEPT !.started = TRUE] = castle
    BY <1>1 DEF Rows, Kept, Paged
  <2>3. /\ Sound(s) /\ SamePages(castle, s) /\ Carries(castle, s)
        /\ s.finished = castle.finished
    BY <1>1, PreparedSound, PreparedKeeps, PreparedCarries
  <2>4. castle' = Followed(s, 1)  BY <2>1, <2>2
  <2> HIDE DEF s
  <2>5. Carries(s, castle') /\ castle'.finished = s.finished
    BY <2>1, <2>3, <2>4, FollowedCarries DEF SamePages
  <2>6. Carries(castle, castle')  BY <2>3, <2>5, CarriesOn
  <2> QED  BY <1>4, <2>1, <2>3, <2>5, <2>6, CarriedOver
<1>7. CASE Read
  <2>1. /\ castle' = Prepared(castle) /\ Free
        /\ UNCHANGED <<quest, report, job, battle, tell, won, fought, crashes>>
    BY <1>7 DEF Read, journal, player
  <2>2. Carries(castle, castle') /\ castle'.finished = castle.finished
    BY <1>1, <2>1, PreparedCarries
  <2> QED  BY <1>3, <2>1, <2>2, CarriedOver DEF Free
<1>8. CASE ConvDone
  <2> DEFINE n == castle.aloc
  <2>1. /\ n # None /\ Talks(castle, n) /\ InCastle
        /\ UNCHANGED <<quest, report, battle, tell, won, fought, crashes>>
    BY <1>8 DEF ConvDone, Plays, journal, player
  <2>2. Here(castle) = n  BY <2>1 DEF Here
  <2>3. CASE castle.page[n] = "defeat"
    <3>1. castle' = Restored(castle, n) /\ UNCHANGED job
      BY <1>8, <2>1, <2>2, <2>3 DEF ConvDone
    <3>2. Carries(castle, castle') /\ castle'.finished = castle.finished
      BY <1>1, <2>1, <2>3, <3>1, RestoredCarries
    <3> QED  BY <1>4, <2>1, <3>1, <3>2, CarriedOver
  <2>4. CASE castle.page[n] # "defeat"
    <3>1. TakeStep(TRUE)  BY <1>8, <2>1, <2>2, <2>4 DEF ConvDone
    <3>2. ASSUME Undisturbed, Arrived
          PROVE  fought \subseteq Victories(castle)
      <4>1. ~ (job.step \in {"reward", "apply", "advance"})  BY <1>4, <2>1
      <4> QED  BY <1>4, <2>1, <3>2, <4>1 DEF Arrived
    <3>3. ASSUME Undisturbed, Told
          PROVE  quest = "castle" /\ report = "no" /\ castle.finished = "no"
      BY <1>1, <1>4, <2>1, <3>3 DEF Told, IInv, TypeOK
    <3>4. ASSUME Honest, Score PROVE castle.wins = won
      <4>1. (IF job.step \in {"reward", "apply"} /\ job.won THEN 1 ELSE 0) = 0
        BY <1>4, <2>1, Zenon
      <4>2. castle.wins = won - 0  BY <3>4, <4>1, Zenon DEF Score, WinsAreBattles
      <4> QED  BY <4>2 DEF Accounts
    <3> QED
      BY <1>1, <1>4, <2>1, <3>1, <3>2, <3>3, <3>4, TakenKeepsAccounts
  <2> QED  BY <2>3, <2>4
<1>9. CASE Enter
  <2> DEFINE s == Prepared(castle)
             n == Here(s)
  <2>1. /\ job.step = "enter" /\ castle' = Followed(s, Pos(n)) /\ job' = Idle
        /\ UNCHANGED <<quest, report, battle, tell, won, fought, crashes>>
    BY <1>9 DEF Enter, journal, player
  <2>2. castle.done = {}  BY <2>1 DEF Underway
  <2>3. /\ Sound(s) /\ SamePages(castle, s) /\ s.aloc = Chain[2]
        /\ Carries(castle, s) /\ s.finished = castle.finished
    BY <1>1, <2>2, PreparedSound, PreparedKeeps, PreparedCarries
  <2> HIDE DEF s
  <2>4. n = Chain[2] /\ Pos(n) = 2
    BY <2>3, ChainFacts, PosFacts DEF Here
  <2> HIDE DEF n
  <2>5. Carries(s, castle') /\ castle'.finished = s.finished
    BY <2>1, <2>2, <2>3, <2>4, FollowedCarries DEF SamePages
  <2>6. Carries(castle, castle')  BY <2>3, <2>5, CarriesOn
  <2> QED  BY <2>1, <2>3, <2>5, <2>6, CarriedOver
<1>10. CASE Start
  <2> DEFINE t == [castle EXCEPT !.active = Here(castle)]
  <2>1. /\ InCastle /\ castle' = t
        /\ UNCHANGED <<quest, report, job, tell, won, fought, crashes>>
    BY <1>10 DEF Start, journal
  <2>2. /\ t.page = castle.page /\ t.done = castle.done /\ t.seen = castle.seen
        /\ t.finished = castle.finished /\ t.wins = castle.wins
        /\ t.streak = castle.streak
    BY <1>1 DEF Rows
  <2> HIDE DEF t
  <2>3. Carries(castle, castle')
    BY <2>1, <2>2 DEF Carries, Victories, FogOK, Reached
  <2> QED  BY <1>4, <2>1, <2>2, <2>3, CarriedOver
<1>11. ASSUME NEW n \in Nodes, StartLoc(n) PROVE Accounts'
  <2> DEFINE s == Prepared(castle)
             f == Chain[Frontier(s)]
             r == ReturnNode(s, f)
             t == [s EXCEPT !.aloc = None, !.last = r]
  <2>1. /\ InCastle
        /\ UNCHANGED <<quest, report, job, battle, tell, won, fought, crashes>>
    BY <1>11 DEF StartLoc, journal
  <2>2. \/ castle' = MovedTo(s, n)
        \/ ~ MayEnter(s, n) /\ castle' = Revealed(t)
    BY <1>11 DEF StartLoc
  <2>3. Sound(s) /\ Carries(castle, s) /\ s.finished = castle.finished
    BY <1>1, PreparedSound, PreparedCarries
  <2> HIDE DEF s
  <2>4. Carries(s, castle') /\ castle'.finished = s.finished
    <3>1. CASE castle' = MovedTo(s, n)
      BY <2>3, <3>1, MovedToCarries DEF Sound
    <3>2. CASE ~ MayEnter(s, n) /\ castle' = Revealed(t)
      <4>1. Frontier(s) \in 2 .. Len(Chain)
        BY <3>2, PosFacts, FrontierFacts, ChainFacts DEF MayEnter
      <4>2. f \in Nodes  BY <4>1, ChainFacts
      <4> HIDE DEF f
      <4>3. r \in Nodes  BY <4>2, ReturnFacts
      <4> HIDE DEF r
      <4>4. /\ t \in Rows /\ t.page = s.page /\ t.done = s.done /\ t.seen = s.seen
            /\ t.finished = s.finished /\ t.wins = s.wins /\ t.streak = s.streak
        BY <2>3, <4>3 DEF Sound, Rows
      <4> HIDE DEF t
      <4>5. Carries(s, t)  BY <4>4 DEF Carries, Victories, FogOK, Reached
      <4> QED  BY <3>2, <4>4, <4>5, RevealedCarries, CarriesOn
    <3> QED  BY <2>2, <3>1, <3>2
  <2>5. Carries(castle, castle')  BY <2>3, <2>4, CarriesOn
  <2> QED  BY <1>4, <2>1, <2>3, <2>4, <2>5, CarriedOver
<1>12. ASSUME NEW n \in Nodes, FinishLoc(n) PROVE FALSE
  BY <1>12 DEF FinishLoc, Plays
<1>13. ASSUME NEW w \in BOOLEAN, BattleEnds(w) PROVE Accounts'
  BY <1>13, BattleKeepsAccounts
<1>14. CASE Reward \/ Apply
  BY <1>14, BattleKeepsAccounts
<1>15. CASE Advance
  <2>1. /\ job.step = "advance" /\ TakeStep(job.won) /\ job.won \in BOOLEAN
        /\ UNCHANGED <<quest, report, battle, tell, won, fought, crashes>>
    BY <1>1, <1>15 DEF Advance, journal, player
  <2>2. /\ castle.aloc \in BattleNodes /\ castle.page[castle.aloc] = "battle"
        /\ castle.active = castle.aloc /\ battle = None
    BY <1>3, <2>1 DEF Underway, AtTheBattle
  <2>3. castle.pending = None  BY <1>1, <2>2, NothingPending
  <2>4. castle.aloc # None /\ ~ Drafted  BY <1>2, <2>1, <2>2 DEF Drafted
  <2>5. ASSUME Undisturbed, Arrived
        PROVE  fought \ (IF castle.aloc \in BattleNodes /\ job.won
                            /\ castle.pending = None
                         THEN {castle.aloc} ELSE {}) \subseteq Victories(castle)
    BY <2>1, <2>2, <2>3, <2>4, <2>5 DEF Arrived
  <2>6. ASSUME Undisturbed, Told
        PROVE  quest = "castle" /\ report = "no" /\ castle.finished = "no"
    BY <1>1, <2>1, <2>4, <2>6 DEF Told, IInv, TypeOK
  <2>7. ASSUME Honest, Score PROVE castle.wins = won
    <3>1. (IF job.step \in {"reward", "apply"} /\ job.won THEN 1 ELSE 0) = 0
      BY <2>1, Zenon
    <3>2. castle.wins = won - 0  BY <2>7, <3>1, Zenon DEF Score, WinsAreBattles
    <3> QED  BY <3>2 DEF Accounts
  <2> QED
    BY <1>1, <2>1, <2>2, <2>4, <2>5, <2>6, <2>7, TakenKeepsAccounts
<1>16. CASE GameEnd
  <2> DEFINE t == Counted(castle, tell = "won")
  <2>1. /\ castle' = t /\ Free /\ tell # "nothing"
        /\ UNCHANGED <<quest, report, job, battle, won, fought, crashes>>
    BY <1>16 DEF GameEnd, journal
  <2>2. (tell = "won") \in BOOLEAN  OBVIOUS
  <2>3. /\ t.page = castle.page /\ t.done = castle.done /\ t.seen = castle.seen
        /\ t.active = castle.active /\ t.finished = castle.finished
    BY <1>1, <2>2 DEF Counted, Rows
  <2> HIDE DEF t
  <2>4. job.step = "idle" /\ ~ Drafted /\ ~ Drafted'
    BY <1>3, <2>1 DEF Drafted
  <2>5. Fog'  BY <2>1, <2>3, <2>4 DEF Accounts, Fog, FogOK, Reached
  <2>6. Arrived => Arrived'
    BY <2>1, <2>3, <2>4 DEF Arrived, Victories
  <2>7. Told => Told'  BY <2>1, <2>3, <2>4 DEF Told
  <2>8. ~ (Honest /\ Score)  BY <2>1 DEF Score
  <2> QED
    BY <2>1, <2>5, <2>6, <2>7, <2>8 DEF Accounts, Undisturbed, Honest
<1>17. CASE Quest \/ Panorama \/ Save
  <2>1. battle = None  BY <1>3, <1>17 DEF Quest, Panorama, Save
  <2> QED  BY <1>1, <1>17, <2>1, FinaleKeepsAccounts
<1>18. CASE Report
  <2>1. /\ report = "due" /\ report' = "told" /\ quest' = "closed" /\ Free
        /\ UNCHANGED <<castle, job, battle, tell, won, fought, crashes>>
    BY <1>18 DEF Report, player
  <2>2. job.step = "idle" /\ ~ Drafted /\ ~ Drafted'
    BY <1>3, <2>1 DEF Drafted
  <2>3. Fog'  BY <2>1, <2>2 DEF Accounts, Fog, FogOK, Reached
  <2>4. Arrived => Arrived'  BY <2>1, <2>2 DEF Arrived, Victories
  <2>5. Told => Told'  BY <2>1, <2>2 DEF Told
  <2>6. Score => Score'  BY <2>1, <2>2 DEF Score, WinsAreBattles
  <2> QED  BY <2>1, <2>3, <2>4, <2>5, <2>6 DEF Accounts, Undisturbed, Honest
<1>19. CASE Forfeit
  <2> DEFINE t == [castle EXCEPT !.finished = "Forfeit"]
  <2>1. /\ castle' = t /\ InCastle
        /\ UNCHANGED <<quest, report, job, battle, tell, won, fought, crashes>>
    BY <1>19 DEF Forfeit, journal, player
  <2>2. /\ t.page = castle.page /\ t.done = castle.done /\ t.seen = castle.seen
        /\ t.wins = castle.wins /\ t.streak = castle.streak
        /\ t.finished = "Forfeit"
    BY <1>1 DEF Rows
  <2> HIDE DEF t
  <2>3. job.step = "idle" /\ ~ Drafted /\ ~ Drafted' /\ battle = None
        /\ castle.finished = "no"
    BY <1>4, <2>1 DEF Drafted
  <2>4. Fog'  BY <2>1, <2>2, <2>3 DEF Accounts, Fog, FogOK, Reached
  <2>5. Arrived => Arrived'  BY <2>1, <2>2, <2>3 DEF Arrived, Victories
  <2>6. Told => Told'  BY <2>1, <2>2, <2>3 DEF Told
  <2>7. Score => Score'  BY <2>1, <2>2, <2>3 DEF Score, WinsAreBattles
  <2> QED  BY <2>1, <2>4, <2>5, <2>6, <2>7 DEF Accounts, Undisturbed, Honest
<1>20. CASE Crash
  <2>1. /\ crashes < MaxCrashes /\ crashes' = crashes + 1 /\ job' = Idle
        /\ castle' = castle /\ won' = won
    BY <1>20 DEF Crash
  <2>2. ~ Undisturbed  BY <2>1 DEF Accounts, Undisturbed
  <2>3. ~ Drafted'  BY <2>1 DEF Drafted, Idle
  <2>4. Fog'  BY <2>1, <2>3 DEF Accounts, Fog, FogOK, Reached
  <2> QED  BY <2>1, <2>2, <2>4 DEF Accounts, Undisturbed, Honest
<1>21. CASE UNCHANGED vars
  <2>1. UNCHANGED <<castle, quest, report, job, battle, tell, won, fought, crashes>>
    BY <1>21 DEF vars, journal, player
  <2>2. Fog'  BY <2>1 DEF Accounts, Fog, FogOK, Reached, Drafted
  <2>3. Arrived => Arrived'  BY <2>1 DEF Arrived, Victories, Drafted
  <2>4. Told => Told'  BY <2>1 DEF Told, Drafted
  <2>5. Score => Score'  BY <2>1 DEF Score, WinsAreBattles, Drafted
  <2> QED  BY <2>1, <2>2, <2>3, <2>4, <2>5 DEF Accounts, Undisturbed, Honest
<1> QED
  BY <1>5, <1>6, <1>7, <1>8, <1>9, <1>10, <1>11, <1>12, <1>13, <1>14, <1>15,
     <1>16, <1>17, <1>18, <1>19, <1>20, <1>21
  DEF Next, Work

(* The accounts of the castle are kept beside its books: the fog always,   *)
(* the quest and the victories as long as the server does not die, and the *)
(* score as long as the client reports no results of its own besides       *)
(* (campaign.py:3393-7248).                                                *)
THEOREM AccountsAreKept ==
    ASSUME Plays
    PROVE  Spec => []Accounts
<1>1. Init => Accounts
  <2> SUFFICES ASSUME Init PROVE Accounts  OBVIOUS
  <2>1. Fresh /\ crashes \in Nat /\ won = 0  BY DEF Init, Fresh
  <2> QED  BY <2>1, FreshAccounts
<1>2. (IInv /\ Books) /\ Accounts /\ [Next]_vars => Accounts'
  <2> SUFFICES ASSUME IInv, Books, Accounts, [Next]_vars PROVE Accounts'
    OBVIOUS
  <2>1. castle \in Rows  BY DEF IInv, TypeOK
  <2> QED  BY <2>1, FreshAccountsStep, UnderwayAccounts DEF Books
<1> QED  BY <1>1, <1>2, BooksAreKept, PTL DEF Spec

(* Nobody sees a node whose predecessors are not all finished: whatever    *)
(* the player leaves or forfeits and whenever the server dies, the fog     *)
(* that _reveal_crayburn_node lifts is never ahead of the finished nodes.  *)
THEOREM FogIsRight ==
    ASSUME Plays
    PROVE  Spec => []FogHolds
<1>1. TypeOK /\ Accounts => FogHolds
  <2> SUFFICES ASSUME TypeOK, Accounts, NEW n \in castle.seen
               PROVE  Pos(n) <= Frontier(castle)
    BY DEF FogHolds
  <2>1. n \in Nodes /\ Reached(castle, n)
    BY DEF TypeOK, Rows, Accounts, Fog, FogOK
  <2> QED  BY <2>1, ReachedIsWithin
<1> QED  BY <1>1, TypeCorrect, AccountsAreKept, PTL

(* The quest, its report and the castle agree between two requests, as     *)
(* long as the server does not die inside one: of the three commits of the *)
(* castle's end none is missing, and the report alone closes the quest     *)
(* (_advance_quest_campaign, _prepare_post_crayburn_report).               *)
THEOREM QuestKeepsUp ==
    ASSUME Plays, Undisturbed
    PROVE  Spec => []QuestFollowsCastle
<1>1. Accounts => QuestFollowsCastle
  <2> SUFFICES ASSUME Told, Free
               PROVE  /\ castle.finished = "Complete" <=> quest \in {"report", "closed"}
                      /\ quest = "report" <=> report = "due"
                      /\ quest = "closed" <=> report = "told"
    BY DEF Accounts, QuestFollowsCastle
  <2>1. ~ Drafted  BY DEF Free, Idle, Drafted
  <2> QED  BY <2>1 DEF Told
<1> QED  BY <1>1, AccountsAreKept, PTL

(* The result of a battle won arrives: when its request has been served    *)
(* the node is beaten or its victory is there to be heard, and it is never *)
(* offered as a battle again, as long as the server does not die between   *)
(* the end of the battle and the step of the castle.                       *)
THEOREM VictoriesArrive ==
    ASSUME Plays, Undisturbed
    PROVE  Spec => []VictoryArrives
<1>1. Accounts => VictoryArrives
  <2> SUFFICES ASSUME Arrived, Free, NEW n \in fought
               PROVE  n \in castle.done \/ castle.page[n] = "victory"
    BY DEF Accounts, VictoryArrives
  <2>1. job.step = "idle" /\ ~ Drafted  BY DEF Free, Idle, Drafted
  <2>2. n \in Victories(castle)  BY <2>1 DEF Arrived
  <2> QED  BY <2>2 DEF Victories
<1> QED  BY <1>1, AccountsAreKept, PTL

(* A battle is counted once: when the client does not report results of    *)
(* its own beside the server's, the row's wins are the battles won, and    *)
(* the streak never exceeds them (_apply_gameend, push_gameendnotify).     *)
THEOREM WinsAreCounted ==
    ASSUME Plays, Honest
    PROVE  Spec => []WinsAreBattles
<1>1. Accounts => WinsAreBattles  BY DEF Accounts, Score
<1> QED  BY <1>1, AccountsAreKept, PTL
=============================================================================
